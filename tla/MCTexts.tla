------------------------------ MODULE MCTexts ------------------------------
(***************************************************************************)
(* What reads text, for TLC: the names of chunks (Breakpoints), JSON, the  *)
(* compiler with the machine that runs its code, and the functions of the  *)
(* libraries, side by side.  The part is chosen at the beginning; each     *)
(* behaviour is one of that part, with the others at rest.  A part without *)
(* state of its own takes one input as its sample and computes with it.    *)
(* The variables of Breakpoints are its own.                               *)
(*                                                                         *)
(* What is computed by long chains of operators is given to the model as   *)
(* the value of a constant: TLC's account of what an expression costs      *)
(* would unfold every one of their calls.                                  *)
(***************************************************************************)
EXTENDS MCBreakpoints

CONSTANTS
  Globals,                         (* of Meaning *)
  FieldsPerFlush,                  (* of Compiler and Machine *)
  Parse(_, _), Meaning(_, _, _),   (* of Machine *)
  Holds(_, _)                      (* the laws of the libraries *)

VARIABLES
  part, sample,                                                             (* Laws *)
  encodeBuf, lastCall,                                                      (* Json *)
  chunk, proto, broken, status, frames, closures, upvals, tables, out       (* Machine *)

jsonVars == <<encodeBuf, lastCall>>
machineVars == <<chunk, proto, broken, status, frames, closures, upvals, tables, out>>

Inputs == INSTANCE JsonInputs
J == INSTANCE Json WITH Values <- Inputs!JsonValues, Texts <- Inputs!JsonTexts, MaxDepth <- 2,
                        SparseSafe <- 3, DefaultSize <- 13, last <- lastCall
Lua == INSTANCE Programs
X == INSTANCE Machine WITH Chunks <- Lua!Functions, Arguments <- Lua!Argument, Registers <- 12

Given == INSTANCE LibraryInputs
P == INSTANCE Patterns WITH MaxCaptures <- 3
Lex == INSTANCE Lexer
Bin == INSTANCE Chunks WITH IntSize <- 2, SizeSize <- 3, InstructionSize <- 2, NumberSize <- 2
Tup == INSTANCE Luabins WITH LINT <- 4, LSIZET <- 4, LNUMBER <- 8, MAXTUPLE <- 3, MAXTABLENESTING <- 2,
                             MAXASIZE <- 4, SaveMinAlloc <- 3

LuaGlobals == <<"f", "t", "g", "c", "i", "d">>

\* The compiler and the meaning of programs, as values for the constants of Machine.
LuaParse(params, body) == LET C == INSTANCE Compiler IN C!Parser(params, body)
LuaMeaning(stats, params, args) == LET M == INSTANCE Meaning IN M!Outcome(stats, params, args)

MachineAtRest ==
  /\ chunk = <<>> /\ proto = <<>> /\ broken = FALSE /\ status = "rest" /\ frames = <<>>
  /\ closures = <<>> /\ upvals = <<>> /\ tables = <<>> /\ out = <<>>

\* The inputs of the parts without state.
Samples ==
  [patterns   |-> [items : Given!Patterns, src : Given!Subjects],
   nopatterns |-> [p : Given!NoPatterns, src : {<<"a">>}],
   lexemes    |-> [l : [1..1 -> Given!Lexemes], g : [1..1 -> Given!Gaps]] \cup
                  {[l |-> <<l, m>>, g |-> <<g, <<>>>>] : l \in Given!Lexemes, m \in Given!Lexemes, g \in Given!Gaps},
   nolexemes  |-> [text : Given!NoTokens],
   quotable   |-> [s : Given!Quotable],
   protos     |-> [f : Given!Protos, strip : BOOLEAN, cuts : Given!Cuts],
   tuples     |-> [tuple : Given!Tuples, allocs : {0, 1, 2, 4, 8, 20}],
   notuples   |-> [bytes : Given!Garbage]]

\* The laws of the libraries.
LibraryLaw(law, s) ==
  CASE law = "SaveLoad" -> s.allocs = 20 => Tup!SaveLoad(s.tuple, s.allocs)
    [] law = "RefusesCut" -> s.allocs = 20 => Tup!RefusesCut(s.tuple, s.allocs)
    [] law = "RefusesGarbage" -> Tup!RefusesGarbage(s.bytes)
    [] law = "StaysInBuffer" -> Tup!StaysInBuffer(s.tuple, s.allocs)
    [] law = "UndumpReadsDump" -> Bin!UndumpReadsDump(s.f, s.strip, s.cuts)
    [] law = "RefusesOtherChunks" -> ~s.strip /\ Cardinality(s.cuts) # 2 => Bin!RefusesOthers(s.f, s.cuts)
    [] law = "QuotedIsReadBack" -> Lex!QuotedIsReadBack(s.s)
    [] law = "ReadsTokens" -> Lex!ReadsTokens(s.l, s.g)
    [] law = "RefusesOtherTexts" -> Lex!RefusesOthers(s.text)
    [] law = "MalformedIsRefused" -> P!MalformedIsRefused(s.p, s.src)
    [] law = "FindsWhatIsMeant" -> /\ P!FindsWhatIsMeant(s.items, s.src) /\ P!GsubFollowsGmatch(s.items, s.src)
                                   /\ P!PlainFindAgrees(s.items, s.src) /\ P!SubIsTheRange(s.src)

G == INSTANCE Laws

TextsInit ==
  /\ part \in {"breakpoints", "json", "machine"} \cup DOMAIN Samples
  /\ Init /\ J!Init /\ G!Init
  /\ IF part = "machine" THEN X!Init ELSE MachineAtRest

TextsNext ==
  \/ part = "breakpoints" /\ Next /\ UNCHANGED <<part, sample, jsonVars, machineVars>>
  \/ part = "json" /\ J!Next /\ UNCHANGED <<part, sample, vars, machineVars>>
  \/ part = "machine" /\ X!Next /\ UNCHANGED <<part, sample, vars, jsonVars>>
  \/ G!Take /\ UNCHANGED <<part, vars, jsonVars, machineVars>>

TextsSpec == TextsInit /\ [][TextsNext]_<<part, sample, vars, jsonVars, machineVars>>

-----------------------------------------------------------------------------
(* The properties of the parts                                              *)

\* What was written is read back: values by lua_cjson.c, as far as JSON can tell them
\* apart, tuples by luabins, functions by lundump.c, whatever pieces they come in, and
\* strings that string.format has quoted by llex.c.
RoundTrip ==
  /\ part = "json" => J!RoundTrip
  /\ G!Obeys("tuples", "SaveLoad")
  /\ G!Obeys("protos", "UndumpReadsDump")
  /\ G!Obeys("quotable", "QuotedIsReadBack")

\* What is not of the format is refused, never read as something else: texts that are not
\* JSON or too deep, and no others; tuples and chunks that are cut, spoilt or too long;
\* what is no token, and what is no pattern.
RefusesOthers ==
  /\ part = "json" => J!DecodesJson
  /\ G!Obeys("tuples", "RefusesCut")
  /\ G!Obeys("notuples", "RefusesGarbage")
  /\ G!Obeys("protos", "RefusesOtherChunks")
  /\ G!Obeys("nolexemes", "RefusesOtherTexts")
  /\ G!Obeys("nopatterns", "MalformedIsRefused")

\* Nothing is written past the end of a buffer, though most writes of the JSON encoder do
\* not look (strbuf_append_char_unsafe), and luabins writes its table headers twice.
BuffersSuffice ==
  /\ part = "json" => J!BuffersSuffice
  /\ G!Obeys("tuples", "StaysInBuffer")

\* Texts mean what is written in them: a pattern finds the match that its items describe,
\* however the matcher backtracks, and each token is read for what it is, on its line.
ReadsWhatIsMeant ==
  /\ G!Obeys("patterns", "FindsWhatIsMeant")
  /\ G!Obeys("lexemes", "ReadsTokens")

\* The code that lparser.c and lcode.c make does in lvm.c what the program means,
\* and no assertion of the compiler fails.
CodeMeansProgram == part = "machine" => X!CodeMeansProgram
=============================================================================
