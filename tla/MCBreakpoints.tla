--------------------------- MODULE MCBreakpoints ---------------------------
(* A small instance of Breakpoints for TLC: three files of one bare name,   *)
(* two of them of one name, in two roots and a subdirectory, and one file   *)
(* whose name is its own.                                                   *)
EXTENDS Breakpoints

ScriptsThenMods == <<<<"scripts">>, <<"mods">>>>
SomeFiles == {<<"scripts", "room.lua">>, <<"mods", "big", "room.lua">>,
              <<"mods", "big", "main.lua">>, <<"mods", "room.txt">>}
StemOf == [n \in {"scripts", "mods", "big", "room.lua", "main.lua", "room.txt"} |->
             CASE n \in {"room.lua", "room.txt"} -> "room"
               [] n = "main.lua" -> "main"
               [] OTHER          -> nil]
GameDirectory == <<"c:", "hades">>
SomeChunks ==
  {[file |-> <<"scripts", "room.lua">>, at |-> FALSE],
   [file |-> <<"mods", "big", "room.lua">>, at |-> TRUE],
   [file |-> <<"mods", "big", "main.lua">>, at |-> FALSE],
   [file |-> <<"mods", "big", "main.lua">>, at |-> TRUE]}
=============================================================================
