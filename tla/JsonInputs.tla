----------------------------- MODULE JsonInputs -----------------------------
(* What Json is run with: all short texts of punctuation, texts that are    *)
(* one token away from correct ones, strings with every kind of escape, and *)
(* values of two levels with the keys that tell arrays from objects.        *)
EXTENDS JsonTokens, FiniteSets, FiniteSetsExt

Marks == {Mark(c) : c \in {"{", "}", "[", "]", ":", ","}}
hex(a, b, c, d) == <<92, 117, a, b, c, d>>
Escapes == { <<>>, <<92>>, <<92, 110>>, <<92, 48>>, hex(48, 48, 101, 57), hex(100, 56, 51, 100),
   hex(68, 56, 51, 100) \o hex(100, 101, 48, 48), hex(100, 56, 51, 100) \o hex(48, 48, 52, 49),
   hex(100, 99, 48, 48) \o hex(100, 99, 48, 48), hex(100, 56, 48, 48) \o <<97>>, <<92, 117, 48, 48, 52>>, <<92, 92, 117>> }
Small == UNION {[1..n -> Marks \cup {String(<<97>>)}] : n \in 0..4}
Seeds == { <<Mark("{"), String(<<97>>), Mark(":"), Mark("["), Number(1), Mark(","), Null, Mark("]"), Mark(","),
             String(<<97>>), Mark(":"), Mark("["), Mark("["), Mark("]"), Mark("]"), Mark("}")>>,
           <<Mark("["), Mark("["), Mark("["), Mark("]"), Mark("]"), Mark("]")>>,
           <<Mark("["), Mark("{"), String(<<97>>), Mark(":"), Number(1), Mark("}"), Mark(","), Mark("["), Mark("]"), Mark("]")>> }
Near == Seeds \cup UNION { {RemoveAt(t, i) : i \in DOMAIN t} \cup
          {[t EXCEPT ![i] = x] : i \in DOMAIN t, x \in Marks \cup {String(<<97>>), Number(1)}} : t \in Seeds }
JsonTexts == Small \cup Near \cup {<<String(s)>> : s \in Escapes} \cup {<<Mark("["), String(s), Mark("]")>> : s \in Escapes}

Leaf == {Null, Number(1), String(<<>>), String(<<1, 34>>), String(<<97>>), String(<<127, 92, 10>>), Function}
Tables(K, V, n) == {TableOf(f) : f \in UNION {[D -> V] : D \in kSubset(0, K) \cup kSubset(1, K) \cup kSubset(n, K)}}
KeySet == {Number(0), Number(1), Number(2), Number(3), String(<<49>>), String(<<97>>), String(<<1>>), Null}
Inner == Tables({Number(1), Number(2)}, {String(<<1, 34>>), Number(1)}, 2) \cup
         Tables({String(<<97>>)}, {String(<<>>)}, 1)
JsonValues == Leaf \cup Tables(KeySet, Leaf, 2) \cup
            Tables({Number(1), Number(3), String(<<97>>)}, Inner \cup {Number(1)}, 2)
            \cup Tables({Number(1)}, Tables({Number(2)}, Inner, 1), 1)
            \cup Tables({Number(1), Number(2), Number(3)}, {Null, String(<<>>)}, 3)
            \cup {TableOf(Number(n) :> Null) : n \in 4..6}
=============================================================================
