------------------------------ MODULE MCReader ------------------------------
(***************************************************************************)
(* Small instances of Reader for TLC.                                      *)
(***************************************************************************)
EXTENDS Reader, TLC

CONSTANTS r1, r2

\* No byte, any one byte, characters, lines and numbers that are longer than
\* a buffer of two bytes or begin in the middle of it, and invalid text.
SomeStreams ==
  UNION {[1..n -> Kinds] : n \in 0..1} \cup
  { <<"lead", "tail">>, <<"newline", "digit">>, <<"digit", "tail">>,
    <<"digit", "lead", "tail">>, <<"lead", "digit", "newline">>,
    <<"space", "digit", "newline">> }

Call(k, n) == [kind |-> k, n |-> n]
EveryCall ==
  { Call(k, 0) : k \in LineCalls \cup DrainCalls \cup {"bad"} } \cup
  { Call("bytes", n) : n \in {0, 1, 2} } \cup
  { Call("chars", n) : n \in 1..2 }
=============================================================================
