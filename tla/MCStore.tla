------------------------------ MODULE MCStore ------------------------------
(***************************************************************************)
(* Small instances of Store for TLC: who runs where, what is called, and   *)
(* what the functions given to update return.                              *)
(***************************************************************************)
EXTENDS Transfers, TLC

CONSTANTS c1, c2, t1, t2, t3

OneProcess   == t1 :> c1 @@ t2 :> c1
TwoProcesses == t1 :> c1 @@ t2 :> c1 @@ t3 :> c2

\* Every kind of call, with fewer defaults than names.
EveryCall ==
  { [op |-> "get", name |-> alice],
    [op |-> "put", name |-> alice, value |-> 1],
    [op |-> "delete", name |-> alice],
    [op |-> "list"],
    [op |-> "update", names |-> <<alice, bob>>, defaults |-> <<1>>] }

\* Swap two values, or return the second one only.
Swap(vs) == { <<vs[2], vs[1]>>, <<vs[2]>> }

\* A name given twice, no name at all, defaults in excess.
OddUpdates ==
  { [op |-> "get", name |-> bob],
    [op |-> "put", name |-> bob, value |-> Null],
    [op |-> "update", names |-> <<alice, bob, alice>>, defaults |-> <<1, 2>>],
    [op |-> "update", names |-> <<bob>>, defaults |-> <<2, 1>>],
    [op |-> "update", names |-> <<>>, defaults |-> <<1>>] }

\* Turn the values round by one, or return none, or one too many.
Rotate(vs) ==
  IF vs = <<>> THEN { <<>>, <<1>> }
  ELSE { Append(Tail(vs), Head(vs)), <<>>, Append(Tail(vs), Null) \o <<2>> }
=============================================================================
