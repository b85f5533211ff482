----------------------------- MODULE Transfers -----------------------------
(***************************************************************************)
(* The example that guides/lua.md gives for Store.update: amounts move     *)
(* between the balances of alice and bob, and a transfer without the funds *)
(* raises an error.  What a name holds before its first transfer, which    *)
(* the guide puts there, is the default of its value here.                 *)
(***************************************************************************)
EXTENDS Store

CONSTANTS
  alice, bob,   \* the two names
  Opening,      \* the balance alice opens with; bob opens with none
  Amounts       \* the amounts that are moved

ASSUME TransferAssumption ==
  /\ alice \in Names /\ bob \in Names /\ alice # bob
  /\ Opening \in Nat
  /\ Amounts \subseteq Nat

Transfer ==
  [op |-> "update", names |-> <<alice, bob>>, defaults |-> <<Opening, 0>>]
TransferBack ==
  [op |-> "update", names |-> <<bob, alice>>, defaults |-> <<0, Opening>>]
Transfers == { Transfer, TransferBack }

\* The function of a transfer: an amount from the first name to the second.
Move(vs) ==
  { <<vs[1] - n, vs[2] + n>> : n \in {m \in Amounts : m <= vs[1]} }

\* No interleaving of transfers by several processes, no failed one, no crash
\* and no refused write makes or destroys money in the committed table, and
\* none overdraws a balance that several of them found sufficient.  No function
\* is ever given two balances of different tables, even if others committed
\* while it was reading.
Conserved ==
  LET Balance(i) == Fetched(db, Transfer, i)
  IN  /\ Balance(1) + Balance(2) = Opening
      /\ Balance(1) \in 0..Opening
      /\ \A t \in Threads :
           InCallback(t) /\ call[t] \in Transfers
             => read[t][1] + read[t][2] = Opening
=============================================================================
