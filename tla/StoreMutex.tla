----------------------------- MODULE StoreMutex -----------------------------
(***************************************************************************)
(* How everything that uses a store meets at Store.conn, the one mutex of  *)
(* its process (src/store/mod.rs): a call waits for it, holds it from its  *)
(* first line to its last, and gives it back however it ends.  Store,      *)
(* Evaluation and Server each model one side of this and are shown to      *)
(* implement it, so that what they assume of each other is the same.       *)
(***************************************************************************)
CONSTANTS
  Users,   \* threads, scripts or requests
  Procs,   \* the processes
  ProcOf,  \* the process of each user
  Nobody   \* nobody holds the mutex

VARIABLES
  use,     \* per user: out of the store, waiting for the mutex, or inside
  mutex    \* per process: the user that holds the mutex

vars == <<use, mutex>>

Init ==
  /\ use = [u \in Users |-> "out"]
  /\ mutex = [p \in Procs |-> Nobody]

Call(u) ==
  /\ use[u] = "out"
  /\ use' = [use EXCEPT ![u] = "waiting"]
  /\ UNCHANGED mutex

Enter(u) ==
  /\ use[u] = "waiting"
  /\ mutex[ProcOf[u]] = Nobody
  /\ use' = [use EXCEPT ![u] = "inside"]
  /\ mutex' = [mutex EXCEPT ![ProcOf[u]] = u]

Leave(u) ==
  /\ use[u] = "inside"
  /\ mutex[ProcOf[u]] = u
  /\ use' = [use EXCEPT ![u] = "out"]
  /\ mutex' = [mutex EXCEPT ![ProcOf[u]] = Nobody]

\* The mutex ends with its process, and so do those who use it.
Die(p) ==
  /\ use' = [u \in Users |-> IF ProcOf[u] = p THEN "out" ELSE use[u]]
  /\ mutex' = [mutex EXCEPT ![p] = Nobody]

Next ==
  \/ \E u \in Users : Call(u) \/ Enter(u) \/ Leave(u)
  \/ \E p \in Procs : Die(p)

Spec == Init /\ [][Next]_vars
=============================================================================
