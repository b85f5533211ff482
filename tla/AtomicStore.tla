---------------------------- MODULE AtomicStore ----------------------------
(***************************************************************************)
(* What the store promises to the threads of every process that opens it:  *)
(* each call takes effect in one step between its invocation and its       *)
(* answer, or answers an error and takes no effect.  An update is such a   *)
(* step as a whole: its function sees the table that its new values        *)
(* replace.  This is the reading of guides/lua.md ("When Should update     *)
(* Be Used?") that Store.tla is shown to implement.                        *)
(***************************************************************************)
EXTENDS StoreCalls

CONSTANTS
  Threads,   \* the threads that call the store
  Conns,     \* the processes, each with its one connection
  ConnOf     \* the process of each thread

VARIABLES
  db,      \* the committed table
  call,    \* the call each thread is in
  reply    \* its answer, from the moment it took effect
vars == <<db, call, reply>>

Init ==
  /\ db = [n \in Names |-> Absent]
  /\ call = [t \in Threads |-> NoCall]
  /\ reply = [t \in Threads |-> Pending]

Invoke(t) ==
  /\ call[t] = NoCall
  /\ \E c \in Workload : call' = [call EXCEPT ![t] = c]
  /\ UNCHANGED <<db, reply>>

Waiting(t, op) ==
  /\ call[t] # NoCall
  /\ call[t].op = op
  /\ reply[t] = Pending

Answer(t, r) == reply' = [reply EXCEPT ![t] = r]

Get(t) ==
  /\ Waiting(t, "get")
  /\ Answer(t, Result(<<Lookup(db, call[t].name)>>))
  /\ UNCHANGED <<db, call>>

List(t) ==
  /\ Waiting(t, "list")
  /\ Answer(t, Listed(Present(db)))
  /\ UNCHANGED <<db, call>>

Put(t) ==
  /\ Waiting(t, "put")
  /\ db' = [db EXCEPT ![call[t].name] = call[t].value]
  /\ Answer(t, Affected(1))
  /\ UNCHANGED call

Delete(t) ==
  /\ Waiting(t, "delete")
  /\ db' = [db EXCEPT ![call[t].name] = Absent]
  /\ Answer(t, Affected(IF db[call[t].name] = Absent THEN 0 ELSE 1))
  /\ UNCHANGED call

Update(t) ==
  /\ Waiting(t, "update")
  /\ \E vs \in Callback(FetchedAll(db, call[t])) :
       /\ db' = Apply(db, call[t].names, vs, Rows(call[t].names, vs))
       /\ Answer(t, Result(vs))
  /\ UNCHANGED call

\* A function that returns no value at all may have seen an older table.
UpdateNothing(t) ==
  /\ Waiting(t, "update")
  /\ Answer(t, Result(<<>>))
  /\ UNCHANGED <<db, call>>

Fail(t) ==
  /\ call[t] # NoCall
  /\ reply[t] = Pending
  /\ Answer(t, Failed)
  /\ UNCHANGED <<db, call>>

Return(t) ==
  /\ reply[t] # Pending
  /\ call' = [call EXCEPT ![t] = NoCall]
  /\ reply' = [reply EXCEPT ![t] = Pending]
  /\ UNCHANGED db

\* A process dies: its threads forget their calls, what took effect stays.
Crash(c) ==
  /\ call' = [t \in Threads |-> IF ConnOf[t] = c THEN NoCall ELSE call[t]]
  /\ reply' = [t \in Threads |-> IF ConnOf[t] = c THEN Pending ELSE reply[t]]
  /\ UNCHANGED db

Next ==
  \/ \E t \in Threads :
       \/ Invoke(t) \/ Get(t) \/ List(t) \/ Put(t) \/ Delete(t)
       \/ Update(t) \/ UpdateNothing(t) \/ Fail(t) \/ Return(t)
  \/ \E c \in Conns : Crash(c)

Spec == Init /\ [][Next]_vars
=============================================================================
