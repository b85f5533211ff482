----------------------- MODULE StoreRefinement_proofs -----------------------
(***************************************************************************)
(* The store with its mutexes, snapshots, upgrades, roll-backs and crashes *)
(* implements AtomicStore, for every value of the constants.  The tables,  *)
(* calls and answers are the same variables in both; a call takes effect   *)
(* at its statement, or at the commit of its transaction.  From this       *)
(* follows what a script may rely on for its data: what each call keeps,   *)
(* all calls together keep, the transfers of the guide among them.  At the *)
(* end, the store's side of the contract for its mutex.                    *)
(***************************************************************************)
EXTENDS Store_proofs, Transfers

\* Both specifications mean the same by the operators on tables and answers.
LEMMA SameOperators ==
  /\ Atomic!NoCall = NoCall
  /\ Atomic!Pending = Pending /\ Atomic!Failed = Failed
  /\ \A vs : Atomic!Result(vs) = Result(vs)
  /\ \A n : Atomic!Affected(n) = Affected(n)
  /\ \A ns : Atomic!Listed(ns) = Listed(ns)
  /\ \A d : Atomic!Present(d) = Present(d)
  /\ \A d, n : Atomic!Lookup(d, n) = Lookup(d, n)
  /\ \A d, u : Atomic!FetchedAll(d, u) = FetchedAll(d, u)
  /\ \A names, vs : Atomic!Rows(names, vs) = Rows(names, vs)
  /\ \A d, names, vs, k :
       Atomic!Apply(d, names, vs, k) = Apply(d, names, vs, k)
<1>1. \A S : Atomic!Max(S) = Max(S)
  BY DEF Atomic!Max, Max
<1>2. \A d, u, i : Atomic!Fetched(d, u, i) = Fetched(d, u, i)
  BY DEF Atomic!Fetched, Fetched
<1> QED
  BY <1>1, <1>2
     DEF Atomic!NoCall, NoCall, Atomic!Pending, Pending, Atomic!Failed, Failed,
         Atomic!Result, Result, Atomic!Affected, Affected,
         Atomic!Listed, Listed, Atomic!Present, Present,
         Atomic!Lookup, Lookup, Atomic!FetchedAll, FetchedAll,
         Atomic!Rows, Rows, Atomic!Apply, Apply

\* The empty table, with no call running, is the start of both.
LEMMA InitRefines == Init => Atomic!Init
BY SameOperators DEF Init, Atomic!Init

\* An update that writes a row replaces exactly the values its function was
\* given; one that writes none changes nothing.
LEMMA CommitApplies ==
  ASSUME IInv, NEW t \in Threads, Commit(t)
  PROVE  /\ call[t] \in Workload /\ call[t].op = "update"
         /\ call[t] # NoCall /\ reply[t] = Pending
         /\ new[t] \in Seq(Values)
         /\ db' = Apply(db, call[t].names, new[t], ToWrite(t))
         /\ new[t] # <<>> => new[t] \in Callback(FetchedAll(db, call[t]))
         /\ new[t] = <<>> => db' = db
<1> DEFINE c == ConnOf[t]
           u == call[t]
<1>1. pc[t] = "write" /\ done[t] = ToWrite(t)
  BY DEF Commit
<1>2. /\ u \in Workload /\ u.op = "update" /\ u # NoCall
      /\ u.names \in Seq(Names) /\ reply[t] = Pending
  BY <1>1, CallFields DEF IInv, TypeOK, CallPlaced, Open
<1>3. /\ new[t] \in Callback(read[t]) /\ new[t] \in Seq(Values)
      /\ done[t] \in Nat /\ db \in Table
      /\ writer = c <=> done[t] > 0
      /\ writer = c => view[c] = Apply(db, u.names, new[t], done[t])
  BY <1>1 DEF IInv, TypeOK, WritesApplied
<1>4. db' = Apply(db, u.names, new[t], ToWrite(t))
  <2>1. CASE writer = c
    BY <1>1, <1>3, <2>1 DEF Commit
  <2>2. CASE writer # c
    <3>1. db' = db /\ ToWrite(t) = 0
      BY <1>1, <1>3, <2>2 DEF Commit
    <3> QED
      BY <1>3, <3>1, ApplyNone
  <2> QED
    BY <2>1, <2>2
<1>5. new[t] # <<>> => new[t] \in Callback(FetchedAll(db, u))
  BY <1>3, CommitReadsCurrent
<1>6. ASSUME new[t] = <<>>
      PROVE  db' = db
  <2>1. ToWrite(t) = 0
    BY <1>2, <1>6 DEF ToWrite, Rows
  <2> QED
    BY <1>3, <1>4, <2>1, ApplyNone
<1> QED
  BY <1>2, <1>3, <1>4, <1>5, <1>6

\* The commit of an update is the update.
LEMMA CommitRefines ==
  ASSUME IInv, NEW t \in Threads, Commit(t)
  PROVE  Atomic!Update(t) \/ Atomic!UpdateNothing(t)
<1>1. UNCHANGED call /\ reply' = [reply EXCEPT ![t] = Result(new[t])]
  BY DEF Commit, Finish
<1>2. CASE new[t] # <<>>
  BY <1>1, <1>2, CommitApplies, SameOperators
     DEF Atomic!Update, Atomic!Waiting, Atomic!Answer, ToWrite
<1>3. CASE new[t] = <<>>
  BY <1>1, <1>3, CommitApplies, SameOperators
     DEF Atomic!UpdateNothing, Atomic!Waiting, Atomic!Answer
<1> QED
  BY <1>2, <1>3

\* Every step is one of the atomic store, or changes nothing of it.
LEMMA StepRefines == IInv /\ [Next]_vars => [Atomic!Next]_(Atomic!vars)
<1> SUFFICES ASSUME IInv, [Next]_vars
             PROVE  Atomic!Next \/ UNCHANGED Atomic!vars
  OBVIOUS
<1>a. \A t \in Threads :
        /\ pc[t] = "idle" <=> call[t] = NoCall
        /\ pc[t] = "return" <=> reply[t] # Pending
        /\ call[t] # NoCall => call[t] \in Workload
  BY DEF IInv, TypeOK, CallPlaced
<1>1. ASSUME NEW t \in Threads, Invoke(t) PROVE Atomic!Invoke(t)
  BY <1>a, <1>1, SameOperators DEF Invoke, Atomic!Invoke
<1>2. ASSUME NEW t \in Threads, GetExec(t) PROVE Atomic!Get(t)
  BY <1>a, <1>2, SameOperators
     DEF GetExec, Finish, Atomic!Get, Atomic!Waiting, Atomic!Answer
<1>2a. ASSUME NEW t \in Threads, ListExec(t) PROVE Atomic!List(t)
  BY <1>a, <1>2a, SameOperators
     DEF ListExec, Finish, Atomic!List, Atomic!Waiting, Atomic!Answer
<1>3. ASSUME NEW t \in Threads, PutExec(t) PROVE Atomic!Put(t)
  BY <1>a, <1>3, SameOperators
     DEF PutExec, Finish, Atomic!Put, Atomic!Waiting, Atomic!Answer
<1>4. ASSUME NEW t \in Threads, DeleteExec(t) PROVE Atomic!Delete(t)
  BY <1>a, <1>4, SameOperators
     DEF DeleteExec, Finish, Atomic!Delete, Atomic!Waiting, Atomic!Answer
<1>5. ASSUME NEW t \in Threads, WriteBusy(t) PROVE Atomic!Fail(t)
  BY <1>a, <1>5, SameOperators
     DEF WriteBusy, Finish, Atomic!Fail, Atomic!Answer
<1>6. ASSUME NEW t \in Threads, Commit(t)
      PROVE  Atomic!Update(t) \/ Atomic!UpdateNothing(t)
  BY <1>6, CommitRefines
<1>7. ASSUME NEW t \in Threads, Abort(t) PROVE Atomic!Fail(t)
  BY <1>a, <1>7, SameOperators DEF Abort, Finish, Atomic!Fail, Atomic!Answer
<1>8. ASSUME NEW t \in Threads, StatementFails(t)
      PROVE  Atomic!Fail(t) \/ UNCHANGED Atomic!vars
  BY <1>a, <1>8, SameOperators
     DEF StatementFails, Finish, Atomic!Fail, Atomic!Answer, Atomic!vars
<1>9. ASSUME NEW t \in Threads, Return(t) PROVE Atomic!Return(t)
  BY <1>a, <1>9, SameOperators DEF Return, Atomic!Return
<1>10. ASSUME NEW c \in Conns, Crash(c) PROVE Atomic!Crash(c)
  BY <1>10, SameOperators DEF Crash, Atomic!Crash
<1>11. ASSUME NEW t \in Threads,
              \/ Lock(t) \/ Read(t) \/ CallbackReturns(t) \/ CallbackFails(t)
              \/ CallbackHangs(t) \/ Write(t) \/ UpgradeRefused(t)
       PROVE  UNCHANGED Atomic!vars
  BY <1>11 DEF Lock, Read, CallbackReturns, CallbackFails, CallbackHangs,
               Write, UpgradeRefused, Atomic!vars
<1>12. CASE UNCHANGED vars
  BY <1>12 DEF vars, Atomic!vars
<1> QED
  BY <1>1, <1>2, <1>2a, <1>3, <1>4, <1>5, <1>6, <1>7, <1>8, <1>9, <1>10, <1>11,
     <1>12
     DEF Next, Atomic!Next

\* Every call on the store is atomic for its callers: it takes effect in one
\* step on the committed table or answers an error and leaves no trace, also
\* when a process dies in the middle of it.
THEOREM StoreIsAtomic == Spec => Implements
<1>1. Init => Atomic!Init
  BY InitRefines
<1>2. IInv /\ [Next]_vars => [Atomic!Next]_(Atomic!vars)
  BY StepRefines
<1> QED
  BY <1>1, <1>2, Invariance, PTL DEF Spec, Implements, Atomic!Spec
-----------------------------------------------------------------------------
\* The tables that a call made alone, from its first statement to its last,
\* may leave behind.
Outcomes(d, c) ==
  IF c.op = "put" THEN { [d EXCEPT ![c.name] = c.value] }
  ELSE IF c.op = "delete" THEN { [d EXCEPT ![c.name] = Absent] }
  ELSE IF c.op = "update"
  THEN { Apply(d, c.names, vs, Rows(c.names, vs)) :
           vs \in Callback(FetchedAll(d, c)) \cap Seq(Values) }
  ELSE { d }

\* However the calls of all processes interleave, fail and die, the committed
\* table only changes the way one call made alone would change it.
LEMMA StepIsOutcome ==
  ASSUME IInv, [Next]_vars
  PROVE  db' = db \/ \E c \in Workload : db' \in Outcomes(db, c)
<1>1. ASSUME NEW t \in Threads, PutExec(t)
      PROVE  \E c \in Workload : db' \in Outcomes(db, c)
  <2>1. pc[t] = "exec" /\ call[t].op = "put"
        /\ db' = [db EXCEPT ![call[t].name] = call[t].value]
    BY <1>1 DEF PutExec
  <2>2. call[t] \in Workload
    BY <2>1 DEF IInv, TypeOK, CallPlaced
  <2>3. db' \in Outcomes(db, call[t])
    BY <2>1 DEF Outcomes
  <2> QED
    BY <2>2, <2>3
<1>2. ASSUME NEW t \in Threads, DeleteExec(t)
      PROVE  \E c \in Workload : db' \in Outcomes(db, c)
  <2>1. pc[t] = "exec" /\ call[t].op = "delete"
        /\ db' = [db EXCEPT ![call[t].name] = Absent]
    BY <1>2 DEF DeleteExec
  <2>2. call[t] \in Workload
    BY <2>1 DEF IInv, TypeOK, CallPlaced
  <2>3. db' \in Outcomes(db, call[t])
    BY <2>1 DEF Outcomes
  <2> QED
    BY <2>2, <2>3
<1>3. ASSUME NEW t \in Threads, Commit(t)
      PROVE  db' = db \/ \E c \in Workload : db' \in Outcomes(db, c)
  <2>1. CASE new[t] = <<>>
    BY <1>3, <2>1, CommitApplies
  <2>2. CASE new[t] # <<>>
    <3> DEFINE u == call[t]
               vs == new[t]
    <3>1. /\ u \in Workload /\ u.op = "update"
          /\ vs \in Callback(FetchedAll(db, u)) \cap Seq(Values)
          /\ db' = Apply(db, u.names, vs, Rows(u.names, vs))
      BY <1>3, <2>2, CommitApplies DEF ToWrite
    <3> HIDE DEF u, vs
    <3>2. db' \in Outcomes(db, u)
      BY <3>1 DEF Outcomes
    <3> QED
      BY <3>1, <3>2
  <2> QED
    BY <2>1, <2>2
<1>4. ASSUME NEW t \in Threads,
             \/ Invoke(t) \/ Lock(t) \/ GetExec(t) \/ ListExec(t)
             \/ WriteBusy(t) \/ Read(t) \/ CallbackReturns(t)
             \/ CallbackFails(t) \/ CallbackHangs(t) \/ Write(t)
             \/ UpgradeRefused(t) \/ Abort(t) \/ StatementFails(t) \/ Return(t)
      PROVE  db' = db
  BY <1>4 DEF Invoke, Lock, GetExec, ListExec, WriteBusy, Read,
              CallbackReturns, CallbackFails, CallbackHangs, Write,
              UpgradeRefused, Abort, StatementFails, Return
<1>5. ASSUME NEW c \in Conns, Crash(c)
      PROVE  db' = db
  BY <1>5 DEF Crash
<1>6. CASE UNCHANGED vars
  BY <1>6 DEF vars
<1> QED
  BY <1>1, <1>2, <1>3, <1>4, <1>5, <1>6 DEF Next

\* A set of tables that every call made alone stays in.
Keeps(Good) ==
  /\ [n \in Names |-> Absent] \in Good
  /\ \A d \in Good \cap Table, c \in Workload :
       Outcomes(d, c) \cap Table \subseteq Good

\* A step of the store stays in such a set.
LEMMA GoodStep ==
  ASSUME NEW Good, Keeps(Good), IInv, db \in Good, [Next]_vars
  PROVE  db' \in Good
<1>1. db \in Table
  BY DEF IInv, TypeOK
<1>2. db' \in Table
  BY Inductive DEF IInv, TypeOK
<1> QED
  BY <1>1, <1>2, StepIsOutcome DEF Keeps

\* What an update has read so far are values of one table, of such a set.
SeenIn(Good) ==
  \A t \in Threads :
    pc[t] \in {"read", "hung"} /\ read[t] # <<>> =>
      /\ view[ConnOf[t]] \in Good
      /\ \A i \in 1..Len(read[t]) :
           read[t][i] = Fetched(view[ConnOf[t]], call[t], i)

\* The next read of an update is made in the table of the first.
LEMMA ReadSeen ==
  ASSUME IInv, NEW Good, db \in Good, SeenIn(Good), NEW t \in Threads, Read(t)
  PROVE  /\ view'[ConnOf[t]] \in Good
         /\ \A i \in 1..Len(read'[t]) :
              read'[t][i] = Fetched(view'[ConnOf[t]], call'[t], i)
<1> DEFINE c == ConnOf[t]
           n == Len(read[t])
<1>1. /\ pc[t] = "read" /\ UNCHANGED call
      /\ view'[c] = IF view[c] = NoTable THEN db ELSE view[c]
      /\ read'[t] = Append(read[t], Fetched(view'[c], call[t], n + 1))
  BY ConnAssumption DEF Read, IInv, TypeOK
<1>2. read[t] \in Seq(Values) /\ (view[c] = NoTable <=> read[t] = <<>>)
  BY <1>1 DEF IInv, TypeOK, ReadCurrent, Open
<1>3. /\ view'[c] \in Good
      /\ \A i \in 1..n : read[t][i] = Fetched(view'[c], call[t], i)
  <2>1. CASE read[t] = <<>>
    BY <1>1, <1>2, <2>1
  <2>2. CASE read[t] # <<>>
    BY <1>1, <1>2, <2>2 DEF SeenIn
  <2> QED
    BY <2>1, <2>2
<1>4. /\ Len(read'[t]) = n + 1
      /\ \A i \in 1..n : read'[t][i] = read[t][i]
      /\ read'[t][n + 1] = Fetched(view'[c], call[t], n + 1)
  <2> DEFINE v == Fetched(view'[c], call[t], n + 1)
  <2>1. read'[t] = Append(read[t], v) /\ read[t] \in Seq(Values \cup {v})
    BY <1>1, <1>2
  <2> HIDE DEF v
  <2> QED
    BY <2>1 DEF v
<1>5. \A i \in 1..(n + 1) : i \in 1..n \/ i = n + 1
  BY <1>2
<1> QED
  BY <1>1, <1>3, <1>4, <1>5

\* No step of another thread or process disturbs what an update has read.
LEMMA StepSeen ==
  ASSUME IInv, NEW Good, db \in Good, SeenIn(Good), [Next]_vars
  PROVE  SeenIn(Good)'
<1> SUFFICES ASSUME NEW u \in Threads,
                    pc'[u] \in {"read", "hung"}, read'[u] # <<>>
             PROVE  /\ view'[ConnOf[u]] \in Good
                    /\ \A i \in 1..Len(read'[u]) :
                         read'[u][i] = Fetched(view'[ConnOf[u]], call'[u], i)
  BY DEF SeenIn
<1> DEFINE Same == /\ pc[u] \in {"read", "hung"}
                   /\ UNCHANGED <<read[u], call[u], view[ConnOf[u]]>>
<1>1. CASE Same
  BY <1>1 DEF SeenIn
<1>2. ASSUME NEW t \in Threads, t # u, pc[t] \in Held, pc[u] \in Held
      PROVE  ConnOf[t] # ConnOf[u]
  BY <1>2 DEF IInv, MutexOwned
<1>3. CASE Read(u)
  BY <1>3, ReadSeen
<1>4. ASSUME NEW t \in Threads, t # u, Read(t)
      PROVE  Same
  <2>1. pc[t] \in Held /\ UNCHANGED <<pc, call>>
    BY <1>4 DEF Read, Held, Open
  <2>2. pc[u] \in Held
    BY <2>1 DEF Held, Open
  <2>3. ConnOf[t] # ConnOf[u] /\ ConnOf[u] \in Conns
    BY <1>2, <1>4, <2>1, <2>2, ConnAssumption
  <2> QED
    BY <1>4, <2>1, <2>3 DEF Read, IInv, TypeOK
<1>5. ASSUME NEW t \in Threads, Write(t) \/ Commit(t) \/ Abort(t)
      PROVE  Same
  <2>1. pc[t] \in {"write", "abort"}
    BY <1>5 DEF Write, Commit, Abort
  <2>2. pc'[t] \in {"write", "return"}
    BY <1>5, <2>1 DEF Write, Commit, Abort, Finish, Go, IInv, TypeOK
  <2>3. t # u
    BY <2>2
  <2>4. UNCHANGED <<pc[u], read, call>>
    BY <1>5, <2>3 DEF Write, Commit, Abort, Finish, Go, IInv, TypeOK, locals
  <2>5. ConnOf[t] # ConnOf[u] /\ ConnOf[u] \in Conns
    BY <1>2, <2>1, <2>3, <2>4, ConnAssumption DEF Held, Open
  <2>6. UNCHANGED view[ConnOf[u]]
    BY <1>5, <2>5 DEF Write, Commit, Abort, IInv, TypeOK
  <2> QED
    BY <2>4, <2>6
<1>6. ASSUME NEW t \in Threads,
             \/ Lock(t) \/ GetExec(t) \/ ListExec(t) \/ PutExec(t)
             \/ DeleteExec(t) \/ WriteBusy(t) \/ CallbackReturns(t)
             \/ CallbackFails(t) \/ CallbackHangs(t) \/ UpgradeRefused(t)
             \/ StatementFails(t)
      PROVE  Same
  <2>1. UNCHANGED <<view, call, read>>
    BY <1>6 DEF Lock, GetExec, ListExec, PutExec, DeleteExec, WriteBusy,
                CallbackReturns, CallbackFails, CallbackHangs,
                UpgradeRefused, StatementFails, conns, locals
  <2>2. pc[u] \in {"read", "hung"}
    <3>1. pc[u] # "lock"
      BY <2>1 DEF IInv, ReadCurrent
    <3> QED
      BY <1>6, <3>1
         DEF Lock, GetExec, ListExec, PutExec, DeleteExec, WriteBusy,
             CallbackReturns, CallbackFails, CallbackHangs, UpgradeRefused,
             StatementFails, InCallback, Finish, Go, IInv, TypeOK
  <2> QED
    BY <2>1, <2>2
<1>7. ASSUME NEW t \in Threads, Invoke(t) \/ Return(t)
      PROVE  Same
  <2>1. t # u
    BY <1>7 DEF Invoke, Return, Go, IInv, TypeOK
  <2> QED
    BY <1>7, <2>1 DEF Invoke, Return, Go, IInv, TypeOK, conns, locals
<1>8. ASSUME NEW c \in Conns, Crash(c)
      PROVE  Same
  <2>1. ConnOf[u] # c /\ ConnOf[u] \in Conns
    BY <1>8, ConnAssumption DEF Crash
  <2> QED
    BY <1>8, <2>1 DEF Crash, IInv, TypeOK
<1>9. CASE UNCHANGED vars
  BY <1>1, <1>9 DEF vars
<1> QED
  BY <1>1, <1>3, <1>4, <1>5, <1>6, <1>7, <1>8, <1>9 DEF Next

\* Whatever each call made alone keeps of the data, be it an order, a sum or a
\* reference between two names, all calls of all processes together keep; and
\* no function of an update ever sees a table that breaks it, be its snapshot
\* as old as it may.
THEOREM DataInvariant ==
  ASSUME NEW Good, Keeps(Good)
  PROVE  Spec => [](db \in Good /\ SeenIn(Good))
<1>1. Init => db \in Good /\ SeenIn(Good)
  BY DEF Init, Keeps, SeenIn
<1>2. IInv /\ (db \in Good /\ SeenIn(Good)) /\ [Next]_vars
        => (db \in Good /\ SeenIn(Good))'
  BY GoodStep, StepSeen
<1> QED
  BY <1>1, <1>2, Invariance, PTL DEF Spec

\* What the theorem below asks of the scripts.  Of the two balances they only
\* make transfers and reads; with all other names they do as they like.
Disjoint(c) ==
  \A i \in 1..Len(c.names) : c.names[i] \notin {alice, bob}

OnlyTransfers ==
  /\ \A c \in Workload :
       \/ c \in Transfers
       \/ c.op \in {"get", "list"}
       \/ c.op \in {"put", "delete"} /\ c.name \notin {alice, bob}
       \/ c.op = "update" /\ Disjoint(c)
  /\ \A x, y \in Nat : Callback(<<x, y>>) \subseteq Move(<<x, y>>)

\* The tables with a whole balance for each of the two names.
Balances(d) == <<Fetched(d, Transfer, 1), Fetched(d, Transfer, 2)>>

Solvent ==
  {d \in Table : \E x, y \in Nat : Balances(d) = <<x, y>> /\ x + y = Opening}

\* A transfer reads the two balances, in the one order or the other.
LEMMA TransferReads ==
  ASSUME NEW d \in Solvent
  PROVE  \E x, y \in Nat :
           /\ x + y = Opening /\ Balances(d) = <<x, y>>
           /\ FetchedAll(d, Transfer) = <<x, y>>
           /\ FetchedAll(d, TransferBack) = <<y, x>>
<1>1. PICK x, y \in Nat : Balances(d) = <<x, y>> /\ x + y = Opening
  BY DEF Solvent
<1>2. Fetched(d, Transfer, 1) = x /\ Fetched(d, Transfer, 2) = y
  BY <1>1 DEF Balances
<1>3. /\ Fetched(d, TransferBack, 1) = Fetched(d, Transfer, 2)
      /\ Fetched(d, TransferBack, 2) = Fetched(d, Transfer, 1)
  BY DEF Fetched, Transfer, TransferBack
<1>4. FetchedAll(d, Transfer) = <<x, y>>
  BY <1>2 DEF FetchedAll, Transfer
<1>5. FetchedAll(d, TransferBack) = <<y, x>>
  BY <1>2, <1>3 DEF FetchedAll, TransferBack
<1> QED
  BY <1>1, <1>4, <1>5

\* What both upserts of an update of two names leave behind.
LEMMA ApplyPair ==
  ASSUME NEW d \in Table, NEW n1 \in Names, NEW n2 \in Names, n1 # n2,
         NEW v1 \in Values, NEW v2 \in Values
  PROVE  LET e == Apply(d, <<n1, n2>>, <<v1, v2>>,
                        Rows(<<n1, n2>>, <<v1, v2>>))
         IN  e \in Table /\ e[n1] = v1 /\ e[n2] = v2
<1> DEFINE names == <<n1, n2>>
           vs == <<v1, v2>>
<1>1. /\ names \in Seq(Names) /\ vs \in Seq(Values)
      /\ names[1] = n1 /\ names[2] = n2 /\ vs[1] = v1 /\ vs[2] = v2
      /\ Rows(names, vs) = 2
  BY DEF Rows
<1> HIDE DEF names, vs
<1>2. Apply(d, names, vs, 0) = d
  BY ApplyNone
<1>3. ASSUME NEW k \in Nat, k + 1 <= 2, NEW i, i = k + 1
      PROVE  Apply(d, names, vs, i)
               = [Apply(d, names, vs, k) EXCEPT ![names[i]] = vs[i]]
  BY <1>1, <1>3, ApplyNext
<1>4. Apply(d, names, vs, 1) = [d EXCEPT ![n1] = v1]
  <2>1. 0 \in Nat /\ 0 + 1 <= 2 /\ 1 = 0 + 1
    OBVIOUS
  <2> QED
    BY <1>1, <1>2, <1>3, <2>1
<1>5. Apply(d, names, vs, 2) = [[d EXCEPT ![n1] = v1] EXCEPT ![n2] = v2]
  <2>1. 1 \in Nat /\ 1 + 1 <= 2 /\ 2 = 1 + 1
    OBVIOUS
  <2> QED
    BY <1>1, <1>3, <1>4, <2>1
<1> QED
  BY <1>1, <1>5 DEF Table, names, vs

\* An upsert of some other name leaves both balances alone.
LEMMA SolventElsewhere ==
  ASSUME NEW d \in Solvent, NEW e \in Table,
         e[alice] = d[alice], e[bob] = d[bob]
  PROVE  e \in Solvent
<1>1. Balances(e) = Balances(d)
  BY DEF Balances, Fetched, Transfer
<1> QED
  BY <1>1 DEF Solvent

\* A table that holds whole balances which add up is solvent.
LEMMA SolventTable ==
  ASSUME NEW e \in Table, NEW x \in Nat, NEW y \in Nat,
         e[alice] = x, e[bob] = y, x \in Values, y \in Values,
         x + y = Opening
  PROVE  e \in Solvent
<1>1. x # Absent /\ y # Absent
  BY ValuesAssumption
<1>2. Balances(e) = <<x, y>>
  BY <1>1 DEF Balances, Fetched, Transfer
<1> QED
  BY <1>2 DEF Solvent

\* A transfer, in either direction, leaves a solvent table.
LEMMA TransferKeepsSolvent ==
  ASSUME OnlyTransfers, NEW d \in Solvent, NEW c \in Transfers,
         NEW vs \in Callback(FetchedAll(d, c)) \cap Seq(Values)
  PROVE  Apply(d, c.names, vs, Rows(c.names, vs)) \in Solvent
<1> DEFINE e == Apply(d, c.names, vs, Rows(c.names, vs))
<1>0. d \in Table
  BY DEF Solvent
<1>1. PICK x, y \in Nat :
        /\ x + y = Opening
        /\ FetchedAll(d, Transfer) = <<x, y>>
        /\ FetchedAll(d, TransferBack) = <<y, x>>
  BY TransferReads
<1>2. CASE c = Transfer
  <2>1. vs \in Move(<<x, y>>)
    BY <1>1, <1>2 DEF OnlyTransfers
  <2>2. PICK n \in Amounts : n <= x /\ vs = <<x - n, y + n>>
    BY <2>1 DEF Move
  <2>3. /\ x - n \in Nat /\ y + n \in Nat
        /\ (x - n) + (y + n) = Opening
    BY <1>1, <2>2, TransferAssumption
  <2>4. x - n \in Values /\ y + n \in Values
    BY <2>2
  <2>5. c.names = <<alice, bob>>
    BY <1>2 DEF Transfer
  <2>6. e \in Table /\ e[alice] = x - n /\ e[bob] = y + n
    BY <1>0, <2>2, <2>4, <2>5, ApplyPair, TransferAssumption
  <2> HIDE DEF e
  <2>7. e \in Solvent
    BY <2>3, <2>4, <2>6, SolventTable
  <2> QED
    BY <2>7 DEF e
<1>3. CASE c = TransferBack
  <2>1. vs \in Move(<<y, x>>)
    BY <1>1, <1>3 DEF OnlyTransfers
  <2>2. PICK n \in Amounts : n <= y /\ vs = <<y - n, x + n>>
    BY <2>1 DEF Move
  <2>3. /\ y - n \in Nat /\ x + n \in Nat
        /\ (x + n) + (y - n) = Opening
    BY <1>1, <2>2, TransferAssumption
  <2>4. y - n \in Values /\ x + n \in Values
    BY <2>2
  <2>5. c.names = <<bob, alice>>
    BY <1>3 DEF TransferBack
  <2>6. e \in Table /\ e[bob] = y - n /\ e[alice] = x + n
    BY <1>0, <2>2, <2>4, <2>5, ApplyPair, TransferAssumption
  <2> HIDE DEF e
  <2>7. e \in Solvent
    BY <2>3, <2>4, <2>6, SolventTable
  <2> QED
    BY <2>7 DEF e
<1> QED
  BY <1>2, <1>3 DEF Transfers

\* An update of other names leaves both balances alone.
LEMMA ApplyElsewhere ==
  ASSUME NEW d \in Table, NEW u \in UpdateCalls, Disjoint(u),
         NEW vs \in Seq(Values), NEW n \in {alice, bob}
  PROVE  Apply(d, u.names, vs, Rows(u.names, vs))[n] = d[n]
<1>1. u.names \in Seq(Names)
  BY DEF UpdateCalls
<1>2. Rows(u.names, vs) \in Nat /\ Rows(u.names, vs) <= Len(u.names)
  BY <1>1 DEF Rows
<1>3. {i \in 1..Rows(u.names, vs) : u.names[i] = n} = {}
  BY <1>1, <1>2 DEF Disjoint
<1> QED
  BY <1>3, TransferAssumption DEF Apply

\* Scripts that only make transfers keep the balances, call by call.
LEMMA TransfersKeepSolvent ==
  ASSUME OnlyTransfers
  PROVE  Keeps(Solvent)
<1>1. [n \in Names |-> Absent] \in Solvent
  <2> DEFINE d == [n \in Names |-> Absent]
  <2>1. d \in Table /\ d[alice] = Absent /\ d[bob] = Absent
    BY TransferAssumption DEF Table
  <2> HIDE DEF d
  <2>2. Balances(d) = <<Opening, 0>>
    BY <2>1 DEF Balances, Fetched, Transfer
  <2>3. d \in Solvent
    BY <2>1, <2>2, TransferAssumption DEF Solvent
  <2> QED
    BY <2>3 DEF d
<1>2. ASSUME NEW d \in Solvent, NEW c \in Workload,
             NEW e \in Outcomes(d, c) \cap Table
      PROVE  e \in Solvent
  <2>0. d \in Table /\ e \in Table
    BY DEF Solvent
  <2>1. CASE c \in Transfers
    <3>1. c.op = "update"
      BY <2>1 DEF Transfers, Transfer, TransferBack
    <3> QED
      BY <2>1, <3>1, TransferKeepsSolvent DEF Outcomes
  <2>2. CASE c.op \in {"get", "list"}
    BY <2>2 DEF Outcomes
  <2>3. CASE c.op \in {"put", "delete"} /\ c.name \notin {alice, bob}
    <3>1. e[alice] = d[alice] /\ e[bob] = d[bob]
      BY <2>0, <2>3, TransferAssumption DEF Outcomes, Table
    <3> QED
      BY <2>0, <3>1, SolventElsewhere
  <2>4. CASE c.op = "update" /\ Disjoint(c)
    <3>1. PICK vs \in Seq(Values) : e = Apply(d, c.names, vs, Rows(c.names, vs))
      BY <2>4 DEF Outcomes
    <3>2. c \in UpdateCalls
      BY <2>4, CallFields
    <3>3. e[alice] = d[alice] /\ e[bob] = d[bob]
      BY <2>0, <2>4, <3>1, <3>2, ApplyElsewhere
    <3> QED
      BY <2>0, <3>3, SolventElsewhere
  <2> QED
    BY <2>1, <2>2, <2>3, <2>4 DEF OnlyTransfers
<1> QED
  BY <1>1, <1>2 DEF Keeps

\* Money is neither made nor lost, and no balance is overdrawn, whatever the
\* processes that transfer it do at the same time, and wherever they die.
THEOREM MoneyConserved ==
  ASSUME OnlyTransfers
  PROVE  Spec => []Conserved
<1> DEFINE Inv == db \in Solvent /\ SeenIn(Solvent)
<1>1. Init => Inv
  BY TransfersKeepSolvent DEF Init, Keeps, SeenIn
<1>2. IInv /\ Inv /\ [Next]_vars => Inv'
  BY TransfersKeepSolvent, GoodStep, StepSeen
<1>3. Inv => Conserved
  <2> SUFFICES ASSUME Inv
               PROVE  Conserved
    OBVIOUS
  <2>1. ASSUME NEW d \in Solvent
        PROVE  /\ Fetched(d, Transfer, 1) + Fetched(d, Transfer, 2) = Opening
               /\ Fetched(d, Transfer, 1) \in 0..Opening
               /\ \A c \in Transfers :
                    Fetched(d, c, 1) + Fetched(d, c, 2) = Opening
    <3>1. PICK x, y \in Nat : Balances(d) = <<x, y>> /\ x + y = Opening
      BY DEF Solvent
    <3>2. Fetched(d, Transfer, 1) = x /\ Fetched(d, Transfer, 2) = y
      BY <3>1 DEF Balances
    <3>3. /\ Fetched(d, TransferBack, 1) = y
          /\ Fetched(d, TransferBack, 2) = x
      BY <3>2 DEF Fetched, Transfer, TransferBack
    <3> QED
      BY <3>1, <3>2, <3>3, TransferAssumption DEF Transfers
  <2>2. ASSUME NEW t \in Threads, InCallback(t), call[t] \in Transfers
        PROVE  read[t][1] + read[t][2] = Opening
    <3>1. pc[t] = "read" /\ Len(read[t]) = 2
      BY <2>2 DEF InCallback, Transfers, Transfer, TransferBack
    <3>2. /\ view[ConnOf[t]] \in Solvent
          /\ \A i \in 1..2 :
               read[t][i] = Fetched(view[ConnOf[t]], call[t], i)
      BY <3>1 DEF SeenIn
    <3> QED
      BY <2>1, <2>2, <3>2
  <2> QED
    BY <2>1, <2>2 DEF Conserved
<1> HIDE DEF Inv
<1> QED
  BY <1>1, <1>2, <1>3, Invariance, PTL DEF Spec
-----------------------------------------------------------------------------
\* A step that leaves a thread, and all others, on the same side of the mutex.
LEMMA UseMoves ==
  ASSUME TypeOK, NEW t \in Threads, NEW place,
         pc' = [pc EXCEPT ![t] = place]
  PROVE  Use' = [Use EXCEPT ![t] = IF place = "lock" THEN "waiting"
                                   ELSE IF place \in Held THEN "inside"
                                   ELSE "out"]
BY DEF TypeOK, Use

\* Every step is one of the users of the mutexes, or none of them moves.
LEMMA StepUsesMutex ==
  ASSUME IInv, [Next]_vars
  PROVE  [Mutex!Next]_(Mutex!vars)
<1> USE DEF IInv
<1>1. ASSUME NEW t \in Threads, Invoke(t)
      PROVE  Mutex!Call(t)
  <2>1. Use' = [Use EXCEPT ![t] = "waiting"]
    BY <1>1, UseMoves DEF Invoke, Go
  <2> QED
    BY <1>1, <2>1 DEF Invoke, Mutex!Call, Use, Held, Open
<1>2. ASSUME NEW t \in Threads, Lock(t)
      PROVE  Mutex!Enter(t)
  <2>1. Use' = [Use EXCEPT ![t] = "inside"]
    <3>1. PICK place \in {"read", "exec"} : pc' = [pc EXCEPT ![t] = place]
      BY <1>2 DEF Lock, Go
    <3> QED
      BY <3>1, UseMoves DEF Held, Open
  <2> QED
    BY <1>2, <2>1 DEF Lock, Mutex!Enter, Use
<1>3. ASSUME NEW t \in Threads, Return(t)
      PROVE  Mutex!Leave(t)
  <2>1. Use' = [Use EXCEPT ![t] = "out"]
    <3>1. pc' = [pc EXCEPT ![t] = "idle"]
      BY <1>3 DEF Return, Go
    <3>2. "idle" # "lock" /\ "idle" \notin Held
      BY DEF Held, Open
    <3> QED
      BY <3>1, <3>2, UseMoves
  <2>2. mutex[ConnOf[t]] = t
    BY <1>3 DEF Return, MutexOwned, Held
  <2> QED
    BY <1>3, <2>1, <2>2 DEF Return, Mutex!Leave, Use, Held
<1>4. ASSUME NEW t \in Threads,
             \/ GetExec(t) \/ ListExec(t) \/ PutExec(t) \/ DeleteExec(t)
             \/ WriteBusy(t) \/ Read(t) \/ CallbackReturns(t)
             \/ CallbackFails(t) \/ CallbackHangs(t) \/ Write(t)
             \/ UpgradeRefused(t) \/ Commit(t) \/ Abort(t)
             \/ StatementFails(t)
      PROVE  UNCHANGED Mutex!vars
  <2>1. UNCHANGED mutex
    BY <1>4 DEF GetExec, ListExec, PutExec, DeleteExec, WriteBusy, Read,
                CallbackReturns, CallbackFails, CallbackHangs, Write,
                UpgradeRefused, Commit, Abort, StatementFails
  <2>2. pc[t] \in Held
    BY <1>4 DEF GetExec, ListExec, PutExec, DeleteExec, WriteBusy, Read,
                CallbackReturns, CallbackFails, CallbackHangs, Write,
                UpgradeRefused, Commit, Abort, StatementFails, InCallback,
                Held, Open
  <2>3. \/ UNCHANGED pc
        \/ \E place \in Held : pc' = [pc EXCEPT ![t] = place]
    BY <1>4 DEF GetExec, ListExec, PutExec, DeleteExec, WriteBusy, Read,
                CallbackReturns, CallbackFails, CallbackHangs, Write,
                UpgradeRefused, Commit, Abort, StatementFails, Finish, Go,
                Held, Open
  <2>4. UNCHANGED Use
    <3>1. CASE UNCHANGED pc
      BY <3>1 DEF Use
    <3>2. ASSUME NEW place \in Held, pc' = [pc EXCEPT ![t] = place]
          PROVE  UNCHANGED Use
      <4>1. Use' = [Use EXCEPT ![t] = "inside"]
        BY <3>2, UseMoves DEF Held, Open
      <4>2. Use[t] = "inside"
        BY <2>2 DEF Use, Held, Open
      <4> QED
        BY <4>1, <4>2 DEF Use
    <3> QED
      BY <2>3, <3>1, <3>2
  <2> QED
    BY <2>1, <2>4 DEF Mutex!vars
<1>5. ASSUME NEW c \in Conns, Crash(c)
      PROVE  Mutex!Die(c)
  <2>1. pc' = [t \in Threads |-> IF ConnOf[t] = c THEN "idle" ELSE pc[t]]
    BY <1>5 DEF Crash
  <2>2. Use' = [t \in Threads |-> IF ConnOf[t] = c THEN "out" ELSE Use[t]]
    BY <2>1 DEF Use, Held, Open
  <2> QED
    BY <1>5, <2>2 DEF Crash, Mutex!Die
<1>6. CASE UNCHANGED vars
  BY <1>6 DEF vars, Mutex!vars, Use
<1> QED
  BY <1>1, <1>2, <1>3, <1>4, <1>5, <1>6 DEF Next, Mutex!Next

\* The store is used as StoreMutex has it: no thread enters a mutex that is
\* held, and no call keeps one.
THEOREM StoreUsesMutex == Spec => UsesMutex
<1>1. Init => Mutex!Init
  BY DEF Init, Mutex!Init, Use, Held, Open
<1> QED
  BY <1>1, StepUsesMutex, Invariance, PTL DEF Spec, UsesMutex, Mutex!Spec
=============================================================================
