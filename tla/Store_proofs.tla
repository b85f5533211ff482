---------------------------- MODULE Store_proofs ----------------------------
(***************************************************************************)
(* What Store promises for any number of threads, processes, names and     *)
(* values, for any workload and any function given to update.              *)
(***************************************************************************)
EXTENDS Store, TLAPS

\* The fields of a call are typed, and no call is NoCall.
LEMMA CallFields ==
  ASSUME NEW c \in Workload
  PROVE  /\ c # NoCall
         /\ c.op \in {"get", "list", "put", "delete", "update"}
         /\ c.op \in {"get", "put", "delete"} => c.name \in Names
         /\ c.op = "put" => c.value \in Values
         /\ c.op = "update" =>
              c \in UpdateCalls /\ c.names \in Seq(Names)
BY WorkloadAssumption
   DEF GetCalls, ListCalls, PutCalls, DeleteCalls, UpdateCalls, NoCall

\* An answer is never Pending.
LEMMA Answers ==
  /\ Failed # Pending
  /\ \A vs : Result(vs) # Pending /\ Result(vs) # Failed
  /\ \A n : Affected(n) # Pending
  /\ Pending \in Replies /\ Failed \in Replies
  /\ Affected(0) \in Replies /\ Affected(1) \in Replies
  /\ \A vs \in Seq(Values) : Result(vs) \in Replies
  /\ \A ns : Listed(ns) # Pending
  /\ \A ns \in SUBSET Names : Listed(ns) \in Replies
BY DEF Failed, Pending, Result, Listed, Affected, Replies

\* update hands a value to its function for each of its names.
LEMMA FetchedType ==
  ASSUME NEW d \in Table, NEW u \in UpdateCalls, NEW i \in 1..Len(u.names)
  PROVE  Fetched(d, u, i) \in Values
<1>1. u.names \in Seq(Names) /\ u.defaults \in Seq(Values)
  BY DEF UpdateCalls
<1>2. u.names[i] \in Names
  BY <1>1
<1>3. d[u.names[i]] \in Values \cup {Absent}
  BY <1>2 DEF Table
<1> QED
  BY <1>1, <1>3, ValuesAssumption DEF Fetched

\* Before its first upsert a transaction sees the table as it was.
LEMMA ApplyNone ==
  ASSUME NEW d \in Table, NEW names, NEW vs
  PROVE  Apply(d, names, vs, 0) = d
<1>1. \A n \in Names : {i \in 1..0 : names[i] = n} = {}
  OBVIOUS
<1>2. Apply(d, names, vs, 0) = [n \in Names |-> d[n]]
  BY <1>1 DEF Apply
<1> QED
  BY <1>2 DEF Table

\* Each further upsert replaces the value of its name, and no other.
LEMMA ApplyNext ==
  ASSUME NEW d \in Table, NEW names \in Seq(Names), NEW vs \in Seq(Values),
         NEW k \in Nat, k + 1 <= Rows(names, vs)
  PROVE  Apply(d, names, vs, k + 1)
           = [Apply(d, names, vs, k) EXCEPT ![names[k + 1]] = vs[k + 1]]
<1> DEFINE upserts(m, n) == {i \in 1..m : names[i] = n}
           at(m, n) == IF upserts(m, n) = {} THEN d[n]
                       ELSE vs[Max(upserts(m, n))]
<1>1. ASSUME NEW n \in Names, n # names[k + 1]
      PROVE  at(k + 1, n) = at(k, n)
  <2>1. upserts(k + 1, n) = upserts(k, n)
    BY <1>1
  <2> QED
    BY <2>1
<1>2. at(k + 1, names[k + 1]) = vs[k + 1]
  <2> DEFINE U == upserts(k + 1, names[k + 1])
  <2>1. k + 1 \in U /\ \A i \in U : i \in Nat /\ k + 1 >= i
    OBVIOUS
  <2> HIDE DEF U
  <2>2. Max(U) = k + 1
    <3>1. \E x \in U : \A y \in U : x >= y
      BY <2>1
    <3>2. Max(U) \in U /\ \A y \in U : Max(U) >= y
      BY <3>1 DEF Max
    <3> QED
      BY <2>1, <3>2
  <2>3. U # {}
    BY <2>1
  <2> QED
    BY <2>2, <2>3 DEF U
<1>3. names[k + 1] \in Names
  BY DEF Rows
<1>4. \A m : Apply(d, names, vs, m) = [n \in Names |-> at(m, n)]
  BY DEF Apply
<1> HIDE DEF at
<1> QED
  BY <1>1, <1>2, <1>3, <1>4

\* A store that was just opened: no call holds the mutex, no transaction is
\* open and the file is not locked.
LEMMA InitInvariant == Init => IInv
BY ConnAssumption, MarkAssumption, ValuesAssumption, Answers
   DEF Init, IInv, TypeOK, MutexOwned, TransactionOwned, WriterCurrent,
       SnapshotCurrent, CallPlaced, ReadCurrent, WritesApplied, Table, Open,
       Held, NoCall

\* No step of a call on any connection breaks the invariant: one case per
\* action of src/store/mod.rs, and under it one step per part it can disturb.
THEOREM Inductive == IInv /\ [Next]_vars => IInv'
<1> SUFFICES ASSUME IInv, [Next]_vars PROVE IInv'
  OBVIOUS
<1> USE ConnAssumption, MarkAssumption
<1> USE DEF Open, Held, conns, locals, Go, Outdated
<1>0. \A t \in Threads : pc[t] # "idle" => call[t] \in Workload
  BY DEF IInv, TypeOK, CallPlaced
<1>a. \A t, u \in Threads :
        pc[t] \in Held /\ pc[u] \in Held /\ ConnOf[t] = ConnOf[u] => t = u
  BY DEF IInv, MutexOwned
<1>1. ASSUME NEW t \in Threads, Invoke(t) PROVE IInv'
  <2>1. TypeOK'
    BY <1>1 DEF Invoke, IInv, TypeOK
  <2>2. MutexOwned'
    BY <1>1 DEF Invoke, IInv, TypeOK, MutexOwned
  <2>3. TransactionOwned'
    BY <1>1 DEF Invoke, IInv, MutexOwned, TransactionOwned
  <2>4. WriterCurrent'
    BY <1>1 DEF Invoke, IInv, TransactionOwned, WriterCurrent
  <2>5. SnapshotCurrent'
    BY <1>1 DEF Invoke, IInv, WriterCurrent, SnapshotCurrent
  <2>6. CallPlaced'
    BY <1>1, CallFields DEF Invoke, IInv, TypeOK, CallPlaced
  <2>7. ReadCurrent'
    BY <1>1
       DEF Invoke, IInv, TypeOK, MutexOwned, TransactionOwned, CallPlaced,
           ReadCurrent
  <2>8. WritesApplied'
    BY <1>1 DEF Invoke, IInv, CallPlaced, WritesApplied, ToWrite
  <2> QED
    BY <2>1, <2>2, <2>3, <2>4, <2>5, <2>6, <2>7, <2>8 DEF IInv
<1>2. ASSUME NEW t \in Threads, Lock(t) PROVE IInv'
  <2>1. TypeOK'
    BY <1>2 DEF Lock, IInv, TypeOK
  <2>2. MutexOwned'
    BY <1>2 DEF Lock, IInv, TypeOK, MutexOwned
  <2>3. TransactionOwned'
    BY <1>2 DEF Lock, IInv, TypeOK, MutexOwned, TransactionOwned
  <2>4. WriterCurrent'
    BY <1>2 DEF Lock, IInv, TransactionOwned, WriterCurrent
  <2>5. SnapshotCurrent'
    BY <1>2 DEF Lock, IInv, TransactionOwned, WriterCurrent, SnapshotCurrent
  <2>6. CallPlaced'
    BY <1>2, CallFields, <1>0 DEF Lock, IInv, CallPlaced
  <2>7. ReadCurrent'
    BY <1>2
       DEF Lock, IInv, MutexOwned, TransactionOwned, CallPlaced, ReadCurrent
  <2>8. WritesApplied'
    BY <1>2
       DEF Lock, IInv, TransactionOwned, CallPlaced, WritesApplied, ToWrite
  <2> QED
    BY <2>1, <2>2, <2>3, <2>4, <2>5, <2>6, <2>7, <2>8 DEF IInv
<1>3. ASSUME NEW t \in Threads, GetExec(t) PROVE IInv'
  <2>1. TypeOK'
    <3>1. call[t] \in Workload
      BY <1>0, <1>3 DEF GetExec
    <3>2. <<Lookup(db, call[t].name)>> \in Seq(Values)
      BY <1>3, <3>1, CallFields, ValuesAssumption
         DEF GetExec, Lookup, IInv, TypeOK, Table
    <3> QED
      BY <1>3, <3>2, Answers DEF GetExec, Finish, IInv, TypeOK
  <2>2. MutexOwned'
    BY <1>3 DEF GetExec, Finish, IInv, TypeOK, MutexOwned
  <2>3. TransactionOwned'
    BY <1>3 DEF GetExec, Finish, IInv, MutexOwned, TransactionOwned
  <2>4. WriterCurrent'
    BY <1>3 DEF GetExec, Finish, IInv, TransactionOwned, WriterCurrent
  <2>5. SnapshotCurrent'
    BY <1>3 DEF GetExec, Finish, IInv, WriterCurrent, SnapshotCurrent
  <2>6. CallPlaced'
    BY <1>3, Answers DEF GetExec, Finish, IInv, TypeOK, CallPlaced
  <2>7. ReadCurrent'
    BY <1>3
       DEF GetExec, Finish, IInv, TypeOK, MutexOwned, TransactionOwned,
           CallPlaced, ReadCurrent
  <2>8. WritesApplied'
    BY <1>3 DEF GetExec, Finish, IInv, WritesApplied, ToWrite
  <2> QED
    BY <2>1, <2>2, <2>3, <2>4, <2>5, <2>6, <2>7, <2>8 DEF IInv
<1>3a. ASSUME NEW t \in Threads, ListExec(t) PROVE IInv'
  <2>1. TypeOK'
    <3>1. Present(db) \in SUBSET Names
      BY DEF Present
    <3> QED
      BY <1>3a, <3>1, Answers DEF ListExec, Finish, IInv, TypeOK
  <2>2. MutexOwned'
    BY <1>3a DEF ListExec, Finish, IInv, TypeOK, MutexOwned
  <2>3. TransactionOwned'
    BY <1>3a DEF ListExec, Finish, IInv, MutexOwned, TransactionOwned
  <2>4. WriterCurrent'
    BY <1>3a DEF ListExec, Finish, IInv, TransactionOwned, WriterCurrent
  <2>5. SnapshotCurrent'
    BY <1>3a DEF ListExec, Finish, IInv, WriterCurrent, SnapshotCurrent
  <2>6. CallPlaced'
    BY <1>3a, Answers DEF ListExec, Finish, IInv, TypeOK, CallPlaced
  <2>7. ReadCurrent'
    BY <1>3a
       DEF ListExec, Finish, IInv, TypeOK, MutexOwned, TransactionOwned,
           CallPlaced, ReadCurrent
  <2>8. WritesApplied'
    BY <1>3a DEF ListExec, Finish, IInv, WritesApplied, ToWrite
  <2> QED
    BY <2>1, <2>2, <2>3, <2>4, <2>5, <2>6, <2>7, <2>8 DEF IInv
<1>4. ASSUME NEW t \in Threads, PutExec(t) PROVE IInv'
  <2>0. view[ConnOf[t]] = NoTable /\ ConnOf[t] \in Conns
    BY <1>4 DEF PutExec, IInv, TypeOK, MutexOwned, TransactionOwned
  <2>1. TypeOK'
    <3>1. call[t] \in Workload
      BY <1>0, <1>4 DEF PutExec
    <3>2. db' \in Table
      BY <1>4, <3>1, CallFields DEF PutExec, IInv, TypeOK, Table
    <3> QED
      BY <1>4, <3>2, Answers DEF PutExec, Finish, IInv, TypeOK
  <2>2. MutexOwned'
    BY <1>4 DEF PutExec, Finish, IInv, TypeOK, MutexOwned
  <2>3. TransactionOwned'
    BY <1>4 DEF PutExec, Finish, IInv, TypeOK, MutexOwned, TransactionOwned
  <2>4. WriterCurrent'
    BY <1>4 DEF PutExec, Finish, IInv, TypeOK, TransactionOwned, WriterCurrent
  <2>5. SnapshotCurrent'
    BY <1>4, <2>0 DEF PutExec, SnapshotCurrent
  <2>6. CallPlaced'
    BY <1>4, Answers DEF PutExec, Finish, IInv, TypeOK, CallPlaced
  <2>7. ReadCurrent'
    <3>1. ASSUME NEW u \in Threads, pc'[u] \in Open
          PROVE  u # t /\ pc[u] \in Open /\ ConnOf[u] # ConnOf[t]
      BY <1>a, <1>4, <3>1 DEF PutExec, Finish
    <3>2. ASSUME NEW u \in Threads, pc'[u] \in Open, ~stale'[ConnOf[u]]
          PROVE  read[u] = <<>>
      BY <1>4, <3>1, <3>2 DEF PutExec, IInv, ReadCurrent
    <3>3. ASSUME NEW u \in Threads, pc'[u] \in {"idle", "lock", "exec"}
          PROVE  pc'[u] = pc[u]
      BY <1>4, <3>3 DEF PutExec, Finish, TypeOK
    <3>4. /\ UNCHANGED <<view, call, read>>
          /\ \A d \in Conns : ~stale'[d] => ~stale[d] \/ d = ConnOf[t]
      BY <1>4 DEF PutExec
    <3> QED
      BY <3>1, <3>2, <3>3, <3>4 DEF IInv, TypeOK, ReadCurrent
  <2>8. WritesApplied'
    BY <1>4
       DEF PutExec, Finish, IInv, TypeOK, MutexOwned, TransactionOwned,
           WriterCurrent, WritesApplied, ToWrite
  <2> QED
    BY <2>1, <2>2, <2>3, <2>4, <2>5, <2>6, <2>7, <2>8 DEF IInv
<1>5. ASSUME NEW t \in Threads, DeleteExec(t) PROVE IInv'
  <2>0. view[ConnOf[t]] = NoTable /\ ConnOf[t] \in Conns
    BY <1>5 DEF DeleteExec, IInv, TypeOK, MutexOwned, TransactionOwned
  <2>a. call[t] \in Workload /\ call[t].name \in Names
    BY <1>0, <1>5, CallFields DEF DeleteExec
  <2>b. db[call[t].name] = Absent => db' = db /\ stale' = stale
    BY <1>5 DEF DeleteExec, IInv, TypeOK, Table
  <2>c. db[call[t].name] # Absent => stale' = Outdated(ConnOf[t])
    BY <1>5 DEF DeleteExec
  <2>d. /\ pc' = [pc EXCEPT ![t] = "return"]
        /\ \E r \in {0, 1} : reply' = [reply EXCEPT ![t] = Affected(r)]
        /\ UNCHANGED <<writer, view, mutex, call, locals>>
    BY <1>5 DEF DeleteExec, Finish
  <2>1. TypeOK'
    <3>1. db' \in Table
      BY <1>5 DEF DeleteExec, IInv, TypeOK, Table
    <3>2. stale' \in [Conns -> BOOLEAN]
      BY <2>b, <2>c DEF IInv, TypeOK
    <3>3. reply' \in [Threads -> Replies]
      BY <2>d, Answers DEF IInv, TypeOK
    <3> QED
      BY <2>d, <3>1, <3>2, <3>3 DEF IInv, TypeOK
  <2>2. MutexOwned'
    BY <1>5 DEF DeleteExec, Finish, IInv, TypeOK, MutexOwned
  <2>3. TransactionOwned'
    <3>1. ASSUME NEW d \in Conns, view[d] = NoTable PROVE ~stale'[d]
      BY <2>b, <2>c, <3>1 DEF IInv, TransactionOwned
    <3> QED
      BY <1>5, <2>0, <2>d, <3>1 DEF IInv, TypeOK, MutexOwned, TransactionOwned
  <2>4. WriterCurrent'
    BY <1>5 DEF DeleteExec, IInv, TypeOK, TransactionOwned, WriterCurrent
  <2>5. SnapshotCurrent'
    BY <2>0, <2>b, <2>c, <2>d DEF IInv, SnapshotCurrent
  <2>6. CallPlaced'
    BY <1>5, Answers DEF DeleteExec, Finish, IInv, TypeOK, CallPlaced
  <2>7. ReadCurrent'
    <3>1. ASSUME NEW u \in Threads, pc'[u] \in Open
          PROVE  u # t /\ pc[u] \in Open /\ ConnOf[u] # ConnOf[t]
      BY <1>a, <1>5, <2>d, <3>1 DEF DeleteExec
    <3>2. ASSUME NEW u \in Threads, pc'[u] \in Open, ~stale'[ConnOf[u]]
          PROVE  read[u] = <<>> \/ (db' = db /\ ~stale[ConnOf[u]])
      <4>1. CASE db[call[t].name] = Absent
        BY <2>b, <3>2, <4>1
      <4>2. CASE db[call[t].name] # Absent
        <5>1. view[ConnOf[u]] = NoTable
          BY <2>c, <3>1, <3>2, <4>2 DEF IInv, TypeOK
        <5> QED
          BY <3>1, <3>2, <5>1 DEF IInv, ReadCurrent
      <4> QED
        BY <4>1, <4>2
    <3> QED
      BY <2>d, <3>2 DEF IInv, TypeOK, ReadCurrent
  <2>8. WritesApplied'
    BY <1>5
       DEF DeleteExec, Finish, IInv, TypeOK, TransactionOwned, WritesApplied,
           ToWrite
  <2> QED
    BY <2>1, <2>2, <2>3, <2>4, <2>5, <2>6, <2>7, <2>8 DEF IInv
<1>6. ASSUME NEW t \in Threads, WriteBusy(t) PROVE IInv'
  <2>1. TypeOK'
    BY <1>6, Answers DEF WriteBusy, Finish, IInv, TypeOK
  <2>2. MutexOwned'
    BY <1>6 DEF WriteBusy, Finish, IInv, TypeOK, MutexOwned
  <2>3. TransactionOwned'
    BY <1>6 DEF WriteBusy, Finish, IInv, MutexOwned, TransactionOwned
  <2>4. WriterCurrent'
    BY <1>6 DEF WriteBusy, Finish, IInv, TransactionOwned, WriterCurrent
  <2>5. SnapshotCurrent'
    BY <1>6 DEF WriteBusy, Finish, IInv, WriterCurrent, SnapshotCurrent
  <2>6. CallPlaced'
    BY <1>6, Answers DEF WriteBusy, Finish, IInv, TypeOK, CallPlaced
  <2>7. ReadCurrent'
    BY <1>6
       DEF WriteBusy, Finish, IInv, TypeOK, MutexOwned, TransactionOwned,
           CallPlaced, ReadCurrent
  <2>8. WritesApplied'
    BY <1>6 DEF WriteBusy, Finish, IInv, WritesApplied, ToWrite
  <2> QED
    BY <2>1, <2>2, <2>3, <2>4, <2>5, <2>6, <2>7, <2>8 DEF IInv
<1>7. ASSUME NEW t \in Threads, Read(t) PROVE IInv'
  <2>1. TypeOK'
    <3> DEFINE c == ConnOf[t]
               i == Len(read[t]) + 1
    <3>1. c \in Conns /\ read[t] \in Seq(Values)
      BY DEF IInv, TypeOK
    <3>2. call[t] \in UpdateCalls /\ i \in 1..Len(call[t].names)
      BY <1>0, <1>7, CallFields DEF Read, IInv, CallPlaced
    <3>3. view'[c] \in Table /\ view' \in [Conns -> Table \cup {NoTable}]
      BY <1>7, <3>1 DEF Read, IInv, TypeOK
    <3>4. Fetched(view'[c], call[t], i) \in Values
      BY <3>2, <3>3, FetchedType
    <3>5. read' \in [Threads -> Seq(Values)]
      BY <1>7, <3>4 DEF Read, IInv, TypeOK
    <3> QED
      BY <1>7, <3>5 DEF Read, IInv, TypeOK
  <2>2. MutexOwned'
    BY <1>7 DEF Read, IInv, TypeOK, MutexOwned
  <2>3. TransactionOwned'
    BY <1>7 DEF Read, IInv, MutexOwned, TransactionOwned
  <2>4. WriterCurrent'
    BY <1>7 DEF Read, IInv, MutexOwned, TransactionOwned, WriterCurrent
  <2>5. SnapshotCurrent'
    BY <1>7 DEF Read, IInv, WriterCurrent, SnapshotCurrent
  <2>6. CallPlaced'
    BY <1>7 DEF Read, IInv, CallPlaced
  <2>7. ReadCurrent'
    <3> DEFINE c == ConnOf[t]
               i == Len(read[t]) + 1
    <3>1. c \in Conns /\ read[t] \in Seq(Values)
      BY DEF IInv, TypeOK
    <3>2. ~stale[c] => view'[c] = db
      BY <1>7
         DEF Read, IInv, TypeOK, MutexOwned, WriterCurrent, SnapshotCurrent
    <3>3. ASSUME NEW u \in Threads, u # t, pc[u] \in Open
          PROVE  ConnOf[u] # c
      BY <1>a, <1>7, <3>3 DEF Read
    <3>4. view'[c] # NoTable
      BY <1>7 DEF Read, IInv, TypeOK
    <3>5. read'[t] = Append(read[t], Fetched(view'[c], call[t], i))
      BY <1>7 DEF Read, IInv, TypeOK
    <3>6. /\ Len(read'[t]) = i /\ i <= Len(call[t].names)
          /\ \A j \in 1..Len(read[t]) : read'[t][j] = read[t][j]
          /\ read'[t][i] = Fetched(view'[c], call[t], i)
          /\ read'[t] # <<>>
      BY <1>7, <3>5 DEF Read
    <3>7. ASSUME ~stale[c], NEW j \in 1..i
          PROVE  read'[t][j] = Fetched(db, call[t], j)
      <4>1. CASE j = i
        BY <3>2, <3>6, <3>7, <4>1
      <4>2. CASE j \in 1..Len(read[t])
        BY <1>7, <3>7, <4>2 DEF Read, IInv, ReadCurrent
      <4> QED
        BY <3>1, <4>1, <4>2
    <3>8. ASSUME NEW u \in Threads, u # t
          PROVE  /\ read'[u] = read[u]
                 /\ pc[u] \in Open => view'[ConnOf[u]] = view[ConnOf[u]]
      BY <1>7, <3>3, <3>8 DEF Read
    <3>9. UNCHANGED <<pc, call, stale, db>> /\ pc[t] = "read"
      BY <1>7 DEF Read
    <3> QED
      BY <3>4, <3>6, <3>7, <3>8, <3>9 DEF IInv, ReadCurrent
  <2>8. WritesApplied'
    BY <1>7
       DEF Read, IInv, TypeOK, MutexOwned, TransactionOwned, WriterCurrent,
           CallPlaced, WritesApplied, ToWrite
  <2> QED
    BY <2>1, <2>2, <2>3, <2>4, <2>5, <2>6, <2>7, <2>8 DEF IInv
<1>8. ASSUME NEW t \in Threads, CallbackReturns(t) PROVE IInv'
  <2>1. TypeOK'
    BY <1>8 DEF CallbackReturns, IInv, TypeOK, InCallback
  <2>2. MutexOwned'
    BY <1>8 DEF CallbackReturns, IInv, TypeOK, MutexOwned, InCallback
  <2>3. TransactionOwned'
    BY <1>8 DEF CallbackReturns, IInv, MutexOwned, TransactionOwned, CallPlaced
  <2>4. WriterCurrent'
    BY <1>8 DEF CallbackReturns, IInv, TransactionOwned, WriterCurrent
  <2>5. SnapshotCurrent'
    BY <1>8 DEF CallbackReturns, IInv, WriterCurrent, SnapshotCurrent
  <2>6. CallPlaced'
    BY <1>8 DEF CallbackReturns, IInv, CallPlaced, InCallback
  <2>7. ReadCurrent'
    BY <1>8
       DEF CallbackReturns, IInv, MutexOwned, TransactionOwned, CallPlaced,
           ReadCurrent, InCallback
  <2>8. WritesApplied'
    <3>1. /\ pc[t] = "read" /\ Len(read[t]) = Len(call[t].names)
          /\ new'[t] \in Callback(read[t]) /\ new'[t] \in Seq(Values)
          /\ \A u \in Threads \ {t} : pc'[u] = pc[u] /\ new'[u] = new[u]
          /\ pc'[t] = "write"
          /\ UNCHANGED <<db, writer, view, call, read, done>>
      BY <1>8 DEF CallbackReturns, InCallback, IInv, TypeOK
    <3>2. done[t] = 0
      BY <3>1 DEF IInv, WritesApplied
    <3>3. call[t].names \in Seq(Names)
      BY <1>0, <3>1, CallFields DEF IInv, CallPlaced
    <3>4. 0 <= Rows(call[t].names, new'[t])
      BY <3>1, <3>3 DEF Rows
    <3>5. writer # ConnOf[t]
      BY <3>1 DEF IInv, MutexOwned, WriterCurrent
    <3> QED
      BY <3>1, <3>2, <3>4, <3>5 DEF IInv, WritesApplied, ToWrite
  <2> QED
    BY <2>1, <2>2, <2>3, <2>4, <2>5, <2>6, <2>7, <2>8 DEF IInv
<1>9. ASSUME NEW t \in Threads, CallbackFails(t) PROVE IInv'
  <2>1. TypeOK'
    BY <1>9 DEF CallbackFails, IInv, TypeOK, InCallback
  <2>2. MutexOwned'
    BY <1>9 DEF CallbackFails, IInv, TypeOK, MutexOwned, InCallback
  <2>3. TransactionOwned'
    BY <1>9 DEF CallbackFails, IInv, MutexOwned, TransactionOwned, CallPlaced
  <2>4. WriterCurrent'
    BY <1>9 DEF CallbackFails, IInv, TransactionOwned, WriterCurrent
  <2>5. SnapshotCurrent'
    BY <1>9 DEF CallbackFails, IInv, WriterCurrent, SnapshotCurrent
  <2>6. CallPlaced'
    BY <1>9 DEF CallbackFails, IInv, CallPlaced, InCallback
  <2>7. ReadCurrent'
    BY <1>9
       DEF CallbackFails, IInv, MutexOwned, TransactionOwned, CallPlaced,
           ReadCurrent, InCallback
  <2>8. WritesApplied'
    BY <1>9 DEF CallbackFails, IInv, WritesApplied, ToWrite
  <2> QED
    BY <2>1, <2>2, <2>3, <2>4, <2>5, <2>6, <2>7, <2>8 DEF IInv
<1>10. ASSUME NEW t \in Threads, CallbackHangs(t) PROVE IInv'
  <2>1. TypeOK'
    BY <1>10 DEF CallbackHangs, IInv, TypeOK, InCallback
  <2>2. MutexOwned'
    BY <1>10 DEF CallbackHangs, IInv, TypeOK, MutexOwned, InCallback
  <2>3. TransactionOwned'
    BY <1>10 DEF CallbackHangs, IInv, MutexOwned, TransactionOwned, CallPlaced
  <2>4. WriterCurrent'
    BY <1>10
       DEF CallbackHangs, IInv, TransactionOwned, WriterCurrent, InCallback
  <2>5. SnapshotCurrent'
    BY <1>10 DEF CallbackHangs, IInv, WriterCurrent, SnapshotCurrent
  <2>6. CallPlaced'
    BY <1>10 DEF CallbackHangs, IInv, CallPlaced, InCallback
  <2>7. ReadCurrent'
    BY <1>10
       DEF CallbackHangs, IInv, MutexOwned, TransactionOwned, CallPlaced,
           ReadCurrent, InCallback
  <2>8. WritesApplied'
    BY <1>10 DEF CallbackHangs, IInv, WritesApplied, ToWrite, InCallback
  <2> QED
    BY <2>1, <2>2, <2>3, <2>4, <2>5, <2>6, <2>7, <2>8 DEF IInv
<1>11. ASSUME NEW t \in Threads, Write(t) PROVE IInv'
  <2> DEFINE c == ConnOf[t]
             i == done[t] + 1
  <2>0. /\ c \in Conns /\ mutex[c] = t
        /\ call[t] \in UpdateCalls /\ call[t].names \in Seq(Names)
    BY <1>0, <1>11, CallFields DEF Write, IInv, MutexOwned, CallPlaced
  <2>a. i \in 1..Len(call[t].names) /\ i \in 1..Len(new[t])
    BY <1>11, <2>0 DEF Write, ToWrite, Rows, IInv, TypeOK
  <2>b. call[t].names[i] \in Names /\ new[t][i] \in Values
    BY <2>0, <2>a DEF IInv, TypeOK
  <2>c. view[c] \in Table /\ view'[c] \in Table
        /\ view' \in [Conns -> Table \cup {NoTable}]
        /\ \A d \in Conns : d # c => view'[d] = view[d]
    <3>1. view[c] \in Table
      BY <1>11, <2>a DEF Write, IInv, TypeOK, ReadCurrent, WritesApplied
    <3>2. [view[c] EXCEPT ![call[t].names[i]] = new[t][i]] \in Table
      BY <2>b, <3>1 DEF Table
    <3>3. view' = [view EXCEPT ![c] =
                     [view[c] EXCEPT ![call[t].names[i]] = new[t][i]]]
      BY <1>11 DEF Write
    <3> QED
      BY <3>1, <3>2, <3>3 DEF IInv, TypeOK
  <2>d. ~stale[c]
    BY <1>11, <2>0 DEF Write, IInv, WriterCurrent
  <2>e. \A u \in Threads : u # t /\ pc[u] \in Held => ConnOf[u] # c
    BY <1>a, <1>11 DEF Write
  <2>f. writer' = c /\ writer \in {c, Nobody}
    BY <1>11 DEF Write
  <2>1. TypeOK'
    BY <1>11, <2>c DEF Write, IInv, TypeOK
  <2>2. MutexOwned'
    BY <1>11 DEF Write, IInv, TypeOK, MutexOwned
  <2>3. TransactionOwned'
    BY <1>11, <2>0, <2>c DEF Write, IInv, TransactionOwned
  <2>4. WriterCurrent'
    BY <1>11, <2>0, <2>d, <2>f DEF Write, WriterCurrent
  <2>5. SnapshotCurrent'
    BY <1>11
       DEF Write, IInv, TypeOK, MutexOwned, TransactionOwned, SnapshotCurrent
  <2>6. CallPlaced'
    BY <1>11 DEF Write, IInv, CallPlaced
  <2>7. ReadCurrent'
    <3>1. UNCHANGED <<db, stale, pc, call, read>>
      BY <1>11 DEF Write
    <3>2. ASSUME NEW u \in Threads, pc[u] \in Open
          PROVE  view'[ConnOf[u]] = NoTable <=> view[ConnOf[u]] = NoTable
      <4>1. CASE u = t
        BY <2>c
      <4>2. CASE u # t
        BY <2>c DEF IInv
      <4> QED
        BY <4>1, <4>2
    <3> QED
      BY <3>1, <3>2 DEF IInv, ReadCurrent
  <2>8. WritesApplied'
    <3>1. done[t] \in Nat /\ new[t] \in Seq(Values) /\ db \in Table
      BY DEF IInv, TypeOK
    <3>2. view[c] = Apply(db, call[t].names, new[t], done[t])
      <4>1. CASE writer = c
        BY <1>11, <4>1 DEF Write, IInv, WritesApplied
      <4>2. CASE writer # c
        <5>1. done[t] = 0
          BY <1>11, <3>1, <4>2 DEF Write, IInv, WritesApplied
        <5>2. view[c] = db
          BY <2>0, <2>c, <2>d, <4>2 DEF IInv, SnapshotCurrent
        <5> QED
          BY <3>1, <5>1, <5>2, ApplyNone
      <4> QED
        BY <4>1, <4>2
    <3>3. i <= Rows(call[t].names, new[t])
      BY <1>11 DEF Write, ToWrite
    <3>4. Apply(db, call[t].names, new[t], i)
            = [view[c] EXCEPT ![call[t].names[i]] = new[t][i]]
      BY <2>0, <3>1, <3>2, <3>3, ApplyNext
    <3>5. view'[c] = Apply(db, call[t].names, new[t], i)
      BY <1>11, <2>0, <3>4 DEF Write, IInv, TypeOK
    <3>6. done' = [done EXCEPT ![t] = i]
      BY <1>11 DEF Write
    <3>7. ASSUME NEW u \in Threads, u # t
          PROVE  /\ done'[u] = done[u]
                 /\ pc[u] = "write" => /\ writer # ConnOf[u]
                                       /\ writer' # ConnOf[u]
      BY <2>e, <2>f, <3>6, <3>7
    <3>8. done'[t] = i /\ i > 0 /\ i <= ToWrite(t)
      BY <3>1, <3>3, <3>6 DEF IInv, TypeOK, ToWrite
    <3>9. UNCHANGED <<db, pc, call, read, new>> /\ pc[t] = "write"
      BY <1>11 DEF Write
    <3> QED
      BY <2>f, <3>5, <3>7, <3>8, <3>9 DEF IInv, WritesApplied, ToWrite
  <2> QED
    BY <2>1, <2>2, <2>3, <2>4, <2>5, <2>6, <2>7, <2>8 DEF IInv
<1>12. ASSUME NEW t \in Threads, UpgradeRefused(t) PROVE IInv'
  <2>1. TypeOK'
    BY <1>12 DEF UpgradeRefused, IInv, TypeOK
  <2>2. MutexOwned'
    BY <1>12 DEF UpgradeRefused, IInv, TypeOK, MutexOwned
  <2>3. TransactionOwned'
    BY <1>12 DEF UpgradeRefused, IInv, MutexOwned, TransactionOwned
  <2>4. WriterCurrent'
    BY <1>12 DEF UpgradeRefused, IInv, TransactionOwned, WriterCurrent
  <2>5. SnapshotCurrent'
    BY <1>12 DEF UpgradeRefused, IInv, WriterCurrent, SnapshotCurrent
  <2>6. CallPlaced'
    BY <1>12 DEF UpgradeRefused, IInv, CallPlaced
  <2>7. ReadCurrent'
    BY <1>12
       DEF UpgradeRefused, IInv, MutexOwned, TransactionOwned, ReadCurrent
  <2>8. WritesApplied'
    BY <1>12 DEF UpgradeRefused, IInv, CallPlaced, WritesApplied, ToWrite
  <2> QED
    BY <2>1, <2>2, <2>3, <2>4, <2>5, <2>6, <2>7, <2>8 DEF IInv
<1>13. ASSUME NEW t \in Threads, Commit(t) PROVE IInv'
  <2> DEFINE c == ConnOf[t]
  <2>0. c \in Conns /\ mutex[c] = t /\ pc[t] = "write"
    BY <1>13 DEF Commit, IInv, MutexOwned
  <2>a. writer = c => db' = view[c] /\ writer' = Nobody /\ stale' = Outdated(c)
    BY <1>13 DEF Commit
  <2>b. writer # c =>
          db' = db /\ writer' = writer /\ stale' = [stale EXCEPT ![c] = FALSE]
    BY <1>13 DEF Commit
  <2>c. /\ view' = [view EXCEPT ![c] = NoTable]
        /\ pc' = [pc EXCEPT ![t] = "return"]
        /\ reply' = [reply EXCEPT ![t] = Result(new[t])]
        /\ UNCHANGED <<mutex, call, locals>>
    BY <1>13 DEF Commit, Finish
  <2>d. \A u \in Threads : u # t /\ pc[u] \in Held => ConnOf[u] # c
    BY <1>a, <2>0
  <2>e. ~stale'[c] /\ view'[c] = NoTable /\ writer' # c
    BY <2>0, <2>a, <2>b, <2>c DEF IInv, TypeOK
  <2>f. \A d \in Conns :
          d # c => /\ view'[d] = view[d]
                   /\ ~stale'[d] => /\ ~stale[d]
                                    /\ view[d] = NoTable \/ db' = db
    BY <2>a, <2>b, <2>c DEF IInv, TypeOK
  <2>g. \A u \in Threads : u # t => pc'[u] = pc[u]
    BY <2>c DEF IInv, TypeOK
  <2>1. TypeOK'
    <3>1. writer = ConnOf[t] => view[ConnOf[t]] \in Table
      BY DEF IInv, TypeOK, TransactionOwned
    <3>2. Result(new[t]) \in Replies
      BY Answers DEF IInv, TypeOK
    <3> QED
      BY <1>13, <3>1, <3>2 DEF Commit, Finish, IInv, TypeOK
  <2>2. MutexOwned'
    BY <1>13 DEF Commit, Finish, IInv, TypeOK, MutexOwned
  <2>3. TransactionOwned'
    <3>1. ASSUME NEW d \in Conns, d # c, view[d] = NoTable
          PROVE  ~stale'[d] /\ writer' # d
      BY <2>a, <2>b, <3>1 DEF IInv, TypeOK, TransactionOwned
    <3>2. ASSUME NEW d \in Conns, d # c, view[d] # NoTable
          PROVE  mutex[d] # Nobody /\ pc'[mutex[d]] \in Open
      <4>1. mutex[d] # Nobody /\ pc[mutex[d]] \in Open
        BY <3>2 DEF IInv, TransactionOwned
      <4>2. mutex[d] \in Threads /\ mutex[d] # t
        BY <3>2, <4>1 DEF IInv, TypeOK, MutexOwned
      <4> QED
        BY <2>g, <4>1, <4>2
    <3> QED
      BY <2>c, <2>e, <3>1, <3>2 DEF TransactionOwned
  <2>4. WriterCurrent'
    BY <1>13
       DEF Commit, Finish, IInv, TypeOK, MutexOwned, TransactionOwned,
           WriterCurrent
  <2>5. SnapshotCurrent'
    BY <2>a, <2>b, <2>e, <2>f DEF IInv, SnapshotCurrent
  <2>6. CallPlaced'
    BY <1>13, Answers DEF Commit, Finish, IInv, TypeOK, CallPlaced
  <2>7. ReadCurrent'
    <3>1. ASSUME NEW u \in Threads, pc'[u] \in Open
          PROVE  u # t /\ pc[u] = pc'[u] /\ ConnOf[u] # c
      BY <2>c, <2>d, <3>1 DEF IInv, TypeOK
    <3>2. ASSUME NEW u \in Threads, pc'[u] \in {"idle", "lock", "exec"}
          PROVE  pc'[u] = pc[u]
      BY <2>c, <2>g, <3>2 DEF IInv, TypeOK
    <3>3. \A u \in Threads : ConnOf[u] \in Conns
      OBVIOUS
    <3>4. ASSUME NEW u \in Threads, pc'[u] \in Open, ~stale'[ConnOf[u]]
          PROVE  ~stale[ConnOf[u]] /\ (read[u] = <<>> \/ db' = db)
      BY <2>f, <3>1, <3>4 DEF IInv, ReadCurrent
    <3> QED
      BY <2>c, <2>f, <3>1, <3>2 DEF IInv, ReadCurrent
  <2>8. WritesApplied'
    BY <1>13
       DEF Commit, Finish, IInv, TypeOK, MutexOwned, WritesApplied, ToWrite
  <2> QED
    BY <2>1, <2>2, <2>3, <2>4, <2>5, <2>6, <2>7, <2>8 DEF IInv
<1>14. ASSUME NEW t \in Threads, Abort(t) PROVE IInv'
  <2>1. TypeOK'
    BY <1>14, Answers DEF Abort, Finish, IInv, TypeOK
  <2>2. MutexOwned'
    BY <1>14 DEF Abort, Finish, IInv, TypeOK, MutexOwned
  <2>3. TransactionOwned'
    BY <1>14 DEF Abort, Finish, IInv, TypeOK, MutexOwned, TransactionOwned
  <2>4. WriterCurrent'
    BY <1>14
       DEF Abort, Finish, IInv, TypeOK, MutexOwned, TransactionOwned,
           WriterCurrent
  <2>5. SnapshotCurrent'
    BY <1>14
       DEF Abort, Finish, IInv, TypeOK, MutexOwned, WriterCurrent,
           SnapshotCurrent
  <2>6. CallPlaced'
    BY <1>14, Answers DEF Abort, Finish, IInv, TypeOK, CallPlaced
  <2>7. ReadCurrent'
    BY <1>14
       DEF Abort, Finish, IInv, TypeOK, MutexOwned, TransactionOwned,
           CallPlaced, ReadCurrent
  <2>8. WritesApplied'
    BY <1>14 DEF Abort, Finish, IInv, MutexOwned, WritesApplied, ToWrite
  <2> QED
    BY <2>1, <2>2, <2>3, <2>4, <2>5, <2>6, <2>7, <2>8 DEF IInv
<1>15. ASSUME NEW t \in Threads, StatementFails(t) PROVE IInv'
  <2>0. /\ t \in Threads /\ pc[t] \in {"exec", "read", "write"}
        /\ pc[t] = "exec" => /\ pc' = [pc EXCEPT ![t] = "return"]
                             /\ reply' = [reply EXCEPT ![t] = Failed]
        /\ pc[t] # "exec" => pc' = [pc EXCEPT ![t] = "abort"] /\ reply' = reply
        /\ UNCHANGED <<db, writer, view, stale, mutex, call, read, new, done>>
    BY <1>15 DEF StatementFails, Finish
  <2>1. TypeOK'
    BY <2>0, Answers DEF IInv, TypeOK
  <2>2. MutexOwned'
    BY <1>15 DEF StatementFails, Finish, IInv, TypeOK, MutexOwned, InCallback
  <2>3. TransactionOwned'
    <3>1. ASSUME NEW d \in Conns, view[d] # NoTable
          PROVE  pc'[mutex[d]] \in Open
      BY <2>0, <3>1 DEF IInv, TypeOK, TransactionOwned
    <3> QED
      BY <2>0, <3>1 DEF IInv, TransactionOwned
  <2>4. WriterCurrent'
    BY <1>15
       DEF StatementFails, Finish, IInv, TypeOK, TransactionOwned,
           WriterCurrent
  <2>5. SnapshotCurrent'
    BY <1>15
       DEF StatementFails, IInv, TransactionOwned, WriterCurrent,
           SnapshotCurrent
  <2>6. CallPlaced'
    BY <1>15, Answers DEF StatementFails, Finish, IInv, TypeOK, CallPlaced
  <2>7. ReadCurrent'
    BY <1>15
       DEF StatementFails, Finish, IInv, TypeOK, MutexOwned, TransactionOwned,
           CallPlaced, ReadCurrent, InCallback
  <2>8. WritesApplied'
    BY <1>15 DEF StatementFails, Finish, IInv, TypeOK, WritesApplied, ToWrite
  <2> QED
    BY <2>1, <2>2, <2>3, <2>4, <2>5, <2>6, <2>7, <2>8 DEF IInv
<1>16. ASSUME NEW t \in Threads, Return(t) PROVE IInv'
  <2>1. TypeOK'
    BY <1>16, Answers DEF Return, IInv, TypeOK
  <2>2. MutexOwned'
    BY <1>16 DEF Return, IInv, TypeOK, MutexOwned
  <2>3. TransactionOwned'
    BY <1>16 DEF Return, IInv, TypeOK, MutexOwned, TransactionOwned
  <2>4. WriterCurrent'
    BY <1>16 DEF Return, IInv, MutexOwned, TransactionOwned, WriterCurrent
  <2>5. SnapshotCurrent'
    BY <1>16 DEF Return, IInv, MutexOwned, WriterCurrent, SnapshotCurrent
  <2>6. CallPlaced'
    BY <1>16 DEF Return, IInv, TypeOK, CallPlaced
  <2>7. ReadCurrent'
    BY <1>16
       DEF Return, IInv, TypeOK, MutexOwned, TransactionOwned, ReadCurrent
  <2>8. WritesApplied'
    BY <1>16 DEF Return, IInv, TypeOK, CallPlaced, WritesApplied, ToWrite
  <2> QED
    BY <2>1, <2>2, <2>3, <2>4, <2>5, <2>6, <2>7, <2>8 DEF IInv
<1>17. ASSUME NEW c \in Conns, Crash(c) PROVE IInv'
  <2>1. TypeOK'
    BY <1>17, Answers DEF Crash, IInv, TypeOK
  <2>2. MutexOwned'
    BY <1>17 DEF Crash, IInv, TypeOK, MutexOwned
  <2>3. TransactionOwned'
    BY <1>17 DEF Crash, IInv, TypeOK, MutexOwned, TransactionOwned
  <2>4. WriterCurrent'
    BY <1>17
       DEF Crash, IInv, TypeOK, MutexOwned, TransactionOwned, WriterCurrent
  <2>5. SnapshotCurrent'
    BY <1>17
       DEF Crash, IInv, TypeOK, MutexOwned, TransactionOwned, WriterCurrent,
           SnapshotCurrent
  <2>6. CallPlaced'
    BY <1>17 DEF Crash, IInv, CallPlaced
  <2>7. ReadCurrent'
    BY <1>17 DEF Crash, IInv, MutexOwned, TransactionOwned, ReadCurrent
  <2>8. WritesApplied'
    BY <1>17 DEF Crash, IInv, CallPlaced, WritesApplied, ToWrite
  <2> QED
    BY <2>1, <2>2, <2>3, <2>4, <2>5, <2>6, <2>7, <2>8 DEF IInv
<1>18. CASE UNCHANGED vars
  <2> USE <1>18 DEF vars
  <2>1. TypeOK'
    BY DEF IInv, TypeOK
  <2>2. MutexOwned'
    BY DEF IInv, MutexOwned
  <2>3. TransactionOwned'
    BY DEF IInv, TransactionOwned
  <2>4. WriterCurrent'
    BY DEF IInv, WriterCurrent
  <2>5. SnapshotCurrent'
    BY DEF IInv, SnapshotCurrent
  <2>6. CallPlaced'
    BY DEF IInv, CallPlaced
  <2>7. ReadCurrent'
    BY DEF IInv, ReadCurrent
  <2>8. WritesApplied'
    BY DEF IInv, WritesApplied, ToWrite
  <2> QED
    BY <2>1, <2>2, <2>3, <2>4, <2>5, <2>6, <2>7, <2>8 DEF IInv
<1> QED
  BY <1>1, <1>2, <1>3, <1>3a, <1>4, <1>5, <1>6, <1>7, <1>8, <1>9, <1>10, <1>11,
     <1>12, <1>13, <1>14, <1>15, <1>16, <1>17, <1>18
     DEF Next

\* The invariant holds in every state of every run, hence for every number of
\* processes sharing the file of src/store/mod.rs.
THEOREM Invariance == Spec => []IInv
<1>1. Init => IInv
  BY InitInvariant
<1>2. IInv /\ [Next]_vars => IInv'
  BY Inductive
<1> QED
  BY <1>1, <1>2, PTL DEF Spec

\* The state has its type: each thread runs one call at one of its points, and
\* a row of the table holds a value.
THEOREM TypeCorrect == Spec => []TypeOK
<1>1. IInv => TypeOK
  BY DEF IInv
<1> QED
  BY <1>1, Invariance, PTL

\* Whatever the threads of a process do, a transaction of its connection is
\* that of the update that holds the mutex: the isolation that Store::put,
\* get and delete rely on when they run their statement without one.
THEOREM TransactionIsolated == Spec => []TransactionOwned
<1>1. IInv => TransactionOwned
  BY DEF IInv
<1> QED
  BY <1>1, Invariance, PTL

\* No function given to update ever runs with the write lock of the file
\* held, and who holds it has a snapshot that is still current.
THEOREM WriteLockBrief == Spec => []WriterCurrent
<1>1. IInv => WriterCurrent
  BY DEF IInv
<1> QED
  BY <1>1, Invariance, PTL

-----------------------------------------------------------------------------
\* An update that wrote something and commits holds the write lock, so its
\* snapshot is current: it read what is committed.
LEMMA CommitReadsCurrent ==
  ASSUME IInv, NEW t \in Threads, Commit(t), new[t] # <<>>
  PROVE  read[t] = FetchedAll(db, call[t])
<1> DEFINE c == ConnOf[t]
           u == call[t]
<1>1. pc[t] = "write" /\ done[t] = ToWrite(t)
  BY DEF Commit
<1>2. u \in Workload /\ u.names \in Seq(Names) /\ c \in Conns
  BY <1>1, CallFields, ConnAssumption DEF IInv, TypeOK, CallPlaced, Open
<1>3. /\ Len(read[t]) = Len(u.names) /\ read[t] \in Seq(Values)
      /\ new[t] \in Seq(Values) /\ done[t] \in Nat
      /\ writer = c <=> done[t] > 0
  BY <1>1 DEF IInv, TypeOK, WritesApplied
<1>4. ~stale[c] \/ Len(u.names) = 0
  <2>1. CASE Len(u.names) # 0
    <3>1. ToWrite(t) > 0
      BY <1>2, <1>3, <2>1 DEF ToWrite, Rows
    <3> QED
      BY <1>1, <1>2, <1>3, <3>1 DEF IInv, WriterCurrent
  <2> QED
    BY <2>1
<1>5. \A i \in 1..Len(read[t]) : read[t][i] = Fetched(db, u, i)
  BY <1>1, <1>3, <1>4 DEF IInv, ReadCurrent, Open
<1>6. read[t] = [i \in 1..Len(u.names) |-> read[t][i]]
  BY <1>3
<1> QED
  BY <1>3, <1>5, <1>6 DEF FetchedAll

\* Between its reads and its commit no update loses a write of another
\* process: it commits only what it computed from the current values.
THEOREM UpdatesNotLost == Spec => NoLostUpdate
<1> DEFINE Kept(t) ==
      (/\ call[t].op = "update"
       /\ reply[t] = Pending
       /\ reply'[t].kind = "values"
       /\ new[t] # <<>>)
      => read[t] = FetchedAll(db, call[t])
<1>1. ASSUME IInv, [Next]_vars, NEW t \in Threads
      PROVE  Kept(t)
  <2> SUFFICES ASSUME call[t].op = "update", reply[t] = Pending,
                      reply'[t].kind = "values", new[t] # <<>>
               PROVE  read[t] = FetchedAll(db, call[t])
    OBVIOUS
  <2>1. reply' # reply
    BY DEF Pending
  <2>2. CASE Commit(t)
    BY <1>1, <2>2, CommitReadsCurrent
  <2>3. ASSUME NEW u \in Threads, reply' = [reply EXCEPT ![u] = Failed]
        PROVE  FALSE
    BY <2>3 DEF IInv, TypeOK, Failed, Pending
  <2>4. ASSUME NEW u \in Threads, u # t, NEW r,
               reply' = [reply EXCEPT ![u] = r]
        PROVE  FALSE
    BY <2>4 DEF IInv, TypeOK, Pending
  <2>5. ASSUME NEW c \in Conns, Crash(c) PROVE FALSE
    BY <2>5 DEF Crash, Pending
  <2>6. ASSUME NEW u \in Threads,
               \/ GetExec(u) \/ ListExec(u) \/ PutExec(u)
               \/ DeleteExec(u) \/ WriteBusy(u)
        PROVE  FALSE
    <3>1. u # t
      BY <2>6 DEF GetExec, ListExec, PutExec, DeleteExec, WriteBusy
    <3>2. \E r : reply' = [reply EXCEPT ![u] = r]
      BY <2>6 DEF GetExec, ListExec, PutExec, DeleteExec, WriteBusy, Finish
    <3> QED
      BY <2>4, <3>1, <3>2
  <2>7. ASSUME NEW u \in Threads, Abort(u) \/ StatementFails(u)
        PROVE  FALSE
    BY <2>1, <2>3, <2>7 DEF Abort, StatementFails, Finish
  <2>8. ASSUME NEW u \in Threads, Commit(u), u # t PROVE FALSE
    BY <2>4, <2>8 DEF Commit, Finish
  <2>9. ASSUME NEW u \in Threads, Return(u) PROVE FALSE
    <3>1. reply' = [reply EXCEPT ![u] = Pending]
      BY <2>9 DEF Return
    <3> QED
      BY <3>1 DEF IInv, TypeOK, Pending
  <2>10. ASSUME NEW u \in Threads,
                \/ Invoke(u) \/ Lock(u) \/ Read(u) \/ CallbackReturns(u)
                \/ CallbackFails(u) \/ CallbackHangs(u) \/ Write(u)
                \/ UpgradeRefused(u)
         PROVE  FALSE
    BY <2>1, <2>10 DEF Invoke, Lock, Read, CallbackReturns, CallbackFails,
         CallbackHangs, Write, UpgradeRefused
  <2>11. CASE UNCHANGED vars
    BY <2>1, <2>11 DEF vars
  <2> QED
    BY <1>1, <2>2, <2>5, <2>6, <2>7, <2>8, <2>9, <2>10, <2>11 DEF Next
<1>2. IInv /\ [Next]_vars => [\A t \in Threads : Kept(t)]_vars
  BY <1>1
<1> QED
  BY <1>2, Invariance, PTL DEF Spec, NoLostUpdate

-----------------------------------------------------------------------------
\* With one process the file is never busy and no snapshot ever old.
THEOREM OneProcessNeverBusy ==
  ASSUME NEW c, Conns = {c}
  PROVE  Spec => NeverBusy
<1> DEFINE Current == IInv /\ ~stale[c]
<1>1. Init => Current
  BY InitInvariant DEF Init
<1>2. Current /\ [Next]_vars => Current'
  <2> SUFFICES ASSUME Current, [Next]_vars PROVE ~stale'[c]
    BY Inductive
  <2>1. \A t \in Threads : ConnOf[t] = c
    BY ConnAssumption
  <2>2. CASE UNCHANGED vars
    BY <2>2 DEF vars
  <2>3. ASSUME NEW t \in Threads, stale' = Outdated(ConnOf[t])
        PROVE  ~stale'[c]
    BY <2>1, <2>3 DEF Outdated
  <2>4. ASSUME NEW t \in Threads, stale' = [stale EXCEPT ![ConnOf[t]] = FALSE]
        PROVE  ~stale'[c]
    BY <2>1, <2>4 DEF IInv, TypeOK
  <2>5. ASSUME NEW t \in Threads, DeleteExec(t) \/ PutExec(t) \/ Commit(t)
        PROVE  ~stale'[c]
    BY <2>3, <2>4, <2>5 DEF DeleteExec, PutExec, Commit
  <2>6. ASSUME NEW t \in Threads, Abort(t)
        PROVE  ~stale'[c]
    BY <2>4, <2>6 DEF Abort
  <2>7. ASSUME NEW d \in Conns, Crash(d)
        PROVE  ~stale'[c]
    BY <2>7 DEF Crash, IInv, TypeOK
  <2>8. ASSUME NEW t \in Threads,
               \/ Invoke(t) \/ Lock(t) \/ GetExec(t) \/ ListExec(t)
               \/ WriteBusy(t) \/ Read(t)
               \/ CallbackReturns(t) \/ CallbackFails(t) \/ CallbackHangs(t)
               \/ Write(t) \/ UpgradeRefused(t) \/ StatementFails(t)
               \/ Return(t)
        PROVE  UNCHANGED stale
    BY <2>8 DEF Invoke, Lock, GetExec, ListExec, WriteBusy, Read,
         CallbackReturns, CallbackFails, CallbackHangs, Write, UpgradeRefused,
         StatementFails, Return, conns
  <2> QED
    BY <2>2, <2>5, <2>6, <2>7, <2>8 DEF Next
<1>3. ASSUME Current, NEW t \in Threads
      PROVE  ~WriteBusy(t) /\ ~UpgradeRefused(t)
  <2>1. ConnOf[t] = c /\ c \in Conns /\ writer \in {c, Nobody}
    BY <1>3, ConnAssumption DEF IInv, TypeOK
  <2>2. ASSUME WriteBusy(t) PROVE FALSE
    <3>1. mutex[c] = t /\ pc[t] = "exec" /\ writer = c
      BY <1>3, <2>1, <2>2 DEF WriteBusy, IInv, MutexOwned, Held
    <3> QED
      BY <1>3, <2>1, <3>1 DEF IInv, WriterCurrent
  <2>3. ASSUME UpgradeRefused(t) PROVE FALSE
    BY <1>3, <2>1, <2>3 DEF UpgradeRefused
  <2> QED
    BY <2>2, <2>3
<1>4. Current /\ [Next]_vars
        => [\A t \in Threads : ~WriteBusy(t) /\ ~UpgradeRefused(t)]_vars
  BY <1>3
<1> HIDE DEF Current
<1> QED
  BY <1>1, <1>2, <1>4, PTL DEF Spec, NeverBusy
=============================================================================
