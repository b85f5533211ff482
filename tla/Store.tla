------------------------------- MODULE Store -------------------------------
(***************************************************************************)
(* The store of src/store/mod.rs as the threads of several processes       *)
(* drive it.  A process owns one SQLite connection behind one mutex, which *)
(* every call holds from its first line to its return; the processes meet  *)
(* in one database file in WAL mode, whose rules for snapshots and for the *)
(* single writer are modelled as the code meets them.  The table exists    *)
(* (the store is migrated).                                                *)
(*                                                                         *)
(* Inside update every statement is a step of its own, so that a thread of *)
(* another process, a crash or an error can come between any two.          *)
(***************************************************************************)
EXTENDS StoreCalls

CONSTANTS
  Threads,    \* the threads that call the store
  Conns,      \* the processes, each with its one connection
  ConnOf,     \* the process of each thread
  Hanging,    \* threads whose update function may never come back
  DiskFails,  \* TRUE if a statement may fail for a reason of its own
  NoTable,    \* no snapshot: the connection has read nothing in a transaction
  Nobody      \* no thread holds the mutex, no connection holds the write lock

ASSUME ConnAssumption ==
  /\ ConnOf \in [Threads -> Conns]
  /\ Hanging \subseteq Threads
  /\ DiskFails \in BOOLEAN

ASSUME MarkAssumption ==
  /\ Nobody \notin Threads \cup Conns
  /\ NoTable \notin Table

VARIABLES
  db,      \* the committed table in the database file
  writer,  \* the connection that holds the WAL write lock
  mutex,   \* per connection: the thread that holds Store.conn
  view,    \* per connection: the table its open transaction sees
  stale,   \* per connection: another one committed since its snapshot
  pc,      \* per thread: where it is
  call,    \* per thread: the call it is in
  read,    \* per thread: the values update read so far
  new,     \* per thread: the values its function returned
  done,    \* per thread: how many of them are written
  reply    \* per thread: the answer, once there is one

vars == <<db, writer, mutex, view, stale, pc, call, read, new, done, reply>>
conns == <<writer, view, stale>>
locals == <<read, new, done>>

Init ==
  /\ db = [n \in Names |-> Absent]
  /\ writer = Nobody
  /\ mutex = [c \in Conns |-> Nobody]
  /\ view = [c \in Conns |-> NoTable]
  /\ stale = [c \in Conns |-> FALSE]
  /\ pc = [t \in Threads |-> "idle"]
  /\ call = [t \in Threads |-> NoCall]
  /\ read = [t \in Threads |-> <<>>]
  /\ new = [t \in Threads |-> <<>>]
  /\ done = [t \in Threads |-> 0]
  /\ reply = [t \in Threads |-> Pending]

Go(t, place) == pc' = [pc EXCEPT ![t] = place]

\* A result is ready; what is left of the call is the drop of its guards.
Finish(t, r) ==
  /\ reply' = [reply EXCEPT ![t] = r]
  /\ Go(t, "return")

\* Mutant: no other connection notices the commit.
OutdatedUnnoticed(c) == [stale EXCEPT ![c] = FALSE]

\* New frames in the WAL by connection c: every other open snapshot is old.
Outdated(c) == [d \in Conns |-> d # c /\ (stale[d] \/ view[d] # NoTable)]

\* A script, a handler or a command calls the store.
Invoke(t) ==
  /\ pc[t] = "idle"
  /\ \E c \in Workload : call' = [call EXCEPT ![t] = c]
  /\ Go(t, "lock")
  /\ UNCHANGED <<db, conns, mutex, locals, reply>>

\* Mutant: the connection is used without its mutex.
LockIgnoresHolder(t) ==
  /\ pc[t] = "lock"
  /\ mutex' = [mutex EXCEPT ![ConnOf[t]] = t]
  /\ Go(t, IF call[t].op = "update" THEN "read" ELSE "exec")
  /\ UNCHANGED <<db, conns, call, locals, reply>>

\* self.conn.lock(); update then begins a deferred transaction, which takes
\* no snapshot and no lock of the file yet.
Lock(t) ==
  /\ pc[t] = "lock"
  /\ mutex[ConnOf[t]] = Nobody
  /\ mutex' = [mutex EXCEPT ![ConnOf[t]] = t]
  /\ Go(t, IF call[t].op = "update" THEN "read" ELSE "exec")
  /\ UNCHANGED <<db, conns, call, locals, reply>>

GetExec(t) ==
  /\ pc[t] = "exec"
  /\ call[t].op = "get"
  /\ Finish(t, Result(<<Lookup(db, call[t].name)>>))
  /\ UNCHANGED <<db, conns, mutex, call, locals>>

\* One SELECT goes over all rows, on the snapshot it took with the first one,
\* whatever other processes commit before the last one.
ListExec(t) ==
  /\ pc[t] = "exec"
  /\ call[t].op = "list"
  /\ Finish(t, Listed(Present(db)))
  /\ UNCHANGED <<db, conns, mutex, call, locals>>

\* One statement in autocommit mode: it takes the write lock, writes and
\* commits.  The mutex keeps every transaction of this connection away.
PutExec(t) ==
  /\ pc[t] = "exec"
  /\ call[t].op = "put"
  /\ writer = Nobody
  /\ db' = [db EXCEPT ![call[t].name] = call[t].value]
  /\ stale' = Outdated(ConnOf[t])
  /\ Finish(t, Affected(1))
  /\ UNCHANGED <<writer, view, mutex, call, locals>>

\* A DELETE that finds no row leaves no frame in the WAL.
DeleteExec(t) ==
  /\ pc[t] = "exec"
  /\ call[t].op = "delete"
  /\ writer = Nobody
  /\ db' = [db EXCEPT ![call[t].name] = Absent]
  /\ IF db[call[t].name] = Absent
     THEN /\ Finish(t, Affected(0))
          /\ UNCHANGED stale
     ELSE /\ Finish(t, Affected(1))
          /\ stale' = Outdated(ConnOf[t])
  /\ UNCHANGED <<writer, view, mutex, call, locals>>

\* The write lock stayed taken for the whole busy_timeout of five seconds.
WriteBusy(t) ==
  /\ pc[t] = "exec"
  /\ call[t].op \in {"put", "delete"}
  /\ writer # Nobody
  /\ Finish(t, Failed)
  /\ UNCHANGED <<db, conns, mutex, call, locals>>

\* Mutant: BEGIN IMMEDIATE, the write lock is taken before the first read.
ReadLocks(t) ==
  LET c == ConnOf[t]
      i == Len(read[t]) + 1
  IN /\ pc[t] = "read"
     /\ i <= Len(call[t].names)
     /\ writer \in {c, Nobody}
     /\ writer' = c
     /\ view' = [view EXCEPT ![c] = IF @ = NoTable THEN db ELSE @]
     /\ read' = [read EXCEPT ![t] = Append(@, Fetched(view'[c], call[t], i))]
     /\ UNCHANGED <<db, stale, mutex, pc, call, new, done, reply>>

\* The next SELECT of update; the first one takes the snapshot.
Read(t) ==
  LET c == ConnOf[t]
      i == Len(read[t]) + 1
  IN /\ pc[t] = "read"
     /\ i <= Len(call[t].names)
     /\ view' = [view EXCEPT ![c] = IF @ = NoTable THEN db ELSE @]
     /\ read' = [read EXCEPT ![t] = Append(@, Fetched(view'[c], call[t], i))]
     /\ UNCHANGED <<db, writer, stale, mutex, pc, call, new, done, reply>>

\* All values are read: update is inside its function, with the mutex held.
InCallback(t) ==
  /\ pc[t] = "read"
  /\ Len(read[t]) = Len(call[t].names)

\* The function returns an array of JSON values of whatever length.
CallbackReturns(t) ==
  /\ InCallback(t)
  /\ \E vs \in Callback(read[t]) :
       /\ vs \in Seq(Values)
       /\ new' = [new EXCEPT ![t] = vs]
  /\ Go(t, "write")
  /\ UNCHANGED <<db, conns, mutex, call, read, done, reply>>

\* The function raises an error, times out, or returns something else.
CallbackFails(t) ==
  /\ InCallback(t)
  /\ Go(t, "abort")
  /\ UNCHANGED <<db, conns, mutex, call, locals, reply>>

\* The function loops, or calls the store itself: the mutex is not
\* reentrant, so its lock() waits for the very thread that waits.
CallbackHangs(t) ==
  /\ t \in Hanging
  /\ InCallback(t)
  /\ Go(t, "hung")
  /\ UNCHANGED <<db, conns, mutex, call, locals, reply>>

\* Mutant: the last of the new values is not written.
ToWriteShort(t) ==
  LET rows == Rows(call[t].names, new[t])
  IN  IF rows = 0 THEN 0 ELSE rows - 1

\* How many upserts update makes.
ToWrite(t) == Rows(call[t].names, new[t])

\* Mutant: the snapshot is not compared with the file before the first write.
WriteUnchecked(t) ==
  LET c == ConnOf[t]
      i == done[t] + 1
  IN /\ pc[t] = "write"
     /\ i <= ToWrite(t)
     /\ writer \in {c, Nobody}
     /\ writer' = c
     /\ view' = [view EXCEPT ![c][call[t].names[i]] = new[t][i]]
     /\ done' = [done EXCEPT ![t] = i]
     /\ UNCHANGED <<db, stale, mutex, pc, call, read, new, reply>>

\* Mutant: no transaction, every upsert is visible at once.
WriteThrough(t) ==
  LET c == ConnOf[t]
      i == done[t] + 1
  IN /\ pc[t] = "write"
     /\ i <= ToWrite(t)
     /\ writer = c \/ (writer = Nobody /\ ~stale[c])
     /\ writer' = c
     /\ view' = [view EXCEPT ![c][call[t].names[i]] = new[t][i]]
     /\ db' = view'[c]
     /\ done' = [done EXCEPT ![t] = i]
     /\ UNCHANGED <<stale, mutex, pc, call, read, new, reply>>

\* The next upsert of update.  The first one takes the write lock, if no one
\* has it and nothing was committed since the snapshot.
Write(t) ==
  LET c == ConnOf[t]
      i == done[t] + 1
  IN /\ pc[t] = "write"
     /\ i <= ToWrite(t)
     /\ writer = c \/ (writer = Nobody /\ ~stale[c])
     /\ writer' = c
     /\ view' = [view EXCEPT ![c][call[t].names[i]] = new[t][i]]
     /\ done' = [done EXCEPT ![t] = i]
     /\ UNCHANGED <<db, stale, mutex, pc, call, read, new, reply>>

\* SQLITE_BUSY or SQLITE_BUSY_SNAPSHOT, at once: the busy handler is not
\* asked when a transaction that already reads wants to write.
UpgradeRefused(t) ==
  LET c == ConnOf[t]
  IN /\ pc[t] = "write"
     /\ done[t] < ToWrite(t)
     /\ writer # c
     /\ writer # Nobody \/ stale[c]
     /\ Go(t, "abort")
     /\ UNCHANGED <<db, conns, mutex, call, locals, reply>>

Commit(t) ==
  LET c == ConnOf[t]
  IN /\ pc[t] = "write"
     /\ done[t] = ToWrite(t)
     /\ IF writer = c
        THEN /\ db' = view[c]
             /\ writer' = Nobody
             /\ stale' = Outdated(c)
        ELSE /\ stale' = [stale EXCEPT ![c] = FALSE]
             /\ UNCHANGED <<db, writer>>
     /\ view' = [view EXCEPT ![c] = NoTable]
     /\ Finish(t, Result(new[t]))
     /\ UNCHANGED <<mutex, call, locals>>

\* Mutant: an error leaves the transaction open.
AbortLeavesOpen(t) ==
  /\ pc[t] = "abort"
  /\ Finish(t, Failed)
  /\ UNCHANGED <<db, conns, mutex, call, locals>>

\* Mutant: the roll-back forgets the write lock.
AbortKeepsLock(t) ==
  LET c == ConnOf[t]
  IN /\ pc[t] = "abort"
     /\ view' = [view EXCEPT ![c] = NoTable]
     /\ stale' = [stale EXCEPT ![c] = FALSE]
     /\ Finish(t, Failed)
     /\ UNCHANGED <<db, writer, mutex, call, locals>>

\* update leaves through "?": the transaction is dropped, which rolls back.
Abort(t) ==
  LET c == ConnOf[t]
  IN /\ pc[t] = "abort"
     /\ view' = [view EXCEPT ![c] = NoTable]
     /\ stale' = [stale EXCEPT ![c] = FALSE]
     /\ writer' = IF writer = c THEN Nobody ELSE writer
     /\ Finish(t, Failed)
     /\ UNCHANGED <<db, mutex, call, locals>>

\* A statement, a conversion or the commit fails (disk full, corrupt row).
StatementFails(t) ==
  /\ DiskFails
  /\ \/ /\ pc[t] = "exec"
        /\ Finish(t, Failed)
     \/ /\ \/ pc[t] = "read" /\ ~InCallback(t)
           \/ pc[t] = "write"
        /\ Go(t, "abort")
        /\ UNCHANGED reply
  /\ UNCHANGED <<db, conns, mutex, call, locals>>

\* Mutant: the mutex stays locked.
ReturnKeepsMutex(t) ==
  /\ pc[t] = "return"
  /\ Go(t, "idle")
  /\ call' = [call EXCEPT ![t] = NoCall]
  /\ reply' = [reply EXCEPT ![t] = Pending]
  /\ read' = [read EXCEPT ![t] = <<>>]
  /\ new' = [new EXCEPT ![t] = <<>>]
  /\ done' = [done EXCEPT ![t] = 0]
  /\ UNCHANGED <<db, conns, mutex>>

\* The guard of the mutex is dropped, last of all, and the call returns.
Return(t) ==
  /\ pc[t] = "return"
  /\ mutex' = [mutex EXCEPT ![ConnOf[t]] = Nobody]
  /\ Go(t, "idle")
  /\ call' = [call EXCEPT ![t] = NoCall]
  /\ reply' = [reply EXCEPT ![t] = Pending]
  /\ read' = [read EXCEPT ![t] = <<>>]
  /\ new' = [new EXCEPT ![t] = <<>>]
  /\ done' = [done EXCEPT ![t] = 0]
  /\ UNCHANGED <<db, conns>>

\* The process ends at any point; SQLite forgets its open transaction.
\* The same threads may call again: they stand for a new process.
Crash(c) ==
  LET Kept(f, blank) ==
        [t \in Threads |-> IF ConnOf[t] = c THEN blank ELSE f[t]]
  IN /\ mutex' = [mutex EXCEPT ![c] = Nobody]
     /\ view' = [view EXCEPT ![c] = NoTable]
     /\ stale' = [stale EXCEPT ![c] = FALSE]
     /\ writer' = IF writer = c THEN Nobody ELSE writer
     /\ pc' = Kept(pc, "idle")
     /\ call' = Kept(call, NoCall)
     /\ read' = Kept(read, <<>>)
     /\ new' = Kept(new, <<>>)
     /\ done' = Kept(done, 0)
     /\ reply' = Kept(reply, Pending)
     /\ UNCHANGED db

Next ==
  \/ \E t \in Threads :
       \/ Invoke(t) \/ Lock(t)
       \/ GetExec(t) \/ ListExec(t) \/ PutExec(t) \/ DeleteExec(t)
       \/ WriteBusy(t) \/ Read(t)
       \/ CallbackReturns(t) \/ CallbackFails(t) \/ CallbackHangs(t)
       \/ Write(t) \/ UpgradeRefused(t) \/ Commit(t) \/ Abort(t)
       \/ StatementFails(t) \/ Return(t)
  \/ \E c \in Conns : Crash(c)

Spec == Init /\ [][Next]_vars

(***************************************************************************)
(* A runnable thread runs, and the disk answers.  parking_lot hands the    *)
(* mutex over to a waiter within half a millisecond of contention, so a    *)
(* thread that keeps finding it free gets it.  A process need not crash, a *)
(* statement need not fail, and only some functions are known to end.      *)
(***************************************************************************)
Fairness ==
  \A t \in Threads :
    /\ SF_vars(Lock(t))
    /\ WF_vars(\/ GetExec(t) \/ ListExec(t) \/ PutExec(t) \/ DeleteExec(t)
               \/ WriteBusy(t))
    /\ WF_vars(Read(t))
    /\ t \notin Hanging => WF_vars(CallbackReturns(t) \/ CallbackFails(t))
    /\ WF_vars(Write(t) \/ UpgradeRefused(t) \/ Commit(t))
    /\ WF_vars(Abort(t))
    /\ WF_vars(Return(t))

FairSpec == Spec /\ Fairness
-----------------------------------------------------------------------------
\* Where a thread holds the mutex, and where update's transaction is open.
Open == {"read", "hung", "write", "abort"}
Held == Open \cup {"exec", "return"}

\* Every variable has its type.
TypeOK ==
  /\ db \in Table
  /\ writer \in Conns \cup {Nobody}
  /\ mutex \in [Conns -> Threads \cup {Nobody}]
  /\ view \in [Conns -> Table \cup {NoTable}]
  /\ stale \in [Conns -> BOOLEAN]
  /\ pc \in [Threads -> Held \cup {"idle", "lock"}]
  /\ call \in [Threads -> Workload \cup {NoCall}]
  /\ read \in [Threads -> Seq(Values)]
  /\ new \in [Threads -> Seq(Values)]
  /\ done \in [Threads -> Nat]
  /\ reply \in [Threads -> Replies]

\* The mutex of a connection is held by the one thread of its process that
\* is between lock() and return: no call keeps it, and no two have it.
MutexOwned ==
  /\ \A t \in Threads : pc[t] \in Held <=> mutex[ConnOf[t]] = t
  /\ \A c \in Conns : mutex[c] # Nobody => ConnOf[mutex[c]] = c

\* A transaction with a snapshot is that of the update which holds the mutex:
\* no statement of get, put, delete or of another update lands inside it,
\* and none stays open when update has returned, failed or died.
TransactionOwned ==
  \A c \in Conns :
    IF view[c] = NoTable THEN ~stale[c] /\ writer # c
    ELSE mutex[c] # Nobody /\ pc[mutex[c]] \in Open

\* The write lock of the file is only held between two statements of an
\* update whose snapshot nobody has overtaken, never while a function runs.
WriterCurrent ==
  \A c \in Conns :
    writer = c => ~stale[c] /\ pc[mutex[c]] \in {"write", "abort"}

\* Until it writes, a snapshot that nobody overtook is the committed table.
SnapshotCurrent ==
  \A c \in Conns :
    view[c] # NoTable /\ ~stale[c] /\ writer # c => view[c] = db

\* A thread has an answer exactly at the end of its call, and each place in
\* the code belongs to its kind of call.
CallPlaced ==
  \A t \in Threads :
    /\ call[t] = NoCall <=> pc[t] = "idle"
    /\ reply[t] # Pending <=> pc[t] = "return"
    /\ pc[t] \in Open => call[t].op = "update"
    /\ pc[t] = "exec" => call[t].op \in {"get", "list", "put", "delete"}

\* What update has read is in its snapshot, and it is what is committed now
\* unless another process committed since.
ReadCurrent ==
  \A t \in Threads :
    /\ pc[t] \in {"idle", "lock", "exec"} => read[t] = <<>>
    /\ pc[t] \in Open =>
         /\ Len(read[t]) <= Len(call[t].names)
         /\ view[ConnOf[t]] = NoTable <=> read[t] = <<>>
         /\ ~stale[ConnOf[t]] =>
              \A i \in 1..Len(read[t]) : read[t][i] = Fetched(db, call[t], i)

\* A transaction that wrote sees the committed table with its first upserts.
WritesApplied ==
  \A t \in Threads :
    /\ pc[t] \in Held \ {"write", "abort", "return"} => done[t] = 0
    /\ pc[t] \in {"idle", "lock"} => done[t] = 0
    /\ pc[t] = "write" =>
         /\ Len(read[t]) = Len(call[t].names)
         /\ new[t] \in Callback(read[t])
         /\ done[t] <= ToWrite(t)
         /\ writer = ConnOf[t] <=> done[t] > 0
         /\ writer = ConnOf[t] =>
              view[ConnOf[t]] = Apply(db, call[t].names, new[t], done[t])

\* The inductive invariant: why an update cannot be torn or lost.
IInv ==
  /\ TypeOK
  /\ MutexOwned
  /\ TransactionOwned
  /\ WriterCurrent
  /\ SnapshotCurrent
  /\ CallPlaced
  /\ ReadCurrent
  /\ WritesApplied

\* An update that succeeds and wrote something computed its new values from
\* the values its commit replaces: whatever other processes put or update
\* between its reads and its commit, no write of theirs is lost.
NoLostUpdate ==
  [][\A t \in Threads :
       /\ call[t].op = "update"
       /\ reply[t] = Pending
       /\ reply'[t].kind = "values"
       /\ new[t] # <<>>
       => read[t] = FetchedAll(db, call[t])]_vars

\* A single process is never refused: no call of its threads fails because
\* the file is busy or its snapshot old, however they interleave.
NeverBusy ==
  [][\A t \in Threads : ~WriteBusy(t) /\ ~UpgradeRefused(t)]_vars

Atomic == INSTANCE AtomicStore WITH db <- db, call <- call, reply <- reply

\* To its callers the store is the atomic one: every call takes effect in one
\* step or answers an error and has no effect, crashes included.
Implements == Atomic!Spec

\* Where each thread is, seen from the mutex of its process.
Use == [t \in Threads |->
          IF pc[t] = "lock" THEN "waiting"
          ELSE IF pc[t] \in Held THEN "inside" ELSE "out"]

Mutex == INSTANCE StoreMutex
           WITH Users <- Threads, Procs <- Conns, ProcOf <- ConnOf, use <- Use

\* Every call waits for the mutex of its process, has it to itself, and gives
\* it back when it returns, fails or dies.
UsesMutex == Mutex!Spec

\* Every call comes back, and so does every call of a process none of whose
\* functions hangs, whatever the functions of other processes do.
CallsReturn ==
  \A t \in Threads :
    (\A u \in Hanging : ConnOf[u] # ConnOf[t]) =>
      (pc[t] # "idle" ~> pc[t] = "idle")

\* The write lock of the file is always given back, even if some function
\* never ends: a hanging script cannot make the store read-only for others.
WriteLockReleased == \A c \in Conns : writer = c ~> writer # c
=============================================================================
