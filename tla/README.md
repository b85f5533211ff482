# lmb in TLA+

`lmb` evaluates Luau scripts: once (`evaluate`), as a cron job (`schedule`) or
for each HTTP request (`serve`). Scripts share a persistent key-value store, an
SQLite file. This directory holds TLA+ models of the parts of `lmb` where
threads, processes, clocks, inputs and failures meet, the TLC runs that check
them on small instances, and TLAPS proofs of the main results for every
instance.

All paths below are relative to the repository.

## Inventory

| Part | Source | State | Operations | Hard because |
|---|---|---|---|---|
| Store | `src/store/mod.rs`, `src/store/stmt.rs` | one table `store(name, value, ...)` in a WAL-mode file; per process one `Connection` behind a `parking_lot::Mutex` | `get`, `put`, `delete`, `list`, `update`, `current_version` | threads of a process share the connection, processes share the file; `update` is a deferred transaction around a Lua function; errors and crashes in the middle |
| Lua binding | `src/lua_binding/mod.rs` | per VM: input, `State` map, store handle | `m.store.k`, `m.store.k = v`, `m.store:update`, `m.request`, `m.response`, `io.*` | the function of `update` runs with the store's mutex held |
| Evaluation | `src/eval.rs` | compiled script, VM, input | `new`, `evaluate`, `set_input`, `schedule` | timeout by an interrupt that removes itself; VM reuse; native calls |
| Schedule | `src/eval.rs`, `src/schedule.rs`, `src/main.rs` | per script `error_count`; the rayon pool | the cron loop, `--bail`, exit of the process | wall clock read twice, long runs, jobs that keep their worker, panics |
| HTTP server | `src/serve.rs` | store and script shared by the handlers | `do_handle_request`, `build_response` | handlers block tokio workers; effects before an error answer |
| Reader | `src/lua_binding/read.rs` | buffered input behind a mutex | `io.read`, `read_unicode`, response bodies | partial reads, invalid UTF-8, stdin shared by several evaluations |
| Migrations | `src/lib.rs`, `src/store/mod.rs`, `migrations/` | schema version in the file | `migrate` | several processes at once, store not migrated, death in the middle |
| HTTP client, crypto, JSON | `src/lua_binding/{http,crypto,json}.rs` | none, or a response's reader | `fetch`, digests, ciphers, conversions | `fetch` blocks without a limit |
| Command line | `src/main.rs`, `src/check.rs`, `src/error.rs` | options, the jobs | one command | parallel jobs over the files, one status for all of them, errors reported here or there |
| Examples, guides, printing | `src/{example,guide}.rs` | none | formatting | nothing the checker is good at |

How they meet: a command builds one `Store` and hands clones of it (the same
mutex) to every `Evaluation` it makes; the Lua binding turns field accesses
into store calls, made by the thread that runs the script; `schedule` evaluates
on rayon workers, `serve` on tokio workers. Processes meet only in the file.

What makes each part correct:

* Store: every call is atomic towards all threads of all processes, also when
  it fails and when its process dies; no update is lost; nobody is blocked by
  another process's script.
* Schedule: a due instant starts a script at most once and not early; a job
  ends after exactly N errors; each script keeps being run.
* Evaluation: Lua code ends at its timeout, not before and not by the clock of
  another evaluation, and leaves nothing locked.
* Server: every request is answered with the status its own script asked for,
  unless a script never ends, and nothing that ends a script leaves the store
  locked.
* Reader: no byte is lost or duplicated, however the source, the buffers and the
  other scripts cut the input; characters are not cut.
* Migrations: the version tells what is in the file, and rows survive.
* Command line: the status is that of all files, and a failure is explained.

## Modules

| Module | What it is |
|---|---|
| `StoreCalls` | the calls, their answers, and what each computes from a table |
| `AtomicStore` | the abstract store: each call takes effect in one step, or fails without effect |
| `Store` | the store as coded: mutex, connection, transaction, snapshot, write lock, one action per statement |
| `StoreMutex` | the contract of a store's mutex: its users wait for it, hold it, give it back |
| `Transfers` | the example of `guides/lua.md`: amounts moved between two balances |
| `MCStore` | instances of `Store` and `Transfers` for TLC |
| `Store_proofs` | its inductive invariant and the safety theorems |
| `StoreRefinement_proofs` | `Store` implements `AtomicStore` and `StoreMutex`; invariants of the data; the transfers |
| `Evaluation`, `MCEvaluation`, `Evaluation_proofs` | evaluations with their timeouts, errors, native calls and the store's mutex; instances; theorems, `StoreMutex` among them |
| `Schedule`, `MCSchedule`, `Schedule_proofs` | the cron loop of every script of one `schedule` command, its instances, its theorems |
| `ReadCalls` | the read calls and what each answers once it has its bytes |
| `ByteStream` | the abstract input: a call takes the bytes of its format in one step |
| `Reader`, `MCReader`, `Reader_proofs` | the input as coded: buffers, the lock of the standard input, byte by byte; instances; theorems |
| `AtomicMigration` | the abstract migration: the version is read in the transaction that changes it |
| `Migration`, `Migration_proofs` | opening and migrating a file by several processes; its invariant and the refinement |
| `Server`, `Server_proofs` | the handlers of `serve` on their workers; its invariant; they implement `StoreMutex` |
| `Ciphers` | how `encrypt` and `decrypt` end |
| `Commands` | the jobs of `check` and `evaluate`, the store commands, the status of the process and what it says |
| `System` | one process of `lmb`, composed of the three above, beside others on the same file |
| `MCSystem`, `System_proofs` | its instances; its theorems |

The definitions named "Mutant" in a module are small changes of the definition
that follows them, as a bug would make them; each property is known to fail for
one of them, so it says something about the code.

### Store

A *thread* is anything that calls the store: a script on a rayon or tokio
worker, or the `store` command. `ConnOf` says which process, hence which mutex
and connection, it uses. `Store::default()` (the in-memory store) is the
instance with one process.

| Variable | In the code |
|---|---|
| `db` | the committed rows; a name without a row is `Absent`, which `get` answers as `Null` |
| `mutex[c]` | who holds `Store.conn` |
| `view[c]` | the rows the open transaction `tx` sees: its snapshot with its own upserts; `NoTable` before the first `SELECT` |
| `stale[c]` | another connection committed since that snapshot |
| `writer` | the connection that holds SQLite's WAL write lock |
| `pc`, `call`, `read`, `new`, `done`, `reply` | the locals of `Store::update` (`values` before and after `f`, upserts made) and the answer |

`update` is `Lock` (lock the mutex, begin a deferred transaction: no snapshot
yet), `Read` for each name, the function (`CallbackReturns`, `CallbackFails`,
`CallbackHangs`), `Write` for each pair of name and new value, `Commit`,
`Return`. Every `?` leads to `Abort`, the roll-back of the dropped transaction.
`get`, `list`, `put` and `delete` are one statement in autocommit mode between
`Lock` and `Return`; `list` answers the names that have a row.

What SQLite does is external to the repository and modelled as the code meets
it: a deferred transaction takes its snapshot with its first read; its first
write takes the write lock, and fails *at once* if the lock is taken or the
snapshot is old (the busy handler, `busy_timeout` of 5 s, is only used by a
statement that holds no snapshot, that is by `put` and `delete`: `WriteBusy` is
its end); a transaction that is dropped, or whose process dies, leaves nothing.
`DiskFails` lets any statement fail for a reason of its own.

A call into the store from inside the function of `update` waits for the mutex
its own thread holds. That, a native call in the function that never returns
(`fetch`, `io.read`), and a function that loops, is `CallbackHangs`; only
threads in `Hanging` take it, so that a run can ask what happens to the others.

Values are JSON documents of which the properties only need equality; their
MessagePack form, `size`, `type_hint` and the time stamps are left out, and a
conversion that fails is `StatementFails` or `CallbackFails`.

`Store`, `Evaluation` and `Server` each see one side of `Store.conn`, and model
the other sides coarsely. `StoreMutex` is what they must agree on: a user waits,
enters a free mutex, leaves the mutex it is in, or ends with its process. Each
of the three defines, as `Use`, where its threads, scripts or handlers are in
these terms, and implements it (`UsesMutex`).

### Schedule

Each script is a job: `queued` until a rayon worker takes it (`Start`), then
`looping` (`Utc::now()`), `planning` (`upcoming(Utc)`, the subtraction,
`to_std().expect`), `sleeping`, `running`, and back, or `bailed`, `panicked`,
or `broken` if it does not compile. A run succeeds, fails, panics (`RunPanics`:
a panic of a native function unwinds out of `evaluate()` and of the loop) or
never ends. `Exit` is the end of `try_for_each`. Each job is a leaf of its own of
rayon's parallel iterator, as it is for a few files. Rayon splits many files
into leaves of several; then the next file of a leaf starts when the loop before
it ends, and is dropped when that one panics. Each loop makes the same steps
then, but some begin later or never, and `Exit` does not wait for the dropped
ones; the safety properties, which speak of loops that run, are not touched by
this. `KeepsRunning` is said of leaves of one file.

The cron expression is due every `Period` instants. The loop only looks at
distances between instants, so the model keeps the position of the wall clock
inside the period (`wall`), the wall-clock time since a job read "now"
(`since`) and the rest of its sleep (`left`): no bound on the clock is needed.
`Tick` advances the clock and the sleepers, `StepBack` sets the wall clock back
and leaves the sleepers alone. A cron expression may name its years: with
`Finite` some due instant is the last one (`over`), and from then on
`upcoming(Utc)` is empty and the `if let` has no `else` (`PlanNothing`): the loop
spins, without a sleep and without a run. `failed`, `runs`, `planned` and `ran` are
history variables that no guard reads.

### Evaluation

A *script* is a thread with one `Evaluation`, hence one VM, that it evaluates
any number of times, as `schedule` does; `serve` and `evaluate` are the case of
one evaluation. `left` is the interrupt of the VM: the instants until
`start.elapsed() > timeout`, or `Removed`. Luau asks the interrupt at calls,
returns and the turns of loops, so the actions that are one of these (`Finish`,
`CallUpdate`, `CallNative`, `FunctionReturns`) have the guard `MayGoOn`. It does
not ask it where a field is accessed or an operator fails: `m.store.k` and
`m.store.k = v` (`AccessStore`), the nested store call and `RaiseError` may
happen however late it is. That matters after a native call that outlasted the
timeout: the script may still write to the store before it is stopped.
A script that loops takes no action at all, except `Tick`.

A native call that waits (`CallNative`) can come from the script or from the
function of an update, which then keeps the mutex (`nativeInside`). `Blocks` and
`Nests` name the scripts that may do the one and the other, so that
`EvaluationsEnd` can say on whom the end of a script depends.

`Throw` is an error on its way out: out of the function of an update (roll-back,
unlock) and out of the script, unless a `pcall` (`Catches`) stops it at either
place. `"statement"` and `"function"` are the places with the mutex held; the
statements and transactions behind them are in `Store`. This module is where the
assumption of `Store` that functions end, unless their thread is in `Hanging`,
comes from: `EvaluationsEnd` shows it for scripts that neither catch the timeout
nor wait inside an update.

### Reader

`io.read` and `read_unicode` read through the `BufReader` of the evaluation; in
`evaluate` and `schedule` the `BufReader`s of all files take from one standard
input. A byte is its position in the `stream`, so that a lost or repeated one
shows; what it stands for is its kind: a digit, a space, a newline, the first or
the second byte of a character. That is what the formats tell apart.

| Variable | In the code |
|---|---|
| `pos` | how much of the source was read |
| `mine[r]`, `used[r]` | all bytes that the `BufReader` of `r` read, and how many of them were consumed; the rest is its buffer |
| `from[r]` | `used[r]` at the beginning of the call: what lies between is the buffer the call fills |
| `holder` | the lock of `Stdin`, which `read_to_end` and `read_to_string` keep to the end |
| `busy`, `call`, `reply` | the call |

`Fill` is one read of the source, of any length the source likes (a pipe), at
most what the call asks of it (`Most`: the capacity, the whole request of
`io.read(n)` if it is no smaller, the rest of the input for `"*a"` and `"*n"`).
`Take` consumes a byte, `Answer` ends the call (`Satisfied`, or `AtEnd`), `Fail`
is an error of the source. `WantsMore` is the condition of each loop:
`read_unicode` counts the prefixes of its buffer that are valid text
(`CharsSeen`), `io.read(n)` reads once and takes what came (`NeedsSource`).
Answers are in `ReadCalls`, with what the code does there: `str::trim` for a
line, `parse::<f64>` of the whole input for `"*n"`, nil for nothing.

The body of a request (`Cursor`) or of a response is the case of one reader.

### Migration, Server, Commands, System

`Migration`: a process opens the file (`Open`); each `migrate` it is told to do
reads the version with no transaction open (`ReadVersion`), and then applies the
SQL and sets the version in one transaction (`Migrate`, `MigrationFails`), so
that another process may come in between. `CREATE TABLE store` and
`DROP TABLE store` do not ask whether the table is there (`Refused`). `plan` is
what `--run-migrations` and `store migrate` ask for, `reverted` a history
variable.

`Server`: a handler takes one of the `workers`, whose number is that of the
cores and so is open (`Workers`; `Accept`), sets `m.response`
(`SetResponse`), calls the store (`LockStore`, `StoreReturns`, `StoreFails`) and
comes to its end: `Return` (with `build_response`: `StatusOf`), `Raise`,
`Panic`, `Hang`, at the end of the script or inside the function of an `update`.
A failing store call ends the script, or is caught by its `pcall`. `Hang` is
whatever never ends: a native call, a loop that catches its timeout, a store
call inside an update.
There is no `await` in `do_handle_request`, so that a handler keeps its worker.
What a script does for a request is picked with the request. `Ciphers` says
which calls of `encrypt` and `decrypt` panic: a key or an IV of the wrong length.

`Commands`: the jobs of `try_for_each` start (`Start`), end in one of the ways
`evaluate` or `do_check_syntax` can end (`Finish`) or never end (`Stall`: for
the reasons of `Hang`, an `io.read` from a standard input that stays open, a
script that is itself read from one, or the mutex of such a job), and their
errors and panics become the status of the process (`Exit`). A panic may leave
files undone that were to follow on its worker. `told` is whether anything was
written to the standard error: by `write_lua_error` and by a panic at once, by
`main` unless it takes the error as written (`Handled`).

`System` conjoins the actions of the three. `Main` prepares its store, then
serves, or runs its jobs, or makes its call (`Calling`); the failure of `bind` comes after
the migration (`Binding`). A call of a handler fails for want of the table if
and only if there is none at that time (`Failing`), a file only then (`Ending`). Other processes
open, migrate up and down, write and die. `MainLeaves` is the death of `Main`
at any point, and it may be started again.

## Runs

| Run | Instance | Shows |
|---|---|---|
| `store_safety` | 2 threads in one process, 1 in another; 2 names, 2 values; one call of each kind; the function swaps or returns too few values; one thread's function may hang; statements fail; processes crash | types, isolation, the inductive invariant, no lost update, refinement of `AtomicStore` |
| `store_single` | 2 threads in one process; names given twice, no names, default lists too short and too long; functions that return too few, too many or no values | refinement again, and that one process never sees a busy error |
| `store_transfer` | the transfer of `guides/lua.md` and its inverse, of 1 and 2 with 2 in all, 3 threads, 2 processes, one with functions that may hang; crashes | money is conserved and no function sees it otherwise; calls return; the write lock is released |
| `evaluation_timeouts` | 2 scripts in one process, one of which may wait for ever in a native call; 1 script in another process that catches errors, and uses the store or waits in a native call inside an update; timeout of 2 instants | the mutex is always returned; timeouts are the evaluation's own; past it a script only ends, or accesses the store on the way; every evaluation ends, unless it waits in a native call or its process has a script of the third kind |
| `evaluation_caught` | 1 script that catches errors | **violated**: it outlives its timeout |
| `schedule_safety` | 3 scripts (one broken), 2 workers, period 2, a last due instant or none, threshold 2, lag up to 3, clock set back twice | one run per due instant, none early, exact threshold, no panic but that of a run without a set-back; every script that has a worker keeps being run until it bails, panics or nothing is due any more |
| `schedule_initial_run` | 1 script, `--initial-run` | **violated**: the option has no effect |
| `schedule_bail_status` | 1 script, threshold 1 | **violated**: a bail ends with status 0 |
| `schedule_bail_others` | 2 scripts, threshold 1 | **violated**: the process goes on with the other script |
| `reader_input` | 2 scripts on one input of up to 3 bytes, every format, buffers of 2 bytes, a source that fails | no byte lost or read twice; the lock is given back; characters are not cut; refinement of `ByteStream`; every call ends |
| `system` | `Main` with any command, 2 requests on 1 or 2 workers, 5 scripts, 2 files; a second process that migrates up and down; failing migrations, deaths and restarts | migrations are atomic, the version is that of the table, rows are kept, a migrated process finds its table; answers are those of their scripts, the mutex comes back, requests are answered unless a script never ends; statuses and messages are those of all files, and a command ends unless a job of it never does |
| `silent_failure` | the same with 1 request | **violated**: an `evaluate` fails and says nothing |

Why the bounds are enough. Store: two threads behind one mutex show every
interference inside a process, the third thread every interference between
processes (a third process does what the second does: it takes the lock, or
commits); two names are needed for a torn update, and two values to tell an old
row from a new one. The call of each kind is fixed per run, but any number of
calls follow one another, since a thread returns to `idle`: the state graph is
finite and complete, no counter is capped. Schedule: two working jobs on two
workers with a third in the queue show the pool; `MaxLag` 3 exceeds the period,
so a thread can lose whole due instants between two lines; `MaxSteps` 2 lets the
clock go back across a due instant. `failed` stops counting at `Bail + 1`. Once
the schedule is over the clock is not set back, so that no due instant comes a
second time. Evaluation: a script begins again after it ended, so every order of
timeouts and later evaluations occurs; time beyond the timeout is not told
apart, and two instants suffice for an interrupt that is older or younger than
its evaluation. Reader: a third script would take bytes as the second does;
inputs of 3 bytes are longer than the buffer, hold a character that begins in
one buffer and ends in the next, a number before and after a newline, and text
that is not valid, and the source cuts each of them everywhere; calls follow one another
without a bound. System: one process beside `Main` makes every change of the
file between two of its steps; two requests of which one holds the mutex or
the only worker show what it does to the other, and a name of a request is used again,
so that any number of them follow one another; two files are enough for an
error and a panic of one `try_for_each` to meet; the codes of the responses lie
at the edges of HTTP's range and of 16 bits; an error inside the function of
an `update` is left to `Evaluation` and to the proof of `HolderStores`. No state is cut off by a
constraint in any run.

`CHECK_DEADLOCK FALSE` is set for `Schedule` only: a `schedule` command whose
jobs all ended has exited.

### Fairness

`Store!Fairness`: each statement, commit, roll-back and return of a thread that
can run is eventually made (threads are scheduled, the disk answers). `Lock`
is strongly fair: parking_lot hands its mutex to a waiter at the latest 0.5 ms
into contention, so a thread that finds the mutex free again and again gets
it. A function ends (returns, fails, or is stopped by the timeout) unless its
thread is in `Hanging`. Nothing is assumed about `Invoke`, `CallbackHangs`,
`StatementFails` and `Crash`.

`Evaluation!Fairness`: time passes, a statement ends, and the mutex is handed
over as above. `Interrupt`, which is only enabled after the timeout, is strongly
fair: a thread that runs Lua code, however often it stops to access the store,
reaches a safe point, as code without calls, returns and loops is finite.
Scripts need not finish by themselves, and native calls need not return.

`Schedule!Fairness`: time passes, runnable threads run, and the scripts can be
read. Nothing is assumed about `StepBack`, nor about whether and how a run ends.

`Reader!Fairness`: threads run, and the source gives what it holds and then its
end. Whether scripts call again and whether the source fails is open. Weak
fairness is enough: the lock of `Stdin` is held by a call that reads to the end,
which comes.

`System!Fairness`: `Main` prepares its store; its jobs are handed out, and each
ends or hangs; a handler that has a worker goes on, but may hang. `Locking` is
strongly fair, as parking_lot hands the mutex over as above. `Accepting` is
strongly fair, as tokio serves its tasks in their order, but only as long as no
handler hangs. A handler that hangs keeps its worker, and if that worker was the
one that waits for the sockets on behalf of all, nobody does it in its place:
the other workers may sleep for ever with requests at the door. So nothing is
promised to a waiting request from then on, and `Answered` says what is left: it
is answered unless some script never ends, and once taken it is answered even
then, unless it hangs itself or needs the mutex that a hanging one holds. Nothing
is assumed about clients, other processes, deaths and the input of `store put`,
so `Answered` and `CommandEnds` hold with a `Main` that may die at any time.

## What is proved

For all values of the constants that satisfy the named assumptions
(`ValuesAssumption`: null is a value, the mark of a missing row is not;
`WorkloadAssumption`: the calls are well formed; `ConnAssumption`,
`MarkAssumption`, `TransferAssumption`, `EvaluationAssumption`, `ScheduleAssumption`,
`CallsAssumption`, `ReaderAssumption`, `MigrationAssumption`,
`ServerAssumption`, `SystemAssumption`: the shape of the parameters).

`Store_proofs`:
`Invariance`, `TypeCorrect`, `TransactionIsolated`, `WriteLockBrief`,
`UpdatesNotLost`, `OneProcessNeverBusy`. The argument: `NoLostUpdate` needs that
at `Commit` the values read are those of `db`. That is not inductive: it holds
because (1) who committed something holds the write lock, so its snapshot is not
stale (`WriterCurrent`); (2) as long as a snapshot is not stale, what was read
from it is what `db` holds (`ReadCurrent`, which rests on `SnapshotCurrent`); (3)
the connection's variables belong to one thread at a time (`MutexOwned`,
`TransactionOwned`), so no other call of the process comes in between; and (4)
a writer's view is `db` with its first upserts (`WritesApplied`), so that its
commit is one step of the abstract update. `IInv` is the conjunction.

`OneProcessNeverBusy` adds that with a single connection no snapshot is ever
stale: what the test `concurrency` of the store tries with a few threads, for
any number of them and all their interleavings.

`StoreRefinement_proofs`: `StoreIsAtomic`, step simulation with the identity as
refinement mapping on `db`, `call` and `reply`. `GetExec`,
`ListExec`, `PutExec`, `DeleteExec` and `Commit` are the abstract `Get`, `List`,
`Put`, `Delete` and `Update`;
`WriteBusy`, `Abort` and a failing statement are `Fail`; everything else is a
stutter. One abstract action is weaker than one would write at first: an update
whose function returns *no* value writes nothing, so SQLite never compares its
snapshot, and it may have computed on old values (`UpdateNothing`).

From the refinement's argument follows what a script may rely on for its data.
`StepIsOutcome`: the committed table only changes as one call made alone would
change it. So, for any set `Good` of tables that holds the empty one and that
each call keeps if it is made alone (`Keeps`), `DataInvariant` says that the
table is always in `Good`, and that every update has read, whatever others
committed meanwhile, values of one table in `Good` (`SeenIn`). The second half
is not a consequence of the refinement: an update that is refused in the end
has run its function all the same. It holds because the first read takes the
snapshot and later reads find it (`ReadSeen`), and because only the holder of
the mutex touches the view (`StepSeen`). `MoneyConserved` is the case of the
guide's transfers: for any number of threads and processes, any amounts, and any
further calls that leave the two names alone (`OnlyTransfers`), the balances
add up, none is overdrawn, and no function is given two that do not add up.

`StoreUsesMutex`, `EvaluationsUseMutex`, `HandlersUseMutex`: `Store`,
`Evaluation` and `Server` implement `StoreMutex`. What each of them assumes of
the others who use the mutex is therefore what the others do.

`Evaluation_proofs`: `Invariance`, `MutexAlwaysReturned`, `OwnTimeout`,
`EndsAfterTimeout`. An interrupt measures the evaluation that runs
(`OwnDeadline`: its age and what is left add up to the timeout), and it is
missing only where a timeout was caught (`Armed`); so it never strikes early, and
a script that catches nothing finds it run out when its time is over. What is
left to such a script is to end, or a field access that asks no interrupt.
`NestedCallNeverReturns` is the other side: a script that calls the store inside
the function of its update makes no further step, whatever its timeout and
whoever else runs, and its process never gets the mutex back.

`Schedule_proofs`: `Invariance`, `TypeCorrect`, `RunsOnce`, `RunsWhenDue`,
`BailsExactly`, `PanicNeedsSetBack`. The heart of the invariant is
`SleepsLongEnough`: while the clock was never set back, a job that read "now"
in this period sleeps at least to its end. Hence it cannot run again before the
next due instant. `PanicNeedsSetBack` is an action property: a job that panics
was running its script, or the clock was set back; a slow thread alone makes the
sleep longer, never negative (`since[f] >= 0 - steps`).

`Reader_proofs`: `Invariance`, `TypeCorrect`, `BytesOnce`, `LockGivenBack`,
`CharactersStayWhole`, `SoleReaderInOrder`, `ReaderIsByteStream`. `EachByteOnce`
says of the readers' bytes that they increase within each reader, are different
between readers, and are all the bytes up to `pos`; with the type invariant it
is inductive as it stands, since a `Fill` appends bytes beyond `pos` only.

`CharactersKept` and the refinement need two more parts of `IInv`. `NotTooMuch`:
a call that goes on has taken no byte after the one that satisfies it, so that
it stops at that byte and the next call finds the rest. `AloneInOrder`: who
alone reads the source holds its first bytes in order, so that what it reads of
a valid text is a part of that text. The code counts the characters of a call by
asking which prefixes of its buffer are valid. That number is a cardinality, and
not a count that goes along with the bytes, so it takes no induction: in a valid
text, "the last byte of" is a bijection from the characters that begin to those
that end (`Aligned`), and one more byte adds at most one end (`EndsNext`).
Hence a call that has as many ends as it asked for stops between two characters
(`SoundBoundary`, `AnswerKeepsCharacters`). The refinement maps the buffers and
the bytes of a call in progress to the `inbox` of the stream: a `Fill` is an
arrival, a `Take` a stutter, and the `Answer` takes what the format says
(`TakesEnough`), no less because the call wanted more before its last byte, and
no more because of `NotTooMuch`. `SoleReaderInOrder` is the case of a body.

`Migration_proofs`, `Server_proofs`: `MigrationInvariance` and
`ServerInvariance`. `VersionTellsTable` is inductive because `Migrate` is only
possible if the SQL fits the table of that moment, whatever version was read.
`MigratedServes` rests on `MigratedLasts`: what a process migrated, or read as
migrated, is there as long as nobody dropped the table since. `AnswerAsAsked`
rests on `StateOwn`: until it ends, the `State` of a request holds what its own
script put there.

`MigrationIsAtomic`: `Migration` implements `AtomicMigration`, in which the
version is read in the transaction that changes it. A migration takes effect at
its transaction if it has something to do: the SQL only fits the version that
was read, so at that moment it is still the version of the file (this is where
`VersionTellsTable` is needed). If it has nothing to do it takes effect when it
reads the version (`Over`), as the version may be another one when it returns.
The race of two processes can thus make one of them fail, and nothing else.

`System_proofs`: each step of `System` is a step of the migrations, of the server
and of the commands, or a stutter of them, so the whole implements
each of them (`PartsRun`), their three invariants hold of it, and its migrations
are atomic (`SystemMigratesAtomically`); `LostTells` relates them (calls and jobs belong to a process that runs,
and if one failed for want of the table, then the table was dropped). From this:
`SystemTypes`, `VersionConsistent`, `MigrationsKeepRows` (an action property),
`MigrationServes`, `MutexGivenBack`, `AnswersOwn`, `ExitHonest`,
`FailuresExplained`, for any number of processes, requests, workers, files and
scripts.

Where a refinement compares answers (`AtomicStore`, `ByteStream`), both sides
compute them with the operators of `StoreCalls` and `ReadCalls`. It shows when a
call takes effect and on what, not that these operators are right; they are
translated from the code, line by line of the map.

Only model-checked: liveness (`CallsReturn`, `WriteLockReleased`,
`EvaluationsEnd`, `KeepsRunning`, `ReadsEnd`, `Answered`, `CommandEnds`; TLAPS
does not prove liveness under fairness). Every other property of a run that
passes is a theorem. Only proved, and in no run: `DataInvariant`, which speaks
of all sets of tables, `SoleReaderInOrder`, `NestedCallNeverReturns`,
`PartsRun`, and the three `UsesMutex`.

## What the checks found

* `--initial-run` is accepted and ignored (`src/eval.rs:200`).
* A job that bails makes the process exit with status 0 (`src/main.rs:424`),
  and only when all other jobs ended too (`src/main.rs:413`).
* A script that catches the timeout with `pcall` runs on without any limit
  (`src/eval.rs:161`), and if it does so inside an update, every other script
  of its process that uses the store waits for it.
* A script that comes back from a native call after its timeout may still read
  and write the store by field accesses (`src/lua_binding/mod.rs:129`), for which
  no interrupt is asked; it does not get into or out of an `update` any more.
* No command is sure to end, with or without `--timeout`: a job may wait in
  `io.read` or `fetch`, catch its timeout, or use the store inside an update.
* One handler that never ends may stop the whole server, idle workers or not.
* `evaluate` of a script that does not compile fails without a word
  (`src/main.rs:298`): `build()?` leaves before `write_lua_error` is called, and
  `main` takes the error as written (`src/main.rs:518`).
* Within one process no store call can fail because the file is busy; across
  processes an `update` may, and nothing in `lmb` retries it.
* An update never holds the write lock while its function runs: a hanging
  script blocks its own process only. In its own process, one request that hangs
  inside an `update` stops every other request that uses the store.
* Two first `migrate` calls at the same time: one of them fails, as both read
  version 0, although `src/store/mod.rs:60` wants migrations idempotent. That is
  all the race can do: those that succeed are atomic, nothing is lost, and a
  second try succeeds.
* If several files fail, `try_for_each` passes one error on, not always the
  first; errors that only `main` would write, of the other files, are not shown.

Read in the code while modelling, in the model as the code has it, and not
checked against a property: `io.read("*l")` trims white space at both ends,
where the comment (`src/lua_binding/read.rs:22`) speaks of the newline;
`"*n"` consumes the whole input; `io.read(0)` is always nil, and waits for input
if the buffer is empty; `read_unicode("*l")` and `("*a")` are never nil;
one byte that is not UTF-8 makes `read_unicode(n)` swallow the rest of the input
and answer nil; two scripts of one command may each get half a character of
their standard input. `guides/lua.md` names the variable `LMB_STORE_MIGRATE`;
`src/main.rs:62` reads `LMB_RUN_MIGRATIONS`.

## Not modelled

* Store: `current_version` (it reads), time stamps, sizes and type hints,
  SQLite's checkpoints and the size of the WAL file, power failures
  (`synchronous=NORMAL` may lose the last commits). `Store` assumes a migrated
  file; the calls without one are in `System`, where a call is one step.
* Schedule: a clock set forward; several files in one leaf of rayon's iterator.
* Evaluation: `max_memory_usage`, `set_input` (no command calls it), the `State`
  and the globals a VM keeps from one evaluation to the next, `write_script`.
  Commands evaluate a VM twice in `schedule` only, without a state.
* Lua binding: `m.request` (data), `io.write`, `io.stderr`.
* HTTP client: requests and conversions. `fetch` is a native call that may fail
  or never return; the response's `read` is a `Reader`, its `json` is not
  modelled.
* Crypto and JSON: what they compute.
* Server: what arrives in `m.request`, the body of the answer, and what becomes of
  an answer in the HTTP library (hyper makes a 500 of a status below 200). A
  script that catches errors other than those of its store call, or the panics
  which mlua turns into errors for `pcall`, is the subject of `Evaluation`.
* Command line: the parsing of options, `example`, `guide`, `list-themes`; the
  layout of the reports of `check` and `write_lua_error`.

## Plan

Built in this order: `Store` and its refinement, `Schedule`, `Evaluation`,
`Reader` and its refinement, `Migration`, `Server` and `Commands` with their
composition in `System`, then `StoreMutex`, `AtomicMigration`, `Transfers` and
the proofs of all refinements. Left:

1. `Evaluation`: the `State` and the globals of a VM that is evaluated again.
2. `Store` and `Evaluation` conjoined, with the statements of a call inside the
   evaluation that makes it; `StoreMutex` is the interface for this.
3. `Schedule`: a clock that is set forward.
