------------------------------- MODULE Server -------------------------------
(***************************************************************************)
(* The HTTP server (src/serve.rs).  A handler evaluates the script for its *)
(* request, in a virtual machine and a State of its own, without giving    *)
(* back the worker of the runtime that it runs on.  The handlers share the *)
(* store, hence its mutex.  What the script does for a request is picked   *)
(* when the request arrives.                                               *)
(***************************************************************************)
EXTENDS Integers, FiniteSets

CONSTANTS
  Requests,  \* the requests at a time; a name is used again for later ones
  Workers,   \* the numbers of worker threads that the tokio runtime may have
  Scripts,   \* what the script may do for a request
  Free       \* nobody holds the mutex of the store

\* How it ends: "hangs" stands for all that never does, such as a native
\* call that waits for a peer, a loop that catches its timeout, or the store
\* used inside an update.
Ends == {"returns", "raises", "panics", "hangs"}

\* Its call of the store: none, one whose failure is its own or that pcall
\* catches, or an update in whose function the script comes to its end.
Calls == {"no", "call", "pcall", "inside"}

\* What the script puts into m.response: a code, -1 if it is no natural
\* number or not there, and whether all headers are legal in HTTP.
Responses == [code : Nat \cup {-1}, legal : BOOLEAN]
Unset == [code |-> -1, legal |-> TRUE]

ASSUME ServerAssumption ==
  /\ IsFiniteSet(Requests)
  /\ Workers \subseteq Nat \ {0}
  /\ Scripts \subseteq [response : Responses, end : Ends, store : Calls]
  /\ Free \notin Requests

VARIABLES
  compiles,  \* the script compiles
  workers,   \* the worker threads, one for each core of the machine
  script,    \* per request: what the script does for it
  at,        \* per request: where it is
  state,     \* per request: Response in its State
  holder,    \* the request whose handler holds the mutex of the store
  lost,      \* per request: why its store call failed, or "no"
  answer     \* per request: the status of the answer, or 0

serverVars == <<compiles, workers, script, at, state, holder, lost, answer>>

NoScript == [response |-> Unset, end |-> "returns", store |-> "no"]

ServerInit ==
  /\ compiles \in BOOLEAN
  /\ workers \in Workers
  /\ script = [q \in Requests |-> NoScript]
  /\ at = [q \in Requests |-> "out"]
  /\ state = [q \in Requests |-> Unset]
  /\ holder = Free
  /\ lost = [q \in Requests |-> "no"]
  /\ answer = [q \in Requests |-> 0]

Move(q, place) == at' = [at EXCEPT ![q] = place]

\* The handler drops what it holds, and answers.
Answer(q, status) ==
  /\ answer' = [answer EXCEPT ![q] = status]
  /\ Move(q, "answered")
  /\ holder' = IF holder = q THEN Free ELSE holder

\* A client sends a request.
Arrive(q) ==
  /\ at[q] = "out"
  /\ Move(q, "waiting")
  /\ \E s \in Scripts : script' = [script EXCEPT ![q] = s]
  /\ UNCHANGED <<compiles, workers, state, holder, lost, answer>>

\* The requests whose handlers occupy a worker.
Working ==
  {q \in Requests : at[q] \in {"running", "locking", "storing", "ending",
                               "hung"}}

\* A worker takes the request, and compiles the script for it.
Accept(q) ==
  /\ at[q] = "waiting"
  /\ Cardinality(Working) < workers
  /\ IF compiles THEN Move(q, "running") /\ UNCHANGED <<holder, answer>>
     ELSE Answer(q, 500)
  /\ UNCHANGED <<compiles, workers, script, state, lost>>

\* Mutant: all handlers share one State.
SetResponseShared(q) ==
  /\ at[q] = "running"
  /\ state' = [r \in Requests |-> script[q].response]
  /\ Move(q, IF script[q].store = "no" THEN "ending" ELSE "locking")
  /\ UNCHANGED <<compiles, workers, script, holder, lost, answer>>

\* m.response = ...
SetResponse(q) ==
  /\ at[q] = "running"
  /\ state' = [state EXCEPT ![q] = script[q].response]
  /\ Move(q, IF script[q].store = "no" THEN "ending" ELSE "locking")
  /\ UNCHANGED <<compiles, workers, script, holder, lost, answer>>

\* The script calls the store: the worker waits for the mutex.
LockStore(q) ==
  /\ at[q] = "locking"
  /\ holder = Free
  /\ holder' = q
  /\ Move(q, "storing")
  /\ UNCHANGED <<compiles, workers, script, state, lost, answer>>

\* The handler is inside the function of an update that does not return.
EndsInside(q) == script[q].store = "inside" /\ script[q].end # "returns"

StoreReturns(q) ==
  /\ at[q] = "storing"
  /\ ~EndsInside(q)
  /\ holder' = Free
  /\ Move(q, "ending")
  /\ UNCHANGED <<compiles, workers, script, state, lost, answer>>

\* Mutant: the error answer leaves the mutex locked.
StoreFailsLocked(q, why) ==
  /\ at[q] = "storing"
  /\ lost' = [lost EXCEPT ![q] = why]
  /\ answer' = [answer EXCEPT ![q] = 500]
  /\ Move(q, "answered")
  /\ UNCHANGED <<compiles, workers, script, state, holder>>

\* The call fails, as there is no table or for any other reason; that is an
\* error of the script, which may catch it and go on.
StoreFails(q, why) ==
  /\ at[q] = "storing"
  /\ lost' = [lost EXCEPT ![q] = why]
  /\ IF script[q].store = "pcall"
     THEN Move(q, "ending") /\ holder' = Free /\ UNCHANGED answer
     ELSE Answer(q, 500)
  /\ UNCHANGED <<compiles, workers, script, state>>

\* The script comes to its end, in the function of an update or outside.
AtEnd(q, end) ==
  /\ script[q].end = end
  /\ at[q] = "ending" \/ (at[q] = "storing" /\ EndsInside(q))

\* Mutant: a code that does not fit 16 bits loses its upper ones.
StatusOfWrapped(r) ==
  LET code == IF r.code = -1 THEN 200 ELSE r.code % 2^16
  IN IF code \in 100..999 /\ r.legal THEN code ELSE 500

\* build_response: the code, 200 by default, must fit 16 bits and be one of
\* HTTP, and the headers legal.
StatusOf(r) ==
  LET code == IF r.code = -1 THEN 200 ELSE r.code
  IN IF code < 2^16 /\ code \in 100..999 /\ r.legal THEN code ELSE 500

Return(q) ==
  /\ AtEnd(q, "returns")
  /\ Answer(q, StatusOf(state[q]))
  /\ UNCHANGED <<compiles, workers, script, state, lost>>

\* An error or the timeout ends the script.
Raise(q) ==
  /\ AtEnd(q, "raises")
  /\ Answer(q, 500)
  /\ UNCHANGED <<compiles, workers, script, state, lost>>

\* Mutant: the mutex of the store stays locked.
PanicLocked(q) ==
  /\ AtEnd(q, "panics")
  /\ Move(q, "closed")
  /\ UNCHANGED <<compiles, workers, script, state, holder, lost, answer>>

\* A native function panics: the handler unwinds, the connection is closed.
Panic(q) ==
  /\ AtEnd(q, "panics")
  /\ Move(q, "closed")
  /\ holder' = IF holder = q THEN Free ELSE holder
  /\ UNCHANGED <<compiles, workers, script, state, lost, answer>>

\* The script never ends, and keeps the mutex if it has it.
Hang(q) ==
  /\ AtEnd(q, "hangs")
  /\ Move(q, "hung")
  /\ UNCHANGED <<compiles, workers, script, state, holder, lost, answer>>

\* The client has its answer, or knows that there is none.
Forget(q) ==
  /\ at[q] \in {"answered", "closed"}
  /\ Move(q, "out")
  /\ script' = [script EXCEPT ![q] = NoScript]
  /\ state' = [state EXCEPT ![q] = Unset]
  /\ lost' = [lost EXCEPT ![q] = "no"]
  /\ answer' = [answer EXCEPT ![q] = 0]
  /\ UNCHANGED <<compiles, workers, holder>>

\* The process of the server dies, and its connections with it.
Die ==
  /\ at' = [q \in Requests |-> IF at[q] = "out" THEN "out" ELSE "closed"]
  /\ script' = [q \in Requests |-> NoScript]
  /\ state' = [q \in Requests |-> Unset]
  /\ holder' = Free
  /\ lost' = [q \in Requests |-> "no"]
  /\ answer' = [q \in Requests |-> 0]
  /\ UNCHANGED <<compiles, workers>>

ServerNext ==
  \/ \E q \in Requests :
       \/ Arrive(q) \/ Accept(q) \/ SetResponse(q)
       \/ LockStore(q) \/ StoreReturns(q)
       \/ \E why \in {"table", "other"} : StoreFails(q, why)
       \/ Return(q) \/ Raise(q) \/ Panic(q) \/ Hang(q) \/ Forget(q)
  \/ Die

ServerSpec == ServerInit /\ [][ServerNext]_serverVars
-----------------------------------------------------------------------------
\* Every variable has its type.
ServerTypeOK ==
  /\ compiles \in BOOLEAN
  /\ workers \in Workers
  /\ script \in [Requests -> Scripts \cup {NoScript}]
  /\ at \in [Requests -> {"out", "waiting", "running", "locking", "storing",
                          "ending", "hung", "answered", "closed"}]
  /\ state \in [Requests -> Responses]
  /\ holder \in Requests \cup {Free}
  /\ lost \in [Requests -> {"no", "table", "other"}]
  /\ answer \in [Requests -> Nat]

\* The mutex of the store is held by a handler that is in a store call and by
\* no other, so that every request that is answered or closed gave it back.
HolderStores ==
  \A q \in Requests :
    holder = q <=> \/ at[q] = "storing"
                   \/ at[q] = "hung" /\ script[q].store = "inside"

\* What an answer to a script with response r should be: 500 if the script
\* failed, else the code it set if there is one and all is legal.  (What the
\* HTTP library makes of a code below 200 is not looked at.)
AnswerFits(r, fine, status) ==
  /\ status \in 100..999
  /\ ~fine \/ r.code > 999 => status = 500
  /\ fine /\ r.legal /\ r.code \in 100..999 => status = r.code
  /\ fine /\ r.legal /\ r.code = -1 => status = 200

Fine(q) ==
  /\ compiles
  /\ script[q].end = "returns"
  /\ lost[q] = "no" \/ script[q].store = "pcall"

\* A request is answered with what its own script said, whatever the scripts
\* of the requests beside it set, raise or lock: with 500 if it failed, with
\* the code it set if there is one, and never with a code that is no status.
AnswerAsAsked ==
  \A q \in Requests :
    at[q] = "answered" => AnswerFits(script[q].response, Fine(q), answer[q])

\* Until its end, the State of a request holds what its script put there,
\* no call of it has failed that it did not catch, and none that does not
\* return is over.
StateOwn ==
  \A q \in Requests :
    /\ at[q] \in {"running", "locking", "storing", "ending"} => compiles
    /\ at[q] \in {"locking", "storing", "ending"} =>
         state[q] = script[q].response
    /\ at[q] = "ending" => ~EndsInside(q)
    /\ lost[q] # "no" =>
         \/ at[q] \in {"answered", "closed"}
         \/ at[q] \in {"ending", "hung"} /\ script[q].store = "pcall"

\* The inductive invariant.
ServerInv ==
  ServerTypeOK /\ HolderStores /\ AnswerAsAsked /\ StateOwn

\* Where each request is, seen from the one mutex of the server.
Use == [q \in Requests |->
          CASE at[q] = "locking" -> "waiting"
            [] at[q] = "storing" -> "inside"
            [] at[q] = "hung" /\ script[q].store = "inside" -> "inside"
            [] OTHER -> "out"]

Mutex == INSTANCE StoreMutex
           WITH Users <- Requests, Procs <- {"server"}, Nobody <- Free,
                ProcOf <- [q \in Requests |-> "server"],
                use <- Use, mutex <- [p \in {"server"} |-> holder]

\* However errors and panics unwind a handler, it uses the store the way
\* Store.tla has it.
UsesMutex == Mutex!Spec

\* The handlers that will never be done: those whose script never ends, and
\* those that wait for a mutex that one of them holds.
LostWorkers ==
  {q \in Requests :
     \/ at[q] = "hung"
     \/ at[q] = "locking" /\ holder # Free /\ at[holder] = "hung"}

\* However few the workers and however long the scripts, every request is
\* taken and answered, or its connection closed, as long as no script of any
\* of them never ends; and a request that was taken is answered even then,
\* unless it waits for the mutex of such a script or is it itself.
Answered ==
  \A q \in Requests :
    /\ at[q] = "waiting" ~> \/ at[q] \in {"answered", "closed"}
                            \/ \E r \in Requests : at[r] = "hung"
    /\ at[q] = "running" ~> \/ at[q] \in {"answered", "closed"}
                            \/ q \in LostWorkers
=============================================================================
