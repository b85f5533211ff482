---------------------------- MODULE Server_proofs ----------------------------
(***************************************************************************)
(* Proofs about Server: for any number of requests and workers and any     *)
(* scripts, the mutex of the store is held by a handler that uses it, and  *)
(* a request is answered with what its own script said.                    *)
(***************************************************************************)
EXTENDS Server, TLAPS

\* The invariant holds of a server that has no request yet.
LEMMA ServerInitInv == ServerInit => ServerInv
BY ServerAssumption
   DEF ServerInit, ServerInv, ServerTypeOK, HolderStores, AnswerAsAsked,
       StateOwn, NoScript, Unset, Responses

\* What a script may do for a request, the empty script included.
LEMMA ScriptType ==
  ASSUME ServerTypeOK, NEW q \in Requests
  PROVE  /\ script[q].response \in Responses
         /\ script[q].end \in Ends
         /\ script[q].store \in Calls
<1>1. \A x \in Scripts \cup {NoScript} :
        /\ x.response \in Responses
        /\ x.end \in Ends
        /\ x.store \in Calls
  <2>1. \A x \in Scripts :
          x \in [response : Responses, end : Ends, store : Calls]
    BY ServerAssumption
  <2>2. Unset \in Responses
    BY DEF Unset, Responses
  <2> QED
    BY <2>1, <2>2 DEF NoScript, Ends, Calls
<1> QED
  BY <1>1 DEF ServerTypeOK

\* The status of an answer is one of HTTP, and that of the script if that is
\* one.
LEMMA StatusFits ==
  ASSUME NEW r \in Responses
  PROVE  AnswerFits(r, TRUE, StatusOf(r))
<1> DEFINE code == IF r.code = -1 THEN 200 ELSE r.code
<1>1. r.code \in Nat \cup {-1} /\ r.legal \in BOOLEAN /\ code \in Nat
  BY DEF Responses
<1>2. code \in 100..999 => code < 2^16
  <2>1. 2^16 = 65536
    OBVIOUS
  <2> QED
    BY <1>1, <2>1
<1>3. StatusOf(r) = IF code \in 100..999 /\ r.legal THEN code ELSE 500
  BY <1>1, <1>2 DEF StatusOf
<1> QED
  BY <1>1, <1>3 DEF AnswerFits

\* An answer that fits its request preserves the invariant, and gives the
\* mutex back.
LEMMA AnswerInv ==
  ASSUME ServerInv, NEW q \in Requests, NEW status, Answer(q, status),
         at[q] # "hung", UNCHANGED <<compiles, workers, script, state>>,
         lost' \in [Requests -> {"no", "table", "other"}],
         \A r \in Requests \ {q} : lost'[r] = lost[r],
         AnswerFits(script[q].response, Fine(q)', status), status \in Nat
  PROVE  ServerInv'
<1> USE ServerAssumption DEF ServerInv
<1>1. /\ at' = [at EXCEPT ![q] = "answered"]
      /\ answer' = [answer EXCEPT ![q] = status]
      /\ holder' = IF holder = q THEN Free ELSE holder
  BY DEF Answer, Move
<1>2. /\ at'[q] = "answered" /\ answer'[q] = status
      /\ \A r \in Requests \ {q} : at'[r] = at[r] /\ answer'[r] = answer[r]
  BY <1>1 DEF ServerTypeOK
<1>3. ServerTypeOK'
  BY <1>1 DEF ServerTypeOK
<1>4. HolderStores'
  <2> SUFFICES ASSUME NEW r \in Requests
               PROVE  holder' = r <=> \/ at'[r] = "storing"
                                      \/ at'[r] = "hung"
                                         /\ script'[r].store = "inside"
    BY DEF HolderStores
  <2>1. CASE r = q
    BY <1>1, <1>2, <2>1
  <2>2. CASE r # q
    <3>1. holder' = r <=> holder = r
      BY <1>1, <2>2
    <3> QED
      BY <1>2, <2>2, <3>1 DEF HolderStores
  <2> QED
    BY <2>1, <2>2
<1>5. AnswerAsAsked'
  <2> SUFFICES ASSUME NEW r \in Requests, at'[r] = "answered"
               PROVE  AnswerFits(script[r].response, Fine(r)', answer'[r])
    BY DEF AnswerAsAsked
  <2>1. CASE r = q
    BY <1>2, <2>1
  <2>2. CASE r # q
    <3>1. Fine(r)' = Fine(r)
      BY <2>2 DEF Fine
    <3>2. AnswerFits(script[r].response, Fine(r), answer[r])
      BY <1>2, <2>2 DEF AnswerAsAsked
    <3> QED
      BY <1>2, <2>2, <3>1, <3>2
  <2> QED
    BY <2>1, <2>2
<1>6. StateOwn'
  BY <1>2 DEF StateOwn, EndsInside
<1> QED
  BY <1>3, <1>4, <1>5, <1>6

\* The steps of a request that do not answer it preserve the invariant.
LEMMA QuietStepInv ==
  ASSUME ServerInv, NEW q \in Requests,
         \/ Arrive(q) \/ SetResponse(q) \/ LockStore(q) \/ StoreReturns(q)
         \/ Panic(q) \/ Hang(q) \/ Forget(q)
  PROVE  ServerInv'
<1> USE ServerAssumption
    DEF ServerInv, ServerTypeOK, HolderStores, AnswerAsAsked, StateOwn,
        Fine, Move, EndsInside, AtEnd
<1>0. \A r \in Responses : r.code \in Nat \cup {-1}
  BY DEF Responses
<1>1. CASE Arrive(q)
  <2>1. /\ at[q] = "out" /\ at' = [at EXCEPT ![q] = "waiting"]
        /\ UNCHANGED <<compiles, workers, state, holder, lost, answer>>
        /\ \E s \in Scripts : script' = [script EXCEPT ![q] = s]
    BY <1>1 DEF Arrive
  <2>2. /\ at'[q] = "waiting" /\ lost[q] = "no"
        /\ \A r \in Requests \ {q} : at'[r] = at[r] /\ script'[r] = script[r]
    BY <2>1
  <2>3. ServerTypeOK'
    BY <2>1
  <2>4. HolderStores'
    BY <2>1, <2>2
  <2>5. ASSUME NEW r \in Requests, at'[r] = "answered"
        PROVE  AnswerFits(script'[r].response, Fine(r)', answer'[r])
    <3>1. r # q /\ at[r] = "answered" /\ Fine(r)' = Fine(r)
      BY <2>1, <2>2, <2>5
    <3> QED
      BY <2>1, <2>2, <3>1
  <2>6. StateOwn'
    BY <2>1, <2>2
  <2> QED
    BY <2>3, <2>4, <2>5, <2>6
<1>2. CASE SetResponse(q)
  <2>1. /\ state' = [state EXCEPT ![q] = script[q].response]
        /\ at' = [at EXCEPT ![q] = IF script[q].store = "no" THEN "ending"
                                  ELSE "locking"]
        /\ at[q] = "running"
        /\ UNCHANGED <<compiles, workers, script, holder, lost, answer>>
    BY <1>2 DEF SetResponse
  <2>2. script[q].response \in Responses
    BY ScriptType
  <2>3. compiles
    BY <2>1
  <2>4. ServerTypeOK' /\ HolderStores' /\ AnswerAsAsked'
    BY <2>1, <2>2
  <2>5. StateOwn'
    BY <2>1, <2>2, <2>3
  <2> QED
    BY <2>4, <2>5
<1>3. CASE LockStore(q)
  BY <1>3 DEF LockStore
<1>4. CASE StoreReturns(q)
  BY <1>4 DEF StoreReturns
<1>5. CASE Panic(q)
  BY <1>5 DEF Panic
<1>6. CASE Hang(q)
  <2>1. /\ at' = [at EXCEPT ![q] = "hung"]
        /\ at[q] = "ending" \/ (at[q] = "storing" /\ EndsInside(q))
        /\ script[q].end = "hangs"
        /\ UNCHANGED <<compiles, workers, script, state, holder, lost, answer>>
    BY <1>6 DEF Hang
  <2>2. holder = q <=> at[q] = "storing"
    BY <2>1
  <2>3. at[q] = "ending" => script[q].store # "inside"
    BY <2>1
  <2> QED
    BY <2>1, <2>2, <2>3
<1>7. CASE Forget(q)
  BY <1>7 DEF Forget, NoScript, Unset, Responses
<1> QED
  BY <1>1, <1>2, <1>3, <1>4, <1>5, <1>6, <1>7

\* A request that ends with an error is answered with 500.
LEMMA ErrorInv ==
  ASSUME ServerInv, NEW q \in Requests, Answer(q, 500), at[q] # "hung",
         UNCHANGED <<compiles, workers, script, state>>,
         lost' \in [Requests -> {"no", "table", "other"}],
         \A r \in Requests \ {q} : lost'[r] = lost[r],
         ~Fine(q)'
  PROVE  ServerInv'
<1>1. script[q].response \in Responses
  BY ScriptType DEF ServerInv
<1>2. AnswerFits(script[q].response, Fine(q)', 500)
  BY <1>1 DEF AnswerFits, Responses, Fine
<1> QED
  BY <1>2, AnswerInv

\* The steps that answer a request preserve the invariant.
LEMMA AnswerStepInv ==
  ASSUME ServerInv, NEW q \in Requests,
         \/ Accept(q) \/ Return(q) \/ Raise(q)
         \/ \E why \in {"table", "other"} : StoreFails(q, why)
  PROVE  ServerInv'
<1> USE DEF ServerInv
<1>1. lost \in [Requests -> {"no", "table", "other"}]
  BY DEF ServerTypeOK
<1>2. CASE Accept(q) /\ compiles
  <2> USE ServerAssumption
      DEF ServerTypeOK, HolderStores, AnswerAsAsked, StateOwn, Fine, EndsInside
  <2>1. /\ at[q] = "waiting" /\ at' = [at EXCEPT ![q] = "running"]
        /\ UNCHANGED <<compiles, workers, script, state, holder, lost, answer>>
    BY <1>2 DEF Accept, Move
  <2>2. lost[q] = "no"
    BY <2>1
  <2>3. ServerTypeOK' /\ HolderStores' /\ AnswerAsAsked'
    BY <2>1
  <2>4. StateOwn'
    BY <1>2, <2>1, <2>2
  <2> QED
    BY <2>3, <2>4
<1>3. CASE Accept(q) /\ ~compiles
  <2>1. /\ Answer(q, 500) /\ at[q] = "waiting"
        /\ UNCHANGED <<compiles, workers, script, state, lost>>
    BY <1>3 DEF Accept
  <2> QED
    BY <1>1, <1>3, <2>1, ErrorInv DEF Fine
<1>4. CASE Return(q)
  <2>1. /\ Answer(q, StatusOf(state[q])) /\ at[q] \in {"ending", "storing"}
        /\ script[q].end = "returns"
        /\ UNCHANGED <<compiles, workers, script, state, lost>>
    BY <1>4 DEF Return, AtEnd
  <2>2. /\ compiles /\ (lost[q] = "no" \/ script[q].store = "pcall")
        /\ state[q] = script[q].response
    BY <2>1 DEF StateOwn
  <2>3. Fine(q)' = TRUE
    BY <2>1, <2>2 DEF Fine
  <2>4. AnswerFits(script[q].response, TRUE, StatusOf(state[q]))
    BY <2>2, StatusFits, ScriptType
  <2>5. StatusOf(state[q]) \in Nat
    BY <2>4 DEF AnswerFits
  <2> QED
    BY <1>1, <2>1, <2>3, <2>4, <2>5, AnswerInv
<1>5. CASE Raise(q)
  <2>1. /\ Answer(q, 500) /\ at[q] \in {"ending", "storing"}
        /\ script[q].end = "raises"
        /\ UNCHANGED <<compiles, workers, script, state, lost>>
    BY <1>5 DEF Raise, AtEnd
  <2> QED
    BY <1>1, <2>1, ErrorInv DEF Fine
<1>6. ASSUME NEW why \in {"table", "other"}, StoreFails(q, why),
             script[q].store # "pcall"
      PROVE  ServerInv'
  <2>1. /\ Answer(q, 500) /\ at[q] = "storing"
        /\ lost' = [lost EXCEPT ![q] = why]
        /\ UNCHANGED <<compiles, workers, script, state>>
    BY <1>6 DEF StoreFails
  <2>2. /\ lost' \in [Requests -> {"no", "table", "other"}]
        /\ lost'[q] # "no"
        /\ \A r \in Requests \ {q} : lost'[r] = lost[r]
    BY <1>1, <2>1
  <2> QED
    BY <1>6, <2>1, <2>2, ErrorInv DEF Fine
<1>7. ASSUME NEW why \in {"table", "other"}, StoreFails(q, why),
             script[q].store = "pcall"
      PROVE  ServerInv'
  <2> USE ServerAssumption
      DEF ServerTypeOK, HolderStores, AnswerAsAsked, StateOwn, Fine, EndsInside
  <2>1. /\ at[q] = "storing" /\ at' = [at EXCEPT ![q] = "ending"]
        /\ lost' = [lost EXCEPT ![q] = why] /\ holder' = Free
        /\ UNCHANGED <<compiles, workers, script, state, answer>>
    BY <1>7 DEF StoreFails, Move
  <2>2. holder = q
    BY <2>1
  <2>3. /\ at'[q] = "ending" /\ lost'[q] = why
        /\ \A r \in Requests \ {q} : at'[r] = at[r] /\ lost'[r] = lost[r]
    BY <2>1
  <2>4. ServerTypeOK'
    BY <2>1
  <2>5. HolderStores'
    BY <2>1, <2>2, <2>3
  <2>6. AnswerAsAsked'
    BY <2>1, <2>3
  <2>7. StateOwn'
    BY <1>7, <2>1, <2>3
  <2> QED
    BY <2>4, <2>5, <2>6, <2>7
<1> QED
  BY <1>2, <1>3, <1>4, <1>5, <1>6, <1>7

\* The death of the server preserves the invariant: nothing is left.
LEMMA DieInv == ServerInv /\ Die => ServerInv'
BY ServerAssumption
   DEF Die, ServerInv, ServerTypeOK, HolderStores, AnswerAsAsked, StateOwn,
       NoScript, Unset, Responses, EndsInside

\* Every step of the server preserves the invariant.
LEMMA ServerStepInv ==
  ASSUME ServerInv, [ServerNext]_serverVars
  PROVE  ServerInv'
<1>1. CASE UNCHANGED serverVars
  BY <1>1
     DEF serverVars, ServerInv, ServerTypeOK, HolderStores, AnswerAsAsked,
         StateOwn, Fine, EndsInside
<1> QED
  BY <1>1, QuietStepInv, AnswerStepInv, DieInv DEF ServerNext

\* The invariant of the server holds in every reachable state, whatever its
\* scripts do and however the handlers interleave.
THEOREM ServerInvariance == ServerSpec => []ServerInv
<1> QED
  BY ServerInitInv, ServerStepInv, PTL DEF ServerSpec
-----------------------------------------------------------------------------
\* A step that moves one request, or none, in the eyes of the mutex.
LEMMA UseMoves ==
  ASSUME NEW q \in Requests, NEW u,
         \A r \in Requests \ {q} : at'[r] = at[r] /\ script'[r] = script[r],
         Use'[q] = u
  PROVE  Use' = [Use EXCEPT ![q] = u]
BY DEF Use

\* A handler that answers, unwinds or catches the failure of a call gives the
\* mutex back, if it has it.
LEMMA GivesBack ==
  ASSUME ServerInv, NEW q \in Requests,
         at[q] \in {"waiting", "storing", "ending"},
         NEW place \in {"ending", "answered", "closed"},
         at' = [at EXCEPT ![q] = place], UNCHANGED script,
         holder' = IF holder = q THEN Free ELSE holder
  PROVE  Mutex!Leave(q) \/ UNCHANGED Mutex!vars
<1> USE DEF ServerInv, ServerTypeOK
<1>1. Use' = [Use EXCEPT ![q] = "out"]
  BY UseMoves DEF Use
<1>2. CASE at[q] = "storing"
  <2>1. holder = q /\ holder' = Free /\ Use[q] = "inside"
    BY <1>2 DEF HolderStores, Use
  <2> QED
    BY <1>1, <2>1 DEF Mutex!Leave
<1>3. CASE at[q] # "storing"
  <2>1. holder # q /\ holder' = holder /\ Use[q] = "out"
    BY <1>3 DEF HolderStores, Use
  <2>2. Use' = Use
    BY <1>1, <2>1 DEF Use
  <2> QED
    BY <2>1, <2>2 DEF Mutex!vars
<1> QED
  BY <1>2, <1>3

\* Every step is one of the users of the mutex, or none of them moves.
LEMMA ServerStepUsesMutex ==
  ASSUME ServerInv, [ServerNext]_serverVars
  PROVE  [Mutex!Next]_(Mutex!vars)
<1> USE DEF ServerInv, ServerTypeOK
<1>1. ASSUME NEW q \in Requests, Arrive(q) \/ Forget(q)
      PROVE  UNCHANGED Mutex!vars
  BY <1>1, UseMoves DEF Arrive, Forget, Move, Use, Mutex!vars
<1>2. ASSUME NEW q \in Requests, Accept(q)
      PROVE  Mutex!Leave(q) \/ UNCHANGED Mutex!vars
  <2>1. CASE compiles
    BY <1>2, <2>1 DEF Accept, Move, Use, Mutex!vars
  <2>2. CASE ~compiles
    BY <1>2, <2>2, GivesBack DEF Accept, Answer, Move
  <2> QED
    BY <2>1, <2>2
<1>3. ASSUME NEW q \in Requests, SetResponse(q)
      PROVE  Mutex!Call(q) \/ UNCHANGED Mutex!vars
  <2>1. CASE script[q].store = "no"
    BY <1>3, <2>1 DEF SetResponse, Move, Use, Mutex!vars
  <2>2. CASE script[q].store # "no"
    <3>1. Use[q] = "out" /\ Use'[q] = "waiting"
      BY <1>3, <2>2 DEF SetResponse, Move, Use
    <3>2. Use' = [Use EXCEPT ![q] = "waiting"]
      BY <1>3, <3>1, UseMoves DEF SetResponse, Move
    <3> QED
      BY <1>3, <3>1, <3>2 DEF SetResponse, Mutex!Call
  <2> QED
    BY <2>1, <2>2
<1>4. ASSUME NEW q \in Requests, LockStore(q)
      PROVE  Mutex!Enter(q)
  <2>1. Use[q] = "waiting" /\ Use'[q] = "inside"
    BY <1>4 DEF LockStore, Move, Use
  <2>2. Use' = [Use EXCEPT ![q] = "inside"]
    BY <1>4, <2>1, UseMoves DEF LockStore, Move
  <2> QED
    BY <1>4, <2>1, <2>2 DEF LockStore, Mutex!Enter
<1>5. ASSUME NEW q \in Requests, StoreReturns(q)
      PROVE  Mutex!Leave(q)
  <2>1. Use[q] = "inside" /\ Use'[q] = "out" /\ holder = q
    BY <1>5 DEF StoreReturns, Move, Use, HolderStores
  <2>2. Use' = [Use EXCEPT ![q] = "out"]
    BY <1>5, <2>1, UseMoves DEF StoreReturns, Move
  <2> QED
    BY <1>5, <2>1, <2>2 DEF StoreReturns, Mutex!Leave
<1>6. ASSUME NEW q \in Requests,
             \/ \E why \in {"table", "other"} : StoreFails(q, why)
             \/ Return(q) \/ Raise(q) \/ Panic(q)
      PROVE  Mutex!Leave(q) \/ UNCHANGED Mutex!vars
  <2>1. at[q] = "storing" => holder = q
    BY DEF HolderStores
  <2> QED
    BY <1>6, <2>1, GivesBack
       DEF StoreFails, Return, Raise, Panic, AtEnd, Answer, Move
<1>7. ASSUME NEW q \in Requests, Hang(q)
      PROVE  UNCHANGED Mutex!vars
  <2>1. Use'[q] = Use[q]
    BY <1>7 DEF Hang, AtEnd, EndsInside, Move, StateOwn, Use
  <2>2. Use' = [Use EXCEPT ![q] = Use[q]]
    BY <1>7, <2>1, UseMoves DEF Hang, Move
  <2>3. Use' = Use
    BY <2>2 DEF Use
  <2> QED
    BY <1>7, <2>3 DEF Hang, Mutex!vars
<1>8. CASE Die
  <2>1. Use' = [q \in Requests |-> "out"]
    BY <1>8 DEF Die, Use
  <2> QED
    BY <1>8, <2>1 DEF Die, Mutex!Next, Mutex!Die
<1>9. CASE UNCHANGED serverVars
  BY <1>9 DEF serverVars, Use, Mutex!vars
<1> QED
  BY <1>1, <1>2, <1>3, <1>4, <1>5, <1>6, <1>7, <1>8, <1>9
     DEF ServerNext, Mutex!Next

\* The handlers of a server use the store as its own model assumes of its
\* threads, though errors and panics unwind them anywhere.
THEOREM HandlersUseMutex == ServerSpec => UsesMutex
<1>1. ServerInit => Mutex!Init
  BY DEF ServerInit, Mutex!Init, Use
<1> QED
  BY <1>1, ServerStepUsesMutex, ServerInvariance, PTL
     DEF ServerSpec, UsesMutex, Mutex!Spec
=============================================================================
