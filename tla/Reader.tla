------------------------------- MODULE Reader -------------------------------
(***************************************************************************)
(* The input of the scripts of one command (src/lua_binding/read.rs): each *)
(* evaluation reads through its own BufReader (src/eval.rs), and all of    *)
(* them from the one standard input of the process (src/main.rs).  A read  *)
(* of the source gives some of the bytes that are left, as a pipe does.    *)
(* The body of a request or a response is the case of one reader.          *)
(***************************************************************************)
EXTENDS ReadCalls

CONSTANTS
  Readers,     \* the evaluations that share the source
  Cap,         \* the capacity of a BufReader
  SourceFails, \* TRUE if a read of the source may fail
  Nobody       \* nobody holds the lock of the standard input

ASSUME ReaderAssumption ==
  /\ Cap \in Nat \ {0}
  /\ SourceFails \in BOOLEAN
  /\ Nobody \notin Readers

VARIABLES
  stream,  \* what the source holds
  pos,     \* how many bytes were read from it
  holder,  \* who holds the lock of the standard input to read to its end
  mine,    \* per reader: the bytes it read from the source, in order
  from,    \* per reader: how many of them were consumed before its call
  used,    \* per reader: how many of them are consumed
  busy,    \* per reader: it is in a call
  call,    \* per reader: its last call
  reply    \* per reader: the answer to it

vars == <<stream, pos, holder, mine, from, used, busy, call, reply>>

Init ==
  /\ stream \in Streams
  /\ pos = 0
  /\ holder = Nobody
  /\ mine = [r \in Readers |-> <<>>]
  /\ from = [r \in Readers |-> 0]
  /\ used = [r \in Readers |-> 0]
  /\ busy = [r \in Readers |-> FALSE]
  /\ call = [r \in Readers |-> NoCall]
  /\ reply = [r \in Readers |-> Pending]

\* What the call consumed so far, and what the BufReader holds.
Got(r) == SubSeq(mine[r], from[r] + 1, used[r])
Buffered(r) == SubSeq(mine[r], used[r] + 1, Len(mine[r]))

\* A script calls io.read or read_unicode.
Ask(r) ==
  /\ ~busy[r]
  /\ busy' = [busy EXCEPT ![r] = TRUE]
  /\ \E c \in Calls : call' = [call EXCEPT ![r] = c]
  /\ from' = [from EXCEPT ![r] = used[r]]
  /\ reply' = [reply EXCEPT ![r] = Pending]
  /\ UNCHANGED <<stream, pos, holder, mine, used>>

\* Mutant: every byte that begins a character counts as one.
CharsSeenEarly(kinds) ==
  Cardinality({n \in 1..Len(kinds) : kinds[n] # "tail"})

\* read_unicode tests all its bytes after each one, and counts the successes.
CharsSeen(kinds) ==
  Cardinality({n \in 1..Len(kinds) : Valid(Prefix(kinds, n))})

\* The loop of the call goes on after what it got.
WantsMore(r) ==
  LET kinds == KindsOf(stream, Got(r))
      n == Len(kinds)
  IN \/ call[r].kind \in LineCalls /\ (n > 0 => kinds[n] # "newline")
     \/ call[r].kind \in DrainCalls
     \/ call[r].kind = "bytes" /\ n < call[r].n
     \/ call[r].kind = "chars" /\ CharsSeen(kinds) < call[r].n

\* Mutant: io.read(n) goes on until it has all n bytes.
NeedsSourceUntilFull(r) ==
  busy[r] /\ Buffered(r) = <<>> /\ WantsMore(r)

\* The buffer is empty where the call needs it; io.read(n) reads but once.
NeedsSource(r) ==
  /\ busy[r]
  /\ Buffered(r) = <<>>
  /\ IF call[r].kind = "bytes" THEN Got(r) = <<>> ELSE WantsMore(r)

\* The lock of the standard input is free for this reader.
MayRead(r) == holder \in {r, Nobody}

\* The most that one read of the source gives: the rest of the input to who
\* reads to its end, the whole request if it is no smaller than the buffer.
Most(r) ==
  CASE call[r].kind \in DrainCalls -> Len(stream)
    [] call[r].kind = "bytes" /\ call[r].n >= Cap -> call[r].n
    [] OTHER -> Cap

\* Mutant: the last byte of a full buffer is read a second time.
FillOffByOne(r) ==
  /\ NeedsSource(r)
  /\ MayRead(r)
  /\ \E n \in 1..Most(r) :
       /\ pos + n <= Len(stream)
       /\ mine' = [mine EXCEPT ![r] = @ \o Following(pos, n)]
       /\ pos' = pos + n - (IF n = Cap THEN 1 ELSE 0)
  /\ holder' = IF call[r].kind \in DrainCalls THEN r ELSE holder
  /\ UNCHANGED <<stream, from, used, busy, call, reply>>

\* The source gives some bytes.  A call that reads to the end keeps the lock
\* of the standard input until it is there.
Fill(r) ==
  /\ NeedsSource(r)
  /\ MayRead(r)
  /\ \E n \in 1..Most(r) :
       /\ pos + n <= Len(stream)
       /\ mine' = [mine EXCEPT ![r] = @ \o Following(pos, n)]
       /\ pos' = pos + n
  /\ holder' = IF call[r].kind \in DrainCalls THEN r ELSE holder
  /\ UNCHANGED <<stream, from, used, busy, call, reply>>

\* Mutant: a byte is consumed that is not in the buffer.
TakeUnchecked(r) ==
  /\ busy[r]
  /\ WantsMore(r)
  /\ used' = [used EXCEPT ![r] = @ + 1]
  /\ UNCHANGED <<stream, pos, holder, mine, from, busy, call, reply>>

\* The call consumes a byte of the buffer.
Take(r) ==
  /\ busy[r]
  /\ Buffered(r) # <<>>
  /\ WantsMore(r)
  /\ used' = [used EXCEPT ![r] = @ + 1]
  /\ UNCHANGED <<stream, pos, holder, mine, from, busy, call, reply>>

\* Mutant: a loop does not stop at the end of the input.
AtEndNever(r) ==
  NeedsSource(r) /\ MayRead(r) /\ pos = Len(stream) /\ Got(r) # <<>>

\* A read of the source gives no byte.
AtEnd(r) == NeedsSource(r) /\ MayRead(r) /\ pos = Len(stream)

\* The call stops reading.
Satisfied(r) ==
  /\ busy[r]
  /\ ~NeedsSource(r)
  /\ Buffered(r) # <<>> => ~WantsMore(r)

Unlocked(r) == IF holder = r THEN Nobody ELSE holder

\* Mutant: the lock is kept after the answer.
AnswerKeepsLock(r) ==
  /\ Satisfied(r) \/ AtEnd(r)
  /\ reply' = [reply EXCEPT ![r] = Reply(stream, call[r], Got(r))]
  /\ busy' = [busy EXCEPT ![r] = FALSE]
  /\ UNCHANGED <<stream, pos, holder, mine, from, used, call>>

\* The call answers, and gives back the lock if it has it.
Answer(r) ==
  /\ Satisfied(r) \/ AtEnd(r)
  /\ reply' = [reply EXCEPT ![r] = Reply(stream, call[r], Got(r))]
  /\ busy' = [busy EXCEPT ![r] = FALSE]
  /\ holder' = Unlocked(r)
  /\ UNCHANGED <<stream, pos, mine, from, used, call>>

\* A read of the source fails, and the call with it.
Fail(r) ==
  /\ SourceFails
  /\ NeedsSource(r)
  /\ MayRead(r)
  /\ reply' = [reply EXCEPT ![r] = Broken]
  /\ busy' = [busy EXCEPT ![r] = FALSE]
  /\ holder' = Unlocked(r)
  /\ UNCHANGED <<stream, pos, mine, from, used, call>>

Next ==
  \E r \in Readers : Ask(r) \/ Fill(r) \/ Take(r) \/ Answer(r) \/ Fail(r)

Spec == Init /\ [][Next]_vars

(***************************************************************************)
(* Threads run, and the source gives all it holds and then its end.        *)
(* Scripts need not call, and the source need not fail.                    *)
(***************************************************************************)
Fairness ==
  \A r \in Readers : WF_vars(Fill(r)) /\ WF_vars(Take(r)) /\ WF_vars(Answer(r))

FairSpec == Spec /\ Fairness
-----------------------------------------------------------------------------
\* Every variable has its type.
TypeOK ==
  /\ stream \in Streams
  /\ pos \in 0..Len(stream)
  /\ holder \in Readers \cup {Nobody}
  /\ mine \in [Readers -> Seq(1..pos)]
  /\ used \in [Readers -> Nat] /\ from \in [Readers -> Nat]
  /\ \A r \in Readers : from[r] <= used[r] /\ used[r] <= Len(mine[r])
  /\ busy \in [Readers -> BOOLEAN]
  /\ call \in [Readers -> Calls \cup {NoCall}]
  /\ \A r \in Readers : busy[r] => call[r] \in Calls
  /\ reply \in [Readers -> Replies]

\* However many scripts share the standard input, each of its bytes is read
\* by one of them, and each script reads its bytes in their order.
EachByteOnce ==
  /\ \A r \in Readers : \A i, j \in 1..Len(mine[r]) :
       i < j => mine[r][i] < mine[r][j]
  /\ \A r, q \in Readers :
       \A i \in 1..Len(mine[r]), j \in 1..Len(mine[q]) :
         mine[r][i] = mine[q][j] => r = q
  /\ \A p \in 1..pos : \E r \in Readers : \E i \in 1..Len(mine[r]) :
       mine[r][i] = p

\* The lock of the standard input is held by a call that reads to its end,
\* and by nobody else: no call keeps it when it has answered or failed.
LockOwned ==
  holder # Nobody => busy[holder] /\ call[holder].kind \in DrainCalls

\* A script that has a valid input for itself, and reads no part of it byte
\* by byte, never sees an error or a cut character, wherever the source and
\* the buffer cut it: each call begins and ends between two characters, and
\* read_unicode(n) answers nil only at the end of the input.
CharactersKept ==
  \A r \in Readers :
    LET kinds == KindsOf(stream, mine[r])
    IN /\ Valid(stream) /\ \A q \in Readers \ {r} : mine[q] = <<>>
       /\ ~busy[r] /\ reply[r] \notin {Pending, Broken}
       /\ Valid(Prefix(kinds, from[r]))
       /\ call[r].kind \notin {"bytes", "bad"}
       => /\ Valid(Prefix(kinds, used[r]))
          /\ reply[r] # Error
          /\ call[r].kind = "chars" /\ call[r].n > 0 /\ reply[r] = Nil
               => pos = Len(stream) /\ Buffered(r) = <<>> /\ Got(r) = <<>>

\* No byte after the one that satisfies the call is among those it took.
NoExcess(st, c, bytes) ==
  LET kinds == KindsOf(st, bytes)
  IN /\ c.kind \in LineCalls =>
          \A i \in 1..(Len(kinds) - 1) : kinds[i] # "newline"
     /\ c.kind = "bytes" => Len(kinds) <= c.n
     /\ c.kind = "chars" => /\ CharsSeen(kinds) <= c.n
                            /\ CharsSeen(kinds) = c.n => Valid(kinds)
     /\ c.kind = "bad" => kinds = <<>>

\* The next call finds the rest of the line, the character or the bytes that
\* the call before it did not ask for.
NotTooMuch ==
  \A r \in Readers : busy[r] => NoExcess(stream, call[r], Got(r))

\* Who is the only one to have read has the beginning of the stream.
AloneInOrder ==
  \A r \in Readers :
    (\A q \in Readers \ {r} : mine[q] = <<>>) => mine[r] = Following(0, pos)

\* The inductive invariant.
IInv ==
  /\ TypeOK
  /\ EachByteOnce
  /\ LockOwned
  /\ NotTooMuch
  /\ AloneInOrder
  /\ CharactersKept

\* What a script has that it did not read: in a call, from its first byte on.
Inbox == [r \in Readers |->
            IF busy[r] THEN SubSeq(mine[r], from[r] + 1, Len(mine[r]))
            ELSE Buffered(r)]

Abstract == INSTANCE ByteStream WITH
  stream <- stream, busy <- busy, call <- call, reply <- reply,
  arrived <- pos, inbox <- Inbox

\* However the source, the buffers and the other scripts cut the input into
\* pieces, each call takes the bytes its format says, in one step.
Implements == Abstract!Spec

\* Every call comes back, if the input has an end.
ReadsEnd == \A r \in Readers : busy[r] ~> ~busy[r]
=============================================================================
