----------------------------- MODULE ByteStream -----------------------------
(***************************************************************************)
(* What a script may expect of io.read and read_unicode: the bytes of the  *)
(* source reach the scripts that share it in their order and each one      *)
(* once, and a call takes in one step as many of the bytes that reached    *)
(* its script as its format says, however they were cut into pieces.       *)
(***************************************************************************)
EXTENDS ReadCalls

CONSTANTS
  Readers  \* the scripts

VARIABLES
  stream,   \* what the source holds
  arrived,  \* how many of its bytes reached a script
  inbox,    \* per script: the bytes that reached it and that it did not read
  busy,     \* per script: it is in a call
  call,     \* per script: its last call
  reply     \* per script: the answer to it
vars == <<stream, arrived, inbox, busy, call, reply>>

Init ==
  /\ stream \in Streams
  /\ arrived = 0
  /\ inbox = [r \in Readers |-> <<>>]
  /\ busy = [r \in Readers |-> FALSE]
  /\ call = [r \in Readers |-> NoCall]
  /\ reply = [r \in Readers |-> Pending]

Ask(r) ==
  /\ ~busy[r]
  /\ busy' = [busy EXCEPT ![r] = TRUE]
  /\ \E c \in Calls : call' = [call EXCEPT ![r] = c]
  /\ reply' = [reply EXCEPT ![r] = Pending]
  /\ UNCHANGED <<stream, arrived, inbox>>

Arrive(r) ==
  \E n \in (arrived + 1)..Len(stream) :
    /\ arrived' = n
    /\ inbox' = [inbox EXCEPT ![r] = @ \o Following(arrived, n - arrived)]
    /\ UNCHANGED <<stream, busy, call, reply>>

\* The characters that begin in these bytes.
Begun(kinds) == Cardinality({i \in 1..Len(kinds) : kinds[i] # "tail"})

\* The number of bytes that satisfy a call, if they have arrived: the line
\* with its newline, some bytes but at most n, exactly n whole characters.
Satisfying(c, kinds) ==
  CASE c.kind \in LineCalls ->
         {m \in 1..Len(kinds) : /\ kinds[m] = "newline"
                                /\ \A i \in 1..(m - 1) : kinds[i] # "newline"}
    [] c.kind = "bytes" /\ kinds # <<>> ->
         {IF c.n < Len(kinds) THEN c.n ELSE Len(kinds)}
    [] c.kind = "chars" ->
         {m \in 0..Len(kinds) : /\ Valid(Prefix(kinds, m))
                                /\ Begun(Prefix(kinds, m)) = c.n}
    [] c.kind = "bad" -> {0}
    [] OTHER -> {}

\* The call takes its bytes; at the end of the source, what there is.
Answer(r) ==
  LET enough == Satisfying(call[r], KindsOf(stream, inbox[r]))
  IN /\ busy[r]
     /\ \E m \in IF enough = {} /\ arrived = Len(stream)
                 THEN {Len(inbox[r])} ELSE enough :
          /\ reply' = [reply EXCEPT ![r] =
                         Reply(stream, call[r], Prefix(inbox[r], m))]
          /\ inbox' = [inbox EXCEPT ![r] = SubSeq(@, m + 1, Len(@))]
     /\ busy' = [busy EXCEPT ![r] = FALSE]
     /\ UNCHANGED <<stream, arrived, call>>

\* The source fails: what the call took so far is lost.
Fail(r) ==
  /\ busy[r]
  /\ reply' = [reply EXCEPT ![r] = Broken]
  /\ inbox' = [inbox EXCEPT ![r] = <<>>]
  /\ busy' = [busy EXCEPT ![r] = FALSE]
  /\ UNCHANGED <<stream, arrived, call>>

Next == \E r \in Readers : Ask(r) \/ Arrive(r) \/ Answer(r) \/ Fail(r)

Spec == Init /\ [][Next]_vars
=============================================================================
