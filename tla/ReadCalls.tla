----------------------------- MODULE ReadCalls -----------------------------
(***************************************************************************)
(* The read calls of a script (src/lua_binding/read.rs), and what each     *)
(* answers once it has its bytes.  A byte is a position of the stream, so  *)
(* that no two bytes are alike; what it stands for is its kind.  The       *)
(* characters are a digit, a space, a newline and one of two bytes.        *)
(***************************************************************************)
EXTENDS Integers, Sequences, FiniteSets

CONSTANTS
  Streams,  \* what the source may hold: sequences of kinds
  Calls     \* the calls scripts make: records [kind, n]

Kinds == {"digit", "space", "newline", "lead", "tail"}
LineCalls == {"line", "uline"}
DrainCalls == {"all", "number", "uall"}
CallKinds == LineCalls \cup DrainCalls \cup {"bytes", "chars", "bad"}

ASSUME CallsAssumption ==
  /\ Streams \subseteq Seq(Kinds)
  /\ Calls \subseteq [kind : CallKinds, n : Nat]

NoCall == [kind |-> "none", n |-> 0]

\* The n bytes after the first p ones.
Following(p, n) == [i \in 1..n |-> p + i]

\* The kinds of some bytes of a stream.
KindsOf(stream, bytes) == [i \in 1..Len(bytes) |-> stream[bytes[i]]]

\* std::str::from_utf8(..).is_ok()
Valid(kinds) ==
  \A i \in 1..Len(kinds) :
    /\ kinds[i] = "lead" => i < Len(kinds) /\ kinds[i + 1] = "tail"
    /\ kinds[i] = "tail" => i > 1 /\ kinds[i - 1] = "lead"

Prefix(s, n) == SubSeq(s, 1, n)

Nil == [kind |-> "nil"]
Error == [kind |-> "error"]
Broken == [kind |-> "broken"]
Pending == [kind |-> "pending"]
Text(bytes) == [kind |-> "text", bytes |-> bytes]
Number(bytes) == [kind |-> "number", bytes |-> bytes]
Replies == {Pending, Nil, Error, Broken}
             \cup [kind : {"text", "number"}, bytes : Seq(Nat)]

\* str::trim, which takes all white space at both ends.
Trim(stream, bytes) ==
  LET n == Len(bytes)
      Blank(i) == stream[bytes[i]] \in {"space", "newline"}
      front == Cardinality({i \in 1..n : \A j \in 1..i : Blank(j)})
      back == Cardinality({i \in 1..n : \A j \in i..n : Blank(j)})
  IN SubSeq(bytes, front + 1, n - back)

\* str::parse::<f64>, of what is left of the whole input.
Parse(stream, bytes) ==
  LET text == Trim(stream, bytes)
  IN IF text # <<>> /\ \A i \in 1..Len(text) : stream[text[i]] = "digit"
     THEN Number(text) ELSE Nil

\* The answer of lua_lmb_read to the formats that need valid text.
ReadText(answer, stream, bytes) ==
  IF bytes = <<>> THEN Nil
  ELSE IF Valid(KindsOf(stream, bytes)) THEN answer ELSE Error

\* io.read(n) is nil when it got nothing, be it that n is 0.
ReadBytes(bytes) == IF bytes = <<>> THEN Nil ELSE Text(bytes)

\* read_unicode(n): nil for bytes that are not text, which are gone.
ReadChars(stream, bytes) ==
  IF bytes = <<>> \/ ~Valid(KindsOf(stream, bytes)) THEN Nil ELSE Text(bytes)

\* read_unicode of a line, which never answers nil.
ReadUnicodeLine(stream, bytes) ==
  IF Valid(KindsOf(stream, bytes)) THEN Text(Trim(stream, bytes)) ELSE Error

\* What a call answers that consumed these bytes.
Reply(stream, call, bytes) ==
  CASE call.kind = "line" ->
         ReadText(Text(Trim(stream, bytes)), stream, bytes)
    [] call.kind = "all" -> ReadText(Text(bytes), stream, bytes)
    [] call.kind = "number" -> ReadText(Parse(stream, bytes), stream, bytes)
    [] call.kind = "bytes" -> ReadBytes(bytes)
    [] call.kind = "uline" -> ReadUnicodeLine(stream, bytes)
    [] call.kind = "uall" -> Text(bytes)
    [] call.kind = "chars" -> ReadChars(stream, bytes)
    [] call.kind = "bad" -> Error
=============================================================================
