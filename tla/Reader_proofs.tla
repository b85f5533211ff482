--------------------------- MODULE Reader_proofs ---------------------------
(***************************************************************************)
(* Proofs about Reader, for any scripts, input, calls and buffer size:     *)
(* each byte of the shared input is read once, and its lock is given back; *)
(* characters stay whole; and the readers implement ByteStream.            *)
(***************************************************************************)
EXTENDS Reader, SequenceTheorems, FiniteSetTheorems, TLAPS

\* A sequence over a set is one over any larger set.
LEMMA SeqMonotone ==
  ASSUME NEW S, NEW T, S \subseteq T, NEW s \in Seq(S)
  PROVE  s \in Seq(T)
OBVIOUS

\* t is s, some of the first p bytes, and after it the n bytes that follow.
Grown(s, t, p, n) ==
  /\ t \in Seq(1..(p + n))
  /\ Len(t) = Len(s) + n
  /\ \A i \in 1..Len(s) : t[i] = s[i] /\ t[i] \in 1..p
  /\ \A i \in (Len(s) + 1)..(Len(s) + n) : t[i] = p + (i - Len(s))

\* What a reader has after the source gave it n more bytes, in the terms the
\* invariant uses: its old bytes, and after them the next ones of the source.
LEMMA Appended ==
  ASSUME NEW p \in Nat, NEW n \in Nat, NEW s \in Seq(1..p)
  PROVE  Grown(s, s \o Following(p, n), p, n)
<1> DEFINE new == Following(p, n)
           t == s \o new
<1>1. /\ new \in Seq(1..(p + n)) /\ Len(new) = n
      /\ \A i \in 1..n : new[i] = p + i
  <2>1. \A i \in 1..n : p + i \in 1..(p + n)
    OBVIOUS
  <2> QED
    BY <2>1 DEF Following
<1>2. s \in Seq(1..(p + n)) /\ Len(s) \in Nat
  BY SeqMonotone, 1..p \subseteq 1..(p + n)
<1>3. /\ t \in Seq(1..(p + n))
      /\ Len(t) = Len(s) + Len(new)
      /\ \A i \in 1..(Len(s) + Len(new)) :
           t[i] = IF i <= Len(s) THEN s[i] ELSE new[i - Len(s)]
  <2> DEFINE Bytes == 1..(p + n)
  <2>1. s \in Seq(Bytes) /\ new \in Seq(Bytes)
    BY <1>1, <1>2
  <2> HIDE DEF Bytes, new
  <2>2. /\ t \in Seq(Bytes)
        /\ Len(t) = Len(s) + Len(new)
        /\ \A i \in 1..(Len(s) + Len(new)) :
             t[i] = IF i <= Len(s) THEN s[i] ELSE new[i - Len(s)]
    BY <2>1, ConcatProperties
  <2> QED
    BY <2>2 DEF Bytes
<1> HIDE DEF new, t
<1>4. \A i \in 1..Len(s) : t[i] = s[i] /\ t[i] \in 1..p
  <2>1. \A i \in 1..Len(s) : t[i] = s[i]
    BY <1>1, <1>2, <1>3
  <2>2. \A i \in 1..Len(s) : s[i] \in 1..p
    BY ElementOfSeq
  <2> QED
    BY <2>1, <2>2
<1>5. \A i \in (Len(s) + 1)..(Len(s) + n) : t[i] = p + (i - Len(s))
  <2> TAKE i \in (Len(s) + 1)..(Len(s) + n)
  <2>1. /\ i - Len(s) \in 1..n
        /\ i \in 1..(Len(s) + Len(new)) /\ ~(i <= Len(s))
    BY <1>1, <1>2
  <2>2. t[i] = new[i - Len(s)]
    BY <1>3, <2>1
  <2> QED
    BY <1>1, <2>1, <2>2
<1> QED
  BY <1>1, <1>3, <1>4, <1>5 DEF Grown, new, t

\* Trimming a text leaves a part of it.
LEMMA TrimType ==
  ASSUME NEW st, NEW bytes \in Seq(Nat)
  PROVE  Trim(st, bytes) \in Seq(Nat)
<1> DEFINE n == Len(bytes)
           Blank(i) == st[bytes[i]] \in {"space", "newline"}
           Front == {i \in 1..n : \A j \in 1..i : Blank(j)}
           Back == {i \in 1..n : \A j \in i..n : Blank(j)}
<1>1. n \in Nat /\ IsFiniteSet(1..n)
  BY FS_Interval
<1>2. Cardinality(Front) \in Nat /\ Cardinality(Back) \in Nat
  <2>1. Front \subseteq 1..n /\ Back \subseteq 1..n
    OBVIOUS
  <2> HIDE DEF Front, Back
  <2> QED
    BY <1>1, <2>1, FS_Subset, FS_CardinalityType
<1>3. Trim(st, bytes) = SubSeq(bytes, Cardinality(Front) + 1,
                               n - Cardinality(Back))
  BY DEF Trim
<1> HIDE DEF Front, Back
<1>4. Cardinality(Front) + 1 \in 1..(n + 1) \/ Cardinality(Front) + 1 > n
  BY <1>1, <1>2
<1> QED
  BY <1>1, <1>2, <1>3, <1>4

\* Whatever bytes a call got, it answers text, a number, nil or an error.
LEMMA ReplyType ==
  ASSUME NEW st, NEW c \in Calls, NEW bytes \in Seq(Nat)
  PROVE  Reply(st, c, bytes) \in Replies \ {Pending, Broken}
<1> DEFINE Answers == Replies \ {Pending, Broken}
<1>1. c.kind \in CallKinds
  BY CallsAssumption
<1>2. \A b \in Seq(Nat) : Text(b) \in Answers /\ Number(b) \in Answers
  BY DEF Text, Number, Replies, Pending, Broken
<1>3. Nil \in Answers /\ Error \in Answers
  BY DEF Nil, Error, Replies, Pending, Broken
<1> HIDE DEF Answers
<1>4. Trim(st, bytes) \in Seq(Nat)
  BY TrimType
<1>5. Parse(st, bytes) \in Answers
  BY <1>2, <1>3, <1>4 DEF Parse
<1>6. \A a \in Answers : ReadText(a, st, bytes) \in Answers
  BY <1>3 DEF ReadText
<1>7. /\ ReadBytes(bytes) \in Answers
      /\ ReadChars(st, bytes) \in Answers
      /\ ReadUnicodeLine(st, bytes) \in Answers
  BY <1>2, <1>3, <1>4 DEF ReadBytes, ReadChars, ReadUnicodeLine
<1>8. /\ ReadText(Text(Trim(st, bytes)), st, bytes) \in Answers
      /\ ReadText(Text(bytes), st, bytes) \in Answers
      /\ ReadText(Parse(st, bytes), st, bytes) \in Answers
  BY <1>2, <1>4, <1>5, <1>6
<1>9. Reply(st, c, bytes) \in Answers
  BY <1>1, <1>2, <1>3, <1>7, <1>8
  DEF Reply, CallKinds, LineCalls, DrainCalls
<1> QED
  BY <1>9 DEF Answers

-----------------------------------------------------------------------------
\* The first n bytes of a text are a valid text.
Sound(kinds, n) ==
  \A i \in 1..n :
    /\ kinds[i] = "lead" => i < n /\ kinds[i + 1] = "tail"
    /\ kinds[i] = "tail" => i > 1 /\ kinds[i - 1] = "lead"

\* Where a character ends, and where one begins, in the first n bytes.
Ends(kinds, n) == {m \in 1..n : Sound(kinds, m)}
Starts(kinds, n) == {m \in 1..n : kinds[m] # "tail"}

\* The elements of a sequence after the first a, up to the b-th.
LEMMA PartOf ==
  ASSUME NEW S, NEW s \in Seq(S), NEW b \in 0..Len(s), NEW a \in 0..b
  PROVE  /\ SubSeq(s, a + 1, b) \in Seq(S)
         /\ Len(SubSeq(s, a + 1, b)) = b - a
         /\ \A i \in 1..(b - a) : SubSeq(s, a + 1, b)[i] = s[a + i]
<1>1. Len(s) \in Nat /\ a \in Int /\ a + 1 \in Int /\ b \in Int
  OBVIOUS
<1>2. \A i \in (a + 1)..b : s[i] \in S
  BY <1>1, ElementOfSeq
<1> DEFINE part == SubSeq(s, a + 1, b)
<1>3. /\ part \in Seq(S)
      /\ Len(part) = IF a + 1 <= b THEN b - (a + 1) + 1 ELSE 0
      /\ \A i \in 1..(b - (a + 1) + 1) : part[i] = s[a + 1 + i - 1]
  BY <1>1, <1>2, SubSeqProperties
<1> HIDE DEF part
<1>4. \A i \in 1..(b - a) : part[i] = s[a + i]
  <2> TAKE i \in 1..(b - a)
  <2>1. i \in 1..(b - (a + 1) + 1) /\ a + 1 + i - 1 = a + i
    BY <1>1
  <2> QED
    BY <1>3, <2>1
<1>5. Len(part) = b - a
  BY <1>1, <1>3
<1> QED
  BY <1>3, <1>4, <1>5 DEF part

\* The first n of the elements of a sequence.
LEMMA PrefixOf ==
  ASSUME NEW S, NEW s \in Seq(S), NEW n \in 0..Len(s)
  PROVE  /\ Prefix(s, n) \in Seq(S)
         /\ Len(Prefix(s, n)) = n
         /\ \A i \in 1..n : Prefix(s, n)[i] = s[i]
BY SubSeqProperties DEF Prefix

\* A prefix of a prefix.
LEMMA PrefixTwice ==
  ASSUME NEW S, NEW s \in Seq(S), NEW n \in 0..Len(s), NEW m \in 0..n
  PROVE  Prefix(Prefix(s, n), m) = Prefix(s, m)
<1>1. /\ Prefix(s, n) \in Seq(S) /\ Len(Prefix(s, n)) = n
      /\ \A i \in 1..n : Prefix(s, n)[i] = s[i]
  BY PrefixOf
<1>2. /\ Prefix(Prefix(s, n), m) \in Seq(S)
      /\ Len(Prefix(Prefix(s, n), m)) = m
      /\ \A i \in 1..m : Prefix(Prefix(s, n), m)[i] = Prefix(s, n)[i]
  BY <1>1, PrefixOf
<1>3. /\ Prefix(s, m) \in Seq(S) /\ Len(Prefix(s, m)) = m
      /\ \A i \in 1..m : Prefix(s, m)[i] = s[i]
  BY PrefixOf
<1> QED
  BY <1>1, <1>2, <1>3, SeqEqual

\* What Valid says of a part of a text, in the bytes of the whole.
LEMMA ValidPrefix ==
  ASSUME NEW kinds \in Seq(Kinds), NEW n \in 0..Len(kinds)
  PROVE  Valid(Prefix(kinds, n)) <=> Sound(kinds, n)
<1> DEFINE p == Prefix(kinds, n)
<1>1. Len(p) = n /\ \A i \in 1..n : p[i] = kinds[i]
  BY PrefixOf
<1>2. \A i \in 1..n :
        /\ i < n => p[i + 1] = kinds[i + 1]
        /\ i > 1 => p[i - 1] = kinds[i - 1]
  BY <1>1
<1> HIDE DEF p
<1>3. Valid(p) <=> Sound(kinds, n)
  BY <1>1, <1>2 DEF Valid, Sound
<1> QED
  BY <1>3 DEF p

LEMMA ValidWhole ==
  ASSUME NEW kinds \in Seq(Kinds)
  PROVE  Valid(kinds) <=> Sound(kinds, Len(kinds))
BY DEF Valid, Sound

\* The two ways to count the characters of a part of a text.
LEMMA CharsSeenOf ==
  ASSUME NEW kinds \in Seq(Kinds), NEW n \in 0..Len(kinds)
  PROVE  CharsSeen(Prefix(kinds, n)) = Cardinality(Ends(kinds, n))
<1>1. Len(Prefix(kinds, n)) = n
  BY PrefixOf
<1>2. \A m \in 1..n :
        Valid(Prefix(Prefix(kinds, n), m)) <=> Sound(kinds, m)
  BY PrefixTwice, ValidPrefix
<1>3. {m \in 1..n : Valid(Prefix(Prefix(kinds, n), m))} = Ends(kinds, n)
  BY <1>2 DEF Ends
<1> QED
  BY <1>1, <1>3 DEF CharsSeen

\* The ends of the characters in a longer text are those in a shorter one,
\* and the new last byte if the text is valid up to it.
LEMMA EndsNext ==
  ASSUME NEW kinds, NEW n \in Nat
  PROVE  /\ IsFiniteSet(Ends(kinds, n)) /\ Cardinality(Ends(kinds, n)) \in Nat
         /\ Sound(kinds, n + 1) =>
              Cardinality(Ends(kinds, n + 1)) = Cardinality(Ends(kinds, n)) + 1
         /\ ~Sound(kinds, n + 1) =>
              Cardinality(Ends(kinds, n + 1)) = Cardinality(Ends(kinds, n))
<1>1. /\ IsFiniteSet(Ends(kinds, n)) /\ Cardinality(Ends(kinds, n)) \in Nat
  <2>1. IsFiniteSet(1..n) /\ Ends(kinds, n) \subseteq 1..n
    BY FS_Interval DEF Ends
  <2> QED
    BY <2>1, FS_Subset, FS_CardinalityType
<1>2. CASE Sound(kinds, n + 1)
  <2>1. Ends(kinds, n + 1) = Ends(kinds, n) \cup {n + 1}
    BY <1>2 DEF Ends
  <2>2. n + 1 \notin Ends(kinds, n)
    BY DEF Ends
  <2> QED
    BY <1>1, <1>2, <2>1, <2>2, FS_AddElement
<1>3. CASE ~Sound(kinds, n + 1)
  <2>1. Ends(kinds, n + 1) = Ends(kinds, n)
    BY <1>3 DEF Ends
  <2> QED
    BY <1>1, <1>3, <2>1
<1> QED
  BY <1>2, <1>3

\* In a valid text every character that begins also ends, and no other ends:
\* counting the successes of from_utf8 counts the characters.
LEMMA Aligned ==
  ASSUME NEW kinds, NEW n \in Nat, Sound(kinds, n)
  PROVE  Cardinality(Starts(kinds, n)) = Cardinality(Ends(kinds, n))
<1> DEFINE start == [m \in Ends(kinds, n) |->
                       IF kinds[m] = "tail" THEN m - 1 ELSE m]
<1>1. ASSUME NEW m \in Ends(kinds, n)
      PROVE  /\ m \in 1..n /\ kinds[m] # "lead"
             /\ kinds[m] = "tail" => m - 1 \in 1..n /\ kinds[m - 1] = "lead"
  <2>1. m \in 1..n /\ Sound(kinds, m)
    BY DEF Ends
  <2> QED
    BY <2>1 DEF Sound
<1>2. start \in [Ends(kinds, n) -> Starts(kinds, n)]
  BY <1>1 DEF Starts
<1>3. ASSUME NEW k \in Ends(kinds, n), NEW m \in Ends(kinds, n),
             start[k] = start[m]
      PROVE  k = m
  BY <1>1, <1>3
<1>4. ASSUME NEW i \in Starts(kinds, n)
      PROVE  \E m \in Ends(kinds, n) : start[m] = i
  <2>1. i \in 1..n /\ kinds[i] # "tail"
    BY DEF Starts
  <2>2. CASE kinds[i] = "lead"
    <3>1. i < n /\ kinds[i + 1] = "tail"
      BY <2>1, <2>2 DEF Sound
    <3>2. Sound(kinds, i + 1)
      BY <2>1, <2>2, <3>1 DEF Sound
    <3>3. i + 1 \in Ends(kinds, n)
      BY <2>1, <3>1, <3>2 DEF Ends
    <3>4. start[i + 1] = i
      BY <2>1, <3>1, <3>3
    <3> QED
      BY <3>3, <3>4
  <2>3. CASE kinds[i] # "lead"
    <3>1. Sound(kinds, i)
      BY <2>1, <2>3 DEF Sound
    <3>2. i \in Ends(kinds, n)
      BY <2>1, <3>1 DEF Ends
    <3>3. start[i] = i
      BY <2>1, <3>2
    <3> QED
      BY <3>2, <3>3
  <2> QED
    BY <2>2, <2>3
<1>5. start \in Bijection(Ends(kinds, n), Starts(kinds, n))
  <2> HIDE DEF start
  <2> QED
    BY <1>2, <1>3, <1>4 DEF Bijection, Injection, IsInjective, Surjection
<1>6. IsFiniteSet(Ends(kinds, n))
  BY EndsNext
<1> HIDE DEF start
<1>7. ExistsBijection(Ends(kinds, n), Starts(kinds, n))
  BY <1>5 DEF ExistsBijection
<1> QED
  BY <1>6, <1>7, FS_Bijection

\* The kinds of some bytes of a stream, one for each byte.
LEMMA KindsType ==
  ASSUME NEW st \in Seq(Kinds), NEW bytes \in Seq(1..Len(st))
  PROVE  /\ KindsOf(st, bytes) \in Seq(Kinds)
         /\ Len(KindsOf(st, bytes)) = Len(bytes)
         /\ \A i \in 1..Len(bytes) : KindsOf(st, bytes)[i] = st[bytes[i]]
<1>1. Len(bytes) \in Nat /\ \A i \in 1..Len(bytes) : bytes[i] \in 1..Len(st)
  BY LenProperties, ElementOfSeq
<1>2. \A i \in 1..Len(bytes) : st[bytes[i]] \in Kinds
  BY <1>1, ElementOfSeq
<1> QED
  BY <1>1, <1>2 DEF KindsOf

\* Of the bytes s that a reader has, a call that began after the first f of
\* them got those up to u: the beginning of what it may take.
CutAt(st, s, f, u) ==
  LET n == u - f
      inbox == SubSeq(s, f + 1, Len(s))
      got == SubSeq(s, f + 1, u)
      rest == SubSeq(s, u + 1, Len(s))
      kinds == KindsOf(st, inbox)
  IN /\ inbox \in Seq(1..Len(st)) /\ Len(inbox) = Len(s) - f
     /\ n \in 0..Len(inbox)
     /\ got \in Seq(1..Len(st)) /\ Len(got) = n /\ got = Prefix(inbox, n)
     /\ rest = SubSeq(inbox, n + 1, Len(inbox))
     /\ rest = <<>> <=> n = Len(inbox)
     /\ kinds \in Seq(Kinds) /\ Len(kinds) = Len(inbox)
     /\ KindsOf(st, got) = Prefix(kinds, n)
     /\ Len(KindsOf(st, got)) = n
     /\ \A i \in 1..n : KindsOf(st, got)[i] = kinds[i]

LEMMA CutBytes ==
  ASSUME NEW st \in Seq(Kinds), NEW s \in Seq(1..Len(st)),
         NEW u \in 0..Len(s), NEW f \in 0..u
  PROVE  CutAt(st, s, f, u)
<1> DEFINE Bytes == 1..Len(st)
           l == Len(s)
           n == u - f
           inbox == SubSeq(s, f + 1, l)
           got == SubSeq(s, f + 1, u)
           rest == SubSeq(s, u + 1, l)
           kinds == KindsOf(st, inbox)
<1>1. s \in Seq(Bytes) /\ Len(st) \in Nat
  OBVIOUS
<1>2. l \in Nat /\ f \in Nat /\ u \in Nat /\ f <= u /\ u <= l
  OBVIOUS
<1> HIDE DEF Bytes
<1>3. /\ inbox \in Seq(Bytes) /\ Len(inbox) = l - f
      /\ \A i \in 1..(l - f) : inbox[i] = s[f + i]
  <2>1. l \in 0..Len(s) /\ f \in 0..l
    BY <1>2
  <2> QED
    BY <1>1, <2>1, PartOf
<1>4. /\ got \in Seq(Bytes) /\ Len(got) = n
      /\ \A i \in 1..n : got[i] = s[f + i]
  BY <1>1, PartOf
<1>5. /\ rest \in Seq(Bytes) /\ Len(rest) = l - u
      /\ \A i \in 1..(l - u) : rest[i] = s[u + i]
  <2>1. l \in 0..Len(s) /\ u \in 0..l
    BY <1>2
  <2> QED
    BY <1>1, <2>1, PartOf
<1> HIDE DEF inbox, got, rest
<1>6. n \in 0..Len(inbox)
  BY <1>2, <1>3
<1>7. got = Prefix(inbox, n)
  <2>1. /\ Prefix(inbox, n) \in Seq(Bytes) /\ Len(Prefix(inbox, n)) = n
        /\ \A i \in 1..n : Prefix(inbox, n)[i] = inbox[i]
    BY <1>3, <1>6, PrefixOf
  <2>2. ASSUME NEW i \in 1..n
        PROVE  got[i] = Prefix(inbox, n)[i]
    <3>1. i \in 1..(l - f)
      BY <1>2
    <3> QED
      BY <1>3, <1>4, <2>1, <3>1
  <2> QED
    BY <1>4, <2>1, <2>2, SeqEqual
<1>8. rest = SubSeq(inbox, n + 1, Len(inbox))
  <2> DEFINE part == SubSeq(inbox, n + 1, Len(inbox))
  <2>1. Len(inbox) - n = l - u
    BY <1>2, <1>3
  <2>2. /\ part \in Seq(Bytes) /\ Len(part) = l - u
        /\ \A i \in 1..(l - u) : part[i] = inbox[n + i]
    <3>1. Len(inbox) \in 0..Len(inbox) /\ n \in 0..Len(inbox)
      BY <1>6
    <3>2. /\ part \in Seq(Bytes) /\ Len(part) = Len(inbox) - n
          /\ \A i \in 1..(Len(inbox) - n) : part[i] = inbox[n + i]
      BY <1>3, <3>1, PartOf
    <3> QED
      BY <2>1, <3>2
  <2>3. ASSUME NEW i \in 1..(l - u)
        PROVE  rest[i] = part[i]
    <3>1. n + i \in 1..(l - f) /\ f + (n + i) = u + i
      BY <1>2
    <3> QED
      BY <1>3, <1>5, <2>2, <3>1
  <2> HIDE DEF part
  <2>4. rest = part
    BY <1>5, <2>2, <2>3, SeqEqual
  <2> QED
    BY <2>4 DEF part
<1>9. rest = <<>> <=> n = Len(inbox)
  BY <1>2, <1>3, <1>5
<1>10. /\ kinds \in Seq(Kinds) /\ Len(kinds) = Len(inbox)
       /\ \A i \in 1..Len(inbox) : kinds[i] = st[inbox[i]]
  BY <1>3, KindsType DEF Bytes
<1>11. /\ KindsOf(st, got) \in Seq(Kinds)
       /\ Len(KindsOf(st, got)) = n
       /\ \A i \in 1..n : KindsOf(st, got)[i] = st[got[i]]
  BY <1>4, KindsType DEF Bytes
<1> HIDE DEF kinds
<1>12. ASSUME NEW i \in 1..n
       PROVE  KindsOf(st, got)[i] = kinds[i]
  <2>1. i \in 1..Len(inbox) /\ i \in 1..(l - f)
    BY <1>2, <1>3
  <2>2. got[i] = inbox[i]
    BY <1>3, <1>4, <2>1
  <2>3. KindsOf(st, got)[i] = st[got[i]]
    BY <1>11
  <2> QED
    BY <1>10, <2>1, <2>2, <2>3
<1>13. KindsOf(st, got) = Prefix(kinds, n)
  <2>1. /\ Prefix(kinds, n) \in Seq(Kinds) /\ Len(Prefix(kinds, n)) = n
        /\ \A i \in 1..n : Prefix(kinds, n)[i] = kinds[i]
    <3>1. kinds \in Seq(Kinds) /\ n \in 0..Len(kinds)
      BY <1>6, <1>10
    <3> QED
      BY <3>1, PrefixOf
  <2> QED
    BY <1>11, <1>12, <2>1, SeqEqual
<1> QED
  BY <1>3, <1>4, <1>6, <1>7, <1>8, <1>9, <1>10, <1>11, <1>12, <1>13
  DEF CutAt, Bytes, inbox, got, rest, kinds

\* The bytes of a reader are bytes of the stream.
LEMMA MineType ==
  ASSUME NEW st \in Seq(Kinds), NEW p \in 0..Len(st), NEW s \in Seq(1..p)
  PROVE  s \in Seq(1..Len(st))
BY SeqMonotone, 1..p \subseteq 1..Len(st)

-----------------------------------------------------------------------------
\* The part of the invariant that says nothing of what the bytes are.
Basics == TypeOK /\ EachByteOnce /\ LockOwned

\* The invariant holds initially.
LEMMA InitInvariant ==
  ASSUME Init
  PROVE  IInv
<1>1. stream \in Seq(Kinds) /\ Len(stream) \in Nat
  BY CallsAssumption DEF Init
<1>2. TypeOK
  BY <1>1 DEF Init, TypeOK, Replies
<1>3. EachByteOnce
  BY DEF Init, EachByteOnce
<1>4. LockOwned
  BY DEF Init, LockOwned
<1>5. NotTooMuch
  BY DEF Init, NotTooMuch
<1>6. AloneInOrder
  <2>1. Following(0, 0) = <<>>
    BY DEF Following
  <2> QED
    BY <2>1 DEF Init, AloneInOrder
<1>7. CharactersKept
  BY DEF Init, CharactersKept
<1> QED
  BY <1>2, <1>3, <1>4, <1>5, <1>6, <1>7 DEF IInv

\* What a read of the source gives at most is a number of bytes.
LEMMA MostType ==
  ASSUME TypeOK, NEW r \in Readers, busy[r]
  PROVE  Most(r) \in Nat
<1>1. call[r] \in Calls
  BY DEF TypeOK
<1>2. call[r].n \in Nat /\ Len(stream) \in Nat
  BY <1>1, CallsAssumption DEF TypeOK
<1> QED
  BY <1>2, ReaderAssumption DEF Most

\* Every step keeps its types, the bytes apart, and the lock with its owner.
LEMMA StepBasics ==
  ASSUME Basics, [Next]_vars
  PROVE  Basics'
<1> USE DEF Basics
<1>1. ASSUME NEW r \in Readers, Ask(r)
      PROVE  Basics'
  <2>1. TypeOK'
    BY <1>1 DEF Ask, TypeOK, Replies
  <2>2. EachByteOnce'
    BY <1>1 DEF Ask, EachByteOnce
  <2>3. LockOwned'
    BY <1>1 DEF Ask, TypeOK, LockOwned
  <2> QED
    BY <2>1, <2>2, <2>3
<1>2. ASSUME NEW r \in Readers, Fill(r)
      PROVE  Basics'
  <2>1. PICK n \in 1..Most(r) :
          /\ pos + n <= Len(stream)
          /\ mine' = [mine EXCEPT ![r] = @ \o Following(pos, n)]
          /\ pos' = pos + n
    BY <1>2 DEF Fill
  <2>2. Most(r) \in Nat
    BY <1>2, MostType DEF Fill, NeedsSource
  <2>3. n \in Nat \ {0} /\ pos \in Nat /\ Len(stream) \in Nat
    BY <2>1, <2>2, CallsAssumption DEF TypeOK
  <2> DEFINE had == Len(mine[r])
  <2>4. /\ had \in Nat
        /\ mine'[r] \in Seq(1..(pos + n))
        /\ Len(mine'[r]) = had + n
        /\ \A i \in 1..had : mine'[r][i] = mine[r][i] /\ mine'[r][i] \in 1..pos
        /\ \A i \in (had + 1)..(had + n) : mine'[r][i] = pos + (i - had)
    <3>1. mine[r] \in Seq(1..pos) /\ had \in Nat
      BY DEF TypeOK
    <3>2. mine'[r] = mine[r] \o Following(pos, n)
      BY <2>1 DEF TypeOK
    <3>3. Grown(mine[r], mine[r] \o Following(pos, n), pos, n)
      BY <2>3, <3>1, Appended
    <3>4. Grown(mine[r], mine'[r], pos, n)
      BY <3>2, <3>3
    <3> QED
      BY <3>1, <3>4 DEF Grown
  <2>5. \A q \in Readers : q # r =>
          /\ mine'[q] = mine[q]
          /\ \A i \in 1..Len(mine[q]) : mine[q][i] \in 1..pos
    BY <2>1, ElementOfSeq DEF TypeOK
  <2>6. TypeOK'
    <3>1. mine' \in [Readers -> Seq(1..pos')]
      <4>1. ASSUME NEW q \in Readers, q # r
            PROVE  mine'[q] \in Seq(1..(pos + n))
        <5>1. mine[q] \in Seq(1..pos) /\ 1..pos \subseteq 1..(pos + n)
          BY <2>3 DEF TypeOK
        <5> QED
          BY <2>5, <4>1, <5>1, SeqMonotone
      <4> QED
        BY <2>1, <2>4, <4>1 DEF TypeOK
    <3>2. \A q \in Readers :
            from'[q] <= used'[q] /\ used'[q] <= Len(mine'[q])
      BY <1>2, <2>3, <2>4, <2>5 DEF Fill, TypeOK
    <3>3. pos' \in 0..Len(stream') /\ holder' \in Readers \cup {Nobody}
      BY <1>2, <2>1, <2>3 DEF Fill, TypeOK
    <3> QED
      BY <1>2, <3>1, <3>2, <3>3 DEF Fill, TypeOK
  <2>7. EachByteOnce'
    <3> HIDE DEF had
    <3>1. \A q \in Readers : \A i, j \in 1..Len(mine'[q]) :
            i < j => mine'[q][i] < mine'[q][j]
      <4>1. ASSUME NEW i \in 1..Len(mine'[r]), NEW j \in 1..Len(mine'[r]),
                   i < j
            PROVE  mine'[r][i] < mine'[r][j]
        <5>1. CASE j <= had
          <6>1. \A k, l \in 1..had : k < l => mine[r][k] < mine[r][l]
            BY DEF EachByteOnce, had
          <6>2. i \in 1..had /\ j \in 1..had
            BY <2>3, <2>4, <4>1, <5>1
          <6> QED
            BY <2>4, <4>1, <6>1, <6>2
        <5>2. CASE i <= had /\ j > had
          <6>1. mine'[r][i] \in 1..pos
            BY <2>4, <5>2
          <6>2. mine'[r][j] = pos + (j - had)
            BY <2>4, <5>2
          <6> QED
            BY <2>3, <2>4, <5>2, <6>1, <6>2
        <5>3. CASE i > had
          <6>1. mine'[r][i] = pos + (i - had) /\ mine'[r][j] = pos + (j - had)
            BY <2>3, <2>4, <4>1, <5>3
          <6> QED
            BY <2>3, <2>4, <4>1, <6>1
        <5> QED
          BY <2>3, <2>4, <5>1, <5>2, <5>3
      <4> QED
        BY <2>5, <4>1 DEF EachByteOnce
    <3>2. ASSUME NEW x \in Readers, NEW k \in 1..Len(mine'[x])
          PROVE  \/ /\ k \in 1..Len(mine[x])
                    /\ mine'[x][k] = mine[x][k]
                    /\ mine'[x][k] \in 1..pos
                 \/ x = r /\ mine'[x][k] \in Int /\ mine'[x][k] > pos
      <4>1. CASE x # r
        BY <2>5, <3>2, <4>1
      <4>2. CASE x = r /\ k <= had
        <5>1. k \in 1..had
          BY <2>3, <2>4, <3>2, <4>2
        <5> QED
          BY <2>4, <4>2, <5>1 DEF had
      <4>3. CASE x = r /\ k > had
        <5>1. mine'[r][k] = pos + (k - had)
          BY <2>3, <2>4, <3>2, <4>3
        <5> QED
          BY <2>3, <2>4, <4>3, <5>1
      <4> QED
        BY <2>3, <2>4, <4>1, <4>2, <4>3
    <3>3. ASSUME NEW p \in Readers, NEW q \in Readers,
                 NEW i \in 1..Len(mine'[p]), NEW j \in 1..Len(mine'[q]),
                 mine'[p][i] = mine'[q][j]
          PROVE  p = q
      <4>1. CASE mine'[p][i] \in 1..pos
        <5>1. /\ i \in 1..Len(mine[p]) /\ mine'[p][i] = mine[p][i]
              /\ j \in 1..Len(mine[q]) /\ mine'[q][j] = mine[q][j]
          BY <2>3, <3>2, <3>3, <4>1
        <5>2. mine[p][i] = mine[q][j]
          BY <3>3, <5>1
        <5> QED
          BY <5>1, <5>2 DEF EachByteOnce
      <4>2. CASE mine'[p][i] \notin 1..pos
        BY <3>2, <3>3, <4>2
      <4> QED
        BY <4>1, <4>2
    <3>4. ASSUME NEW p \in 1..(pos + n)
          PROVE  \E q \in Readers : \E i \in 1..Len(mine'[q]) :
                   mine'[q][i] = p
      <4>1. CASE p <= pos
        <5>1. PICK q \in Readers : \E i \in 1..Len(mine[q]) : mine[q][i] = p
          BY <2>3, <4>1 DEF EachByteOnce
        <5>2. PICK i \in 1..Len(mine[q]) : mine[q][i] = p
          BY <5>1
        <5>3. CASE q = r
          <6>1. i \in 1..Len(mine'[r]) /\ mine'[r][i] = mine[r][i]
            BY <2>3, <2>4, <5>2, <5>3 DEF had
          <6> QED
            BY <5>2, <5>3, <6>1
        <5>4. CASE q # r
          BY <2>5, <5>2, <5>4
        <5> QED
          BY <5>3, <5>4
      <4>2. CASE p > pos
        <5> DEFINE i == had + (p - pos)
        <5>1. /\ i \in (had + 1)..(had + n)
              /\ i - had = p - pos
          BY <2>3, <2>4, <4>2
        <5>2. i \in 1..Len(mine'[r]) /\ mine'[r][i] = pos + (i - had)
          BY <2>3, <2>4, <5>1
        <5>3. pos + (i - had) = p
          BY <2>3, <5>1
        <5> HIDE DEF i
        <5> QED
          BY <5>2, <5>3
      <4> QED
        BY <2>3, <4>1, <4>2
    <3> QED
      BY <2>1, <3>1, <3>3, <3>4 DEF EachByteOnce
  <2>8. LockOwned'
    BY <1>2, ReaderAssumption DEF Fill, NeedsSource, LockOwned, TypeOK
  <2> QED
    BY <2>6, <2>7, <2>8
<1>3. ASSUME NEW r \in Readers, Take(r)
      PROVE  Basics'
  <2>1. used[r] + 1 <= Len(mine[r])
    BY <1>3 DEF Take, Buffered, TypeOK
  <2>2. TypeOK'
    BY <1>3, <2>1 DEF Take, TypeOK
  <2>3. EachByteOnce' /\ LockOwned'
    BY <1>3 DEF Take, EachByteOnce, LockOwned
  <2> QED
    BY <2>2, <2>3
<1>4. ASSUME NEW r \in Readers, Answer(r)
      PROVE  Basics'
  <2>1. call[r] \in Calls
    BY <1>4 DEF Answer, Satisfied, AtEnd, NeedsSource, TypeOK
  <2>2. Reply(stream, call[r], Got(r)) \in Replies
    <3>1. mine[r] \in Seq(Nat)
      BY DEF TypeOK
    <3>2. from[r] + 1 \in 1..(used[r] + 1) /\ used[r] <= Len(mine[r])
      BY DEF TypeOK
    <3>3. Got(r) \in Seq(Nat)
      BY <3>1, <3>2 DEF Got, TypeOK
    <3> QED
      BY <2>1, <3>3, ReplyType
  <2>3. TypeOK'
    BY <1>4, <2>2 DEF Answer, Unlocked, TypeOK
  <2>4. EachByteOnce'
    BY <1>4 DEF Answer, EachByteOnce
  <2>5. LockOwned'
    BY <1>4, ReaderAssumption DEF Answer, Unlocked, TypeOK, LockOwned
  <2> QED
    BY <2>3, <2>4, <2>5
<1>5. ASSUME NEW r \in Readers, Fail(r)
      PROVE  Basics'
  <2>1. TypeOK'
    BY <1>5 DEF Fail, Unlocked, TypeOK, Replies
  <2>2. EachByteOnce'
    BY <1>5 DEF Fail, EachByteOnce
  <2>3. LockOwned'
    BY <1>5, ReaderAssumption DEF Fail, Unlocked, TypeOK, LockOwned
  <2> QED
    BY <2>1, <2>2, <2>3
<1>6. CASE UNCHANGED vars
  BY <1>6 DEF vars, TypeOK, EachByteOnce, LockOwned
<1> QED
  BY <1>1, <1>2, <1>3, <1>4, <1>5, <1>6 DEF Next


\* The bytes of a call grow at their end when the source gives some.
LEMMA FillGrows ==
  ASSUME Basics, NEW r \in Readers, NEW n \in Nat, pos + n <= Len(stream),
         mine' = [mine EXCEPT ![r] = @ \o Following(pos, n)],
         UNCHANGED <<stream, from, used>>
  PROVE  /\ Grown(mine[r], mine'[r], pos, n)
         /\ Got(r)' = Got(r)
<1>1. mine[r] \in Seq(1..pos) /\ pos \in Nat /\ Len(mine[r]) \in Nat
  BY CallsAssumption DEF Basics, TypeOK
<1>2. mine'[r] = mine[r] \o Following(pos, n)
  BY DEF Basics, TypeOK
<1>3. Grown(mine[r], mine'[r], pos, n)
  BY <1>1, <1>2, Appended
<1>4. /\ from[r] \in Nat /\ used[r] \in Nat
      /\ from[r] <= used[r] /\ used[r] <= Len(mine[r])
  BY DEF Basics, TypeOK
<1>5. /\ Got(r) \in Seq(1..pos) /\ Len(Got(r)) = used[r] - from[r]
      /\ \A i \in 1..(used[r] - from[r]) : Got(r)[i] = mine[r][from[r] + i]
  <2>1. used[r] \in 0..Len(mine[r]) /\ from[r] \in 0..used[r]
    BY <1>1, <1>4
  <2> QED
    BY <1>1, <2>1, PartOf DEF Got
<1> DEFINE all == mine'[r]
           got == SubSeq(all, from[r] + 1, used[r])
<1>6. all \in Seq(1..(pos + n)) /\ Len(all) = Len(mine[r]) + n
  BY <1>3 DEF Grown
<1>7. /\ got \in Seq(1..(pos + n)) /\ Len(got) = used[r] - from[r]
      /\ \A i \in 1..(used[r] - from[r]) : got[i] = all[from[r] + i]
  <2>1. used[r] \in 0..Len(all) /\ from[r] \in 0..used[r]
    BY <1>1, <1>4, <1>6
  <2> HIDE DEF all
  <2> QED
    BY <1>6, <2>1, PartOf
<1>8. ASSUME NEW i \in 1..(used[r] - from[r])
      PROVE  got[i] = Got(r)[i]
  <2>1. from[r] + i \in 1..Len(mine[r])
    <3> HIDE DEF all, got
    <3>1. i \in Nat /\ i >= 1 /\ i <= used[r] - from[r]
      BY <1>4
    <3> QED
      BY <1>1, <1>4, <3>1
  <2>2. all[from[r] + i] = mine[r][from[r] + i]
    BY <1>3, <2>1 DEF Grown
  <2> HIDE DEF all, got
  <2> QED
    BY <1>5, <1>7, <2>2
<1>9. Got(r) \in Seq(1..(pos + n))
  BY <1>1, <1>5, SeqMonotone, 1..pos \subseteq 1..(pos + n)
<1>10. got = Got(r)
  <2> HIDE DEF got
  <2> QED
    BY <1>5, <1>7, <1>8, <1>9, SeqEqual
<1>11. Got(r)' = got
  BY DEF Got
<1> QED
  BY <1>3, <1>10, <1>11

\* A call that begins has taken nothing yet.
LEMMA NoExcessAtFirst ==
  ASSUME NEW st, NEW c \in Calls
  PROVE  NoExcess(st, c, <<>>)
<1>1. KindsOf(st, <<>>) = <<>>
  BY DEF KindsOf
<1>2. c.n \in Nat
  BY CallsAssumption
<1>3. CharsSeen(<<>>) = 0 /\ Valid(<<>>)
  <2>1. {n \in 1..0 : Valid(Prefix(<<>>, n))} = {}
    OBVIOUS
  <2> QED
    BY <2>1, FS_EmptySet DEF CharsSeen, Valid
<1> QED
  BY <1>1, <1>2, <1>3 DEF NoExcess

\* A call that wants more takes a byte, and does not go too far with it.
LEMMA NoExcessAfterTake ==
  ASSUME TypeOK, TypeOK', NEW r \in Readers, Take(r),
         NoExcess(stream, call[r], Got(r))
  PROVE  NoExcess(stream, call[r], Got(r)')
<1> DEFINE n == used[r] - from[r]
           kinds == KindsOf(stream, SubSeq(mine[r], from[r] + 1, Len(mine[r])))
           c == call[r]
           was == KindsOf(stream, Got(r))
           is == KindsOf(stream, Got(r)')
<1>1. /\ UNCHANGED <<stream, mine, from>> /\ used'[r] = used[r] + 1
      /\ c \in Calls /\ WantsMore(r)
  BY DEF Take, TypeOK
<1>2. /\ stream \in Seq(Kinds) /\ mine[r] \in Seq(1..Len(stream))
      /\ used[r] \in 0..Len(mine[r]) /\ from[r] \in 0..used[r]
      /\ used[r] + 1 \in 0..Len(mine[r]) /\ from[r] \in 0..(used[r] + 1)
  BY <1>1, MineType, CallsAssumption DEF TypeOK
<1>3. CutAt(stream, mine[r], from[r], used[r])
  BY <1>2, CutBytes
<1>4. CutAt(stream, mine[r], from[r], used[r] + 1)
  BY <1>2, CutBytes
<1>5. Got(r)' = SubSeq(mine[r], from[r] + 1, used[r] + 1)
  BY <1>1 DEF Got
<1>6. used[r] + 1 - from[r] = n + 1 /\ n \in Nat
  BY <1>2
<1>7. /\ kinds \in Seq(Kinds) /\ n \in 0..Len(kinds)
      /\ was = Prefix(kinds, n) /\ Len(was) = n
      /\ \A i \in 1..n : was[i] = kinds[i]
  BY <1>3 DEF CutAt, Got
<1>8. /\ n + 1 \in 0..Len(kinds)
      /\ is = Prefix(kinds, n + 1) /\ Len(is) = n + 1
      /\ \A i \in 1..(n + 1) : is[i] = kinds[i]
  <2> DEFINE u == used[r] + 1
             m == u - from[r]
             got == SubSeq(mine[r], from[r] + 1, u)
  <2>0. CutAt(stream, mine[r], from[r], u)
    BY <1>4
  <2> HIDE DEF u
  <2>1. /\ m \in 0..Len(kinds)
        /\ KindsOf(stream, got) = Prefix(kinds, m)
        /\ Len(KindsOf(stream, got)) = m
        /\ \A i \in 1..m : KindsOf(stream, got)[i] = kinds[i]
    BY <2>0 DEF CutAt
  <2>2. m = n + 1
    BY <1>2 DEF u
  <2>3. is = KindsOf(stream, got)
    <3>1. Got(r)' = got
      BY <1>5 DEF u
    <3> HIDE DEF got
    <3> QED
      BY <3>1
  <2> HIDE DEF m, n, is, got, kinds
  <2> QED
    BY <2>1, <2>2, <2>3
<1>9. /\ c.kind \in LineCalls => (n > 0 => was[n] # "newline")
      /\ c.kind = "bytes" => n < c.n
      /\ c.kind = "chars" => CharsSeen(was) < c.n
      /\ c.kind # "bad"
  BY <1>1, <1>7 DEF WantsMore, DrainCalls, LineCalls
<1> HIDE DEF n, kinds, was, is
<1>10. ASSUME c.kind \in LineCalls, NEW i \in 1..n
       PROVE  is[i] # "newline"
  <2>1. \A j \in 1..(Len(was) - 1) : was[j] # "newline"
    BY <1>10 DEF NoExcess, was
  <2>2. was[i] # "newline"
    BY <1>6, <1>7, <1>9, <1>10, <2>1
  <2>3. was[i] = kinds[i]
    BY <1>7
  <2>4. i \in 1..(n + 1)
    BY <1>6
  <2>5. is[i] = kinds[i]
    BY <1>8, <2>4
  <2> QED
    BY <2>2, <2>3, <2>5
<1>11. ASSUME c.kind = "chars"
       PROVE  /\ CharsSeen(is) <= c.n
              /\ CharsSeen(is) = c.n => Valid(is)
  <2>1. /\ CharsSeen(was) = Cardinality(Ends(kinds, n))
        /\ CharsSeen(is) = Cardinality(Ends(kinds, n + 1))
        /\ Valid(is) <=> Sound(kinds, n + 1)
    BY <1>7, <1>8, CharsSeenOf, ValidPrefix
  <2>2. Cardinality(Ends(kinds, n)) < c.n /\ c.n \in Nat
    BY <1>1, <1>9, <1>11, <2>1, CallsAssumption
  <2>3. /\ Cardinality(Ends(kinds, n)) \in Nat
        /\ Sound(kinds, n + 1) =>
             Cardinality(Ends(kinds, n + 1)) = Cardinality(Ends(kinds, n)) + 1
        /\ ~Sound(kinds, n + 1) =>
             Cardinality(Ends(kinds, n + 1)) = Cardinality(Ends(kinds, n))
    BY <1>6, EndsNext
  <2> QED
    BY <2>1, <2>2, <2>3
<1>12. /\ c.kind = "bytes" => Len(is) <= c.n
       /\ \A i \in 1..(Len(is) - 1) : i \in 1..n
  <2>1. c.n \in Nat
    BY <1>1, CallsAssumption
  <2> QED
    BY <1>6, <1>8, <1>9, <2>1
<1> QED
  BY <1>9, <1>10, <1>11, <1>12 DEF NoExcess, is

\* Every step keeps the calls from taking too much.
LEMMA StepNotTooMuch ==
  ASSUME IInv, Basics', [Next]_vars
  PROVE  NotTooMuch'
<1> SUFFICES ASSUME NEW q \in Readers, busy'[q]
             PROVE  NoExcess(stream', call'[q], Got(q)')
  BY DEF NotTooMuch
<1>0. /\ Basics /\ TypeOK /\ TypeOK'
      /\ busy[q] => NoExcess(stream, call[q], Got(q))
  BY DEF NotTooMuch, IInv, Basics
<1>1. ASSUME NEW r \in Readers, r # q,
             Ask(r) \/ Fill(r) \/ Take(r) \/ Answer(r) \/ Fail(r)
      PROVE  NoExcess(stream', call'[q], Got(q)')
  BY <1>0, <1>1 DEF Ask, Fill, Take, Answer, Fail, TypeOK, Got
<1>2. CASE Ask(q)
  <2>1. Got(q)' = <<>>
    BY <1>0, <1>2, SubSeqEmpty DEF Ask, TypeOK, Got
  <2>2. call'[q] \in Calls
    BY <1>0, <1>2 DEF Ask, TypeOK
  <2> QED
    BY <2>1, <2>2, NoExcessAtFirst
<1>3. CASE Fill(q)
  <2>1. PICK n \in 1..Most(q) :
          /\ pos + n <= Len(stream)
          /\ mine' = [mine EXCEPT ![q] = @ \o Following(pos, n)]
    BY <1>3 DEF Fill
  <2>2. n \in Nat
    BY <1>0, <1>3, MostType DEF Fill, NeedsSource
  <2>3. UNCHANGED <<stream, from, used>>
    BY <1>3 DEF Fill
  <2>4. Got(q)' = Got(q)
    BY <1>0, <2>1, <2>2, <2>3, FillGrows
  <2> QED
    BY <1>0, <1>3, <2>4 DEF Fill, NeedsSource
<1>4. CASE Take(q)
  BY <1>0, <1>4, NoExcessAfterTake DEF Take
<1>5. CASE Answer(q) \/ Fail(q)
  BY <1>0, <1>5 DEF Answer, Fail, TypeOK
<1>6. CASE UNCHANGED vars
  BY <1>0, <1>6 DEF vars, Got
<1> QED
  BY <1>1, <1>2, <1>3, <1>4, <1>5, <1>6 DEF Next
\* Who alone reads the source gets the next bytes after the first ones.
LEMMA StepAloneInOrder ==
  ASSUME IInv, Basics', [Next]_vars
  PROVE  AloneInOrder'
<1> SUFFICES ASSUME NEW q \in Readers,
                    \A r \in Readers \ {q} : mine'[r] = <<>>
             PROVE  mine'[q] = Following(0, pos')
  BY DEF AloneInOrder
<1>0. Basics
  BY DEF IInv, Basics
<1>1. ASSUME UNCHANGED <<mine, pos>>
      PROVE  mine'[q] = Following(0, pos')
  BY <1>1 DEF IInv, AloneInOrder
<1>2. ASSUME NEW r \in Readers, Fill(r)
      PROVE  mine'[q] = Following(0, pos')
  <2>1. PICK n \in 1..Most(r) :
          /\ pos + n <= Len(stream)
          /\ mine' = [mine EXCEPT ![r] = @ \o Following(pos, n)]
          /\ pos' = pos + n
    BY <1>2 DEF Fill
  <2>2. n \in Nat \ {0} /\ pos \in Nat /\ Len(mine[r]) \in Nat
    <3>1. Most(r) \in Nat
      BY <1>0, <1>2, MostType DEF Basics, Fill, NeedsSource
    <3> QED
      BY <1>0, <2>1, <3>1, CallsAssumption DEF Basics, TypeOK
  <2>3. UNCHANGED <<stream, from, used>>
    BY <1>2 DEF Fill
  <2>4. Grown(mine[r], mine'[r], pos, n)
    BY <1>0, <2>1, <2>2, <2>3, FillGrows
  <2>5. r = q
    <3>1. Len(mine'[r]) # 0
      BY <2>2, <2>4 DEF Grown
    <3> QED
      BY <3>1
  <2>6. mine[q] = Following(0, pos)
    BY <2>1, <2>5 DEF IInv, AloneInOrder, Basics, TypeOK
  <2>7. Len(mine[q]) = pos /\ \A i \in 1..pos : mine[q][i] = i
    BY <2>2, <2>6 DEF Following
  <2>8. \A i \in 1..(pos + n) : mine'[q][i] = i
    <3> TAKE i \in 1..(pos + n)
    <3>1. CASE i <= pos
      <4>1. i \in 1..Len(mine[q])
        BY <2>2, <2>7, <3>1
      <4>2. mine'[q][i] = mine[q][i]
        BY <2>4, <2>5, <4>1 DEF Grown
      <4> QED
        BY <2>2, <2>7, <3>1, <4>2
    <3>2. CASE i > pos
      <4>1. i \in (Len(mine[q]) + 1)..(Len(mine[q]) + n)
        BY <2>2, <2>7, <3>2
      <4>2. mine'[q][i] = pos + (i - pos)
        BY <2>4, <2>5, <2>7, <4>1 DEF Grown
      <4> QED
        BY <2>2, <4>2
    <3> QED
      BY <2>2, <3>1, <3>2
  <2>9. /\ Following(0, pos + n) \in Seq(1..(pos + n))
        /\ Len(Following(0, pos + n)) = pos + n
        /\ \A i \in 1..(pos + n) : Following(0, pos + n)[i] = i
    BY <2>2 DEF Following
  <2>10. mine'[q] \in Seq(1..(pos + n)) /\ Len(mine'[q]) = pos + n
    BY <2>4, <2>5, <2>7 DEF Grown
  <2>11. mine'[q] = Following(0, pos + n)
    <3> DEFINE Bytes == 1..(pos + n)
               have == mine'[q]
               want == Following(0, pos + n)
    <3>1. /\ have \in Seq(Bytes) /\ want \in Seq(Bytes)
          /\ Len(have) = Len(want)
          /\ \A i \in 1..Len(have) : have[i] = want[i]
      BY <2>8, <2>9, <2>10
    <3> HIDE DEF Bytes, have, want
    <3>2. have = want
      BY <3>1, SeqEqual
    <3> QED
      BY <3>2 DEF have, want
  <2> QED
    BY <2>1, <2>11
<1>3. ASSUME NEW r \in Readers, Ask(r) \/ Take(r) \/ Answer(r) \/ Fail(r)
      PROVE  UNCHANGED <<mine, pos>>
  BY <1>3 DEF Ask, Take, Answer, Fail
<1>4. CASE UNCHANGED vars
  BY <1>1, <1>4 DEF vars
<1> QED
  BY <1>1, <1>2, <1>3, <1>4 DEF Next

\* The characters that a text holds are a number.
LEMMA CharsSeenType ==
  ASSUME NEW kinds \in Seq(Kinds)
  PROVE  CharsSeen(kinds) \in Nat
<1> DEFINE seen == {n \in 1..Len(kinds) : Valid(Prefix(kinds, n))}
<1>1. IsFiniteSet(1..Len(kinds)) /\ seen \subseteq 1..Len(kinds)
  BY FS_Interval
<1> HIDE DEF seen
<1>2. Cardinality(seen) \in Nat
  BY <1>1, FS_Subset, FS_CardinalityType
<1> QED
  BY <1>2 DEF CharsSeen, seen

\* The bytes of a reader, cut where its call began and where it is.
LEMMA CallCut ==
  ASSUME TypeOK, NEW r \in Readers
  PROVE  /\ stream \in Seq(Kinds) /\ mine[r] \in Seq(1..Len(stream))
         /\ Len(mine[r]) \in Nat /\ pos \in 0..Len(stream)
         /\ used[r] \in 0..Len(mine[r]) /\ from[r] \in 0..used[r]
         /\ CutAt(stream, mine[r], from[r], used[r])
         /\ Got(r) \in Seq(1..Len(stream)) /\ Len(Got(r)) = used[r] - from[r]
         /\ \A i \in 1..(used[r] - from[r]) : Got(r)[i] = mine[r][from[r] + i]
<1>1. /\ stream \in Seq(Kinds) /\ mine[r] \in Seq(1..Len(stream))
      /\ Len(mine[r]) \in Nat /\ pos \in 0..Len(stream)
      /\ used[r] \in 0..Len(mine[r]) /\ from[r] \in 0..used[r]
  BY MineType, CallsAssumption DEF TypeOK
<1>2. CutAt(stream, mine[r], from[r], used[r])
  BY <1>1, CutBytes
<1>3. /\ Got(r) \in Seq(1..Len(stream)) /\ Len(Got(r)) = used[r] - from[r]
      /\ \A i \in 1..(used[r] - from[r]) : Got(r)[i] = mine[r][from[r] + i]
  <2> DEFINE Bytes == 1..Len(stream)
  <2>1. mine[r] \in Seq(Bytes)
    BY <1>1
  <2> HIDE DEF Bytes
  <2>2. /\ Got(r) \in Seq(Bytes) /\ Len(Got(r)) = used[r] - from[r]
        /\ \A i \in 1..(used[r] - from[r]) : Got(r)[i] = mine[r][from[r] + i]
    BY <1>1, <2>1, PartOf DEF Got
  <2> QED
    BY <2>2 DEF Bytes
<1> QED
  BY <1>1, <1>2, <1>3

\* Why a call answers: it is at the end of the source and has not enough, or
\* the last byte it took is the one that satisfies it.
AtEndWithout(r) ==
  LET kinds == KindsOf(stream, Got(r))
  IN /\ pos = Len(stream) /\ Buffered(r) = <<>> /\ call[r].kind # "bad"
     /\ call[r].kind \in LineCalls =>
          \A i \in 1..Len(kinds) : kinds[i] # "newline"
     /\ call[r].kind = "bytes" => Got(r) = <<>>
     /\ call[r].kind = "chars" => CharsSeen(kinds) < call[r].n

Complete(r) ==
  LET kinds == KindsOf(stream, Got(r))
  IN \/ /\ call[r].kind \in LineCalls
        /\ Len(kinds) > 0 /\ kinds[Len(kinds)] = "newline"
     \/ /\ call[r].kind = "bytes"
        /\ Len(kinds) = call[r].n \/ Buffered(r) = <<>>
        /\ Got(r) # <<>> \/ Buffered(r) # <<>>
     \/ /\ call[r].kind = "chars"
        /\ CharsSeen(kinds) = call[r].n /\ Valid(kinds)
     \/ call[r].kind = "bad" /\ kinds = <<>>

LEMMA WhyAnswer ==
  ASSUME TypeOK, NotTooMuch, NEW r \in Readers, Answer(r)
  PROVE  AtEndWithout(r) \/ Complete(r)
<1> DEFINE kinds == KindsOf(stream, Got(r))
           c == call[r]
<1>1. busy[r] /\ c \in Calls /\ c.kind \in CallKinds /\ c.n \in Nat
  BY CallsAssumption DEF Answer, Satisfied, AtEnd, NeedsSource, TypeOK
<1>2. NoExcess(stream, c, Got(r))
  BY <1>1 DEF NotTooMuch
<1>3. CutAt(stream, mine[r], from[r], used[r])
  BY CallCut
<1>4. kinds \in Seq(Kinds) /\ Len(kinds) \in Nat /\ Len(kinds) = Len(Got(r))
  <2>1. Got(r) \in Seq(1..Len(stream)) /\ stream \in Seq(Kinds)
    BY <1>3, CallCut DEF CutAt, Got
  <2> QED
    BY <2>1, KindsType
<1>5. CharsSeen(kinds) \in Nat
  BY <1>4, CharsSeenType
<1> HIDE DEF kinds
<1>6. ASSUME AtEnd(r)
      PROVE  AtEndWithout(r)
  <2>1. /\ pos = Len(stream) /\ Buffered(r) = <<>>
        /\ c.kind = "bytes" => Got(r) = <<>>
        /\ c.kind # "bytes" => WantsMore(r)
    BY <1>6 DEF AtEnd, NeedsSource
  <2>2. c.kind # "bad"
    BY <2>1 DEF WantsMore, LineCalls, DrainCalls
  <2>3. c.kind = "chars" => CharsSeen(kinds) < c.n
    BY <2>1 DEF WantsMore, LineCalls, DrainCalls, kinds
  <2>4. ASSUME c.kind \in LineCalls, NEW i \in 1..Len(kinds)
        PROVE  kinds[i] # "newline"
    <3>1. Len(kinds) > 0 => kinds[Len(kinds)] # "newline"
      BY <2>1, <2>4 DEF WantsMore, LineCalls, DrainCalls, kinds
    <3>2. \A j \in 1..(Len(kinds) - 1) : kinds[j] # "newline"
      BY <1>2, <2>4 DEF NoExcess, kinds
    <3> QED
      BY <1>4, <3>1, <3>2
  <2> QED
    BY <2>1, <2>2, <2>3, <2>4 DEF AtEndWithout, kinds
<1>7. ASSUME Satisfied(r)
      PROVE  Complete(r)
  <2>1. CASE c.kind = "bytes"
    <3>1. Buffered(r) # <<>> \/ Got(r) # <<>>
      BY <1>1, <1>7, <2>1 DEF Satisfied, NeedsSource
    <3>2. Buffered(r) # <<>> => Len(kinds) >= c.n
      BY <1>1, <1>4, <1>7, <2>1 DEF Satisfied, WantsMore, kinds
    <3>3. Len(kinds) <= c.n
      BY <1>2, <2>1 DEF NoExcess, kinds
    <3> QED
      BY <1>1, <1>4, <2>1, <3>1, <3>2, <3>3 DEF Complete, kinds
  <2>2. CASE c.kind # "bytes"
    <3>1. ~WantsMore(r)
      BY <1>1, <1>7, <2>2 DEF Satisfied, NeedsSource
    <3>2. c.kind \in LineCalls =>
            Len(kinds) > 0 /\ kinds[Len(kinds)] = "newline"
      BY <3>1 DEF WantsMore, kinds
    <3>3. c.kind = "chars" => CharsSeen(kinds) = c.n /\ Valid(kinds)
      BY <1>1, <1>2, <1>5, <3>1 DEF WantsMore, NoExcess, kinds
    <3>4. c.kind = "bad" => kinds = <<>>
      BY <1>2 DEF NoExcess, kinds
    <3>5. c.kind \notin DrainCalls
      BY <3>1 DEF WantsMore
    <3> QED
      BY <1>1, <2>2, <3>2, <3>3, <3>4, <3>5
      DEF Complete, kinds, CallKinds
  <2> QED
    BY <2>1, <2>2
<1> QED
  BY <1>6, <1>7 DEF Answer

\* A part of a valid text ends between two characters unless its last byte
\* is the first of two.
LEMMA SoundBoundary ==
  ASSUME NEW kinds \in Seq(Kinds), Valid(kinds), NEW u \in 0..Len(kinds),
         0 < u /\ u < Len(kinds) => kinds[u] # "lead"
  PROVE  Sound(kinds, u)
<1> SUFFICES ASSUME NEW i \in 1..u
             PROVE  /\ kinds[i] = "lead" => i < u /\ kinds[i + 1] = "tail"
                    /\ kinds[i] = "tail" => i > 1 /\ kinds[i - 1] = "lead"
  BY DEF Sound
<1>1. /\ i \in 1..Len(kinds)
      /\ kinds[i] = "lead" => i < Len(kinds) /\ kinds[i + 1] = "tail"
      /\ kinds[i] = "tail" => i > 1 /\ kinds[i - 1] = "lead"
  BY DEF Valid
<1> QED
  BY <1>1

\* What lies between two ends of characters is a valid text.
LEMMA ValidBetween ==
  ASSUME NEW kinds \in Seq(Kinds), NEW u \in 0..Len(kinds), NEW f \in 0..u,
         Sound(kinds, f), Sound(kinds, u),
         NEW part \in Seq(Kinds), Len(part) = u - f,
         \A i \in 1..(u - f) : part[i] = kinds[f + i]
  PROVE  Valid(part)
<1> SUFFICES ASSUME NEW i \in 1..(u - f)
             PROVE  /\ part[i] = "lead" =>
                         i < Len(part) /\ part[i + 1] = "tail"
                    /\ part[i] = "tail" => i > 1 /\ part[i - 1] = "lead"
  BY DEF Valid
<1>1. /\ f \in Nat /\ u \in Nat /\ f <= u /\ i \in Nat /\ 1 <= i
      /\ i <= u - f /\ f + i \in 1..u /\ part[i] = kinds[f + i]
  OBVIOUS
<1>2. /\ kinds[f + i] = "lead" => f + i < u /\ kinds[f + i + 1] = "tail"
      /\ kinds[f + i] = "tail" => f + i > 1 /\ kinds[f + i - 1] = "lead"
  BY <1>1 DEF Sound
<1>3. ASSUME part[i] = "lead"
      PROVE  i < Len(part) /\ part[i + 1] = "tail"
  <2>1. i + 1 \in 1..(u - f) /\ f + (i + 1) = f + i + 1
    BY <1>1, <1>2, <1>3
  <2>2. part[i + 1] = kinds[f + (i + 1)]
    BY <2>1
  <2> QED
    BY <1>1, <1>2, <1>3, <2>1, <2>2
<1>4. ASSUME part[i] = "tail"
      PROVE  i > 1 /\ part[i - 1] = "lead"
  <2>1. kinds[f + i - 1] = "lead" /\ f + i > 1
    BY <1>1, <1>2, <1>4
  <2>2. i # 1
    <3>1. f > 0 => kinds[f] # "lead"
      BY <1>1 DEF Sound
    <3> QED
      BY <1>1, <2>1, <3>1
  <2>3. i - 1 \in 1..(u - f) /\ f + (i - 1) = f + i - 1
    BY <1>1, <2>2
  <2>4. part[i - 1] = kinds[f + (i - 1)]
    BY <2>3
  <2> QED
    BY <1>1, <2>1, <2>2, <2>3, <2>4
<1> QED
  BY <1>3, <1>4

\* A valid text makes no call fail, and read_unicode(n) answers nil only when
\* it got nothing.
LEMMA ValidReply ==
  ASSUME NEW st, NEW c \in Calls, NEW bytes \in Seq(Nat),
         c.kind \notin {"bytes", "bad"}, Valid(KindsOf(st, bytes))
  PROVE  /\ Reply(st, c, bytes) # Error
         /\ c.kind = "chars" /\ Reply(st, c, bytes) = Nil => bytes = <<>>
<1>1. c.kind \in CallKinds
  BY CallsAssumption
<1>2. /\ \A b : Text(b) # Error /\ Text(b) # Nil /\ Number(b) # Error
      /\ Nil # Error
  BY DEF Text, Number, Error, Nil
<1>3. Parse(st, bytes) # Error
  BY <1>2 DEF Parse
<1>4. \A a : a # Error => ReadText(a, st, bytes) # Error
  BY <1>2 DEF ReadText
<1>5. /\ ReadUnicodeLine(st, bytes) # Error
      /\ ReadChars(st, bytes) # Error
      /\ ReadChars(st, bytes) = Nil => bytes = <<>>
  BY <1>2 DEF ReadUnicodeLine, ReadChars
<1>6. /\ ReadText(Text(Trim(st, bytes)), st, bytes) # Error
      /\ ReadText(Text(bytes), st, bytes) # Error
      /\ ReadText(Parse(st, bytes), st, bytes) # Error
  BY <1>2, <1>3, <1>4
<1>7. Reply(st, c, bytes) # Error
  BY <1>1, <1>2, <1>5, <1>6 DEF Reply, CallKinds, LineCalls, DrainCalls
<1> QED
  BY <1>5, <1>7 DEF Reply

\* The answer of a call that began between two characters, of a script that
\* has a valid input for itself.
LEMMA AnswerKeepsCharacters ==
  ASSUME IInv, NEW r \in Readers, Answer(r), Valid(stream),
         \A q \in Readers \ {r} : mine[q] = <<>>,
         Valid(Prefix(KindsOf(stream, mine[r]), from[r])),
         call[r].kind \notin {"bytes", "bad"}
  PROVE  /\ Valid(Prefix(KindsOf(stream, mine[r]), used[r]))
         /\ reply'[r] # Error
         /\ call[r].kind = "chars" /\ call[r].n > 0 /\ reply'[r] = Nil =>
              pos = Len(stream) /\ Buffered(r) = <<>> /\ Got(r) = <<>>
<1> DEFINE all == KindsOf(stream, mine[r])
           kinds == KindsOf(stream, Got(r))
           c == call[r]
           u == used[r]
           f == from[r]
<1>1. /\ stream \in Seq(Kinds) /\ mine[r] \in Seq(1..Len(stream))
      /\ Len(stream) \in Nat /\ pos \in 0..Len(stream)
      /\ u \in 0..Len(mine[r]) /\ f \in 0..u
      /\ CutAt(stream, mine[r], f, u)
  BY CallCut DEF IInv
<1>2. c \in Calls
  BY DEF IInv, TypeOK, Answer, Satisfied, AtEnd, NeedsSource
<1>3. Len(mine[r]) = pos /\ \A i \in 1..pos : mine[r][i] = i
  <2>1. mine[r] = Following(0, pos)
    BY DEF IInv, AloneInOrder
  <2> QED
    BY <1>1, <2>1 DEF Following
<1>4. all \in Seq(Kinds) /\ Len(all) = pos
      /\ \A i \in 1..pos : all[i] = stream[i]
  <2>1. /\ all \in Seq(Kinds) /\ Len(all) = pos
        /\ \A i \in 1..pos : all[i] = stream[mine[r][i]]
    BY <1>1, <1>3, KindsType
  <2> QED
    BY <1>3, <2>1
<1>5. /\ Got(r) \in Seq(1..Len(stream)) /\ Len(Got(r)) = u - f
      /\ kinds \in Seq(Kinds) /\ Len(kinds) = u - f
      /\ \A i \in 1..(u - f) : kinds[i] = stream[f + i]
  <2>1. /\ Got(r) \in Seq(1..Len(stream)) /\ Len(Got(r)) = u - f
        /\ \A i \in 1..(u - f) : Got(r)[i] = mine[r][f + i]
    BY CallCut DEF IInv
  <2>2. /\ kinds \in Seq(Kinds) /\ Len(kinds) = u - f
        /\ \A i \in 1..(u - f) : kinds[i] = stream[Got(r)[i]]
    BY <1>1, <2>1, KindsType
  <2>3. ASSUME NEW i \in 1..(u - f)
        PROVE  kinds[i] = stream[f + i]
    <3>1. f + i \in 1..pos
      BY <1>1, <1>3
    <3> QED
      BY <1>3, <2>1, <2>2, <3>1
  <2> QED
    BY <2>1, <2>2, <2>3
<1> HIDE DEF all, kinds
<1>6. \A n \in 0..pos : Valid(Prefix(all, n)) <=> Sound(stream, n)
  <2> TAKE n \in 0..pos
  <2>1. Valid(Prefix(all, n)) <=> Sound(all, n)
    BY <1>4, ValidPrefix
  <2>2. n \in Nat /\ \A i \in 1..n : i \in 1..pos
    BY <1>1
  <2>3. \A i \in 1..n : all[i] = stream[i]
    BY <1>4, <2>2
  <2>4. \A i \in 1..n :
          /\ i < n => all[i + 1] = stream[i + 1]
          /\ i > 1 => all[i - 1] = stream[i - 1]
    BY <2>2, <2>3
  <2>5. Sound(all, n) <=> Sound(stream, n)
    BY <2>3, <2>4 DEF Sound
  <2> QED
    BY <2>1, <2>5
<1>7. Sound(stream, f)
  BY <1>1, <1>3, <1>6 DEF all
<1>8. AtEndWithout(r) \/ Complete(r)
  BY WhyAnswer DEF IInv
<1>9. AtEndWithout(r) => u = Len(stream)
  <2>1. Buffered(r) = <<>> => u = Len(mine[r])
    <3>1. Buffered(r) = <<>> => u - f = Len(mine[r]) - f
      BY <1>1 DEF CutAt, Buffered
    <3> QED
      BY <1>1, <3>1
  <2> QED
    BY <1>3, <2>1 DEF AtEndWithout
<1>10. Sound(stream, u)
  <2>1. CASE AtEndWithout(r)
    BY <1>1, <1>9, <2>1, ValidWhole
  <2>2. CASE Complete(r) /\ u = f
    BY <1>7, <2>2
  <2>3. CASE Complete(r) /\ u # f
    <3>1. u - f \in 1..(u - f) /\ f + (u - f) = u
      BY <1>1, <2>3
    <3>2. kinds[u - f] = stream[u]
      BY <1>5, <3>1
    <3>3. kinds[u - f] # "lead"
      <4>1. CASE kinds[Len(kinds)] = "newline"
        BY <1>5, <4>1
      <4>2. CASE Valid(kinds)
        BY <1>5, <3>1, <4>2 DEF Valid
      <4>3. kinds # <<>>
        BY <1>1, <1>5, <2>3
      <4> QED
        BY <2>3, <4>1, <4>2, <4>3 DEF Complete, kinds
    <3>4. stream[u] # "lead" /\ u \in 0..Len(stream)
      BY <1>1, <1>3, <3>2, <3>3
    <3> QED
      BY <1>1, <3>4, SoundBoundary
  <2> QED
    BY <1>8, <2>1, <2>2, <2>3
<1>11. Valid(kinds)
  <2>1. u \in 0..Len(stream)
    BY <1>1, <1>3
  <2> QED
    BY <1>1, <1>5, <1>7, <1>10, <2>1, ValidBetween
<1>12. Got(r) \in Seq(Nat)
  BY <1>1, <1>5, SeqMonotone, 1..Len(stream) \subseteq Nat
<1>13. reply'[r] = Reply(stream, c, Got(r))
  BY DEF Answer, IInv, TypeOK
<1>14. /\ reply'[r] # Error
       /\ c.kind = "chars" /\ reply'[r] = Nil => Got(r) = <<>>
  BY <1>2, <1>11, <1>12, <1>13, ValidReply DEF kinds
<1>15. Valid(Prefix(all, u))
  BY <1>1, <1>3, <1>6, <1>10
<1>16. ASSUME c.kind = "chars", c.n > 0, Got(r) = <<>>
       PROVE  AtEndWithout(r)
  <2>1. CharsSeen(kinds) = 0
    <3>1. kinds = <<>>
      BY <1>16 DEF kinds, KindsOf
    <3>2. {n \in 1..Len(kinds) : Valid(Prefix(kinds, n))} = {}
      BY <3>1
    <3> QED
      BY <3>2, FS_EmptySet DEF CharsSeen
  <2>2. c.n \in Nat
    BY <1>2, CallsAssumption
  <2> QED
    BY <1>8, <1>16, <2>1, <2>2 DEF Complete, LineCalls, kinds
<1> QED
  BY <1>14, <1>15, <1>16 DEF AtEndWithout, all

\* Every step keeps the characters of a script whole.
LEMMA StepCharactersKept ==
  ASSUME IInv, [Next]_vars
  PROVE  CharactersKept'
<1> DEFINE Alone(q) ==
             /\ Valid(stream) /\ \A r \in Readers \ {q} : mine[r] = <<>>
             /\ ~busy[q] /\ reply[q] \notin {Pending, Broken}
             /\ Valid(Prefix(KindsOf(stream, mine[q]), from[q]))
             /\ call[q].kind \notin {"bytes", "bad"}
           Whole(q) ==
             /\ Valid(Prefix(KindsOf(stream, mine[q]), used[q]))
             /\ reply[q] # Error
             /\ call[q].kind = "chars" /\ call[q].n > 0 /\ reply[q] = Nil =>
                  pos = Len(stream) /\ Buffered(q) = <<>> /\ Got(q) = <<>>
<1>1. CharactersKept <=> \A q \in Readers : Alone(q) => Whole(q)
  BY DEF CharactersKept
<1>2. SUFFICES ASSUME NEW q \in Readers, Alone(q)'
               PROVE  Whole(q)'
  BY DEF CharactersKept
<1>3. TypeOK
  BY DEF IInv
<1>4. ASSUME UNCHANGED <<stream, pos, mine>>,
             busy'[q] = busy[q], reply'[q] = reply[q], from'[q] = from[q],
             call'[q] = call[q], used'[q] = used[q]
      PROVE  Whole(q)'
  <2>1. Alone(q)
    BY <1>2, <1>4
  <2>2. Whole(q)
    BY <1>1, <2>1 DEF IInv
  <2>3. Buffered(q)' = Buffered(q) /\ Got(q)' = Got(q)
    BY <1>4 DEF Buffered, Got
  <2> QED
    BY <1>4, <2>2, <2>3
<1>5. ASSUME NEW r \in Readers, r # q,
             Ask(r) \/ Take(r) \/ Answer(r) \/ Fail(r)
      PROVE  Whole(q)'
  <2>1. /\ UNCHANGED <<stream, pos, mine>>
        /\ busy'[q] = busy[q] /\ reply'[q] = reply[q] /\ from'[q] = from[q]
        /\ call'[q] = call[q] /\ used'[q] = used[q]
    BY <1>3, <1>5 DEF Ask, Take, Answer, Fail, TypeOK
  <2> QED
    BY <1>4, <2>1
<1>6. ASSUME NEW r \in Readers, r # q, Fill(r)
      PROVE  FALSE
  <2>1. PICK n \in 1..Most(r) :
          mine' = [mine EXCEPT ![r] = @ \o Following(pos, n)]
    BY <1>6 DEF Fill
  <2>2. n \in Nat \ {0} /\ pos \in Nat /\ mine[r] \in Seq(1..pos)
    <3>1. Most(r) \in Nat
      BY <1>3, <1>6, MostType DEF Fill, NeedsSource
    <3> QED
      BY <1>3, <2>1, <3>1, CallsAssumption DEF TypeOK
  <2>3. mine'[r] = mine[r] \o Following(pos, n)
    BY <1>3, <2>1 DEF TypeOK
  <2>4. Grown(mine[r], mine'[r], pos, n)
    BY <2>2, <2>3, Appended
  <2>5. Len(mine'[r]) = Len(mine[r]) + n /\ Len(mine[r]) \in Nat
    BY <2>2, <2>4 DEF Grown
  <2>6. mine'[r] = <<>>
    BY <1>2, <1>6
  <2> QED
    BY <2>2, <2>5, <2>6
<1>7. ASSUME Ask(q) \/ Fill(q) \/ Take(q) \/ Fail(q)
      PROVE  FALSE
  <2>1. busy'[q] \/ reply'[q] = Broken
    BY <1>3, <1>7 DEF Ask, Fill, Take, Fail, NeedsSource, TypeOK
  <2> QED
    BY <1>2, <2>1
<1>8. ASSUME Answer(q)
      PROVE  Whole(q)'
  <2>1. UNCHANGED <<stream, pos, mine, from, used, call>>
    BY <1>8 DEF Answer
  <2>2. /\ Valid(stream) /\ \A r \in Readers \ {q} : mine[r] = <<>>
        /\ Valid(Prefix(KindsOf(stream, mine[q]), from[q]))
        /\ call[q].kind \notin {"bytes", "bad"}
    BY <1>2, <2>1
  <2>3. /\ Valid(Prefix(KindsOf(stream, mine[q]), used[q]))
        /\ reply'[q] # Error
        /\ call[q].kind = "chars" /\ call[q].n > 0 /\ reply'[q] = Nil =>
             pos = Len(stream) /\ Buffered(q) = <<>> /\ Got(q) = <<>>
    BY <1>8, <2>2, AnswerKeepsCharacters
  <2>4. Buffered(q)' = Buffered(q) /\ Got(q)' = Got(q)
    BY <2>1 DEF Buffered, Got
  <2> QED
    BY <2>1, <2>3, <2>4
<1>9. CASE UNCHANGED vars
  BY <1>4, <1>9 DEF vars
<1> QED
  BY <1>5, <1>6, <1>7, <1>8, <1>9 DEF Next

\* Every step keeps the invariant.
LEMMA StepInvariant ==
  ASSUME IInv, [Next]_vars
  PROVE  IInv'
<1>1. Basics
  BY DEF IInv, Basics
<1>2. Basics'
  BY <1>1, StepBasics
<1>3. NotTooMuch' /\ AloneInOrder' /\ CharactersKept'
  BY <1>2, StepNotTooMuch, StepAloneInOrder, StepCharactersKept
<1> QED
  BY <1>2, <1>3 DEF IInv, Basics

\* The invariant of the readers holds in every reachable state.
THEOREM Invariance == Spec => []IInv
<1>1. Init => IInv
  BY InitInvariant
<1>2. IInv /\ [Next]_vars => IInv'
  BY StepInvariant
<1> QED
  BY <1>1, <1>2, PTL DEF Spec

\* The state has its type: what a script read are bytes that the source gave,
\* and no call consumed more of them than its reader has.
THEOREM TypeCorrect == Spec => []TypeOK
<1>1. IInv => TypeOK
  BY DEF IInv
<1> QED
  BY <1>1, Invariance, PTL

\* However the source and the buffer cut a valid input, the calls of a script
\* that has it for itself cut no character: for any stream, any calls and any
\* size of the buffer.
THEOREM CharactersStayWhole == Spec => []CharactersKept
<1>1. IInv => CharactersKept
  BY DEF IInv
<1> QED
  BY <1>1, Invariance, PTL

\* Each byte of the shared standard input goes to one script, in order, for
\* any number of scripts, any calls and any size of the buffers.
THEOREM BytesOnce == Spec => []EachByteOnce
<1>1. IInv => EachByteOnce
  BY DEF IInv
<1> QED
  BY <1>1, Invariance, PTL

\* No call that answered or failed holds the lock of the standard input.
THEOREM LockGivenBack == Spec => []LockOwned
<1>1. IInv => LockOwned
  BY DEF IInv
<1> QED
  BY <1>1, Invariance, PTL

\* The source of a script that has it for itself is read in its order.
InOrder(r) == mine[r] = [i \in 1..pos |-> i]

\* A read of the source by its only reader goes on where the last one ended.
LEMMA FillInOrder ==
  ASSUME TypeOK, NEW r \in Readers, Fill(r), InOrder(r)
  PROVE  InOrder(r)'
<1>1. PICK n \in Nat : /\ mine'[r] = mine[r] \o Following(pos, n)
                       /\ pos' = pos + n
  <2>1. Most(r) \in Nat
    BY MostType DEF Fill, NeedsSource
  <2> QED
    BY <2>1 DEF Fill, TypeOK
<1>2. pos \in Nat /\ mine[r] \in Seq(1..pos) /\ Len(mine[r]) = pos
  BY CallsAssumption DEF TypeOK, InOrder
<1> DEFINE t == mine[r] \o Following(pos, n)
<1>3. Grown(mine[r], t, pos, n)
  BY <1>2, Appended
<1> HIDE DEF t
<1>4. t \in Seq(1..(pos + n)) /\ Len(t) = pos + n
  BY <1>2, <1>3 DEF Grown
<1>5. ASSUME NEW i \in 1..(pos + n)
      PROVE  t[i] = i
  <2>1. CASE i <= pos
    <3>1. i \in 1..Len(mine[r]) /\ i \in 1..pos
      BY <1>2, <2>1
    <3>2. t[i] = mine[r][i]
      BY <1>3, <3>1 DEF Grown
    <3> QED
      BY <3>1, <3>2 DEF InOrder
  <2>2. CASE ~(i <= pos)
    <3>1. i \in (Len(mine[r]) + 1)..(Len(mine[r]) + n)
      BY <1>2, <2>2
    <3>2. t[i] = pos + (i - Len(mine[r]))
      BY <1>3, <3>1 DEF Grown
    <3> QED
      BY <1>2, <3>2
  <2> QED
    BY <2>1, <2>2
<1>6. t = [i \in 1..(pos + n) |-> i]
  BY <1>4, <1>5
<1> QED
  BY <1>1, <1>6 DEF InOrder, t

\* The body of a request or of a response has one reader: its calls consume it
\* from its first byte on, without a gap, in whatever pieces it comes.
THEOREM SoleReaderInOrder ==
  ASSUME NEW r, Readers = {r}
  PROVE  Spec => []InOrder(r)
<1>1. Init => InOrder(r)
  BY DEF Init, InOrder
<1>2. IInv /\ InOrder(r) /\ [Next]_vars => InOrder(r)'
  <2> SUFFICES ASSUME IInv, InOrder(r), [Next]_vars
               PROVE  InOrder(r)'
    OBVIOUS
  <2>1. CASE Fill(r)
    BY <2>1, FillInOrder DEF IInv
  <2>2. CASE UNCHANGED <<mine, pos>>
    BY <2>2 DEF InOrder
  <2> QED
    BY <2>1, <2>2 DEF Next, Ask, Take, Answer, Fail, vars
<1> QED
  BY <1>1, <1>2, Invariance, PTL DEF Spec

-----------------------------------------------------------------------------
\* Both specifications mean the same by the operators on bytes and answers.
LEMMA SameOperators ==
  /\ Abstract!NoCall = NoCall /\ Abstract!LineCalls = LineCalls
  /\ Abstract!Pending = Pending /\ Abstract!Broken = Broken
  /\ \A p, n : Abstract!Following(p, n) = Following(p, n)
  /\ \A st, bytes : Abstract!KindsOf(st, bytes) = KindsOf(st, bytes)
  /\ \A kinds : Abstract!Valid(kinds) <=> Valid(kinds)
  /\ \A s, n : Abstract!Prefix(s, n) = Prefix(s, n)
  /\ \A st, c, bytes : Abstract!Reply(st, c, bytes) = Reply(st, c, bytes)
  /\ \A S : Abstract!Cardinality(S) = Cardinality(S)
<1>0. \A S : Abstract!Cardinality(S) = Cardinality(S)
  BY DEF Abstract!Cardinality, Cardinality
<1>1. /\ Abstract!NoCall = NoCall /\ Abstract!LineCalls = LineCalls
      /\ Abstract!Pending = Pending /\ Abstract!Broken = Broken
      /\ Abstract!Nil = Nil /\ Abstract!Error = Error
  BY DEF Abstract!NoCall, NoCall, Abstract!LineCalls, LineCalls,
         Abstract!Pending, Pending, Abstract!Broken, Broken,
         Abstract!Nil, Nil, Abstract!Error, Error
<1>2. /\ \A p, n : Abstract!Following(p, n) = Following(p, n)
      /\ \A st, bytes : Abstract!KindsOf(st, bytes) = KindsOf(st, bytes)
      /\ \A kinds : Abstract!Valid(kinds) <=> Valid(kinds)
      /\ \A s, n : Abstract!Prefix(s, n) = Prefix(s, n)
      /\ \A b : Abstract!Text(b) = Text(b) /\ Abstract!Number(b) = Number(b)
      /\ \A st, b : Abstract!Trim(st, b) = Trim(st, b)
  <2>1. /\ \A p, n : Abstract!Following(p, n) = Following(p, n)
        /\ \A st, bytes : Abstract!KindsOf(st, bytes) = KindsOf(st, bytes)
        /\ \A s, n : Abstract!Prefix(s, n) = Prefix(s, n)
    BY DEF Abstract!Following, Following, Abstract!KindsOf, KindsOf,
           Abstract!Prefix, Prefix
  <2>2. \A kinds : Abstract!Valid(kinds) <=> Valid(kinds)
    BY DEF Abstract!Valid, Valid
  <2>3. \A b : Abstract!Text(b) = Text(b) /\ Abstract!Number(b) = Number(b)
    BY DEF Abstract!Text, Text, Abstract!Number, Number
  <2>4. \A st, b : Abstract!Trim(st, b) = Trim(st, b)
    BY <1>0 DEF Abstract!Trim, Trim
  <2> QED
    BY <2>1, <2>2, <2>3, <2>4
<1>3. \A st, b : Abstract!Parse(st, b) = Parse(st, b)
  BY <1>1, <1>2 DEF Abstract!Parse, Parse
<1>4. \A a, st, b : Abstract!ReadText(a, st, b) = ReadText(a, st, b)
  BY <1>1, <1>2 DEF Abstract!ReadText, ReadText
<1>5. /\ \A b : Abstract!ReadBytes(b) = ReadBytes(b)
      /\ \A st, b : Abstract!ReadChars(st, b) = ReadChars(st, b)
      /\ \A st, b : Abstract!ReadUnicodeLine(st, b) = ReadUnicodeLine(st, b)
  BY <1>1, <1>2 DEF Abstract!ReadBytes, ReadBytes, Abstract!ReadChars,
     ReadChars, Abstract!ReadUnicodeLine, ReadUnicodeLine
<1>6. \A st, c, b : Abstract!Reply(st, c, b) = Reply(st, c, b)
  BY <1>1, <1>2, <1>3, <1>4, <1>5 DEF Abstract!Reply, Reply
<1> QED
  BY <1>0, <1>1, <1>2, <1>6

\* Of a call in progress the abstract inbox holds what it took and what the
\* buffer still holds; of no call, what the buffer holds.
LEMMA InboxIs ==
  ASSUME NEW r \in Readers
  PROVE  /\ busy[r] => Inbox[r] = SubSeq(mine[r], from[r] + 1, Len(mine[r]))
         /\ ~busy[r] => Inbox[r] = SubSeq(mine[r], used[r] + 1, Len(mine[r]))
BY DEF Inbox, Buffered

\* What is appended to a sequence is appended to each end of it.
LEMMA TailOfConcat ==
  ASSUME NEW S, NEW s \in Seq(S), NEW t \in Seq(S), NEW f \in 0..Len(s)
  PROVE  SubSeq(s \o t, f + 1, Len(s \o t)) = SubSeq(s, f + 1, Len(s)) \o t
<1> DEFINE l == Len(s)
           m == Len(t)
           left == SubSeq(s \o t, f + 1, Len(s \o t))
           tail == SubSeq(s, f + 1, l)
<1>1. /\ s \o t \in Seq(S) /\ Len(s \o t) = l + m
      /\ \A i \in 1..(l + m) :
           (s \o t)[i] = IF i <= l THEN s[i] ELSE t[i - l]
  BY ConcatProperties
<1>2. l \in Nat /\ m \in Nat /\ f \in 0..l
  OBVIOUS
<1>3. /\ left \in Seq(S) /\ Len(left) = l + m - f
      /\ \A i \in 1..(l + m - f) : left[i] = (s \o t)[f + i]
  <2> DEFINE st == s \o t
  <2>1. st \in Seq(S) /\ Len(st) \in 0..Len(st) /\ f \in 0..Len(st)
    BY <1>1, <1>2
  <2> HIDE DEF st
  <2>2. /\ SubSeq(st, f + 1, Len(st)) \in Seq(S)
        /\ Len(SubSeq(st, f + 1, Len(st))) = Len(st) - f
        /\ \A i \in 1..(Len(st) - f) :
             SubSeq(st, f + 1, Len(st))[i] = st[f + i]
    BY <2>1, PartOf
  <2> QED
    BY <1>1, <2>2 DEF st
<1>4. /\ tail \in Seq(S) /\ Len(tail) = l - f
      /\ \A i \in 1..(l - f) : tail[i] = s[f + i]
  <2>1. l \in 0..Len(s) /\ f \in 0..l
    BY <1>2
  <2> QED
    BY <2>1, PartOf
<1> HIDE DEF left, tail, l, m
<1>5. /\ tail \o t \in Seq(S) /\ Len(tail \o t) = l - f + m
      /\ \A i \in 1..(l - f + m) :
           (tail \o t)[i] = IF i <= l - f THEN tail[i] ELSE t[i - (l - f)]
  <2>1. /\ tail \o t \in Seq(S) /\ Len(tail \o t) = Len(tail) + Len(t)
        /\ \A i \in 1..(Len(tail) + Len(t)) :
             (tail \o t)[i] = IF i <= Len(tail) THEN tail[i]
                             ELSE t[i - Len(tail)]
    BY <1>4, ConcatProperties
  <2> QED
    BY <1>4, <2>1 DEF m
<1>6. ASSUME NEW i \in 1..(l + m - f)
      PROVE  left[i] = (tail \o t)[i]
  <2>1. f + i \in 1..(l + m) /\ i \in 1..(l - f + m)
    BY <1>2
  <2>2. left[i] = IF f + i <= l THEN s[f + i] ELSE t[(f + i) - l]
    <3>1. left[i] = (s \o t)[f + i]
      BY <1>3
    <3> DEFINE j == f + i
    <3>2. j \in 1..(l + m)
      BY <2>1
    <3> HIDE DEF j
    <3>3. (s \o t)[j] = IF j <= l THEN s[j] ELSE t[j - l]
      BY <1>1, <3>2
    <3> QED
      BY <3>1, <3>3 DEF j
  <2>3. CASE f + i <= l
    <3>1. i \in 1..(l - f)
      BY <1>2, <2>3
    <3> QED
      BY <1>2, <1>4, <1>5, <2>1, <2>2, <2>3, <3>1
  <2>4. CASE ~(f + i <= l)
    <3>1. ~(i <= l - f) /\ i - (l - f) = (f + i) - l
      BY <1>2, <2>4
    <3> QED
      BY <1>5, <2>1, <2>2, <2>4, <3>1
  <2> QED
    BY <2>3, <2>4
<1>7. left = tail \o t
  <2>1. Len(left) = Len(tail \o t)
    BY <1>2, <1>3, <1>5
  <2> QED
    BY <1>3, <1>5, <1>6, <2>1, SeqEqual
<1> QED
  BY <1>7 DEF left, tail, l

\* The characters that begin in a part of a text.
LEMMA BegunOf ==
  ASSUME NEW kinds \in Seq(Kinds), NEW n \in 0..Len(kinds)
  PROVE  Abstract!Begun(Prefix(kinds, n)) = Cardinality(Starts(kinds, n))
<1>1. /\ Len(Prefix(kinds, n)) = n
      /\ \A i \in 1..n : Prefix(kinds, n)[i] = kinds[i]
  BY PrefixOf
<1> DEFINE part == Prefix(kinds, n)
<1>2. {i \in 1..Len(part) : part[i] # "tail"} = Starts(kinds, n)
  BY <1>1 DEF Starts
<1> HIDE DEF part
<1>3. Abstract!Begun(part)
        = Cardinality({i \in 1..Len(part) : part[i] # "tail"})
  BY SameOperators DEF Abstract!Begun
<1> QED
  BY <1>2, <1>3 DEF part

\* As far as a text is valid, both counts of its characters agree.
LEMMA CountsAgree ==
  ASSUME NEW kinds \in Seq(Kinds), NEW n \in 0..Len(kinds),
         Valid(Prefix(kinds, n))
  PROVE  Abstract!Begun(Prefix(kinds, n)) = CharsSeen(Prefix(kinds, n))
<1>1. Sound(kinds, n)
  BY ValidPrefix
<1>2. Cardinality(Starts(kinds, n)) = Cardinality(Ends(kinds, n))
  BY <1>1, Aligned
<1> QED
  BY <1>2, BegunOf, CharsSeenOf

\* A longer part of a text holds no fewer ends of characters.
LEMMA CharsSeenMonotone ==
  ASSUME NEW kinds \in Seq(Kinds), NEW n \in 0..Len(kinds), NEW m \in 0..n
  PROVE  CharsSeen(Prefix(kinds, m)) <= CharsSeen(Prefix(kinds, n))
<1>1. m \in 0..Len(kinds)
  OBVIOUS
<1>2. Ends(kinds, m) \subseteq Ends(kinds, n)
  BY DEF Ends
<1>3. IsFiniteSet(Ends(kinds, n))
  BY EndsNext
<1>4. Cardinality(Ends(kinds, m)) <= Cardinality(Ends(kinds, n))
  BY <1>2, <1>3, FS_Subset
<1> QED
  BY <1>1, <1>4, CharsSeenOf

\* What satisfies an abstract call, format by format.
LEMMA SatisfyingIs ==
  ASSUME NEW c, NEW kinds
  PROVE  LET enough == Abstract!Satisfying(c, kinds)
         IN /\ c.kind \in LineCalls =>
                 enough =
                   {m \in 1..Len(kinds) :
                      /\ kinds[m] = "newline"
                      /\ \A i \in 1..(m - 1) : kinds[i] # "newline"}
            /\ c.kind = "bytes" /\ kinds # <<>> =>
                 enough = {IF c.n < Len(kinds) THEN c.n ELSE Len(kinds)}
            /\ c.kind = "bytes" /\ kinds = <<>> => enough = {}
            /\ c.kind = "chars" =>
                 enough =
                   {m \in 0..Len(kinds) :
                      /\ Valid(Prefix(kinds, m))
                      /\ Abstract!Begun(Prefix(kinds, m)) = c.n}
            /\ c.kind = "bad" => enough = {0}
            /\ c.kind \in DrainCalls => enough = {}
<1> DEFINE enough == Abstract!Satisfying(c, kinds)
<1>1. ASSUME c.kind \in LineCalls
      PROVE  enough =
               {m \in 1..Len(kinds) :
                  /\ kinds[m] = "newline"
                  /\ \A i \in 1..(m - 1) : kinds[i] # "newline"}
  <2>1. c.kind \in Abstract!LineCalls /\ c.kind \notin {"bytes", "chars", "bad"}
    BY <1>1, SameOperators DEF LineCalls
  <2> QED
    BY <2>1 DEF Abstract!Satisfying
<1>2. c.kind \notin LineCalls => c.kind \notin Abstract!LineCalls
  BY SameOperators
<1>3. ASSUME c.kind = "bytes", kinds # <<>>
      PROVE  enough = {IF c.n < Len(kinds) THEN c.n ELSE Len(kinds)}
  BY <1>2, <1>3 DEF Abstract!Satisfying, LineCalls
<1>4. ASSUME c.kind = "bytes", kinds = <<>>
      PROVE  enough = {}
  BY <1>2, <1>4 DEF Abstract!Satisfying, LineCalls
<1>5. ASSUME c.kind = "chars"
      PROVE  enough =
               {m \in 0..Len(kinds) :
                  /\ Valid(Prefix(kinds, m))
                  /\ Abstract!Begun(Prefix(kinds, m)) = c.n}
  <2>1. enough =
          {m \in 0..Len(kinds) :
             /\ Abstract!Valid(Abstract!Prefix(kinds, m))
             /\ Abstract!Begun(Abstract!Prefix(kinds, m)) = c.n}
    BY <1>2, <1>5 DEF Abstract!Satisfying, LineCalls
  <2> QED
    BY <2>1, SameOperators
<1>6. ASSUME c.kind = "bad"
      PROVE  enough = {0}
  BY <1>2, <1>6 DEF Abstract!Satisfying, LineCalls
<1>7. ASSUME c.kind \in DrainCalls
      PROVE  enough = {}
  BY <1>2, <1>7 DEF Abstract!Satisfying, LineCalls, DrainCalls
<1> QED
  BY <1>1, <1>3, <1>4, <1>5, <1>6, <1>7

\* What a call takes is what the abstract call may take: at the end of the
\* source all there is, if it is not enough; else as much as satisfies it.
LEMMA TakesEnough ==
  ASSUME TypeOK, NotTooMuch, NEW r \in Readers, Answer(r)
  PROVE  LET inbox == SubSeq(mine[r], from[r] + 1, Len(mine[r]))
             enough == Abstract!Satisfying(call[r], KindsOf(stream, inbox))
         IN Len(Got(r)) \in IF enough = {} /\ pos = Len(stream)
                            THEN {Len(inbox)} ELSE enough
<1> DEFINE inbox == SubSeq(mine[r], from[r] + 1, Len(mine[r]))
           kinds == KindsOf(stream, inbox)
           enough == Abstract!Satisfying(call[r], kinds)
           got == KindsOf(stream, Got(r))
           m == Len(Got(r))
           c == call[r]
<1>1. c \in Calls /\ c.kind \in CallKinds /\ c.n \in Nat /\ busy[r]
  BY CallsAssumption DEF Answer, Satisfied, AtEnd, NeedsSource, TypeOK
<1>2. NoExcess(stream, c, Got(r))
  BY <1>1 DEF NotTooMuch
<1>3. /\ CutAt(stream, mine[r], from[r], used[r])
      /\ Len(Got(r)) = used[r] - from[r]
  BY CallCut
<1>4. /\ m \in 0..Len(kinds) /\ Len(kinds) = Len(inbox)
      /\ kinds \in Seq(Kinds) /\ got = Prefix(kinds, m) /\ Len(got) = m
      /\ \A i \in 1..m : got[i] = kinds[i]
      /\ Buffered(r) = <<>> <=> m = Len(kinds)
      /\ Len(kinds) \in Nat
  BY <1>3 DEF CutAt, Got, Buffered
<1>5. got = <<>> <=> m = 0
  <2>1. got \in Seq(Kinds)
    BY <1>4, PrefixOf
  <2> HIDE DEF got, m
  <2> QED
    BY <1>4, <2>1, EmptySeq
<1> HIDE DEF inbox, kinds, got
<1>6. ASSUME AtEndWithout(r)
      PROVE  enough = {} /\ pos = Len(stream) /\ m = Len(inbox)
  <2>1. m = Len(kinds) /\ pos = Len(stream) /\ c.kind # "bad"
    BY <1>4, <1>6 DEF AtEndWithout
  <2>2. ASSUME c.kind \in LineCalls
        PROVE  enough = {}
    <3>1. \A i \in 1..Len(kinds) : kinds[i] # "newline"
      BY <1>4, <1>6, <2>1, <2>2 DEF AtEndWithout, got
    <3> QED
      BY <2>2, <3>1, SatisfyingIs
  <2>3. ASSUME c.kind = "bytes"
        PROVE  enough = {}
    <3>1. kinds = <<>>
      <4>1. Len(kinds) = 0
        BY <1>6, <2>1, <2>3 DEF AtEndWithout
      <4> QED
        BY <1>4, <4>1, EmptySeq
    <3> QED
      BY <2>3, <3>1, SatisfyingIs
  <2>4. ASSUME c.kind = "chars"
        PROVE  enough = {}
    <3>1. ASSUME NEW k \in 0..Len(kinds), Valid(Prefix(kinds, k)),
                 Abstract!Begun(Prefix(kinds, k)) = c.n
          PROVE  FALSE
      <4>1. CharsSeen(Prefix(kinds, k)) = c.n
        BY <1>4, <3>1, CountsAgree
      <4>2. c.n <= CharsSeen(got)
        BY <1>4, <2>1, <4>1, CharsSeenMonotone
      <4>3. CharsSeen(got) < c.n
        BY <1>6, <2>4 DEF AtEndWithout, got
      <4>4. CharsSeen(got) \in Nat
        BY <1>4, PrefixOf, CharsSeenType
      <4> QED
        BY <1>1, <4>2, <4>3, <4>4
    <3> QED
      BY <2>4, <3>1, SatisfyingIs
  <2>5. ASSUME c.kind \in DrainCalls
        PROVE  enough = {}
    BY <2>5, SatisfyingIs
  <2>6. enough = {}
    BY <1>1, <2>1, <2>2, <2>3, <2>4, <2>5 DEF CallKinds
  <2> QED
    BY <1>4, <2>1, <2>6
<1>7. ASSUME Complete(r)
      PROVE  m \in enough
  <2>1. CASE c.kind \in LineCalls
    <3>1. m > 0 /\ kinds[m] = "newline"
      <4>1. Len(got) > 0 /\ got[Len(got)] = "newline"
        BY <1>7, <2>1 DEF Complete, LineCalls, got
      <4> QED
        BY <1>4, <4>1
    <3>2. \A i \in 1..(m - 1) : kinds[i] # "newline"
      <4>1. \A i \in 1..(m - 1) : got[i] # "newline"
        BY <1>2, <1>4, <2>1 DEF NoExcess, got
      <4> QED
        BY <1>4, <4>1
    <3>3. m \in 1..Len(kinds)
      BY <1>4, <3>1
    <3> QED
      BY <2>1, <3>1, <3>2, <3>3, SatisfyingIs
  <2>2. CASE c.kind = "bytes"
    <3>1. /\ m = c.n \/ m = Len(kinds)
          /\ m # 0 \/ m # Len(kinds)
          /\ m <= c.n
      <4>1. /\ Len(got) = c.n \/ Buffered(r) = <<>>
            /\ Got(r) # <<>> \/ Buffered(r) # <<>>
        BY <1>7, <2>2 DEF Complete, LineCalls, got
      <4>2. Len(got) <= c.n
        BY <1>2, <2>2 DEF NoExcess, got
      <4>3. Got(r) # <<>> => m # 0
        BY CallCut, EmptySeq
      <4> QED
        BY <1>4, <4>1, <4>2, <4>3
    <3>2. kinds # <<>>
      BY <1>4, <3>1
    <3>3. m = IF c.n < Len(kinds) THEN c.n ELSE Len(kinds)
      BY <1>1, <1>4, <3>1
    <3> QED
      BY <2>2, <3>2, <3>3, SatisfyingIs
  <2>3. CASE c.kind = "chars"
    <3>1. CharsSeen(got) = c.n /\ Valid(got)
      BY <1>7, <2>3 DEF Complete, LineCalls, got
    <3>2. Valid(Prefix(kinds, m)) /\ Abstract!Begun(Prefix(kinds, m)) = c.n
      BY <1>4, <3>1, CountsAgree
    <3> QED
      BY <1>4, <2>3, <3>2, SatisfyingIs
  <2>4. CASE c.kind = "bad"
    <3>1. m = 0
      BY <1>5, <1>7, <2>4 DEF Complete, LineCalls, got
    <3> QED
      BY <2>4, <3>1, SatisfyingIs
  <2> QED
    BY <1>7, <2>1, <2>2, <2>3, <2>4 DEF Complete
<1>8. AtEndWithout(r) \/ Complete(r)
  BY WhyAnswer
<1>9. m \in IF enough = {} /\ pos = Len(stream)
            THEN {Len(inbox)} ELSE enough
  <2> HIDE DEF enough, m
  <2> QED
    BY <1>6, <1>7, <1>8
<1> QED
  BY <1>9 DEF inbox, kinds

\* The start of the readers is a start of the abstract ones.
LEMMA InitRefines == Init => Abstract!Init
<1> SUFFICES ASSUME Init PROVE Abstract!Init
  OBVIOUS
<1>1. ASSUME NEW r \in Readers
      PROVE  Inbox[r] = <<>>
  <2>1. ~busy[r] /\ mine[r] = <<>> /\ used[r] = 0
    BY DEF Init
  <2>2. SubSeq(<<>>, 0 + 1, 0) = <<>>
    BY SubSeqEmpty
  <2> QED
    BY <2>1, <2>2, InboxIs
<1>2. Inbox = [r \in Readers |-> <<>>]
  BY <1>1 DEF Inbox
<1> QED
  BY <1>2, SameOperators DEF Init, Abstract!Init

\* A call that begins finds what the buffer holds.
LEMMA AskRefines ==
  ASSUME TypeOK, NEW r \in Readers, Ask(r)
  PROVE  Abstract!Ask(r)
<1>1. ASSUME NEW q \in Readers
      PROVE  Inbox'[q] = Inbox[q]
  BY DEF Ask, TypeOK, Inbox, Buffered
<1>2. Inbox' = Inbox
  BY <1>1 DEF Inbox
<1> QED
  BY <1>2, SameOperators DEF Ask, Abstract!Ask

\* A read of the source is the arrival of its bytes.
LEMMA FillRefines ==
  ASSUME TypeOK, NEW r \in Readers, Fill(r)
  PROVE  Abstract!Arrive(r)
<1>1. PICK n \in 1..Most(r) :
        /\ pos + n <= Len(stream)
        /\ mine' = [mine EXCEPT ![r] = @ \o Following(pos, n)]
        /\ pos' = pos + n
  BY DEF Fill
<1>2. /\ n \in Nat \ {0} /\ pos \in Nat /\ Len(stream) \in Nat
      /\ mine[r] \in Seq(Nat) /\ from[r] \in 0..Len(mine[r])
  <2>1. Most(r) \in Nat
    BY MostType DEF Fill, NeedsSource
  <2>2. /\ pos \in Nat /\ Len(stream) \in Nat /\ mine[r] \in Seq(1..pos)
        /\ from[r] \in 0..Len(mine[r])
    BY CallsAssumption DEF TypeOK
  <2>3. mine[r] \in Seq(Nat)
    BY <2>2, SeqMonotone, 1..pos \subseteq Nat
  <2> QED
    BY <1>1, <2>1, <2>2, <2>3
<1> DEFINE next == Following(pos, n)
<1>3. next \in Seq(Nat)
  BY <1>2 DEF Following
<1>4. mine'[r] = mine[r] \o next
  BY <1>1 DEF TypeOK
<1> HIDE DEF next
<1>5. /\ busy[r] /\ busy'[r] /\ from'[r] = from[r]
      /\ UNCHANGED <<stream, from, used, busy, call, reply>>
  BY DEF Fill, NeedsSource
<1>6. Inbox'[r] = Inbox[r] \o next
  <2>1. Inbox[r] = SubSeq(mine[r], from[r] + 1, Len(mine[r]))
    BY <1>5, InboxIs
  <2>2. Inbox'[r] = SubSeq(mine'[r], from[r] + 1, Len(mine'[r]))
    BY <1>5 DEF Inbox
  <2> QED
    BY <1>2, <1>3, <1>4, <2>1, <2>2, TailOfConcat
<1>7. \A q \in Readers : q # r => Inbox'[q] = Inbox[q]
  BY <1>1, <1>5 DEF TypeOK, Inbox, Buffered
<1>8. Inbox' = [Inbox EXCEPT ![r] = @ \o next]
  BY <1>6, <1>7 DEF Inbox
<1>9. pos + n \in (pos + 1)..Len(stream)
  BY <1>1, <1>2
<1> DEFINE k == pos + n
<1>10. Abstract!Following(pos, k - pos) = next
  <2>1. k - pos = n
    BY <1>2
  <2> HIDE DEF k
  <2> QED
    BY <2>1, SameOperators DEF next
<1>11. k \in (pos + 1)..Len(stream) /\ pos' = k
  BY <1>1, <1>9
<1> HIDE DEF k
<1> QED
  BY <1>5, <1>8, <1>10, <1>11 DEF Abstract!Arrive

\* To consume a byte of the buffer is a step inside a call.
LEMMA TakeRefines ==
  ASSUME TypeOK, NEW r \in Readers, Take(r)
  PROVE  UNCHANGED Abstract!vars
<1>1. ASSUME NEW q \in Readers
      PROVE  Inbox'[q] = Inbox[q]
  BY DEF Take, TypeOK, Inbox, Buffered
<1>2. Inbox' = Inbox
  BY <1>1 DEF Inbox
<1> QED
  BY <1>2 DEF Take, Abstract!vars

\* What is left of the bytes of a call that ends is what the buffer holds.
LEMMA InboxAfter ==
  ASSUME TypeOK, NEW r \in Readers,
         busy' = [busy EXCEPT ![r] = FALSE], UNCHANGED <<mine, from, used>>
  PROVE  Inbox' = [Inbox EXCEPT ![r] = Buffered(r)]
<1>1. Inbox'[r] = Buffered(r)
  BY DEF TypeOK, Inbox, Buffered
<1>2. \A q \in Readers : q # r => Inbox'[q] = Inbox[q]
  BY DEF TypeOK, Inbox, Buffered
<1> QED
  BY <1>1, <1>2 DEF Inbox

\* A call answers with the bytes of its format.
LEMMA AnswerRefines ==
  ASSUME TypeOK, NotTooMuch, NEW r \in Readers, Answer(r)
  PROVE  Abstract!Answer(r)
<1> DEFINE m == Len(Got(r))
           inbox == SubSeq(mine[r], from[r] + 1, Len(mine[r]))
<1>1. /\ busy[r] /\ UNCHANGED <<stream, pos, mine, from, used, call>>
      /\ busy' = [busy EXCEPT ![r] = FALSE]
      /\ reply' = [reply EXCEPT ![r] = Reply(stream, call[r], Got(r))]
  BY DEF Answer, Satisfied, AtEnd, NeedsSource
<1>2. Inbox[r] = inbox
  BY <1>1, InboxIs
<1>3. /\ Got(r) = Prefix(inbox, m)
      /\ Buffered(r) = SubSeq(inbox, m + 1, Len(inbox))
  <2>1. /\ CutAt(stream, mine[r], from[r], used[r])
        /\ Len(Got(r)) = used[r] - from[r]
    BY CallCut
  <2> QED
    BY <2>1 DEF CutAt, Got, Buffered
<1>4. Inbox' = [Inbox EXCEPT ![r] = Buffered(r)]
  BY <1>1, InboxAfter
<1>5. Inbox' = [Inbox EXCEPT ![r] = SubSeq(@, m + 1, Len(@))]
  BY <1>2, <1>3, <1>4
<1>6. reply' = [reply EXCEPT ![r] =
                  Reply(stream, call[r], Prefix(Inbox[r], m))]
  BY <1>1, <1>2, <1>3
<1> DEFINE enough == Abstract!Satisfying(call[r], KindsOf(stream, Inbox[r]))
<1>7. m \in IF enough = {} /\ pos = Len(stream)
            THEN {Len(Inbox[r])} ELSE enough
  BY <1>2, TakesEnough
<1> HIDE DEF m
<1> QED
  BY <1>1, <1>5, <1>6, <1>7, SameOperators DEF Abstract!Answer

\* A source that fails takes away what the call had: its buffer is empty.
LEMMA FailRefines ==
  ASSUME TypeOK, NEW r \in Readers, Fail(r)
  PROVE  Abstract!Fail(r)
<1>1. Inbox' = [Inbox EXCEPT ![r] = Buffered(r)]
  BY InboxAfter DEF Fail
<1>2. Buffered(r) = <<>>
  BY DEF Fail, NeedsSource
<1> QED
  BY <1>1, <1>2, SameOperators DEF Fail, NeedsSource, Abstract!Fail

\* Every step of the readers is a step of the abstract ones, or none.
LEMMA StepRefines ==
  ASSUME IInv, [Next]_vars
  PROVE  [Abstract!Next]_(Abstract!vars)
<1>1. TypeOK /\ NotTooMuch
  BY DEF IInv
<1>2. CASE UNCHANGED vars
  <2>1. Inbox' = Inbox
    BY <1>2 DEF vars, Inbox, Buffered
  <2> QED
    BY <1>2, <2>1 DEF vars, Abstract!vars
<1> QED
  BY <1>1, <1>2, AskRefines, FillRefines, TakeRefines, AnswerRefines,
     FailRefines DEF Next, Abstract!Next

\* Whatever pieces the source, the buffers and the other scripts cut the
\* input into, each call takes the bytes its format says in one step: the
\* readers implement the stream of bytes, for any input, calls and buffers.
THEOREM ReaderIsByteStream == Spec => Implements
<1>1. Init => Abstract!Init
  BY InitRefines
<1>2. IInv /\ [Next]_vars => [Abstract!Next]_(Abstract!vars)
  BY StepRefines
<1> QED
  BY <1>1, <1>2, Invariance, PTL DEF Spec, Implements, Abstract!Spec
=============================================================================
