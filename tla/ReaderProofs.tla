----------------------------- MODULE ReaderProofs -----------------------------
(***************************************************************************)
(* MessageReader and PartialReader, for every kind of client, any number   *)
(* of threads and messages of any number of frames: the types, and that no *)
(* byte reaches the application twice.                                     *)
(*                                                                         *)
(* What FlattenSeq yields is proved by induction over a set of numbers,    *)
(* from the well-foundedness of < on the naturals.                         *)
(***************************************************************************)
EXTENDS PartialReader, SequenceTheorems, FiniteSetTheorems, WellFoundedInduction, TLAPS

-----------------------------------------------------------------------------
(* Induction on natural numbers, for a set of numbers in place of a        *)
(* predicate.                                                              *)
LEMMA LeastElement ==
  ASSUME NEW T, T \subseteq Nat, T # {}
  PROVE \E n \in T : \A m \in T : ~ m < n
<1> DEFINE R == {p \in Nat \X Nat : p[1] < p[2]}
<1>1. IsWellFoundedOn(R, Nat)
  BY NatLessThanWellFounded DEF OpToRel
<1>2. \E n \in T : \A m \in T : ~ (<<m, n>> \in R)
  BY <1>1, WFMin
<1> QED
  BY <1>2

(* A set of naturals with 0 and with the successor of each has all.        *)
LEMMA Induction ==
  ASSUME NEW T, 0 \in T, \A n \in T : n + 1 \in T
  PROVE \A n \in Nat : n \in T
<1> SUFFICES ASSUME NEW n0 \in Nat, n0 \notin T PROVE FALSE
  OBVIOUS
<1>1. PICK n \in Nat \ T : \A m \in Nat \ T : ~ m < n
  BY LeastElement
<1>2. n # 0 /\ n - 1 \in Nat /\ n - 1 < n /\ (n - 1) + 1 = n
  BY <1>1
<1> QED
  BY <1>1, <1>2

-----------------------------------------------------------------------------
(* Sequences put one behind the other *)

(* The first i of them. *)
FlatTo(s, i) == FlattenSeq(SubSeq(s, 1, i))

Flattens(f, s, n) == f[0] = <<>> /\ \A i \in 1..n : f[i] = f[i - 1] \o s[i]

(* `Flattens' for an index one less.                                       *)
LEMMA FlattensStep ==
  ASSUME NEW f, NEW s, NEW n \in Nat, Flattens(f, s, n), NEW i \in Nat, i + 1 <= n
  PROVE f[i + 1] = f[i] \o s[i + 1]
<1>1. i + 1 \in 1..n /\ (i + 1) - 1 = i
  OBVIOUS
<1>2. f[i + 1] = f[(i + 1) - 1] \o s[i + 1]
  BY <1>1, Zenon DEF Flattens
<1> QED
  BY <1>1, <1>2, Zenon

(* The first n of a sequence of sequences can be joined one by one,        *)
LEMMA FlattenExists ==
  ASSUME NEW S, NEW s \in Seq(Seq(S)), NEW n \in Nat, n <= Len(s)
  PROVE \E f \in [0..n -> Seq(S)] : Flattens(f, s, n)
<1>1. \E f \in [0..0 -> Seq(S)] : Flattens(f, s, 0)
  <2>1. [i \in 0..0 |-> <<>>] \in [0..0 -> Seq(S)] /\ Flattens([i \in 0..0 |-> <<>>], s, 0)
    BY DEF Flattens
  <2> QED
    BY <2>1
<1>2. ASSUME NEW k \in Nat, k + 1 <= Len(s), NEW f \in [0..k -> Seq(S)], Flattens(f, s, k)
      PROVE \E g \in [0..k + 1 -> Seq(S)] : Flattens(g, s, k + 1)
  <2> DEFINE g == [i \in 0..k + 1 |-> IF i = k + 1 THEN f[k] \o s[i] ELSE f[i]]
  <2>2. g \in [0..k + 1 -> Seq(S)]
    <3>1. ASSUME NEW i \in 0..k + 1
          PROVE (IF i = k + 1 THEN f[k] \o s[i] ELSE f[i]) \in Seq(S)
      <4>1. f[k] \in Seq(S) /\ s[k + 1] \in Seq(S)
        BY <1>2
      <4>2. f[k] \o s[k + 1] \in Seq(S)
        BY <4>1
      <4> QED
        BY <4>2
    <3> QED
      BY <3>1
  <2>3. Flattens(g, s, k + 1)
    <3>1. g[0] = <<>>
      BY <1>2 DEF Flattens
    <3>2. ASSUME NEW i \in 1..k + 1 PROVE g[i] = g[i - 1] \o s[i]
      <4>1. i - 1 \in Nat /\ i - 1 \in 0..k + 1 /\ i - 1 # k + 1 /\ i \in 0..k + 1
        OBVIOUS
      <4>2. g[i - 1] = f[i - 1] /\ g[i] = IF i = k + 1 THEN f[k] \o s[i] ELSE f[i]
        BY <4>1
      <4>3. CASE i = k + 1
        <5>1. i - 1 = k
          BY <4>3
        <5>2. g[i] = f[k] \o s[i] /\ g[i - 1] = f[k]
          BY <4>1, <4>2, <4>3, <5>1
        <5> HIDE DEF g
        <5> QED
          BY <5>2
      <4>4. CASE i # k + 1
        <5>1. (i - 1) + 1 = i /\ i <= k
          BY <4>4
        <5>2. f[(i - 1) + 1] = f[i - 1] \o s[(i - 1) + 1]
          BY <1>2, <4>1, <5>1, FlattensStep, ZenonT(40)
        <5>3. f[i] = f[i - 1] \o s[i]
          BY <5>1, <5>2
        <5> HIDE DEF g
        <5> QED
          BY <4>2, <4>4, <5>3
      <4> QED
        BY <4>3, <4>4
    <3> QED
      BY <3>1, <3>2 DEF Flattens
  <2> QED
    BY <2>2, <2>3
<1> DEFINE T == {k \in Nat : k <= Len(s) => \E f \in [0..k -> Seq(S)] : Flattens(f, s, k)}
<1>3. 0 \in T
  BY <1>1
<1>4. ASSUME NEW k \in T PROVE k + 1 \in T
  <2> SUFFICES ASSUME k + 1 <= Len(s)
               PROVE \E g \in [0..k + 1 -> Seq(S)] : Flattens(g, s, k + 1)
    OBVIOUS
  <2>1. k \in Nat /\ k <= Len(s)
    OBVIOUS
  <2>2. PICK f \in [0..k -> Seq(S)] : Flattens(f, s, k)
    BY <2>1
  <2> QED
    BY <1>2, <2>1, <2>2
<1>5. n \in T
  <2> HIDE DEF T
  <2> QED
    BY <1>3, <1>4, Induction
<1> QED
  BY <1>5

(* in one way only,                                                        *)
LEMMA FlattenUnique ==
  ASSUME NEW s, NEW n \in Nat, NEW m \in Nat, n <= m, NEW f, NEW g,
         Flattens(f, s, n), Flattens(g, s, m)
  PROVE f[n] = g[n]
<1>1. f[0] = g[0]
  BY DEF Flattens
<1>2. ASSUME NEW k \in Nat, k + 1 <= n, f[k] = g[k] PROVE f[k + 1] = g[k + 1]
  <2>1. k + 1 <= m
    BY <1>2
  <2>2. f[k + 1] = f[k] \o s[k + 1] /\ g[k + 1] = g[k] \o s[k + 1]
    BY <1>2, <2>1, FlattensStep, ZenonT(40)
  <2> QED
    BY <1>2, <2>2
<1> DEFINE T == {k \in Nat : k <= n => f[k] = g[k]}
<1>3. 0 \in T
  BY <1>1
<1>4. ASSUME NEW k \in T PROVE k + 1 \in T
  BY <1>2
<1>5. n \in T
  <2> HIDE DEF T
  <2> QED
    BY <1>3, <1>4, Induction
<1> QED
  BY <1>5

(* and FlattenSeq is what that gives.                                      *)
LEMMA FlattenSteps ==
  ASSUME NEW S, NEW s \in Seq(Seq(S)), NEW f \in [0..Len(s) -> Seq(S)],
         Flattens(f, s, Len(s))
  PROVE FlattenSeq(s) = f[Len(s)]
<1>1. CASE Len(s) = 0
  BY <1>1 DEF FlattenSeq, Flattens
<1>2. CASE Len(s) # 0
  <2>1. Len(s) \in Nat /\ f[0] = <<>>
    BY DEF Flattens
  <2>2. \A k \in Nat : k + 1 <= Len(s) => f[k + 1] = f[k] \o s[k + 1]
    BY <2>1, FlattensStep
  <2>3. f[1] = s[1]
    <3>1. 0 + 1 <= Len(s) /\ s[1] \in Seq(S)
      BY <1>2, <2>1
    <3>2. f[0 + 1] = f[0] \o s[0 + 1]
      BY <2>2, <3>1
    <3> QED
      BY <2>1, <3>1, <3>2
  <2>4. ASSUME NEW i \in 1..Len(s), i # 1 PROVE f[i] = f[i - 1] \o s[i]
    <3>1. i - 1 \in Nat /\ (i - 1) + 1 = i /\ i <= Len(s)
      BY <2>1
    <3>2. f[(i - 1) + 1] = f[i - 1] \o s[(i - 1) + 1]
      BY <2>2, <3>1
    <3> QED
      BY <3>1, <3>2
  <2> DEFINE Step(g) == [i \in 1..Len(s) |-> IF i = 1 THEN s[i] ELSE g[i-1] \o s[i]]
             h == [i \in 1..Len(s) |-> f[i]]
  <2>5. h = Step(h)
    <3>1. ASSUME NEW i \in 1..Len(s)
          PROVE f[i] = IF i = 1 THEN s[i] ELSE h[i-1] \o s[i]
      <4>1. i # 1 => i - 1 \in 1..Len(s)
        BY <2>1
      <4> QED
        BY <2>3, <2>4, <4>1
    <3> QED
      BY <3>1
  <2> DEFINE flatten[i \in 1..Len(s)] == IF i = 1 THEN s[i] ELSE flatten[i-1] \o s[i]
  <2>6. FlattenSeq(s) = flatten[Len(s)]
    BY <1>2 DEF FlattenSeq
  <2>7. flatten = Step(flatten)
    <3>1. \E g : g = Step(g)
      BY <2>5
    <3>2. flatten = CHOOSE g : g = Step(g)
      OBVIOUS
    <3> HIDE DEF flatten, Step
    <3> QED
      BY <3>1, <3>2
  <2> HIDE DEF flatten, h
  <2>8. ASSUME NEW k \in Nat, k + 1 < Len(s), flatten[k + 1] = f[k + 1]
        PROVE flatten[(k + 1) + 1] = f[(k + 1) + 1]
    <3>1. (k + 1) + 1 \in 1..Len(s) /\ (k + 1) + 1 # 1 /\ ((k + 1) + 1) - 1 = k + 1
      BY <2>1, <2>8
    <3>2. flatten[(k + 1) + 1] = flatten[k + 1] \o s[(k + 1) + 1]
      BY <2>7, <3>1
    <3>3. f[(k + 1) + 1] = f[k + 1] \o s[(k + 1) + 1]
      BY <2>4, <3>1
    <3> QED
      BY <2>8, <3>2, <3>3
  <2>9. flatten[0 + 1] = f[0 + 1]
    BY <1>2, <2>1, <2>3, <2>7
  <2> HIDE DEF Step
  <2> DEFINE T == {k \in Nat : k < Len(s) => flatten[k + 1] = f[k + 1]}
  <2>10. 0 \in T
    BY <2>9
  <2>11. ASSUME NEW k \in T PROVE k + 1 \in T
    <3>1. k + 1 < Len(s) => k < Len(s)
      BY <2>1
    <3> QED
      BY <2>8, <3>1
  <2>12. Len(s) - 1 \in T
    <3>1. Len(s) - 1 \in Nat
      BY <1>2, <2>1
    <3> HIDE DEF T
    <3> QED
      BY <2>10, <2>11, <3>1, Induction
  <2> QED
    BY <1>2, <2>1, <2>6, <2>12
<1> QED
  BY <1>1, <1>2

(* What flattening a prefix, and one element more, gives. *)
LEMMA FlatFacts ==
  ASSUME NEW S, NEW s \in Seq(Seq(S))
  PROVE /\ \A i \in 0..Len(s) : FlatTo(s, i) \in Seq(S)
        /\ FlatTo(s, 0) = <<>>
        /\ \A i \in 1..Len(s) : FlatTo(s, i) = FlatTo(s, i - 1) \o s[i]
        /\ FlattenSeq(s) = FlatTo(s, Len(s))
<1>1. PICK f \in [0..Len(s) -> Seq(S)] : Flattens(f, s, Len(s))
  BY FlattenExists
<1>2. ASSUME NEW i \in 0..Len(s) PROVE FlatTo(s, i) = f[i]
  <2> DEFINE p == SubSeq(s, 1, i)
  <2>1. p \in Seq(Seq(S)) /\ Len(p) = i /\ \A j \in 1..i : p[j] = s[j]
    OBVIOUS
  <2> HIDE DEF p
  <2>2. PICK g \in [0..i -> Seq(S)] : Flattens(g, p, i)
    BY <2>1, FlattenExists
  <2>3. Flattens(g, s, i)
    BY <2>1, <2>2 DEF Flattens
  <2>4. FlattenSeq(p) = g[i]
    BY <2>1, <2>2, FlattenSteps
  <2> QED
    BY <1>1, <2>3, <2>4, FlattenUnique DEF FlatTo, p
<1>3. FlattenSeq(s) = f[Len(s)]
  BY <1>1, FlattenSteps
<1> QED
  BY <1>1, <1>2, <1>3 DEF Flattens

(* Sequences that agree up to i give the same up to i. *)
LEMMA FlatSame ==
  ASSUME NEW S, NEW s \in Seq(Seq(S)), NEW u \in Seq(Seq(S)), NEW i \in 0..Len(s),
         i <= Len(u), \A j \in 1..i : s[j] = u[j]
  PROVE FlatTo(s, i) = FlatTo(u, i)
<1>1. SubSeq(s, 1, i) = SubSeq(u, 1, i)
  OBVIOUS
<1> QED
  BY <1>1 DEF FlatTo

-----------------------------------------------------------------------------
(* Bytes, frames and messages *)

ByteSeq == Seq(Nat)

(* Sequences of bytes: what \o and SubSeq make of them.                    *)
LEMMA ByteSeqFacts ==
  /\ <<>> \in ByteSeq
  /\ \A s, u \in ByteSeq : s \o u \in ByteSeq /\ Len(s \o u) = Len(s) + Len(u)
  /\ \A s \in ByteSeq : s \o <<>> = s /\ <<>> \o s = s
  /\ \A s \in ByteSeq, i, j \in Nat :
       1 <= i /\ j <= Len(s)
         => /\ SubSeq(s, i, j) \in ByteSeq
            /\ Len(SubSeq(s, i, j)) = IF i <= j THEN j - i + 1 ELSE 0
            /\ \A k \in 1..Len(SubSeq(s, i, j)) : SubSeq(s, i, j)[k] = s[i + k - 1]
<1>1. <<>> \in ByteSeq
  BY DEF ByteSeq
<1>2. \A s, u \in ByteSeq : s \o u \in ByteSeq /\ Len(s \o u) = Len(s) + Len(u)
  BY DEF ByteSeq
<1>3. \A s \in ByteSeq : s \o <<>> = s /\ <<>> \o s = s
  BY DEF ByteSeq
<1>4. ASSUME NEW s \in ByteSeq, NEW i \in Nat, NEW j \in Nat, 1 <= i, j <= Len(s)
      PROVE /\ SubSeq(s, i, j) \in ByteSeq
            /\ Len(SubSeq(s, i, j)) = IF i <= j THEN j - i + 1 ELSE 0
            /\ \A k \in 1..Len(SubSeq(s, i, j)) : SubSeq(s, i, j)[k] = s[i + k - 1]
  <2>1. \A k \in i..j : s[k] \in Nat
    BY <1>4 DEF ByteSeq
  <2> QED
    BY <1>4, <2>1, SubSeqProperties DEF ByteSeq
<1> QED
  BY <1>1, <1>2, <1>3, <1>4

(* The length and the elements of a part,                                  *)
LEMMA SubSeqIs ==
  ASSUME NEW s \in ByteSeq, NEW i \in Nat, NEW j \in Nat, 1 <= i, j <= Len(s)
  PROVE /\ SubSeq(s, i, j) \in ByteSeq
        /\ Len(SubSeq(s, i, j)) = IF i <= j THEN j - i + 1 ELSE 0
        /\ \A k \in 1..Len(SubSeq(s, i, j)) : SubSeq(s, i, j)[k] = s[i + k - 1]
BY ByteSeqFacts, Zenon

(* and of two one behind the other.                                        *)
LEMMA ConcatAt ==
  ASSUME NEW a \in ByteSeq, NEW b \in ByteSeq
  PROVE /\ Len(a) \in Nat /\ Len(b) \in Nat /\ Len(a \o b) = Len(a) + Len(b)
        /\ \A p \in 1..Len(a \o b) : (a \o b)[p] = IF p <= Len(a) THEN a[p] ELSE b[p - Len(a)]
        /\ \A p \in 1..Len(a \o b) : (a \o b)[p] \in Nat
<1>1. a \in Seq(Nat) /\ b \in Seq(Nat) /\ a \o b \in Seq(Nat)
  BY DEF ByteSeq
<1> QED
  BY <1>1

(* The kind of a client bounds the lengths of frames. *)
MessageOf(m) == m.binary \in BOOLEAN /\ m.parts \in Seq(0..125) /\ m.parts # <<>>

(* What ClientKinds says of a client and of the messages it may send.      *)
LEMMA ClientFacts ==
  ASSUME client \in Clients
  PROVE /\ client.threads \subseteq Threads
        /\ client.partially \in BOOLEAN /\ client.cut \in BOOLEAN /\ client.slow \in BOOLEAN
        /\ client.messages \in Nat
        /\ \A m \in [binary : client.binary, parts : client.parts] : MessageOf(m)
<1>1. client \in ClientKinds
  BY ReaderAssumption
<1>2. /\ client.threads \subseteq Threads
      /\ client.partially \in BOOLEAN /\ client.cut \in BOOLEAN /\ client.slow \in BOOLEAN
      /\ client.messages \in Nat /\ client.binary \subseteq BOOLEAN
      /\ client.parts \subseteq Seq(0..125) \ {<<>>}
  BY <1>1 DEF ClientKinds
<1> QED
  BY <1>2 DEF MessageOf

(* The header of a masked frame with a short payload: six bytes.           *)
LEMMA ClientHeaderIs ==
  ASSUME NEW frame_type \in Nat, NEW size \in 0..125
  PROVE ClientHeader(frame_type, size)
          = <<frame_type, size + 128, KeyByte, KeyByte, KeyByte, KeyByte>>
<1>1. Header(frame_type, size) = <<frame_type, size>>
  BY DEF Header
<1>2. [Header(frame_type, size) EXCEPT ![2] = @ + 128] = <<frame_type, size + 128>>
  BY <1>1
<1>3. ClientHeader(frame_type, size)
        = <<frame_type, size + 128>> \o <<KeyByte, KeyByte, KeyByte, KeyByte>>
  BY <1>2 DEF ClientHeader
<1> DEFINE a == <<frame_type, size + 128>>
           b == <<KeyByte, KeyByte, KeyByte, KeyByte>>
           c == <<frame_type, size + 128, KeyByte, KeyByte, KeyByte, KeyByte>>
<1>4. a \in Seq(Nat) /\ Len(a) = 2 /\ a[1] = frame_type /\ a[2] = size + 128
  OBVIOUS
<1>5. b \in Seq(Nat) /\ Len(b) = 4 /\ \A i \in 1..4 : b[i] = KeyByte
  BY DEF KeyByte
<1>6. /\ c \in Seq(Nat) /\ Len(c) = 6 /\ c[1] = frame_type /\ c[2] = size + 128
      /\ \A i \in 3..6 : c[i] = KeyByte
  BY DEF KeyByte
<1> HIDE DEF a, b, c
<1>7. /\ a \o b \in Seq(Nat) /\ Len(a \o b) = Len(a) + Len(b)
      /\ \A i \in 1..Len(a) + Len(b) : (a \o b)[i] = IF i <= Len(a) THEN a[i] ELSE b[i - Len(a)]
  BY <1>4, <1>5, ConcatProperties, ZenonT(40)
<1>8. ASSUME NEW i \in 1..6 PROVE (a \o b)[i] = c[i]
  <2>0. i \in 1..Len(a) + Len(b)
    BY <1>4, <1>5
  <2>1. (a \o b)[i] = IF i <= 2 THEN a[i] ELSE b[i - 2]
    BY <1>4, <1>5, <1>7, <2>0, Zenon
  <2>2. CASE i \in 3..6
    <3>1. i - 2 \in 1..4 /\ ~ i <= 2
      BY <2>2
    <3> QED
      BY <1>5, <1>6, <2>1, <2>2, <3>1
  <2>3. CASE i = 1 \/ i = 2
    BY <1>4, <1>6, <2>1, <2>3
  <2>4. i \in 3..6 \/ i = 1 \/ i = 2
    OBVIOUS
  <2> QED
    BY <2>2, <2>3, <2>4
<1>9. a \o b = c
  <2>1. Len(a \o b) = 6
    BY <1>4, <1>5, <1>7
  <2> QED
    BY <1>6, <1>7, <1>8, <2>1, SeqEqual
<1> QED
  BY <1>3, <1>9 DEF a, b, c

(* A payload repeats the byte that stands for its message.                 *)
LEMMA PayloadIs ==
  ASSUME NEW k \in Nat, NEW size \in Nat
  PROVE /\ Payload(k, size) \in ByteSeq /\ Len(Payload(k, size)) = size
        /\ \A j \in 1..size : Payload(k, size)[j] = KeyByte + k
<1>1. \A j \in 1..size : KeyByte + k \in Nat
  BY DEF KeyByte
<1> QED
  BY <1>1 DEF Payload, ByteSeq

(* What the first byte of a frame says. *)
Lead(m, i) ==
  (IF i > 1 THEN 0 ELSE IF m.binary THEN 2 ELSE 1) + (IF i = Len(m.parts) THEN 128 ELSE 0)

(* Six bytes are a sequence of six bytes.                                  *)
LEMMA SixBytes ==
  ASSUME NEW a \in Nat, NEW b \in Nat
  PROVE /\ <<a, b, KeyByte, KeyByte, KeyByte, KeyByte>> \in ByteSeq
        /\ Len(<<a, b, KeyByte, KeyByte, KeyByte, KeyByte>>) = 6
BY DEF ByteSeq, KeyByte

(* A frame is its header and its payload.                                  *)
LEMMA FrameIs ==
  ASSUME NEW k \in Nat, NEW m, MessageOf(m), NEW i \in 1..Len(m.parts)
  PROVE /\ m.parts[i] \in 0..125
        /\ Frames(k, m)[i] = <<Lead(m, i), m.parts[i] + 128, KeyByte, KeyByte, KeyByte, KeyByte>>
                               \o Payload(k, m.parts[i])
        /\ Frames(k, m)[i] \in ByteSeq /\ Len(Frames(k, m)[i]) = 6 + m.parts[i]
<1>0. \A size \in 0..125 : size \in Nat /\ size + 128 \in Nat
  OBVIOUS
<1>1. m.parts[i] \in 0..125
  BY ElementOfSeq DEF MessageOf
<1>2. Frames(k, m)[i] = ClientHeader(Lead(m, i), m.parts[i]) \o Payload(k, m.parts[i])
  BY DEF Frames, Lead
<1>3. Lead(m, i) \in Nat
  BY DEF Lead
<1>4. Frames(k, m)[i] = <<Lead(m, i), m.parts[i] + 128, KeyByte, KeyByte, KeyByte, KeyByte>>
                         \o Payload(k, m.parts[i])
  BY <1>1, <1>2, <1>3, ClientHeaderIs
<1>6. Payload(k, m.parts[i]) \in ByteSeq /\ Len(Payload(k, m.parts[i])) = m.parts[i]
  <2>1. m.parts[i] \in Nat
    BY <1>0, <1>1, Zenon
  <2> QED
    BY <2>1, PayloadIs
<1>7. m.parts[i] + 128 \in Nat
  BY <1>0, <1>1, Zenon
<1> DEFINE h == <<Lead(m, i), m.parts[i] + 128, KeyByte, KeyByte, KeyByte, KeyByte>>
<1>8. h \in ByteSeq /\ Len(h) = 6
  BY <1>3, <1>7, SixBytes, Zenon
<1> HIDE DEF h
<1>9. h \o Payload(k, m.parts[i]) \in ByteSeq /\ Len(h \o Payload(k, m.parts[i])) = 6 + m.parts[i]
  <2>1. /\ h \o Payload(k, m.parts[i]) \in ByteSeq
        /\ Len(h \o Payload(k, m.parts[i])) = Len(h) + Len(Payload(k, m.parts[i]))
    BY <1>6, <1>8, ByteSeqFacts, Zenon
  <2> QED
    BY <1>6, <1>8, <2>1, Zenon
<1> QED
  BY <1>1, <1>4, <1>9, Zenon DEF h

(* The frames of a message are sequences of bytes, one for each part.      *)
LEMMA FramesType ==
  ASSUME NEW k \in Nat, NEW m, MessageOf(m)
  PROVE /\ Frames(k, m) \in Seq(ByteSeq) /\ Len(Frames(k, m)) = Len(m.parts)
        /\ Len(m.parts) \in Nat \ {0}
<1>1. Len(m.parts) \in Nat \ {0}
  BY DEF MessageOf
<1>2. \A i \in 1..Len(m.parts) : Frames(k, m)[i] \in ByteSeq
  BY FrameIs
<1>3. Frames(k, m) = [i \in 1..Len(m.parts) |-> Frames(k, m)[i]]
  BY DEF Frames
<1>4. Frames(k, m) \in [1..Len(m.parts) -> ByteSeq]
  BY <1>2, <1>3
<1> QED
  BY <1>1, <1>4

-----------------------------------------------------------------------------
(* Types *)

Kinds ==
  {"data", "NO_MESSAGE", "ERROR_FRAME", "INCOMPLETE_FRAME", "out_of_range", "PING_FRAME",
   "PONG_FRAME"}

FrameTypes == [kind : Kinds, done : BOOLEAN, binary : BOOLEAN, behind : BOOLEAN]

Calls ==
  [first : BOOLEAN, last_is_CONTIN : BOOLEAN, already_done : BOOLEAN, str : Nat,
   type : FrameTypes, popped : BOOLEAN]

Elements == [id : Nat, msg : ByteSeq, done : BOOLEAN, binary : BOOLEAN]

Returned == [msg : ByteSeq, binary : BOOLEAN]

(* The numbers on the pending list name its elements. *)
Named ==
  /\ \A i \in 1..Len(pending) : pending[i].id \in 1..pushes
  /\ \A i, j \in 1..Len(pending) : pending[i].id = pending[j].id => i = j

States ==
  {"msg_recv", "wait", "read", "more", "frame", "pushed", "return", "abandon", "aborted"}

TypedClient ==
  /\ client \in Clients
  /\ sent \in Seq([binary : client.binary, parts : client.parts])
  /\ stream \in ByteSeq /\ got \in 0..Len(stream) /\ ends \subseteq 1..Len(stream)
  /\ finished \in BOOLEAN

TypedSocket ==
  /\ conn \in {"open", "closed"} /\ owners \subseteq client.threads
  /\ armed \in BOOLEAN /\ disarming \in BOOLEAN /\ undone \in BOOLEAN
  /\ conn = "closed" => ~armed /\ owners = {}

TypedThreads ==
  /\ pc \in [Threads -> States]
  /\ raw_str \in [Threads -> ByteSeq] /\ raw_msg \in [Threads -> ByteSeq]
  /\ file \in [Threads -> ByteSeq]
  /\ call \in [Threads -> Calls] /\ \A t \in Threads : call[t].str \in 0..pushes

TypedLists ==
  /\ pushes \in Nat /\ pending \in Seq(Elements) /\ Named
  /\ delivered \in Seq(Returned)

Typed == TypedClient /\ TypedSocket /\ TypedThreads /\ TypedLists

(* The frame types without data,                                           *)
LEMMA OtherType == \A kind \in Kinds : Other(kind) \in FrameTypes
<1>1. ASSUME NEW kind \in Kinds, NEW b \in BOOLEAN
      PROVE [kind |-> kind, done |-> b, binary |-> b, behind |-> b] \in FrameTypes
  BY DEF FrameTypes
<1> QED
  BY <1>1, Zenon DEF Other

(* the locals of a new call of more_data,                                  *)
LEMMA NewCallType ==
  ASSUME NEW popped \in BOOLEAN
  PROVE NewCall(popped) \in Calls /\ NewCall(popped).str = 0
<1>1. 0 \in Nat /\ TRUE \in BOOLEAN /\ FALSE \in BOOLEAN
  OBVIOUS
<1>2. ASSUME NEW type \in FrameTypes
      PROVE [first |-> TRUE, last_is_CONTIN |-> FALSE, already_done |-> FALSE, str |-> 0,
             type |-> type, popped |-> popped] \in Calls
  BY <1>1 DEF Calls
<1>3. NewCall(popped) \in Calls
  BY <1>2, OtherType, Zenon DEF NewCall, Kinds
<1>4. NewCall(popped).str = 0
  BY DEF NewCall
<1> QED
  BY <1>3, <1>4

(* and the length a header states have their types.                        *)
LEMMA PayloadLengthType ==
  ASSUME NEW h \in ByteSeq, 2 <= Len(h), LengthEnd(h) <= Len(h)
  PROVE PayloadLength(h) \in Nat
<1>1. \A i \in 1..Len(h) : h[i] \in Nat
  BY DEF ByteSeq
<1>2. Len(h) \in Nat
  BY DEF ByteSeq
<1>3. CASE LengthField(h) = 126
  <2>1. h[3] \in Nat /\ h[4] \in Nat
    BY <1>1, <1>2, <1>3 DEF LengthEnd
  <2>2. PayloadLength(h) = h[3] * 256 + h[4]
    BY <1>3, Zenon DEF PayloadLength
  <2>3. \A a, b \in Nat : a * 256 + b \in Nat
    OBVIOUS
  <2> QED
    BY <2>1, <2>2, <2>3, ZenonT(40)
<1>4. CASE LengthField(h) = 127
  <2>1. h[7] \in Nat /\ h[8] \in Nat /\ h[9] \in Nat /\ h[10] \in Nat
    BY <1>1, <1>2, <1>4 DEF LengthEnd
  <2>2. PayloadLength(h) = ((h[7] * 256 + h[8]) * 256 + h[9]) * 256 + h[10]
    <3>1. LengthField(h) # 126
      BY <1>4
    <3> QED
      BY <1>4, <3>1, Zenon DEF PayloadLength
  <2>3. \A a, b \in Nat : a * 256 + b \in Nat
    OBVIOUS
  <2>4. h[7] * 256 + h[8] \in Nat
    BY <2>1, <2>3, Zenon
  <2>5. (h[7] * 256 + h[8]) * 256 + h[9] \in Nat
    BY <2>1, <2>3, <2>4, Zenon
  <2>6. ((h[7] * 256 + h[8]) * 256 + h[9]) * 256 + h[10] \in Nat
    BY <2>1, <2>3, <2>5, Zenon
  <2> QED
    BY <2>2, <2>6, Zenon
<1>5. CASE LengthField(h) # 126 /\ LengthField(h) # 127
  <2>1. h[2] \in Nat
    BY <1>1, <1>2
  <2> QED
    BY <1>5, <2>1 DEF PayloadLength, LengthField
<1> QED
  BY <1>3, <1>4, <1>5

(* What getFrame returns: a payload and the bytes behind it, both parts of *)
(* the buffer, or the buffer as it is.                                     *)
LEMMA GetFrameIs ==
  ASSUME NEW raw \in ByteSeq
  PROVE LET frame == GetFrame(raw)
        IN /\ frame.type \in FrameTypes
           /\ frame.msg \in ByteSeq /\ frame.rest \in ByteSeq
           /\ frame.type.kind = "data" =>
                \E a, b \in Nat :
                  /\ a <= b /\ b <= Len(raw)
                  /\ frame.msg = SubSeq(raw, a + 1, b)
                  /\ frame.rest = SubSeq(raw, b + 1, Len(raw))
<1> DEFINE type == FrameType(raw, Len(raw))
           taken == Len(raw) >= 3 /\ type.kind \notin {"INCOMPLETE_FRAME", "out_of_range"}
<1>1. Len(raw) \in Nat
  BY DEF ByteSeq
<1>2. type \in FrameTypes
  <2>1. DataType(raw, Len(raw)) \in FrameTypes
    <3>1. \A kind \in Kinds, a, b, c \in BOOLEAN :
            [kind |-> kind, done |-> a, binary |-> b, behind |-> c] \in FrameTypes
      BY DEF FrameTypes
    <3>2. (Fin(raw) = 1) \in BOOLEAN /\ (Opcode(raw) = 2) \in BOOLEAN
      OBVIOUS
    <3>3. (Len(raw) > FrameEnd(raw)) \in BOOLEAN
      OBVIOUS
    <3> QED
      BY <3>1, <3>2, <3>3, Zenon DEF DataType, Kinds
  <2>2. WholeType(raw, Len(raw)) \in FrameTypes
    BY <2>1, OtherType, Zenon DEF WholeType, Kinds
  <2> QED
    BY <2>2, OtherType, Zenon DEF FrameType, Kinds
<1>3. type.kind = "data" => taken
  BY DEF FrameType, Other
<1>4. CASE taken
  <2>1. LengthEnd(raw) \in {2, 4, 10}
    BY DEF LengthEnd
  <2>2. LengthEnd(raw) <= Len(raw) /\ ~ Len(raw) < LengthEnd(raw) + PayloadLength(raw)
    BY <1>1, <1>4, <2>1 DEF FrameType, Other
  <2>3. PayloadLength(raw) \in Nat
    BY <1>1, <1>4, <2>2, PayloadLengthType
  <2>4. ~ Len(raw) < FrameEnd(raw)
    BY <1>1, <1>4, <2>1, <2>2, <2>3 DEF FrameType, Other
  <2>5. PayloadStart(raw) \in Nat
    BY <2>1 DEF PayloadStart
  <2>6. FrameEnd(raw) \in Nat /\ PayloadStart(raw) <= FrameEnd(raw) /\ FrameEnd(raw) <= Len(raw)
    BY <1>1, <2>3, <2>4, <2>5 DEF FrameEnd
  <2>7. /\ GetFrame(raw).type = type
        /\ GetFrame(raw).msg = SubSeq(raw, PayloadStart(raw) + 1, FrameEnd(raw))
        /\ GetFrame(raw).rest = SubSeq(raw, FrameEnd(raw) + 1, Len(raw))
    BY <1>4 DEF GetFrame
  <2>8. GetFrame(raw).msg \in ByteSeq /\ GetFrame(raw).rest \in ByteSeq
    <3>1. /\ PayloadStart(raw) + 1 \in Nat /\ 1 <= PayloadStart(raw) + 1
          /\ FrameEnd(raw) + 1 \in Nat /\ 1 <= FrameEnd(raw) + 1 /\ Len(raw) <= Len(raw)
      BY <1>1, <2>5, <2>6
    <3>2. \A i, j \in Nat : 1 <= i /\ j <= Len(raw) => SubSeq(raw, i, j) \in ByteSeq
      BY ByteSeqFacts, Zenon
    <3>3. /\ SubSeq(raw, PayloadStart(raw) + 1, FrameEnd(raw)) \in ByteSeq
          /\ SubSeq(raw, FrameEnd(raw) + 1, Len(raw)) \in ByteSeq
      BY <1>1, <2>6, <3>1, <3>2, Zenon
    <3> QED
      BY <2>7, <3>3, Zenon
  <2> QED
    BY <1>2, <2>5, <2>6, <2>7, <2>8, Zenon
<1>5. CASE ~taken
  <2>1. GetFrame(raw).type = type /\ GetFrame(raw).msg = <<>> /\ GetFrame(raw).rest = raw
    BY <1>5 DEF GetFrame
  <2> QED
    BY <1>2, <1>3, <1>5, <2>1, ByteSeqFacts, Zenon
<1> QED
  BY <1>4, <1>5

(* What Set changes. *)
LEMMA SetIs ==
  ASSUME NEW S, NEW f \in [Threads -> S], NEW t \in Threads, NEW v \in S
  PROVE /\ Set(f, t, v) \in [Threads -> S] /\ Set(f, t, v)[t] = v
        /\ \A u \in Threads : u # t => Set(f, t, v)[u] = f[u]
BY DEF Set

(* What is joined first is the beginning of what is joined later.          *)
LEMMA FlatMonotone ==
  ASSUME NEW s \in Seq(ByteSeq), NEW n \in 0..Len(s)
  PROVE \A i \in 0..n : /\ Len(FlatTo(s, i)) \in Nat /\ Len(FlatTo(s, i)) <= Len(FlatTo(s, n))
                        /\ \A x \in 1..Len(FlatTo(s, i)) : FlatTo(s, n)[x] = FlatTo(s, i)[x]
<1> DEFINE Extends(i, m) ==
             /\ Len(FlatTo(s, i)) \in Nat /\ Len(FlatTo(s, i)) <= Len(FlatTo(s, m))
             /\ \A x \in 1..Len(FlatTo(s, i)) : FlatTo(s, m)[x] = FlatTo(s, i)[x]
           T == {m \in Nat : m <= Len(s) => \A i \in 0..m : Extends(i, m)}
<1>1. \A i \in 0..Len(s) : FlatTo(s, i) \in Seq(Nat)
  BY FlatFacts DEF ByteSeq
<1>2. \A i \in 0..Len(s) : Extends(i, i)
  BY <1>1
<1>3. 0 \in T
  BY <1>2
<1>4. ASSUME NEW m \in Nat, m + 1 <= Len(s), \A i \in 0..m : Extends(i, m), NEW i \in 0..m
      PROVE Extends(i, m + 1)
  <2>1. m + 1 \in 1..Len(s) /\ (m + 1) - 1 = m
    BY <1>4
  <2>2. FlatTo(s, m + 1) = FlatTo(s, m) \o s[m + 1]
    BY <2>1, FlatFacts DEF ByteSeq
  <2>3. FlatTo(s, m) \in Seq(Nat) /\ s[m + 1] \in Seq(Nat) /\ FlatTo(s, i) \in Seq(Nat)
    BY <1>1, <1>4, <2>1 DEF ByteSeq
  <2>4. Extends(i, m)
    BY <1>4
  <2> DEFINE a == FlatTo(s, m)
             b == s[m + 1]
  <2>5. /\ a \o b \in Seq(Nat) /\ Len(a \o b) = Len(a) + Len(b)
        /\ \A x \in 1..Len(a) : (a \o b)[x] = a[x]
    BY <2>3
  <2>6. Len(a) \in Nat /\ Len(b) \in Nat
    BY <2>3
  <2> QED
    BY <2>2, <2>4, <2>5, <2>6
<1>5. ASSUME NEW m \in T PROVE m + 1 \in T
  <2> SUFFICES ASSUME m + 1 <= Len(s), NEW i \in 0..m + 1 PROVE Extends(i, m + 1)
    OBVIOUS
  <2>1. m \in Nat /\ m <= Len(s) /\ m + 1 \in 0..Len(s)
    OBVIOUS
  <2>2. \A j \in 0..m : Extends(j, m)
    BY <2>1
  <2> HIDE DEF Extends
  <2>3. i \in 0..m \/ i = m + 1
    BY <2>1
  <2> QED
    BY <1>2, <1>4, <2>1, <2>2, <2>3
<1>6. n \in T
  <2> HIDE DEF T
  <2> QED
    BY <1>3, <1>5, Induction
<1> QED
  BY <1>6

(* The places in a message's bytes at which its frames end. *)
LEMMA FrameEnds ==
  ASSUME NEW k \in Nat, NEW m, MessageOf(m)
  PROVE /\ Bytes(Frames(k, m)) \in ByteSeq
        /\ Bytes(Frames(k, m)) = FlatTo(Frames(k, m), Len(m.parts))
        /\ \A i \in 1..Len(m.parts) :
             /\ FlatTo(Frames(k, m), i) \in ByteSeq
             /\ Len(FlatTo(Frames(k, m), i)) \in 6..Len(Bytes(Frames(k, m)))
             /\ Len(FlatTo(Frames(k, m), i))
                  = Len(FlatTo(Frames(k, m), i - 1)) + Len(Frames(k, m)[i])
<1> DEFINE s == Frames(k, m)
           n == Len(m.parts)
<1>1. s \in Seq(ByteSeq) /\ Len(s) = n /\ n \in Nat \ {0}
  BY FramesType
<1>2. \A i \in 1..n : m.parts[i] \in 0..125 /\ s[i] \in ByteSeq /\ Len(s[i]) = 6 + m.parts[i]
  BY FrameIs, ZenonT(40)
<1> HIDE DEF s, n
<1>3. /\ \A i \in 0..n : FlatTo(s, i) \in ByteSeq
      /\ \A i \in 1..n : FlatTo(s, i) = FlatTo(s, i - 1) \o s[i]
      /\ FlattenSeq(s) = FlatTo(s, n)
  BY <1>1, FlatFacts, Zenon DEF ByteSeq
<1>4. \A x \in 0..125 : 6 + x \in Nat /\ 6 + x >= 6
  OBVIOUS
<1>5. ASSUME NEW i \in 1..n
      PROVE /\ Len(FlatTo(s, i)) \in 6..Len(FlatTo(s, n))
            /\ Len(FlatTo(s, i)) = Len(FlatTo(s, i - 1)) + Len(s[i])
  <2>1. i - 1 \in 0..n /\ i \in 0..n /\ n \in 0..n
    BY <1>1
  <2>2. Len(FlatTo(s, i)) = Len(FlatTo(s, i - 1)) + Len(s[i])
    BY <1>2, <1>3, <2>1, ByteSeqFacts, Zenon
  <2>3. Len(s[i]) \in Nat /\ Len(s[i]) >= 6
    BY <1>2, <1>4, Zenon
  <2>4. /\ Len(FlatTo(s, i)) \in Nat /\ Len(FlatTo(s, i - 1)) \in Nat /\ Len(FlatTo(s, n)) \in Nat
        /\ Len(FlatTo(s, i)) <= Len(FlatTo(s, n))
    BY <1>1, <2>1, FlatMonotone
  <2>5. \A a, p, l, z \in Nat : l >= 6 /\ a = p + l /\ a <= z => a \in 6..z
    OBVIOUS
  <2> QED
    BY <2>2, <2>3, <2>4, <2>5, Zenon
<1>6. \A i \in 1..n : i \in 0..n
  BY <1>1
<1>7. n \in 0..n
  BY <1>1
<1> QED
  BY <1>3, <1>5, <1>6, <1>7, Zenon DEF Bytes, s, n

(* Every step keeps the types: the client sends a message,                 *)
LEMMA TypedSend ==
  ASSUME Typed, Send, UNCHANGED file
  PROVE Typed'
<1>1. PICK m \in [binary : client.binary, parts : client.parts] :
        /\ sent' = Append(sent, m)
        /\ stream' = stream \o Bytes(Frames(Len(sent) + 1, m))
        /\ ends' = ends \union {Len(stream) + Len(Bytes(SubSeq(Frames(Len(sent) + 1, m), 1, i))) :
                                i \in 1..Len(Frames(Len(sent) + 1, m))}
  BY DEF Send
<1>2. MessageOf(m)
  BY ClientFacts DEF Typed, TypedClient
<1>3. Len(sent) + 1 \in Nat /\ Len(stream) \in Nat
  BY DEF Typed, TypedClient, ByteSeq
<1> DEFINE b == Bytes(Frames(Len(sent) + 1, m))
<1>4. b \in ByteSeq /\ Len(Frames(Len(sent) + 1, m)) = Len(m.parts)
  BY <1>2, <1>3, FrameEnds, FramesType
<1>5. \A i \in 1..Len(m.parts) : Len(Bytes(SubSeq(Frames(Len(sent) + 1, m), 1, i))) \in 6..Len(b)
  BY <1>2, <1>3, FrameEnds DEF FlatTo, Bytes
<1> HIDE DEF b
<1>6. stream' \in ByteSeq /\ Len(stream') = Len(stream) + Len(b) /\ Len(b) \in Nat
  <2>1. stream \in ByteSeq /\ stream' = stream \o b
    BY <1>1 DEF Typed, TypedClient, b
  <2> QED
    BY <1>4, <2>1, ByteSeqFacts DEF ByteSeq
<1>7. ends' \subseteq 1..Len(stream')
  <2>1. ends' = ends \union {Len(stream) + Len(Bytes(SubSeq(Frames(Len(sent) + 1, m), 1, i))) :
                             i \in 1..Len(m.parts)}
    BY <1>1, <1>4
  <2>2. ends \subseteq 1..Len(stream)
    BY DEF Typed, TypedClient
  <2>3. \A x \in 6..Len(b) : Len(stream) + x \in 1..Len(stream')
    BY <1>3, <1>6
  <2>4. ASSUME NEW e \in ends' PROVE e \in 1..Len(stream')
    <3>1. e \in ends \/ \E x \in 6..Len(b) : e = Len(stream) + x
      BY <1>5, <2>1
    <3>2. \A x \in 1..Len(stream) : x \in 1..Len(stream')
      BY <1>3, <1>6
    <3> QED
      BY <2>2, <2>3, <3>1, <3>2
  <2> QED
    BY <2>4
<1>8. TypedClient'
  <2>1. client' = client /\ finished' = finished /\ got' = got
    BY DEF Send, socketVars, epollVars
  <2>2. got' \in 0..Len(stream')
    BY <1>3, <1>6, <2>1 DEF Typed, TypedClient
  <2>3. sent' \in Seq([binary : client.binary, parts : client.parts])
    BY <1>1 DEF Typed, TypedClient
  <2> QED
    BY <1>6, <1>7, <2>1, <2>2, <2>3 DEF Typed, TypedClient
<1>9. TypedSocket' /\ TypedThreads' /\ TypedLists'
  BY DEF Send, socketVars, epollVars, listVars, Typed, TypedSocket, TypedThreads, TypedLists,
         Named
<1> QED
  BY <1>8, <1>9 DEF Typed

(* or ends its stream;                                                     *)
LEMMA TypedFinish ==
  ASSUME Typed, Finish, UNCHANGED file
  PROVE Typed'
<1>1. ClientHeader(136, 0) \in ByteSeq /\ Len(ClientHeader(136, 0)) = 6
  <2>1. ClientHeader(136, 0) = <<136, 0 + 128, KeyByte, KeyByte, KeyByte, KeyByte>>
    BY ClientHeaderIs
  <2>2. 136 \in Nat /\ 0 + 128 \in Nat
    OBVIOUS
  <2> QED
    BY <2>1, <2>2, SixBytes, Zenon
<1>2. Len(stream) \in Nat
  BY DEF Typed, TypedClient, ByteSeq
<1>3. /\ stream' \in ByteSeq /\ ends' \subseteq 1..Len(stream')
      /\ Len(stream') \in Nat /\ Len(stream) <= Len(stream')
  <2>1. CASE UNCHANGED <<stream, ends>>
    BY <1>2, <2>1 DEF Typed, TypedClient
  <2>2. CASE stream' = stream \o ClientHeader(136, 0) /\ ends' = ends \union {Len(stream')}
    <3>1. stream' \in ByteSeq /\ Len(stream') = Len(stream) + 6
      <4>1. stream \in ByteSeq
        BY DEF Typed, TypedClient
      <4>2. /\ stream \o ClientHeader(136, 0) \in ByteSeq
            /\ Len(stream \o ClientHeader(136, 0)) = Len(stream) + Len(ClientHeader(136, 0))
        BY <1>1, <4>1, ByteSeqFacts, Zenon
      <4> QED
        BY <1>1, <2>2, <4>2, Zenon
    <3>2. ends \subseteq 1..Len(stream)
      BY DEF Typed, TypedClient
    <3>3. Len(stream') \in 1..Len(stream') /\ \A x \in 1..Len(stream) : x \in 1..Len(stream')
      BY <1>2, <3>1
    <3>4. Len(stream') \in Nat /\ Len(stream) <= Len(stream')
      BY <1>2, <3>1
    <3> QED
      BY <2>2, <3>1, <3>2, <3>3, <3>4
  <2> QED
    BY <2>1, <2>2 DEF Finish
<1>4. TypedClient'
  BY <1>2, <1>3 DEF Finish, Typed, TypedClient, socketVars, epollVars
<1>5. TypedSocket' /\ TypedThreads' /\ TypedLists'
  BY DEF Finish, socketVars, epollVars, listVars, Typed, TypedSocket, TypedThreads, TypedLists,
         Named
<1> QED
  BY <1>4, <1>5 DEF Typed

(* Taking the first element off the pending list. *)
LEMMA ListWithoutHead ==
  ASSUME Typed, pending # <<>>, pending' = Tail(pending), pushes' = pushes
  PROVE /\ Len(pending) \in Nat \ {0} /\ Head(pending) = pending[1] /\ pending[1] \in Elements
        /\ pending' \in Seq(Elements) /\ Len(pending') = Len(pending) - 1
        /\ \A i \in 1..Len(pending') : pending'[i] = pending[i + 1]
        /\ Named'
<1>1. pending \in Seq(Elements) /\ Named
  BY DEF Typed, TypedLists
<1>2. Len(pending) \in Nat \ {0} /\ Head(pending) = pending[1] /\ pending[1] \in Elements
  BY <1>1
<1>3. /\ pending' \in Seq(Elements) /\ Len(pending') = Len(pending) - 1
      /\ \A i \in 1..Len(pending') : pending'[i] = pending[i + 1]
  BY <1>1
<1>4. \A i \in 1..Len(pending') : i + 1 \in 1..Len(pending)
  BY <1>2, <1>3
<1>5. Named'
  <2>1. ASSUME NEW i \in 1..Len(pending') PROVE pending'[i].id \in 1..pushes
    BY <1>1, <1>3, <1>4 DEF Named
  <2>2. ASSUME NEW i \in 1..Len(pending'), NEW j \in 1..Len(pending'),
               pending'[i].id = pending'[j].id
        PROVE i = j
    <3>1. pending[i + 1].id = pending[j + 1].id
      BY <1>3, <2>2
    <3>2. i + 1 = j + 1
      BY <1>1, <1>4, <3>1 DEF Named
    <3> QED
      BY <1>3, <3>2
  <2> QED
    BY <2>1, <2>2 DEF Named
<1> QED
  BY <1>2, <1>3, <1>5

(* What msg_recv returns is one more message,                              *)
LEMMA ReturnsType ==
  ASSUME Typed, NEW t \in Threads, NEW msg \in ByteSeq, NEW binary \in BOOLEAN,
         Returns(t, msg, binary)
  PROVE /\ delivered' \in Seq(Returned) /\ Len(delivered) \in Nat
        /\ Len(delivered') = Len(delivered) + 1
        /\ \A i \in 1..Len(delivered) : delivered'[i] = delivered[i]
        /\ delivered'[Len(delivered) + 1] = [msg |-> msg, binary |-> binary]
        /\ pc' \in [Threads -> States]
<1>1. delivered \in Seq(Returned) /\ [msg |-> msg, binary |-> binary] \in Returned
  BY DEF Typed, TypedLists, Returned
<1> DEFINE d == [msg |-> msg, binary |-> binary]
<1>2. delivered' = Append(delivered, d)
  BY DEF Returns
<1> HIDE DEF d
<1>3. d \in Returned
  BY <1>1 DEF d
<1>4. /\ delivered' \in Seq(Returned) /\ Len(delivered) \in Nat
      /\ Len(delivered') = Len(delivered) + 1
      /\ \A i \in 1..Len(delivered) : delivered'[i] = delivered[i]
      /\ delivered'[Len(delivered) + 1] = d
  BY <1>1, <1>2, <1>3
<1>5. pc' \in [Threads -> States]
  BY SetIs DEF Returns, States, Typed, TypedThreads
<1> QED
  BY <1>4, <1>5 DEF d

(* socketfd is given to threads of this client only,                       *)
LEMMA OwnsType ==
  ASSUME Typed, NEW t \in client.threads, Owns(t), conn' = conn, client' = client
  PROVE owners' \subseteq client.threads /\ (conn = "closed" => owners' = {})
BY DEF Owns, Typed, TypedSocket

(* and a call of more_data starts with new locals.                         *)
LEMMA CallsAnew ==
  ASSUME Typed, NEW t \in Threads, NEW popped \in BOOLEAN,
         call' = Set(call, t, NewCall(popped))
  PROVE /\ call' \in [Threads -> Calls] /\ call'[t] = NewCall(popped)
        /\ \A u \in Threads : u # t => call'[u] = call[u]
        /\ \A u \in Threads : call'[u].str \in 0..pushes
<1>1. call \in [Threads -> Calls] /\ pushes \in Nat /\ \A u \in Threads : call[u].str \in 0..pushes
  BY DEF Typed, TypedThreads, TypedLists
<1>2. NewCall(popped) \in Calls /\ NewCall(popped).str = 0
  BY NewCallType
<1>3. /\ Set(call, t, NewCall(popped)) \in [Threads -> Calls]
      /\ Set(call, t, NewCall(popped))[t] = NewCall(popped)
      /\ \A u \in Threads : u # t => Set(call, t, NewCall(popped))[u] = call[u]
  <2>1. ASSUME NEW c \in Calls
        PROVE /\ Set(call, t, c) \in [Threads -> Calls] /\ Set(call, t, c)[t] = c
              /\ \A u \in Threads : u # t => Set(call, t, c)[u] = call[u]
    BY <1>1 DEF Set
  <2> QED
    BY <1>2, <2>1, Zenon
<1>4. 0 \in 0..pushes
  BY <1>1
<1> QED
  BY <1>1, <1>2, <1>3, <1>4, Zenon

(* pop_pending keeps the types,                                            *)
LEMMA TypedPop ==
  ASSUME Typed, NEW t \in client.threads, Pop(t), UNCHANGED file
  PROVE Typed'
<1>1. t \in Threads
  BY ClientFacts DEF Typed, TypedClient
<1>2. /\ Head(pending) = pending[1] /\ pending[1] \in Elements
      /\ pending' \in Seq(Elements) /\ Named'
  BY ListWithoutHead DEF Pop
<1>3. pending[1].msg \in ByteSeq /\ pending[1].binary \in BOOLEAN
  BY <1>2 DEF Elements
<1>4. TypedClient'
  BY DEF Pop, clientVars, Typed, TypedClient
<1>5. TypedSocket'
  BY OwnsType DEF Pop, clientVars, epollVars, Typed, TypedSocket
<1>6. CASE /\ pending[1].done /\ Returns(t, pending[1].msg, pending[1].binary)
           /\ UNCHANGED <<raw_msg, call>>
  <2>1. delivered' \in Seq(Returned) /\ pc' \in [Threads -> States]
    BY <1>1, <1>3, <1>6, ReturnsType
  <2>2. TypedThreads' /\ TypedLists'
    BY <1>2, <1>6, <2>1 DEF Pop, Typed, TypedThreads, TypedLists
  <2> QED
    BY <1>4, <1>5, <2>2 DEF Typed
<1>7. CASE /\ raw_msg' = Set(raw_msg, t, pending[1].msg)
           /\ call' = Set(call, t, NewCall(TRUE))
           /\ pc' = Set(pc, t, "read")
           /\ UNCHANGED delivered
  <2>1. raw_msg' \in [Threads -> ByteSeq] /\ pc' \in [Threads -> States]
    BY <1>1, <1>3, <1>7, SetIs DEF States, Typed, TypedThreads
  <2>2. call' \in [Threads -> Calls] /\ \A u \in Threads : call'[u].str \in 0..pushes
    BY <1>1, <1>7, CallsAnew
  <2>3. TypedThreads' /\ TypedLists'
    BY <1>2, <1>7, <2>1, <2>2 DEF Pop, Typed, TypedThreads, TypedLists
  <2> QED
    BY <1>4, <1>5, <2>3 DEF Typed
<1> QED
  BY <1>2, <1>6, <1>7 DEF Pop

(* so do msg_recv,                                                         *)
LEMMA TypedMsgRecv ==
  ASSUME Typed, NEW t \in client.threads, MsgRecv(t), UNCHANGED file
  PROVE Typed'
<1>1. t \in Threads
  BY ClientFacts DEF Typed, TypedClient
<1>2. CASE Pop(t)
  BY <1>2, TypedPop
<1>3. CASE /\ pc' = Set(pc, t, "wait")
           /\ owners' = owners \ {t}
           /\ UNCHANGED <<clientVars, got, conn, epollVars, listVars, raw_str, raw_msg, call,
                          delivered>>
  <2>1. pc' \in [Threads -> States]
    BY <1>1, <1>3, SetIs DEF States, Typed, TypedThreads
  <2>2. TypedClient' /\ TypedSocket'
    BY <1>3 DEF clientVars, epollVars, Typed, TypedClient, TypedSocket
  <2>3. TypedThreads' /\ TypedLists'
    BY <1>3, <2>1 DEF listVars, Typed, TypedThreads, TypedLists, Named
  <2> QED
    BY <2>2, <2>3 DEF Typed
<1> QED
  BY <1>2, <1>3 DEF MsgRecv

(* recv_epoll, which finds the socket ready,                               *)
LEMMA TypedTake ==
  ASSUME Typed, NEW t \in client.threads, Take(t), UNCHANGED file
  PROVE Typed'
<1>1. t \in Threads
  BY ClientFacts DEF Typed, TypedClient
<1>2. pc' \in [Threads -> States] /\ raw_msg' \in [Threads -> ByteSeq]
  BY <1>1, ByteSeqFacts, SetIs DEF Take, States, Typed, TypedThreads
<1>3. call' \in [Threads -> Calls] /\ \A u \in Threads : call'[u].str \in 0..pushes
  BY <1>1, CallsAnew DEF Take
<1>5. TypedClient' /\ TypedSocket'
  BY OwnsType DEF Take, clientVars, Typed, TypedClient, TypedSocket
<1>6. TypedThreads' /\ TypedLists'
  BY <1>2, <1>3 DEF Take, listVars, Typed, TypedThreads, TypedLists, Named
<1> QED
  BY <1>5, <1>6 DEF Typed

(* which disarms it next,                                                  *)
LEMMA TypedDisarm ==
  ASSUME Typed, Disarm, UNCHANGED file
  PROVE Typed'
BY DEF Disarm, clientVars, listVars, Typed, TypedClient, TypedSocket, TypedThreads,
       TypedLists, Named

(* close_socket,                                                           *)
LEMMA TypedRefuse ==
  ASSUME Typed, NEW t \in client.threads, Refuse(t), UNCHANGED file
  PROVE Typed'
<1>1. t \in Threads
  BY ClientFacts DEF Typed, TypedClient
<1>2. pc' \in [Threads -> States] /\ raw_str' \in [Threads -> ByteSeq]
  <2>1. \A v \in States : Set(pc, t, v) \in [Threads -> States]
    BY <1>1, SetIs DEF Typed, TypedThreads
  <2> QED
    BY <1>1, <2>1, ByteSeqFacts, SetIs DEF Refuse, States, Typed, TypedThreads
<1>3. TypedClient' /\ TypedSocket'
  BY DEF Refuse, clientVars, Typed, TypedClient, TypedSocket
<1>4. TypedThreads'
  BY <1>2 DEF Refuse, Typed, TypedThreads
<1>5. TypedLists'
  BY DEF Refuse, Typed, TypedLists, Named
<1> QED
  BY <1>3, <1>4, <1>5 DEF Typed

(* Receiving appends the next bytes of the stream to the buffer. *)
LEMMA ReceiveIs ==
  ASSUME Typed, NEW t \in client.threads, NEW before \in ByteSeq, Receive(t, before)
  PROVE /\ got' \in got + 1..Len(stream) /\ MayEnd(got') /\ conn = "open"
        /\ SubSeq(stream, got + 1, got') \in ByteSeq
        /\ Len(SubSeq(stream, got + 1, got')) = got' - got
        /\ \A j \in 1..got' - got : SubSeq(stream, got + 1, got')[j] = stream[got + j]
        /\ before \o SubSeq(stream, got + 1, got') \in ByteSeq
        /\ raw_str' = Set(raw_str, t, before \o SubSeq(stream, got + 1, got'))
<1>1. got' \in got + 1..Len(stream) /\ MayEnd(got') /\ conn = "open"
      /\ raw_str' = Set(raw_str, t, before \o SubSeq(stream, got + 1, got'))
  BY DEF Receive
<1>2. stream \in Seq(Nat) /\ got \in 0..Len(stream) /\ Len(stream) \in Nat
  BY DEF Typed, TypedClient, ByteSeq
<1>3. got + 1 \in Nat /\ 1 <= got + 1 /\ got' \in Nat /\ got' <= Len(stream) /\ got + 1 <= got'
  BY <1>1, <1>2
<1> DEFINE news == SubSeq(stream, got + 1, got')
<1>4. /\ news \in ByteSeq /\ Len(news) = got' - (got + 1) + 1
      /\ \A k \in 1..Len(news) : news[k] = stream[got + 1 + k - 1]
  BY <1>2, <1>3, ByteSeqFacts DEF ByteSeq
<1> HIDE DEF news
<1>5. Len(news) = got' - got
  BY <1>2, <1>3, <1>4
<1>6. ASSUME NEW j \in 1..got' - got PROVE news[j] = stream[got + j]
  <2>1. got + 1 + j - 1 = got + j
    BY <1>2
  <2> QED
    BY <1>4, <1>5, <2>1
<1>7. before \o news \in ByteSeq
  BY <1>4, ByteSeqFacts, Zenon
<1> QED
  BY <1>1, <1>4, <1>5, <1>6, <1>7 DEF news

(* read_loop,                                                              *)
LEMMA TypedReceive ==
  ASSUME Typed, NEW t \in client.threads, NEW before \in ByteSeq, Receive(t, before),
         UNCHANGED file
  PROVE Typed'
<1>1. t \in Threads
  BY ClientFacts DEF Typed, TypedClient
<1>2. /\ got' \in got + 1..Len(stream)
      /\ before \o SubSeq(stream, got + 1, got') \in ByteSeq
      /\ raw_str' = Set(raw_str, t, before \o SubSeq(stream, got + 1, got'))
  BY ReceiveIs
<1>3. raw_str' \in [Threads -> ByteSeq]
  BY <1>1, <1>2, SetIs DEF Typed, TypedThreads
<1>4. pc' \in [Threads -> States]
  BY <1>1, SetIs DEF Receive, States, Typed, TypedThreads
<1>5. TypedClient'
  <2>1. got' \in 0..Len(stream)
    BY <1>2 DEF Typed, TypedClient, ByteSeq
  <2> QED
    BY <2>1 DEF Receive, clientVars, Typed, TypedClient
<1>6. TypedSocket' /\ TypedThreads' /\ TypedLists'
  BY <1>3, <1>4
     DEF Receive, clientVars, epollVars, listVars, Typed, TypedSocket, TypedThreads, TypedLists,
         Named
<1> QED
  BY <1>5, <1>6 DEF Typed

(* What a decoded frame makes of the locals of more_data. *)
After(c, type, str) ==
  [c EXCEPT !.first = FALSE, !.last_is_CONTIN = ~type.done,
            !.already_done = @ \/ type.done, !.str = str, !.type = type]

(* The locals of more_data behind a frame have their types.                *)
LEMMA CallAfter ==
  ASSUME NEW c \in Calls, NEW type \in FrameTypes, NEW str \in Nat
  PROVE /\ After(c, type, str) \in Calls
        /\ ~After(c, type, str).first
        /\ After(c, type, str).last_is_CONTIN <=> ~type.done
        /\ After(c, type, str).already_done <=> c.already_done \/ type.done
        /\ After(c, type, str).str = str /\ After(c, type, str).type = type
        /\ After(c, type, str).popped = c.popped
<1>1. type.done \in BOOLEAN /\ c.already_done \in BOOLEAN /\ c.popped \in BOOLEAN
  BY DEF Calls, FrameTypes
<1>2. (~type.done) \in BOOLEAN /\ (c.already_done \/ type.done) \in BOOLEAN
  OBVIOUS
<1>3. PICK a \in BOOLEAN, b \in BOOLEAN : a = (~type.done) /\ b = (c.already_done \/ type.done)
  BY <1>2, Zenon
<1>4. PICK r : r = [c EXCEPT !.first = FALSE, !.last_is_CONTIN = a,
                           !.already_done = b, !.str = str, !.type = type]
  OBVIOUS
<1>5. /\ r \in Calls /\ r.first = FALSE /\ r.last_is_CONTIN = a /\ r.already_done = b
      /\ r.str = str /\ r.type = type /\ r.popped = c.popped
  BY <1>4 DEF Calls
<1>6. r = After(c, type, str)
  BY <1>3, <1>4, Zenon DEF After
<1> QED
  BY <1>3, <1>5, <1>6, Zenon

(* What str->append(msg) changes,                                          *)
LEMMA AppendMsgType ==
  ASSUME Typed, NEW t \in Threads, NEW msg \in ByteSeq, AppendMsg(t, msg)
  PROVE /\ raw_msg' \in [Threads -> ByteSeq] /\ pushes' = pushes
        /\ pending' \in Seq(Elements) /\ Len(pending') = Len(pending) /\ Len(pending) \in Nat
        /\ \A i \in 1..Len(pending) :
             pending'[i] = IF pending[i].id = call[t].str
                           THEN [pending[i] EXCEPT !.msg = @ \o msg] ELSE pending[i]
        /\ \A i \in 1..Len(pending) : pending'[i].id = pending[i].id
        /\ Named'
<1>1. /\ pending \in Seq(Elements) /\ Named /\ raw_msg \in [Threads -> ByteSeq]
      /\ Len(pending) \in Nat
  BY DEF Typed, TypedLists, TypedThreads
<1>2. pushes' = pushes
  BY DEF AppendMsg
<1>3. raw_msg' \in [Threads -> ByteSeq]
  <2>1. raw_msg[t] \o msg \in ByteSeq
    BY <1>1, ByteSeqFacts
  <2> QED
    BY <1>1, <2>1, SetIs DEF AppendMsg
<1>4. \A e \in Elements :
        /\ [e EXCEPT !.msg = @ \o msg] \in Elements /\ [e EXCEPT !.msg = @ \o msg].id = e.id
  <2>1. ASSUME NEW e \in Elements, NEW m \in ByteSeq
        PROVE [e EXCEPT !.msg = m] \in Elements /\ [e EXCEPT !.msg = m].id = e.id
    BY DEF Elements
  <2>2. ASSUME NEW e \in Elements PROVE e.msg \o msg \in ByteSeq
    <3>1. e.msg \in ByteSeq
      BY DEF Elements
    <3> QED
      BY <3>1, ByteSeqFacts
  <2> QED
    BY <2>1, <2>2, Zenon
<1> DEFINE after(i) == IF pending[i].id = call[t].str
                       THEN [pending[i] EXCEPT !.msg = @ \o msg] ELSE pending[i]
<1>5. pending' = [i \in 1..Len(pending) |-> after(i)]
  BY DEF AppendMsg
<1>6. \A i \in 1..Len(pending) : pending[i] \in Elements
  BY <1>1
<1>7. \A i \in 1..Len(pending) : after(i) \in Elements /\ after(i).id = pending[i].id
  BY <1>4, <1>6, Zenon
<1> HIDE DEF after
<1>8. /\ pending' \in Seq(Elements) /\ Len(pending') = Len(pending)
      /\ \A i \in 1..Len(pending) : pending'[i] = after(i)
  BY <1>1, <1>5, <1>7
<1>9. \A i \in 1..Len(pending) : pending'[i].id = pending[i].id
  BY <1>7, <1>8
<1>10. Named'
  BY <1>1, <1>2, <1>8, <1>9 DEF Named
<1> QED
  BY <1>1, <1>2, <1>3, <1>8, <1>9, <1>10 DEF after

(* what push_pending changes,                                              *)
LEMMA PushPendingType ==
  ASSUME Typed, NEW t \in Threads, NEW msg \in ByteSeq, NEW done \in BOOLEAN,
         NEW binary \in BOOLEAN, PushPending(t, msg, done, binary)
  PROVE /\ raw_msg' = raw_msg /\ pushes' = pushes + 1 /\ pushes' \in Nat
        /\ pending' \in Seq(Elements) /\ Len(pending') = Len(pending) + 1 /\ Len(pending) \in Nat
        /\ \A i \in 1..Len(pending) : pending'[i] = pending[i]
        /\ pending'[Len(pending) + 1]
             = [id |-> pushes', msg |-> msg, done |-> done, binary |-> binary]
        /\ Named'
<1> DEFINE new == [id |-> pushes', msg |-> msg, done |-> done, binary |-> binary]
<1>1. pending \in Seq(Elements) /\ Named /\ pushes \in Nat /\ Len(pending) \in Nat
  BY DEF Typed, TypedLists
<1>2. pushes' = pushes + 1 /\ raw_msg' = raw_msg /\ pending' = Append(pending, new)
  BY DEF PushPending
<1>3. new \in Elements /\ new.id = pushes + 1 /\ pushes + 1 \in Nat
  BY <1>1, <1>2 DEF Elements
<1> HIDE DEF new
<1>4. /\ pending' \in Seq(Elements) /\ Len(pending') = Len(pending) + 1
      /\ \A i \in 1..Len(pending) : pending'[i] = pending[i]
      /\ pending'[Len(pending) + 1] = new
  BY <1>1, <1>2, <1>3
<1>5. \A i \in 1..Len(pending) : pending'[i].id \in 1..pushes
  BY <1>1, <1>4 DEF Named
<1>6. \A x \in 1..pushes : x \in 1..pushes + 1 /\ x # pushes + 1
  BY <1>1
<1>7. \A i \in 1..Len(pending') : i \in 1..Len(pending) \/ i = Len(pending) + 1
  BY <1>1, <1>4
<1>8. pushes + 1 \in 1..pushes + 1
  BY <1>1
<1>9. Named'
  <2>1. ASSUME NEW i \in 1..Len(pending') PROVE pending'[i].id \in 1..pushes'
    BY <1>2, <1>3, <1>4, <1>5, <1>6, <1>7, <1>8, Zenon
  <2>2. ASSUME NEW i \in 1..Len(pending'), NEW j \in 1..Len(pending'),
               pending'[i].id = pending'[j].id
        PROVE i = j
    <3>1. CASE i \in 1..Len(pending) /\ j \in 1..Len(pending)
      BY <1>1, <1>4, <2>2, <3>1 DEF Named
    <3>2. CASE i = Len(pending) + 1 /\ j \in 1..Len(pending)
      BY <1>3, <1>4, <1>5, <1>6, <2>2, <3>2, Zenon
    <3>3. CASE j = Len(pending) + 1 /\ i \in 1..Len(pending)
      BY <1>3, <1>4, <1>5, <1>6, <2>2, <3>3, Zenon
    <3> QED
      BY <1>7, <3>1, <3>2, <3>3, Zenon
  <2> QED
    BY <2>1, <2>2, Zenon DEF Named
<1> QED
  BY <1>1, <1>2, <1>3, <1>4, <1>9 DEF new

(* and that either keeps the types.                                        *)
LEMMA TypedTakeFrame ==
  ASSUME Typed, NEW t \in client.threads, NEW type \in FrameTypes, NEW msg \in ByteSeq,
         TakeFrame(t, type, msg),
         pc' \in [Threads -> States], raw_str' \in [Threads -> ByteSeq],
         UNCHANGED <<clientVars, socketVars, delivered, file>>
  PROVE Typed'
<1>1. t \in Threads
  BY ClientFacts DEF Typed, TypedClient
<1>2. call[t] \in Calls /\ call \in [Threads -> Calls] /\ call[t].str \in 0..pushes /\ pushes \in Nat
  BY <1>1 DEF Typed, TypedThreads, TypedLists
<1>3. type.done \in BOOLEAN /\ type.binary \in BOOLEAN
  BY DEF FrameTypes
<1> DEFINE mine == call[t].first \/ call[t].last_is_CONTIN
<1>0. PICK str : str = IF mine THEN call[t].str ELSE pushes'
  OBVIOUS
<1>4. /\ raw_msg' \in [Threads -> ByteSeq] /\ pending' \in Seq(Elements) /\ Named'
      /\ pushes' \in Nat /\ pushes <= pushes' /\ str \in 0..pushes'
  <2>1. CASE mine /\ AppendMsg(t, msg)
    BY <1>0, <1>1, <1>2, <2>1, AppendMsgType
  <2>2. CASE ~mine /\ PushPending(t, msg, type.done, type.binary)
    <3>1. /\ raw_msg' = raw_msg /\ pushes' = pushes + 1 /\ pushes' \in Nat
          /\ pending' \in Seq(Elements) /\ Named'
      BY <1>1, <1>3, <2>2, PushPendingType
    <3> QED
      <4>1. str = pushes'
        BY <1>0, <2>2, Zenon
      <4> QED
        BY <1>2, <3>1, <4>1 DEF Typed, TypedThreads
  <2> QED
    BY <2>1, <2>2 DEF TakeFrame
<1>5. call' = Set(call, t, After(call[t], type, str))
  BY <1>0, Zenon DEF TakeFrame, After
<1>6. str \in Nat
  BY <1>4
<1>7. PICK r \in Calls : r = After(call[t], type, str) /\ r.str = str
  BY <1>2, <1>6, CallAfter
<1>8. /\ call' \in [Threads -> Calls] /\ call'[t] = r
      /\ \A u \in Threads : u # t => call'[u] = call[u]
  BY <1>1, <1>2, <1>5, <1>7 DEF Set
<1>9. \A u \in Threads : call'[u].str \in 0..pushes'
  BY <1>2, <1>4, <1>7, <1>8 DEF Typed, TypedThreads
<1>10. TypedClient' /\ TypedSocket'
  BY DEF clientVars, socketVars, epollVars, Typed, TypedClient, TypedSocket
<1>11. TypedThreads'
  BY <1>4, <1>8, <1>9 DEF Typed, TypedThreads
<1>12. TypedLists'
  BY <1>4 DEF Typed, TypedLists
<1> QED
  BY <1>10, <1>11, <1>12 DEF Typed

(* The place after a frame,                                                *)
LEMMA PlaceAfterFrame ==
  ASSUME NEW t, NEW type, NEW msg, TakeFrame(t, type, msg)
  PROVE \E v \in {"frame", "pushed", "return"} : pc' = Set(pc, t, v)
BY DEF TakeFrame, NextFrame

(* the end of the process,                                                 *)
LEMMA TypedAbort ==
  ASSUME Typed, Abort, UNCHANGED file
  PROVE Typed'
<1>1. pc' \in [Threads -> States]
  BY DEF Abort, States
<1> QED
  BY <1>1 DEF Abort, clientVars, socketVars, epollVars, listVars, Typed, TypedClient, TypedSocket,
              TypedThreads, TypedLists, Named

(* getFrame and what is made of a frame,                                   *)
LEMMA TypedDecodeFrame ==
  ASSUME Typed, NEW t \in client.threads, DecodeFrame(t), UNCHANGED file
  PROVE Typed'
<1>1. t \in Threads /\ raw_str[t] \in ByteSeq
  BY ClientFacts DEF Typed, TypedClient, TypedThreads
<1> DEFINE frame == GetFrame(raw_str[t])
<1>2. frame.type \in FrameTypes /\ frame.msg \in ByteSeq /\ frame.rest \in ByteSeq
  BY <1>1, GetFrameIs
<1> HIDE DEF frame
<1>3. \A v \in States : Set(pc, t, v) \in [Threads -> States]
  BY <1>1, SetIs DEF Typed, TypedThreads
<1>4. CASE /\ TakeFrame(t, frame.type, frame.msg)
           /\ raw_str' = Set(raw_str, t, frame.rest)
           /\ UNCHANGED <<clientVars, socketVars, delivered>>
  <2>1. raw_str' \in [Threads -> ByteSeq]
    BY <1>1, <1>2, <1>4, SetIs DEF Typed, TypedThreads
  <2>2. pc' \in [Threads -> States]
    <3>1. PICK v \in {"frame", "pushed", "return"} : pc' = Set(pc, t, v)
      BY <1>4, PlaceAfterFrame
    <3> QED
      BY <3>1, <1>3 DEF States
  <2> QED
    BY <1>2, <1>4, <2>1, <2>2, TypedTakeFrame
<1>5. CASE /\ pc' = Set(pc, t, "more")
           /\ UNCHANGED <<clientVars, socketVars, listVars, raw_str, raw_msg, call, delivered>>
  <2>1. pc' \in [Threads -> States]
    BY <1>3, <1>5 DEF States
  <2> QED
    BY <1>5, <2>1 DEF clientVars, socketVars, epollVars, listVars, Typed, TypedClient,
                      TypedSocket, TypedThreads, TypedLists, Named
<1>6. CASE Abort
  BY <1>6, TypedAbort
<1>7. CASE Refuse(t)
  BY <1>7, TypedRefuse
<1> QED
  BY <1>4, <1>5, <1>6, <1>7 DEF DecodeFrame, frame

(* the pointer push_pending returns,                                       *)
LEMMA TypedBack ==
  ASSUME Typed, NEW t \in client.threads, Back(t), UNCHANGED file
  PROVE Typed'
<1>1. t \in Threads
  BY ClientFacts DEF Typed, TypedClient
<1>2. /\ call \in [Threads -> Calls] /\ \A u \in Threads : call[u].str \in 0..pushes
      /\ pushes \in Nat /\ pending \in Seq(Elements) /\ Named
  BY DEF Typed, TypedThreads, TypedLists
<1>3. call' \in [Threads -> Calls] /\ \A u \in Threads : call'[u].str \in 0..pushes
  <2>1. CASE pending # <<>>
    <3>1. PICK id \in 1..pushes : id = Last(pending).id
      <4>1. Len(pending) \in 1..Len(pending)
        BY <1>2, <2>1
      <4> QED
        BY <4>1, <1>2 DEF Named, Last
    <3>2. call' = [call EXCEPT ![t] = [call[t] EXCEPT !.str = id]]
      BY <2>1, <3>1 DEF Back, Set
    <3>3. [call[t] EXCEPT !.str = id] \in Calls /\ [call[t] EXCEPT !.str = id].str = id
      BY <1>1, <1>2 DEF Calls
    <3> QED
      BY <1>1, <1>2, <3>2, <3>3
  <2>2. CASE pending = <<>>
    BY <1>2, <2>2 DEF Back
  <2> QED
    BY <2>1, <2>2
<1>4. pc' \in [Threads -> States]
  BY <1>1, SetIs DEF Back, NextFrame, States, Typed, TypedThreads
<1> QED
  BY <1>3, <1>4
     DEF Back, clientVars, socketVars, epollVars, listVars, Typed, TypedClient, TypedSocket,
         TypedThreads, TypedLists, Named

(* the two calls of read_loop,                                             *)
LEMMA TypedReads ==
  ASSUME Typed, NEW t \in client.threads, Read(t) \/ ReadMore(t), UNCHANGED file
  PROVE Typed'
<1>1. <<>> \in ByteSeq /\ raw_str[t] \in ByteSeq
  BY ByteSeqFacts, ClientFacts DEF Typed, TypedClient, TypedThreads
<1>2. Receive(t, <<>>) \/ Receive(t, raw_str[t]) \/ Refuse(t)
  BY DEF Read, ReadMore
<1> QED
  BY <1>1, <1>2, TypedReceive, TypedRefuse

(* epoll_on, which arms the socket of a thread that has one,               *)
LEMMA EpollOnType ==
  ASSUME Typed, NEW has, EpollOn(has), has => conn = "open"
  PROVE /\ armed' \in BOOLEAN /\ disarming' \in BOOLEAN /\ undone' \in BOOLEAN
        /\ conn = "closed" => ~armed'
<1>1. armed' \in BOOLEAN
  BY Zenon DEF EpollOn
<1>2. disarming' \in BOOLEAN /\ undone' \in BOOLEAN
  BY DEF EpollOn, Typed, TypedSocket
<1>3. conn = "closed" => ~armed'
  BY DEF EpollOn, Typed, TypedSocket
<1> QED
  BY <1>1, <1>2, <1>3

(* and the end of more_data keep the types.                                *)
LEMMA TypedReturn ==
  ASSUME Typed, NEW t \in client.threads, Return(t), UNCHANGED file
  PROVE Typed'
<1>1. t \in Threads
  BY ClientFacts DEF Typed, TypedClient
<1>2. call[t] \in Calls /\ raw_msg[t] \in ByteSeq
  BY <1>1 DEF Typed, TypedThreads
<1>3. call[t].popped \in BOOLEAN /\ call[t].type.binary \in BOOLEAN /\ call[t].type.done \in BOOLEAN
  BY <1>2 DEF Calls, FrameTypes
<1>4. CASE /\ call' = Set(call, t, NewCall(call[t].popped))
           /\ pc' = Set(pc, t, "read")
           /\ UNCHANGED <<clientVars, socketVars, listVars, raw_str, raw_msg, delivered>>
  <2>1. call' \in [Threads -> Calls] /\ \A u \in Threads : call'[u].str \in 0..pushes
    BY <1>1, <1>3, <1>4, CallsAnew
  <2>2. pc' \in [Threads -> States]
    BY <1>1, <1>4, SetIs DEF States, Typed, TypedThreads
  <2> QED
    BY <1>4, <2>1, <2>2 DEF clientVars, socketVars, epollVars, listVars, Typed, TypedClient,
                            TypedSocket, TypedThreads, TypedLists, Named
<1>5. CASE /\ EpollOn(call[t].type.done /\ t \in owners)
           /\ Returns(t, raw_msg[t], call[t].type.binary)
           /\ UNCHANGED <<clientVars, got, conn, owners, listVars, raw_str, raw_msg, call>>
  <2>1. delivered' \in Seq(Returned) /\ pc' \in [Threads -> States]
    BY <1>1, <1>2, <1>3, <1>5, ReturnsType
  <2>2. TypedClient' /\ TypedThreads' /\ TypedLists'
    BY <1>5, <2>1 DEF clientVars, listVars, Typed, TypedClient, TypedThreads, TypedLists, Named
  <2>3. /\ armed' \in BOOLEAN /\ disarming' \in BOOLEAN /\ undone' \in BOOLEAN
        /\ conn = "closed" => ~armed'
    <3>1. t \in owners => conn = "open"
      BY DEF Typed, TypedSocket
    <3>2. PICK has : has = (call[t].type.done /\ t \in owners)
      OBVIOUS
    <3>3. EpollOn(has) /\ (has => conn = "open")
      BY <1>5, <3>1, <3>2, Zenon
    <3> QED
      BY <3>3, EpollOnType
  <2>4. TypedSocket'
    BY <1>5, <2>3 DEF clientVars, Typed, TypedSocket
  <2> QED
    BY <2>2, <2>4 DEF Typed
<1>6. CASE Refuse(t)
  BY <1>6, TypedRefuse
<1> QED
  BY <1>4, <1>5, <1>6 DEF Return

(* What the application makes of a part has its types,                     *)
LEMMA GivesPartType ==
  ASSUME Typed, NEW t \in client.threads, NEW msg \in ByteSeq, NEW done, NEW binary \in BOOLEAN,
         GivesPart(t, msg, done, binary)
  PROVE /\ delivered' \in Seq(Returned) /\ pc' \in [Threads -> States]
        /\ file' \in [Threads -> ByteSeq] /\ raw_msg' \in [Threads -> ByteSeq]
        /\ call' \in [Threads -> Calls] /\ \A u \in Threads : call'[u].str \in 0..pushes
<1>1. t \in Threads
  BY ClientFacts DEF Typed, TypedClient
<1>2. file[t] \o msg \in ByteSeq /\ <<>> \in ByteSeq
  BY <1>1, ByteSeqFacts DEF Typed, TypedThreads
<1>3. CASE /\ Returns(t, file[t] \o msg, binary)
           /\ file' = Set(file, t, <<>>)
           /\ UNCHANGED <<raw_msg, call>>
  <2>1. delivered' \in Seq(Returned) /\ pc' \in [Threads -> States]
    BY <1>1, <1>2, <1>3, ReturnsType
  <2>2. file' \in [Threads -> ByteSeq]
    BY <1>1, <1>2, <1>3, SetIs DEF Typed, TypedThreads
  <2> QED
    BY <1>3, <2>1, <2>2 DEF Typed, TypedThreads
<1>4. CASE /\ file' = Set(file, t, file[t] \o msg)
           /\ raw_msg' = Set(raw_msg, t, <<>>)
           /\ call' = Set(call, t, NewCall(TRUE))
           /\ pc' = Set(pc, t, "read")
           /\ UNCHANGED delivered
  <2>1. call' \in [Threads -> Calls] /\ \A u \in Threads : call'[u].str \in 0..pushes
    BY <1>1, <1>4, CallsAnew
  <2>2. file' \in [Threads -> ByteSeq] /\ raw_msg' \in [Threads -> ByteSeq]
    BY <1>1, <1>2, <1>4, SetIs DEF Typed, TypedThreads
  <2>3. pc' \in [Threads -> States]
    BY <1>1, <1>4, SetIs DEF States, Typed, TypedThreads
  <2> QED
    BY <1>4, <2>1, <2>2, <2>3 DEF Typed, TypedLists
<1> QED
  BY <1>3, <1>4 DEF GivesPart

(* and so has what epoll_on changes.                                       *)
LEMMA RearmType ==
  ASSUME Typed, NEW t \in client.threads, Rearm(t), conn' = conn, client' = client
  PROVE TypedSocket' /\ pc' \in [Threads -> States]
<1>1. t \in Threads
  BY ClientFacts DEF Typed, TypedClient
<1>2. pc' \in [Threads -> States]
  BY <1>1, SetIs DEF Rearm, States, Typed, TypedThreads
<1>3. /\ armed' \in BOOLEAN /\ disarming' \in BOOLEAN /\ undone' \in BOOLEAN
      /\ conn = "closed" => ~armed'
  <2>1. t \in owners => conn = "open"
    BY DEF Typed, TypedSocket
  <2>2. PICK has : has = (t \in owners)
    OBVIOUS
  <2>3. EpollOn(has) /\ (has => conn = "open")
    BY <2>1, <2>2, Zenon DEF Rearm
  <2> QED
    BY <2>3, EpollOnType
<1>4. TypedSocket'
  BY <1>3 DEF Rearm, Typed, TypedSocket
<1> QED
  BY <1>2, <1>4

(* The types are kept by partially_recv,                                   *)
LEMMA TypedPartiallyRecv ==
  ASSUME Typed, NEW t \in client.threads, PartiallyRecv(t)
  PROVE Typed'
<1>1. TypedClient'
  BY DEF PartiallyRecv, clientVars, Typed, TypedClient
<1>2. CASE /\ pending # <<>>
           /\ GivesPart(t, Head(pending).msg, Head(pending).done, Head(pending).binary)
           /\ pending' = Tail(pending)
           /\ Owns(t)
           /\ UNCHANGED epollVars
  <2>1. pushes' = pushes /\ conn' = conn /\ client' = client /\ raw_str' = raw_str
    BY DEF PartiallyRecv, clientVars
  <2>2. /\ Head(pending) = pending[1] /\ pending[1] \in Elements
        /\ pending' \in Seq(Elements) /\ Named'
    BY <1>2, <2>1, ListWithoutHead
  <2>3. Head(pending).msg \in ByteSeq /\ Head(pending).binary \in BOOLEAN
    BY <2>2 DEF Elements
  <2>4. /\ delivered' \in Seq(Returned) /\ pc' \in [Threads -> States]
        /\ file' \in [Threads -> ByteSeq] /\ raw_msg' \in [Threads -> ByteSeq]
        /\ call' \in [Threads -> Calls] /\ \A u \in Threads : call'[u].str \in 0..pushes
    BY <1>2, <2>3, GivesPartType
  <2>5. TypedThreads' /\ TypedLists'
    BY <2>1, <2>2, <2>4 DEF Typed, TypedThreads, TypedLists
  <2>6. TypedSocket'
    BY <1>2, <2>1, OwnsType DEF epollVars, Typed, TypedSocket
  <2> QED
    BY <1>1, <2>5, <2>6 DEF Typed
<1>3. CASE Rearm(t) /\ UNCHANGED <<pending, raw_msg, call, file, delivered>>
  <2>1. TypedSocket' /\ pc' \in [Threads -> States]
    BY <1>3, RearmType DEF PartiallyRecv, clientVars
  <2>2. TypedThreads' /\ TypedLists'
    BY <1>3, <2>1 DEF PartiallyRecv, Typed, TypedThreads, TypedLists, Named
  <2> QED
    BY <1>1, <2>1, <2>2 DEF Typed
<1> QED
  BY <1>2, <1>3 DEF PartiallyRecv

(* by a time-out,                                                          *)
LEMMA TypedNoMessage ==
  ASSUME Typed, NEW t \in client.threads, NoMessage(t)
  PROVE Typed'
<1>1. t \in Threads
  BY ClientFacts DEF Typed, TypedClient
<1>2. TypedClient' /\ TypedLists'
  BY DEF NoMessage, clientVars, listVars, Typed, TypedClient, TypedLists, Named
<1>3. CASE Rearm(t) /\ UNCHANGED file
  <2>1. TypedSocket' /\ pc' \in [Threads -> States]
    BY <1>3, RearmType DEF NoMessage, clientVars
  <2>2. TypedThreads'
    BY <1>3, <2>1 DEF NoMessage, listVars, Typed, TypedThreads
  <2> QED
    BY <1>2, <2>1, <2>2 DEF Typed
<1>4. CASE /\ file' = Set(file, t, <<>>)
           /\ pc' = Set(pc, t, "msg_recv")
           /\ UNCHANGED <<epollVars, owners>>
  <2>1. file' \in [Threads -> ByteSeq]
    BY <1>1, <1>4, ByteSeqFacts, SetIs DEF Typed, TypedThreads
  <2>2. pc' \in [Threads -> States]
    BY <1>1, <1>4, SetIs DEF States, Typed, TypedThreads
  <2>3. TypedThreads' /\ TypedSocket'
    BY <1>4, <2>1, <2>2
       DEF NoMessage, clientVars, epollVars, listVars, Typed, TypedThreads, TypedSocket
  <2> QED
    BY <1>2, <2>3 DEF Typed
<1> QED
  BY <1>3, <1>4 DEF NoMessage

(* by the end of more_data for a part,                                     *)
LEMMA TypedReturnPart ==
  ASSUME Typed, NEW t \in client.threads, ReturnPart(t)
  PROVE Typed'
<1>1. t \in Threads
  BY ClientFacts DEF Typed, TypedClient
<1>2. raw_msg[t] \in ByteSeq /\ call[t].type.binary \in BOOLEAN
  BY <1>1 DEF Typed, TypedThreads, Calls, FrameTypes
<1>3. CASE Refuse(t) /\ UNCHANGED file
  BY <1>3, TypedRefuse
<1>4. CASE /\ GivesPart(t, raw_msg[t], call[t].type.done \/ call[t].already_done,
                        call[t].type.binary)
           /\ UNCHANGED <<socketVars, listVars, raw_str>>
  <2>1. /\ delivered' \in Seq(Returned) /\ pc' \in [Threads -> States]
        /\ file' \in [Threads -> ByteSeq] /\ raw_msg' \in [Threads -> ByteSeq]
        /\ call' \in [Threads -> Calls] /\ \A u \in Threads : call'[u].str \in 0..pushes
    <3>1. PICK done : done = (call[t].type.done \/ call[t].already_done)
      OBVIOUS
    <3>2. GivesPart(t, raw_msg[t], done, call[t].type.binary)
      BY <1>4, <3>1, Zenon
    <3> QED
      BY <1>2, <3>2, GivesPartType
  <2>2. TypedClient' /\ TypedSocket'
    BY <1>4 DEF ReturnPart, clientVars, socketVars, epollVars, Typed, TypedClient, TypedSocket
  <2>3. TypedThreads' /\ TypedLists'
    BY <1>4, <2>1 DEF listVars, Typed, TypedThreads, TypedLists, Named
  <2> QED
    BY <2>2, <2>3 DEF Typed
<1> QED
  BY <1>3, <1>4 DEF ReturnPart

(* by its start,                                                           *)
LEMMA TypedReadPart ==
  ASSUME Typed, NEW t \in client.threads, ReadPart(t)
  PROVE Typed'
<1>1. Receive(t, <<>>) \/ Refuse(t)
  BY DEF ReadPart
<1>2. UNCHANGED file /\ <<>> \in ByteSeq
  BY ByteSeqFacts DEF ReadPart
<1> QED
  BY <1>1, <1>2, TypedReceive, TypedRefuse

(* and by an application that gives a message up.                          *)
LEMMA TypedAbandon ==
  ASSUME Typed, NEW t \in client.threads, Abandon(t)
  PROVE Typed'
<1>1. t \in Threads
  BY ClientFacts DEF Typed, TypedClient
<1>2. file' \in [Threads -> ByteSeq] /\ pc' \in [Threads -> States]
  BY <1>1, ByteSeqFacts, SetIs DEF Abandon, States, Typed, TypedThreads
<1> QED
  BY <1>2 DEF Abandon, clientVars, socketVars, epollVars, listVars, Typed, TypedClient,
              TypedSocket, TypedThreads, TypedLists, Named

(* The types hold at first,                                                *)
LEMMA TypedInit == PartialInit => Typed
<1> SUFFICES ASSUME PartialInit PROVE Typed
  OBVIOUS
<1> USE DEF PartialInit, ReaderInit
<1>1. <<>> \in ByteSeq /\ Len(<<>>) = 0
  BY ByteSeqFacts
<1>2. TypedClient
  <2>1. sent \in Seq([binary : client.binary, parts : client.parts])
    OBVIOUS
  <2>2. got \in 0..Len(stream) /\ ends \subseteq 1..Len(stream)
    BY <1>1
  <2> QED
    BY <1>1, <2>1, <2>2 DEF TypedClient
<1>3. TypedSocket
  BY DEF TypedSocket
<1>4. call \in [Threads -> Calls] /\ \A t \in Threads : call[t].str \in 0..pushes
  <2>1. NewCall(FALSE) \in Calls /\ NewCall(FALSE).str = 0
    BY NewCallType
  <2>0. 0 \in 0..pushes
    OBVIOUS
  <2>2. call = [t \in Threads |-> NewCall(FALSE)]
    OBVIOUS
  <2> QED
    BY <2>0, <2>1, <2>2, Zenon
<1>5. TypedThreads
  BY <1>1, <1>4 DEF TypedThreads, States
<1>6. TypedLists
  BY DEF TypedLists, Named
<1> QED
  BY <1>2, <1>3, <1>5, <1>6 DEF Typed

(* every step keeps them,                                                  *)
LEMMA TypedStep == Typed /\ [PartialNext]_partialVars => Typed'
<1> SUFFICES ASSUME Typed, [PartialNext]_partialVars PROVE Typed'
  OBVIOUS
<1>1. CASE Send /\ UNCHANGED file
  BY <1>1, TypedSend
<1>2. CASE Finish /\ UNCHANGED file
  BY <1>2, TypedFinish
<1>3. ASSUME NEW t \in client.threads, Works(t), UNCHANGED file PROVE Typed'
  <2>1. CASE MsgRecv(t)
    BY <1>3, <2>1, TypedMsgRecv
  <2>2. CASE Prefix(t)
    BY <1>3, <2>2, TypedPop DEF Prefix
  <2>3. CASE Take(t)
    BY <1>3, <2>3, TypedTake
  <2>4. CASE Read(t) \/ ReadMore(t)
    BY <1>3, <2>4, TypedReads
  <2>5. CASE DecodeFrame(t)
    BY <1>3, <2>5, TypedDecodeFrame
  <2>6. CASE Return(t)
    BY <1>3, <2>6, TypedReturn
  <2>7. CASE Back(t)
    BY <1>3, <2>7, TypedBack
  <2> QED
    BY <1>3, <2>1, <2>2, <2>3, <2>4, <2>5, <2>6, <2>7 DEF Works
<1>4. ASSUME NEW t \in client.threads, WorksOnParts(t) PROVE Typed'
  <2>1. CASE Take(t) /\ UNCHANGED file
    BY <2>1, TypedTake
  <2>2. CASE ReadMore(t) /\ UNCHANGED file
    BY <2>2, TypedReads
  <2>3. CASE DecodeFrame(t) /\ UNCHANGED file
    BY <2>3, TypedDecodeFrame
  <2>4. CASE Back(t) /\ UNCHANGED file
    BY <2>4, TypedBack
  <2> QED
    BY <1>4, <2>1, <2>2, <2>3, <2>4, TypedPartiallyRecv, TypedNoMessage, TypedReadPart,
       TypedReturnPart, TypedAbandon DEF WorksOnParts
<1>5. CASE UNCHANGED partialVars
  BY <1>5 DEF partialVars, readerVars, clientVars, socketVars, epollVars, listVars, Typed,
              TypedClient, TypedSocket, TypedThreads, TypedLists, Named
<1>6. CASE Disarm /\ UNCHANGED file
  BY <1>6, TypedDisarm
<1> QED
  BY <1>1, <1>2, <1>3, <1>4, <1>5, <1>6 DEF PartialNext, Serve, ServeClient

(* and so they hold always.                                                *)
LEMMA AlwaysTyped == PartialSpec => []Typed
<1>1. PartialInit => Typed
  BY TypedInit
<1>2. Typed /\ [PartialNext]_partialVars => Typed'
  BY TypedStep
<1> QED
  BY <1>1, <1>2, PTL DEF PartialSpec

(* The type invariant of the message reader. *)
THEOREM ReaderTypes == PartialSpec => []ReaderTypeOK
<1>1. Typed => ReaderTypeOK
  BY DEF Typed, TypedClient, TypedSocket, TypedThreads, States, ReaderTypeOK
<1> QED
  BY <1>1, AlwaysTyped, PTL

-----------------------------------------------------------------------------
(* The payloads of a message's frames. *)
Payloads(k, m) == [i \in 1..Len(m.parts) |-> Payload(k, m.parts[i])]

(* The parts of a message, joined, are as many bytes as it has, all its    *)
(* own.                                                                    *)
LEMMA PayloadsAre ==
  ASSUME NEW k \in Nat, NEW m, MessageOf(m)
  PROVE /\ Payloads(k, m) \in Seq(ByteSeq) /\ Len(Payloads(k, m)) = Len(m.parts)
        /\ \A i \in 1..Len(m.parts) :
             /\ Payloads(k, m)[i] = Payload(k, m.parts[i])
             /\ m.parts[i] \in Nat
             /\ Payload(k, m.parts[i]) \in ByteSeq /\ Len(Payload(k, m.parts[i])) = m.parts[i]
             /\ \A j \in 1..m.parts[i] : Payload(k, m.parts[i])[j] = KeyByte + k
        /\ \A i \in 0..Len(m.parts) : FlatTo(Payloads(k, m), i) \in ByteSeq
        /\ FlatTo(Payloads(k, m), 0) = <<>>
        /\ \A i \in 1..Len(m.parts) :
             FlatTo(Payloads(k, m), i) = FlatTo(Payloads(k, m), i - 1) \o Payload(k, m.parts[i])
        /\ Bytes(Payloads(k, m)) = FlatTo(Payloads(k, m), Len(m.parts))
<1>1. Len(m.parts) \in Nat
  BY DEF MessageOf
<1>2. \A x \in 0..125 : x \in Nat
  OBVIOUS
<1>3. ASSUME NEW i \in 1..Len(m.parts)
      PROVE /\ m.parts[i] \in Nat
            /\ Payload(k, m.parts[i]) \in ByteSeq /\ Len(Payload(k, m.parts[i])) = m.parts[i]
            /\ \A j \in 1..m.parts[i] : Payload(k, m.parts[i])[j] = KeyByte + k
  <2>1. m.parts[i] \in Nat
    BY <1>2, FrameIs, Zenon
  <2> QED
    BY <2>1, PayloadIs, Zenon
<1>4. \A i \in 1..Len(m.parts) : Payloads(k, m)[i] = Payload(k, m.parts[i])
  BY Zenon DEF Payloads
<1>5. Payloads(k, m) \in Seq(ByteSeq) /\ Len(Payloads(k, m)) = Len(m.parts)
  <2>1. Payloads(k, m) \in [1..Len(m.parts) -> ByteSeq]
    BY <1>3, Zenon DEF Payloads
  <2> QED
    BY <1>1, <2>1
<1> DEFINE s == Payloads(k, m)
<1> HIDE DEF s
<1>6. /\ \A i \in 0..Len(s) : FlatTo(s, i) \in ByteSeq
      /\ FlatTo(s, 0) = <<>>
      /\ \A i \in 1..Len(s) : FlatTo(s, i) = FlatTo(s, i - 1) \o s[i]
      /\ FlattenSeq(s) = FlatTo(s, Len(s))
  <2>1. s \in Seq(Seq(Nat))
    BY <1>5 DEF s, ByteSeq
  <2> QED
    BY <2>1, FlatFacts DEF ByteSeq
<1> QED
  BY <1>3, <1>4, <1>5, <1>6, Zenon DEF s, Bytes

(* The messages sent, and what the application should be given. *)
LEMMA SentAre ==
  ASSUME Typed, NEW k \in 1..Len(sent)
  PROVE /\ MessageOf(sent[k]) /\ k \in Nat \ {0}
        /\ Message(k) = Bytes(Payloads(k, sent[k]))
        /\ Message(k) \in ByteSeq /\ Len(Message(k)) \in Nat
<1>1. sent[k] \in [binary : client.binary, parts : client.parts]
  BY ElementOfSeq, Zenon DEF Typed, TypedClient
<1>2. MessageOf(sent[k]) /\ k \in Nat \ {0}
  BY <1>1, ClientFacts DEF Typed, TypedClient
<1>3. Message(k) = Bytes(Payloads(k, sent[k]))
  BY Zenon DEF Message, Payloads
<1>4. PICK n, m : n \in Nat /\ n = k /\ m = sent[k] /\ MessageOf(m)
  BY <1>2
<1>5. Len(m.parts) \in 0..Len(m.parts)
  BY <1>4 DEF MessageOf
<1>6. Bytes(Payloads(n, m)) \in ByteSeq
  <2>1. /\ \A i \in 0..Len(m.parts) : FlatTo(Payloads(n, m), i) \in ByteSeq
        /\ Bytes(Payloads(n, m)) = FlatTo(Payloads(n, m), Len(m.parts))
    BY <1>4, PayloadsAre
  <2> QED
    BY <1>5, <2>1, Zenon
<1>7. Message(k) \in ByteSeq
  BY <1>3, <1>4, <1>6
<1> QED
  BY <1>2, <1>3, <1>7 DEF ByteSeq

-----------------------------------------------------------------------------
(* How often a byte occurs *)

(* The places of v in s. *)
At(s, v) == {p \in 1..Len(s) : s[p] = v}

(* A byte occurs in a sequence as often as there are places at most;       *)
LEMMA AtFinite ==
  ASSUME NEW s \in ByteSeq, NEW v
  PROVE IsFiniteSet(At(s, v)) /\ Cardinality(At(s, v)) \in Nat /\ Cardinality(At(s, v)) <= Len(s)
<1>1. Len(s) \in Nat /\ 1 \in Int
  BY DEF ByteSeq
<1>2. IsFiniteSet(1..Len(s)) /\ Cardinality(1..Len(s)) = Len(s)
  BY <1>1, FS_Interval, SMTT(30)
<1>3. At(s, v) \in SUBSET (1..Len(s))
  BY DEF At
<1>4. IsFiniteSet(At(s, v)) /\ Cardinality(At(s, v)) <= Len(s)
  BY <1>2, <1>3, FS_Subset
<1> QED
  BY <1>4, FS_CardinalityType

(* where it is not, no times;                                              *)
LEMMA AtNowhere ==
  ASSUME NEW s \in ByteSeq, NEW v, \A p \in 1..Len(s) : s[p] # v
  PROVE Cardinality(At(s, v)) = 0
<1>1. At(s, v) = {}
  BY DEF At
<1> QED
  BY <1>1, FS_EmptySet

(* and in two sequences as often as in the two together.                   *)
LEMMA AtConcat ==
  ASSUME NEW a \in ByteSeq, NEW b \in ByteSeq, NEW v
  PROVE Cardinality(At(a \o b, v)) <= Cardinality(At(a, v)) + Cardinality(At(b, v))
<1> DEFINE shifted == {p \in Len(a) + 1..Len(a) + Len(b) : p - Len(a) \in At(b, v)}
           f == [p \in At(b, v) |-> Len(a) + p]
<1>1. Len(a) \in Nat /\ Len(b) \in Nat /\ Len(a \o b) = Len(a) + Len(b)
  BY DEF ByteSeq
<1>2. \A p \in 1..Len(a) + Len(b) : (a \o b)[p] = IF p <= Len(a) THEN a[p] ELSE b[p - Len(a)]
  BY DEF ByteSeq
<1>3. At(a \o b, v) \subseteq At(a, v) \union shifted
  <2>1. ASSUME NEW p \in 1..Len(a) + Len(b), (a \o b)[p] = v
        PROVE p \in At(a, v) \union shifted
    <3>1. CASE p <= Len(a)
      BY <1>1, <1>2, <2>1, <3>1 DEF At
    <3>2. CASE ~ p <= Len(a)
      <4>1. p - Len(a) \in 1..Len(b) /\ p \in Len(a) + 1..Len(a) + Len(b)
        BY <1>1, <3>2
      <4>2. b[p - Len(a)] = v
        BY <1>2, <2>1, <3>2
      <4> QED
        BY <4>1, <4>2 DEF At
    <3> QED
      BY <3>1, <3>2
  <2> QED
    BY <1>1, <2>1 DEF At
<1>4. f \in Surjection(At(b, v), shifted)
  <2>1. \A p \in At(b, v) : p \in 1..Len(b)
    BY DEF At
  <2>2. \A p \in At(b, v) : Len(a) + p \in shifted
    BY <1>1, <2>1
  <2>3. \A q \in shifted : q - Len(a) \in At(b, v) /\ Len(a) + (q - Len(a)) = q
    BY <1>1
  <2> QED
    BY <2>2, <2>3 DEF Surjection
<1>5. IsFiniteSet(shifted) /\ Cardinality(shifted) <= Cardinality(At(b, v))
  BY <1>4, AtFinite, FS_Surjection
<1> HIDE DEF shifted, f
<1>6. /\ IsFiniteSet(At(a, v)) /\ Cardinality(At(a, v)) \in Nat /\ Cardinality(At(b, v)) \in Nat
      /\ Cardinality(shifted) \in Nat
  BY <1>5, AtFinite, FS_CardinalityType
<1>7. /\ IsFiniteSet(At(a, v) \union shifted)
      /\ Cardinality(At(a, v) \union shifted) <= Cardinality(At(a, v)) + Cardinality(shifted)
  <2>1. IsFiniteSet(At(a, v) \cap shifted)
    BY <1>6, FS_Intersection
  <2>2. Cardinality(At(a, v) \cap shifted) \in Nat
    BY <2>1, FS_CardinalityType
  <2>3. /\ IsFiniteSet(At(a, v) \union shifted)
        /\ Cardinality(At(a, v) \union shifted)
             = Cardinality(At(a, v)) + Cardinality(shifted) - Cardinality(At(a, v) \cap shifted)
    BY <1>5, <1>6, FS_Union
  <2> QED
    BY <1>6, <2>2, <2>3
<1>8. Cardinality(At(a \o b, v)) <= Cardinality(At(a, v) \union shifted)
  BY <1>3, <1>7, FS_Subset
<1>9. Cardinality(At(a \o b, v)) \in Nat /\ Cardinality(At(a, v) \union shifted) \in Nat
  <2>1. a \o b \in ByteSeq
    BY ByteSeqFacts
  <2> QED
    BY <1>7, <2>1, AtFinite, FS_CardinalityType
<1> QED
  BY <1>5, <1>6, <1>7, <1>8, <1>9

(* The payload bytes of a message are found in its frames no more often    *)
(* than in the message.                                                    *)
LEMMA FramesCount ==
  ASSUME NEW k \in Nat \ {0}, NEW m, MessageOf(m)
  PROVE Cardinality(At(Bytes(Frames(k, m)), KeyByte + k)) <= Len(Bytes(Payloads(k, m)))
<1> DEFINE s == Frames(k, m)
           u == Payloads(k, m)
           n == Len(m.parts)
           v == KeyByte + k
           T == {i \in Nat : i <= n => Cardinality(At(FlatTo(s, i), v)) <= Len(FlatTo(u, i))}
<1>1. n \in Nat /\ k \in Nat
  BY FramesType
<1>2. FlatTo(s, 0) = <<>> /\ \A i \in 0..n : FlatTo(s, i) \in ByteSeq
  <2>1. s \in Seq(Seq(Nat)) /\ Len(s) = n
    BY <1>1, FramesType DEF ByteSeq
  <2> HIDE DEF s, n
  <2> QED
    BY <2>1, FlatFacts DEF ByteSeq
<1>3. \A i \in 1..n : FlatTo(s, i) = FlatTo(s, i - 1) \o s[i] /\ s[i] \in ByteSeq
  <2>1. s \in Seq(Seq(Nat)) /\ s \in Seq(ByteSeq) /\ Len(s) = n
    BY <1>1, FramesType DEF ByteSeq
  <2> HIDE DEF s, n
  <2>2. \A i \in 1..n : FlatTo(s, i) = FlatTo(s, i - 1) \o s[i]
    BY <2>1, FlatFacts, Zenon
  <2>3. \A i \in 1..n : s[i] \in ByteSeq
    BY <2>1
  <2> QED
    BY <2>2, <2>3
<1>4. /\ FlatTo(u, 0) = <<>>
      /\ \A i \in 0..n : FlatTo(u, i) \in ByteSeq
      /\ \A i \in 1..n : /\ FlatTo(u, i) = FlatTo(u, i - 1) \o Payload(k, m.parts[i])
                         /\ Payload(k, m.parts[i]) \in ByteSeq
                         /\ Len(Payload(k, m.parts[i])) = m.parts[i] /\ m.parts[i] \in Nat
      /\ Bytes(u) = FlatTo(u, n)
  BY <1>1, PayloadsAre, Zenon
<1>5. Bytes(s) = FlatTo(s, n)
  BY <1>1, FrameEnds, Zenon
<1>6. \A i \in 1..n : Cardinality(At(s[i], v)) <= m.parts[i]
  <2> SUFFICES ASSUME NEW i \in 1..n PROVE Cardinality(At(s[i], v)) <= m.parts[i]
    OBVIOUS
  <2>0. PICK a, b, p :
          /\ a \in Nat /\ b \in Nat /\ a < KeyByte /\ b < KeyByte /\ p = Payload(k, m.parts[i])
          /\ s[i] = <<a, b, KeyByte, KeyByte, KeyByte, KeyByte>> \o p
    <3>1. Lead(m, i) \in Nat /\ Lead(m, i) < KeyByte
      BY DEF Lead, KeyByte
    <3>2. m.parts[i] \in 0..125
      BY <1>1, FrameIs
    <3>3. \A x \in 0..125 : x + 128 \in Nat /\ x + 128 < KeyByte
      BY DEF KeyByte
    <3>4. m.parts[i] + 128 \in Nat /\ m.parts[i] + 128 < KeyByte
      BY <3>2, <3>3, Zenon
    <3>5. s[i] = <<Lead(m, i), m.parts[i] + 128, KeyByte, KeyByte, KeyByte, KeyByte>>
                 \o Payload(k, m.parts[i])
      BY <1>1, FrameIs, ZenonT(40)
    <3> QED
      BY <3>1, <3>4, <3>5, Zenon
  <2> DEFINE h == <<a, b, KeyByte, KeyByte, KeyByte, KeyByte>>
  <2>1. h \in ByteSeq /\ Len(h) = 6
    BY <2>0, SixBytes, Zenon
  <2>2. \A j \in 1..6 : h[j] # v
    BY <2>0, <1>1 DEF KeyByte
  <2> HIDE DEF h
  <2>3. Cardinality(At(h, v)) = 0
    BY <2>1, <2>2, AtNowhere
  <2>4. p \in ByteSeq /\ Len(p) = m.parts[i]
    BY <1>4, <2>0, Zenon
  <2>5. Cardinality(At(p, v)) <= Len(p) /\ Cardinality(At(p, v)) \in Nat
    BY <2>4, AtFinite
  <2>6. Cardinality(At(h \o p, v)) <= Cardinality(At(h, v)) + Cardinality(At(p, v))
    BY <2>1, <2>4, AtConcat
  <2>7. h \o p \in ByteSeq
    BY <2>1, <2>4, ByteSeqFacts
  <2>8. Cardinality(At(h \o p, v)) \in Nat
    BY <2>7, AtFinite
  <2>9. s[i] = h \o p
    BY <2>0 DEF h
  <2>10. Len(p) \in Nat
    BY <2>4 DEF ByteSeq
  <2>11. Cardinality(At(h \o p, v)) <= Len(p)
    BY <2>3, <2>5, <2>6, <2>8, <2>10
  <2> QED
    BY <2>4, <2>9, <2>11, Zenon
<1> HIDE DEF s, u, n, v
<1>7. 0 \in T
  <2>1. Cardinality(At(<<>>, v)) <= Len(<<>>)
    BY AtFinite, ByteSeqFacts, Zenon
  <2> QED
    BY <1>2, <1>4, <2>1
<1>8. ASSUME NEW i \in Nat, i + 1 <= n, Cardinality(At(FlatTo(s, i), v)) <= Len(FlatTo(u, i))
      PROVE Cardinality(At(FlatTo(s, i + 1), v)) <= Len(FlatTo(u, i + 1))
  <2>1. i \in 0..n /\ i + 1 \in 1..n /\ i + 1 \in 0..n /\ (i + 1) - 1 = i
    BY <1>1, <1>8
  <2>2. FlatTo(s, i + 1) = FlatTo(s, i) \o s[i + 1] /\ s[i + 1] \in ByteSeq
    BY <1>3, <2>1
  <2>3. PICK p : /\ FlatTo(u, i + 1) = FlatTo(u, i) \o p /\ p \in ByteSeq
                 /\ Cardinality(At(s[i + 1], v)) <= Len(p)
    BY <1>4, <1>6, <2>1
  <2>4. FlatTo(s, i) \in ByteSeq /\ FlatTo(u, i) \in ByteSeq
    BY <1>2, <1>4, <2>1
  <2>5. Cardinality(At(FlatTo(s, i + 1), v))
          <= Cardinality(At(FlatTo(s, i), v)) + Cardinality(At(s[i + 1], v))
    BY <2>2, <2>4, AtConcat
  <2>6. /\ Cardinality(At(FlatTo(s, i + 1), v)) \in Nat /\ Cardinality(At(FlatTo(s, i), v)) \in Nat
        /\ Cardinality(At(s[i + 1], v)) \in Nat
    BY <1>2, <2>1, <2>2, <2>4, AtFinite
  <2>7. /\ Len(FlatTo(u, i + 1)) = Len(FlatTo(u, i)) + Len(p)
        /\ Len(FlatTo(u, i)) \in Nat /\ Len(p) \in Nat
    BY <2>3, <2>4, ByteSeqFacts DEF ByteSeq
  <2> QED
    BY <1>8, <2>3, <2>5, <2>6, <2>7
<1>9. ASSUME NEW i \in T PROVE i + 1 \in T
  <2>1. i \in Nat /\ (i + 1 <= n => i <= n)
    BY <1>1
  <2> QED
    BY <1>8, <2>1
<1>10. n \in T
  <2> HIDE DEF T
  <2> QED
    BY <1>1, <1>7, <1>9, Induction
<1>11. Cardinality(At(FlatTo(s, n), v)) <= Len(FlatTo(u, n))
  BY <1>1, <1>10
<1> QED
  BY <1>4, <1>5, <1>11, Zenon DEF s, u, v

(* The bytes of message k's frames. *)
LEMMA FrameValues ==
  ASSUME NEW k \in Nat, NEW m, MessageOf(m)
  PROVE \A p \in 1..Len(Bytes(Frames(k, m))) :
          Bytes(Frames(k, m))[p] <= KeyByte \/ Bytes(Frames(k, m))[p] = KeyByte + k
<1> DEFINE S == 0..KeyByte \union {KeyByte + k}
<1>1. Len(m.parts) \in Nat
  BY DEF MessageOf
<1>2. ASSUME NEW a \in Nat, NEW b \in Nat, a < KeyByte, b < KeyByte
      PROVE <<a, b, KeyByte, KeyByte, KeyByte, KeyByte>> \in Seq(S)
  BY <1>2 DEF KeyByte
<1>3. ASSUME NEW n \in Nat PROVE Payload(k, n) \in Seq(S)
  BY DEF Payload
<1>4. \A a, b \in Seq(S) : a \o b \in Seq(S)
  <2> HIDE DEF S
  <2> QED
    OBVIOUS
<1> HIDE DEF S
<1>5. ASSUME NEW i \in 1..Len(m.parts) PROVE Frames(k, m)[i] \in Seq(S)
  <2>1. Lead(m, i) \in Nat /\ Lead(m, i) < KeyByte
    BY DEF Lead, KeyByte
  <2>2. \A x \in 0..125 : x \in Nat /\ x + 128 \in Nat /\ x + 128 < KeyByte
    BY DEF KeyByte
  <2>3. m.parts[i] \in 0..125
    BY FrameIs
  <2>4. Payload(k, m.parts[i]) \in Seq(S)
    BY <1>3, <2>2, <2>3, Zenon
  <2>5. <<Lead(m, i), m.parts[i] + 128, KeyByte, KeyByte, KeyByte, KeyByte>> \in Seq(S)
    BY <1>2, <2>1, <2>2, <2>3, Zenon
  <2>6. Frames(k, m)[i] = <<Lead(m, i), m.parts[i] + 128, KeyByte, KeyByte, KeyByte, KeyByte>>
                         \o Payload(k, m.parts[i])
    BY FrameIs, Zenon
  <2> QED
    BY <1>4, <2>4, <2>5, <2>6, Zenon
<1>6. Frames(k, m) \in Seq(Seq(S)) /\ Len(Frames(k, m)) = Len(m.parts)
  <2>1. Frames(k, m) = [i \in 1..Len(m.parts) |-> Frames(k, m)[i]]
    BY Zenon DEF Frames
  <2>2. Frames(k, m) \in [1..Len(m.parts) -> Seq(S)]
    BY <1>5, <2>1, Zenon
  <2> QED
    BY <1>1, <2>2
<1>7. Bytes(Frames(k, m)) \in Seq(S)
  <2> DEFINE s == Frames(k, m)
  <2>1. s \in Seq(Seq(S)) /\ Len(s) \in Nat
    BY <1>1, <1>6
  <2> HIDE DEF s
  <2>2. FlattenSeq(s) = FlatTo(s, Len(s)) /\ \A i \in 0..Len(s) : FlatTo(s, i) \in Seq(S)
    BY <2>1, FlatFacts, Zenon
  <2>3. Len(s) \in 0..Len(s)
    BY <2>1
  <2> QED
    BY <2>2, <2>3 DEF Bytes, s
<1>8. \A p \in 1..Len(Bytes(Frames(k, m))) : Bytes(Frames(k, m))[p] \in S
  BY <1>7, ElementOfSeq
<1>9. \A x \in S : x <= KeyByte \/ x = KeyByte + k
  BY DEF S, KeyByte
<1> QED
  BY <1>8, <1>9, Zenon

Counted ==
  /\ \A p \in 1..Len(stream) : stream[p] <= KeyByte + Len(sent)
  /\ \A k \in 1..Len(sent) : Cardinality(At(stream, KeyByte + k)) <= Len(Message(k))

(* A message sent adds its own byte as often as it has bytes, and no other *)
(* byte of a message;                                                      *)
LEMMA CountedSend ==
  ASSUME Typed, Counted, Send
  PROVE Counted'
<1>1. PICK m \in [binary : client.binary, parts : client.parts] :
        /\ sent' = Append(sent, m)
        /\ stream' = stream \o Bytes(Frames(Len(sent) + 1, m))
  BY DEF Send
<1>2. MessageOf(m)
  BY ClientFacts DEF Typed, TypedClient
<1>3. /\ sent \in Seq([binary : client.binary, parts : client.parts]) /\ stream \in ByteSeq
      /\ Len(sent) \in Nat /\ Len(stream) \in Nat
  BY DEF Typed, TypedClient, ByteSeq
<1>4. /\ Len(sent') = Len(sent) + 1 /\ sent'[Len(sent) + 1] = m
      /\ \A k \in 1..Len(sent) : sent'[k] = sent[k]
  BY <1>1, <1>3
<1>5. Len(sent) + 1 \in Nat \ {0}
  BY <1>3
<1> DEFINE b == Bytes(Frames(Len(sent) + 1, m))
<1>6. b \in ByteSeq
  BY <1>2, <1>5, FrameEnds
<1>7. \A p \in 1..Len(b) : b[p] <= KeyByte \/ b[p] = KeyByte + (Len(sent) + 1)
  BY <1>2, <1>5, FrameValues
<1>8. Cardinality(At(b, KeyByte + (Len(sent) + 1))) <= Len(Bytes(Payloads(Len(sent) + 1, m)))
  BY <1>2, <1>5, FramesCount
<1>9. stream' = stream \o b
  BY <1>1
<1> HIDE DEF b
<1>10. \A p \in 1..Len(b) : b[p] \in Nat
  BY <1>6 DEF ByteSeq
<1>11. \A p \in 1..Len(stream) : stream[p] \in Nat /\ stream[p] <= KeyByte + Len(sent)
  BY <1>3 DEF Counted, ByteSeq
<1>12. \A p \in 1..Len(stream') : stream'[p] <= KeyByte + Len(sent')
  <2>1. \A p \in 1..Len(stream') :
          stream'[p] = IF p <= Len(stream) THEN stream[p] ELSE b[p - Len(stream)]
    BY <1>3, <1>6, <1>9 DEF ByteSeq
  <2>2. Len(b) \in Nat /\ Len(stream') = Len(stream) + Len(b)
    BY <1>3, <1>6, <1>9 DEF ByteSeq
  <2> SUFFICES ASSUME NEW p \in 1..Len(stream') PROVE stream'[p] <= KeyByte + Len(sent')
    OBVIOUS
  <2>3. CASE p <= Len(stream)
    <3>1. p \in 1..Len(stream)
      BY <1>3, <2>2, <2>3
    <3>2. stream'[p] = stream[p] /\ stream[p] \in Nat /\ stream[p] <= KeyByte + Len(sent)
      BY <1>11, <2>1, <2>3, <3>1
    <3> QED
      BY <1>3, <1>4, <3>2 DEF KeyByte
  <2>4. CASE ~ p <= Len(stream)
    <3>1. p - Len(stream) \in 1..Len(b)
      BY <1>3, <2>2, <2>4
    <3>2. stream'[p] = b[p - Len(stream)]
      BY <2>1, <2>4
    <3>3. b[p - Len(stream)] \in Nat
      BY <1>10, <3>1
    <3>4. b[p - Len(stream)] <= KeyByte \/ b[p - Len(stream)] = KeyByte + (Len(sent) + 1)
      BY <1>7, <3>1
    <3> QED
      BY <1>3, <1>4, <3>2, <3>3, <3>4 DEF KeyByte
  <2> QED
    BY <2>3, <2>4
<1>13. ASSUME NEW k \in 1..Len(sent') PROVE Cardinality(At(stream', KeyByte + k)) <= Len(Message(k)')
  <2>1. Cardinality(At(stream', KeyByte + k))
          <= Cardinality(At(stream, KeyByte + k)) + Cardinality(At(b, KeyByte + k))
    BY <1>3, <1>6, <1>9, AtConcat
  <2>2. /\ Cardinality(At(stream, KeyByte + k)) \in Nat /\ Cardinality(At(b, KeyByte + k)) \in Nat
        /\ Cardinality(At(stream', KeyByte + k)) \in Nat
    <3>1. stream' \in ByteSeq
      BY <1>3, <1>6, <1>9, ByteSeqFacts
    <3> QED
      BY <1>3, <1>6, <3>1, AtFinite
  <2>3. CASE k \in 1..Len(sent)
    <3>1. \A p \in 1..Len(b) : b[p] # KeyByte + k
      BY <1>3, <1>7, <1>10, <2>3, SMTT(30) DEF KeyByte
    <3>2. Cardinality(At(b, KeyByte + k)) = 0
      BY <1>6, <3>1, AtNowhere
    <3>3. Message(k)' = Message(k)
      BY <1>4, <2>3 DEF Message
    <3>4. Cardinality(At(stream, KeyByte + k)) <= Len(Message(k))
      BY <2>3 DEF Counted
    <3>5. Cardinality(At(stream', KeyByte + k)) <= Cardinality(At(stream, KeyByte + k))
      BY <2>1, <2>2, <3>2
    <3>6. Len(Message(k)) \in Nat
      BY <2>3, SentAre
    <3> QED
      BY <2>2, <3>3, <3>4, <3>5, <3>6
  <2>4. CASE k = Len(sent) + 1
    <3>1. \A p \in 1..Len(stream) : stream[p] # KeyByte + k
      BY <1>3, <1>11, <2>4 DEF KeyByte
    <3>2. Cardinality(At(stream, KeyByte + k)) = 0
      BY <1>3, <3>1, AtNowhere
    <3>3. Message(k)' = Bytes(Payloads(k, m))
      <4>1. sent'[k] = m
        BY <1>4, <2>4
      <4>2. Message(k)' = Bytes(Payloads(k, sent'[k]))
        BY Zenon DEF Message, Payloads
      <4> QED
        BY <4>1, <4>2
    <3>4. Cardinality(At(b, KeyByte + k)) <= Len(Message(k)')
      BY <1>8, <2>4, <3>3
    <3>5. Cardinality(At(stream', KeyByte + k)) <= Cardinality(At(b, KeyByte + k))
      BY <2>1, <2>2, <3>2
    <3>6. Len(Message(k)') \in Nat
      <4>1. Bytes(Payloads(k, m)) \in ByteSeq
        <5>1. k \in Nat /\ Len(m.parts) \in 0..Len(m.parts)
          BY <1>2, <1>5, <2>4 DEF MessageOf
        <5> QED
          BY <1>2, <5>1, PayloadsAre
      <4> QED
        BY <3>3, <4>1 DEF ByteSeq
    <3> QED
      BY <2>2, <3>4, <3>5, <3>6
  <2> QED
    BY <1>3, <1>4, <2>3, <2>4
<1> QED
  BY <1>12, <1>13 DEF Counted

(* a close frame adds none.                                                *)
LEMMA CountedFinish ==
  ASSUME Typed, Counted, Finish
  PROVE Counted'
<1>1. sent' = sent /\ Len(sent) \in Nat /\ stream \in ByteSeq
  BY DEF Finish, Typed, TypedClient
<1>2. ASSUME NEW k \in 1..Len(sent) PROVE Message(k)' = Message(k)
  BY <1>1 DEF Message
<1>3. CASE stream' = stream
  BY <1>1, <1>2, <1>3 DEF Counted
<1>4. CASE stream' = stream \o ClientHeader(136, 0)
  <2>1. ClientHeader(136, 0) = <<136, 0 + 128, KeyByte, KeyByte, KeyByte, KeyByte>>
    BY ClientHeaderIs
  <2> DEFINE b == <<136, 0 + 128, KeyByte, KeyByte, KeyByte, KeyByte>>
  <2>2. b \in ByteSeq /\ Len(b) = 6 /\ \A p \in 1..Len(b) : b[p] \in Nat /\ b[p] <= KeyByte
    <3>1. b \in ByteSeq /\ Len(b) = 6
      <4>1. 136 \in Nat /\ 0 + 128 \in Nat
        OBVIOUS
      <4> QED
        BY <4>1, SixBytes, Zenon
    <3>2. \A p \in 1..6 : b[p] \in Nat /\ b[p] <= KeyByte
      BY DEF KeyByte
    <3> QED
      BY <3>1, <3>2
  <2>3. stream' = stream \o b
    BY <1>4, <2>1
  <2> HIDE DEF b
  <2>4. \A p \in 1..Len(stream') : stream'[p] <= KeyByte + Len(sent')
    <3>1. \A p \in 1..Len(stream) : stream[p] \in Nat /\ stream[p] <= KeyByte + Len(sent)
      BY <1>1 DEF Counted, ByteSeq
    <3>2. \A p \in 1..Len(stream') :
            stream'[p] = IF p <= Len(stream) THEN stream[p] ELSE b[p - Len(stream)]
      BY <1>1, <2>2, <2>3, ConcatAt
    <3>3. Len(stream') = Len(stream) + Len(b) /\ Len(stream) \in Nat /\ Len(b) \in Nat
      BY <1>1, <2>2, <2>3, ConcatAt
    <3> SUFFICES ASSUME NEW p \in 1..Len(stream') PROVE stream'[p] <= KeyByte + Len(sent')
      OBVIOUS
    <3>4. CASE p <= Len(stream)
      BY <1>1, <3>1, <3>2, <3>3, <3>4
    <3>5. CASE ~ p <= Len(stream)
      <4>1. p - Len(stream) \in 1..Len(b)
        BY <3>3, <3>5
      <4>2. stream'[p] = b[p - Len(stream)] /\ b[p - Len(stream)] \in Nat
            /\ b[p - Len(stream)] <= KeyByte
        BY <2>2, <3>2, <3>5, <4>1
      <4> QED
        BY <1>1, <4>2 DEF KeyByte
    <3> QED
      BY <3>4, <3>5
  <2>5. ASSUME NEW k \in 1..Len(sent) PROVE Cardinality(At(stream', KeyByte + k)) <= Len(Message(k))
    <3>1. \A p \in 1..Len(b) : b[p] # KeyByte + k
      BY <1>1, <2>2 DEF KeyByte
    <3>2. Cardinality(At(b, KeyByte + k)) = 0
      BY <2>2, <3>1, AtNowhere
    <3>3. Cardinality(At(stream', KeyByte + k))
            <= Cardinality(At(stream, KeyByte + k)) + Cardinality(At(b, KeyByte + k))
      BY <1>1, <2>2, <2>3, AtConcat
    <3>4. /\ Cardinality(At(stream, KeyByte + k)) \in Nat
          /\ Cardinality(At(stream', KeyByte + k)) \in Nat
      <4>1. stream' \in ByteSeq
        BY <1>1, <2>2, <2>3, ByteSeqFacts
      <4> QED
        BY <1>1, <4>1, AtFinite
    <3>5. Cardinality(At(stream, KeyByte + k)) <= Len(Message(k))
      BY DEF Counted
    <3>6. Cardinality(At(stream', KeyByte + k)) <= Cardinality(At(stream, KeyByte + k))
      BY <3>2, <3>3, <3>4
    <3>7. Len(Message(k)) \in Nat
      BY SentAre
    <3> QED
      BY <3>4, <3>5, <3>6, <3>7
  <2> QED
    BY <1>1, <1>2, <2>4, <2>5 DEF Counted
<1> QED
  BY <1>3, <1>4 DEF Finish

-----------------------------------------------------------------------------
(* Where the bytes received are *)

Places == ({"raw", "msg", "file"} \X Threads) \union ({"list", "given"} \X Nat)

(* Each byte in one of the places is one of the first g bytes of s, a      *)
(* different one each: `own' tells which place a byte of s is in.          *)
OwnedBy(own, c, s, g) ==
  \A x \in Places : \A j \in 1..Len(c[x]) :
    \E p \in 1..g : own[p] = <<x, j>> /\ s[p] = c[x][j]

Owned(c, s, g) == \E own : OwnedBy(own, c, s, g)

(* A place in two sequences one behind the other is in one of them. *)
LEMMA Halves ==
  ASSUME NEW l \in Nat, NEW m \in Nat, NEW j \in 1..l + m
  PROVE /\ j <= l => j \in 1..l
        /\ ~ j <= l => \E i \in 1..m : i = j - l /\ l + i = j
OBVIOUS

(* Places may be emptied. *)
LEMMA OwnedLess ==
  ASSUME NEW c, NEW c2, NEW s, NEW g, Owned(c, s, g),
         \A x \in Places : c2[x] = c[x] \/ c2[x] = <<>>
  PROVE Owned(c2, s, g)
<1>1. PICK own : \A x \in Places : \A j \in 1..Len(c[x]) :
                   \E p \in 1..g : own[p] = <<x, j>> /\ s[p] = c[x][j]
  BY Zenon DEF Owned, OwnedBy
<1>2. ASSUME NEW x \in Places, NEW j \in 1..Len(c2[x])
      PROVE \E p \in 1..g : own[p] = <<x, j>> /\ s[p] = c2[x][j]
  <2>1. c2[x] # <<>>
    OBVIOUS
  <2>2. c2[x] = c[x]
    BY <2>1
  <2> QED
    BY <1>1, <2>2
<1>3. OwnedBy(own, c2, s, g)
  BY <1>2, Zenon DEF OwnedBy
<1> QED
  BY <1>3 DEF Owned

(* More may be sent. *)
LEMMA OwnedLater ==
  ASSUME NEW c, NEW s, NEW s2, NEW g \in Nat, Owned(c, s, g), \A p \in 1..g : s2[p] = s[p]
  PROVE Owned(c, s2, g)
<1>1. PICK own : \A x \in Places : \A j \in 1..Len(c[x]) :
                   \E p \in 1..g : own[p] = <<x, j>> /\ s[p] = c[x][j]
  BY Zenon DEF Owned, OwnedBy
<1>2. \A x \in Places : \A j \in 1..Len(c[x]) :
        \E p \in 1..g : own[p] = <<x, j>> /\ s2[p] = c[x][j]
  BY <1>1
<1>3. OwnedBy(own, c, s2, g)
  BY <1>2, Zenon DEF OwnedBy
<1> QED
  BY <1>3 DEF Owned

(* The next bytes of s may be appended to a place. *)
LEMMA OwnedMore ==
  ASSUME NEW c, NEW c2, NEW s, NEW g \in Nat, Owned(c, s, g), NEW y \in Places,
         NEW d \in ByteSeq, c[y] \in ByteSeq, c2[y] = c[y] \o d,
         \A j \in 1..Len(d) : d[j] = s[g + j],
         \A x \in Places : x # y => c2[x] = c[x]
  PROVE Owned(c2, s, g + Len(d))
<1>1. PICK own : \A x \in Places : \A j \in 1..Len(c[x]) :
                   \E p \in 1..g : own[p] = <<x, j>> /\ s[p] = c[x][j]
  BY Zenon DEF Owned, OwnedBy
<1> DEFINE own2 == [p \in 1..g + Len(d) |-> IF p <= g THEN own[p] ELSE <<y, Len(c[y]) + (p - g)>>]
<1>2. /\ Len(d) \in Nat /\ Len(c[y]) \in Nat /\ Len(c2[y]) = Len(c[y]) + Len(d)
      /\ \A j \in 1..Len(c2[y]) : c2[y][j] = IF j <= Len(c[y]) THEN c[y][j] ELSE d[j - Len(c[y])]
  BY ConcatAt
<1>3. \A p \in 1..g : p \in 1..g + Len(d) /\ own2[p] = own[p]
  BY <1>2
<1>4. \A j \in 1..Len(d) : /\ g + j \in 1..g + Len(d)
                           /\ own2[g + j] = <<y, Len(c[y]) + j>>
  <2>1. ASSUME NEW j \in 1..Len(d) PROVE g + j \in 1..g + Len(d) /\ ~ g + j <= g /\ (g + j) - g = j
    BY <1>2
  <2> QED
    BY <2>1
<1> HIDE DEF own2
<1>5. ASSUME NEW x \in Places, NEW j \in 1..Len(c2[x])
      PROVE \E p \in 1..g + Len(d) : own2[p] = <<x, j>> /\ s[p] = c2[x][j]
  <2>1. CASE x # y
    <3>1. c2[x] = c[x]
      BY <2>1
    <3>2. PICK p \in 1..g : own[p] = <<x, j>> /\ s[p] = c[x][j]
      BY <1>1, <3>1, Zenon
    <3> QED
      BY <1>3, <3>1, <3>2, Zenon
  <2>2. CASE x = y /\ j <= Len(c[y])
    <3>0. j \in 1..Len(c[y]) + Len(d)
      BY <1>2, <2>2, Zenon
    <3>1. j \in 1..Len(c[y])
      BY <1>2, <2>2, <3>0, Halves, Zenon
    <3>2. c2[y][j] = c[y][j]
      BY <1>2, <2>2, Zenon
    <3> QED
      BY <1>1, <1>3, <2>2, <3>1, <3>2, ZenonT(40)
  <2>3. CASE x = y /\ ~ j <= Len(c[y])
    <3>0. j \in 1..Len(c[y]) + Len(d)
      BY <1>2, <2>3, Zenon
    <3>1. PICK i \in 1..Len(d) : i = j - Len(c[y]) /\ Len(c[y]) + i = j
      BY <1>2, <2>3, <3>0, Halves, Zenon
    <3>2. c2[y][j] = d[i]
      BY <1>2, <2>3, <3>1, Zenon
    <3>3. s[g + i] = d[i]
      OBVIOUS
    <3> QED
      BY <1>4, <2>3, <3>1, <3>2, <3>3, Zenon
  <2> QED
    BY <2>1, <2>2, <2>3
<1>6. OwnedBy(own2, c2, s, g + Len(d))
  BY <1>5, Zenon DEF OwnedBy
<1> QED
  BY <1>6 DEF Owned

(* Of the bytes in a place x some may be appended to another place y, and  *)
(* those behind them stay, but for some of the last.                       *)
LEMMA OwnedMoved ==
  ASSUME NEW c, NEW c2, NEW s, NEW g \in Nat, Owned(c, s, g),
         NEW x \in Places, NEW y \in Places, x # y,
         c[x] \in ByteSeq, c[y] \in ByteSeq, c2[x] \in ByteSeq,
         NEW a \in Nat, NEW b \in Nat, a <= b, b <= Len(c[x]),
         c2[y] = c[y] \o SubSeq(c[x], a + 1, b),
         Len(c2[x]) <= Len(c[x]) - b, \A j \in 1..Len(c2[x]) : c2[x][j] = c[x][b + j],
         \A z \in Places : z # x /\ z # y => c2[z] = c[z]
  PROVE Owned(c2, s, g)
<1>1. PICK own : \A z \in Places : \A j \in 1..Len(c[z]) :
                   \E p \in 1..g : own[p] = <<z, j>> /\ s[p] = c[z][j]
  BY Zenon DEF Owned, OwnedBy
<1> DEFINE d == SubSeq(c[x], a + 1, b)
           to(u) == IF u[1] # x THEN u
                    ELSE IF u[2] <= b THEN <<y, Len(c[y]) + (u[2] - a)>> ELSE <<x, u[2] - b>>
           own2 == [p \in 1..g |-> to(own[p])]
<1>2. d \in ByteSeq /\ Len(d) = b - a /\ \A j \in 1..Len(d) : d[j] = c[x][a + j]
  <2>1. a + 1 \in Nat /\ 1 <= a + 1
    OBVIOUS
  <2>2. /\ SubSeq(c[x], a + 1, b) \in ByteSeq
        /\ Len(SubSeq(c[x], a + 1, b)) = IF a + 1 <= b THEN b - (a + 1) + 1 ELSE 0
        /\ \A k \in 1..Len(SubSeq(c[x], a + 1, b)) :
             SubSeq(c[x], a + 1, b)[k] = c[x][a + 1 + k - 1]
    BY <2>1, SubSeqIs
  <2>3. Len(d) = b - a
    BY <2>2
  <2>4. ASSUME NEW j \in 1..Len(d) PROVE d[j] = c[x][a + j]
    <3>1. a + 1 + j - 1 = a + j
      BY <2>3
    <3> QED
      BY <2>2, <3>1
  <2> QED
    BY <2>2, <2>3, <2>4
<1>3. /\ Len(c[y]) \in Nat /\ Len(c[x]) \in Nat /\ Len(c2[x]) \in Nat
      /\ Len(d) \in Nat /\ Len(c2[y]) = Len(c[y]) + Len(d)
      /\ \A j \in 1..Len(c2[y]) : c2[y][j] = IF j <= Len(c[y]) THEN c[y][j] ELSE d[j - Len(c[y])]
  <2>1. c2[y] = c[y] \o d
    OBVIOUS
  <2>2. c[y] \in ByteSeq /\ d \in ByteSeq
    BY <1>2
  <2> HIDE DEF d
  <2>3. /\ Len(c[y]) \in Nat /\ Len(d) \in Nat /\ Len(c[y] \o d) = Len(c[y]) + Len(d)
        /\ \A p \in 1..Len(c[y] \o d) :
             (c[y] \o d)[p] = IF p <= Len(c[y]) THEN c[y][p] ELSE d[p - Len(c[y])]
    BY <2>2, ConcatAt, Zenon
  <2>4. \A u \in ByteSeq : Len(u) \in Nat
    BY DEF ByteSeq
  <2> QED
    BY <2>1, <2>3, <2>4, Zenon
<1> HIDE DEF d
<1>4. \A p \in 1..g : own2[p] = to(own[p])
  OBVIOUS
<1> HIDE DEF own2
<1>5. ASSUME NEW z \in Places, z # x, NEW j \in 1..Len(c[z])
      PROVE \E p \in 1..g : own2[p] = <<z, j>> /\ s[p] = c[z][j]
  <2>1. PICK p \in 1..g : own[p] = <<z, j>> /\ s[p] = c[z][j]
    BY <1>1
  <2>2. to(own[p]) = <<z, j>>
    BY <1>5, <2>1
  <2> QED
    BY <1>4, <2>1, <2>2
<1>6. ASSUME NEW i \in 1..Len(c[x]), a < i, i <= b
      PROVE \E p \in 1..g : own2[p] = <<y, Len(c[y]) + (i - a)>> /\ s[p] = c[x][i]
  <2>1. PICK p \in 1..g : own[p] = <<x, i>> /\ s[p] = c[x][i]
    BY <1>1
  <2>2. to(own[p]) = <<y, Len(c[y]) + (i - a)>>
    BY <1>6, <2>1
  <2> QED
    BY <1>4, <2>1, <2>2
<1>7. ASSUME NEW i \in 1..Len(c[x]), ~ i <= b
      PROVE \E p \in 1..g : own2[p] = <<x, i - b>> /\ s[p] = c[x][i]
  <2>1. PICK p \in 1..g : own[p] = <<x, i>> /\ s[p] = c[x][i]
    BY <1>1
  <2>2. to(own[p]) = <<x, i - b>>
    BY <1>7, <2>1
  <2> QED
    BY <1>4, <2>1, <2>2
<1> HIDE DEF to
<1>8. ASSUME NEW z \in Places, NEW j \in 1..Len(c2[z])
      PROVE \E p \in 1..g : own2[p] = <<z, j>> /\ s[p] = c2[z][j]
  <2>1. CASE z # x /\ z # y
    <3>1. c2[z] = c[z]
      BY <2>1
    <3> QED
      BY <1>5, <2>1, <3>1, ZenonT(40)
  <2>2. CASE z = y /\ j <= Len(c[y])
    <3>0. j \in 1..Len(c[y]) + Len(d) /\ j \in 1..Len(c2[y])
      BY <1>3, <2>2, Zenon
    <3>1. j \in 1..Len(c[y])
      BY <1>3, <2>2, <3>0, Halves, Zenon
    <3>2. c2[y][j] = c[y][j]
      BY <1>3, <2>2, <3>0, Zenon
    <3> QED
      BY <1>5, <2>2, <3>1, <3>2, Zenon
  <2>3. CASE z = y /\ ~ j <= Len(c[y])
    <3>0. j \in 1..Len(c[y]) + Len(d) /\ j \in 1..Len(c2[y])
      BY <1>3, <2>3, Zenon
    <3>1. PICK i \in 1..Len(d) : i = j - Len(c[y]) /\ Len(c[y]) + i = j
      BY <1>3, <2>3, <3>0, Halves, Zenon
    <3>2. a + i \in 1..Len(c[x]) /\ a < a + i /\ a + i <= b /\ Len(c[y]) + ((a + i) - a) = j
      <4>1. i \in Nat /\ i >= 1 /\ i <= b - a /\ (a + i) - a = i
        BY <1>2, SMTT(30)
      <4>2. Len(c[y]) + ((a + i) - a) = j
        BY <3>1, <4>1, Zenon
      <4>3. a + i \in 1..Len(c[x]) /\ a < a + i /\ a + i <= b
        BY <1>3, <4>1
      <4> QED
        BY <4>2, <4>3
    <3>3. c2[y][j] = c[x][a + i]
      BY <1>2, <1>3, <2>3, <3>0, <3>1, Zenon
    <3> QED
      BY <1>6, <2>3, <3>2, <3>3, Zenon
  <2>4. CASE z = x
    <3>1. b + j \in 1..Len(c[x]) /\ ~ b + j <= b /\ (b + j) - b = j
      BY <1>3, <2>4, SMTT(30)
    <3>2. c2[x][j] = c[x][b + j]
      BY <2>4
    <3> QED
      BY <1>7, <2>4, <3>1, <3>2, ZenonT(40)
  <2> QED
    BY <2>1, <2>2, <2>3, <2>4
<1>9. OwnedBy(own2, c2, s, g)
  BY <1>8, Zenon DEF OwnedBy
<1> QED
  BY <1>9 DEF Owned

(* All that is in one place may be appended to another.                    *)
LEMMA OwnedWhole ==
  ASSUME NEW c, NEW c2, NEW s, NEW g \in Nat, Owned(c, s, g),
         NEW x \in Places, NEW y \in Places, x # y, c[x] \in ByteSeq, c[y] \in ByteSeq,
         c2[y] = c[y] \o c[x], c2[x] = <<>>,
         \A z \in Places : z # x /\ z # y => c2[z] = c[z]
  PROVE Owned(c2, s, g)
<1>1. Len(c[x]) \in Nat /\ SubSeq(c[x], 0 + 1, Len(c[x])) = c[x]
  BY DEF ByteSeq
<1>2. c2[y] = c[y] \o SubSeq(c[x], 0 + 1, Len(c[x]))
  BY <1>1
<1>3. /\ c2[x] \in ByteSeq /\ Len(c2[x]) <= Len(c[x]) - Len(c[x])
      /\ \A j \in 1..Len(c2[x]) : c2[x][j] = c[x][Len(c[x]) + j]
  <2>1. c2[x] \in ByteSeq
    BY ByteSeqFacts
  <2> QED
    BY <1>1, <2>1
<1>4. 0 \in Nat /\ 0 <= Len(c[x]) /\ Len(c[x]) <= Len(c[x])
  BY <1>1
<1> HIDE DEF Owned
<1> QED
  BY <1>1, <1>2, <1>3, <1>4, OwnedMoved

(* Undecoded bytes of the socket count while more_data has them, raw_msg   *)
(* while a message is put together in it.                                  *)
Buffer(t) == IF pc[t] \in {"more", "frame", "pushed"} THEN raw_str[t] ELSE <<>>

Begun(t) ==
  IF pc[t] \in {"read", "more", "frame", "pushed", "return"} THEN raw_msg[t] ELSE <<>>

Listed(n) ==
  IF \E i \in 1..Len(pending) : pending[i].id = n
  THEN pending[CHOOSE i \in 1..Len(pending) : pending[i].id = n].msg
  ELSE <<>>

GivenAs(n) == IF n \in 1..Len(delivered) THEN delivered[n].msg ELSE <<>>

Holds ==
  [x \in Places |->
     IF x[1] = "raw" THEN Buffer(x[2])
     ELSE IF x[1] = "msg" THEN Begun(x[2])
     ELSE IF x[1] = "file" THEN file[x[2]]
     ELSE IF x[1] = "list" THEN Listed(x[2])
     ELSE GivenAs(x[2])]

(* The places,                                                             *)
LEMMA PlacesAre ==
  /\ \A t \in Threads : <<"raw", t>> \in Places /\ <<"msg", t>> \in Places /\ <<"file", t>> \in Places
  /\ \A n \in Nat : <<"list", n>> \in Places /\ <<"given", n>> \in Places
  /\ \A x \in Places : \/ \E t \in Threads : x \in {<<"raw", t>>, <<"msg", t>>, <<"file", t>>}
                       \/ \E n \in Nat : x \in {<<"list", n>>, <<"given", n>>}
BY DEF Places

(* and what is in each of them, before and after a step.                   *)
LEMMA HoldsIs ==
  /\ \A t \in Threads : /\ Holds[<<"raw", t>>] = Buffer(t) /\ Holds[<<"msg", t>>] = Begun(t)
                        /\ Holds[<<"file", t>>] = file[t]
  /\ \A n \in Nat : Holds[<<"list", n>>] = Listed(n) /\ Holds[<<"given", n>>] = GivenAs(n)
  /\ \A t \in Threads : /\ Holds'[<<"raw", t>>] = Buffer(t)' /\ Holds'[<<"msg", t>>] = Begun(t)'
                        /\ Holds'[<<"file", t>>] = file'[t]
  /\ \A n \in Nat : Holds'[<<"list", n>>] = Listed(n)' /\ Holds'[<<"given", n>>] = GivenAs(n)'
<1>1. ASSUME NEW t \in Threads
      PROVE /\ Holds[<<"raw", t>>] = Buffer(t) /\ Holds[<<"msg", t>>] = Begun(t)
            /\ Holds[<<"file", t>>] = file[t]
            /\ Holds'[<<"raw", t>>] = Buffer(t)' /\ Holds'[<<"msg", t>>] = Begun(t)'
            /\ Holds'[<<"file", t>>] = file'[t]
  BY PlacesAre DEF Holds
<1>2. ASSUME NEW n \in Nat
      PROVE /\ Holds[<<"list", n>>] = Listed(n) /\ Holds[<<"given", n>>] = GivenAs(n)
            /\ Holds'[<<"list", n>>] = Listed(n)' /\ Holds'[<<"given", n>>] = GivenAs(n)'
  BY PlacesAre DEF Holds
<1> QED
  BY <1>1, <1>2

(* A step changes what is in the places X at most. *)
LEMMA SameBut ==
  ASSUME NEW X,
         \A t \in Threads : <<"raw", t>> \in X \/ Buffer(t)' = Buffer(t),
         \A t \in Threads : <<"msg", t>> \in X \/ Begun(t)' = Begun(t),
         \A t \in Threads : <<"file", t>> \in X \/ file'[t] = file[t],
         \A n \in Nat : <<"list", n>> \in X \/ Listed(n)' = Listed(n),
         \A n \in Nat : <<"given", n>> \in X \/ GivenAs(n)' = GivenAs(n)
  PROVE \A x \in Places : x \in X \/ Holds'[x] = Holds[x]
<1> SUFFICES ASSUME NEW x \in Places, x \notin X PROVE Holds'[x] = Holds[x]
  OBVIOUS
<1>1. ASSUME NEW t \in Threads, x \in {<<"raw", t>>, <<"msg", t>>, <<"file", t>>}
      PROVE Holds'[x] = Holds[x]
  <2>1. CASE x = <<"raw", t>>
    BY <2>1, HoldsIs, Zenon
  <2>2. CASE x = <<"msg", t>>
    BY <2>2, HoldsIs, Zenon
  <2>3. CASE x = <<"file", t>>
    BY <2>3, HoldsIs, Zenon
  <2> QED
    BY <1>1, <2>1, <2>2, <2>3
<1>2. ASSUME NEW n \in Nat, x \in {<<"list", n>>, <<"given", n>>} PROVE Holds'[x] = Holds[x]
  <2>1. CASE x = <<"list", n>>
    BY <2>1, HoldsIs, Zenon
  <2>2. CASE x = <<"given", n>>
    BY <2>2, HoldsIs, Zenon
  <2> QED
    BY <1>2, <2>1, <2>2
<1> QED
  BY <1>1, <1>2, PlacesAre, Zenon

ListsAll ==
  /\ \A n : \A i \in 1..Len(pending) : pending[i].id = n => Listed(n) = pending[i].msg
  /\ \A n : (\A i \in 1..Len(pending) : pending[i].id # n) => Listed(n) = <<>>

(* The element of a number is what Listed says,                            *)
LEMMA ListedIs == Named => ListsAll
<1> SUFFICES ASSUME Named PROVE ListsAll
  OBVIOUS
<1>1. ASSUME NEW n, NEW i \in 1..Len(pending), pending[i].id = n PROVE Listed(n) = pending[i].msg
  <2>1. \A j \in 1..Len(pending) : pending[j].id = n => j = i
    BY <1>1, Zenon DEF Named
  <2>2. (CHOOSE j \in 1..Len(pending) : pending[j].id = n) = i
    BY <1>1, <2>1
  <2> QED
    BY <1>1, <2>2, Zenon DEF Listed
<1>2. ASSUME NEW n, \A i \in 1..Len(pending) : pending[i].id # n PROVE Listed(n) = <<>>
  BY <1>2, Zenon DEF Listed
<1> QED
  BY <1>1, <1>2 DEF ListsAll

(* after a step too.                                                       *)
LEMMA ListedThen == Named' => ListsAll'
BY ListedIs, PTL

(* There are bytes in every place.                                         *)
LEMMA HeldTypes ==
  ASSUME Typed
  PROVE /\ \A t \in Threads : Buffer(t) \in ByteSeq /\ Begun(t) \in ByteSeq /\ file[t] \in ByteSeq
        /\ \A n \in Nat : Listed(n) \in ByteSeq /\ GivenAs(n) \in ByteSeq
<1>1. ASSUME NEW t \in Threads
      PROVE Buffer(t) \in ByteSeq /\ Begun(t) \in ByteSeq /\ file[t] \in ByteSeq
  BY ByteSeqFacts, Zenon DEF Buffer, Begun, Typed, TypedThreads
<1>2. ASSUME NEW n \in Nat PROVE Listed(n) \in ByteSeq
  <2>1. ListsAll
    BY ListedIs DEF Typed, TypedLists
  <2>2. ASSUME NEW i \in 1..Len(pending) PROVE pending[i].msg \in ByteSeq
    <3>1. pending[i] \in Elements
      BY ElementOfSeq, Zenon DEF Typed, TypedLists
    <3> QED
      BY <3>1 DEF Elements
  <2> QED
    BY <2>1, <2>2, ByteSeqFacts, Zenon DEF ListsAll
<1>3. ASSUME NEW n \in Nat PROVE GivenAs(n) \in ByteSeq
  <2>1. ASSUME NEW i \in 1..Len(delivered) PROVE delivered[i].msg \in ByteSeq
    <3>1. delivered[i] \in Returned
      BY ElementOfSeq, Zenon DEF Typed, TypedLists
    <3> QED
      BY <3>1 DEF Returned
  <2> QED
    BY <2>1, ByteSeqFacts, Zenon DEF GivenAs
<1> QED
  BY <1>1, <1>2, <1>3

(* What happens to the places: an element leaves the list, *)
LEMMA ListedTail ==
  ASSUME Typed, Named', pending # <<>>, pending' = Tail(pending), pushes' = pushes
  PROVE /\ pending[1].id \in Nat /\ Listed(pending[1].id) = Head(pending).msg
        /\ \A n \in Nat : Listed(n)' = IF n = pending[1].id THEN <<>> ELSE Listed(n)
<1>1. /\ Len(pending) \in Nat \ {0} /\ Head(pending) = pending[1] /\ pending[1] \in Elements
      /\ Len(pending') = Len(pending) - 1
      /\ \A i \in 1..Len(pending') : pending'[i] = pending[i + 1]
  BY ListWithoutHead
<1>2. ListsAll /\ Named
  BY ListedIs DEF Typed, TypedLists
<1>3. ListsAll'
  BY ListedThen
<1>4. \A i \in 1..Len(pending') : i + 1 \in 1..Len(pending) /\ i + 1 # 1
  BY <1>1
<1>5. 1 \in 1..Len(pending)
  BY <1>1
<1>6. pending[1].id \in Nat
  BY <1>1 DEF Elements
<1>7. Listed(pending[1].id) = Head(pending).msg
  BY <1>1, <1>2, <1>5, Zenon DEF ListsAll
<1>8. \A i \in 1..Len(pending') : pending'[i].id # pending[1].id
  BY <1>1, <1>2, <1>4, <1>5, Zenon DEF Named
<1>9. PICK h : h = pending[1].id
  OBVIOUS
<1>10. Listed(h)' = <<>>
  BY <1>3, <1>8, <1>9, Zenon DEF ListsAll
<1>11. ASSUME NEW n \in Nat, n # h PROVE Listed(n)' = Listed(n)
  <2>1. CASE \E i \in 1..Len(pending') : pending'[i].id = n
    <3>1. PICK i \in 1..Len(pending') : pending'[i].id = n
      BY <2>1
    <3>2. Listed(n)' = pending'[i].msg
      BY <1>3, <3>1, Zenon DEF ListsAll
    <3>3. Listed(n) = pending[i + 1].msg
      BY <1>1, <1>2, <1>4, <3>1, Zenon DEF ListsAll
    <3> QED
      BY <1>1, <3>2, <3>3
  <2>2. CASE ~ \E i \in 1..Len(pending') : pending'[i].id = n
    <3>1. Listed(n)' = <<>>
      BY <1>3, <2>2, Zenon DEF ListsAll
    <3>2. ASSUME NEW i \in 1..Len(pending) PROVE pending[i].id # n
      <4>1. CASE i = 1
        BY <1>9, <1>11, <4>1
      <4>2. CASE i # 1
        <5>1. i - 1 \in 1..Len(pending') /\ (i - 1) + 1 = i
          BY <1>1, <4>2
        <5>2. pending'[i - 1] = pending[i]
          BY <1>1, <5>1
        <5> QED
          BY <2>2, <5>1, <5>2
      <4> QED
        BY <4>1, <4>2
    <3> QED
      BY <1>2, <3>1, <3>2, Zenon DEF ListsAll
  <2> QED
    BY <2>1, <2>2
<1> QED
  BY <1>6, <1>7, <1>9, <1>10, <1>11, Zenon

(* is put on it, *)
LEMMA ListedPush ==
  ASSUME Typed, NEW t \in Threads, NEW msg \in ByteSeq, NEW done \in BOOLEAN,
         NEW binary \in BOOLEAN, PushPending(t, msg, done, binary)
  PROVE /\ pushes + 1 \in Nat /\ Listed(pushes + 1) = <<>>
        /\ \A n \in Nat : Listed(n)' = IF n = pushes + 1 THEN msg ELSE Listed(n)
<1>1. /\ pushes' = pushes + 1 /\ pushes' \in Nat
      /\ Len(pending') = Len(pending) + 1 /\ Len(pending) \in Nat
      /\ \A i \in 1..Len(pending) : pending'[i] = pending[i]
      /\ pending'[Len(pending) + 1]
           = [id |-> pushes', msg |-> msg, done |-> done, binary |-> binary]
      /\ Named'
  BY PushPendingType
<1>2. ListsAll /\ Named /\ pushes \in Nat
  BY ListedIs DEF Typed, TypedLists
<1>3. ListsAll'
  BY <1>1, ListedThen
<1>4. PICK new \in Nat : new = pushes + 1
  BY <1>2
<1>5. \A i \in 1..Len(pending) : pending[i].id # new
  BY <1>2, <1>4 DEF Named
<1>6. Listed(new) = <<>>
  BY <1>2, <1>5, Zenon DEF ListsAll
<1>7. /\ pending'[Len(pending) + 1].id = new /\ pending'[Len(pending) + 1].msg = msg
      /\ Len(pending) + 1 \in 1..Len(pending')
  BY <1>1, <1>4
<1>8. Listed(new)' = msg
  BY <1>3, <1>7, Zenon DEF ListsAll
<1>9. \A i \in 1..Len(pending) : i \in 1..Len(pending')
  BY <1>1
<1>10. \A i \in 1..Len(pending') : i \in 1..Len(pending) \/ i = Len(pending) + 1
  BY <1>1
<1>11. ASSUME NEW n \in Nat, n # new PROVE Listed(n)' = Listed(n)
  <2>1. CASE \E i \in 1..Len(pending) : pending[i].id = n
    <3>1. PICK i \in 1..Len(pending) : pending[i].id = n
      BY <2>1
    <3>2. i \in 1..Len(pending') /\ pending'[i] = pending[i]
      BY <1>1, <1>9, Zenon
    <3>3. Listed(n)' = pending'[i].msg
      BY <1>3, <3>1, <3>2, Zenon DEF ListsAll
    <3>4. Listed(n) = pending[i].msg
      BY <1>2, <3>1, Zenon DEF ListsAll
    <3> QED
      BY <3>2, <3>3, <3>4, Zenon
  <2>2. CASE ~ \E i \in 1..Len(pending) : pending[i].id = n
    <3>1. \A i \in 1..Len(pending') : pending'[i].id # n
      BY <1>1, <1>7, <1>10, <1>11, <2>2, Zenon
    <3> QED
      BY <1>2, <1>3, <2>2, <3>1, Zenon DEF ListsAll
  <2> QED
    BY <2>1, <2>2
<1> QED
  BY <1>4, <1>6, <1>8, <1>11, Zenon

(* or grows by a continuation frame; *)
LEMMA ListedAppend ==
  ASSUME Typed, NEW t \in Threads, NEW msg \in ByteSeq, AppendMsg(t, msg)
  PROVE \A n \in Nat :
          Listed(n)' = IF n = call[t].str /\ \E i \in 1..Len(pending) : pending[i].id = n
                       THEN Listed(n) \o msg ELSE Listed(n)
<1>1. /\ Len(pending') = Len(pending)
      /\ \A i \in 1..Len(pending) :
           pending'[i] = IF pending[i].id = call[t].str
                         THEN [pending[i] EXCEPT !.msg = @ \o msg] ELSE pending[i]
      /\ \A i \in 1..Len(pending) : pending'[i].id = pending[i].id
      /\ Named'
  BY AppendMsgType
<1>2. ListsAll /\ Named
  BY ListedIs DEF Typed, TypedLists
<1>3. ListsAll'
  BY <1>1, ListedThen
<1>4. ASSUME NEW n \in Nat, NEW i \in 1..Len(pending), pending[i].id = n
      PROVE Listed(n)' = IF n = call[t].str THEN Listed(n) \o msg ELSE Listed(n)
  <2>1. Listed(n)' = pending'[i].msg
    BY <1>1, <1>3, <1>4, Zenon DEF ListsAll
  <2>2. Listed(n) = pending[i].msg
    BY <1>2, <1>4, Zenon DEF ListsAll
  <2>3. CASE n = call[t].str
    <3>1. pending[i] \in Elements
      BY ElementOfSeq, Zenon DEF Typed, TypedLists
    <3>2. \A e \in Elements : [e EXCEPT !.msg = @ \o msg].msg = e.msg \o msg
      BY DEF Elements
    <3>3. pending'[i] = [pending[i] EXCEPT !.msg = @ \o msg]
      BY <1>1, <1>4, <2>3, Zenon
    <3> QED
      BY <2>1, <2>2, <2>3, <3>1, <3>2, <3>3, Zenon
  <2>4. CASE n # call[t].str
    BY <1>1, <1>4, <2>1, <2>2, <2>4, Zenon
  <2> QED
    BY <2>3, <2>4
<1>5. ASSUME NEW n \in Nat, ~ \E i \in 1..Len(pending) : pending[i].id = n
      PROVE Listed(n)' = Listed(n)
  <2>1. \A i \in 1..Len(pending') : pending'[i].id # n
    BY <1>1, <1>5, Zenon
  <2> QED
    BY <1>2, <1>3, <1>5, <2>1, Zenon DEF ListsAll
<1> QED
  BY <1>4, <1>5, Zenon

(* and what is returned becomes a further message. *)
LEMMA GivenMore ==
  ASSUME Typed, NEW t \in Threads, NEW msg \in ByteSeq, NEW binary \in BOOLEAN,
         Returns(t, msg, binary)
  PROVE /\ Len(delivered) + 1 \in Nat /\ GivenAs(Len(delivered) + 1) = <<>>
        /\ \A n \in Nat : GivenAs(n)' = IF n = Len(delivered) + 1 THEN msg ELSE GivenAs(n)
<1>1. /\ Len(delivered) \in Nat /\ Len(delivered') = Len(delivered) + 1
      /\ \A i \in 1..Len(delivered) : delivered'[i] = delivered[i]
      /\ delivered'[Len(delivered) + 1] = [msg |-> msg, binary |-> binary]
  BY ReturnsType
<1>2. PICK new \in Nat : new = Len(delivered) + 1
  BY <1>1
<1>3. new \notin 1..Len(delivered) /\ new \in 1..Len(delivered')
  BY <1>1, <1>2
<1>4. delivered'[new].msg = msg
  BY <1>1, <1>2
<1>5. GivenAs(new) = <<>> /\ GivenAs(new)' = msg
  BY <1>3, <1>4, Zenon DEF GivenAs
<1>6. ASSUME NEW n \in Nat, n # new PROVE GivenAs(n)' = GivenAs(n)
  <2>1. n \in 1..Len(delivered') <=> n \in 1..Len(delivered)
    BY <1>1, <1>2, <1>6
  <2> QED
    BY <1>1, <2>1, Zenon DEF GivenAs
<1> QED
  BY <1>2, <1>5, <1>6, Zenon

(* Bytes, by the name of the place.                                        *)
LEMMA HoldsType ==
  ASSUME Typed PROVE \A x \in Places : Holds[x] \in ByteSeq
<1>1. ASSUME NEW t \in Threads, NEW x \in {<<"raw", t>>, <<"msg", t>>, <<"file", t>>}
      PROVE Holds[x] \in ByteSeq
  <2>1. /\ Holds[<<"raw", t>>] \in ByteSeq /\ Holds[<<"msg", t>>] \in ByteSeq
        /\ Holds[<<"file", t>>] \in ByteSeq
    BY HeldTypes, HoldsIs, Zenon
  <2> QED
    BY <2>1
<1>2. ASSUME NEW n \in Nat, NEW x \in {<<"list", n>>, <<"given", n>>} PROVE Holds[x] \in ByteSeq
  <2>1. Holds[<<"list", n>>] \in ByteSeq /\ Holds[<<"given", n>>] \in ByteSeq
    BY HeldTypes, HoldsIs, Zenon
  <2> QED
    BY <2>1
<1> QED
  BY <1>1, <1>2, PlacesAre, Zenon

Own == Owned(Holds, stream, got)

(* `Own' after a step,                                                     *)
LEMMA OwnThen == Own' <=> Owned(Holds', stream', got')
BY DEF Own

(* which empties places only,                                              *)
LEMMA OwnSame ==
  ASSUME Own, stream' = stream, got' = got,
         \A x \in Places : Holds'[x] = Holds[x] \/ Holds'[x] = <<>>
  PROVE Own'
<1>1. Owned(Holds', stream, got)
  BY OwnedLess DEF Own
<1> QED
  BY <1>1, OwnThen

(* or moves what is in one place to another.                               *)
LEMMA OwnMoved ==
  ASSUME Typed, Own, stream' = stream, got' = got,
         NEW x \in Places, NEW y \in Places, x # y, Holds[x] \in ByteSeq, Holds[y] \in ByteSeq,
         Holds'[y] = Holds[y] \o Holds[x], Holds'[x] = <<>>,
         \A z \in Places : z \in {x, y} \/ Holds'[z] = Holds[z]
  PROVE Own'
<1>1. got \in Nat
  BY DEF Typed, TypedClient, ByteSeq
<1>2. \A z \in Places : z # x /\ z # y => Holds'[z] = Holds[z]
  OBVIOUS
<1>3. Owned(Holds', stream, got)
  BY <1>1, <1>2, OwnedWhole DEF Own
<1> QED
  BY <1>3, OwnThen

(* What the client sends is in no place yet.                               *)
LEMMA OwnClient ==
  ASSUME Typed, Own, Send \/ Finish, UNCHANGED file
  PROVE Own'
<1>1. /\ got' = got /\ UNCHANGED <<pc, raw_str, raw_msg, pending, delivered, file>>
      /\ \E b \in ByteSeq : stream' = stream \o b
  <2>1. CASE Send
    <3>1. PICK m \in [binary : client.binary, parts : client.parts] :
            stream' = stream \o Bytes(Frames(Len(sent) + 1, m))
      BY <2>1 DEF Send
    <3>2. MessageOf(m) /\ Len(sent) + 1 \in Nat
      BY ClientFacts DEF Typed, TypedClient
    <3>3. Bytes(Frames(Len(sent) + 1, m)) \in ByteSeq
      BY <3>2, FrameEnds
    <3> QED
      BY <2>1, <3>1, <3>3 DEF Send, socketVars, listVars
  <2>2. CASE Finish
    <3>1. stream' = stream \o <<>> \/ stream' = stream \o ClientHeader(136, 0)
      BY <2>2, ByteSeqFacts DEF Finish, Typed, TypedClient
    <3>2. ClientHeader(136, 0) \in ByteSeq
      <4>1. ClientHeader(136, 0) = <<136, 0 + 128, KeyByte, KeyByte, KeyByte, KeyByte>>
        BY ClientHeaderIs
      <4>2. 136 \in Nat /\ 0 + 128 \in Nat
        OBVIOUS
      <4> QED
        BY <4>1, <4>2, SixBytes, Zenon
    <3> QED
      BY <2>2, <3>1, <3>2, ByteSeqFacts DEF Finish, socketVars, listVars
  <2> QED
    BY <2>1, <2>2
<1>2. Holds' = Holds
  BY <1>1 DEF Holds, Buffer, Begun, Listed, GivenAs
<1>3. \A p \in 1..got : stream'[p] = stream[p]
  <2>1. PICK b \in ByteSeq : stream' = stream \o b
    BY <1>1
  <2>2. stream \in ByteSeq /\ got \in 0..Len(stream)
    BY DEF Typed, TypedClient
  <2> QED
    BY <2>1, <2>2, ConcatAt
<1>4. got \in Nat
  BY DEF Typed, TypedClient, ByteSeq
<1>5. Owned(Holds, stream', got)
  BY <1>3, <1>4, OwnedLater DEF Own
<1> QED
  BY <1>1, <1>2, <1>5, OwnThen

(* A thread that waits has neither undecoded bytes nor part of a message. *)
LEMMA OwnPop ==
  ASSUME Typed, Typed', Own, NEW t \in Threads, pc[t] \in {"msg_recv", "wait"}, Pop(t),
         UNCHANGED file
  PROVE Own'
<1>1. /\ pending # <<>> /\ pending' = Tail(pending) /\ pushes' = pushes /\ Named'
      /\ stream' = stream /\ got' = got /\ raw_str' = raw_str
  BY DEF Pop, clientVars, Typed, TypedLists
<1>2. /\ pending[1].id \in Nat /\ Listed(pending[1].id) = Head(pending).msg
      /\ \A n \in Nat : Listed(n)' = IF n = pending[1].id THEN <<>> ELSE Listed(n)
  BY <1>1, ListedTail
<1>3. Head(pending) \in Elements
  BY <1>1, ListWithoutHead
<1>4. Head(pending).msg \in ByteSeq /\ Head(pending).binary \in BOOLEAN
  BY <1>3 DEF Elements
<1>5. PICK id \in Nat, msg \in ByteSeq : id = pending[1].id /\ msg = Head(pending).msg
  BY <1>2, <1>4
<1>6. \A n \in Nat : Listed(n)' = IF n = id THEN <<>> ELSE Listed(n)
  BY <1>2, <1>5
<1>7. Holds[<<"list", id>>] = msg /\ Holds'[<<"list", id>>] = <<>>
  BY <1>2, <1>5, <1>6, HoldsIs, Zenon
<1>8. ASSUME NEW v, pc' = Set(pc, t, v), v \notin {"more", "frame", "pushed"}
      PROVE \A u \in Threads : Buffer(u)' = Buffer(u)
  BY <1>1, <1>8 DEF Buffer, Set, Typed, TypedThreads
<1>9. CASE Returns(t, msg, Head(pending).binary) /\ UNCHANGED <<raw_msg, call>>
  <2>1. PICK n \in Nat : n = Len(delivered) + 1
    BY <1>4, <1>9, GivenMore
  <2>2. GivenAs(n) = <<>> /\ \A i \in Nat : GivenAs(i)' = IF i = n THEN msg ELSE GivenAs(i)
    BY <1>4, <1>9, <2>1, GivenMore
  <2>3. Holds[<<"given", n>>] = <<>> /\ Holds'[<<"given", n>>] = msg
    BY <2>2, HoldsIs, Zenon
  <2>4. \A u \in Threads : Begun(u)' = Begun(u)
    BY <1>9 DEF Begun, Returns, Set, Typed, TypedThreads
  <2>5. \A u \in Threads : Buffer(u)' = Buffer(u)
    BY <1>8, <1>9 DEF Returns
  <2>6. \A z \in Places : z \in {<<"list", id>>, <<"given", n>>} \/ Holds'[z] = Holds[z]
    BY <1>6, <2>2, <2>4, <2>5, SameBut
  <2>7. Holds'[<<"given", n>>] = Holds[<<"given", n>>] \o Holds[<<"list", id>>]
    BY <1>7, <2>3, ByteSeqFacts
  <2>8. /\ <<"list", id>> \in Places /\ <<"given", n>> \in Places /\ <<"list", id>> # <<"given", n>>
        /\ Holds[<<"list", id>>] \in ByteSeq /\ Holds[<<"given", n>>] \in ByteSeq
    BY <1>7, <2>3, ByteSeqFacts, PlacesAre
  <2> QED
    BY <1>1, <1>7, <2>6, <2>7, <2>8, OwnMoved
<1>10. CASE /\ raw_msg' = Set(raw_msg, t, msg)
            /\ pc' = Set(pc, t, "read")
            /\ UNCHANGED delivered
  <2>1. \A u \in Threads : Buffer(u)' = Buffer(u)
    BY <1>8, <1>10
  <2>2. \A u \in Threads : u # t => Begun(u)' = Begun(u)
    BY <1>10 DEF Begun, Set, Typed, TypedThreads
  <2>3. Begun(t) = <<>> /\ Begun(t)' = msg
    BY <1>10 DEF Begun, Set, Typed, TypedThreads
  <2>4. \A n \in Nat : GivenAs(n)' = GivenAs(n)
    BY <1>10 DEF GivenAs
  <2>5. \A z \in Places : z \in {<<"list", id>>, <<"msg", t>>} \/ Holds'[z] = Holds[z]
    BY <1>6, <2>1, <2>2, <2>4, SameBut
  <2>6. Holds[<<"msg", t>>] = <<>> /\ Holds'[<<"msg", t>>] = msg
    BY <2>3, HoldsIs, Zenon
  <2>7. Holds'[<<"msg", t>>] = Holds[<<"msg", t>>] \o Holds[<<"list", id>>]
    BY <1>7, <2>6, ByteSeqFacts
  <2>8. /\ <<"list", id>> \in Places /\ <<"msg", t>> \in Places /\ <<"list", id>> # <<"msg", t>>
        /\ Holds[<<"list", id>>] \in ByteSeq /\ Holds[<<"msg", t>>] \in ByteSeq
    BY <1>7, <2>6, ByteSeqFacts, PlacesAre
  <2> QED
    BY <1>1, <1>7, <2>5, <2>7, <2>8, OwnMoved
<1> QED
  BY <1>5, <1>9, <1>10 DEF Pop

(* A step that empties places loses bytes, and doubles none;               *)
LEMMA OwnLess ==
  ASSUME Typed, Own, stream' = stream, got' = got, delivered' = delivered,
         pending' = pending \/ pending' = <<>>,
         \A u \in Threads : /\ Buffer(u)' = Buffer(u) \/ Buffer(u)' = <<>>
                            /\ Begun(u)' = Begun(u) \/ Begun(u)' = <<>>
                            /\ file'[u] = file[u] \/ file'[u] = <<>>
  PROVE Own'
<1>1. ASSUME NEW n \in Nat PROVE Listed(n)' = Listed(n) \/ Listed(n)' = <<>>
  <2>1. CASE pending' = pending
    BY <2>1 DEF Listed
  <2>2. CASE pending' = <<>>
    BY <2>2 DEF Listed
  <2> QED
    BY <2>1, <2>2
<1>2. ASSUME NEW n \in Nat PROVE GivenAs(n)' = GivenAs(n)
  BY DEF GivenAs
<1>3. ASSUME NEW x \in Places PROVE Holds'[x] = Holds[x] \/ Holds'[x] = <<>>
  <2>1. ASSUME NEW u \in Threads, x \in {<<"raw", u>>, <<"msg", u>>, <<"file", u>>}
        PROVE Holds'[x] = Holds[x] \/ Holds'[x] = <<>>
    <3>1. CASE x = <<"raw", u>>
      BY <3>1, HoldsIs, Zenon
    <3>2. CASE x = <<"msg", u>>
      BY <3>2, HoldsIs, Zenon
    <3>3. CASE x = <<"file", u>>
      BY <3>3, HoldsIs, Zenon
    <3> QED
      BY <2>1, <3>1, <3>2, <3>3
  <2>2. ASSUME NEW n \in Nat, x \in {<<"list", n>>, <<"given", n>>}
        PROVE Holds'[x] = Holds[x] \/ Holds'[x] = <<>>
    <3>1. CASE x = <<"list", n>>
      BY <1>1, <3>1, HoldsIs, Zenon
    <3>2. CASE x = <<"given", n>>
      BY <1>2, <3>2, HoldsIs, Zenon
    <3> QED
      BY <2>2, <3>1, <3>2
  <2> QED
    BY <2>1, <2>2, PlacesAre, Zenon
<1> QED
  BY <1>3, OwnSame

(* close_socket is one,                                                    *)
LEMMA OwnRefuse ==
  ASSUME Typed, Own, NEW t \in Threads, Refuse(t), UNCHANGED file
  PROVE Own'
<1>1. ASSUME NEW u \in Threads
      PROVE /\ Buffer(u)' = Buffer(u) \/ Buffer(u)' = <<>>
            /\ Begun(u)' = Begun(u) \/ Begun(u)' = <<>>
            /\ file'[u] = file[u]
  <2>1. CASE u = t
    BY <2>1 DEF Refuse, Set, Buffer, Begun, Typed, TypedThreads
  <2>2. CASE u # t
    BY <2>2 DEF Refuse, Set, Buffer, Begun, Typed, TypedThreads
  <2> QED
    BY <2>1, <2>2
<1>2. stream' = stream /\ got' = got /\ delivered' = delivered
      /\ (pending' = pending \/ pending' = <<>>)
  BY DEF Refuse, clientVars
<1> QED
  BY <1>1, <1>2, OwnLess

(* Steps that only change where a thread is. *)
LEMMA OwnMove ==
  ASSUME Typed, Own, NEW t \in Threads, NEW v \in States, pc' = Set(pc, t, v),
         v \in {"more", "frame", "pushed"} => pc[t] \in {"more", "frame", "pushed"},
         v \in {"read", "more", "frame", "pushed", "return"} =>
           \/ pc[t] \in {"read", "more", "frame", "pushed", "return"}
           \/ raw_msg'[t] = <<>>,
         UNCHANGED <<stream, got, pending, delivered, raw_str>>,
         raw_msg' = raw_msg \/ raw_msg' = Set(raw_msg, t, <<>>),
         file' = file \/ file' = Set(file, t, <<>>)
  PROVE Own'
<1>1. ASSUME NEW u \in Threads
      PROVE /\ Buffer(u)' = Buffer(u) \/ Buffer(u)' = <<>>
            /\ Begun(u)' = Begun(u) \/ Begun(u)' = <<>>
            /\ file'[u] = file[u] \/ file'[u] = <<>>
  <2>1. CASE u = t
    <3>1. pc'[t] = v
      BY DEF Set, Typed, TypedThreads
    <3>2. Buffer(u)' = Buffer(u) \/ Buffer(u)' = <<>>
      BY <2>1, <3>1 DEF Buffer
    <3>3. raw_msg'[t] = raw_msg[t] \/ raw_msg'[t] = <<>>
      BY DEF Set, Typed, TypedThreads
    <3>4. Begun(u)' = Begun(u) \/ Begun(u)' = <<>>
      BY <2>1, <3>1, <3>3 DEF Begun
    <3>5. file'[u] = file[u] \/ file'[u] = <<>>
      BY <2>1 DEF Set, Typed, TypedThreads
    <3> QED
      BY <3>2, <3>4, <3>5
  <2>2. CASE u # t
    <3>1. pc'[u] = pc[u] /\ raw_msg'[u] = raw_msg[u] /\ file'[u] = file[u]
      BY <2>2 DEF Set, Typed, TypedThreads
    <3> QED
      BY <3>1 DEF Buffer, Begun
  <2> QED
    BY <2>1, <2>2
<1> QED
  BY <1>1, OwnLess

(* and the end of the process is another.                                  *)
LEMMA OwnAbort ==
  ASSUME Typed, Own, Abort, UNCHANGED file
  PROVE Own'
<1>1. ASSUME NEW u \in Threads
      PROVE Buffer(u)' = <<>> /\ Begun(u)' = <<>> /\ file'[u] = file[u]
  BY DEF Abort, Buffer, Begun
<1> QED
  BY <1>1, OwnLess DEF Abort, clientVars, socketVars, listVars

(* read_loop appends the next bytes of the stream to the buffer.           *)
LEMMA OwnReceive ==
  ASSUME Typed, Own, NEW t \in client.threads, NEW before \in ByteSeq, Receive(t, before),
         before = Buffer(t), pc[t] \in {"read", "more"}, UNCHANGED file
  PROVE Own'
<1>1. t \in Threads
  BY ClientFacts DEF Typed, TypedClient
<1>2. PICK d \in ByteSeq, g \in Nat :
        /\ d = SubSeq(stream, got + 1, got') /\ got' = got + Len(d) /\ g = got
        /\ \A j \in 1..Len(d) : d[j] = stream[got + j]
        /\ raw_str' = Set(raw_str, t, before \o d) /\ before \o d \in ByteSeq
  <2>1. /\ got' \in got + 1..Len(stream)
        /\ SubSeq(stream, got + 1, got') \in ByteSeq
        /\ Len(SubSeq(stream, got + 1, got')) = got' - got
        /\ \A j \in 1..got' - got : SubSeq(stream, got + 1, got')[j] = stream[got + j]
        /\ before \o SubSeq(stream, got + 1, got') \in ByteSeq
        /\ raw_str' = Set(raw_str, t, before \o SubSeq(stream, got + 1, got'))
    BY ReceiveIs
  <2>2. got \in Nat /\ got' \in Nat /\ got' = got + (got' - got)
    BY <2>1 DEF Typed, TypedClient, ByteSeq
  <2> QED
    BY <2>1, <2>2, Zenon
<1>3. /\ pc' = Set(pc, t, "frame") /\ stream' = stream
      /\ UNCHANGED <<pending, delivered, raw_msg>>
  BY DEF Receive, clientVars, listVars
<1>4. Buffer(t)' = before \o d
  <2>1. pc'[t] = "frame" /\ raw_str'[t] = before \o d
    BY <1>1, <1>2, <1>3 DEF Set, Typed, TypedThreads
  <2> QED
    BY <2>1 DEF Buffer
<1>5. ASSUME NEW u \in Threads
      PROVE /\ u # t => Buffer(u)' = Buffer(u)
            /\ Begun(u)' = Begun(u)
  BY <1>1, <1>2, <1>3 DEF Buffer, Begun, Set, Typed, TypedThreads
<1>6. \A n \in Nat : Listed(n)' = Listed(n) /\ GivenAs(n)' = GivenAs(n)
  BY <1>3 DEF Listed, GivenAs
<1>7. \A x \in Places : x \in {<<"raw", t>>} \/ Holds'[x] = Holds[x]
  BY <1>5, <1>6, SameBut
<1>8. <<"raw", t>> \in Places /\ Holds[<<"raw", t>>] = before /\ Holds'[<<"raw", t>>] = before \o d
  BY <1>1, <1>4, HoldsIs, PlacesAre, Zenon
<1>9. Owned(Holds', stream, got + Len(d))
  <2>1. PICK y \in Places : y = <<"raw", t>>
    BY <1>8
  <2>2. /\ Owned(Holds, stream, g) /\ Holds[y] \in ByteSeq /\ Holds'[y] = Holds[y] \o d
        /\ \A j \in 1..Len(d) : d[j] = stream[g + j]
        /\ \A x \in Places : x # y => Holds'[x] = Holds[x]
    BY <1>2, <1>7, <1>8, <2>1, Zenon DEF Own
  <2>3. Owned(Holds', stream, g + Len(d))
    BY <2>2, OwnedMore
  <2> QED
    BY <1>2, <2>3
<1> QED
  BY <1>2, <1>3, <1>9, OwnThen

(* The payload of a decoded frame goes from the buffer to another place.  *)
LEMMA OwnTaken ==
  ASSUME Typed, Own, NEW t \in Threads, pc[t] = "frame", stream' = stream, got' = got,
         NEW y \in Places, y # <<"raw", t>>, Holds[y] \in ByteSeq,
         NEW a \in Nat, NEW b \in Nat, a <= b, b <= Len(raw_str[t]),
         Buffer(t)' = SubSeq(raw_str[t], b + 1, Len(raw_str[t])) \/ Buffer(t)' = <<>>,
         \/ Holds'[y] = Holds[y] \o SubSeq(raw_str[t], a + 1, b)
         \/ Holds'[y] = <<>>,
         \A z \in Places : z \in {<<"raw", t>>, y} \/ Holds'[z] = Holds[z]
  PROVE Own'
<1>1. PICK x \in Places : x = <<"raw", t>>
  BY PlacesAre
<1>2. PICK raw \in ByteSeq : raw = raw_str[t]
  BY DEF Typed, TypedThreads
<1>3. Holds[x] = raw /\ Holds'[x] = Buffer(t)'
  <2>1. Buffer(t) = raw_str[t]
    BY DEF Buffer
  <2> QED
    BY <1>1, <1>2, <2>1, HoldsIs, Zenon
<1>4. PICK new : new = Holds[y] \o SubSeq(raw, a + 1, b)
  OBVIOUS
<1>5. PICK c : /\ c[y] = new
               /\ \A z \in Places : z # y => c[z] = Holds'[z]
  <2> DEFINE f(held) == [z \in Places |-> IF z = y THEN new ELSE held[z]]
  <2>1. \A held : f(held)[y] = new /\ \A z \in Places : z # y => f(held)[z] = held[z]
    OBVIOUS
  <2> HIDE DEF f
  <2>2. f(Holds')[y] = new /\ \A z \in Places : z # y => f(Holds')[z] = Holds'[z]
    BY <2>1, Zenon
  <2> QED
    BY <2>2
<1>6. /\ SubSeq(raw, b + 1, Len(raw)) \in ByteSeq
      /\ Len(SubSeq(raw, b + 1, Len(raw))) = Len(raw) - b
      /\ \A j \in 1..Len(SubSeq(raw, b + 1, Len(raw))) :
           SubSeq(raw, b + 1, Len(raw))[j] = raw[b + j]
  <2>1. b + 1 \in Nat /\ 1 <= b + 1 /\ Len(raw) \in Nat /\ Len(raw) <= Len(raw) /\ b <= Len(raw)
    BY <1>2 DEF ByteSeq
  <2>2. PICK rest : rest = SubSeq(raw, b + 1, Len(raw))
    OBVIOUS
  <2>3. /\ rest \in ByteSeq
        /\ Len(rest) = IF b + 1 <= Len(raw) THEN Len(raw) - (b + 1) + 1 ELSE 0
        /\ \A k \in 1..Len(rest) : rest[k] = raw[b + 1 + k - 1]
    BY <2>1, <2>2, SubSeqIs
  <2>4. Len(rest) = Len(raw) - b
    BY <2>1, <2>3
  <2>5. ASSUME NEW k \in 1..Len(rest) PROVE rest[k] = raw[b + k]
    <3>1. b + 1 + k - 1 = b + k
      BY <2>4
    <3> QED
      BY <2>3, <3>1
  <2> QED
    BY <2>2, <2>3, <2>4, <2>5
<1>7. c[x] = Holds'[x]
  BY <1>1, <1>5
<1>8. /\ Holds'[x] \in ByteSeq /\ Len(Holds'[x]) <= Len(raw) - b
      /\ \A j \in 1..Len(Holds'[x]) : Holds'[x][j] = raw[b + j]
  <2>1. CASE Buffer(t)' = SubSeq(raw, b + 1, Len(raw))
    <3>1. Holds'[x] = SubSeq(raw, b + 1, Len(raw))
      BY <1>3, <2>1, Zenon
    <3>2. Len(raw) - b <= Len(raw) - b
      BY <1>2 DEF ByteSeq
    <3> QED
      BY <1>6, <3>1, <3>2, Zenon
  <2>2. CASE Buffer(t)' = <<>>
    <3>1. Holds'[x] = <<>>
      BY <1>3, <2>2, Zenon
    <3>2. 0 <= Len(raw) - b
      BY <1>2 DEF ByteSeq
    <3> QED
      BY <3>1, <3>2, ByteSeqFacts
  <2> QED
    BY <1>2, <2>1, <2>2
<1>9. got \in Nat
  BY DEF Typed, TypedClient, ByteSeq
<1>10. Owned(c, stream, got)
  <2>1. PICK h : h = Holds
    OBVIOUS
  <2>2. /\ Owned(h, stream, got) /\ x # y
        /\ h[x] \in ByteSeq /\ h[y] \in ByteSeq /\ c[x] \in ByteSeq /\ b <= Len(h[x])
        /\ c[y] = h[y] \o SubSeq(h[x], a + 1, b)
        /\ Len(c[x]) <= Len(h[x]) - b
        /\ \A j \in 1..Len(c[x]) : c[x][j] = h[x][b + j]
    BY <1>1, <1>2, <1>3, <1>4, <1>5, <1>7, <1>8, <2>1, Zenon DEF Own
  <2>3. \A z \in Places : z # x /\ z # y => c[z] = h[z]
    BY <1>1, <1>5, <2>1
  <2> QED
    BY <1>9, <2>2, <2>3, OwnedMoved, Zenon
<1>11. \A z \in Places : Holds'[z] = c[z] \/ Holds'[z] = <<>>
  <2>1. ASSUME NEW z \in Places PROVE Holds'[z] = c[z] \/ Holds'[z] = <<>>
    <3>1. CASE z # y
      BY <1>5, <3>1, Zenon
    <3>2. CASE z = y
      BY <1>2, <1>4, <1>5, <3>2, Zenon
    <3> QED
      BY <3>1, <3>2
  <2> QED
    BY <2>1
<1>12. Owned(Holds', stream, got)
  <2>1. \A d : (\A z \in Places : d[z] = c[z] \/ d[z] = <<>>) => Owned(d, stream, got)
    BY <1>10, OwnedLess
  <2> QED
    BY <1>11, <2>1, Zenon
<1> QED
  BY <1>12, OwnThen

(* A frame's payload goes to raw_msg or to the pending list: str may       *)
(* dangle, and then it is lost.                                            *)
LEMMA OwnFrame ==
  ASSUME Typed, Typed', Own, NEW t \in Threads, DecodeFrame(t), UNCHANGED file
  PROVE Own'
<1>1. PICK frame : frame = GetFrame(raw_str[t])
  OBVIOUS
<1>2. PICK raw \in ByteSeq : raw = raw_str[t]
  BY DEF Typed, TypedThreads
<1>3. CASE /\ frame.type.kind = "data"
           /\ TakeFrame(t, frame.type, frame.msg)
           /\ raw_str' = Set(raw_str, t, frame.rest)
           /\ UNCHANGED <<clientVars, socketVars, delivered>>
  <2>0. PICK v \in {"frame", "pushed", "return"} : pc' = Set(pc, t, v)
    BY <1>3, PlaceAfterFrame
  <2>1. PICK a \in Nat, b \in Nat :
           /\ a <= b /\ b <= Len(raw)
           /\ frame.msg = SubSeq(raw, a + 1, b)
           /\ frame.rest = SubSeq(raw, b + 1, Len(raw))
    BY <1>1, <1>2, <1>3, GetFrameIs
  <2>2. PICK msg \in ByteSeq, type \in FrameTypes, mine \in BOOLEAN :
           /\ msg = frame.msg /\ type = frame.type
           /\ mine = (call[t].first \/ call[t].last_is_CONTIN)
    <3>1. frame.msg \in ByteSeq /\ frame.type \in FrameTypes
      BY <1>1, <1>2, GetFrameIs
    <3>2. (call[t].first \/ call[t].last_is_CONTIN) \in BOOLEAN
      OBVIOUS
    <3> QED
      BY <3>1, <3>2
  <2>3. Buffer(t)' = SubSeq(raw_str[t], b + 1, Len(raw_str[t])) \/ Buffer(t)' = <<>>
    <3>1. raw_str'[t] = frame.rest
      BY <1>3 DEF Set, Typed, TypedThreads
    <3> QED
      BY <1>2, <2>1, <3>1, Zenon DEF Buffer
  <2>4. pc[t] = "frame"
    BY DEF DecodeFrame
  <2>5. pc'[t] \in {"frame", "pushed", "return"}
    BY <2>0 DEF Set, Typed, TypedThreads
  <2>6. \A u \in Threads : u # t => Buffer(u)' = Buffer(u)
    BY <1>3, <2>0 DEF Buffer, Set, Typed, TypedThreads
  <2>7. \A u \in Threads : u # t /\ raw_msg'[u] = raw_msg[u] => Begun(u)' = Begun(u)
    BY <2>0 DEF Begun, Set, Typed, TypedThreads
  <2>8. Begun(t) = raw_msg[t] /\ Begun(t)' = raw_msg'[t]
    BY <2>4, <2>5 DEF Begun
  <2>9. /\ stream' = stream /\ got' = got /\ delivered' = delivered
        /\ \A n \in Nat : GivenAs(n)' = GivenAs(n)
    BY <1>3 DEF clientVars, socketVars, GivenAs
  <2>10. /\ \A x \in Places : Holds[x] \in ByteSeq
         /\ \A n \in Nat : <<"list", n>> # <<"raw", t>>
         /\ <<"msg", t>> # <<"raw", t>>
    BY HoldsType
  <2>11. CASE AppendMsg(t, msg) /\ call[t].str = 0
    <3>1. raw_msg' = Set(raw_msg, t, raw_msg[t] \o msg)
      BY <2>11, Zenon DEF AppendMsg
    <3>2. raw_msg'[t] = raw_msg[t] \o msg /\ \A u \in Threads : u # t => raw_msg'[u] = raw_msg[u]
      BY <3>1 DEF Set, Typed, TypedThreads
    <3>3. \A n \in Nat : Listed(n)' = Listed(n)
      <4>1. \A n \in Nat :
          Listed(n)' = IF n = call[t].str /\ \E i \in 1..Len(pending) : pending[i].id = n
                       THEN Listed(n) \o msg ELSE Listed(n)
        BY <2>11, ListedAppend
      <4>2. ~ \E i \in 1..Len(pending) : pending[i].id = 0
        BY DEF Typed, TypedLists, Named
      <4> QED
        BY <2>11, <4>1, <4>2, Zenon
    <3>4. /\ \A u \in Threads : u # t => Begun(u)' = Begun(u)
          /\ Begun(t)' = Begun(t) \o msg
      BY <2>7, <2>8, <3>2, Zenon
    <3>5. \A z \in Places : z \in {<<"raw", t>>, <<"msg", t>>} \/ Holds'[z] = Holds[z]
      BY <2>6, <2>9, <3>3, <3>4, SameBut
    <3>6. PICK y \in Places : y = <<"msg", t>>
      BY PlacesAre
    <3>7. Holds'[y] = Holds[y] \o SubSeq(raw_str[t], a + 1, b)
      BY <1>2, <2>1, <2>2, <3>4, <3>6, HoldsIs, Zenon
    <3>8. y # <<"raw", t>> /\ Holds[y] \in ByteSeq
      BY <2>10, <3>6
    <3> QED
      BY <1>2, <2>1, <2>3, <2>4, <2>9, <3>5, <3>6, <3>7, <3>8, OwnTaken
  <2>12. CASE AppendMsg(t, msg) /\ call[t].str # 0
    <3>0. PICK n \in Nat : n = call[t].str
      BY DEF Typed, TypedThreads, Calls
    <3>1. raw_msg' = raw_msg
      BY <2>12, Zenon DEF AppendMsg
    <3>2. \A u \in Threads : Begun(u)' = Begun(u)
      BY <2>7, <2>8, <3>1, Zenon
    <3>3. \A m \in Nat :
          Listed(m)' = IF m = n /\ \E i \in 1..Len(pending) : pending[i].id = m
                       THEN Listed(m) \o msg ELSE Listed(m)
      BY <2>12, <3>0, ListedAppend
    <3>4. Listed(n)' = Listed(n) \o msg \/ Listed(n)' = <<>>
      <4>1. CASE \E i \in 1..Len(pending) : pending[i].id = n
        BY <3>3, <4>1, Zenon
      <4>2. CASE ~ \E i \in 1..Len(pending) : pending[i].id = n
        <5>1. Listed(n)' = Listed(n)
          BY <3>3, <4>2, Zenon
        <5>2. Listed(n) = <<>>
          BY <4>2, Zenon DEF Listed
        <5> QED
          BY <5>1, <5>2
      <4> QED
        BY <4>1, <4>2
    <3>5. \A m \in Nat : m # n => Listed(m)' = Listed(m)
      BY <3>3, Zenon
    <3>6. PICK y \in Places : y = <<"list", n>>
      BY PlacesAre
    <3>7. \A z \in Places : z \in {<<"raw", t>>, y} \/ Holds'[z] = Holds[z]
      <4>1. \A m \in Nat : <<"list", m>> \in {<<"raw", t>>, y} \/ Listed(m)' = Listed(m)
        BY <3>5, <3>6
      <4>2. \A u \in Threads : <<"raw", u>> \in {<<"raw", t>>, y} \/ Buffer(u)' = Buffer(u)
        BY <2>6
      <4>3. \A u \in Threads : file'[u] = file[u]
        OBVIOUS
      <4>4. PICK X : X = {<<"raw", t>>, y}
        OBVIOUS
      <4> QED
        BY <2>9, <3>2, <4>1, <4>2, <4>3, <4>4, SameBut
    <3>8. Holds'[y] = Holds[y] \o SubSeq(raw_str[t], a + 1, b) \/ Holds'[y] = <<>>
      BY <1>2, <2>1, <2>2, <3>4, <3>6, HoldsIs, Zenon
    <3>9. y # <<"raw", t>> /\ Holds[y] \in ByteSeq
      BY <2>10, <3>6
    <3> QED
      BY <1>2, <2>1, <2>3, <2>4, <2>9, <3>7, <3>8, <3>9, OwnTaken
  <2>13. CASE PushPending(t, msg, type.done, type.binary)
    <3>0. PICK n \in Nat : n = pushes + 1 /\ Listed(n) = <<>>
                           /\ \A m \in Nat : Listed(m)' = IF m = n THEN msg ELSE Listed(m)
      <4>1. type.done \in BOOLEAN /\ type.binary \in BOOLEAN
        BY DEF FrameTypes
      <4>2. /\ pushes + 1 \in Nat /\ Listed(pushes + 1) = <<>>
            /\ \A m \in Nat : Listed(m)' = IF m = pushes + 1 THEN msg ELSE Listed(m)
        BY <2>13, <4>1, ListedPush
      <4>3. PICK n \in Nat : n = pushes + 1
        BY <4>2
      <4> QED
        BY <4>2, <4>3
    <3>1. raw_msg' = raw_msg
      BY <2>13 DEF PushPending
    <3>2. \A u \in Threads : Begun(u)' = Begun(u)
      BY <2>7, <2>8, <3>1, Zenon
    <3>5. \A m \in Nat : m # n => Listed(m)' = Listed(m)
      BY <3>0, Zenon
    <3>6. PICK y \in Places : y = <<"list", n>>
      BY PlacesAre
    <3>7. \A z \in Places : z \in {<<"raw", t>>, y} \/ Holds'[z] = Holds[z]
      <4>1. \A m \in Nat : <<"list", m>> \in {<<"raw", t>>, y} \/ Listed(m)' = Listed(m)
        BY <3>5, <3>6
      <4>2. \A u \in Threads : <<"raw", u>> \in {<<"raw", t>>, y} \/ Buffer(u)' = Buffer(u)
        BY <2>6
      <4>3. \A u \in Threads : file'[u] = file[u]
        OBVIOUS
      <4>4. PICK X : X = {<<"raw", t>>, y}
        OBVIOUS
      <4> QED
        BY <2>9, <3>2, <4>1, <4>2, <4>3, <4>4, SameBut
    <3>8. Holds'[y] = Holds[y] \o SubSeq(raw_str[t], a + 1, b)
      <4>1. Holds[y] = <<>> /\ Holds'[y] = msg
        BY <3>0, <3>6, HoldsIs, Zenon
      <4> QED
        BY <1>2, <2>1, <2>2, <4>1, ByteSeqFacts
    <3>9. y # <<"raw", t>> /\ Holds[y] \in ByteSeq
      BY <2>10, <3>6
    <3> QED
      BY <1>2, <2>1, <2>3, <2>4, <2>9, <3>7, <3>8, <3>9, OwnTaken
  <2>14. AppendMsg(t, msg) \/ PushPending(t, msg, type.done, type.binary)
    BY <1>3, <2>2, Zenon DEF TakeFrame
  <2> QED
    BY <2>11, <2>12, <2>13, <2>14
<1>4. CASE /\ pc' = Set(pc, t, "more")
           /\ UNCHANGED <<clientVars, socketVars, listVars, raw_str, raw_msg, call, delivered>>
  <2>1. pc[t] = "frame" /\ "more" \in States
    BY DEF DecodeFrame, States
  <2> QED
    BY <1>4, <2>1, OwnMove DEF clientVars, socketVars, listVars
<1> QED
  BY <1>1, <1>3, <1>4, OwnAbort, OwnRefuse, Zenon DEF DecodeFrame

(* A part goes from a place to the file, and with the last one the file to *)
(* the application.                                                        *)
LEMMA OwnGives ==
  ASSUME Typed, Own, NEW t \in Threads, NEW msg \in ByteSeq, NEW done \in BOOLEAN,
         NEW binary \in BOOLEAN, GivesPart(t, msg, done, binary),
         UNCHANGED <<stream, got, raw_str>>, pc[t] \in {"msg_recv", "return"},
         NEW x \in Places, x # <<"file", t>>, \A n \in Nat : x # <<"given", n>>,
         Holds[x] = msg, Holds'[x] = <<>>,
         \A n \in Nat : x = <<"list", n>> \/ Listed(n)' = Listed(n),
         x = <<"msg", t>> \/ pc[t] = "msg_recv"
  PROVE Own'
<1>0. got \in Nat /\ \A z \in Places : Holds[z] \in ByteSeq
  BY HoldsType DEF Typed, TypedClient, ByteSeq
<1>1. PICK f \in Places : f = <<"file", t>>
  BY PlacesAre
<1>2. Holds[f] = file[t] /\ file[t] \in ByteSeq /\ Holds'[f] = file'[t]
  BY <1>1, HoldsIs, HeldTypes, Zenon
<1>3. \A u \in Threads : Buffer(u)' = Buffer(u)
  BY DEF Buffer, GivesPart, Returns, Set, Typed, TypedThreads
<1>4. \A u \in Threads : x = <<"msg", u>> \/ Begun(u)' = Begun(u)
  BY DEF Begun, GivesPart, Returns, Set, Typed, TypedThreads
<1>5. \A u \in Threads : u # t => file'[u] = file[u]
  BY DEF GivesPart, Set, Typed, TypedThreads
<1>6. CASE /\ ~done
           /\ file' = Set(file, t, file[t] \o msg)
           /\ UNCHANGED delivered
  <2>1. file'[t] = file[t] \o msg
    BY <1>6 DEF Set, Typed, TypedThreads
  <2>2. \A n \in Nat : GivenAs(n)' = GivenAs(n)
    BY <1>6 DEF GivenAs
  <2>3. PICK X : X = {x, f}
    OBVIOUS
  <2>4. \A z \in Places : z \in X \/ Holds'[z] = Holds[z]
    BY <1>1, <1>3, <1>4, <1>5, <2>2, <2>3, SameBut
  <2>5. Holds'[f] = Holds[f] \o Holds[x]
    BY <1>2, <2>1
  <2> QED
    BY <1>0, <1>1, <2>3, <2>4, <2>5, OwnMoved
<1>7. CASE /\ done
           /\ Returns(t, file[t] \o msg, binary)
           /\ file' = Set(file, t, <<>>)
  <2>1. file'[t] = <<>>
    BY <1>7 DEF Set, Typed, TypedThreads
  <2>2. PICK new \in ByteSeq : new = file[t] \o msg
    BY <1>2, ByteSeqFacts
  <2>3. PICK n \in Nat : /\ GivenAs(n) = <<>>
                         /\ \A m \in Nat : GivenAs(m)' = IF m = n THEN new ELSE GivenAs(m)
    <3>1. /\ Len(delivered) + 1 \in Nat /\ GivenAs(Len(delivered) + 1) = <<>>
          /\ \A m \in Nat : GivenAs(m)' = IF m = Len(delivered) + 1 THEN new ELSE GivenAs(m)
      BY <1>7, <2>2, GivenMore
    <3>2. PICK n \in Nat : n = Len(delivered) + 1
      BY <3>1
    <3> QED
      BY <3>1, <3>2
  <2>4. PICK y \in Places : y = <<"given", n>>
    BY PlacesAre
  <2>5. Holds[y] = <<>> /\ Holds'[y] = file[t] \o msg
    BY <2>2, <2>3, <2>4, HoldsIs, Zenon
  <2>6. \A z \in Places : z \in {x, f, y} \/ Holds'[z] = Holds[z]
    <3>1. \A m \in Nat : <<"given", m>> = y \/ GivenAs(m)' = GivenAs(m)
      BY <2>3, <2>4
    <3>2. PICK X : X = {x, f, y}
      OBVIOUS
    <3> QED
      BY <1>1, <1>3, <1>4, <1>5, <3>1, <3>2, SameBut
  <2>7. x # y /\ f # y /\ x # f
    BY <1>1, <2>4
  <2>8. PICK h : h = Holds
    OBVIOUS
  <2>9. PICK c : /\ c[y] = file[t] /\ c[f] = <<>>
                 /\ \A z \in Places : z # y /\ z # f => c[z] = h[z]
    <3> DEFINE d == [z \in Places |-> IF z = y THEN file[t] ELSE IF z = f THEN <<>> ELSE h[z]]
    <3>1. /\ d[y] = file[t] /\ d[f] = <<>>
          /\ \A z \in Places : z # y /\ z # f => d[z] = h[z]
      BY <2>7
    <3> QED
      BY <3>1
  <2>10. Owned(c, stream, got)
    <3>1. c[y] = h[y] \o h[f] /\ c[f] = <<>>
      BY <1>2, <2>5, <2>8, <2>9, ByteSeqFacts
    <3>2. \A z \in Places : z # f /\ z # y => c[z] = h[z]
      BY <2>9
    <3>3. Owned(h, stream, got) /\ h[f] \in ByteSeq /\ h[y] \in ByteSeq
      BY <1>0, <2>8 DEF Own
    <3> QED
      BY <1>0, <2>7, <3>1, <3>2, <3>3, OwnedWhole
  <2>11. Owned(Holds', stream, got)
    <3>1. PICK h2 : h2 = Holds'
      OBVIOUS
    <3>2. c[x] = msg
      BY <2>7, <2>8, <2>9
    <3>3. h2[y] = c[y] \o c[x] /\ h2[x] = <<>> /\ c[x] \in ByteSeq /\ c[y] \in ByteSeq
      BY <1>2, <2>5, <2>9, <3>1, <3>2
    <3>4. \A z \in Places : z # x /\ z # y => h2[z] = c[z]
      <4>1. ASSUME NEW z \in Places, z # x, z # y PROVE h2[z] = c[z]
        <5>1. CASE z = f
          BY <1>2, <2>1, <2>9, <3>1, <5>1, Zenon
        <5>2. CASE z # f
          BY <2>6, <2>8, <2>9, <3>1, <4>1, <5>2
        <5> QED
          BY <5>1, <5>2
      <4> QED
        BY <4>1
    <3>5. Owned(h2, stream, got)
      BY <1>0, <2>7, <2>10, <3>3, <3>4, OwnedWhole
    <3> QED
      BY <3>1, <3>5
  <2> QED
    BY <2>11, OwnThen
<1> QED
  BY <1>6, <1>7 DEF GivesPart

(* raw_msg goes to the application.                                        *)
LEMMA OwnReturned ==
  ASSUME Typed, Own, NEW t \in Threads, NEW binary \in BOOLEAN,
         Returns(t, raw_msg[t], binary), pc[t] = "return",
         UNCHANGED <<stream, got, raw_str, raw_msg, pending, file>>
  PROVE Own'
<1>0. PICK msg \in ByteSeq : msg = raw_msg[t]
  BY DEF Typed, TypedThreads
<1>1. PICK n \in Nat : /\ GivenAs(n) = <<>>
                       /\ \A m \in Nat : GivenAs(m)' = IF m = n THEN msg ELSE GivenAs(m)
  <2>1. /\ Len(delivered) + 1 \in Nat /\ GivenAs(Len(delivered) + 1) = <<>>
        /\ \A m \in Nat : GivenAs(m)' = IF m = Len(delivered) + 1 THEN msg ELSE GivenAs(m)
    BY <1>0, GivenMore
  <2>2. PICK n \in Nat : n = Len(delivered) + 1
    BY <2>1
  <2> QED
    BY <2>1, <2>2
<1>2. PICK x \in Places, y \in Places : x = <<"msg", t>> /\ y = <<"given", n>>
  BY PlacesAre
<1>3. Begun(t) = msg /\ Begun(t)' = <<>>
  BY <1>0 DEF Begun, Returns, Set, Typed, TypedThreads
<1>4. Holds[x] = msg /\ Holds'[x] = <<>> /\ Holds[y] = <<>> /\ Holds'[y] = msg
  BY <1>1, <1>2, <1>3, HoldsIs, Zenon
<1>5. \A u \in Threads : Buffer(u)' = Buffer(u) /\ (u # t => Begun(u)' = Begun(u))
  BY DEF Buffer, Begun, Returns, Set, Typed, TypedThreads
<1>6. \A m \in Nat : Listed(m)' = Listed(m)
  BY DEF Listed
<1>7. \A z \in Places : z \in {x, y} \/ Holds'[z] = Holds[z]
  <2>1. PICK X : X = {x, y}
    OBVIOUS
  <2> QED
    BY <1>1, <1>2, <1>5, <1>6, <2>1, SameBut
<1>8. Holds'[y] = Holds[y] \o Holds[x] /\ x # y /\ Holds[x] \in ByteSeq /\ Holds[y] \in ByteSeq
  BY <1>2, <1>4, ByteSeqFacts
<1> QED
  BY <1>4, <1>7, <1>8, OwnMoved

(* No step of msg_recv doubles a byte,                                     *)
LEMMA OwnWorks ==
  ASSUME Typed, Typed', Own, NEW t \in client.threads, Works(t), UNCHANGED file
  PROVE Own'
<1>0. t \in Threads
  BY ClientFacts DEF Typed, TypedClient
<1>1. CASE MsgRecv(t)
  <2>1. CASE Pop(t)
    BY <1>0, <1>1, <2>1, OwnPop DEF MsgRecv
  <2>2. CASE /\ pc' = Set(pc, t, "wait")
             /\ UNCHANGED <<clientVars, got, conn, epollVars, listVars, raw_str, raw_msg, call,
                            delivered>>
    BY <1>0, <2>2, OwnMove DEF clientVars, listVars, States
  <2> QED
    BY <1>1, <2>1, <2>2 DEF MsgRecv
<1>2. CASE Prefix(t)
  BY <1>0, <1>2, OwnPop DEF Prefix
<1>3. CASE Take(t)
  <2>1. "read" \in States /\ raw_msg' = Set(raw_msg, t, <<>>) /\ raw_msg'[t] = <<>>
    BY <1>0, <1>3 DEF Take, States, Set, Typed, TypedThreads
  <2> QED
    BY <1>0, <1>3, <2>1, OwnMove DEF Take, clientVars, listVars
<1>4. CASE Read(t)
  <2>1. Buffer(t) = <<>> /\ pc[t] = "read"
    BY <1>4 DEF Read, Buffer
  <2> QED
    BY <1>0, <1>4, <2>1, ByteSeqFacts, OwnReceive, OwnRefuse DEF Read
<1>5. CASE ReadMore(t)
  <2>1. Buffer(t) = raw_str[t] /\ raw_str[t] \in ByteSeq /\ pc[t] = "more"
    BY <1>0, <1>5 DEF ReadMore, Buffer, Typed, TypedThreads
  <2> QED
    BY <1>0, <1>5, <2>1, OwnReceive, OwnRefuse DEF ReadMore
<1>6. CASE DecodeFrame(t)
  BY <1>0, <1>6, OwnFrame
<1>7. CASE Return(t)
  <2>0. pc[t] = "return" /\ call[t].type.binary \in BOOLEAN
    BY <1>0, <1>7 DEF Return, Typed, TypedThreads, Calls, FrameTypes
  <2>1. CASE /\ pc' = Set(pc, t, "read")
             /\ UNCHANGED <<clientVars, socketVars, listVars, raw_str, raw_msg, delivered>>
    BY <1>0, <2>0, <2>1, OwnMove DEF clientVars, socketVars, listVars, States
  <2>2. CASE /\ Returns(t, raw_msg[t], call[t].type.binary)
             /\ UNCHANGED <<clientVars, got, conn, owners, listVars, raw_str, raw_msg, call>>
    BY <1>0, <2>0, <2>2, OwnReturned DEF clientVars, listVars
  <2>3. CASE Refuse(t)
    BY <1>0, <2>3, OwnRefuse
  <2> QED
    BY <1>7, <2>1, <2>2, <2>3 DEF Return
<1>8. CASE Back(t)
  <2>1. pc[t] = "pushed" /\ \E v \in {"frame", "return"} : pc' = Set(pc, t, v)
    BY <1>8 DEF Back, NextFrame
  <2> QED
    BY <1>0, <1>8, <2>1, OwnMove DEF Back, clientVars, socketVars, listVars, States
<1> QED
  BY <1>1, <1>2, <1>3, <1>4, <1>5, <1>6, <1>7, <1>8 DEF Works

(* none of partially_recv,                                                 *)
LEMMA OwnPartiallyRecv ==
  ASSUME Typed, Typed', Own, NEW t \in client.threads, PartiallyRecv(t)
  PROVE Own'
<1>0. t \in Threads
  BY ClientFacts DEF Typed, TypedClient
<1>1. /\ pc[t] = "msg_recv"
      /\ UNCHANGED <<clientVars, got, conn, pushes, raw_str>>
  BY DEF PartiallyRecv
<1>2. CASE /\ pending # <<>>
           /\ LET m == Head(pending) IN GivesPart(t, m.msg, m.done, m.binary)
           /\ pending' = Tail(pending)
  <2>1. /\ pending[1].id \in Nat /\ Listed(pending[1].id) = Head(pending).msg
        /\ \A n \in Nat : Listed(n)' = IF n = pending[1].id THEN <<>> ELSE Listed(n)
    BY <1>1, <1>2, ListedTail DEF Typed, TypedLists
  <2>2. Head(pending) \in Elements
    <3>1. pending # <<>> /\ pending' = Tail(pending) /\ pushes' = pushes
      BY <1>1, <1>2
    <3> QED
      BY <3>1, ListWithoutHead
  <2>3. PICK id \in Nat, msg \in ByteSeq, done \in BOOLEAN, binary \in BOOLEAN :
          /\ id = pending[1].id /\ msg = Head(pending).msg /\ done = Head(pending).done
          /\ binary = Head(pending).binary
    BY <2>1, <2>2 DEF Elements
  <2>4. PICK x \in Places : x = <<"list", id>>
    BY PlacesAre
  <2>5. Listed(id) = msg /\ \A n \in Nat : Listed(n)' = IF n = id THEN <<>> ELSE Listed(n)
    BY <2>1, <2>3
  <2>6. Holds[x] = msg /\ Holds'[x] = <<>>
    BY <2>4, <2>5, HoldsIs, Zenon
  <2>7. \A n \in Nat : x = <<"list", n>> \/ Listed(n)' = Listed(n)
    BY <2>4, <2>5
  <2>8. x # <<"file", t>> /\ \A n \in Nat : x # <<"given", n>>
    BY <2>4
  <2>9. GivesPart(t, msg, done, binary)
    BY <1>2, <2>3
  <2> QED
    BY <1>0, <1>1, <2>6, <2>7, <2>8, <2>9, OwnGives DEF clientVars
<1>3. CASE /\ Rearm(t)
           /\ UNCHANGED <<pending, raw_msg, call, file, delivered>>
  BY <1>0, <1>1, <1>3, OwnMove DEF Rearm, clientVars, States
<1> QED
  BY <1>2, <1>3 DEF PartiallyRecv

(* none of more_data when it returns a part,                               *)
LEMMA OwnReturnPart ==
  ASSUME Typed, Own, NEW t \in client.threads, ReturnPart(t)
  PROVE Own'
<1>0. t \in Threads
  BY ClientFacts DEF Typed, TypedClient
<1>1. pc[t] = "return" /\ UNCHANGED clientVars
  BY DEF ReturnPart
<1>2. CASE Refuse(t) /\ UNCHANGED file
  BY <1>0, <1>2, OwnRefuse
<1>3. CASE /\ GivesPart(t, raw_msg[t], call[t].type.done \/ call[t].already_done,
                        call[t].type.binary)
           /\ UNCHANGED <<socketVars, listVars, raw_str>>
  <2>1. call[t] \in Calls
    BY <1>0 DEF Typed, TypedThreads
  <2>2. PICK msg \in ByteSeq, done \in BOOLEAN, binary \in BOOLEAN :
          /\ msg = raw_msg[t] /\ done = (call[t].type.done \/ call[t].already_done)
          /\ binary = call[t].type.binary
    <3>1. call[t].type.binary \in BOOLEAN
      BY <2>1 DEF Calls, FrameTypes
    <3>2. (call[t].type.done \/ call[t].already_done) \in BOOLEAN
      OBVIOUS
    <3>3. raw_msg[t] \in ByteSeq
      BY <1>0 DEF Typed, TypedThreads
    <3> QED
      BY <3>1, <3>2, <3>3
  <2>3. GivesPart(t, msg, done, binary)
    BY <1>3, <2>2, Zenon
  <2>4. PICK x \in Places : x = <<"msg", t>>
    BY <1>0, PlacesAre
  <2>5. Begun(t) = msg
    BY <1>1, <2>2 DEF Begun
  <2>6. Begun(t)' = <<>>
    <3>1. pc'[t] = "msg_recv" \/ raw_msg'[t] = <<>>
      BY <1>0, <2>3 DEF GivesPart, Returns, Set, Typed, TypedThreads
    <3> QED
      BY <3>1 DEF Begun
  <2>7. Holds[x] = msg /\ Holds'[x] = <<>>
    BY <1>0, <2>4, <2>5, <2>6, HoldsIs, Zenon
  <2>8. \A n \in Nat : x = <<"list", n>> \/ Listed(n)' = Listed(n)
    BY <1>3 DEF listVars, Listed
  <2>9. x # <<"file", t>> /\ \A n \in Nat : x # <<"given", n>>
    BY <2>4
  <2> QED
    BY <1>0, <1>1, <1>3, <2>3, <2>4, <2>7, <2>8, <2>9, OwnGives DEF clientVars, socketVars
<1> QED
  BY <1>2, <1>3 DEF ReturnPart

(* no time-out,                                                            *)
LEMMA OwnNoMessage ==
  ASSUME Typed, Own, NEW t \in client.threads, NoMessage(t)
  PROVE Own'
<1>0. t \in Threads
  BY ClientFacts DEF Typed, TypedClient
<1>1. UNCHANGED <<clientVars, got, conn, listVars, raw_str, raw_msg, call, delivered>>
  BY DEF NoMessage
<1>2. CASE Rearm(t) /\ UNCHANGED file
  BY <1>0, <1>1, <1>2, OwnMove DEF Rearm, clientVars, listVars, States
<1>3. CASE file' = Set(file, t, <<>>) /\ pc' = Set(pc, t, "msg_recv")
  BY <1>0, <1>1, <1>3, OwnMove DEF clientVars, listVars, States
<1> QED
  BY <1>2, <1>3 DEF NoMessage

(* and no step at all.                                                     *)
LEMMA OwnStep == Typed /\ Typed' /\ Own /\ [PartialNext]_partialVars => Own'
<1> SUFFICES ASSUME Typed, Typed', Own, [PartialNext]_partialVars PROVE Own'
  OBVIOUS
<1>1. CASE Send /\ UNCHANGED file
  BY <1>1, OwnClient
<1>2. CASE Finish /\ UNCHANGED file
  BY <1>2, OwnClient
<1>3. ASSUME NEW t \in client.threads, Works(t), UNCHANGED file PROVE Own'
  BY <1>3, OwnWorks
<1>4. ASSUME NEW t \in client.threads, WorksOnParts(t) PROVE Own'
  <2>0. t \in Threads
    BY ClientFacts DEF Typed, TypedClient
  <2>1. CASE PartiallyRecv(t)
    BY <2>1, OwnPartiallyRecv
  <2>2. CASE NoMessage(t)
    BY <2>2, OwnNoMessage
  <2>3. CASE ReadPart(t)
    <3>1. Buffer(t) = <<>> /\ pc[t] = "read"
      BY <2>3 DEF ReadPart, Buffer
    <3> QED
      BY <2>0, <2>3, <3>1, ByteSeqFacts, OwnReceive, OwnRefuse DEF ReadPart
  <2>4. CASE ReturnPart(t)
    BY <2>4, OwnReturnPart
  <2>5. CASE Abandon(t)
    BY <2>0, <2>5, OwnMove DEF Abandon, clientVars, socketVars, listVars, States
  <2>6. CASE Take(t) /\ UNCHANGED file
    BY <2>6, OwnWorks DEF Works
  <2>7. CASE ReadMore(t) /\ UNCHANGED file
    BY <2>7, OwnWorks DEF Works
  <2>8. CASE DecodeFrame(t) /\ UNCHANGED file
    BY <2>8, OwnWorks DEF Works
  <2>9. CASE Back(t) /\ UNCHANGED file
    BY <2>9, OwnWorks DEF Works
  <2> QED
    BY <1>4, <2>1, <2>2, <2>3, <2>4, <2>5, <2>6, <2>7, <2>8, <2>9 DEF WorksOnParts
<1>5. CASE UNCHANGED partialVars
  <2>1. ASSUME NEW u \in Threads
        PROVE Buffer(u)' = Buffer(u) /\ Begun(u)' = Begun(u) /\ file'[u] = file[u]
    BY <1>5 DEF partialVars, readerVars, Buffer, Begun
  <2> QED
    BY <1>5, <2>1, OwnLess DEF partialVars, readerVars, clientVars, socketVars, listVars
<1>6. CASE Disarm /\ UNCHANGED file
  <2>1. ASSUME NEW u \in Threads
        PROVE Buffer(u)' = Buffer(u) /\ Begun(u)' = Begun(u) /\ file'[u] = file[u]
    BY <1>6 DEF Disarm, Buffer, Begun
  <2> QED
    BY <1>6, <2>1, OwnLess DEF Disarm, clientVars, listVars
<1> QED
  BY <1>1, <1>2, <1>3, <1>4, <1>5, <1>6 DEF PartialNext, Serve, ServeClient

(* At first there is nothing in any place.                                 *)
LEMMA OwnInit == PartialInit => Own
<1> SUFFICES ASSUME PartialInit PROVE Own
  OBVIOUS
<1>1. /\ \A t \in Threads : Buffer(t) = <<>> /\ Begun(t) = <<>> /\ file[t] = <<>>
      /\ \A n \in Nat : Listed(n) = <<>> /\ GivenAs(n) = <<>>
  BY DEF PartialInit, ReaderInit, Buffer, Begun, Listed, GivenAs
<1>2. ASSUME NEW x \in Places PROVE Holds[x] = <<>>
  <2>1. ASSUME NEW t \in Threads, x \in {<<"raw", t>>, <<"msg", t>>, <<"file", t>>}
        PROVE Holds[x] = <<>>
    <3>1. /\ Holds[<<"raw", t>>] = <<>> /\ Holds[<<"msg", t>>] = <<>>
          /\ Holds[<<"file", t>>] = <<>>
      BY <1>1, HoldsIs, Zenon
    <3> QED
      BY <2>1, <3>1
  <2>2. ASSUME NEW n \in Nat, x \in {<<"list", n>>, <<"given", n>>} PROVE Holds[x] = <<>>
    <3>1. Holds[<<"list", n>>] = <<>> /\ Holds[<<"given", n>>] = <<>>
      BY <1>1, HoldsIs, Zenon
    <3> QED
      BY <2>2, <3>1
  <2> QED
    BY <2>1, <2>2, PlacesAre, Zenon
<1>3. PICK own : own = 0
  OBVIOUS
<1>4. \A x \in Places : 1..Len(Holds[x]) = {}
  BY <1>2
<1>5. OwnedBy(own, Holds, stream, got)
  BY <1>4 DEF OwnedBy
<1> QED
  BY <1>5 DEF Own, Owned

(* A byte is sent as often as its message has it, at every time,           *)
LEMMA CountedStep == Typed /\ Counted /\ [PartialNext]_partialVars => Counted'
<1> SUFFICES ASSUME Typed, Counted, [PartialNext]_partialVars PROVE Counted'
  OBVIOUS
<1>1. CASE Send
  BY <1>1, CountedSend
<1>2. CASE Finish
  BY <1>2, CountedFinish
<1>3. ASSUME UNCHANGED clientVars PROVE Counted'
  <2>1. stream' = stream /\ sent' = sent
    BY <1>3 DEF clientVars
  <2>2. ASSUME NEW k \in 1..Len(sent) PROVE Message(k)' = Message(k)
    BY <2>1 DEF Message
  <2> QED
    BY <2>1, <2>2 DEF Counted
<1>4. CASE Serve
  <2>1. ASSUME NEW t \in client.threads, ServeClient(t) PROVE UNCHANGED clientVars
    <3>1. CASE Works(t)
      BY <3>1 DEF Works, MsgRecv, Prefix, Pop, Take, Read, ReadMore, Receive, Refuse,
                  DecodeFrame, Abort, Back, Return
    <3>2. CASE WorksOnParts(t)
      BY <3>2 DEF WorksOnParts, PartiallyRecv, NoMessage, ReadPart, ReturnPart, Abandon,
                  Take, ReadMore, Receive, Refuse, DecodeFrame, Abort, Back
    <3> QED
      BY <2>1, <3>1, <3>2 DEF ServeClient
  <2> QED
    BY <1>3, <1>4, <2>1 DEF Serve
<1>5. CASE UNCHANGED partialVars
  BY <1>3, <1>5 DEF partialVars, readerVars
<1>6. CASE Disarm
  BY <1>3, <1>6 DEF Disarm
<1> QED
  BY <1>1, <1>2, <1>4, <1>5, <1>6 DEF PartialNext

(* and at first.                                                           *)
LEMMA CountedInit == PartialInit => Counted
BY DEF PartialInit, ReaderInit, Counted

(* The places at which a byte is returned are no more than those at which  *)
(* it was sent.                                                            *)
LEMMA GivenOfSent ==
  ASSUME Typed, Own, NEW k \in 1..Len(sent)
  PROVE /\ IsFiniteSet(Given(k))
        /\ Cardinality(Given(k)) \in Nat /\ Cardinality(At(stream, KeyByte + k)) \in Nat
        /\ Cardinality(Given(k)) <= Cardinality(At(stream, KeyByte + k))
<1> DEFINE v == KeyByte + k
           T == At(stream, v)
<1>1. PICK own : \A x \in Places : \A j \in 1..Len(Holds[x]) :
                   \E p \in 1..got : own[p] = <<x, j>> /\ stream[p] = Holds[x][j]
  BY Zenon DEF Own, Owned, OwnedBy
<1>2. \A p \in 1..got : p \in 1..Len(stream)
  BY DEF Typed, TypedClient, ByteSeq
<1>3. \A g \in Given(k) : /\ g[1] \in 1..Len(delivered) /\ g[2] \in 1..Len(delivered[g[1]].msg)
                          /\ delivered[g[1]].msg[g[2]] = v
                          /\ g = <<g[1], g[2]>>
  BY DEF Given
<1>4. ASSUME NEW g \in Given(k)
      PROVE \E p \in T : own[p] = << <<"given", g[1]>>, g[2]>>
  <2>1. PICK i, j : i \in Nat /\ i = g[1] /\ j = g[2] /\ i \in 1..Len(delivered)
    BY <1>3
  <2>2. Holds[<<"given", i>>] = delivered[i].msg /\ <<"given", i>> \in Places
    <3>1. GivenAs(i) = delivered[i].msg
      BY <2>1, Zenon DEF GivenAs
    <3> QED
      BY <2>1, <3>1, HoldsIs, PlacesAre, Zenon
  <2>3. j \in 1..Len(delivered[i].msg) /\ delivered[i].msg[j] = v
    BY <1>3, <2>1, Zenon
  <2>4. PICK p \in 1..got : own[p] = << <<"given", i>>, j>> /\ stream[p] = v
    <3>1. j \in 1..Len(Holds[<<"given", i>>]) /\ Holds[<<"given", i>>][j] = v
      BY <2>2, <2>3
    <3> QED
      BY <1>1, <2>2, <3>1
  <2>5. p \in T
    BY <1>2, <2>4, Zenon DEF At
  <2> QED
    BY <2>1, <2>4, <2>5, Zenon
<1> DEFINE place(g) == CHOOSE p \in T : own[p] = << <<"given", g[1]>>, g[2]>>
           f == [g \in Given(k) |-> place(g)]
<1>5. \A g \in Given(k) : place(g) \in T /\ own[place(g)] = << <<"given", g[1]>>, g[2]>>
  BY <1>4, Zenon
<1> HIDE DEF place, T
<1>6. f \in [Given(k) -> T]
  BY <1>5, Zenon
<1>7. ASSUME NEW g \in Given(k), NEW h \in Given(k), f[g] = f[h] PROVE g = h
  <2>1. place(g) = place(h)
    BY <1>7
  <2>2. << <<"given", g[1]>>, g[2]>> = << <<"given", h[1]>>, h[2]>>
    BY <1>5, <2>1, Zenon
  <2>3. g[1] = h[1] /\ g[2] = h[2]
    BY <2>2
  <2> QED
    BY <1>3, <2>3, Zenon
<1>8. f \in Injection(Given(k), T)
  BY <1>6, <1>7 DEF Injection, IsInjective
<1>9. IsFiniteSet(T)
  BY AtFinite DEF T, Typed, TypedClient
<1> HIDE DEF f
<1>10. IsFiniteSet(Given(k)) /\ Cardinality(Given(k)) <= Cardinality(T)
  BY <1>8, <1>9, FS_Injection
<1>11. Cardinality(Given(k)) \in Nat /\ Cardinality(T) \in Nat
  BY <1>9, <1>10, FS_CardinalityType
<1> QED
  BY <1>10, <1>11 DEF T

(* Each byte the application is given is one that was sent, always. *)
LEMMA AlwaysOwn == PartialSpec => [](Typed /\ Own /\ Counted)
<1>1. PartialInit => Typed /\ Own /\ Counted
  BY TypedInit, OwnInit, CountedInit
<1>2. Typed /\ Own /\ Counted /\ [PartialNext]_partialVars => (Typed /\ Own /\ Counted)'
  BY TypedStep, OwnStep, CountedStep
<1> QED
  BY <1>1, <1>2, PTL DEF PartialSpec

(* No more bytes of a message are returned than it has. *)
LEMMA NoMoreThanSent ==
  ASSUME Typed, Own, Counted, NEW k \in 1..Len(sent)
  PROVE /\ IsFiniteSet(Given(k)) /\ Cardinality(Given(k)) \in Nat
        /\ Cardinality(Given(k)) <= Len(Message(k))
<1>1. /\ IsFiniteSet(Given(k))
      /\ Cardinality(Given(k)) \in Nat /\ Cardinality(At(stream, KeyByte + k)) \in Nat
      /\ Cardinality(Given(k)) <= Cardinality(At(stream, KeyByte + k))
  BY GivenOfSent
<1>2. Cardinality(At(stream, KeyByte + k)) <= Len(Message(k)) /\ Len(Message(k)) \in Nat
  BY SentAre DEF Counted
<1> QED
  BY <1>1, <1>2

(* No byte of a message is given to the application twice, whatever the    *)
(* client sends, however its bytes are cut and batched, and although two   *)
(* threads may read from the socket and an element of the pending list may *)
(* be taken while it is written to: msg_recv, more_recv and the pending    *)
(* list only ever move bytes.                                              *)
THEOREM NothingIsTwice == PartialSpec => []NothingTwice
<1>1. Typed /\ Own /\ Counted => NothingTwice
  BY NoMoreThanSent DEF NothingTwice
<1> QED
  BY <1>1, AlwaysOwn, PTL

=============================================================================
