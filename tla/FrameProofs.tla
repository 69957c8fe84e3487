----------------------------- MODULE FrameProofs -----------------------------
(***************************************************************************)
(* The header that makeFrame, get_blob_frame and the clients write is read *)
(* back by getFrame for every payload length, and a frame is decoded when  *)
(* it is whole and never before.                                           *)
(***************************************************************************)
EXTENDS FrameArrival, TLAPS

-----------------------------------------------------------------------------
(* Sequences *)

LEMMA ConcatFacts ==
  ASSUME NEW p \in Seq(Nat), NEW q \in Seq(Nat)
  PROVE  /\ p \o q \in Seq(Nat)
         /\ Len(p \o q) = Len(p) + Len(q)
         /\ \A i \in 1..Len(p) : (p \o q)[i] = p[i]
<1>1. p \o q \in Seq(Nat)
  BY SMT
<1>2. Len(p \o q) = Len(p) + Len(q)
  BY SMT
<1>3. ASSUME NEW i \in 1..Len(p) PROVE (p \o q)[i] = p[i]
  BY SMT
<1> QED BY <1>1, <1>2, <1>3

LEMMA PrefixFacts ==
  ASSUME NEW p \in Seq(Nat), NEW k \in 1..Len(p), NEW i \in 1..k
  PROVE  SubSeq(p, 1, k)[i] = p[i]
BY SMT

-----------------------------------------------------------------------------
(* Headers *)

LEMMA ByteTypes ==
  ASSUME NEW n \in Nat
  PROVE  Byte0(n) \in Nat /\ Byte1(n) \in Nat /\ Byte2(n) \in Nat /\ Byte3(n) \in Nat
BY SMT DEF Byte0, Byte1, Byte2, Byte3

(* The bytes of a number put together again. *)
LEMMA Bytes2 ==
  ASSUME NEW n \in Nat, n <= 65535
  PROVE  Byte1(n) * 256 + Byte0(n) = n
BY SMT DEF Byte0, Byte1

LEMMA Bytes4 ==
  ASSUME NEW n \in Nat, n <= MaxLength
  PROVE  ((Byte3(n) * 256 + Byte2(n)) * 256 + Byte1(n)) * 256 + Byte0(n) = n
BY SMTT(60) DEF Byte0, Byte1, Byte2, Byte3, MaxLength

(* h is a header, with type t, of a payload of n bytes. *)
Announces(h, t, n) ==
  /\ h \in Seq(Nat)
  /\ Len(h) = PayloadStart(h)
  /\ LengthEnd(h) \in {2, 4, 10}
  /\ h[1] = t
  /\ PayloadLength(h) = n

LEMMA PlainHeader ==
  ASSUME NEW t \in Nat, NEW n \in Nat, n <= MaxLength
  PROVE  /\ Announces(Header(t, n), t, n)
         /\ Header(t, n)[2] < 128
         /\ Len(Header(t, n)) = IF n <= 125 THEN 2 ELSE IF n <= 65535 THEN 4 ELSE 10
<1> DEFINE h == Header(t, n)
<1>1. CASE n <= 125
  <2>1. h = <<t, n>>
    BY <1>1, SMT DEF Header
  <2> QED BY <1>1, <2>1, SMT
    DEF Announces, PayloadStart, LengthEnd, PayloadLength, LengthField, Masked
<1>2. CASE n > 125 /\ n <= 65535
  <2>1. h = <<t, 126, Byte1(n), Byte0(n)>>
    BY <1>2, SMT DEF Header
  <2>2. h[1] = t /\ h[2] = 126 /\ h[3] = Byte1(n) /\ h[4] = Byte0(n)
    BY <2>1, SMT
  <2>3. Len(h) = 4 /\ h \in Seq(Nat)
    BY <2>1, ByteTypes, SMT
  <2>4. LengthField(h) = 126 /\ ~Masked(h)
    BY <2>2, SMT DEF LengthField, Masked
  <2>5. PayloadLength(h) = n
    BY <1>2, <2>2, <2>4, Bytes2, SMT DEF PayloadLength
  <2> QED BY <1>2, <2>2, <2>3, <2>4, <2>5, SMT DEF Announces, PayloadStart, LengthEnd
<1>3. CASE n > 65535
  <2>1. h = <<t, 127, 0, 0, 0, 0, Byte3(n), Byte2(n), Byte1(n), Byte0(n)>>
    BY <1>3, SMT DEF Header
  <2>2. /\ h[1] = t /\ h[2] = 127 /\ h[7] = Byte3(n) /\ h[8] = Byte2(n)
        /\ h[9] = Byte1(n) /\ h[10] = Byte0(n)
    BY <2>1, SMT
  <2>3. Len(h) = 10 /\ h \in Seq(Nat)
    <3>1. Byte3(n) \in Nat /\ Byte2(n) \in Nat /\ Byte1(n) \in Nat /\ Byte0(n) \in Nat
      BY ByteTypes, Zenon
    <3> QED BY <2>1, <3>1, SMT
  <2>4. LengthField(h) = 127 /\ ~Masked(h)
    BY <2>2, SMT DEF LengthField, Masked
  <2>5. PayloadLength(h) = n
    BY <2>2, <2>4, Bytes4, SMT DEF PayloadLength
  <2> QED BY <1>3, <2>2, <2>3, <2>4, <2>5, SMT DEF Announces, PayloadStart, LengthEnd
<1> QED BY <1>1, <1>2, <1>3, SMT

(* The mask bit and the masking key change nothing else. *)
LEMMA MaskedHeader ==
  ASSUME NEW t \in Nat, NEW n \in Nat, n <= MaxLength
  PROVE  Announces(ClientHeader(t, n), t, n)
<1> DEFINE p == Header(t, n)
           m == [p EXCEPT ![2] = @ + 128]
           key == <<KeyByte, KeyByte, KeyByte, KeyByte>>
           h == ClientHeader(t, n)
<1>1. /\ Announces(p, t, n) /\ p[2] < 128
      /\ Len(p) = IF n <= 125 THEN 2 ELSE IF n <= 65535 THEN 4 ELSE 10
  BY PlainHeader
<1> HIDE DEF p
<1>2. p \in Seq(Nat) /\ p[2] \in Nat /\ ~Masked(p) /\ Len(p) \in {2, 4, 10}
  <2>1. p \in Seq(Nat) /\ Len(p) \in {2, 4, 10}
    BY <1>1, SMT DEF Announces
  <2>2. p[2] \in Nat
    BY <2>1, SMT
  <2>3. ~Masked(p)
    BY <1>1, <2>2, SMT DEF Masked
  <2> QED BY <2>1, <2>2, <2>3
<1>3. /\ m \in Seq(Nat) /\ Len(m) = Len(p)
      /\ m[2] = p[2] + 128
      /\ \A i \in 1..Len(p) : i # 2 => m[i] = p[i]
  BY <1>2, SMT
<1>4. key \in Seq(Nat) /\ Len(key) = 4
  BY SMT DEF KeyByte
<1> HIDE DEF m, key
<1>5. h = m \o key
  BY DEF ClientHeader, p, m, key
<1>6. /\ h \in Seq(Nat) /\ Len(h) = Len(p) + 4
      /\ \A i \in 1..Len(p) : h[i] = m[i]
  <2>1. /\ m \o key \in Seq(Nat) /\ Len(m \o key) = Len(m) + Len(key)
        /\ \A i \in 1..Len(m) : (m \o key)[i] = m[i]
    BY <1>3, <1>4, ConcatFacts, ZenonT(60)
  <2> QED BY <1>3, <1>4, <1>5, <2>1, Zenon
<1> HIDE DEF h
<1>7. h[2] = p[2] + 128 /\ \A i \in 1..Len(p) : i # 2 => h[i] = p[i]
  BY <1>2, <1>3, <1>6, SMT
<1>8. LengthField(h) = LengthField(p) /\ Masked(h)
  BY <1>1, <1>2, <1>7, SMTT(60) DEF LengthField, Masked
<1>9. LengthEnd(h) = LengthEnd(p) /\ LengthEnd(p) = Len(p)
  BY <1>1, <1>2, <1>8, SMT DEF LengthEnd, Announces, PayloadStart
<1>10. PayloadLength(h) = PayloadLength(p)
  <2>1. CASE LengthField(p) = 126
    <3>1. Len(p) = 4
      BY <1>9, <2>1, SMT DEF LengthEnd
    <3> QED BY <1>7, <1>8, <2>1, <3>1, SMT DEF PayloadLength
  <2>2. CASE LengthField(p) = 127
    <3>1. Len(p) = 10
      BY <1>9, <2>2, SMT DEF LengthEnd
    <3> QED BY <1>7, <1>8, <2>2, <3>1, SMT DEF PayloadLength
  <2>3. CASE LengthField(p) # 126 /\ LengthField(p) # 127
    BY <1>8, <2>3 DEF PayloadLength
  <2> QED BY <2>1, <2>2, <2>3
<1>11. h[1] = p[1]
  BY <1>2, <1>7, SMT
<1> QED BY <1>1, <1>2, <1>6, <1>8, <1>9, <1>10, <1>11, SMT DEF Announces, PayloadStart, h

-----------------------------------------------------------------------------
(* Arrival *)

Types == {TEXT_FRAME, BINARY_FRAME}

TypeOf(who) == IF who = "file" THEN BINARY_FRAME ELSE TEXT_FRAME

LEMMA HeadersAnnounce ==
  ASSUME NEW who \in {"server", "file", "client"}, NEW n \in Nat, n <= MaxLength
  PROVE  Announces(HeaderOf(who, n), TypeOf(who), n)
<1>0. TEXT_FRAME \in Nat /\ BINARY_FRAME \in Nat
  BY SMT DEF TEXT_FRAME, BINARY_FRAME
<1>1. CASE who = "server"
  <2>1. HeaderOf(who, n) = Header(TEXT_FRAME, n)
    BY <1>1, Zenon DEF HeaderOf
  <2>2. TypeOf(who) = TEXT_FRAME
    BY <1>1, SMT DEF TypeOf
  <2>3. Announces(Header(TEXT_FRAME, n), TEXT_FRAME, n)
    BY <1>0, PlainHeader
  <2> QED BY <2>1, <2>2, <2>3
<1>2. CASE who = "client"
  <2>1. HeaderOf(who, n) = ClientHeader(TEXT_FRAME, n)
    BY <1>2, Zenon DEF HeaderOf
  <2>2. TypeOf(who) = TEXT_FRAME
    BY <1>2, SMT DEF TypeOf
  <2>3. Announces(ClientHeader(TEXT_FRAME, n), TEXT_FRAME, n)
    BY <1>0, MaskedHeader
  <2> QED BY <2>1, <2>2, <2>3
<1>3. CASE who = "file"
  <2>1. HeaderOf(who, n) = BlobFrame(n, MaxLength).header
    BY <1>3, Zenon DEF HeaderOf
  <2>2. ~(n > MaxLength)
    BY SMT DEF MaxLength
  <2>3. BlobFrame(n, MaxLength).header = Header(BINARY_FRAME, n)
    BY <2>2, SMT DEF BlobFrame
  <2>4. TypeOf(who) = BINARY_FRAME
    BY <1>3, SMT DEF TypeOf
  <2>5. Announces(Header(BINARY_FRAME, n), BINARY_FRAME, n)
    BY <1>0, PlainHeader
  <2> QED BY <2>1, <2>3, <2>4, <2>5
<1> QED BY <1>1, <1>2, <1>3, Zenon

(* What getFrame says of a buffer that begins with a whole header. *)
LEMMA WholeHeader ==
  ASSUME NEW h, NEW t \in Types, NEW n \in Nat, Announces(h, t, n),
         NEW k \in Nat, k >= 3, k >= LengthEnd(h)
  PROVE  /\ k >= Len(h) + n =>
               FrameType(h, k) = [kind |-> "data", done |-> TRUE,
                                  binary |-> t = BINARY_FRAME, behind |-> k > Len(h) + n]
         /\ k < Len(h) + n => FrameType(h, k).kind # "data"
<1>1. /\ LengthEnd(h) \in Nat /\ Len(h) \in Nat /\ FrameEnd(h) = Len(h) + n
      /\ PayloadLength(h) = n /\ LengthEnd(h) <= Len(h)
  BY SMT DEF Announces, FrameEnd, PayloadStart
<1>2. Opcode(h) \in {0, 1, 2} /\ Fin(h) = 1 /\ (Opcode(h) = 2 <=> t = BINARY_FRAME)
  BY SMT DEF Announces, Opcode, Fin, Types, TEXT_FRAME, BINARY_FRAME
<1>3. ASSUME k >= Len(h) + n
      PROVE  FrameType(h, k) = [kind |-> "data", done |-> TRUE,
                                binary |-> t = BINARY_FRAME, behind |-> k > Len(h) + n]
  <2>1. /\ ~(k < 3) /\ ~(k < LengthEnd(h))
        /\ ~(k < LengthEnd(h) + PayloadLength(h)) /\ ~(k < FrameEnd(h))
    BY <1>1, <1>3, SMT
  <2>2. FrameType(h, k) = DataType(h, k)
    <3>1. FrameType(h, k) = WholeType(h, k)
      BY <2>1, SMT DEF FrameType
    <3>2. WholeType(h, k) = DataType(h, k)
      BY <1>2, SMT DEF WholeType
    <3> QED BY <3>1, <3>2
  <2> QED BY <1>1, <1>2, <2>2, Zenon DEF DataType
<1>4. ASSUME k < Len(h) + n
      PROVE  FrameType(h, k).kind # "data"
  <2>1. ~(k < 3) /\ ~(k < LengthEnd(h)) /\ k < FrameEnd(h)
    BY <1>1, <1>4, SMT
  <2>2. FrameType(h, k) \in {Other("INCOMPLETE_FRAME"), Other("out_of_range")}
    BY <2>1, SMT DEF FrameType
  <2> QED BY <2>2, SMT DEF Other
<1> QED BY <1>3, <1>4

(* What getFrame sees of a buffer with the first k bytes of header h.      *)
LEMMA PartHeader ==
  ASSUME NEW h \in Seq(Nat), LengthEnd(h) \in {2, 4, 10}, LengthEnd(h) <= Len(h),
         NEW k \in 3..Len(h)
  PROVE  /\ LengthEnd(SubSeq(h, 1, k)) = LengthEnd(h)
         /\ k >= LengthEnd(h) =>
              \A j \in Nat : FrameType(SubSeq(h, 1, k), j) = FrameType(h, j)
<1> DEFINE s == SubSeq(h, 1, k)
<1>1. \A i \in 1..k : s[i] = h[i]
  BY PrefixFacts, SMT
<1> HIDE DEF s
<1>2. s[1] = h[1] /\ s[2] = h[2]
  BY <1>1, SMT
<1>3. LengthField(s) = LengthField(h) /\ LengthEnd(s) = LengthEnd(h)
  <2>1. LengthField(s) = LengthField(h)
    BY <1>2, SMT DEF LengthField
  <2> QED BY <2>1, SMT DEF LengthEnd
<1>4. ASSUME k >= LengthEnd(h), NEW j \in Nat
      PROVE  FrameType(s, j) = FrameType(h, j)
  <2>1. PayloadLength(s) = PayloadLength(h)
    <3>1. CASE LengthField(h) = 126
      <4>1. s[3] = h[3] /\ s[4] = h[4]
        BY <1>1, <1>4, <3>1, SMT DEF LengthEnd
      <4> QED BY <1>3, <3>1, <4>1, Zenon DEF PayloadLength
    <3>2. CASE LengthField(h) = 127
      <4>1. k >= 10
        BY <1>4, <3>2, SMT DEF LengthEnd
      <4>2. s[7] = h[7] /\ s[8] = h[8] /\ s[9] = h[9] /\ s[10] = h[10]
        BY <1>1, <4>1, SMT
      <4> QED BY <1>3, <3>2, <4>2, SMT DEF PayloadLength
    <3>3. CASE LengthField(h) # 126 /\ LengthField(h) # 127
      BY <1>3, <3>3, SMT DEF PayloadLength
    <3> QED BY <3>1, <3>2, <3>3
  <2>2. Opcode(s) = Opcode(h) /\ Fin(s) = Fin(h) /\ Masked(s) = Masked(h)
    BY <1>2, Zenon DEF Opcode, Fin, Masked
  <2>3. PayloadStart(s) = PayloadStart(h)
    BY <1>3, <2>2, Zenon DEF PayloadStart
  <2>4. FrameEnd(s) = FrameEnd(h)
    BY <2>1, <2>3, Zenon DEF FrameEnd
  <2>5. DataType(s, j) = DataType(h, j)
    BY <2>2, <2>4, Zenon DEF DataType
  <2>6. WholeType(s, j) = WholeType(h, j)
    BY <2>2, <2>5, Zenon DEF WholeType
  <2> QED BY <1>3, <2>1, <2>4, <2>6, Zenon DEF FrameType
<1> QED BY <1>3, <1>4 DEF s

ArrivalInv ==
  /\ sender \in {"server", "file", "client"}
  /\ size \in Sizes
  /\ header = HeaderOf(sender, size)
  /\ arrived \in Nat

LEMMA Arriving == ArrivalSpec => []ArrivalInv
<1>1. ArrivalInit => ArrivalInv
  BY SMT DEF ArrivalInit, ArrivalInv
<1>2. ArrivalInv /\ [Arrive]_arrivalVars => ArrivalInv'
  <2> SUFFICES ASSUME ArrivalInv, [Arrive]_arrivalVars PROVE ArrivalInv'
    OBVIOUS
  <2>1. CASE Arrive
    <3>1. \E n \in (1 .. Len(header) + 4) \union (Total - 5 .. Total + MaxBehind) :
            n > arrived /\ arrived' = n
      BY <2>1, Zenon DEF Arrive
    <3>2. arrived' \in Nat
      BY <3>1, SMT DEF ArrivalInv
    <3> QED BY <2>1, <3>2, Zenon DEF Arrive, ArrivalInv
  <2>2. CASE UNCHANGED arrivalVars
    BY <2>2, Zenon DEF ArrivalInv, arrivalVars
  <2> QED BY <2>1, <2>2
<1> QED BY <1>1, <1>2, PTL DEF ArrivalSpec

LEMMA HeaderKnown ==
  ASSUME ArrivalInv
  PROVE  /\ size \in Nat /\ size <= MaxLength
         /\ TypeOf(sender) \in Types
         /\ TypeOf(sender) = BINARY_FRAME <=> sender = "file"
         /\ Announces(header, TypeOf(sender), size)
         /\ header \in Seq(Nat) /\ Len(header) \in Nat
         /\ LengthEnd(header) \in {2, 4, 10} /\ LengthEnd(header) <= Len(header)
<1>1. size \in Nat /\ size <= MaxLength
  <2>1. MaxLength \in Nat
    BY SMT DEF MaxLength
  <2>2. size \in 0 .. MaxLength
    BY ArrivalAssumption, Zenon DEF ArrivalInv
  <2> QED BY <2>1, <2>2, SMT
<1>2. Announces(header, TypeOf(sender), size)
  BY <1>1, HeadersAnnounce, Zenon DEF ArrivalInv
<1>3. /\ TypeOf(sender) \in Types
      /\ TypeOf(sender) = BINARY_FRAME <=> sender = "file"
  BY SMT DEF TypeOf, Types, TEXT_FRAME, BINARY_FRAME, ArrivalInv
<1>4. /\ header \in Seq(Nat) /\ Len(header) \in Nat
      /\ LengthEnd(header) \in {2, 4, 10} /\ LengthEnd(header) <= Len(header)
  BY <1>2, SMT DEF Announces, PayloadStart
<1> QED BY <1>1, <1>2, <1>3, <1>4

(* The offset at which get_blob_frame lets a file begin is where its       *)
(* header ends.                                                            *)
LEMMA BlobOffset ==
  ASSUME NEW n \in Nat, n <= MaxLength
  PROVE  BlobFrame(n, n).offset = Len(HeaderOf("file", n))
<1>1. HeaderOf("file", n) = BlobFrame(n, MaxLength).header
  BY Zenon DEF HeaderOf
<1>2. ~(n > MaxLength) /\ ~(n > n)
  BY SMT DEF MaxLength
<1>3. BlobFrame(n, MaxLength).header = Header(BINARY_FRAME, n)
  BY <1>2, SMT DEF BlobFrame
<1>4. Len(Header(BINARY_FRAME, n)) = IF n <= 125 THEN 2 ELSE IF n <= 65535 THEN 4 ELSE 10
  <2>1. BINARY_FRAME \in Nat
    BY SMT DEF BINARY_FRAME
  <2> QED BY <2>1, PlainHeader
<1>5. BlobFrame(n, n).offset = IF n <= 125 THEN 2 ELSE IF n <= 65535 THEN 4 ELSE 10
  BY <1>2, SMT DEF BlobFrame
<1> QED BY <1>1, <1>3, <1>4, <1>5, SMT

(* A frame of any length that has arrived whole is decoded as what it was  *)
(* made from.                                                              *)
THEOREM FrameRoundTrip == ArrivalSpec => []WholeFrameDecoded
<1>1. ArrivalInv => WholeFrameDecoded
  <2> SUFFICES ASSUME ArrivalInv, arrived >= Total, arrived > 2
               PROVE  /\ FrameType(header, arrived)
                           = [kind |-> "data", done |-> TRUE, binary |-> sender = "file",
                              behind |-> arrived > Total]
                      /\ PayloadStart(header) = Len(header)
                      /\ PayloadLength(header) = size
                      /\ sender = "file" => BlobFrame(size, size).offset = Len(header)
    BY Zenon DEF WholeFrameDecoded
  <2>1. arrived \in Nat /\ arrived >= 3 /\ arrived >= LengthEnd(header)
    BY HeaderKnown, SMT DEF ArrivalInv, Total
  <2>2. FrameType(header, arrived)
          = [kind |-> "data", done |-> TRUE, binary |-> TypeOf(sender) = BINARY_FRAME,
             behind |-> arrived > Len(header) + size]
    <3>1. arrived >= Len(header) + size
      BY Zenon DEF Total
    <3>2. /\ TypeOf(sender) \in Types /\ size \in Nat
          /\ Announces(header, TypeOf(sender), size)
      BY HeaderKnown, Zenon
    <3> QED BY <2>1, <3>1, <3>2, WholeHeader, Zenon
  <2>3. PayloadStart(header) = Len(header) /\ PayloadLength(header) = size
    BY HeaderKnown, Zenon DEF Announces
  <2>4. ASSUME sender = "file" PROVE BlobFrame(size, size).offset = Len(header)
    BY <2>4, HeaderKnown, BlobOffset, Zenon DEF ArrivalInv
  <2>5. (TypeOf(sender) = BINARY_FRAME) = (sender = "file")
    BY HeaderKnown, Zenon
  <2> QED BY <2>2, <2>3, <2>4, <2>5, Zenon DEF Total
<1> QED BY <1>1, Arriving, PTL

LEMMA ShortHeader ==
  ASSUME NEW e \in {2, 4, 10}, NEW l \in Nat, e <= l, l < 3
  PROVE  l = 2 /\ e = 2
BY SMT

(* A frame of any length, cut anywhere, is not taken for a whole one.      *)
THEOREM FrameNotEarly == ArrivalSpec => []NoEarlyFrame
<1>1. ArrivalInv => NoEarlyFrame
  <2> SUFFICES ASSUME ArrivalInv, arrived \in 1 .. Total - 1
               PROVE  FrameType(Seen, arrived).kind # "data"
    BY Zenon DEF NoEarlyFrame
  <2>0. Len(header) \in Nat /\ arrived < Len(header) + size /\ size \in Nat
        /\ LengthEnd(header) \in {2, 4, 10} /\ LengthEnd(header) <= Len(header)
    BY HeaderKnown, SMT DEF ArrivalInv, Total
  <2>1. CASE arrived < 3
    <3>1. FrameType(Seen, arrived) = Other("ERROR_FRAME")
      BY <2>1, Zenon DEF FrameType
    <3> QED BY <3>1, SMT DEF Other
  <2>2. CASE arrived >= 3
    <3> DEFINE k == IF arrived < Len(header) THEN arrived ELSE Len(header)
    <3>1. CASE Len(header) < 3
      <4>1. Len(header) = 2 /\ LengthEnd(header) = 2 /\ ~(arrived < Len(header))
            /\ arrived \in Nat /\ arrived >= LengthEnd(header)
        <5>1. arrived \in Nat
          BY Zenon DEF ArrivalInv
        <5>2. Len(header) = 2 /\ LengthEnd(header) = 2
          BY <2>0, <3>1, ShortHeader, Zenon
        <5> QED BY <2>2, <5>1, <5>2, SMT
      <4>2. Seen = SubSeq(header, 1, Len(header))
        BY <4>1, Zenon DEF Seen
      <4>3. header \in Seq(Nat)
        BY HeaderKnown, Zenon
      <4>4. SubSeq(header, 1, Len(header)) = header
        BY <4>3, SMT
      <4>5. FrameType(header, arrived).kind # "data"
        BY <2>0, <2>2, <4>1, HeaderKnown, WholeHeader, ZenonT(60)
      <4> QED BY <4>2, <4>4, <4>5, Zenon
    <3>2. CASE Len(header) >= 3
      <4>1. k \in 3..Len(header) /\ Seen = SubSeq(header, 1, k)
        BY <2>0, <2>2, <3>2, SMT DEF Seen, ArrivalInv
      <4>2. CASE arrived < LengthEnd(header)
        <5>1. LengthEnd(Seen) = LengthEnd(header)
          BY <4>1, HeaderKnown, PartHeader, Zenon
        <5>2. ~(arrived < 3) /\ arrived < LengthEnd(Seen)
          BY <2>2, <4>2, <5>1, SMT DEF ArrivalInv
        <5>3. FrameType(Seen, arrived) = Other("INCOMPLETE_FRAME")
          BY <5>2, Zenon DEF FrameType
        <5> QED BY <5>3, SMT DEF Other
      <4>3. CASE arrived >= LengthEnd(header)
        <5>1. k >= LengthEnd(header) /\ arrived \in Nat
          BY <2>0, <4>3, SMT DEF ArrivalInv
        <5>2. FrameType(Seen, arrived) = FrameType(header, arrived)
          BY <4>1, <5>1, HeaderKnown, PartHeader, Zenon
        <5>3. FrameType(header, arrived).kind # "data"
          BY <2>0, <2>2, <4>3, <5>1, HeaderKnown, WholeHeader, Zenon
        <5> QED BY <5>2, <5>3, Zenon
      <4> QED BY <2>0, <4>2, <4>3, SMT DEF ArrivalInv
    <3> QED BY <2>0, <3>1, <3>2, SMT
  <2> QED BY <2>1, <2>2, SMT DEF ArrivalInv
<1> QED BY <1>1, Arriving, PTL

=============================================================================
