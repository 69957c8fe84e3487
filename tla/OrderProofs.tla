----------------------------- MODULE OrderProofs -----------------------------
(***************************************************************************)
(* MessageReader and PartialReader, continued: what is returned to an      *)
(* orderly client are whole messages, for every kind of such client, any   *)
(* number of threads and messages of any number of frames; by one thread   *)
(* they are taken in the order they were sent.                             *)
(*                                                                         *)
(* The argument counts messages instead of bytes: in every state, the      *)
(* bytes decoded are those of the messages returned, of the ones on the    *)
(* pending list and of the one a thread is putting together.               *)
(***************************************************************************)
EXTENDS ReaderProofs

-----------------------------------------------------------------------------
(* Messages and the stream *)

One(threads) == \A t, u \in threads : t = u

Single == One(client.threads)

(* What is used of `Orderly'. *)
Steady ==
  /\ ~client.slow
  /\ \A parts \in client.pipelined : Len(parts) = 1
  /\ client.partially /\ client.pipelined # {} => Single

(* Where messages s are in the stream: the first n of them end at Start(s, *)
(* n), and of the next the first i frames at Behind(s, n, i).              *)
Wire(s) == [k \in 1..Len(s) |-> Bytes(Frames(k, s[k]))]

Start(s, n) == Len(FlatTo(Wire(s), n))

Within(s, n, i) == Len(FlatTo(Frames(n + 1, s[n + 1]), i))

Behind(s, n, i) == Start(s, n) + Within(s, n, i)

(* Message k, and of message n + 1 what its first i frames carry. *)
Text(s, k) == Bytes(Payloads(k, s[k]))

Part(s, n, i) == FlatTo(Payloads(n + 1, s[n + 1]), i)

Laid ==
  \/ stream = Bytes(Wire(sent))
  \/ finished /\ stream = Bytes(Wire(sent)) \o ClientHeader(136, 0)

(* When the client goes on sending. *)
Sending ==
  /\ \A k \in 1..Len(sent) :
       Len(sent[k].parts) # 1 => k <= Len(delivered) + 1 /\ (k < Len(sent) => k <= Len(delivered))
  /\ client.pipelined = {} => Len(sent) <= Len(delivered) + 1 /\ pending = <<>>

-----------------------------------------------------------------------------
(* One whole message behind the other *)

(* A whole message, the j-th where one thread takes them;                  *)
IsText(s, threads, msg, j) == \E k \in 1..Len(s) : msg = Text(s, k) /\ (One(threads) => k = j)

(* a list of them, behind n others.                                        *)
ListIs(s, threads, list, n) ==
  \A j \in 1..Len(list) : list[j].done /\ IsText(s, threads, list[j].msg, n + j)

GivenIs(s, threads, given) == \A j \in 1..Len(given) : IsText(s, threads, given[j].msg, j)

(* In state p of a thread what was received up to o is decoded. *)
Buffered(p, raw, b, g, o) ==
  IF p \in {"frame", "more", "pushed"} THEN o <= g /\ raw = SubSeq(b, o + 1, g) ELSE g = o

(* A call c of more_data has decoded nothing yet behind n messages, *)
Begins(s, n, p, c, text, o) ==
  /\ n <= Len(s) /\ o = Start(s, n)
  /\ p # "pushed" /\ p # "return" /\ c.first /\ ~c.popped /\ text = <<>>

(* or some frames of the next message. *)
Midway(s, n, p, c, text, o) ==
  /\ n < Len(s)
  /\ \E i \in 1..Len(s[n + 1].parts) - 1 : text = Part(s, n, i) /\ o = Behind(s, n, i)
  /\ p # "pushed"
  /\ p = "read" => c.first
  /\ p = "return" => ~c.type.done

FirstMessage(t) ==
  /\ \E o \in 0..got :
       /\ \/ Begins(sent, Len(delivered) + Len(pending), pc[t], call[t], file[t] \o raw_msg[t], o)
          \/ Midway(sent, Len(delivered) + Len(pending), pc[t], call[t], file[t] \o raw_msg[t], o)
       /\ Buffered(pc[t], raw_str[t], stream, got, o)
  /\ call[t].first \/ call[t].last_is_CONTIN
  /\ ~call[t].already_done /\ call[t].str = 0
  /\ ListIs(sent, client.threads, pending, Len(delivered))
  /\ Single => pending = <<>>

(* Or a whole message, and maybe further ones. *)
Further(t) ==
  /\ Len(delivered) + Len(pending) < Len(sent)
  /\ Buffered(pc[t], raw_str[t], stream, got, Start(sent, Len(delivered) + Len(pending) + 1))
  /\ pc[t] # "read"
  /\ pc[t] = "pushed" =>
       (call[t].type.behind <=> Start(sent, Len(delivered) + Len(pending) + 1) < got)
  /\ ~call[t].first /\ ~call[t].last_is_CONTIN /\ call[t].already_done /\ call[t].type.done
  /\ IsText(sent, client.threads, file[t] \o raw_msg[t], Len(delivered) + 1)
  /\ ListIs(sent, client.threads, pending, Len(delivered) + 1)

Reading(t) == pc[t] \in {"read", "more", "frame", "pushed", "return"}

Resting(t) == pc[t] \in {"msg_recv", "wait"} /\ file[t] = <<>>

(* The socket may be handed to a thread. *)
Polled == armed /\ ~disarming

Busy(t) ==
  /\ conn = "open" /\ ~Polled
  /\ Reading(t) /\ \A u \in Threads : u # t => Resting(u)
  /\ FirstMessage(t) \/ Further(t)

(* Nobody reads, and what was received are whole messages. *)
Idle ==
  /\ conn = "open"
  /\ \A t \in Threads : Resting(t)
  /\ Len(delivered) + Len(pending) <= Len(sent)
  /\ got = Start(sent, Len(delivered) + Len(pending))
  /\ ListIs(sent, client.threads, pending, Len(delivered))
  /\ Single => \A t \in client.threads : pc[t] = "wait" => pending = <<>>

Closed == conn = "closed" /\ pending = <<>> /\ \A t \in Threads : ~Reading(t)

Aborted == \A t \in Threads : pc[t] = "aborted"

InStep == Closed \/ Aborted \/ Idle \/ \E t \in client.threads : Busy(t)

(* Whoever arms the socket in partially_recv is the one that read it.      *)
Owning ==
  client.partially /\ ~Single =>
    /\ Polled => owners = {}
    /\ \A t, u \in owners : t = u
    /\ \A t \in Threads : Reading(t) => owners \subseteq {t}

Filed == client.partially \/ \A t \in Threads : file[t] = <<>>

Ordered ==
  /\ Laid /\ Sending /\ Owning /\ Filed /\ InStep
  /\ GivenIs(sent, client.threads, delivered)

-----------------------------------------------------------------------------
(* Decoding what is in step with the stream *)

(* The elements of the second of two sequences, in the joined one.         *)
LEMMA BehindAt ==
  ASSUME NEW a \in ByteSeq, NEW b \in ByteSeq, NEW j \in 1..Len(b)
  PROVE /\ Len(a) + j \in 1..Len(a \o b)
        /\ (a \o b)[Len(a) + j] = b[j]
<1>1. Len(a) \in Nat /\ Len(b) \in Nat /\ Len(a \o b) = Len(a) + Len(b)
      /\ \A p \in 1..Len(a \o b) : (a \o b)[p] = IF p <= Len(a) THEN a[p] ELSE b[p - Len(a)]
  BY ConcatAt
<1>2. Len(a) + j \in 1..Len(a \o b) /\ ~ Len(a) + j <= Len(a) /\ (Len(a) + j) - Len(a) = j
  BY <1>1
<1> QED
  BY <1>1, <1>2

(* What is there is the beginning of frame i of message k.                 *)
FrameIn(raw, k, m, i) ==
  \A j \in 1..Len(raw) : j <= Len(Frames(k, m)[i]) => raw[j] = Frames(k, m)[i][j]

(* The whole frame is behind o.                                            *)
FrameBehind(b, o, k, m, i) ==
  \A j \in 1..Len(Frames(k, m)[i]) : b[o + j] = Frames(k, m)[i][j]

(* The beginning of a frame is taken for data when all of it is there, and *)
(* then for its own payload.                                               *)
LEMMA PartDecoded ==
  ASSUME NEW k \in Nat, NEW m, MessageOf(m), NEW i \in 1..Len(m.parts),
         NEW raw \in ByteSeq, GetFrame(raw).type.kind = "data", FrameIn(raw, k, m, i)
  PROVE /\ 6 + m.parts[i] <= Len(raw)
        /\ GetFrame(raw).msg = Payload(k, m.parts[i])
        /\ GetFrame(raw).rest = SubSeq(raw, 6 + m.parts[i] + 1, Len(raw))
        /\ GetFrame(raw).type.done <=> i = Len(m.parts)
        /\ GetFrame(raw).type.behind <=> 6 + m.parts[i] < Len(raw)
<1>1. /\ m.parts[i] \in 0..125
      /\ Frames(k, m)[i] = <<Lead(m, i), m.parts[i] + 128, KeyByte, KeyByte, KeyByte, KeyByte>>
                             \o Payload(k, m.parts[i])
      /\ Len(Frames(k, m)[i]) = 6 + m.parts[i]
  BY FrameIs
<1>2. PICK size \in 0..125 : size = m.parts[i]
  BY <1>1
<1>3. PICK lead \in {0, 1, 2, 128, 129, 130} : lead = Lead(m, i) /\ (lead >= 128 <=> i = Len(m.parts))
  BY DEF Lead
<1>4. PICK p : p = Payload(k, size)
  OBVIOUS
<1>5. p \in ByteSeq /\ Len(p) = size
  BY <1>4, PayloadIs
<1>6. PICK F : F = Frames(k, m)[i]
  OBVIOUS
<1>7. F = <<lead, size + 128, KeyByte, KeyByte, KeyByte, KeyByte>> \o p
  BY <1>1, <1>2, <1>3, <1>4, <1>6, Zenon
<1>8. \A j \in 1..Len(raw) : j <= 6 + size => raw[j] = F[j]
  BY <1>1, <1>2, <1>6, Zenon DEF FrameIn
<1> DEFINE type == FrameType(raw, Len(raw))
<1>9. Len(raw) \in Nat
  BY DEF ByteSeq
<1>10. GetFrame(raw).type = type
  BY DEF GetFrame
<1>11. Len(raw) >= 3
  BY <1>9, <1>10 DEF FrameType, Other
<1>12. lead \in Nat /\ size + 128 \in Nat /\ size \in Nat
  OBVIOUS
<1>13. PICK h \in ByteSeq : /\ h = <<lead, size + 128, KeyByte, KeyByte, KeyByte, KeyByte>>
                           /\ Len(h) = 6 /\ h[1] = lead /\ h[2] = size + 128
  <2>1. <<lead, size + 128, KeyByte, KeyByte, KeyByte, KeyByte>> \in ByteSeq
    BY <1>12, SixBytes
  <2> QED
    BY <2>1
<1>14. /\ F = h \o p /\ Len(F) = 6 + size /\ F[1] = lead /\ F[2] = size + 128
      /\ \A j \in 1..size : F[6 + j] = p[j]
  <2>1. F = h \o p
    BY <1>7, <1>13
  <2>2. /\ Len(F) = 6 + size
        /\ \A x \in 1..6 + size : F[x] = IF x <= 6 THEN h[x] ELSE p[x - 6]
    BY <1>5, <1>13, <2>1, ConcatAt
  <2>3. 1 \in 1..6 + size /\ 2 \in 1..6 + size
    BY <1>12
  <2>4. F[1] = lead /\ F[2] = size + 128
    BY <1>13, <2>2, <2>3
  <2>5. ASSUME NEW j \in 1..size PROVE F[6 + j] = p[j]
    <3>1. 6 + j \in 1..6 + size /\ ~ 6 + j <= 6 /\ (6 + j) - 6 = j
      BY <1>12
    <3> QED
      BY <2>2, <3>1
  <2> QED
    BY <2>1, <2>2, <2>4, <2>5
<1>15. raw[1] = lead /\ raw[2] = size + 128
  <2>1. 1 \in 1..Len(raw) /\ 2 \in 1..Len(raw) /\ 1 <= 6 + size /\ 2 <= 6 + size
    BY <1>9, <1>11, <1>12
  <2> QED
    BY <1>8, <1>14, <2>1
<1>16. LengthField(raw) = size /\ Masked(raw)
  BY <1>12, <1>15 DEF LengthField, Masked
<1>17. LengthEnd(raw) = 2 /\ PayloadLength(raw) = size /\ PayloadStart(raw) = 6
  BY <1>12, <1>16 DEF LengthEnd, PayloadLength, PayloadStart
<1>18. FrameEnd(raw) = 6 + size
  BY <1>17 DEF FrameEnd
<1>19. ~ Len(raw) < 2 /\ ~ Len(raw) < 2 + size /\ ~ Len(raw) < 6 + size
  BY <1>9, <1>10, <1>17, <1>18 DEF FrameType, Other
<1>20. 6 + size <= Len(raw)
  BY <1>9, <1>12, <1>19
<1>21. type = WholeType(raw, Len(raw))
  <2>1. ~ Len(raw) < 3
    BY <1>9, <1>11
  <2>2. ~ Len(raw) < LengthEnd(raw) /\ ~ Len(raw) < LengthEnd(raw) + PayloadLength(raw)
    BY <1>17, <1>19
  <2>3. ~ Len(raw) < FrameEnd(raw)
    BY <1>18, <1>19
  <2> QED
    BY <2>1, <2>2, <2>3, Zenon DEF FrameType
<1>22. type = DataType(raw, Len(raw))
  BY <1>10, <1>21 DEF WholeType, Other
<1> HIDE DEF type
<1>23. PICK d \in BOOLEAN, c \in BOOLEAN, b \in BOOLEAN :
          /\ d = (Fin(raw) = 1) /\ b = (Len(raw) > FrameEnd(raw))
          /\ type = [kind |-> "data", done |-> d, binary |-> c, behind |-> b]
  <2>1. (Fin(raw) = 1) \in BOOLEAN /\ (Opcode(raw) = 2) \in BOOLEAN
        /\ (Len(raw) > FrameEnd(raw)) \in BOOLEAN
    OBVIOUS
  <2> QED
    BY <1>22, <2>1, Zenon DEF DataType
<1>24. type.done = d /\ type.behind = b
  BY <1>23
<1>25. type.done <=> lead >= 128
  <2>1. type.done <=> Fin(raw) = 1
    BY <1>23, <1>24, Zenon
  <2>2. Fin(raw) = lead \div 128
    BY <1>15 DEF Fin
  <2>3. lead \div 128 = 1 <=> lead >= 128
    OBVIOUS
  <2> QED
    BY <2>1, <2>2, <2>3
<1>26. type.behind <=> 6 + size < Len(raw)
  <2>1. type.behind <=> Len(raw) > FrameEnd(raw)
    BY <1>23, <1>24, Zenon
  <2> QED
    BY <1>9, <1>12, <1>18, <2>1
<1>27. GetFrame(raw).msg = SubSeq(raw, 7, 6 + size)
  BY <1>10, <1>11, <1>17, <1>18 DEF GetFrame
<1>28. GetFrame(raw).rest = SubSeq(raw, 6 + size + 1, Len(raw))
  BY <1>10, <1>11, <1>18 DEF GetFrame
<1>29. SubSeq(raw, 7, 6 + size) = p
  <2>1. /\ SubSeq(raw, 7, 6 + size) \in ByteSeq
        /\ Len(SubSeq(raw, 7, 6 + size)) = IF 7 <= 6 + size THEN 6 + size - 7 + 1 ELSE 0
        /\ \A j \in 1..Len(SubSeq(raw, 7, 6 + size)) :
             SubSeq(raw, 7, 6 + size)[j] = raw[7 + j - 1]
    BY <1>12, <1>20, SubSeqIs
  <2>2. Len(SubSeq(raw, 7, 6 + size)) = size
    BY <1>12, <2>1
  <2>3. ASSUME NEW j \in 1..size PROVE SubSeq(raw, 7, 6 + size)[j] = p[j]
    <3>1. 7 + j - 1 = 6 + j /\ 6 + j \in 1..Len(raw) /\ 6 + j <= 6 + size
      BY <1>9, <1>12, <1>20
    <3>2. raw[6 + j] = F[6 + j]
      BY <1>8, <3>1
    <3>3. SubSeq(raw, 7, 6 + size)[j] = raw[7 + j - 1]
      BY <2>1, <2>2, Zenon
    <3>4. F[6 + j] = p[j]
      BY <1>14
    <3> QED
      BY <3>1, <3>2, <3>3, <3>4, Zenon
  <2> QED
    BY <1>5, <2>1, <2>2, <2>3 DEF ByteSeq
<1>30. /\ 6 + size <= Len(raw)
       /\ GetFrame(raw).msg = p
       /\ GetFrame(raw).rest = SubSeq(raw, 6 + size + 1, Len(raw))
       /\ GetFrame(raw).type.done <=> lead >= 128
       /\ GetFrame(raw).type.behind <=> 6 + size < Len(raw)
  BY <1>10, <1>20, <1>25, <1>26, <1>27, <1>28, <1>29
<1> QED
  BY <1>2, <1>3, <1>4, <1>30, Zenon

(* A close frame is not, however much of it is there. *)
LEMMA CloseDecoded ==
  ASSUME NEW raw \in ByteSeq, 1 <= Len(raw) => raw[1] = 136
  PROVE GetFrame(raw).type.kind # "data"
<1>1. Len(raw) \in Nat
  BY DEF ByteSeq
<1>2. GetFrame(raw).type = FrameType(raw, Len(raw))
  BY DEF GetFrame
<1>3. CASE Len(raw) < 3
  BY <1>2, <1>3 DEF FrameType, Other
<1>4. CASE ~ Len(raw) < 3
  <2>1. Opcode(raw) = 8
    BY <1>1, <1>4 DEF Opcode
  <2>2. WholeType(raw, Len(raw)).kind # "data"
    BY <2>1 DEF WholeType, Other
  <2> QED
    BY <1>2, <2>2 DEF FrameType, Other
<1> QED
  BY <1>3, <1>4

(* Where the messages are in the stream. *)
LEMMA WireFacts ==
  ASSUME Typed
  PROVE /\ Wire(sent) \in Seq(ByteSeq) /\ Len(Wire(sent)) = Len(sent) /\ Len(sent) \in Nat
        /\ Bytes(Wire(sent)) = FlatTo(Wire(sent), Len(sent)) /\ Bytes(Wire(sent)) \in ByteSeq
        /\ Start(sent, 0) = 0
        /\ \A n \in 0..Len(sent) : /\ FlatTo(Wire(sent), n) \in ByteSeq
                                   /\ Start(sent, n) \in Nat /\ Start(sent, n) <= Len(Bytes(Wire(sent)))
                                   /\ \A x \in 1..Start(sent, n) : Bytes(Wire(sent))[x] = FlatTo(Wire(sent), n)[x]
        /\ \A k \in 1..Len(sent) :
             /\ FlatTo(Wire(sent), k) = FlatTo(Wire(sent), k - 1) \o Bytes(Frames(k, sent[k]))
             /\ Start(sent, k) = Start(sent, k - 1) + Len(Bytes(Frames(k, sent[k])))
             /\ Bytes(Frames(k, sent[k])) \in ByteSeq
<1>1. Len(sent) \in Nat
  BY DEF Typed, TypedClient
<1>2. \A k \in 1..Len(sent) : Bytes(Frames(k, sent[k])) \in ByteSeq
  <2> SUFFICES ASSUME NEW k \in 1..Len(sent) PROVE Bytes(Frames(k, sent[k])) \in ByteSeq
    OBVIOUS
  <2>1. MessageOf(sent[k]) /\ k \in Nat
    BY SentAre
  <2> QED
    BY <2>1, FrameEnds
<1>3. Wire(sent) \in Seq(ByteSeq) /\ Len(Wire(sent)) = Len(sent)
      /\ \A k \in 1..Len(sent) : Wire(sent)[k] = Bytes(Frames(k, sent[k]))
  BY <1>1, <1>2 DEF Wire
<1> HIDE DEF Wire
<1>4. /\ \A i \in 0..Len(sent) : FlatTo(Wire(sent), i) \in ByteSeq
      /\ FlatTo(Wire(sent), 0) = <<>>
      /\ \A i \in 1..Len(sent) : FlatTo(Wire(sent), i) = FlatTo(Wire(sent), i - 1) \o Wire(sent)[i]
      /\ FlattenSeq(Wire(sent)) = FlatTo(Wire(sent), Len(sent))
  BY <1>3, FlatFacts DEF ByteSeq
<1>5. Bytes(Wire(sent)) = FlatTo(Wire(sent), Len(sent))
  BY <1>4 DEF Bytes
<1>6. Start(sent, 0) = 0
  BY <1>4 DEF Start
<1>7. Len(sent) \in 0..Len(Wire(sent))
  BY <1>1, <1>3
<1>8. \A n \in 0..Len(sent) : /\ Start(sent, n) \in Nat /\ Start(sent, n) <= Len(Bytes(Wire(sent)))
                              /\ \A x \in 1..Start(sent, n) : Bytes(Wire(sent))[x] = FlatTo(Wire(sent), n)[x]
  BY <1>3, <1>5, <1>7, FlatMonotone DEF Start
<1>9. ASSUME NEW k \in 1..Len(sent)
      PROVE /\ FlatTo(Wire(sent), k) = FlatTo(Wire(sent), k - 1) \o Bytes(Frames(k, sent[k]))
            /\ Start(sent, k) = Start(sent, k - 1) + Len(Bytes(Frames(k, sent[k])))
  <2>1. FlatTo(Wire(sent), k) = FlatTo(Wire(sent), k - 1) \o Bytes(Frames(k, sent[k]))
    BY <1>3, <1>4
  <2>2. k - 1 \in 0..Len(sent)
    BY <1>1
  <2>3. FlatTo(Wire(sent), k - 1) \in ByteSeq /\ Bytes(Frames(k, sent[k])) \in ByteSeq
    BY <1>2, <1>4, <2>2
  <2>4. Len(FlatTo(Wire(sent), k)) = Len(FlatTo(Wire(sent), k - 1)) + Len(Bytes(Frames(k, sent[k])))
    BY <2>1, <2>3, ByteSeqFacts
  <2> QED
    BY <2>1, <2>4 DEF Start
<1>10. Bytes(Wire(sent)) \in ByteSeq
  BY <1>3, <1>4, <1>5, <1>7
<1> QED
  BY <1>1, <1>2, <1>3, <1>4, <1>5, <1>6, <1>8, <1>9, <1>10

(* The close frame. *)
LEMMA CloseIs ==
  /\ ClientHeader(136, 0) \in ByteSeq /\ Len(ClientHeader(136, 0)) = 6
  /\ ClientHeader(136, 0)[1] = 136
<1>1. ClientHeader(136, 0) = <<136, 0 + 128, KeyByte, KeyByte, KeyByte, KeyByte>>
  BY ClientHeaderIs
<1>2. 136 \in Nat /\ 0 + 128 \in Nat
  OBVIOUS
<1>3. ClientHeader(136, 0) \in ByteSeq /\ Len(ClientHeader(136, 0)) = 6
  BY <1>1, <1>2, SixBytes, Zenon
<1>4. ClientHeader(136, 0)[1] = 136
  BY <1>1
<1> QED
  BY <1>3, <1>4

(* Where the frames of message k + 1 end. *)
LEMMA WithinFacts ==
  ASSUME Typed, NEW k \in Nat, k < Len(sent)
  PROVE /\ MessageOf(sent[k + 1]) /\ k + 1 \in 1..Len(sent) /\ Len(sent[k + 1].parts) \in Nat \ {0}
        /\ Within(sent, k, 0) = 0
        /\ Start(sent, k) \in Nat /\ Start(sent, k + 1) \in Nat
        /\ Start(sent, k) + Within(sent, k, Len(sent[k + 1].parts)) = Start(sent, k + 1)
        /\ \A i \in 1..Len(sent[k + 1].parts) :
             /\ Within(sent, k, i) \in Nat /\ Within(sent, k, i - 1) \in Nat
             /\ Within(sent, k, i) = Within(sent, k, i - 1) + 6 + sent[k + 1].parts[i]
             /\ sent[k + 1].parts[i] \in 0..125
             /\ Start(sent, k) + Within(sent, k, i) <= Start(sent, k + 1)
<1>1. k + 1 \in 1..Len(sent) /\ k \in 0..Len(sent) /\ k + 1 \in 0..Len(sent) /\ (k + 1) - 1 = k
  BY WireFacts
<1>2. PICK m : m = sent[k + 1]
  OBVIOUS
<1>3. MessageOf(m) /\ k + 1 \in Nat
  BY <1>1, <1>2, SentAre
<1>4. Len(m.parts) \in Nat \ {0}
  BY <1>3 DEF MessageOf
<1> DEFINE F == Frames(k + 1, m)
<1>5. /\ F \in Seq(ByteSeq) /\ Len(F) = Len(m.parts)
      /\ \A i \in 1..Len(m.parts) : m.parts[i] \in 0..125 /\ Len(F[i]) = 6 + m.parts[i]
  BY <1>3, FramesType, FrameIs
<1>6. /\ Bytes(F) \in ByteSeq /\ Bytes(F) = FlatTo(F, Len(m.parts))
      /\ \A i \in 1..Len(m.parts) :
             /\ Len(FlatTo(F, i)) \in 6..Len(Bytes(F))
             /\ Len(FlatTo(F, i)) = Len(FlatTo(F, i - 1)) + Len(F[i])
  BY <1>3, FrameEnds
<1> HIDE DEF F
<1>7. FlatTo(F, 0) = <<>>
  BY <1>5, FlatFacts DEF ByteSeq
<1>8. \A i : Within(sent, k, i) = Len(FlatTo(F, i))
  BY <1>2 DEF Within, F
<1>9. Within(sent, k, 0) = 0
  BY <1>7, <1>8
<1>10. Start(sent, k) \in Nat /\ Start(sent, k + 1) \in Nat /\ Start(sent, k + 1) = Start(sent, k) + Len(Bytes(F))
  BY <1>1, <1>2, WireFacts DEF F
<1>11. Len(Bytes(F)) \in Nat
  BY <1>6 DEF ByteSeq
<1>12. \A i \in 1..Len(m.parts) : Within(sent, k, i) \in Nat /\ Start(sent, k) + Within(sent, k, i) <= Start(sent, k + 1)
  <2>1. \A l, s \in Nat : \A w \in 6..l : w \in Nat /\ s + w <= s + l
    OBVIOUS
  <2> QED
    BY <1>6, <1>8, <1>10, <1>11, <2>1, Zenon
<1>13. ASSUME NEW i \in 1..Len(m.parts)
       PROVE /\ Within(sent, k, i) = Within(sent, k, i - 1) + 6 + m.parts[i]
             /\ Within(sent, k, i - 1) \in Nat
  <2>1. Within(sent, k, i - 1) \in Nat
    <3>1. CASE i = 1
      BY <1>9, <3>1
    <3>2. CASE i # 1
      <4>1. i - 1 \in 1..Len(m.parts)
        BY <1>4, <3>2
      <4> QED
        BY <1>12, <4>1
    <3> QED
      BY <3>1, <3>2
  <2>2. Within(sent, k, i) = Within(sent, k, i - 1) + (6 + m.parts[i]) /\ m.parts[i] \in 0..125
    BY <1>5, <1>6, <1>8, Zenon
  <2>3. \A w \in Nat, p \in 0..125 : w + (6 + p) = w + 6 + p
    OBVIOUS
  <2> QED
    BY <2>1, <2>2, <2>3, Zenon
<1>14. Start(sent, k) + Within(sent, k, Len(m.parts)) = Start(sent, k + 1)
  BY <1>6, <1>8, <1>10
<1> QED
  BY <1>1, <1>2, <1>3, <1>4, <1>5, <1>9, <1>10, <1>12, <1>13, <1>14

(* Each frame is in the stream. *)
LEMMA StreamAt ==
  ASSUME Typed, Laid, NEW k \in Nat, k < Len(sent), NEW i \in 1..Len(sent[k + 1].parts),
         NEW j \in 1..Len(Frames(k + 1, sent[k + 1])[i])
  PROVE stream[Start(sent, k) + Within(sent, k, i - 1) + j] = Frames(k + 1, sent[k + 1])[i][j]
<1>1. /\ MessageOf(sent[k + 1]) /\ k + 1 \in 1..Len(sent)
      /\ Start(sent, k) \in Nat /\ Start(sent, k + 1) \in Nat
      /\ Len(sent[k + 1].parts) \in Nat \ {0}
  BY WithinFacts
<1>2. PICK m, F : m = sent[k + 1] /\ F = Frames(k + 1, m)
  OBVIOUS
<1>3. /\ F \in Seq(ByteSeq) /\ Len(F) = Len(m.parts) /\ F[i] \in ByteSeq /\ i \in 1..Len(F)
      /\ MessageOf(m) /\ k + 1 \in Nat
  <2>1. MessageOf(m) /\ k + 1 \in Nat /\ i \in 1..Len(m.parts)
    BY <1>1, <1>2
  <2> QED
    BY <1>2, <2>1, FramesType, FrameIs, Zenon
<1>4. FlatTo(F, i) = FlatTo(F, i - 1) \o F[i] /\ FlatTo(F, i) \in ByteSeq /\ FlatTo(F, i - 1) \in ByteSeq
  <2>1. /\ \A x \in 0..Len(F) : FlatTo(F, x) \in Seq(Nat)
        /\ \A x \in 1..Len(F) : FlatTo(F, x) = FlatTo(F, x - 1) \o F[x]
    BY <1>3, FlatFacts DEF ByteSeq
  <2>2. i - 1 \in 0..Len(F) /\ i \in 0..Len(F)
    BY <1>1, <1>2, <1>3
  <2> QED
    BY <1>3, <2>1, <2>2 DEF ByteSeq
<1>5. PICK w \in Nat : w = Len(FlatTo(F, i - 1)) /\ w = Within(sent, k, i - 1)
  BY <1>2, <1>4 DEF ByteSeq, Within
<1>6. PICK l \in Nat : l = Len(F[i]) /\ j \in 1..l
  BY <1>2, <1>3 DEF ByteSeq
<1>7. Len(FlatTo(F, i)) = w + l /\ FlatTo(F, i)[w + j] = F[i][j]
  <2>1. j \in 1..Len(F[i])
    BY <1>6
  <2>2. PICK a, b : a = FlatTo(F, i - 1) /\ b = F[i]
    OBVIOUS
  <2>3. a \in ByteSeq /\ b \in ByteSeq /\ j \in 1..Len(b)
    BY <1>3, <1>4, <2>1, <2>2, Zenon
  <2>4. Len(a \o b) = Len(a) + Len(b) /\ (a \o b)[Len(a) + j] = b[j]
    BY <2>3, ByteSeqFacts, BehindAt, Zenon
  <2> QED
    BY <1>4, <1>5, <1>6, <2>2, <2>4
<1>8. w + j \in 1..Len(FlatTo(F, i))
  BY <1>6, <1>7
<1>9. Bytes(F) \in ByteSeq /\ Bytes(F)[w + j] = F[i][j] /\ w + j \in 1..Len(Bytes(F))
  <2>1. /\ Bytes(Frames(k + 1, m)) = FlatTo(Frames(k + 1, m), Len(m.parts))
        /\ Bytes(Frames(k + 1, m)) \in ByteSeq
    BY <1>3, FrameEnds, Zenon
  <2>4. Bytes(F) = FlatTo(F, Len(F)) /\ Bytes(F) \in ByteSeq
    BY <1>2, <1>3, <2>1, Zenon
  <2>2. Len(F) \in 0..Len(F) /\ i \in 0..Len(F)
    BY <1>1, <1>2, <1>3
  <2>3. /\ Len(FlatTo(F, i)) <= Len(FlatTo(F, Len(F)))
        /\ \A x \in 1..Len(FlatTo(F, i)) : FlatTo(F, Len(F))[x] = FlatTo(F, i)[x]
    BY <1>3, <2>2, FlatMonotone
  <2> QED
    BY <1>7, <1>8, <2>4, <2>3 DEF ByteSeq
<1>10. PICK s \in Nat : s = Start(sent, k) /\ s = Len(FlatTo(Wire(sent), k))
  BY <1>1 DEF Start
<1>11. FlatTo(Wire(sent), k + 1)[s + (w + j)] = F[i][j] /\ s + (w + j) \in 1..Start(sent, k + 1)
  <2>1. /\ FlatTo(Wire(sent), k + 1) = FlatTo(Wire(sent), k) \o Bytes(F)
        /\ FlatTo(Wire(sent), k) \in ByteSeq
        /\ Start(sent, k + 1) = s + Len(Bytes(F))
    <3>1. (k + 1) - 1 = k /\ k \in 0..Len(sent)
      BY WireFacts
    <3> QED
      BY <1>1, <1>2, <1>10, <3>1, WireFacts
  <2>2. s + (w + j) \in 1..Len(FlatTo(Wire(sent), k + 1)) /\ FlatTo(Wire(sent), k + 1)[s + (w + j)] = F[i][j]
    BY <1>9, <1>10, <2>1, BehindAt, Zenon
  <2>3. Len(FlatTo(Wire(sent), k + 1)) = Start(sent, k + 1)
    BY DEF Start
  <2> QED
    BY <2>2, <2>3, Zenon
<1>12. Bytes(Wire(sent))[s + (w + j)] = F[i][j] /\ s + (w + j) \in 1..Len(Bytes(Wire(sent)))
  <2>1. k + 1 \in 0..Len(sent)
    BY <1>1
  <2>2. Start(sent, k + 1) <= Len(Bytes(Wire(sent))) /\ Bytes(Wire(sent)) \in ByteSeq
        /\ \A x \in 1..Start(sent, k + 1) : Bytes(Wire(sent))[x] = FlatTo(Wire(sent), k + 1)[x]
    BY <2>1, WireFacts
  <2>3. Len(Bytes(Wire(sent))) \in Nat
    BY <2>2 DEF ByteSeq
  <2>4. \A b, e \in Nat : \A x \in 1..b : b <= e => x \in 1..e
    OBVIOUS
  <2> QED
    BY <1>1, <1>11, <2>2, <2>3, <2>4, Zenon
<1>13. stream[s + (w + j)] = F[i][j]
  <2>1. CASE stream = Bytes(Wire(sent))
    BY <1>12, <2>1
  <2>2. CASE stream = Bytes(Wire(sent)) \o ClientHeader(136, 0)
    <3>1. Bytes(Wire(sent)) \in ByteSeq /\ ClientHeader(136, 0) \in ByteSeq
      BY CloseIs, WireFacts
    <3>2. /\ Len(Bytes(Wire(sent))) \in Nat /\ Len(stream) = Len(Bytes(Wire(sent))) + Len(ClientHeader(136, 0))
          /\ \A p \in 1..Len(stream) :
               stream[p] = IF p <= Len(Bytes(Wire(sent))) THEN Bytes(Wire(sent))[p]
                           ELSE ClientHeader(136, 0)[p - Len(Bytes(Wire(sent)))]
      BY <2>2, <3>1, ConcatAt, Zenon
    <3>3. Len(stream) = Len(Bytes(Wire(sent))) + 6
      BY <3>2, CloseIs, Zenon
    <3>4. s + (w + j) \in 1..Len(stream) /\ s + (w + j) <= Len(Bytes(Wire(sent)))
      BY <1>12, <3>2, <3>3
    <3> QED
      BY <1>12, <3>2, <3>4, Zenon
  <2> QED
    BY <2>1, <2>2 DEF Laid
<1>14. s + (w + j) = s + w + j
  BY <1>6
<1> QED
  BY <1>2, <1>5, <1>10, <1>13, <1>14

(* A part of a part. *)
LEMMA SubSubSeq ==
  ASSUME NEW s \in ByteSeq, NEW a \in Nat, NEW b \in Nat, NEW c \in Nat, b <= Len(s), a + c <= b
  PROVE /\ SubSeq(s, a + 1, b) \in ByteSeq /\ Len(SubSeq(s, a + 1, b)) = b - a
        /\ SubSeq(SubSeq(s, a + 1, b), c + 1, b - a) = SubSeq(s, a + c + 1, b)
<1>0. Len(s) \in Nat
  BY DEF ByteSeq
<1>1. a + 1 \in Nat /\ 1 <= a + 1 /\ c + 1 \in Nat /\ 1 <= c + 1 /\ b - a \in Nat
      /\ a + c + 1 \in Nat /\ 1 <= a + c + 1 /\ a + c + 1 <= b + 1
      /\ (IF a + 1 <= b THEN b - (a + 1) + 1 ELSE 0) = b - a
      /\ (IF c + 1 <= b - a THEN (b - a) - (c + 1) + 1 ELSE 0) = b - a - c
      /\ (IF a + c + 1 <= b THEN b - (a + c + 1) + 1 ELSE 0) = b - a - c
      /\ b - a - c \in Nat
  BY <1>0
<1>2. PICK u : u = SubSeq(s, a + 1, b)
  OBVIOUS
<1>3. /\ u \in ByteSeq /\ Len(u) = b - a
      /\ \A k \in 1..b - a : u[k] = s[a + 1 + k - 1]
  BY <1>1, <1>2, SubSeqIs
<1>4. PICK v : v = SubSeq(u, c + 1, b - a)
  OBVIOUS
<1>5. b - a <= Len(u)
  BY <1>0, <1>3
<1>6. /\ v \in ByteSeq /\ Len(v) = b - a - c
      /\ \A k \in 1..b - a - c : v[k] = u[c + 1 + k - 1]
  <2>1. /\ SubSeq(u, c + 1, b - a) \in ByteSeq
        /\ Len(SubSeq(u, c + 1, b - a)) = IF c + 1 <= b - a THEN (b - a) - (c + 1) + 1 ELSE 0
        /\ \A k \in 1..Len(SubSeq(u, c + 1, b - a)) : SubSeq(u, c + 1, b - a)[k] = u[c + 1 + k - 1]
    <3>1. c + 1 \in Nat /\ 1 <= c + 1 /\ b - a \in Nat
      BY <1>1
    <3> QED
      BY <1>3, <1>5, <3>1, SubSeqIs, Zenon
  <2> QED
    BY <1>1, <1>4, <2>1, Zenon
<1>7. PICK x : x = SubSeq(s, a + c + 1, b)
  OBVIOUS
<1>8. /\ x \in ByteSeq /\ Len(x) = b - a - c
      /\ \A k \in 1..b - a - c : x[k] = s[a + c + 1 + k - 1]
  <2>1. /\ SubSeq(s, a + c + 1, b) \in ByteSeq
        /\ Len(SubSeq(s, a + c + 1, b)) = IF a + c + 1 <= b THEN b - (a + c + 1) + 1 ELSE 0
        /\ \A k \in 1..Len(SubSeq(s, a + c + 1, b)) :
             SubSeq(s, a + c + 1, b)[k] = s[a + c + 1 + k - 1]
    BY <1>1, SubSeqIs, Zenon
  <2> QED
    BY <1>1, <1>7, <2>1, Zenon
<1>9. ASSUME NEW k \in 1..b - a - c PROVE v[k] = x[k]
  <2>1. c + k \in 1..b - a /\ c + 1 + k - 1 = c + k /\ a + 1 + (c + k) - 1 = a + c + k
        /\ a + c + 1 + k - 1 = a + c + k
    BY <1>1
  <2>2. v[k] = u[c + k] /\ u[c + k] = s[a + c + k] /\ x[k] = s[a + c + k]
    BY <1>3, <1>6, <1>8, <2>1
  <2> QED
    BY <2>2
<1>10. v = x
  <2>1. v \in Seq(Nat) /\ x \in Seq(Nat) /\ Len(v) = Len(x)
    BY <1>6, <1>8 DEF ByteSeq
  <2>2. \A k \in 1..Len(v) : v[k] = x[k]
    BY <1>6, <1>9
  <2> QED
    BY <2>1, <2>2, SeqEqual, Zenon
<1> QED
  BY <1>2, <1>3, <1>4, <1>7, <1>10

(* Decoding what is behind o, where frame i of message k begins. *)
LEMMA DecodedAt ==
  ASSUME NEW b \in ByteSeq, NEW g \in Nat, g <= Len(b), NEW o \in Nat, o <= g,
         NEW k \in Nat, NEW m, MessageOf(m), NEW i \in 1..Len(m.parts),
         FrameBehind(b, o, k, m, i), GetFrame(SubSeq(b, o + 1, g)).type.kind = "data"
  PROVE LET frame == GetFrame(SubSeq(b, o + 1, g))
        IN /\ o + (6 + m.parts[i]) <= g
           /\ frame.msg = Payload(k, m.parts[i])
           /\ frame.rest = SubSeq(b, o + (6 + m.parts[i]) + 1, g)
           /\ frame.type.done <=> i = Len(m.parts)
           /\ frame.type.behind <=> o + (6 + m.parts[i]) < g
<1>1. m.parts[i] \in 0..125 /\ Len(Frames(k, m)[i]) = 6 + m.parts[i]
  BY FrameIs
<1>2. PICK size \in 0..125 : size = m.parts[i]
  BY <1>1
<1>3. PICK z \in Nat : z = 6 + size
  OBVIOUS
<1>4. PICK raw : raw = SubSeq(b, o + 1, g)
  OBVIOUS
<1>5. /\ raw \in ByteSeq /\ Len(raw) = g - o
      /\ \A j \in 1..g - o : raw[j] = b[o + 1 + j - 1]
  <2>1. o + 1 \in Nat /\ 1 <= o + 1
        /\ (IF o + 1 <= g THEN g - (o + 1) + 1 ELSE 0) = g - o
    OBVIOUS
  <2> QED
    BY <1>4, <2>1, SubSeqIs
<1>6. FrameIn(raw, k, m, i)
  <2>1. SUFFICES ASSUME NEW j \in 1..Len(raw), j <= Len(Frames(k, m)[i])
                 PROVE raw[j] = Frames(k, m)[i][j]
    BY Zenon DEF FrameIn
  <2>2. j \in 1..g - o /\ o + 1 + j - 1 = o + j
    BY <1>5
  <2>3. j \in 1..6 + size
    <3>1. j <= 6 + size
      BY <1>1, <1>2, <2>1, Zenon
    <3> QED
      BY <2>2, <3>1
  <2>4. b[o + j] = Frames(k, m)[i][j]
    BY <1>1, <1>2, <2>3, Zenon DEF FrameBehind
  <2> QED
    BY <1>5, <2>2, <2>4, Zenon
<1>7. /\ 6 + m.parts[i] <= Len(raw)
      /\ GetFrame(raw).msg = Payload(k, m.parts[i])
      /\ GetFrame(raw).rest = SubSeq(raw, 6 + m.parts[i] + 1, Len(raw))
      /\ GetFrame(raw).type.done <=> i = Len(m.parts)
      /\ GetFrame(raw).type.behind <=> 6 + m.parts[i] < Len(raw)
  <2>1. GetFrame(raw).type.kind = "data" /\ raw \in ByteSeq
    BY <1>4, <1>5
  <2> QED
    BY <1>6, <2>1, PartDecoded, Zenon
<1>8. z <= g - o /\ (GetFrame(raw).type.behind <=> z < g - o)
  BY <1>2, <1>3, <1>5, <1>7, Zenon
<1>9. o + z <= g /\ (GetFrame(raw).type.behind <=> o + z < g)
  <2>1. (o + z <= g <=> z <= g - o) /\ (o + z < g <=> z < g - o)
    OBVIOUS
  <2> QED
    BY <1>8, <2>1, Zenon
<1>10. SubSeq(SubSeq(b, o + 1, g), z + 1, g - o) = SubSeq(b, o + z + 1, g)
  BY <1>9, SubSubSeq
<1> QED
  BY <1>2, <1>3, <1>4, <1>5, <1>7, <1>9, <1>10, Zenon

(* What was received behind frame i - 1 of message k + 1 is decoded as     *)
(* frame i.                                                                *)
LEMMA FrameIsNext ==
  ASSUME Typed, Laid, NEW k \in Nat, k < Len(sent), NEW i \in 1..Len(sent[k + 1].parts),
         Behind(sent, k, i - 1) <= got,
         GetFrame(SubSeq(stream, Behind(sent, k, i - 1) + 1, got)).type.kind = "data"
  PROVE LET frame == GetFrame(SubSeq(stream, Behind(sent, k, i - 1) + 1, got))
        IN /\ Behind(sent, k, i) <= got
           /\ frame.msg = Payload(k + 1, sent[k + 1].parts[i])
           /\ frame.rest = SubSeq(stream, Behind(sent, k, i) + 1, got)
           /\ frame.type.done <=> i = Len(sent[k + 1].parts)
           /\ frame.type.behind <=> Behind(sent, k, i) < got
<1>1. /\ MessageOf(sent[k + 1]) /\ k + 1 \in Nat /\ sent[k + 1].parts[i] \in 0..125
      /\ Start(sent, k) \in Nat /\ Within(sent, k, i - 1) \in Nat
      /\ Within(sent, k, i) = Within(sent, k, i - 1) + 6 + sent[k + 1].parts[i]
  BY WithinFacts
<1>2. PICK m, n : m = sent[k + 1] /\ n = k + 1
  OBVIOUS
<1>3. PICK size \in 0..125 : size = m.parts[i]
  BY <1>1, <1>2
<1>4. MessageOf(m) /\ n \in Nat /\ i \in 1..Len(m.parts)
  BY <1>1, <1>2
<1>5. stream \in ByteSeq /\ got \in Nat /\ got <= Len(stream)
  BY DEF ByteSeq, Typed, TypedClient
<1>6. PICK o \in Nat : o = Behind(sent, k, i - 1) /\ o + (6 + size) = Behind(sent, k, i)
  <2>1. \A y \in 0..125, c, d \in Nat : (c + d) + (6 + y) = c + (d + 6 + y) /\ c + d \in Nat
    OBVIOUS
  <2>2. PICK c \in Nat, d \in Nat : c = Start(sent, k) /\ d = Within(sent, k, i - 1)
    BY <1>1
  <2>3. Behind(sent, k, i - 1) = c + d /\ Behind(sent, k, i) = c + (d + 6 + size)
    BY <1>1, <1>2, <1>3, <2>2, Zenon DEF Behind
  <2>4. c + d \in Nat /\ (c + d) + (6 + size) = c + (d + 6 + size)
    BY <2>1, Zenon
  <2>5. c + d = Behind(sent, k, i - 1) /\ (c + d) + (6 + size) = Behind(sent, k, i)
    BY <2>3, <2>4, Zenon
  <2> QED
    BY <2>4, <2>5, Zenon
<1>7. FrameBehind(stream, o, n, m, i)
  BY <1>2, <1>6, StreamAt, Zenon DEF Behind, FrameBehind
<1>8. LET frame == GetFrame(SubSeq(stream, o + 1, got))
      IN /\ o + (6 + m.parts[i]) <= got
         /\ frame.msg = Payload(n, m.parts[i])
         /\ frame.rest = SubSeq(stream, o + (6 + m.parts[i]) + 1, got)
         /\ frame.type.done <=> i = Len(m.parts)
         /\ frame.type.behind <=> o + (6 + m.parts[i]) < got
  <2>1. o <= got /\ GetFrame(SubSeq(stream, o + 1, got)).type.kind = "data"
    BY <1>6
  <2> QED
    BY <1>4, <1>5, <1>7, <2>1, DecodedAt, Zenon
<1> QED
  BY <1>2, <1>3, <1>6, <1>8, Zenon

(* Behind all messages there is none. *)
LEMMA NoFrame ==
  ASSUME Typed, Laid, Start(sent, Len(sent)) <= got, NEW raw,
         raw = SubSeq(stream, Start(sent, Len(sent)) + 1, got)
  PROVE GetFrame(raw).type.kind # "data" /\ (stream = Bytes(Wire(sent)) => got = Start(sent, Len(sent)))
<1>1. PICK o \in Nat : o = Start(sent, Len(sent)) /\ o = Len(Bytes(Wire(sent)))
  BY WireFacts DEF ByteSeq, Start
<1>2. got \in Nat /\ stream \in ByteSeq /\ got <= Len(stream) /\ Len(stream) \in Nat
  BY DEF ByteSeq, Typed, TypedClient
<1>3. PICK g \in Nat : g = got
  BY <1>2
<1>4. /\ raw \in ByteSeq /\ Len(raw) = g - o
      /\ \A j \in 1..g - o : raw[j] = stream[o + 1 + j - 1]
  <2>1. o + 1 \in Nat /\ 1 <= o + 1 /\ g <= Len(stream) /\ o <= g
        /\ (IF o + 1 <= g THEN g - (o + 1) + 1 ELSE 0) = g - o
    BY <1>1, <1>2, <1>3
  <2> QED
    BY <1>1, <1>2, <1>3, <2>1, SubSeqIs
<1>5. stream = Bytes(Wire(sent)) => g = o
  BY <1>1, <1>2, <1>3
<1>6. 1 <= Len(raw) => raw[1] = 136
  <2> SUFFICES ASSUME 1 <= Len(raw) PROVE raw[1] = 136
    OBVIOUS
  <2>1. 1 \in 1..g - o /\ o + 1 + 1 - 1 = o + 1 /\ ~ g = o
    <3>1. 1 <= g - o
      BY <1>4
    <3> QED
      BY <3>1
  <2>2. stream = Bytes(Wire(sent)) \o ClientHeader(136, 0)
    BY <1>5, <2>1 DEF Laid
  <2>3. Bytes(Wire(sent)) \in ByteSeq /\ ClientHeader(136, 0) \in ByteSeq /\ 1 \in 1..Len(ClientHeader(136, 0))
    BY CloseIs, WireFacts
  <2>4. (Bytes(Wire(sent)) \o ClientHeader(136, 0))[Len(Bytes(Wire(sent))) + 1] = ClientHeader(136, 0)[1]
    BY <2>3, BehindAt
  <2>5. stream[o + 1] = 136
    BY <1>1, <2>2, <2>4, CloseIs
  <2> QED
    BY <1>4, <2>1, <2>5
<1> QED
  BY <1>1, <1>3, <1>4, <1>5, <1>6, CloseDecoded

(* Offsets grow with the frames. *)
LEMMA BehindFacts ==
  ASSUME Typed, NEW n \in Nat, n < Len(sent)
  PROVE /\ n + 1 \in 1..Len(sent) /\ Len(sent[n + 1].parts) \in Nat \ {0}
        /\ Behind(sent, n, 0) = Start(sent, n)
        /\ Behind(sent, n, Len(sent[n + 1].parts)) = Start(sent, n + 1)
        /\ \A i \in 1..Len(sent[n + 1].parts) : Behind(sent, n, i) \in Nat
        /\ \A i \in 1..Len(sent[n + 1].parts) - 1 : Behind(sent, n, i) < Start(sent, n + 1)
        /\ Start(sent, n) \in Nat /\ Start(sent, n + 1) \in Nat
        /\ Start(sent, n) <= Start(sent, n + 1)
<1>1. PICK l \in Nat \ {0} : l = Len(sent[n + 1].parts)
  BY WithinFacts
<1>2. PICK a \in Nat, b \in Nat : a = Start(sent, n) /\ b = Start(sent, n + 1)
  BY WithinFacts
<1>3. Within(sent, n, 0) = 0 /\ a + Within(sent, n, l) = b /\ n + 1 \in 1..Len(sent)
  BY <1>1, <1>2, WithinFacts, Zenon
<1>4. /\ \A i \in 1..l : /\ Within(sent, n, i) \in Nat /\ Within(sent, n, i - 1) \in Nat
                         /\ sent[n + 1].parts[i] \in 0..125
                         /\ Within(sent, n, i) = Within(sent, n, i - 1) + 6 + sent[n + 1].parts[i]
                         /\ a + Within(sent, n, i) <= b
  BY <1>1, <1>2, WithinFacts, Zenon
<1>5. Behind(sent, n, 0) = a
  BY <1>2, <1>3 DEF Behind
<1>6. Behind(sent, n, l) = b
  BY <1>2, <1>3, Zenon DEF Behind
<1>7. \A i \in 1..l : Behind(sent, n, i) \in Nat
  <2>1. \A x, y \in Nat : x + y \in Nat
    OBVIOUS
  <2> QED
    BY <1>2, <1>4, <2>1, Zenon DEF Behind
<1>8. ASSUME NEW i \in 1..l - 1 PROVE Behind(sent, n, i) < b
  <2>1. i + 1 \in 1..l /\ (i + 1) - 1 = i
    BY <1>1
  <2>2. PICK x \in Nat, y \in Nat, z \in 0..125 :
          x = Within(sent, n, i) /\ y = Within(sent, n, i + 1) /\ y = x + 6 + z /\ a + y <= b
    BY <1>4, <2>1
  <2>3. a + x < b
    <3>1. \A d \in 0..125 : \A u \in Nat : a + (u + 6 + d) <= b => a + u < b
      OBVIOUS
    <3> QED
      BY <2>2, <3>1, Zenon
  <2> QED
    BY <1>2, <2>2, <2>3, Zenon DEF Behind
<1>9. a <= b
  <2>1. l \in 1..l
    BY <1>1
  <2>2. PICK x \in Nat : x = Within(sent, n, l)
    BY <1>4, <2>1
  <2>3. a + x = b
    BY <1>3, <2>2
  <2> QED
    BY <2>3
<1> QED
  BY <1>1, <1>2, <1>3, <1>5, <1>6, <1>7, <1>8, <1>9, Zenon

(* What the first frames of a message carry. *)
LEMMA PartFacts ==
  ASSUME Typed, NEW n \in Nat, n < Len(sent)
  PROVE /\ Part(sent, n, 0) = <<>>
        /\ \A i \in 0..Len(sent[n + 1].parts) : Part(sent, n, i) \in ByteSeq
        /\ \A i \in 1..Len(sent[n + 1].parts) :
             Part(sent, n, i) = Part(sent, n, i - 1) \o Payload(n + 1, sent[n + 1].parts[i])
        /\ Part(sent, n, Len(sent[n + 1].parts)) = Text(sent, n + 1)
<1>1. PICK m, k : m = sent[n + 1] /\ k = n + 1
  OBVIOUS
<1>2. MessageOf(m) /\ k \in Nat
  BY <1>1, WithinFacts
<1>3. /\ \A i \in 0..Len(m.parts) : FlatTo(Payloads(k, m), i) \in ByteSeq
      /\ FlatTo(Payloads(k, m), 0) = <<>>
      /\ \A i \in 1..Len(m.parts) :
           FlatTo(Payloads(k, m), i) = FlatTo(Payloads(k, m), i - 1) \o Payload(k, m.parts[i])
      /\ Bytes(Payloads(k, m)) = FlatTo(Payloads(k, m), Len(m.parts))
  BY <1>2, PayloadsAre, Zenon
<1> QED
  BY <1>1, <1>3, Zenon DEF Part, Text

-----------------------------------------------------------------------------
(* One frame more *)

(* Behind n messages and `text' of the next, decoded up to o; *)
UpTo(n, p, c, text, o) == Begins(sent, n, p, c, text, o) \/ Midway(sent, n, p, c, text, o)

(* the next frame is one of that message. *)
Continues(n, text, frame) ==
  /\ n < Len(sent)
  /\ \E i \in 1..Len(sent[n + 1].parts) :
       /\ Behind(sent, n, i) <= got
       /\ text \o frame.msg = Part(sent, n, i)
       /\ frame.rest = SubSeq(stream, Behind(sent, n, i) + 1, got)
       /\ frame.type.done <=> i = Len(sent[n + 1].parts)
       /\ frame.type.behind <=> Behind(sent, n, i) < got

(* Of the first message of a call: frame i of it. *)
LEMMA FirstFrame ==
  ASSUME Typed, Laid, NEW n \in Nat, NEW p, NEW c, NEW text \in ByteSeq, NEW o \in 0..got,
         UpTo(n, p, c, text, o), GetFrame(SubSeq(stream, o + 1, got)).type.kind = "data"
  PROVE Continues(n, text, GetFrame(SubSeq(stream, o + 1, got)))
<1>1. /\ n < Len(sent)
      /\ \E i \in 1..Len(sent[n + 1].parts) :
           text = Part(sent, n, i - 1) /\ o = Behind(sent, n, i - 1)
  <2>1. CASE Begins(sent, n, p, c, text, o)
    <3>1. n <= Len(sent) /\ o = Start(sent, n) /\ text = <<>>
      BY <2>1, Zenon DEF Begins
    <3>2. n # Len(sent)
      <4> SUFFICES ASSUME n = Len(sent) PROVE FALSE
        OBVIOUS
      <4>1. o = Start(sent, Len(sent)) /\ o <= got
        BY <3>1
      <4> QED
        BY <4>1, NoFrame
    <3>3. Len(sent) \in Nat
      BY WireFacts
    <3>4. n < Len(sent)
      BY <3>1, <3>2, <3>3
    <3>5. 1 \in 1..Len(sent[n + 1].parts) /\ 1 - 1 = 0
      BY <3>4, BehindFacts
    <3>6. text = Part(sent, n, 1 - 1) /\ o = Behind(sent, n, 1 - 1)
      BY <3>1, <3>4, <3>5, BehindFacts, PartFacts, Zenon
    <3> QED
      BY <3>4, <3>5, <3>6, Zenon
  <2>2. CASE Midway(sent, n, p, c, text, o)
    <3>1. n < Len(sent)
      BY <2>2, Zenon DEF Midway
    <3>2. PICK i \in 1..Len(sent[n + 1].parts) - 1 :
            text = Part(sent, n, i) /\ o = Behind(sent, n, i)
      BY <2>2, Zenon DEF Midway
    <3>3. i + 1 \in 1..Len(sent[n + 1].parts) /\ (i + 1) - 1 = i
      BY <3>1, BehindFacts
    <3>4. text = Part(sent, n, (i + 1) - 1) /\ o = Behind(sent, n, (i + 1) - 1)
      BY <3>2, <3>3, Zenon
    <3> QED
      BY <3>1, <3>3, <3>4, Zenon
  <2> QED
    BY <2>1, <2>2 DEF UpTo
<1>2. PICK i \in 1..Len(sent[n + 1].parts) :
        text = Part(sent, n, i - 1) /\ o = Behind(sent, n, i - 1)
  BY <1>1, Zenon
<1>3. Behind(sent, n, i - 1) <= got
  BY <1>2
<1>4. LET frame == GetFrame(SubSeq(stream, o + 1, got))
      IN /\ Behind(sent, n, i) <= got
         /\ frame.msg = Payload(n + 1, sent[n + 1].parts[i])
         /\ frame.rest = SubSeq(stream, Behind(sent, n, i) + 1, got)
         /\ frame.type.done <=> i = Len(sent[n + 1].parts)
         /\ frame.type.behind <=> Behind(sent, n, i) < got
  BY <1>1, <1>2, <1>3, FrameIsNext, Zenon
<1>5. Part(sent, n, i) = text \o GetFrame(SubSeq(stream, o + 1, got)).msg
  BY <1>1, <1>2, <1>4, PartFacts, Zenon
<1> QED
  BY <1>1, <1>4, <1>5, Zenon DEF Continues

(* Behind a whole message: a message of one frame. *)
LEMMA FurtherFrame ==
  ASSUME Typed, Laid, Sending, NEW n \in Nat, Len(delivered) <= n, n < Len(sent),
         Start(sent, n + 1) <= got,
         GetFrame(SubSeq(stream, Start(sent, n + 1) + 1, got)).type.kind = "data"
  PROVE LET frame == GetFrame(SubSeq(stream, Start(sent, n + 1) + 1, got))
        IN /\ n + 1 < Len(sent)
           /\ Start(sent, n + 2) <= got
           /\ frame.msg = Text(sent, n + 2)
           /\ frame.rest = SubSeq(stream, Start(sent, n + 2) + 1, got)
           /\ frame.type.done
           /\ frame.type.behind <=> Start(sent, n + 2) < got
<1>1. Len(sent) \in Nat /\ Len(delivered) \in Nat
  BY WireFacts DEF Typed, TypedLists
<1>2. n + 1 # Len(sent)
  <2> SUFFICES ASSUME n + 1 = Len(sent) PROVE FALSE
    OBVIOUS
  <2>1. Start(sent, Len(sent)) <= got
        /\ GetFrame(SubSeq(stream, Start(sent, Len(sent)) + 1, got)).type.kind = "data"
    BY Zenon
  <2> QED
    BY <2>1, NoFrame, Zenon
<1>3. n + 1 < Len(sent)
  BY <1>1, <1>2
<1>4. PICK k \in Nat : k = n + 1 /\ k + 1 = n + 2 /\ k < Len(sent)
  BY <1>3
<1>5. k + 1 \in 1..Len(sent)
  BY <1>1, <1>4
<1>6. Len(sent[k + 1].parts) = 1
  <2>1. ~ k + 1 <= Len(delivered) + 1
    BY <1>1, <1>4
  <2> QED
    BY <1>5, <2>1, Zenon DEF Sending
<1>7. 1 \in 1..Len(sent[k + 1].parts) /\ 1 - 1 = 0
  BY <1>6
<1>8. /\ Behind(sent, k, 1 - 1) = Start(sent, n + 1) /\ Behind(sent, k, 1) = Start(sent, n + 2)
      /\ Part(sent, k, 1) = Text(sent, n + 2) /\ Part(sent, k, 1 - 1) = <<>>
      /\ Part(sent, k, 1) = Part(sent, k, 1 - 1) \o Payload(k + 1, sent[k + 1].parts[1])
  BY <1>4, <1>6, <1>7, BehindFacts, PartFacts, Zenon
<1>9. Payload(k + 1, sent[k + 1].parts[1]) = Text(sent, n + 2)
  <2>1. Payload(k + 1, sent[k + 1].parts[1]) \in ByteSeq
    <3>1. MessageOf(sent[k + 1]) /\ k + 1 \in Nat
      BY <1>4, WithinFacts
    <3>2. PICK m : m = sent[k + 1]
      OBVIOUS
    <3> QED
      BY <1>7, <3>1, <3>2, PayloadsAre, Zenon
  <2>2. <<>> \o Payload(k + 1, sent[k + 1].parts[1]) = Payload(k + 1, sent[k + 1].parts[1])
    BY <2>1, ByteSeqFacts, Zenon
  <2> QED
    BY <1>8, <2>2, Zenon
<1>10. LET frame == GetFrame(SubSeq(stream, Behind(sent, k, 1 - 1) + 1, got))
       IN /\ Behind(sent, k, 1) <= got
          /\ frame.msg = Payload(k + 1, sent[k + 1].parts[1])
          /\ frame.rest = SubSeq(stream, Behind(sent, k, 1) + 1, got)
          /\ frame.type.done <=> 1 = Len(sent[k + 1].parts)
          /\ frame.type.behind <=> Behind(sent, k, 1) < got
  <2>1. Behind(sent, k, 1 - 1) <= got
        /\ GetFrame(SubSeq(stream, Behind(sent, k, 1 - 1) + 1, got)).type.kind = "data"
    BY <1>8, Zenon
  <2> QED
    BY <1>4, <1>7, <2>1, FrameIsNext, Zenon
<1> QED
  BY <1>3, <1>6, <1>8, <1>9, <1>10, Zenon

-----------------------------------------------------------------------------
(* Lists of whole messages *)

(* Where several threads take messages, any place is as good,              *)
LEMMA TextAnywhere ==
  ASSUME NEW s, NEW threads, NEW msg, NEW i, NEW j, IsText(s, threads, msg, i),
         ~One(threads) \/ i = j
  PROVE IsText(s, threads, msg, j)
BY Zenon DEF IsText

(* for the messages of a list as well.                                     *)
LEMMA ListAnywhere ==
  ASSUME NEW s, NEW threads, NEW list, NEW i, NEW j, ListIs(s, threads, list, i),
         ~One(threads) \/ i = j \/ list = <<>>
  PROVE ListIs(s, threads, list, j)
<1>1. CASE list = <<>>
  <2>1. \A k \in 1..Len(list) : FALSE
    BY <1>1
  <2> QED
    BY <2>1, Zenon DEF ListIs
<1>2. CASE ~One(threads) \/ i = j
  BY <1>2, TextAnywhere, Zenon DEF ListIs
<1> QED
  BY <1>1, <1>2

(* The head of a list, and what is behind it. *)
LEMMA ListIsTail ==
  ASSUME Typed, pending # <<>>, pending' = Tail(pending), pushes' = pushes, NEW s, NEW threads,
         NEW n \in Nat, ListIs(s, threads, pending, n)
  PROVE /\ Head(pending).done /\ IsText(s, threads, Head(pending).msg, n + 1)
        /\ ListIs(s, threads, pending', n + 1)
        /\ Len(pending) = Len(pending') + 1 /\ Len(pending') \in Nat
<1>1. /\ Len(pending) \in Nat \ {0} /\ Head(pending) = pending[1]
      /\ pending' \in Seq(Elements) /\ Len(pending') = Len(pending) - 1
      /\ \A i \in 1..Len(pending') : pending'[i] = pending[i + 1]
  BY ListWithoutHead
<1>2. \A j \in 1..Len(pending) : pending[j].done /\ IsText(s, threads, pending[j].msg, n + j)
  BY Zenon DEF ListIs
<1>3. Head(pending).done /\ IsText(s, threads, Head(pending).msg, n + 1)
  <2>1. 1 \in 1..Len(pending)
    BY <1>1
  <2> QED
    BY <1>1, <1>2, <2>1, Zenon
<1>4. ListIs(s, threads, pending', n + 1)
  <2>1. SUFFICES ASSUME NEW j \in 1..Len(pending')
                 PROVE pending'[j].done /\ IsText(s, threads, pending'[j].msg, n + 1 + j)
    BY Zenon DEF ListIs
  <2>2. j + 1 \in 1..Len(pending) /\ n + (j + 1) = n + 1 + j
    BY <1>1
  <2> QED
    BY <1>1, <1>2, <2>2, Zenon
<1> QED
  BY <1>1, <1>3, <1>4

(* One message more at the end of the list. *)
LEMMA ListIsMore ==
  ASSUME NEW list, NEW more, NEW s, NEW threads, NEW n \in Nat, ListIs(s, threads, list, n),
         Len(list) \in Nat, Len(more) = Len(list) + 1,
         \A i \in 1..Len(list) : more[i] = list[i],
         more[Len(list) + 1].done, IsText(s, threads, more[Len(list) + 1].msg, n + (Len(list) + 1))
  PROVE ListIs(s, threads, more, n)
<1>1. SUFFICES ASSUME NEW j \in 1..Len(more)
               PROVE more[j].done /\ IsText(s, threads, more[j].msg, n + j)
  BY Zenon DEF ListIs
<1>2. CASE j = Len(list) + 1
  BY <1>2, Zenon
<1>3. CASE j # Len(list) + 1
  <2>1. j \in 1..Len(list)
    BY <1>1, <1>3
  <2>2. list[j].done /\ IsText(s, threads, list[j].msg, n + j)
    BY <2>1, Zenon DEF ListIs
  <2> QED
    BY <2>1, <2>2, Zenon
<1> QED
  BY <1>2, <1>3

(* One message more that was returned. *)
LEMMA GivenIsMore ==
  ASSUME NEW given, NEW more, NEW s, NEW threads, GivenIs(s, threads, given),
         Len(given) \in Nat, Len(more) = Len(given) + 1,
         \A i \in 1..Len(given) : more[i] = given[i],
         IsText(s, threads, more[Len(given) + 1].msg, Len(given) + 1)
  PROVE GivenIs(s, threads, more)
<1>1. SUFFICES ASSUME NEW j \in 1..Len(more) PROVE IsText(s, threads, more[j].msg, j)
  BY Zenon DEF GivenIs
<1>2. CASE j = Len(given) + 1
  BY <1>2, Zenon
<1>3. CASE j # Len(given) + 1
  <2>1. j \in 1..Len(given)
    BY <1>1, <1>3
  <2>2. IsText(s, threads, given[j].msg, j)
    BY <2>1, Zenon DEF GivenIs
  <2> QED
    BY <2>1, <2>2, Zenon
<1> QED
  BY <1>2, <1>3

-----------------------------------------------------------------------------
(* Who reads *)

(* Only one thread reads, while the socket is open,                        *)
LEMMA ReaderIsBusy ==
  ASSUME InStep, NEW t \in client.threads, Reading(t), client.threads \subseteq Threads
  PROVE Busy(t)
<1>1. t \in Threads
  OBVIOUS
<1>2. ~Closed /\ ~Aborted
  BY <1>1 DEF Aborted, Closed, Reading
<1>3. ~Idle
  BY <1>1 DEF Idle, Reading, Resting
<1>4. PICK u \in client.threads : Busy(u)
  BY <1>2, <1>3 DEF InStep
<1>5. u = t
  BY <1>1, <1>4 DEF Busy, Reading, Resting
<1> QED
  BY <1>4, <1>5

(* and another one finds the socket closed, nobody reading, or several     *)
(* threads to be there.                                                    *)
LEMMA OthersRest ==
  ASSUME InStep, NEW t \in client.threads, ~Reading(t), pc[t] # "aborted",
         client.threads \subseteq Threads
  PROVE \/ Closed
        \/ pc[t] # "abandon" /\ Idle
        \/ pc[t] # "abandon" /\ \E u \in client.threads : u # t /\ ~Single /\ Busy(u)
<1>1. t \in Threads
  OBVIOUS
<1>2. ~Aborted
  BY <1>1 DEF Aborted
<1>3. CASE Idle
  BY <1>1, <1>3 DEF Idle, Resting
<1>4. CASE \E u \in client.threads : Busy(u)
  <2>1. PICK u \in client.threads : Busy(u)
    BY <1>4
  <2>2. u # t
    BY <2>1 DEF Busy
  <2>3. ~Single
    BY <2>2 DEF One, Single
  <2>4. pc[t] # "abandon"
    BY <1>1, <2>1, <2>2 DEF Busy, Resting
  <2> QED
    BY <2>1, <2>2, <2>3, <2>4
<1> QED
  BY <1>2, <1>3, <1>4 DEF InStep

(* What a step of another thread leaves of the one that reads. *)
LEMMA StaysBusy ==
  ASSUME NEW u \in client.threads, Busy(u), ~Single,
         pc'[u] = pc[u], call'[u] = call[u], file'[u] = file[u],
         raw_msg'[u] = raw_msg[u], raw_str'[u] = raw_str[u],
         client' = client, sent' = sent, stream' = stream, got' = got, conn' = conn, ~Polled',
         Len(delivered') + Len(pending') = Len(delivered) + Len(pending),
         \A v \in Threads : v # u => Resting(v)',
         \A i, j : ListIs(sent, client.threads, pending, i) => ListIs(sent, client.threads, pending', j)
  PROVE Busy(u)'
<1>1. (Reading(u))'
  BY DEF Busy, Reading
<1>2. CASE FirstMessage(u)
  <2>1. PICK o \in 0..got :
       /\ \/ Begins(sent, Len(delivered) + Len(pending), pc[u], call[u], file[u] \o raw_msg[u], o)
          \/ Midway(sent, Len(delivered) + Len(pending), pc[u], call[u], file[u] \o raw_msg[u], o)
       /\ Buffered(pc[u], raw_str[u], stream, got, o)
    BY <1>2, Zenon DEF FirstMessage
  <2>2. \E x \in 0..got' :
       /\ \/ Begins(sent', Len(delivered') + Len(pending'), pc'[u], call'[u], file'[u] \o raw_msg'[u], x)
          \/ Midway(sent', Len(delivered') + Len(pending'), pc'[u], call'[u], file'[u] \o raw_msg'[u], x)
       /\ Buffered(pc'[u], raw_str'[u], stream', got', x)
    BY <2>1, Zenon
  <2>3. /\ call'[u].first \/ call'[u].last_is_CONTIN
        /\ ~call'[u].already_done /\ call'[u].str = 0
        /\ ListIs(sent', client'.threads, pending', Len(delivered'))
        /\ ~Single'
    BY <1>2, Zenon DEF FirstMessage, Single
  <2>4. (FirstMessage(u))'
    BY <2>2, <2>3, Zenon DEF FirstMessage
  <2> QED
    BY <1>1, <2>4, Zenon DEF Busy
<1>3. CASE Further(u)
  <2>1. /\ Len(delivered') + Len(pending') < Len(sent')
        /\ Buffered(pc'[u], raw_str'[u], stream', got',
                    Start(sent', Len(delivered') + Len(pending') + 1))
        /\ pc'[u] # "read"
        /\ pc'[u] = "pushed" =>
             (call'[u].type.behind <=> Start(sent', Len(delivered') + Len(pending') + 1) < got')
        /\ ~call'[u].first /\ ~call'[u].last_is_CONTIN
        /\ call'[u].already_done /\ call'[u].type.done
    BY <1>3, Zenon DEF Further
  <2>2. IsText(sent', client'.threads, file'[u] \o raw_msg'[u], Len(delivered') + 1)
    BY <1>3, TextAnywhere, Zenon DEF Further, Single
  <2>3. ListIs(sent', client'.threads, pending', Len(delivered') + 1)
    BY <1>3, Zenon DEF Further
  <2>4. (Further(u))'
    BY <2>1, <2>2, <2>3, Zenon DEF Further
  <2> QED
    BY <1>1, <2>4, Zenon DEF Busy
<1> QED
  BY <1>2, <1>3 DEF Busy

(* The bytes, and when the client sends, after a step of the server. *)
LEMMA ClientWaits ==
  ASSUME Laid, Sending, UNCHANGED clientVars, Len(delivered) \in Nat, Len(delivered') \in Nat,
         Len(delivered) <= Len(delivered'), client.pipelined = {} => pending' = <<>>, Typed
  PROVE Laid' /\ Sending'
<1>1. sent' = sent /\ stream' = stream /\ finished' = finished /\ client' = client
  BY DEF clientVars
<1>2. Laid'
  BY <1>1, Zenon DEF Laid
<1>3. Len(sent) \in Nat
  BY WireFacts
<1>4. \A k \in 1..Len(sent) : k <= Len(delivered) => k <= Len(delivered')
  OBVIOUS
<1>5. \A k \in 1..Len(sent) : k <= Len(delivered) + 1 => k <= Len(delivered') + 1
  OBVIOUS
<1>6. Len(sent) <= Len(delivered) + 1 => Len(sent) <= Len(delivered') + 1
  BY <1>3
<1>7. Sending'
  BY <1>1, <1>4, <1>5, <1>6, Zenon DEF Sending
<1> QED
  BY <1>2, <1>7

-----------------------------------------------------------------------------
(* The steps of a thread that does not read *)

(* It takes a message from the list,                                       *)
LEMMA OrderedTaken ==
  ASSUME Typed, Steady, Ordered, NEW t \in client.threads, pc[t] \in {"msg_recv", "wait"},
         pending # <<>>, pending' = Tail(pending), pushes' = pushes,
         NEW binary \in BOOLEAN, Returns(t, Head(pending).msg, binary),
         UNCHANGED <<clientVars, got, conn, epollVars, raw_str, raw_msg, call, file>>
  PROVE Ordered'
<1>1. t \in Threads /\ client.threads \subseteq Threads
  BY ClientFacts DEF Typed, TypedClient
<1>2. /\ client' = client /\ sent' = sent /\ stream' = stream /\ got' = got /\ conn' = conn
      /\ (Polled' <=> Polled)
      /\ raw_str' = raw_str /\ raw_msg' = raw_msg /\ call' = call /\ file' = file
  BY DEF Polled, clientVars, epollVars
<1>3. /\ Head(pending) \in Elements /\ Len(pending) = Len(pending') + 1 /\ Len(pending') \in Nat
      /\ Len(delivered) \in Nat
  BY ListWithoutHead DEF Typed, TypedLists
<1>4. /\ Len(delivered') = Len(delivered) + 1
      /\ \A i \in 1..Len(delivered) : delivered'[i] = delivered[i]
      /\ delivered'[Len(delivered) + 1].msg = Head(pending).msg
  <2>1. Head(pending).msg \in ByteSeq
    BY <1>3 DEF Elements
  <2> QED
    <3>1. /\ Len(delivered') = Len(delivered) + 1
          /\ \A i \in 1..Len(delivered) : delivered'[i] = delivered[i]
          /\ delivered'[Len(delivered) + 1] = [msg |-> Head(pending).msg, binary |-> binary]
      BY <1>1, <2>1, ReturnsType, Zenon
    <3> QED
      BY <3>1
<1>5. pc'[t] = "msg_recv" /\ \A v \in Threads : v # t => pc'[v] = pc[v]
  BY <1>1 DEF Returns, Set, Typed, TypedThreads
<1>6. Laid' /\ Sending' /\ Filed'
  <2>1. client.pipelined = {} => FALSE
    BY DEF Ordered, Sending
  <2>2. Len(delivered') \in Nat /\ Len(delivered) <= Len(delivered')
    BY <1>3, <1>4
  <2>3. Laid' /\ Sending'
    BY <1>3, <2>1, <2>2, ClientWaits DEF Ordered
  <2> QED
    BY <1>2, <2>3 DEF Filed, Ordered
<1>7. Owning'
  <2>1. ~(client.partially /\ ~Single)
    BY DEF Ordered, Sending, Steady
  <2> QED
    BY <1>2, <2>1, Zenon DEF Owning, Single
<1>8. Len(delivered') + Len(pending') = Len(delivered) + Len(pending)
  BY <1>3, <1>4
<1>9. CASE Idle
  <2>1. ListIs(sent, client.threads, pending, Len(delivered))
    BY <1>9 DEF Idle
  <2>2. /\ IsText(sent, client.threads, Head(pending).msg, Len(delivered) + 1)
        /\ ListIs(sent, client.threads, pending', Len(delivered) + 1)
    BY <1>3, <2>1, ListIsTail
  <2>3. GivenIs(sent, client.threads, delivered')
    BY <1>3, <1>4, <2>2, GivenIsMore DEF Ordered
  <2>4. \A v \in Threads : Resting(v)'
    BY <1>2, <1>5, <1>9 DEF Idle, Resting
  <2>5. Single' => \A v \in client.threads : pc'[v] = "wait" => pending' = <<>>
    BY <1>2, <1>5 DEF One, Single
  <2>6. Idle'
    BY <1>2, <1>4, <1>8, <1>9, <2>2, <2>4, <2>5, Zenon DEF Idle
  <2> QED
    BY <1>2, <1>6, <1>7, <2>3, <2>6, Zenon DEF InStep, Ordered
<1>10. CASE pc[t] # "abandon" /\ \E u \in client.threads : u # t /\ ~Single /\ Busy(u)
  <2>1. PICK u \in client.threads : u # t /\ ~Single /\ Busy(u)
    BY <1>10
  <2>2. PICK n \in Nat : ListIs(sent, client.threads, pending, n)
    <3>1. Len(delivered) + 1 \in Nat
      BY <1>3
    <3> QED
      BY <1>3, <2>1, <3>1, Zenon DEF Busy, FirstMessage, Further
  <2>3. /\ IsText(sent, client.threads, Head(pending).msg, n + 1)
        /\ ListIs(sent, client.threads, pending', n + 1)
    BY <2>2, ListIsTail
  <2>4. \A j : ListIs(sent, client.threads, pending', j)
    BY <2>1, <2>3, ListAnywhere, Zenon DEF Single
  <2>5. IsText(sent, client.threads, Head(pending).msg, Len(delivered) + 1)
    BY <2>1, <2>3, TextAnywhere, Zenon DEF Single
  <2>6. GivenIs(sent, client.threads, delivered')
    BY <1>3, <1>4, <2>5, GivenIsMore DEF Ordered
  <2>7. \A v \in Threads : v # u => Resting(v)'
    BY <1>2, <1>5, <2>1 DEF Busy, Resting
  <2>8. u \in Threads /\ ~Polled'
    BY <1>1, <1>2, <2>1 DEF Busy
  <2>9. Busy(u)'
    BY <1>2, <1>5, <1>8, <2>1, <2>4, <2>7, <2>8, StaysBusy
  <2> QED
    BY <1>2, <1>6, <1>7, <2>6, <2>9, Zenon DEF InStep, Ordered
<1>11. ~Closed
  BY DEF Closed
<1> QED
  <2>1. InStep /\ ~Reading(t) /\ pc[t] # "aborted"
    BY DEF Ordered, Reading
  <2> QED
    BY <1>1, <1>9, <1>10, <1>11, <2>1, OthersRest

(* or finds nothing there.                                                 *)
LEMMA OrderedWaits ==
  ASSUME Typed, Steady, Ordered, NEW t \in client.threads, pc[t] = "msg_recv", pending = <<>>,
         pc' = Set(pc, t, "wait"), owners' = owners \ {t},
         UNCHANGED epollVars \/ (client.partially /\ EpollOn(t \in owners)),
         UNCHANGED <<clientVars, got, conn, pending, raw_str, raw_msg, call, file, delivered>>
  PROVE Ordered'
<1>1. t \in Threads /\ client.threads \subseteq Threads
  BY ClientFacts DEF Typed, TypedClient
<1>2. /\ client' = client /\ sent' = sent /\ stream' = stream /\ got' = got /\ conn' = conn
      /\ raw_str' = raw_str /\ raw_msg' = raw_msg /\ call' = call /\ file' = file
      /\ pending' = pending /\ delivered' = delivered
  BY DEF clientVars
<1>3. pc'[t] = "wait" /\ \A v \in Threads : v # t => pc'[v] = pc[v]
  BY <1>1 DEF Set, Typed, TypedThreads
<1>4. Laid' /\ Sending' /\ Filed'
  <2>1. Len(delivered) \in Nat /\ Len(delivered') \in Nat /\ Len(delivered) <= Len(delivered')
    BY <1>2 DEF Typed, TypedLists
  <2>2. Laid' /\ Sending'
    BY <1>2, <2>1, ClientWaits DEF Ordered
  <2> QED
    BY <1>2, <2>2 DEF Filed, Ordered
<1>9. Polled' => Polled \/ (client.partially /\ t \in owners)
  BY DEF EpollOn, Polled, epollVars
<1>5. Owning'
  <2>1. ASSUME client.partially, ~Single
        PROVE /\ Polled' => owners' = {}
              /\ \A v, u \in owners' : v = u
              /\ \A v \in Threads : Reading(v)' => owners' \subseteq {v}
    <3>1. /\ Polled => owners = {}
          /\ \A v, u \in owners : v = u
          /\ \A v \in Threads : Reading(v) => owners \subseteq {v}
      BY <2>1 DEF Ordered, Owning
    <3>2. Polled' => owners' = {}
      BY <1>9, <3>1
    <3>3. \A v \in Threads : Reading(v)' => owners' \subseteq {v}
      BY <1>3, <3>1 DEF Reading
    <3> QED
      BY <3>1, <3>2, <3>3
  <2> QED
    BY <1>2, <2>1, Zenon DEF Owning, Single
<1>6. CASE Closed
  <2>1. ~Reading(t)'
    BY <1>3 DEF Reading
  <2>2. \A v \in Threads : ~Reading(v)'
    BY <1>3, <1>6, <2>1 DEF Closed, Reading
  <2>3. Closed'
    BY <1>2, <1>6, <2>2, Zenon DEF Closed
  <2> QED
    BY <1>2, <1>4, <1>5, <2>3, Zenon DEF InStep, Ordered
<1>7. CASE Idle
  <2>1. \A v \in Threads : Resting(v)'
    BY <1>2, <1>3, <1>7 DEF Idle, Resting
  <2>2. Idle'
    BY <1>2, <1>7, <2>1, Zenon DEF Idle
  <2> QED
    BY <1>2, <1>4, <1>5, <2>2, Zenon DEF InStep, Ordered
<1>8. CASE pc[t] # "abandon" /\ \E u \in client.threads : u # t /\ ~Single /\ Busy(u)
  <2>1. PICK u \in client.threads : u # t /\ ~Single /\ Busy(u)
    BY <1>8
  <2>2. \A i, j : ListIs(sent, client.threads, pending, i) => ListIs(sent, client.threads, pending', j)
    BY <1>2, ListAnywhere, Zenon
  <2>3. \A v \in Threads : v # u => Resting(v)'
    BY <1>2, <1>3, <2>1 DEF Busy, Resting
  <2>4. u \in Threads /\ ~Polled
    BY <1>1, <2>1 DEF Busy
  <2>5. client.partially => t \notin owners
    BY <2>1, <2>4 DEF Busy, Ordered, Owning
  <2>6. ~Polled'
    BY <1>9, <2>4, <2>5
  <2>7. Busy(u)'
    BY <1>2, <1>3, <2>1, <2>2, <2>3, <2>4, <2>6, StaysBusy
  <2> QED
    BY <1>2, <1>4, <1>5, <2>7, Zenon DEF InStep, Ordered
<1> QED
  <2>1. InStep /\ ~Reading(t) /\ pc[t] # "aborted"
    BY DEF Ordered, Reading
  <2> QED
    BY <1>1, <1>6, <1>7, <1>8, <2>1, OthersRest

(* It is given the socket.                                                 *)
LEMMA OrderedTake ==
  ASSUME Typed, Steady, Ordered, NEW t \in client.threads, Take(t), UNCHANGED file
  PROVE Ordered'
<1>1. t \in Threads /\ client.threads \subseteq Threads
  BY ClientFacts DEF Typed, TypedClient
<1>2. /\ client' = client /\ sent' = sent /\ stream' = stream /\ got' = got /\ conn' = conn
      /\ ~Polled' /\ raw_str' = raw_str /\ pending' = pending /\ delivered' = delivered
      /\ file' = file
  BY DEF Polled, Take, clientVars, listVars
<1>3. pc[t] = "wait" /\ Polled
  BY DEF Polled, Take
<1>4. pc'[t] = "read" /\ (\A v \in Threads : v # t => pc'[v] = pc[v]) /\ raw_msg'[t] = <<>>
  BY <1>1 DEF Set, Take, Typed, TypedThreads
<1>5. call'[t] = NewCall(FALSE)
  BY <1>1, CallsAnew DEF Take
<1>6. call'[t].first /\ ~call'[t].popped /\ ~call'[t].already_done /\ call'[t].str = 0
  BY <1>5 DEF NewCall
<1>7. Laid' /\ Sending' /\ Filed'
  <2>1. Len(delivered) \in Nat /\ Len(delivered') \in Nat /\ Len(delivered) <= Len(delivered')
    BY <1>2 DEF Typed, TypedLists
  <2>2. (client.pipelined = {} => pending' = <<>>) /\ UNCHANGED clientVars
    BY <1>2 DEF Ordered, Sending, Take
  <2>3. Laid' /\ Sending'
    BY <2>1, <2>2, ClientWaits DEF Ordered
  <2> QED
    BY <1>2, <2>3 DEF Filed, Ordered
<1>8. Idle
  <2>1. ~Reading(t) /\ pc[t] # "aborted"
    BY <1>3 DEF Reading
  <2>2. ~Closed
    BY <1>3 DEF Closed, Polled, Typed, TypedSocket
  <2>3. \A u \in client.threads : ~Busy(u)
    BY <1>3 DEF Busy
  <2> QED
    BY <1>1, <2>1, <2>2, <2>3, OthersRest DEF Ordered
<1>9. Owning'
  <2>1. ASSUME client.partially, ~Single
        PROVE /\ ~Polled'
              /\ \A v, u \in owners' : v = u
              /\ \A v \in Threads : Reading(v)' => owners' \subseteq {v}
    <3>1. owners = {}
      BY <1>3, <2>1 DEF Ordered, Owning
    <3>2. owners' \subseteq {t}
      BY <3>1 DEF Owns, Take
    <3>3. \A v \in Threads : Reading(v)' => v = t
      BY <1>4, <1>8 DEF Idle, Reading, Resting
    <3> QED
      BY <1>2, <3>2, <3>3
  <2> QED
    BY <1>2, <2>1, Zenon DEF Owning, Single
<1>10. Busy(t)'
  <2>1. \A v \in Threads : v # t => Resting(v)'
    BY <1>2, <1>4, <1>8 DEF Idle, Resting
  <2>2. Reading(t)'
    BY <1>4 DEF Reading
  <2>3. PICK o : o = got /\ o = Start(sent, Len(delivered) + Len(pending)) /\ o \in 0..got
    BY <1>8 DEF Idle, Typed, TypedClient, ByteSeq
  <2>4. file'[t] \o raw_msg'[t] = <<>>
    BY <1>1, <1>2, <1>4, <1>8 DEF Idle, Resting
  <2>5. Begins(sent', Len(delivered') + Len(pending'), pc'[t], call'[t], file'[t] \o raw_msg'[t], o)
    BY <1>2, <1>4, <1>6, <1>8, <2>3, <2>4 DEF Begins, Idle
  <2>6. Buffered(pc'[t], raw_str'[t], stream', got', o)
    BY <1>2, <1>4, <2>3 DEF Buffered
  <2>7. ListIs(sent', client'.threads, pending', Len(delivered'))
    BY <1>2, <1>8, Zenon DEF Idle
  <2>8. Single' => pending' = <<>>
    BY <1>2, <1>3, <1>8, Zenon DEF Idle, Single
  <2>9. o \in 0..got'
    BY <1>2, <2>3
  <2>10. FirstMessage(t)'
    BY <1>6, <2>5, <2>6, <2>7, <2>8, <2>9, Zenon DEF FirstMessage
  <2> QED
    BY <1>2, <1>8, <2>1, <2>2, <2>10, Zenon DEF Busy, Idle
<1> QED
  BY <1>2, <1>7, <1>9, <1>10, Zenon DEF InStep, Ordered

(* The application gives up a message: the socket is closed.               *)
LEMMA OrderedAbandon ==
  ASSUME Typed, Steady, Ordered, NEW t \in client.threads, Abandon(t), client.partially
  PROVE Ordered'
<1>1. t \in Threads /\ client.threads \subseteq Threads
  BY ClientFacts DEF Typed, TypedClient
<1>2. /\ client' = client /\ sent' = sent /\ conn' = conn /\ (Polled' <=> Polled)
      /\ owners' = owners /\ pending' = pending /\ delivered' = delivered
  BY DEF Abandon, Polled, clientVars, epollVars, listVars, socketVars
<1>3. pc'[t] = "msg_recv" /\ \A v \in Threads : v # t => pc'[v] = pc[v]
  BY <1>1 DEF Abandon, Set, Typed, TypedThreads
<1>4. Closed
  <2>1. pc[t] = "abandon" /\ ~Reading(t) /\ pc[t] # "aborted"
    BY DEF Abandon, Reading
  <2> QED
    BY <1>1, <2>1, OthersRest DEF Ordered
<1>5. Laid' /\ Sending' /\ Filed'
  <2>1. Len(delivered) \in Nat /\ Len(delivered') \in Nat /\ Len(delivered) <= Len(delivered')
    BY <1>2 DEF Typed, TypedLists
  <2>2. (client.pipelined = {} => pending' = <<>>) /\ UNCHANGED clientVars
    BY <1>2 DEF Abandon, Ordered, Sending
  <2>3. Laid' /\ Sending'
    BY <2>1, <2>2, ClientWaits DEF Ordered
  <2> QED
    BY <1>2, <2>3 DEF Filed, Ordered
<1>6. \A v \in Threads : ~Reading(v)'
  BY <1>3, <1>4 DEF Closed, Reading
<1>7. Owning'
  <2>1. ~Polled' /\ owners' = {}
    BY <1>2, <1>4 DEF Closed, Polled, Typed, TypedSocket
  <2> QED
    BY <2>1 DEF Owning
<1>8. Closed'
  BY <1>2, <1>4, <1>6, Zenon DEF Closed
<1> QED
  BY <1>2, <1>5, <1>7, <1>8, Zenon DEF InStep, Ordered

-----------------------------------------------------------------------------
(* The steps of the one that reads *)

(* It closes the socket,                                                   *)
LEMMA OrderedRefuse ==
  ASSUME Typed, Steady, Ordered, NEW t \in client.threads, Reading(t), Refuse(t), UNCHANGED file
  PROVE Ordered'
<1>1. t \in Threads /\ client.threads \subseteq Threads
  BY ClientFacts DEF Typed, TypedClient
<1>2. Busy(t)
  BY <1>1, ReaderIsBusy DEF Ordered
<1>3. /\ client' = client /\ sent' = sent /\ conn' = "closed" /\ ~Polled' /\ owners' = {}
      /\ pending' = <<>> /\ delivered' = delivered /\ file' = file
  BY <1>2 DEF Busy, Polled, Refuse, clientVars
<1>4. pc'[t] \in {"abandon", "wait"} /\ \A v \in Threads : v # t => pc'[v] = pc[v]
  BY <1>1 DEF Refuse, Set, Typed, TypedThreads
<1>5. Laid' /\ Sending' /\ Filed'
  <2>1. Len(delivered) \in Nat /\ Len(delivered') \in Nat /\ Len(delivered) <= Len(delivered')
    BY <1>3 DEF Typed, TypedLists
  <2>2. (client.pipelined = {} => pending' = <<>>) /\ UNCHANGED clientVars
    BY <1>3 DEF Refuse
  <2>3. Laid' /\ Sending'
    BY <2>1, <2>2, ClientWaits DEF Ordered
  <2> QED
    BY <1>3, <2>3 DEF Filed, Ordered
<1>6. \A v \in Threads : ~Reading(v)'
  BY <1>2, <1>4 DEF Busy, Reading, Resting
<1>7. Owning'
  BY <1>3 DEF Owning
<1>8. Closed'
  BY <1>3, <1>6, Zenon DEF Closed
<1> QED
  BY <1>3, <1>5, <1>7, <1>8, Zenon DEF InStep, Ordered

(* or is ended by an exception.                                            *)
LEMMA OrderedAbort ==
  ASSUME Typed, Steady, Ordered, Abort, UNCHANGED file
  PROVE Ordered'
<1>1. /\ client' = client /\ sent' = sent /\ (Polled' <=> Polled) /\ owners' = owners
      /\ pending' = pending /\ delivered' = delivered /\ file' = file
  BY DEF Abort, Polled, clientVars, epollVars, listVars, socketVars
<1>2. \A v \in Threads : pc'[v] = "aborted"
  BY DEF Abort
<1>3. Laid' /\ Sending' /\ Filed'
  <2>1. Len(delivered) \in Nat /\ Len(delivered') \in Nat /\ Len(delivered) <= Len(delivered')
    BY <1>1 DEF Typed, TypedLists
  <2>2. (client.pipelined = {} => pending' = <<>>) /\ UNCHANGED clientVars
    BY <1>1 DEF Abort, Ordered, Sending
  <2>3. Laid' /\ Sending'
    BY <2>1, <2>2, ClientWaits DEF Ordered
  <2> QED
    BY <1>1, <2>3 DEF Filed, Ordered
<1>4. Aborted' /\ \A v \in Threads : ~Reading(v)'
  BY <1>2 DEF Aborted, Reading
<1>5. Owning'
  BY <1>1, <1>4, Zenon DEF Ordered, Owning, Single
<1> QED
  BY <1>1, <1>3, <1>4, <1>5, Zenon DEF InStep, Ordered

(* It goes on,                                                             *)
LEMMA OrderedGoesOn ==
  ASSUME Typed, Ordered, NEW t \in client.threads, Busy(t), UNCHANGED clientVars,
         conn' = conn, Polled' <=> Polled, owners' = owners, delivered' = delivered,
         client.pipelined = {} => pending' = <<>>, client.partially \/ file' = file,
         Reading(t)', \A v \in Threads : v # t => pc'[v] = pc[v] /\ file'[v] = file[v],
         (FirstMessage(t) \/ Further(t))'
  PROVE Ordered'
<1>1. t \in Threads /\ client.threads \subseteq Threads
  BY ClientFacts DEF Typed, TypedClient
<1>2. client' = client /\ sent' = sent
  BY DEF clientVars
<1>3. Laid' /\ Sending'
  <2>1. Len(delivered) \in Nat /\ Len(delivered') \in Nat /\ Len(delivered) <= Len(delivered')
    BY DEF Typed, TypedLists
  <2> QED
    BY <2>1, ClientWaits DEF Ordered
<1>4. Filed'
  BY <1>2, Zenon DEF Filed, Ordered
<1>5. \A v \in Threads : v # t => Resting(v)'
  BY DEF Busy, Resting
<1>6. Owning'
  <2>1. ASSUME client.partially, ~Single
        PROVE /\ ~Polled'
              /\ \A v, u \in owners' : v = u
              /\ \A v \in Threads : Reading(v)' => owners' \subseteq {v}
    <3>1. /\ \A v, u \in owners : v = u
          /\ owners \subseteq {t}
      BY <1>1, <2>1 DEF Busy, Ordered, Owning
    <3>2. \A v \in Threads : Reading(v)' => v = t
      BY <1>5 DEF Reading, Resting
    <3> QED
      BY <3>1, <3>2 DEF Busy
  <2> QED
    BY <1>2, <2>1, Zenon DEF Owning, Single
<1>7. Busy(t)'
  BY <1>5, Zenon DEF Busy
<1> QED
  BY <1>2, <1>3, <1>4, <1>6, <1>7, Zenon DEF InStep, Ordered

(* or returns its message.                                                 *)
LEMMA OrderedGiven ==
  ASSUME Typed, Ordered, NEW t \in client.threads, pc[t] = "return", Further(t),
         UNCHANGED <<clientVars, got, conn, listVars>>,
         NEW binary \in BOOLEAN, Returns(t, file[t] \o raw_msg[t], binary),
         client.partially => (Polled' <=> Polled) /\ owners' = owners,
         file' = Set(file, t, <<>>)
  PROVE Ordered'
<1>1. t \in Threads /\ client.threads \subseteq Threads
  BY ClientFacts DEF Typed, TypedClient
<1>2. Busy(t)
  <2>1. Reading(t)
    BY DEF Reading
  <2> QED
    BY <1>1, <2>1, ReaderIsBusy DEF Ordered
<1>3. client' = client /\ sent' = sent /\ got' = got /\ conn' = conn /\ pending' = pending
  BY DEF clientVars, listVars
<1>4. /\ Len(delivered') = Len(delivered) + 1 /\ Len(delivered) \in Nat
      /\ \A i \in 1..Len(delivered) : delivered'[i] = delivered[i]
      /\ delivered'[Len(delivered) + 1].msg = file[t] \o raw_msg[t]
  <2>1. file[t] \o raw_msg[t] \in ByteSeq
    BY <1>1, ByteSeqFacts DEF Typed, TypedThreads
  <2>2. /\ Len(delivered') = Len(delivered) + 1 /\ Len(delivered) \in Nat
        /\ \A i \in 1..Len(delivered) : delivered'[i] = delivered[i]
        /\ delivered'[Len(delivered) + 1] = [msg |-> file[t] \o raw_msg[t], binary |-> binary]
    BY <1>1, <2>1, ReturnsType, Zenon
  <2>3. \A x : [msg |-> x, binary |-> binary].msg = x
    OBVIOUS
  <2> QED
    BY <2>2, <2>3, Zenon
<1>5. pc'[t] = "msg_recv" /\ \A v \in Threads : v # t => pc'[v] = pc[v]
  BY <1>1 DEF Returns, Set, Typed, TypedThreads
<1>6. file'[t] = <<>> /\ \A v \in Threads : v # t => file'[v] = file[v]
  BY <1>1 DEF Set, Typed, TypedThreads
<1>7. \A v \in Threads : Resting(v)'
  BY <1>2, <1>5, <1>6 DEF Busy, Resting
<1>8. Laid' /\ Sending'
  <2>1. Len(delivered') \in Nat /\ Len(delivered) <= Len(delivered')
    BY <1>4
  <2>2. client.pipelined = {} => pending' = <<>>
    BY <1>3 DEF Ordered, Sending
  <2> QED
    BY <1>4, <2>1, <2>2, ClientWaits DEF Ordered
<1>9. Filed'
  BY <1>3, <1>6 DEF Filed, Ordered
<1>10. Owning'
  <2>1. ASSUME client.partially, ~Single
        PROVE /\ ~Polled'
              /\ \A v, u \in owners' : v = u
              /\ \A v \in Threads : ~Reading(v)'
    BY <1>2, <1>7, <2>1 DEF Busy, Ordered, Owning, Reading, Resting
  <2> QED
    BY <1>3, <2>1, Zenon DEF Owning, Single
<1>11. GivenIs(sent, client.threads, delivered')
  BY <1>4, GivenIsMore DEF Further, Ordered
<1>12. Idle'
  <2>1. PICK n \in Nat : /\ n = Len(delivered) + Len(pending) /\ n < Len(sent)
                         /\ n + 1 = Len(delivered') + Len(pending') /\ n + 1 <= Len(sent)
    <3>1. Len(pending) \in Nat /\ Len(sent) \in Nat
      BY WireFacts DEF Typed, TypedLists
    <3>2. Len(delivered) + Len(pending) < Len(sent)
      BY Zenon DEF Further
    <3>3. \A a, b, c \in Nat : a + b < c => a + b \in Nat /\ a + b + 1 = a + 1 + b /\ a + b + 1 <= c
      OBVIOUS
    <3> QED
      BY <1>3, <1>4, <3>1, <3>2, <3>3, Zenon
  <2>2. Buffered(pc[t], raw_str[t], stream, got, Start(sent, n + 1))
    BY <2>1, Zenon DEF Further
  <2>3. got' = Start(sent', Len(delivered') + Len(pending'))
    BY <1>3, <2>1, <2>2 DEF Buffered
  <2>4. ListIs(sent', client'.threads, pending', Len(delivered'))
    BY <1>3, <1>4, Zenon DEF Further
  <2>5. Single' => \A v \in client'.threads : pc'[v] = "wait" => pending' = <<>>
    BY <1>3, <1>5 DEF One, Single
  <2> QED
    BY <1>2, <1>3, <1>7, <2>1, <2>3, <2>4, <2>5, Zenon DEF Busy, Idle
<1> QED
  BY <1>3, <1>8, <1>9, <1>10, <1>11, <1>12, Zenon DEF InStep, Ordered

(* Two parts of a sequence, one behind the other. *)
LEMMA SubSeqJoin ==
  ASSUME NEW b \in ByteSeq, NEW o \in Nat, NEW g \in Nat, NEW h \in Nat, o <= g, g <= h, h <= Len(b)
  PROVE SubSeq(b, o + 1, g) \o SubSeq(b, g + 1, h) = SubSeq(b, o + 1, h)
<1>0. Len(b) \in Nat
  BY DEF ByteSeq
<1>1. /\ o + 1 \in Nat /\ 1 <= o + 1 /\ g + 1 \in Nat /\ 1 <= g + 1 /\ g <= Len(b)
      /\ (IF o + 1 <= g THEN g - (o + 1) + 1 ELSE 0) = g - o
      /\ (IF g + 1 <= h THEN h - (g + 1) + 1 ELSE 0) = h - g
      /\ (IF o + 1 <= h THEN h - (o + 1) + 1 ELSE 0) = h - o
      /\ (g - o) + (h - g) = h - o /\ g - o \in Nat /\ h - g \in Nat /\ h - o \in Nat
  BY <1>0
<1>2. PICK u, v, w : /\ u = SubSeq(b, o + 1, g) /\ v = SubSeq(b, g + 1, h)
                     /\ w = SubSeq(b, o + 1, h)
  OBVIOUS
<1>3. u \in ByteSeq /\ Len(u) = g - o /\ \A k \in 1..g - o : u[k] = b[o + 1 + k - 1]
  BY <1>1, <1>2, SubSeqIs
<1>4. v \in ByteSeq /\ Len(v) = h - g /\ \A k \in 1..h - g : v[k] = b[g + 1 + k - 1]
  BY <1>1, <1>2, SubSeqIs
<1>5. w \in ByteSeq /\ Len(w) = h - o /\ \A k \in 1..h - o : w[k] = b[o + 1 + k - 1]
  BY <1>1, <1>2, SubSeqIs
<1>6. /\ u \o v \in ByteSeq /\ Len(u \o v) = h - o
      /\ \A k \in 1..h - o : (u \o v)[k] = IF k <= g - o THEN u[k] ELSE v[k - (g - o)]
  <2>1. u \o v \in ByteSeq /\ Len(u \o v) = Len(u) + Len(v)
    BY <1>3, <1>4, ByteSeqFacts, Zenon
  <2>2. \A p \in 1..Len(u \o v) : (u \o v)[p] = IF p <= Len(u) THEN u[p] ELSE v[p - Len(u)]
    BY <1>3, <1>4, ConcatAt, Zenon
  <2>3. Len(u \o v) = h - o
    BY <1>1, <1>3, <1>4, <2>1, Zenon
  <2> QED
    BY <1>3, <2>1, <2>2, <2>3, Zenon
<1>7. ASSUME NEW k \in 1..h - o PROVE (u \o v)[k] = w[k]
  <2>1. CASE k <= g - o
    <3>1. k \in 1..g - o
      BY <2>1
    <3> QED
      BY <1>3, <1>5, <1>6, <2>1, <3>1, Zenon
  <2>2. CASE ~ k <= g - o
    <3>1. k - (g - o) \in 1..h - g /\ g + 1 + (k - (g - o)) - 1 = o + 1 + k - 1
      BY <2>2
    <3> QED
      BY <1>4, <1>5, <1>6, <2>2, <3>1, Zenon
  <2> QED
    BY <2>1, <2>2
<1>8. u \o v = w
  BY <1>5, <1>6, <1>7, SeqEqual, Zenon DEF ByteSeq
<1> QED
  BY <1>2, <1>8

(* What is received is behind what was received.                           *)
LEMMA BufferedMore ==
  ASSUME Typed, NEW t \in client.threads, NEW before, Receive(t, before),
         (pc[t] = "read" /\ before = <<>>) \/ (pc[t] = "more" /\ before = raw_str[t]),
         NEW o \in 0..got, Buffered(pc[t], raw_str[t], stream, got, o)
  PROVE o \in 0..got' /\ Buffered("frame", raw_str'[t], stream, got', o)
<1>1. t \in Threads
  BY ClientFacts DEF Typed, TypedClient
<1>2. before \in ByteSeq
  BY <1>1, ByteSeqFacts DEF Typed, TypedThreads
<1>3. /\ got' \in got + 1..Len(stream)
      /\ SubSeq(stream, got + 1, got') \in ByteSeq
      /\ before \o SubSeq(stream, got + 1, got') \in ByteSeq
      /\ raw_str' = Set(raw_str, t, before \o SubSeq(stream, got + 1, got'))
  BY <1>2, ReceiveIs, Zenon
<1>4. raw_str'[t] = before \o SubSeq(stream, got + 1, got')
  <2>1. PICK v : v = before \o SubSeq(stream, got + 1, got') /\ raw_str' = Set(raw_str, t, v)
    BY <1>3
  <2>2. raw_str'[t] = v
    BY <1>1, <2>1 DEF Set, Typed, TypedThreads
  <2> QED
    BY <2>1, <2>2
<1>5. PICK g \in Nat, h \in Nat : g = got /\ h = got' /\ g <= h /\ h <= Len(stream) /\ o \in 0..g
  BY <1>3 DEF ByteSeq, Typed, TypedClient
<1>6. o <= h /\ o \in 0..h /\ o <= g /\ o \in Nat
  BY <1>5
<1>7. before \o SubSeq(stream, g + 1, h) = SubSeq(stream, o + 1, h)
  <2>1. CASE pc[t] = "read" /\ before = <<>>
    <3>1. o = g
      BY <1>5, <2>1 DEF Buffered
    <3> QED
      BY <1>3, <1>5, <2>1, <3>1, ByteSeqFacts, Zenon
  <2>2. CASE pc[t] = "more" /\ before = raw_str[t]
    <3>1. before = SubSeq(stream, o + 1, g)
      BY <1>5, <2>2 DEF Buffered
    <3>2. stream \in ByteSeq
      BY DEF Typed, TypedClient
    <3>3. o \in Nat /\ o <= g /\ g <= h /\ h <= Len(stream) /\ g \in Nat /\ h \in Nat
      BY <1>5, <1>6
    <3>4. SubSeq(stream, o + 1, g) \o SubSeq(stream, g + 1, h) = SubSeq(stream, o + 1, h)
      BY <3>2, <3>3, SubSeqJoin
    <3> QED
      BY <3>1, <3>4, Zenon
  <2> QED
    BY <2>1, <2>2
<1> QED
  BY <1>4, <1>5, <1>6, <1>7, Zenon DEF Buffered

(* It reads more,                                                          *)
LEMMA OrderedReceive ==
  ASSUME Typed, Ordered, NEW t \in client.threads, NEW before, Receive(t, before),
         (pc[t] = "read" /\ before = <<>>) \/ (pc[t] = "more" /\ before = raw_str[t]),
         UNCHANGED file
  PROVE Ordered'
<1>1. t \in Threads /\ client.threads \subseteq Threads
  BY ClientFacts DEF Typed, TypedClient
<1>2. Busy(t)
  <2>1. Reading(t)
    BY DEF Reading
  <2> QED
    BY <1>1, <2>1, ReaderIsBusy DEF Ordered
<1>3. /\ UNCHANGED clientVars /\ client' = client /\ sent' = sent /\ stream' = stream
      /\ conn' = conn /\ (Polled' <=> Polled) /\ owners' = owners /\ pending' = pending
      /\ raw_msg' = raw_msg /\ call' = call /\ delivered' = delivered
  BY DEF Polled, Receive, clientVars, epollVars, listVars
<1>4. pc'[t] = "frame" /\ \A v \in Threads : v # t => pc'[v] = pc[v]
  BY <1>1 DEF Receive, Set, Typed, TypedThreads
<1>5. Reading(t)'
  BY <1>4 DEF Reading
<1>6. ASSUME FirstMessage(t) PROVE FirstMessage(t)'
  <2>1. PICK o \in 0..got :
       /\ \/ Begins(sent, Len(delivered) + Len(pending), pc[t], call[t], file[t] \o raw_msg[t], o)
          \/ Midway(sent, Len(delivered) + Len(pending), pc[t], call[t], file[t] \o raw_msg[t], o)
       /\ Buffered(pc[t], raw_str[t], stream, got, o)
    BY <1>6, Zenon DEF FirstMessage
  <2>2. o \in 0..got' /\ Buffered("frame", raw_str'[t], stream, got', o)
    BY <2>1, BufferedMore, Zenon
  <2>3. \A s, n, p, c, text : Begins(s, n, p, c, text, o) => Begins(s, n, "frame", c, text, o)
    BY DEF Begins
  <2>4. \A s, n, p, c, text : Midway(s, n, p, c, text, o) => Midway(s, n, "frame", c, text, o)
    BY DEF Midway
  <2>5. \/ Begins(sent', Len(delivered') + Len(pending'), pc'[t], call'[t], file'[t] \o raw_msg'[t], o)
        \/ Midway(sent', Len(delivered') + Len(pending'), pc'[t], call'[t], file'[t] \o raw_msg'[t], o)
    BY <1>3, <1>4, <2>1, <2>3, <2>4, Zenon
  <2>6. Buffered(pc'[t], raw_str'[t], stream', got', o)
    BY <1>3, <1>4, <2>2, Zenon
  <2>7. /\ call'[t].first \/ call'[t].last_is_CONTIN
        /\ ~call'[t].already_done /\ call'[t].str = 0
        /\ ListIs(sent', client'.threads, pending', Len(delivered'))
        /\ Single' => pending' = <<>>
    BY <1>3, <1>6, Zenon DEF FirstMessage, Single
  <2> QED
    BY <2>2, <2>5, <2>6, <2>7, Zenon DEF FirstMessage
<1>7. ASSUME Further(t) PROVE Further(t)'
  <2>1. PICK o : o = Start(sent, Len(delivered) + Len(pending) + 1)
    OBVIOUS
  <2>2. o \in 0..got /\ Buffered(pc[t], raw_str[t], stream, got, o)
    <3>1. Buffered(pc[t], raw_str[t], stream, got, o)
      BY <1>7, <2>1, Zenon DEF Further
    <3>2. PICK n \in Nat : n = Len(delivered) + Len(pending) /\ n < Len(sent)
      BY <1>7 DEF Further, Typed, TypedLists
    <3>3. o \in Nat
      BY <2>1, <3>2, BehindFacts, Zenon
    <3>4. o <= got
      BY <3>1, <3>3 DEF Buffered
    <3> QED
      BY <3>1, <3>3, <3>4
  <2>3. Buffered("frame", raw_str'[t], stream, got', o)
    BY <2>2, BufferedMore, Zenon
  <2>4. Buffered(pc'[t], raw_str'[t], stream', got', Start(sent', Len(delivered') + Len(pending') + 1))
    BY <1>3, <1>4, <2>1, <2>3, Zenon
  <2>5. pc'[t] # "read" /\ pc'[t] # "pushed"
    BY <1>4
  <2> QED
    BY <1>3, <1>7, <2>4, <2>5, Zenon DEF Further
<1>8. client.pipelined = {} => pending' = <<>>
  BY <1>3 DEF Ordered, Sending
<1>9. (FirstMessage(t) \/ Further(t))'
  BY <1>2, <1>6, <1>7 DEF Busy
<1> QED
  BY <1>2, <1>3, <1>4, <1>5, <1>8, <1>9, OrderedGoesOn, Zenon

(* and when there is nothing and none of a message is there, arms the      *)
(* socket again.                                                           *)
LEMMA OrderedNoMessage ==
  ASSUME Typed, Steady, Ordered, NEW t \in client.threads, client.partially, NoMessage(t)
  PROVE Ordered'
<1>1. t \in Threads /\ client.threads \subseteq Threads
  BY ClientFacts DEF Typed, TypedClient
<1>2. pc[t] = "read" /\ ~finished /\ got = Len(stream)
  BY DEF NoMessage, Steady
<1>3. Busy(t)
  <2>1. Reading(t)
    BY <1>2 DEF Reading
  <2> QED
    BY <1>1, <2>1, ReaderIsBusy DEF Ordered
<1>4. /\ client' = client /\ sent' = sent /\ stream' = stream /\ got' = got /\ conn' = conn
      /\ pending' = pending /\ delivered' = delivered /\ UNCHANGED clientVars
  BY DEF NoMessage, clientVars, listVars
<1>5. PICK n \in Nat : n = Len(delivered) + Len(pending)
  BY DEF Typed, TypedLists
<1>6. got = Start(sent, Len(sent))
  <2>1. stream = Bytes(Wire(sent)) /\ Bytes(Wire(sent)) = FlatTo(Wire(sent), Len(sent))
    BY <1>2, WireFacts DEF Laid, Ordered
  <2> QED
    BY <1>2, <2>1, Zenon DEF Start
<1>7. FirstMessage(t)
  BY <1>2, <1>3 DEF Busy, Further
<1>8. Begins(sent, n, pc[t], call[t], file[t] \o raw_msg[t], got)
  <2>1. PICK o \in 0..got :
       /\ \/ Begins(sent, n, pc[t], call[t], file[t] \o raw_msg[t], o)
          \/ Midway(sent, n, pc[t], call[t], file[t] \o raw_msg[t], o)
       /\ Buffered(pc[t], raw_str[t], stream, got, o)
    BY <1>5, <1>7, Zenon DEF FirstMessage
  <2>2. o = got
    BY <1>2, <2>1 DEF Buffered
  <2>3. ASSUME Midway(sent, n, pc[t], call[t], file[t] \o raw_msg[t], got) PROVE FALSE
    <3>1. n < Len(sent) /\ \E i \in 1..Len(sent[n + 1].parts) - 1 : got = Behind(sent, n, i)
      BY <2>3, Zenon DEF Midway
    <3>2. got < Start(sent, n + 1) /\ n + 1 \in 1..Len(sent) /\ Start(sent, n + 1) \in Nat
      BY <3>1, BehindFacts, Zenon
    <3>3. n + 1 \in 0..Len(sent)
      BY <3>2
    <3>4. Start(sent, n + 1) <= Len(Bytes(Wire(sent)))
      BY <3>3, WireFacts, Zenon
    <3>5. Len(Bytes(Wire(sent))) = Start(sent, Len(sent))
      BY WireFacts, Zenon DEF Start
    <3>6. got \in Nat
      BY DEF Typed, TypedClient, ByteSeq
    <3> QED
      BY <1>6, <3>2, <3>4, <3>5, <3>6
  <2> QED
    BY <2>1, <2>2, <2>3, Zenon
<1>9. Rearm(t) /\ file' = file
  BY <1>8 DEF Begins, NoMessage
<1>10. pc'[t] = "wait" /\ \A v \in Threads : v # t => pc'[v] = pc[v]
  BY <1>1, <1>9 DEF Rearm, Set, Typed, TypedThreads
<1>11. file[t] = <<>>
  <2>1. file[t] \o raw_msg[t] = <<>> /\ file[t] \in ByteSeq /\ raw_msg[t] \in ByteSeq
    BY <1>1, <1>8 DEF Begins, Typed, TypedThreads
  <2>2. \A a, b \in ByteSeq : a \o b = <<>> => a = <<>>
    BY DEF ByteSeq
  <2> QED
    BY <2>1, <2>2, Zenon
<1>12. \A v \in Threads : Resting(v)'
  BY <1>3, <1>9, <1>10, <1>11 DEF Busy, Resting
<1>13. Laid' /\ Sending' /\ Filed'
  <2>1. Len(delivered) \in Nat /\ Len(delivered') \in Nat /\ Len(delivered) <= Len(delivered')
    BY <1>4 DEF Typed, TypedLists
  <2>2. client.pipelined = {} => pending' = <<>>
    BY <1>4 DEF Ordered, Sending
  <2>3. Laid' /\ Sending'
    BY <1>4, <2>1, <2>2, ClientWaits DEF Ordered
  <2> QED
    BY <1>4, <1>9, <2>3 DEF Filed, Ordered
<1>14. Owning'
  <2>1. ASSUME ~Single
        PROVE owners' = {}
    <3>1. owners \subseteq {t}
      BY <1>1, <1>3, <2>1 DEF Busy, Ordered, Owning
    <3> QED
      BY <1>9, <3>1 DEF Rearm
  <2> QED
    BY <1>4, <2>1, Zenon DEF Owning, Single
<1>15. Idle'
  <2>1. n <= Len(sent) /\ got = Start(sent, n)
    BY <1>8, Zenon DEF Begins
  <2>2. ListIs(sent, client.threads, pending, Len(delivered)) /\ (Single => pending = <<>>)
    BY <1>7, Zenon DEF FirstMessage
  <2> QED
    BY <1>3, <1>4, <1>5, <1>12, <2>1, <2>2, Zenon DEF Busy, Idle, Single
<1> QED
  BY <1>4, <1>13, <1>14, <1>15, Zenon DEF InStep, Ordered

(* With part of its message it calls more_data again.                      *)
LEMMA OrderedReadsOn ==
  ASSUME Typed, Ordered, NEW t \in client.threads, pc[t] = "return", FirstMessage(t),
         NEW popped \in BOOLEAN, call' = Set(call, t, NewCall(popped)), pc' = Set(pc, t, "read"),
         UNCHANGED <<clientVars, socketVars, listVars, raw_str, delivered>>,
         file'[t] \o raw_msg'[t] = file[t] \o raw_msg[t],
         \A v \in Threads : v # t => file'[v] = file[v], client.partially \/ file' = file
  PROVE Ordered'
<1>1. t \in Threads /\ client.threads \subseteq Threads
  BY ClientFacts DEF Typed, TypedClient
<1>2. Busy(t)
  <2>1. Reading(t)
    BY DEF Reading
  <2> QED
    BY <1>1, <2>1, ReaderIsBusy DEF Ordered
<1>3. /\ UNCHANGED clientVars /\ client' = client /\ sent' = sent /\ stream' = stream
      /\ got' = got /\ conn' = conn /\ (Polled' <=> Polled) /\ owners' = owners
      /\ pending' = pending /\ raw_str' = raw_str /\ delivered' = delivered
  BY DEF Polled, clientVars, epollVars, socketVars, listVars
<1>4. pc'[t] = "read" /\ \A v \in Threads : v # t => pc'[v] = pc[v]
  BY <1>1 DEF Set, Typed, TypedThreads
<1>5. Reading(t)'
  BY <1>4 DEF Reading
<1>6. call'[t].first /\ ~call'[t].already_done /\ call'[t].str = 0
  <2>1. call'[t] = NewCall(popped)
    BY <1>1, CallsAnew
  <2> QED
    BY <2>1 DEF NewCall
<1>7. PICK n : n = Len(delivered) + Len(pending)
  OBVIOUS
<1>8. PICK o \in 0..got : /\ Midway(sent, n, pc[t], call[t], file[t] \o raw_msg[t], o)
                          /\ Buffered(pc[t], raw_str[t], stream, got, o)
  <2>1. PICK o \in 0..got :
       /\ \/ Begins(sent, n, pc[t], call[t], file[t] \o raw_msg[t], o)
          \/ Midway(sent, n, pc[t], call[t], file[t] \o raw_msg[t], o)
       /\ Buffered(pc[t], raw_str[t], stream, got, o)
    BY <1>7, Zenon DEF FirstMessage
  <2> QED
    BY <2>1, Zenon DEF Begins
<1>9. Midway(sent', n, pc'[t], call'[t], file'[t] \o raw_msg'[t], o)
  BY <1>3, <1>4, <1>6, <1>8 DEF Midway
<1>10. Buffered(pc'[t], raw_str'[t], stream', got', o)
  BY <1>3, <1>4, <1>8 DEF Buffered
<1>11. /\ ListIs(sent', client'.threads, pending', Len(delivered'))
       /\ Single' => pending' = <<>>
  BY <1>3, Zenon DEF FirstMessage, Single
<1>12. FirstMessage(t)'
  BY <1>3, <1>6, <1>7, <1>8, <1>9, <1>10, <1>11, Zenon DEF FirstMessage
<1>13. client.pipelined = {} => pending' = <<>>
  BY <1>3 DEF Ordered, Sending
<1> QED
  BY <1>2, <1>3, <1>4, <1>5, <1>12, <1>13, OrderedGoesOn, Zenon

(* The result of more_data is a message or part of one.                    *)
LEMMA ReturnsWhole ==
  ASSUME Ordered, NEW t \in client.threads, pc[t] = "return", client.threads \subseteq Threads
  PROVE /\ Busy(t)
        /\ FirstMessage(t) => ~call[t].already_done /\ ~call[t].type.done
        /\ ~FirstMessage(t) => Further(t) /\ call[t].already_done
<1>1. Busy(t)
  <2>1. Reading(t)
    BY DEF Reading
  <2> QED
    BY <2>1, ReaderIsBusy DEF Ordered
<1>2. ASSUME FirstMessage(t) PROVE ~call[t].already_done /\ ~call[t].type.done
  <2>1. PICK n, text, o : \/ Begins(sent, n, pc[t], call[t], text, o)
                          \/ Midway(sent, n, pc[t], call[t], text, o)
    BY <1>2, Zenon DEF FirstMessage
  <2> QED
    BY <1>2, <2>1 DEF Begins, FirstMessage, Midway
<1> QED
  BY <1>1, <1>2 DEF Busy, Further

(* So msg_recv goes on,                                                    *)
LEMMA OrderedReturn ==
  ASSUME Typed, Steady, Ordered, NEW t \in client.threads, ~client.partially, Return(t),
         UNCHANGED file
  PROVE Ordered'
<1>1. t \in Threads /\ client.threads \subseteq Threads
  BY ClientFacts DEF Typed, TypedClient
<1>2. pc[t] = "return" /\ Reading(t)
  BY DEF Reading, Return
<1>3. call[t].popped \in BOOLEAN /\ call[t].type.binary \in BOOLEAN
  BY <1>1 DEF Calls, FrameTypes, Typed, TypedThreads
<1>4. CASE /\ ~call[t].type.done /\ ~call[t].already_done
           /\ call' = Set(call, t, NewCall(call[t].popped))
           /\ pc' = Set(pc, t, "read")
           /\ UNCHANGED <<clientVars, socketVars, listVars, raw_str, raw_msg, delivered>>
  <2>1. FirstMessage(t)
    BY <1>1, <1>2, <1>4, ReturnsWhole
  <2> QED
    BY <1>2, <1>3, <1>4, <2>1, OrderedReadsOn
<1>5. CASE /\ call[t].already_done
           /\ EpollOn(call[t].type.done /\ t \in owners)
           /\ Returns(t, raw_msg[t], call[t].type.binary)
           /\ UNCHANGED <<clientVars, got, conn, owners, listVars, raw_str, raw_msg, call>>
  <2>1. Further(t)
    BY <1>1, <1>2, <1>5, ReturnsWhole
  <2>2. file[t] = <<>> /\ file \in [Threads -> ByteSeq] /\ raw_msg[t] \in ByteSeq
    BY <1>1 DEF Filed, Ordered, Typed, TypedThreads
  <2>3. file' = Set(file, t, <<>>)
    BY <2>2 DEF Set
  <2>4. file[t] \o raw_msg[t] = raw_msg[t]
    BY <2>2, ByteSeqFacts, Zenon
  <2>5. Returns(t, file[t] \o raw_msg[t], call[t].type.binary)
    BY <1>5, <2>4
  <2> QED
    BY <1>2, <1>3, <1>5, <2>1, <2>3, <2>5, OrderedGiven
<1>6. CASE Refuse(t)
  BY <1>2, <1>6, OrderedRefuse
<1> QED
  BY <1>4, <1>5, <1>6 DEF Return

(* and so do partially_recv and more_recv.                                 *)
LEMMA OrderedReturnPart ==
  ASSUME Typed, Steady, Ordered, NEW t \in client.threads, client.partially, ReturnPart(t)
  PROVE Ordered'
<1>1. t \in Threads /\ client.threads \subseteq Threads
  BY ClientFacts DEF Typed, TypedClient
<1>2. pc[t] = "return" /\ Reading(t) /\ UNCHANGED clientVars
  BY DEF Reading, ReturnPart
<1>3. call[t].type.binary \in BOOLEAN
  BY <1>1 DEF Calls, FrameTypes, Typed, TypedThreads
<1>4. CASE Refuse(t) /\ UNCHANGED file
  BY <1>2, <1>4, OrderedRefuse
<1>5. CASE /\ call[t].type.done \/ call[t].already_done
           /\ Returns(t, file[t] \o raw_msg[t], call[t].type.binary)
           /\ file' = Set(file, t, <<>>)
           /\ UNCHANGED <<raw_msg, call>>
           /\ UNCHANGED <<socketVars, listVars, raw_str>>
  <2>1. Further(t)
    BY <1>1, <1>2, <1>5, ReturnsWhole
  <2>2. (Polled' <=> Polled) /\ owners' = owners /\ UNCHANGED <<clientVars, got, conn, listVars>>
    BY <1>2, <1>5 DEF Polled, epollVars, socketVars
  <2> QED
    BY <1>2, <1>3, <1>5, <2>1, <2>2, OrderedGiven
<1>6. CASE /\ ~(call[t].type.done \/ call[t].already_done)
           /\ file' = Set(file, t, file[t] \o raw_msg[t])
           /\ raw_msg' = Set(raw_msg, t, <<>>)
           /\ call' = Set(call, t, NewCall(TRUE))
           /\ pc' = Set(pc, t, "read")
           /\ UNCHANGED delivered
           /\ UNCHANGED <<socketVars, listVars, raw_str>>
  <2>1. FirstMessage(t)
    BY <1>1, <1>2, <1>6, ReturnsWhole
  <2>2. /\ file \in [Threads -> ByteSeq] /\ raw_msg \in [Threads -> ByteSeq]
        /\ file[t] \o raw_msg[t] \in ByteSeq /\ <<>> \in ByteSeq
    BY <1>1, ByteSeqFacts DEF Typed, TypedThreads
  <2>3. PICK text \in ByteSeq : text = file[t] \o raw_msg[t]
    BY <2>2
  <2>4. file'[t] = text /\ \A v \in Threads : v # t => file'[v] = file[v]
    BY <1>1, <1>6, <2>2, <2>3 DEF Set
  <2>5. raw_msg'[t] = <<>>
    BY <1>1, <1>6, <2>2 DEF Set
  <2>6. file'[t] \o raw_msg'[t] = file[t] \o raw_msg[t]
    BY <2>3, <2>4, <2>5, ByteSeqFacts, Zenon
  <2>7. UNCHANGED <<clientVars, socketVars, listVars, raw_str, delivered>>
    BY <1>2, <1>6
  <2> QED
    BY <1>2, <1>6, <2>1, <2>4, <2>6, <2>7, OrderedReadsOn
<1> QED
  BY <1>4, <1>5, <1>6 DEF GivesPart, ReturnPart

(* What is received up to g is decoded up to o. *)
LEMMA BufferedNext ==
  ASSUME NEW b, NEW g \in Nat, NEW o \in Nat, o <= g, NEW behind \in BOOLEAN, behind <=> o < g,
         NEW p, p = IF behind THEN "frame" ELSE "return", NEW raw, raw = SubSeq(b, o + 1, g)
  PROVE Buffered(p, raw, b, g, o) /\ p \in {"frame", "return"}
BY DEF Buffered

(* What a frame does to the locals of more_data,                           *)
LEMMA CallBehindFrame ==
  ASSUME Typed, NEW t \in Threads, NEW type \in FrameTypes, NEW msg \in ByteSeq,
         TakeFrame(t, type, msg)
  PROVE /\ ~call'[t].first
        /\ call'[t].last_is_CONTIN <=> ~type.done
        /\ call'[t].already_done <=> call[t].already_done \/ type.done
        /\ call'[t].type = type
        /\ call[t].first \/ call[t].last_is_CONTIN => call'[t].str = call[t].str
<1>1. PICK mine \in BOOLEAN : mine = (call[t].first \/ call[t].last_is_CONTIN)
  <2>1. (call[t].first \/ call[t].last_is_CONTIN) \in BOOLEAN
    OBVIOUS
  <2> QED
    BY <2>1
<1>2. PICK str : str = IF mine THEN call[t].str ELSE pushes'
  OBVIOUS
<1>3. call[t] \in Calls /\ call \in [Threads -> Calls] /\ call[t].str \in Nat /\ pushes \in Nat
  BY DEF Typed, TypedThreads, TypedLists
<1>4. type.done \in BOOLEAN /\ type.binary \in BOOLEAN
  BY DEF FrameTypes
<1>5. str \in Nat
  <2>1. CASE mine
    BY <1>2, <1>3, <2>1
  <2>2. CASE ~mine
    <3>1. PushPending(t, msg, type.done, type.binary)
      BY <1>1, <2>2, Zenon DEF TakeFrame
    <3>2. pushes' \in Nat
      BY <1>4, <3>1, PushPendingType
    <3> QED
      BY <1>2, <2>2, <3>2
  <2> QED
    BY <2>1, <2>2
<1>6. call' = Set(call, t, After(call[t], type, str))
  BY <1>1, <1>2, Zenon DEF TakeFrame, After
<1>7. PICK r \in Calls : r = After(call[t], type, str)
  BY <1>3, <1>5, CallAfter
<1>8. call'[t] = r
  BY <1>3, <1>6, <1>7 DEF Set
<1>9. /\ ~r.first /\ (r.last_is_CONTIN <=> ~type.done)
      /\ (r.already_done <=> call[t].already_done \/ type.done)
      /\ r.str = str /\ r.type = type
  BY <1>3, <1>5, <1>7, CallAfter
<1> QED
  BY <1>1, <1>2, <1>8, <1>9, Zenon

(* and to raw_msg when it belongs to the message begun there.              *)
LEMMA AppendedToOwn ==
  ASSUME Typed, NEW t \in Threads, NEW msg \in ByteSeq, AppendMsg(t, msg), call[t].str = 0
  PROVE raw_msg'[t] = raw_msg[t] \o msg /\ pending' = pending
<1>1. raw_msg'[t] = raw_msg[t] \o msg
  BY DEF AppendMsg, Set, Typed, TypedThreads
<1>2. \A i \in 1..Len(pending) : pending[i].id # 0
  BY DEF Named, Typed, TypedLists
<1>3. pending' = [i \in 1..Len(pending) |-> pending[i]]
  BY <1>2, Zenon DEF AppendMsg
<1>4. pending = [i \in 1..Len(pending) |-> pending[i]]
  BY DEF Typed, TypedLists
<1> QED
  BY <1>1, <1>3, <1>4

(* Three sequences of bytes may be joined either way. *)
LEMMA JoinedThrice ==
  ASSUME NEW x \in ByteSeq, NEW y \in ByteSeq, NEW z \in ByteSeq
  PROVE x \o (y \o z) = (x \o y) \o z
<1>1. x \in Seq(Nat) /\ y \in Seq(Nat) /\ z \in Seq(Nat)
  BY DEF ByteSeq
<1> QED
  BY <1>1, ConcatAssociative

(* The next frame of its message is behind the others,                     *)
LEMMA FirstDecoded ==
  ASSUME Typed, Ordered, NEW t \in client.threads, pc[t] = "frame", FirstMessage(t),
         NEW frame, frame = GetFrame(raw_str[t]), frame.type.kind = "data",
         TakeFrame(t, frame.type, frame.msg), raw_str'[t] = frame.rest,
         UNCHANGED <<clientVars, got, delivered, file>>
  PROVE (FirstMessage(t) \/ Further(t))' /\ pending' = pending
<1>1. t \in Threads
  BY ClientFacts DEF Typed, TypedClient
<1>2. sent' = sent /\ stream' = stream /\ client' = client
  BY DEF clientVars
<1>3. /\ frame.type \in FrameTypes /\ frame.msg \in ByteSeq
      /\ frame.type.done \in BOOLEAN /\ frame.type.behind \in BOOLEAN
      /\ raw_msg[t] \in ByteSeq /\ file[t] \in ByteSeq /\ got \in Nat
  <2>1. raw_str[t] \in ByteSeq /\ raw_msg[t] \in ByteSeq /\ file[t] \in ByteSeq /\ got \in Nat
    BY <1>1 DEF Typed, TypedClient, TypedThreads, ByteSeq
  <2>2. frame.type \in FrameTypes /\ frame.msg \in ByteSeq
    BY <2>1, GetFrameIs
  <2> QED
    BY <2>1, <2>2 DEF FrameTypes
<1>4. PICK n \in Nat : n = Len(delivered) + Len(pending)
  BY DEF Typed, TypedLists
<1>5. PICK text \in ByteSeq : text = file[t] \o raw_msg[t]
  BY <1>3, ByteSeqFacts
<1>6. PICK o \in 0..got :
       /\ \/ Begins(sent, n, pc[t], call[t], text, o)
          \/ Midway(sent, n, pc[t], call[t], text, o)
       /\ raw_str[t] = SubSeq(stream, o + 1, got)
  BY <1>4, <1>5, Zenon DEF Buffered, FirstMessage
<1>7. /\ n < Len(sent)
      /\ \E i \in 1..Len(sent[n + 1].parts) :
           /\ Behind(sent, n, i) <= got
           /\ text \o frame.msg = Part(sent, n, i)
           /\ frame.rest = SubSeq(stream, Behind(sent, n, i) + 1, got)
           /\ frame.type.done <=> i = Len(sent[n + 1].parts)
           /\ frame.type.behind <=> Behind(sent, n, i) < got
  <2>1. PICK raw : /\ raw = raw_str[t] /\ raw = SubSeq(stream, o + 1, got)
                   /\ frame = GetFrame(raw) /\ GetFrame(raw).type.kind = "data" /\ Laid
    BY <1>6 DEF Ordered
  <2>2. UpTo(n, pc[t], call[t], text, o)
    BY <1>6, Zenon DEF UpTo
  <2>3. Continues(n, text, GetFrame(SubSeq(stream, o + 1, got)))
    BY <2>1, <2>2, FirstFrame, Zenon
  <2> QED
    BY <2>1, <2>3, Zenon DEF Continues
<1>8. PICK i \in 1..Len(sent[n + 1].parts) :
           /\ Behind(sent, n, i) <= got
           /\ text \o frame.msg = Part(sent, n, i)
           /\ frame.rest = SubSeq(stream, Behind(sent, n, i) + 1, got)
           /\ frame.type.done <=> i = Len(sent[n + 1].parts)
           /\ frame.type.behind <=> Behind(sent, n, i) < got
  BY <1>7
<1>9. PICK b \in Nat : b = Behind(sent, n, i) /\ b <= got
  BY <1>7, <1>8, BehindFacts
<1>10. Buffered(pc'[t], raw_str'[t], stream, got, b) /\ pc'[t] \in {"frame", "return"}
  <2>1. frame.type.behind <=> b < got
    BY <1>8, <1>9, Zenon
  <2>2. raw_str'[t] = SubSeq(stream, b + 1, got)
    BY <1>8, <1>9, Zenon
  <2>3. NextFrame(t, frame.type)
    BY Zenon DEF FirstMessage, TakeFrame
  <2>4. pc'[t] = IF frame.type.behind THEN "frame" ELSE "return"
    BY <1>1, <2>3 DEF NextFrame, Set, Typed, TypedThreads
  <2> QED
    BY <1>3, <1>9, <2>1, <2>2, <2>4, BufferedNext
<1>11. call[t].first \/ call[t].last_is_CONTIN
  BY DEF FirstMessage
<1>12. ~call[t].already_done /\ call[t].str = 0
  BY DEF FirstMessage
<1>13. raw_msg'[t] = raw_msg[t] \o frame.msg /\ pending' = pending
  <2>1. AppendMsg(t, frame.msg)
    BY <1>11, Zenon DEF TakeFrame
  <2> QED
    BY <1>1, <1>3, <1>12, <2>1, AppendedToOwn
<1>14. file'[t] \o raw_msg'[t] = Part(sent, n, i)
  <2>1. file[t] \o (raw_msg[t] \o frame.msg) = text \o frame.msg
    BY <1>3, <1>5, JoinedThrice, Zenon
  <2> QED
    BY <1>8, <1>13, <2>1, Zenon
<1>15. /\ ~call'[t].first /\ (call'[t].last_is_CONTIN <=> ~frame.type.done)
       /\ (call'[t].already_done <=> frame.type.done)
       /\ call'[t].type = frame.type /\ call'[t].str = 0
  BY <1>1, <1>3, <1>11, <1>12, CallBehindFrame
<1>16. /\ ListIs(sent, client.threads, pending, Len(delivered))
       /\ Single => pending = <<>>
  BY Zenon DEF FirstMessage
<1>17. CASE ~frame.type.done
  <2>1. i \in 1..Len(sent[n + 1].parts) - 1
    <3>1. i # Len(sent[n + 1].parts) /\ Len(sent[n + 1].parts) \in Nat
      BY <1>7, <1>8, <1>17, BehindFacts
    <3> QED
      BY <3>1
  <2>2. \E j \in 1..Len(sent[n + 1].parts) - 1 :
          file'[t] \o raw_msg'[t] = Part(sent, n, j) /\ b = Behind(sent, n, j)
    BY <1>9, <1>14, <2>1, Zenon
  <2>3. pc'[t] # "pushed" /\ pc'[t] # "read" /\ ~call'[t].type.done
    BY <1>10, <1>15, <1>17
  <2>4. Midway(sent, n, pc'[t], call'[t], file'[t] \o raw_msg'[t], b)
    BY <1>7, <2>2, <2>3, Zenon DEF Midway
  <2>5. b \in 0..got
    BY <1>3, <1>9
  <2>6. call'[t].last_is_CONTIN /\ ~call'[t].already_done /\ call'[t].str = 0
    BY <1>15, <1>17
  <2>7. FirstMessage(t)'
    BY <1>2, <1>4, <1>10, <1>13, <1>16, <2>4, <2>5, <2>6, Zenon DEF FirstMessage, Single
  <2> QED
    BY <1>13, <2>7
<1>18. CASE frame.type.done
  <2>1. i = Len(sent[n + 1].parts)
    BY <1>8, <1>18
  <2>2. b = Start(sent, n + 1)
    BY <1>7, <1>9, <2>1, BehindFacts, Zenon
  <2>3. file'[t] \o raw_msg'[t] = Text(sent, n + 1)
    BY <1>7, <1>14, <2>1, PartFacts, Zenon
  <2>4. One(client.threads) => pending = <<>> /\ n = Len(delivered)
    <3>1. pending = <<>> => Len(pending) = 0
      OBVIOUS
    <3>2. Len(delivered) \in Nat /\ \A x \in Nat : x + 0 = x
      BY DEF Typed, TypedLists
    <3> QED
      BY <1>4, <1>16, <3>1, <3>2, Zenon DEF Single
  <2>5. n + 1 \in 1..Len(sent)
    BY <1>7, BehindFacts, Zenon
  <2>6. IsText(sent, client.threads, file'[t] \o raw_msg'[t], Len(delivered) + 1)
    BY <2>3, <2>4, <2>5, Zenon DEF IsText
  <2>7. ListIs(sent, client.threads, pending, Len(delivered) + 1)
    BY <1>16, <2>4, ListAnywhere, Zenon
  <2>8. /\ pc'[t] # "read" /\ pc'[t] # "pushed"
        /\ ~call'[t].first /\ ~call'[t].last_is_CONTIN
        /\ call'[t].already_done /\ call'[t].type.done
    BY <1>10, <1>15, <1>18
  <2>9. Further(t)'
    BY <1>2, <1>4, <1>7, <1>10, <1>13, <2>2, <2>6, <2>7, <2>8, Zenon DEF Further
  <2> QED
    BY <1>13, <2>9
<1> QED
  BY <1>17, <1>18

(* one behind a whole message is put on the pending list.                  *)
LEMMA FurtherDecoded ==
  ASSUME Typed, Ordered, NEW t \in client.threads, pc[t] = "frame", Further(t),
         NEW frame, frame = GetFrame(raw_str[t]), frame.type.kind = "data",
         TakeFrame(t, frame.type, frame.msg), raw_str'[t] = frame.rest,
         UNCHANGED <<clientVars, got, delivered, file>>
  PROVE Further(t)' /\ client.pipelined # {}
<1>1. t \in Threads
  BY ClientFacts DEF Typed, TypedClient
<1>2. sent' = sent /\ stream' = stream /\ client' = client
  BY DEF clientVars
<1>3. /\ frame.type \in FrameTypes /\ frame.msg \in ByteSeq
      /\ frame.type.done \in BOOLEAN /\ frame.type.behind \in BOOLEAN
      /\ frame.type.binary \in BOOLEAN /\ got \in Nat
  <2>1. raw_str[t] \in ByteSeq /\ got \in Nat
    BY <1>1 DEF Typed, TypedClient, TypedThreads, ByteSeq
  <2>2. frame.type \in FrameTypes /\ frame.msg \in ByteSeq
    BY <2>1, GetFrameIs
  <2> QED
    BY <2>1, <2>2 DEF FrameTypes
<1>4. PICK l \in Nat, d \in Nat : l = Len(pending) /\ d = Len(delivered)
  BY DEF Typed, TypedLists
<1>5. PICK n \in Nat : n = d + l /\ d <= n /\ n < Len(sent)
  <2>1. d + l < Len(sent)
    BY <1>4, Zenon DEF Further
  <2> QED
    BY <2>1
<1>6. PICK o : o = Start(sent, n + 1)
  OBVIOUS
<1>7. raw_str[t] = SubSeq(stream, o + 1, got) /\ o <= got
  BY <1>4, <1>5, <1>6, Zenon DEF Buffered, Further
<1>8. /\ n + 1 < Len(sent)
      /\ Start(sent, n + 2) <= got
      /\ frame.msg = Text(sent, n + 2)
      /\ frame.rest = SubSeq(stream, Start(sent, n + 2) + 1, got)
      /\ frame.type.done
      /\ frame.type.behind <=> Start(sent, n + 2) < got
  <2>1. frame = GetFrame(SubSeq(stream, Start(sent, n + 1) + 1, got))
    BY <1>6, <1>7, Zenon
  <2>2. Start(sent, n + 1) <= got /\ Len(delivered) <= n
    BY <1>4, <1>5, <1>6, <1>7, Zenon
  <2> QED
    BY <1>5, <2>1, <2>2, FurtherFrame DEF Ordered
<1>9. n + 2 \in 1..Len(sent) /\ n + 2 \in 0..Len(sent) /\ n + 2 = (n + 1) + 1
  BY <1>5, <1>8, WireFacts
<1>10. PICK b \in Nat : b = Start(sent, n + 2) /\ b <= got
  BY <1>8, <1>9, WireFacts, Zenon
<1>12. ~(call[t].first \/ call[t].last_is_CONTIN) /\ call[t].already_done
  BY DEF Further
<1>13. /\ PushPending(t, frame.msg, frame.type.done, frame.type.binary)
       /\ pc' = Set(pc, t, "pushed")
  BY <1>12, Zenon DEF TakeFrame
<1>11. pc'[t] = "pushed" /\ Buffered(pc'[t], raw_str'[t], stream, got, b)
  <2>1. raw_str'[t] = SubSeq(stream, b + 1, got)
    BY <1>8, <1>10, Zenon
  <2>2. pc'[t] = "pushed"
    BY <1>1, <1>13 DEF Set, Typed, TypedThreads
  <2> QED
    BY <1>10, <2>1, <2>2 DEF Buffered
<1>14. /\ raw_msg' = raw_msg /\ Len(pending') = l + 1
       /\ \A i \in 1..l : pending'[i] = pending[i]
       /\ pending'[l + 1].done /\ pending'[l + 1].msg = frame.msg
  <2>1. /\ raw_msg' = raw_msg /\ Len(pending') = Len(pending) + 1
        /\ \A i \in 1..Len(pending) : pending'[i] = pending[i]
        /\ pending'[Len(pending) + 1] = [id |-> pushes', msg |-> frame.msg,
                                         done |-> frame.type.done, binary |-> frame.type.binary]
    BY <1>1, <1>3, <1>13, PushPendingType
  <2> QED
    BY <1>4, <1>8, <2>1
<1>15. ListIs(sent, client.threads, pending', d + 1)
  <2>1. ListIs(sent, client.threads, pending, d + 1)
    BY <1>4, Zenon DEF Further
  <2>2. (d + 1) + (l + 1) = n + 2 /\ d + 1 \in Nat
    BY <1>5
  <2>3. IsText(sent, client.threads, pending'[l + 1].msg, (d + 1) + (l + 1))
    BY <1>8, <1>9, <1>14, <2>2, Zenon DEF IsText
  <2> QED
    BY <1>4, <1>14, <2>1, <2>2, <2>3, ListIsMore
<1>16. Len(delivered') + Len(pending') = n + 1 /\ Len(delivered') = d
  BY <1>4, <1>5, <1>14
<1>17. /\ ~call'[t].first /\ ~call'[t].last_is_CONTIN
       /\ call'[t].already_done /\ call'[t].type.done /\ pc'[t] # "read"
       /\ call'[t].type = frame.type
  BY <1>1, <1>3, <1>8, <1>11, <1>12, CallBehindFrame
<1>18. IsText(sent, client.threads, file'[t] \o raw_msg'[t], d + 1)
  BY <1>4, <1>14, Zenon DEF Further
<1>19. Further(t)'
  <2>1. b = Start(sent, (n + 1) + 1)
    BY <1>9, <1>10
  <2>2. call'[t].type.behind <=> Start(sent', Len(delivered') + Len(pending') + 1) < got'
    BY <1>2, <1>8, <1>9, <1>16, <1>17, Zenon
  <2> QED
    BY <1>2, <1>8, <1>11, <1>15, <1>16, <1>17, <1>18, <2>1, <2>2, Zenon DEF Further
<1>20. client.pipelined # {}
  <2>1. client.pipelined = {} => Len(sent) <= d + 1
    BY <1>4, Zenon DEF Ordered, Sending
  <2>2. Len(sent) \in Nat
    BY WireFacts
  <2> QED
    BY <1>5, <1>8, <2>1, <2>2
<1> QED
  BY <1>19, <1>20

(* It takes the frame, waits for the rest of it, closes the socket or      *)
(* ends.                                                                   *)
LEMMA OrderedDecode ==
  ASSUME Typed, Steady, Ordered, NEW t \in client.threads, DecodeFrame(t), UNCHANGED file
  PROVE Ordered'
<1>1. t \in Threads /\ client.threads \subseteq Threads
  BY ClientFacts DEF Typed, TypedClient
<1>2. pc[t] = "frame" /\ Reading(t)
  BY DEF DecodeFrame, Reading
<1>3. Busy(t)
  BY <1>1, <1>2, ReaderIsBusy DEF Ordered
<1>4. PICK frame : frame = GetFrame(raw_str[t])
  OBVIOUS
<1>5. CASE /\ frame.type.kind = "data"
           /\ TakeFrame(t, frame.type, frame.msg)
           /\ raw_str' = Set(raw_str, t, frame.rest)
           /\ UNCHANGED <<clientVars, socketVars, delivered>>
  <2>1. pc'[t] \in {"frame", "pushed", "return"} /\ \A v \in Threads : v # t => pc'[v] = pc[v]
    <3>1. PICK v \in {"frame", "pushed", "return"} : pc' = Set(pc, t, v)
      BY <1>5, PlaceAfterFrame
    <3> QED
      BY <1>1, <3>1 DEF Set, Typed, TypedThreads
  <2>2. raw_str'[t] = frame.rest
    BY <1>1, <1>5 DEF Set, Typed, TypedThreads
  <2>3. /\ UNCHANGED <<clientVars, got, delivered, file>>
        /\ conn' = conn /\ (Polled' <=> Polled) /\ owners' = owners
    BY <1>5 DEF Polled, epollVars, socketVars
  <2>4. (FirstMessage(t) \/ Further(t))' /\ (client.pipelined = {} => pending' = <<>>)
    <3>1. CASE FirstMessage(t)
      <4>1. (FirstMessage(t) \/ Further(t))' /\ pending' = pending
        BY <1>2, <1>4, <1>5, <2>1, <2>2, <2>3, <3>1, FirstDecoded
      <4> QED
        BY <4>1 DEF Ordered, Sending
    <3>2. CASE Further(t)
      <4>1. Further(t)' /\ client.pipelined # {}
        BY <1>2, <1>4, <1>5, <2>1, <2>2, <2>3, <3>2, FurtherDecoded
      <4> QED
        BY <4>1
    <3> QED
      BY <1>3, <3>1, <3>2 DEF Busy
  <2>5. Reading(t)'
    BY <2>1 DEF Reading
  <2>6. UNCHANGED clientVars /\ delivered' = delivered /\ file' = file
    BY <1>5
  <2> QED
    BY <1>3, <2>1, <2>3, <2>4, <2>5, <2>6, OrderedGoesOn
<1>6. CASE /\ pc' = Set(pc, t, "more")
           /\ UNCHANGED <<clientVars, socketVars, listVars, raw_str, raw_msg, call, delivered>>
  <2>1. pc'[t] = "more" /\ \A v \in Threads : v # t => pc'[v] = pc[v]
    BY <1>1, <1>6 DEF Set, Typed, TypedThreads
  <2>2. /\ UNCHANGED clientVars /\ client' = client /\ sent' = sent /\ stream' = stream
        /\ got' = got /\ conn' = conn /\ (Polled' <=> Polled) /\ owners' = owners
        /\ pending' = pending /\ raw_str' = raw_str /\ raw_msg' = raw_msg /\ call' = call
        /\ delivered' = delivered /\ file' = file
    BY <1>6 DEF Polled, clientVars, epollVars, socketVars, listVars
  <2>3. ASSUME FirstMessage(t) PROVE FirstMessage(t)'
    <3>1. PICK o \in 0..got :
       /\ \/ Begins(sent, Len(delivered) + Len(pending), pc[t], call[t], file[t] \o raw_msg[t], o)
          \/ Midway(sent, Len(delivered) + Len(pending), pc[t], call[t], file[t] \o raw_msg[t], o)
       /\ Buffered(pc[t], raw_str[t], stream, got, o)
      BY <2>3, Zenon DEF FirstMessage
    <3>2. Buffered("more", raw_str[t], stream, got, o)
      BY <1>2, <3>1 DEF Buffered
    <3>3. \A s, n, p, c, text : Begins(s, n, p, c, text, o) => Begins(s, n, "more", c, text, o)
      BY DEF Begins
    <3>4. \A s, n, p, c, text : Midway(s, n, p, c, text, o) => Midway(s, n, "more", c, text, o)
      BY DEF Midway
    <3>5. \/ Begins(sent', Len(delivered') + Len(pending'), pc'[t], call'[t], file'[t] \o raw_msg'[t], o)
          \/ Midway(sent', Len(delivered') + Len(pending'), pc'[t], call'[t], file'[t] \o raw_msg'[t], o)
      BY <2>1, <2>2, <3>1, <3>3, <3>4, Zenon
    <3>6. Buffered(pc'[t], raw_str'[t], stream', got', o) /\ o \in 0..got'
      BY <2>1, <2>2, <3>1, <3>2, Zenon
    <3>7. /\ call'[t].first \/ call'[t].last_is_CONTIN
          /\ ~call'[t].already_done /\ call'[t].str = 0
          /\ ListIs(sent', client'.threads, pending', Len(delivered'))
          /\ Single' => pending' = <<>>
      BY <2>2, <2>3, Zenon DEF FirstMessage, Single
    <3> QED
      BY <3>5, <3>6, <3>7, Zenon DEF FirstMessage
  <2>4. ASSUME Further(t) PROVE Further(t)'
    <3>1. Buffered(pc[t], raw_str[t], stream, got, Start(sent, Len(delivered) + Len(pending) + 1))
      BY <2>4, Zenon DEF Further
    <3>2. \A x : Buffered("frame", raw_str[t], stream, got, x) => Buffered("more", raw_str[t], stream, got, x)
      BY DEF Buffered
    <3>3. Buffered(pc'[t], raw_str'[t], stream', got', Start(sent', Len(delivered') + Len(pending') + 1))
      BY <1>2, <2>1, <2>2, <3>1, <3>2, Zenon
    <3>4. pc'[t] # "read" /\ pc'[t] # "pushed"
      BY <2>1
    <3> QED
      BY <2>2, <2>4, <3>3, <3>4, Zenon DEF Further
  <2>5. (FirstMessage(t) \/ Further(t))' /\ Reading(t)'
    BY <1>3, <2>1, <2>3, <2>4 DEF Busy, Reading
  <2>6. client.pipelined = {} => pending' = <<>>
    BY <2>2 DEF Ordered, Sending
  <2> QED
    BY <1>3, <2>1, <2>2, <2>5, <2>6, OrderedGoesOn, Zenon
<1>7. CASE Abort
  BY <1>7, OrderedAbort
<1>8. CASE Refuse(t)
  BY <1>2, <1>8, OrderedRefuse
<1> QED
  BY <1>4, <1>5, <1>6, <1>7, <1>8, Zenon DEF DecodeFrame

(* The pointer push_pending returns is not used: what is behind a whole    *)
(* message are whole ones.                                                 *)
LEMMA OrderedBack ==
  ASSUME Typed, Ordered, NEW t \in client.threads, Back(t), UNCHANGED file
  PROVE Ordered'
<1>1. t \in Threads /\ client.threads \subseteq Threads
  BY ClientFacts DEF Typed, TypedClient
<1>2. pc[t] = "pushed" /\ Reading(t)
  BY DEF Back, Reading
<1>3. Busy(t)
  BY <1>1, <1>2, ReaderIsBusy DEF Ordered
<1>4. /\ UNCHANGED clientVars /\ client' = client /\ sent' = sent /\ stream' = stream
      /\ got' = got /\ conn' = conn /\ (Polled' <=> Polled) /\ owners' = owners
      /\ pending' = pending /\ raw_str' = raw_str /\ raw_msg' = raw_msg
      /\ delivered' = delivered /\ file' = file
  BY DEF Back, Polled, clientVars, epollVars, socketVars, listVars
<1>5. /\ pc'[t] = (IF call[t].type.behind THEN "frame" ELSE "return")
      /\ \A v \in Threads : v # t => pc'[v] = pc[v]
  BY <1>1 DEF Back, NextFrame, Set, Typed, TypedThreads
<1>6. /\ call'[t].first = call[t].first /\ call'[t].last_is_CONTIN = call[t].last_is_CONTIN
      /\ call'[t].already_done = call[t].already_done /\ call'[t].type = call[t].type
  <2>1. call \in [Threads -> Calls]
    BY DEF Typed, TypedThreads
  <2>2. call[t] \in Calls /\ call[t].type.behind \in BOOLEAN
    BY <1>1, <2>1 DEF Calls, FrameTypes
  <2>3. CASE call' = call
    BY <2>3
  <2>4. CASE call' = Set(call, t, [call[t] EXCEPT !.str = Last(pending).id])
    <3>1. call'[t] = [call[t] EXCEPT !.str = Last(pending).id]
      BY <1>1, <2>1, <2>4 DEF Set
    <3> QED
      BY <2>2, <3>1 DEF Calls
  <2> QED
    BY <2>3, <2>4 DEF Back
<1>7. Further(t)
  <2>1. ASSUME FirstMessage(t) PROVE FALSE
    <3>1. PICK n, text, o : \/ Begins(sent, n, pc[t], call[t], text, o)
                            \/ Midway(sent, n, pc[t], call[t], text, o)
      BY <2>1, Zenon DEF FirstMessage
    <3> QED
      BY <1>2, <3>1 DEF Begins, Midway
  <2> QED
    BY <1>3, <2>1 DEF Busy
<1>8. PICK n \in Nat : n = Len(delivered) + Len(pending) /\ n < Len(sent)
  BY <1>7 DEF Further, Typed, TypedLists
<1>9. PICK o \in Nat : o = Start(sent, n + 1)
  BY <1>8, BehindFacts, Zenon
<1>10. raw_str[t] = SubSeq(stream, o + 1, got) /\ o <= got
  <2>1. Buffered(pc[t], raw_str[t], stream, got, o)
    BY <1>7, <1>8, <1>9, Zenon DEF Further
  <2> QED
    BY <1>2, <2>1 DEF Buffered
<1>11. call[t].type.behind <=> o < got
  BY <1>2, <1>7, <1>8, <1>9, Zenon DEF Further
<1>12. Buffered(pc'[t], raw_str'[t], stream, got, o) /\ pc'[t] \in {"frame", "return"}
  <2>1. got \in Nat /\ call[t].type.behind \in BOOLEAN
    BY <1>1 DEF Calls, FrameTypes, Typed, TypedClient, TypedThreads, ByteSeq
  <2> QED
    BY <1>4, <1>5, <1>10, <1>11, <2>1, BufferedNext
<1>13. Further(t)'
  <2>1. pc'[t] # "read" /\ pc'[t] # "pushed" /\ Reading(t)'
    BY <1>12 DEF Reading
  <2> QED
    BY <1>4, <1>6, <1>7, <1>8, <1>9, <1>12, <2>1, Zenon DEF Further
<1>14. Reading(t)'
  BY <1>12 DEF Reading
<1>15. client.pipelined = {} => pending' = <<>>
  BY <1>4 DEF Ordered, Sending
<1> QED
  BY <1>3, <1>4, <1>5, <1>13, <1>14, <1>15, OrderedGoesOn, Zenon

(* So does each way of reading.                                            *)
LEMMA OrderedReads ==
  ASSUME Typed, Steady, Ordered, NEW t \in client.threads, UNCHANGED file,
         Read(t) \/ ReadMore(t) \/ ReadPart(t)
  PROVE Ordered'
<1>1. Reading(t)
  BY DEF Read, ReadMore, ReadPart, Reading
<1>2. CASE Refuse(t)
  BY <1>1, <1>2, OrderedRefuse
<1>3. CASE pc[t] = "read" /\ Receive(t, <<>>)
  <2>1. PICK before : before = <<>> /\ Receive(t, before)
    BY <1>3
  <2>2. (pc[t] = "read" /\ before = <<>>) \/ (pc[t] = "more" /\ before = raw_str[t])
    BY <1>3, <2>1
  <2> QED
    BY <2>1, <2>2, OrderedReceive
<1>4. CASE pc[t] = "more" /\ Receive(t, raw_str[t])
  BY <1>4, OrderedReceive
<1> QED
  BY <1>2, <1>3, <1>4 DEF Read, ReadMore, ReadPart

-----------------------------------------------------------------------------
(* Every step *)

(* What is on the list are whole messages.                                 *)
LEMMA ListIsDone ==
  ASSUME Typed, Ordered, NEW t \in client.threads, pc[t] \in {"msg_recv", "wait"}, pending # <<>>
  PROVE Head(pending).done /\ Head(pending).msg \in ByteSeq /\ Head(pending).binary \in BOOLEAN
        /\ file[t] = <<>>
<1>1. t \in Threads /\ client.threads \subseteq Threads
  BY ClientFacts DEF Typed, TypedClient
<1>2. InStep /\ ~Reading(t) /\ pc[t] # "aborted" /\ ~Closed
  BY DEF Closed, Ordered, Reading
<1>3. \E n : ListIs(sent, client.threads, pending, n)
  BY <1>1, <1>2, OthersRest, Zenon DEF Busy, FirstMessage, Further, Idle
<1>4. file[t] = <<>>
  BY <1>1, <1>2, OthersRest, Zenon DEF Busy, Idle, Resting
<1>5. Len(pending) \in Nat \ {0} /\ Head(pending) = pending[1] /\ pending[1] \in Elements
  BY DEF Typed, TypedLists
<1>6. 1 \in 1..Len(pending)
  BY <1>5
<1>7. Head(pending).done
  BY <1>3, <1>5, <1>6, Zenon DEF ListIs
<1> QED
  BY <1>4, <1>5, <1>7 DEF Elements

(* What msg_recv and partially_recv do keeps the order.                    *)
LEMMA OrderedPop ==
  ASSUME Typed, Steady, Ordered, NEW t \in client.threads, UNCHANGED file,
         MsgRecv(t) \/ Prefix(t)
  PROVE Ordered'
<1>1. CASE Pop(t)
  <2>1. pc[t] \in {"msg_recv", "wait"} /\ pending # <<>>
    BY <1>1 DEF MsgRecv, Pop, Prefix
  <2>2. Head(pending).done /\ Head(pending).binary \in BOOLEAN
    BY <2>1, ListIsDone
  <2>3. Returns(t, Head(pending).msg, Head(pending).binary) /\ UNCHANGED <<raw_msg, call>>
    BY <1>1, <2>2 DEF Pop
  <2>4. /\ pending' = Tail(pending) /\ pushes' = pushes
        /\ UNCHANGED <<clientVars, got, conn, epollVars, raw_str, raw_msg, call, file>>
    BY <1>1, <2>3 DEF Pop
  <2> QED
    BY <2>1, <2>2, <2>3, <2>4, OrderedTaken
<1>2. CASE /\ pc[t] = "msg_recv" /\ pending = <<>>
           /\ pc' = Set(pc, t, "wait")
           /\ owners' = owners \ {t}
           /\ UNCHANGED <<clientVars, got, conn, epollVars, listVars, raw_str, raw_msg, call,
                          delivered>>
  <2>1. pending' = pending
    BY <1>2 DEF listVars
  <2> QED
    BY <1>2, <2>1, OrderedWaits
<1> QED
  BY <1>1, <1>2 DEF MsgRecv, Prefix

(* partially_recv arms the socket when the list is empty.                  *)
LEMMA OrderedPartiallyRecv ==
  ASSUME Typed, Steady, Ordered, NEW t \in client.threads, client.partially, PartiallyRecv(t)
  PROVE Ordered'
<1>1. t \in Threads
  BY ClientFacts DEF Typed, TypedClient
<1>2. pc[t] = "msg_recv" /\ UNCHANGED <<clientVars, got, conn, pushes, raw_str>>
  BY DEF PartiallyRecv
<1>3. CASE /\ pending # <<>>
           /\ GivesPart(t, Head(pending).msg, Head(pending).done, Head(pending).binary)
           /\ pending' = Tail(pending)
           /\ UNCHANGED epollVars
  <2>1. Head(pending).done /\ Head(pending).msg \in ByteSeq /\ Head(pending).binary \in BOOLEAN
        /\ file[t] = <<>>
    BY <1>2, <1>3, ListIsDone
  <2>2. /\ Returns(t, file[t] \o Head(pending).msg, Head(pending).binary)
        /\ file' = Set(file, t, <<>>) /\ UNCHANGED <<raw_msg, call>>
    BY <1>3, <2>1 DEF GivesPart
  <2>3. file[t] \o Head(pending).msg = Head(pending).msg
    BY <2>1, ByteSeqFacts, Zenon
  <2>4. Returns(t, Head(pending).msg, Head(pending).binary)
    BY <2>2, <2>3
  <2>5. file' = file
    BY <1>1, <2>1, <2>2 DEF Set, Typed, TypedThreads
  <2> QED
    BY <1>2, <1>3, <2>1, <2>2, <2>4, <2>5, OrderedTaken
<1>4. CASE pending = <<>> /\ Rearm(t) /\ UNCHANGED <<pending, raw_msg, call, file, delivered>>
  BY <1>2, <1>4, OrderedWaits DEF Rearm
<1> QED
  BY <1>3, <1>4 DEF PartiallyRecv

(* Messages u are messages s and maybe further ones. *)
Extends(s, u) ==
  /\ Len(s) \in Nat /\ Len(u) \in Nat /\ Len(s) <= Len(u)
  /\ \A k \in 1..Len(s) : u[k] = s[k]
  /\ \A n \in 0..Len(s) : Start(u, n) = Start(s, n)

(* A message behind the others leaves these where they are in the stream.  *)
LEMMA WireMore ==
  ASSUME NEW s, NEW u, Len(s) \in Nat, Len(u) = Len(s) + 1, \A k \in 1..Len(s) : u[k] = s[k],
         \A k \in 1..Len(u) : Bytes(Frames(k, u[k])) \in ByteSeq
  PROVE /\ Extends(s, u)
        /\ Bytes(Wire(u)) = Bytes(Wire(s)) \o Bytes(Frames(Len(u), u[Len(u)]))
<1>1. PICK l \in Nat : l = Len(s) /\ l + 1 = Len(u) /\ l <= Len(u) /\ Len(u) \in Nat
  OBVIOUS
<1>2. \A k \in 1..l : k \in 1..l + 1 /\ k \in 1..Len(s) /\ k \in 1..Len(u)
  BY <1>1
<1>3. /\ Wire(s) \in Seq(ByteSeq) /\ Len(Wire(s)) = l
      /\ \A k \in 1..l : Wire(s)[k] = Bytes(Frames(k, s[k]))
  <2>1. \A k \in 1..Len(s) : Bytes(Frames(k, s[k])) \in ByteSeq
    BY <1>1, <1>2, Zenon
  <2> QED
    BY <1>1, <2>1 DEF Wire
<1>4. /\ Wire(u) \in Seq(ByteSeq) /\ Len(Wire(u)) = l + 1
      /\ \A k \in 1..l + 1 : Wire(u)[k] = Bytes(Frames(k, u[k]))
  BY <1>1 DEF Wire
<1>5. \A k \in 1..l : Wire(s)[k] = Wire(u)[k]
  BY <1>1, <1>2, <1>3, <1>4, Zenon
<1>6. PICK v \in Seq(ByteSeq), w \in Seq(ByteSeq) :
        /\ v = Wire(s) /\ w = Wire(u) /\ Len(v) = l /\ Len(w) = l + 1
        /\ \A k \in 1..l : v[k] = w[k]
  BY <1>3, <1>4, <1>5
<1>7. ASSUME NEW n \in 0..l PROVE FlatTo(v, n) = FlatTo(w, n)
  <2>1. n \in 0..Len(v) /\ n <= Len(w) /\ \A j \in 1..n : v[j] = w[j]
    BY <1>6
  <2> QED
    BY <1>6, <2>1, FlatSame DEF ByteSeq
<1>8. \A n \in 0..l : Start(u, n) = Start(s, n)
  BY <1>6, <1>7, Zenon DEF Start
<1>9. /\ FlattenSeq(v) = FlatTo(v, l)
      /\ FlattenSeq(w) = FlatTo(w, l + 1)
      /\ FlatTo(w, l + 1) = FlatTo(w, l) \o w[l + 1]
  <2>1. FlattenSeq(v) = FlatTo(v, Len(v))
    BY <1>6, FlatFacts DEF ByteSeq
  <2>2. /\ FlattenSeq(w) = FlatTo(w, Len(w))
        /\ \A i \in 1..Len(w) : FlatTo(w, i) = FlatTo(w, i - 1) \o w[i]
    BY <1>6, FlatFacts DEF ByteSeq
  <2>3. l + 1 \in 1..Len(w) /\ (l + 1) - 1 = l
    BY <1>6
  <2> QED
    BY <1>6, <2>1, <2>2, <2>3, Zenon
<1>10. l \in 0..l /\ l + 1 \in 1..l + 1
  OBVIOUS
<1>11. FlattenSeq(w) = FlattenSeq(v) \o w[l + 1]
  BY <1>7, <1>9, <1>10, Zenon
<1>12. Bytes(Wire(u)) = Bytes(Wire(s)) \o Bytes(Frames(Len(u), u[Len(u)]))
  BY <1>1, <1>4, <1>6, <1>10, <1>11, Zenon DEF Bytes
<1>13. Extends(s, u)
  BY <1>1, <1>8, Zenon DEF Extends
<1> QED
  BY <1>12, <1>13

(* So what was said of messages stays true,                                *)
LEMMA ExtendedTexts ==
  ASSUME NEW s, NEW u, Extends(s, u), NEW threads
  PROVE /\ \A msg, j : IsText(s, threads, msg, j) => IsText(u, threads, msg, j)
        /\ \A list, n : ListIs(s, threads, list, n) => ListIs(u, threads, list, n)
        /\ \A given : GivenIs(s, threads, given) => GivenIs(u, threads, given)
<1>1. ASSUME NEW k \in 1..Len(s) PROVE k \in 1..Len(u) /\ Text(u, k) = Text(s, k)
  <2>1. k \in 1..Len(u) /\ u[k] = s[k]
    BY DEF Extends
  <2> QED
    BY <2>1, Zenon DEF Text
<1>2. \A msg, j : IsText(s, threads, msg, j) => IsText(u, threads, msg, j)
  BY <1>1, Zenon DEF IsText
<1>3. \A list, n : ListIs(s, threads, list, n) => ListIs(u, threads, list, n)
  BY <1>2, Zenon DEF ListIs
<1>4. \A given : GivenIs(s, threads, given) => GivenIs(u, threads, given)
  BY <1>2, Zenon DEF GivenIs
<1> QED
  BY <1>2, <1>3, <1>4

(* and of what is decoded,                                                 *)
LEMMA ExtendedParts ==
  ASSUME NEW s, NEW u, Extends(s, u), NEW n \in Nat, NEW p, NEW c, NEW text, NEW o
  PROVE /\ Begins(s, n, p, c, text, o) => Begins(u, n, p, c, text, o)
        /\ Midway(s, n, p, c, text, o) => Midway(u, n, p, c, text, o)
<1>1. ASSUME Begins(s, n, p, c, text, o) PROVE Begins(u, n, p, c, text, o)
  <2>1. n <= Len(s) /\ n \in 0..Len(s) /\ n <= Len(u)
    BY <1>1 DEF Begins, Extends
  <2>2. Start(u, n) = Start(s, n)
    BY <2>1, Zenon DEF Extends
  <2> QED
    BY <1>1, <2>1, <2>2, Zenon DEF Begins
<1>2. ASSUME Midway(s, n, p, c, text, o) PROVE Midway(u, n, p, c, text, o)
  <2>1. n < Len(s)
    BY <1>2, Zenon DEF Midway
  <2>2. n \in 0..Len(s) /\ n + 1 \in 1..Len(s) /\ n < Len(u)
    BY <2>1 DEF Extends
  <2>3. u[n + 1] = s[n + 1] /\ Start(u, n) = Start(s, n)
    BY <2>2, Zenon DEF Extends
  <2>4. \A i : Part(u, n, i) = Part(s, n, i) /\ Behind(u, n, i) = Behind(s, n, i)
    BY <2>3, Zenon DEF Part, Behind, Within
  <2> QED
    BY <1>2, <2>2, <2>3, <2>4, Zenon DEF Midway
<1> QED
  BY <1>1, <1>2

(* and of what is received.                                                *)
LEMMA ExtendedBuffer ==
  ASSUME NEW b \in ByteSeq, NEW e, e = b \/ \E c \in ByteSeq : e = b \o c,
         NEW g \in 0..Len(b), NEW p, NEW raw, NEW o \in Nat, Buffered(p, raw, b, g, o)
  PROVE Buffered(p, raw, e, g, o)
<1>1. CASE e = b
  BY <1>1
<1>2. CASE \E c \in ByteSeq : e = b \o c
  <2>1. PICK c \in ByteSeq : e = b \o c
    BY <1>2
  <2>2. Len(b) \in Nat /\ Len(c) \in Nat /\ e \in ByteSeq /\ Len(e) = Len(b) + Len(c)
        /\ \A x \in 1..Len(b) : e[x] = b[x]
    BY <2>1 DEF ByteSeq
  <2>3. SubSeq(e, o + 1, g) = SubSeq(b, o + 1, g)
    <3>1. PICK x, y : x = SubSeq(e, o + 1, g) /\ y = SubSeq(b, o + 1, g)
      OBVIOUS
    <3>2. o + 1 \in Nat /\ 1 <= o + 1 /\ g \in Nat /\ g <= Len(b) /\ g <= Len(e)
      BY <2>2
    <3>3. /\ x \in ByteSeq /\ Len(x) = (IF o + 1 <= g THEN g - (o + 1) + 1 ELSE 0)
          /\ \A k \in 1..Len(x) : x[k] = e[o + 1 + k - 1]
      BY <2>2, <3>1, <3>2, SubSeqIs
    <3>4. /\ y \in ByteSeq /\ Len(y) = (IF o + 1 <= g THEN g - (o + 1) + 1 ELSE 0)
          /\ \A k \in 1..Len(y) : y[k] = b[o + 1 + k - 1]
      BY <3>1, <3>2, SubSeqIs
    <3>5. ASSUME NEW k \in 1..Len(x) PROVE x[k] = y[k]
      <4>1. o + 1 + k - 1 \in 1..Len(b) /\ k \in 1..Len(y)
        BY <2>2, <3>2, <3>3, <3>4
      <4> QED
        BY <2>2, <3>3, <3>4, <4>1, Zenon
    <3>6. x = y
      <4>1. Len(x) = Len(y) /\ x \in Seq(Nat) /\ y \in Seq(Nat)
        BY <3>3, <3>4 DEF ByteSeq
      <4> QED
        BY <3>5, <4>1, SeqEqual, Zenon
    <3> QED
      BY <3>1, <3>6
  <2> QED
    BY <2>3, Zenon DEF Buffered
<1> QED
  BY <1>1, <1>2

(* The steps of the client leave the threads as they are.                  *)
LEMMA ClientGoesOn ==
  ASSUME Typed, InStep, conn = "open", Extends(sent, sent'),
         stream' = stream \/ \E c \in ByteSeq : stream' = stream \o c,
         UNCHANGED <<client, socketVars, listVars, pc, raw_str, raw_msg, call, delivered, file>>
  PROVE InStep'
<1>1. /\ client' = client /\ got' = got /\ conn' = conn /\ owners' = owners
      /\ (Polled' <=> Polled) /\ pending' = pending /\ pc' = pc /\ raw_str' = raw_str /\ raw_msg' = raw_msg
      /\ call' = call /\ delivered' = delivered /\ file' = file
  BY DEF Polled, epollVars, socketVars, listVars
<1>2. ~Closed
  BY DEF Closed
<1>3. CASE Aborted
  BY <1>1, <1>3, Zenon DEF Aborted, InStep
<1>4. PICK d \in Nat, l \in Nat : d = Len(delivered) /\ l = Len(pending)
  BY DEF Typed, TypedLists
<1>5. PICK n \in Nat : n = d + l
  OBVIOUS
<1>6. /\ Len(sent) \in Nat /\ Len(sent') \in Nat /\ Len(sent) <= Len(sent')
      /\ \A k \in 0..Len(sent) : Start(sent', k) = Start(sent, k)
  BY Zenon DEF Extends
<1>7. CASE Idle
  <2>1. n <= Len(sent) /\ got = Start(sent, n)
    BY <1>4, <1>5, <1>7, Zenon DEF Idle
  <2>2. n \in 0..Len(sent) /\ n <= Len(sent')
    BY <1>6, <2>1
  <2>3. got = Start(sent', n)
    BY <1>6, <2>1, <2>2, Zenon
  <2>4. ListIs(sent', client.threads, pending, Len(delivered))
    BY <1>7, ExtendedTexts, Zenon DEF Idle
  <2>5. \A t \in Threads : Resting(t)'
    BY <1>1, <1>7, Zenon DEF Idle, Resting
  <2>6. Idle'
    BY <1>1, <1>4, <1>5, <1>7, <2>2, <2>3, <2>4, <2>5, Zenon DEF Idle, Single
  <2> QED
    BY <2>6 DEF InStep
<1>8. ASSUME NEW t \in client.threads, Busy(t) PROVE Busy(t)'
  <2>1. got \in 0..Len(stream) /\ stream \in ByteSeq
    BY DEF Typed, TypedClient
  <2>2. \A x, y : \A o \in Nat : Buffered(x, y, stream, got, o) => Buffered(x, y, stream', got, o)
    <3> SUFFICES ASSUME NEW x, NEW y, NEW o \in Nat, Buffered(x, y, stream, got, o)
                 PROVE Buffered(x, y, stream', got, o)
      OBVIOUS
    <3> QED
      BY <2>1, ExtendedBuffer
  <2>3. ASSUME FirstMessage(t) PROVE FirstMessage(t)'
    <3>1. PICK o \in 0..got :
       /\ \/ Begins(sent, n, pc[t], call[t], file[t] \o raw_msg[t], o)
          \/ Midway(sent, n, pc[t], call[t], file[t] \o raw_msg[t], o)
       /\ Buffered(pc[t], raw_str[t], stream, got, o)
      BY <1>4, <1>5, <2>3, Zenon DEF FirstMessage
    <3>2. o \in Nat
      BY <2>1
    <3>3. \/ Begins(sent', n, pc[t], call[t], file[t] \o raw_msg[t], o)
          \/ Midway(sent', n, pc[t], call[t], file[t] \o raw_msg[t], o)
      BY <1>5, <3>1, ExtendedParts, Zenon
    <3>4. Buffered(pc[t], raw_str[t], stream', got, o)
      BY <2>2, <3>1, <3>2, Zenon
    <3>5. ListIs(sent', client.threads, pending, Len(delivered))
      BY <2>3, ExtendedTexts, Zenon DEF FirstMessage
    <3>6. /\ call[t].first \/ call[t].last_is_CONTIN
          /\ ~call[t].already_done /\ call[t].str = 0
          /\ Single => pending = <<>>
      BY <2>3, Zenon DEF FirstMessage
    <3> QED
      BY <1>1, <1>4, <1>5, <3>1, <3>3, <3>4, <3>5, <3>6, Zenon DEF FirstMessage, Single
  <2>4. ASSUME Further(t) PROVE Further(t)'
    <3>1. n < Len(sent) /\ Buffered(pc[t], raw_str[t], stream, got, Start(sent, n + 1))
      BY <1>4, <1>5, <2>4, Zenon DEF Further
    <3>2. n < Len(sent') /\ n + 1 \in 0..Len(sent)
      BY <1>6, <3>1
    <3>3. Start(sent, n + 1) \in Nat /\ Start(sent', n + 1) = Start(sent, n + 1)
      BY <1>6, <3>1, <3>2, BehindFacts, Zenon
    <3>4. Buffered(pc[t], raw_str[t], stream', got, Start(sent', n + 1))
      BY <2>2, <3>1, <3>3, Zenon
    <3>5. /\ ListIs(sent', client.threads, pending, Len(delivered) + 1)
          /\ IsText(sent', client.threads, file[t] \o raw_msg[t], Len(delivered) + 1)
      BY <2>4, ExtendedTexts, Zenon DEF Further
    <3>6. /\ pc[t] # "read" /\ ~call[t].first /\ ~call[t].last_is_CONTIN
          /\ call[t].already_done /\ call[t].type.done
      BY <2>4, Zenon DEF Further
    <3>10. pc[t] = "pushed" => (call[t].type.behind <=> Start(sent, n + 1) < got)
      BY <1>4, <1>5, <2>4, Zenon DEF Further
    <3>7. /\ Len(delivered') + Len(pending') < Len(sent')
          /\ Buffered(pc'[t], raw_str'[t], stream', got',
                      Start(sent', Len(delivered') + Len(pending') + 1))
          /\ pc'[t] = "pushed" =>
               (call'[t].type.behind <=> Start(sent', Len(delivered') + Len(pending') + 1) < got')
      BY <1>1, <1>4, <1>5, <3>2, <3>3, <3>4, <3>10, Zenon
    <3>8. /\ ListIs(sent', client'.threads, pending', Len(delivered') + 1)
          /\ IsText(sent', client'.threads, file'[t] \o raw_msg'[t], Len(delivered') + 1)
      BY <1>1, <3>5, Zenon
    <3>9. /\ pc'[t] # "read" /\ ~call'[t].first /\ ~call'[t].last_is_CONTIN
          /\ call'[t].already_done /\ call'[t].type.done
      BY <1>1, <3>6, Zenon
    <3> QED
      BY <3>7, <3>8, <3>9, Zenon DEF Further
  <2>5. Reading(t)' /\ \A u \in Threads : u # t => Resting(u)'
    BY <1>1, <1>8, Zenon DEF Busy, Reading, Resting
  <2> QED
    BY <1>1, <1>8, <2>3, <2>4, <2>5, Zenon DEF Busy
<1> QED
  BY <1>1, <1>2, <1>3, <1>7, <1>8, Zenon DEF InStep

(* It sends a message only when the order allows it,                       *)
LEMMA OrderedSend ==
  ASSUME Typed, Steady, Ordered, Send, UNCHANGED file
  PROVE Ordered'
<1>1. PICK m \in [binary : client.binary, parts : client.parts] :
        LET ahead == {sent[i].parts : i \in Len(delivered) + 1 .. Len(sent)}
        IN /\ ahead = {} \/ ahead \union {m.parts} \subseteq client.pipelined
           /\ sent' = Append(sent, m)
           /\ stream' = stream \o Bytes(Frames(Len(sent) + 1, m))
  BY DEF Send
<1>2. /\ conn = "open" /\ ~finished /\ finished' = finished /\ client' = client /\ pending' = pending
      /\ (Polled' <=> Polled)
      /\ delivered' = delivered /\ owners' = owners /\ pc' = pc /\ file' = file
      /\ UNCHANGED <<client, socketVars, listVars, pc, raw_str, raw_msg, call, delivered, file>>
  BY DEF Polled, Send, epollVars, socketVars, listVars
<1>3. PICK l \in Nat, d \in Nat : l = Len(sent) /\ d = Len(delivered)
  BY DEF Typed, TypedClient, TypedLists
<1>4. MessageOf(m)
  BY ClientFacts DEF Typed, TypedClient
<1>5. /\ Len(sent') = l + 1 /\ sent'[l + 1] = m /\ \A k \in 1..l : sent'[k] = sent[k]
  BY <1>1, <1>3 DEF Typed, TypedClient
<1>6. \A k \in 1..l + 1 : Bytes(Frames(k, sent'[k])) \in ByteSeq
  <2>1. \A k \in 1..l : Bytes(Frames(k, sent'[k])) \in ByteSeq
    BY <1>3, <1>5, WireFacts, Zenon
  <2>2. Bytes(Frames(l + 1, sent'[l + 1])) \in ByteSeq
    <3>1. l + 1 \in Nat
      OBVIOUS
    <3> QED
      BY <1>4, <1>5, <3>1, FrameEnds, Zenon
  <2>3. \A k \in 1..l + 1 : k \in 1..l \/ k = l + 1
    OBVIOUS
  <2> QED
    BY <2>1, <2>2, <2>3, Zenon
<1>7. /\ Extends(sent, sent')
      /\ Bytes(Wire(sent')) = Bytes(Wire(sent)) \o Bytes(Frames(l + 1, m))
  <2>1. Len(sent) \in Nat /\ Len(sent') = Len(sent) + 1
    BY <1>3, <1>5
  <2>2. /\ Extends(sent, sent')
        /\ Bytes(Wire(sent')) = Bytes(Wire(sent)) \o Bytes(Frames(Len(sent'), sent'[Len(sent')]))
    BY <1>3, <1>5, <1>6, <2>1, WireMore, Zenon
  <2> QED
    BY <1>5, <2>2, Zenon
<1>8. Laid'
  <2>1. stream = Bytes(Wire(sent))
    BY <1>2 DEF Laid, Ordered
  <2>2. stream' = Bytes(Wire(sent'))
    BY <1>1, <1>3, <1>7, <2>1, Zenon
  <2> QED
    BY <2>2, Zenon DEF Laid
<1>9. \E c \in ByteSeq : stream' = stream \o c
  <2>1. Bytes(Frames(l + 1, m)) \in ByteSeq
    <3>1. l + 1 \in Nat
      OBVIOUS
    <3> QED
      BY <1>4, <3>1, FrameEnds, Zenon
  <2> QED
    BY <1>1, <1>3, <2>1, Zenon
<1>10. InStep'
  BY <1>2, <1>7, <1>9, ClientGoesOn DEF Ordered
<1>11. GivenIs(sent', client.threads, delivered)
  BY <1>7, ExtendedTexts, Zenon DEF Ordered
<1>12. ASSUME NEW k \in 1..l, ~ k <= d
       PROVE client.pipelined # {} /\ Len(sent[k].parts) = 1 /\ m.parts \in client.pipelined
  <2>1. k \in Len(delivered) + 1 .. Len(sent)
    BY <1>3, <1>12
  <2>2. sent[k].parts \in client.pipelined /\ m.parts \in client.pipelined
    BY <1>1, <2>1
  <2> QED
    BY <2>2 DEF Steady
<1>13. l <= d \/ (client.pipelined # {} /\ m.parts \in client.pipelined /\ Len(m.parts) = 1)
  <2>1. CASE ~ l <= d
    <3>1. l \in 1..l
      BY <2>1
    <3> QED
      BY <1>12, <2>1, <3>1 DEF Steady
  <2> QED
    BY <2>1
<1>14. Sending'
  <2>1. ASSUME NEW k \in 1..l + 1, Len(sent'[k].parts) # 1
        PROVE k <= d + 1 /\ (k < l + 1 => k <= d)
    <3>1. CASE k \in 1..l
      <4>1. k <= d
        BY <1>5, <1>12, <2>1, <3>1
      <4> QED
        BY <4>1
    <3>2. CASE k = l + 1
      <4>1. l <= d
        BY <1>5, <1>13, <2>1, <3>2, Zenon
      <4> QED
        BY <3>2, <4>1
    <3> QED
      BY <3>1, <3>2
  <2>2. client.pipelined = {} => l + 1 <= d + 1 /\ pending = <<>>
    BY <1>13 DEF Ordered, Sending
  <2> QED
    BY <1>2, <1>3, <1>5, <2>1, <2>2, Zenon DEF Sending
<1>15. Owning' /\ Filed'
  BY <1>2, Zenon DEF Filed, Ordered, Owning, Reading, Single
<1> QED
  BY <1>2, <1>8, <1>10, <1>11, <1>14, <1>15, Zenon DEF Ordered

(* and then may end the stream.                                            *)
LEMMA OrderedFinish ==
  ASSUME Typed, Steady, Ordered, Finish, UNCHANGED file
  PROVE Ordered'
<1>1. /\ conn = "open" /\ ~finished /\ finished' /\ client' = client /\ sent' = sent
      /\ pending' = pending /\ delivered' = delivered /\ (Polled' <=> Polled) /\ owners' = owners
      /\ pc' = pc /\ file' = file
      /\ UNCHANGED <<client, socketVars, listVars, pc, raw_str, raw_msg, call, delivered, file>>
      /\ stream' = stream \/ stream' = stream \o ClientHeader(136, 0)
  BY DEF Finish, Polled, epollVars, socketVars, listVars
<1>2. Extends(sent, sent')
  <2>1. Len(sent) \in Nat /\ Len(sent) <= Len(sent)
    BY WireFacts
  <2> QED
    BY <1>1, <2>1, Zenon DEF Extends
<1>3. stream' = stream \/ \E c \in ByteSeq : stream' = stream \o c
  BY <1>1, CloseIs, Zenon
<1>4. InStep'
  BY <1>1, <1>2, <1>3, ClientGoesOn DEF Ordered
<1>5. Laid'
  BY <1>1, Zenon DEF Laid, Ordered
<1>6. Sending' /\ Owning' /\ Filed'
  BY <1>1, Zenon DEF Filed, Ordered, Owning, Reading, Sending, Single
<1> QED
  BY <1>1, <1>4, <1>5, <1>6, Zenon DEF Ordered

(* The socket that was handed over is disarmed.                            *)
LEMMA OrderedDisarm ==
  ASSUME Typed, Ordered, Disarm, UNCHANGED file
  PROVE Ordered'
<1>1. /\ client' = client /\ sent' = sent /\ stream' = stream /\ finished' = finished
      /\ got' = got /\ conn' = conn /\ owners' = owners /\ ~Polled' /\ pending' = pending
      /\ pc' = pc /\ raw_str' = raw_str /\ raw_msg' = raw_msg /\ call' = call
      /\ delivered' = delivered /\ file' = file
  BY DEF Disarm, Polled, clientVars, listVars
<1>2. Laid' /\ Sending' /\ Filed' /\ Owning'
  BY <1>1, Zenon DEF Filed, Laid, Ordered, Owning, Reading, Sending, Single
<1>3. ASSUME NEW t, Busy(t) PROVE Busy(t)'
  <2>1. FirstMessage(t) => FirstMessage(t)'
    BY <1>1, Zenon DEF FirstMessage, Single
  <2>2. Further(t) => Further(t)'
    BY <1>1, Zenon DEF Further
  <2>3. Reading(t)' /\ \A u \in Threads : u # t => Resting(u)'
    BY <1>1, <1>3, Zenon DEF Busy, Reading, Resting
  <2> QED
    BY <1>1, <1>3, <2>1, <2>2, <2>3, Zenon DEF Busy
<1>4. (Closed => Closed') /\ (Aborted => Aborted')
  BY <1>1, Zenon DEF Aborted, Closed, Reading
<1>5. Idle => Idle'
  BY <1>1, Zenon DEF Idle, Resting, Single
<1>6. InStep'
  BY <1>1, <1>3, <1>4, <1>5, Zenon DEF InStep, Ordered
<1> QED
  BY <1>1, <1>2, <1>6, Zenon DEF Ordered

(* In the beginning nothing is sent,                                       *)
LEMMA OrderedInit == PartialInit => Ordered
<1> SUFFICES ASSUME PartialInit PROVE Ordered
  OBVIOUS
<1>1. Typed
  BY TypedInit
<1>2. /\ sent = <<>> /\ stream = <<>> /\ got = 0 /\ conn = "open" /\ owners = {} /\ pending = <<>>
      /\ delivered = <<>> /\ \A t \in Threads : pc[t] = "msg_recv" /\ file[t] = <<>>
  BY DEF PartialInit, ReaderInit
<1>3. Len(sent) = 0 /\ Len(delivered) = 0 /\ Len(pending) = 0 /\ 0 + 0 = 0
  BY <1>2
<1>4. Start(sent, 0) = 0
  BY <1>1, WireFacts
<1>5. Laid
  <2>1. Bytes(Wire(sent)) \in ByteSeq /\ Len(Bytes(Wire(sent))) = 0
    <3>1. Bytes(Wire(sent)) = FlatTo(Wire(sent), 0)
      BY <1>1, <1>3, WireFacts, Zenon
    <3> QED
      BY <1>1, <1>4, <3>1, WireFacts, Zenon DEF Start
  <2>2. \A b \in ByteSeq : Len(b) = 0 => b = <<>>
    BY DEF ByteSeq
  <2> QED
    BY <1>2, <2>1, <2>2, Zenon DEF Laid
<1>6. Sending
  BY <1>2, <1>3 DEF Sending
<1>7. Owning /\ Filed
  BY <1>2 DEF Filed, Owning, Reading
<1>8. \A s, threads, n : ListIs(s, threads, <<>>, n) /\ GivenIs(s, threads, <<>>)
  BY DEF GivenIs, ListIs
<1>9. Idle
  <2>1. \A t \in Threads : Resting(t)
    BY <1>2 DEF Resting
  <2>2. Len(delivered) + Len(pending) = 0 /\ 0 <= Len(sent)
    BY <1>3
  <2> QED
    <3>1. got = Start(sent, Len(delivered) + Len(pending)) /\ Len(delivered) + Len(pending) <= Len(sent)
      <4>1. PICK n : n = Len(delivered) + Len(pending) /\ n = 0
        BY <2>2
      <4>2. got = Start(sent, n)
        BY <1>2, <1>4, <4>1
      <4> QED
        BY <2>2, <4>1, <4>2, Zenon
    <3>2. ListIs(sent, client.threads, pending, Len(delivered))
      BY <1>2, <1>8, Zenon
    <3> QED
      BY <1>2, <2>1, <3>1, <3>2, Zenon DEF Idle
<1> QED
  BY <1>2, <1>5, <1>6, <1>7, <1>8, <1>9, Zenon DEF InStep, Ordered

(* and what the threads of such a client do keeps the order.               *)
LEMMA OrderedServe ==
  ASSUME Typed, Steady, Ordered, NEW t \in client.threads, ServeClient(t)
  PROVE Ordered'
<1>1. CASE ~client.partially /\ Works(t) /\ UNCHANGED file
  <2>1. CASE MsgRecv(t) \/ Prefix(t)
    BY <1>1, <2>1, OrderedPop
  <2>2. CASE Take(t)
    BY <1>1, <2>2, OrderedTake
  <2>3. CASE Read(t) \/ ReadMore(t)
    BY <1>1, <2>3, OrderedReads
  <2>4. CASE DecodeFrame(t)
    BY <1>1, <2>4, OrderedDecode
  <2>5. CASE Return(t)
    BY <1>1, <2>5, OrderedReturn
  <2>6. CASE Back(t)
    BY <1>1, <2>6, OrderedBack
  <2> QED
    BY <1>1, <2>1, <2>2, <2>3, <2>4, <2>5, <2>6 DEF Works
<1>2. CASE client.partially /\ WorksOnParts(t)
  <2>1. CASE PartiallyRecv(t)
    BY <1>2, <2>1, OrderedPartiallyRecv
  <2>2. CASE NoMessage(t)
    BY <1>2, <2>2, OrderedNoMessage
  <2>3. CASE ReadPart(t)
    <3>1. UNCHANGED file
      BY <2>3 DEF ReadPart
    <3> QED
      BY <2>3, <3>1, OrderedReads
  <2>4. CASE ReturnPart(t)
    BY <1>2, <2>4, OrderedReturnPart
  <2>5. CASE Abandon(t)
    BY <1>2, <2>5, OrderedAbandon
  <2>6. CASE Take(t) /\ UNCHANGED file
    BY <2>6, OrderedTake
  <2>7. CASE ReadMore(t) /\ UNCHANGED file
    BY <2>7, OrderedReads
  <2>8. CASE DecodeFrame(t) /\ UNCHANGED file
    BY <2>8, OrderedDecode
  <2>9. CASE Back(t) /\ UNCHANGED file
    BY <2>9, OrderedBack
  <2> QED
    BY <1>2, <2>1, <2>2, <2>3, <2>4, <2>5, <2>6, <2>7, <2>8, <2>9 DEF WorksOnParts
<1> QED
  BY <1>1, <1>2 DEF ServeClient

(* No step changes the kind of the client. *)
LEMMA SameClient == [PartialNext]_partialVars => client' = client
<1> SUFFICES ASSUME [PartialNext]_partialVars PROVE client' = client
  OBVIOUS
<1>1. CASE Send \/ Finish \/ Disarm
  BY <1>1 DEF Disarm, Finish, Send, clientVars
<1>2. ASSUME NEW t, ServeClient(t) PROVE client' = client
  <2>1. ASSUME Refuse(t) PROVE client' = client
    BY <2>1 DEF Refuse, clientVars
  <2>2. ASSUME NEW before, Receive(t, before) PROVE client' = client
    BY <2>2 DEF Receive, clientVars
  <2>3. ASSUME Pop(t) PROVE client' = client
    BY <2>3 DEF Pop, clientVars
  <2>4. CASE MsgRecv(t) \/ Prefix(t) \/ Take(t) \/ PartiallyRecv(t) \/ NoMessage(t) \/ Abandon(t)
    BY <2>3, <2>4 DEF Abandon, MsgRecv, NoMessage, PartiallyRecv, Prefix, Take, clientVars
  <2>5. CASE Read(t) \/ ReadMore(t) \/ ReadPart(t)
    BY <2>1, <2>2, <2>5 DEF Read, ReadMore, ReadPart
  <2>6. CASE DecodeFrame(t) \/ Back(t)
    BY <2>1, <2>6 DEF Abort, Back, DecodeFrame, clientVars
  <2>7. CASE Return(t) \/ ReturnPart(t)
    BY <2>1, <2>7 DEF Return, ReturnPart, clientVars
  <2> QED
    BY <1>2, <2>4, <2>5, <2>6, <2>7 DEF ServeClient, Works, WorksOnParts
<1>3. CASE UNCHANGED partialVars
  BY <1>3 DEF partialVars, readerVars, clientVars
<1> QED
  BY <1>1, <1>2, <1>3 DEF PartialNext, Serve

(* The messages of an orderly client are always in step with the stream.   *)
LEMMA OrderedStep ==
  Typed /\ (Steady => Ordered) /\ [PartialNext]_partialVars => (Steady => Ordered)'
<1> SUFFICES ASSUME Typed, Steady => Ordered, [PartialNext]_partialVars, Steady' PROVE Ordered'
  OBVIOUS
<1>1. Steady /\ Ordered
  <2>1. client' = client
    BY SameClient
  <2>2. Steady
    BY <2>1, Zenon DEF Single, Steady
  <2> QED
    BY <2>2
<1>2. CASE Send /\ UNCHANGED file
  BY <1>1, <1>2, OrderedSend
<1>3. CASE Finish /\ UNCHANGED file
  BY <1>1, <1>3, OrderedFinish
<1>4. CASE Serve
  BY <1>1, <1>4, OrderedServe DEF Serve
<1>6. CASE Disarm /\ UNCHANGED file
  BY <1>1, <1>6, OrderedDisarm
<1>5. CASE UNCHANGED partialVars
  <2>1. Ordered /\ UNCHANGED partialVars => Ordered'
    BY DEF Aborted, Busy, Closed, Filed, FirstMessage, Further, Idle, InStep, Laid, Ordered, Owning,
           Polled, Reading, Resting, Sending, Single, clientVars, epollVars, listVars,
           partialVars, readerVars, socketVars
  <2> QED
    BY <1>1, <1>5, <2>1
<1> QED
  BY <1>2, <1>3, <1>4, <1>5, <1>6 DEF PartialNext

(* Who is orderly, *)
LEMMA OrderlyIsSteady ==
  ASSUME Typed
  PROVE /\ Cardinality(client.threads) = 1 => Single
        /\ Orderly => Steady
<1>1. IsFiniteSet(client.threads)
  BY ClientFacts, FS_Subset, ReaderAssumption DEF Typed, TypedClient
<1>2. ASSUME Cardinality(client.threads) = 1 PROVE Single
  <2>1. \E x : client.threads = {x}
    BY <1>1, <1>2, FS_Singleton
  <2> QED
    BY <2>1 DEF One, Single
<1> QED
  BY <1>2 DEF Orderly, Steady

(* and what is returned to it. *)
LEMMA GivenAreSent ==
  ASSUME Typed, Orderly, Steady => Ordered, NEW i \in 1..Len(delivered)
  PROVE \E k \in 1..Len(sent) : delivered[i].msg = Message(k) /\ (Single => k = i)
<1>1. GivenIs(sent, client.threads, delivered)
  BY OrderlyIsSteady DEF Ordered
<1>2. PICK k \in 1..Len(sent) : delivered[i].msg = Text(sent, k) /\ (Single => k = i)
  BY <1>1, Zenon DEF GivenIs, IsText, Single
<1>3. Message(k) = Text(sent, k)
  BY SentAre DEF Text
<1> QED
  BY <1>2, <1>3

(* `Ordered' holds for good.                                               *)
LEMMA AlwaysOrdered == PartialSpec => [](Typed /\ (Steady => Ordered))
<1>1. PartialInit => Typed /\ (Steady => Ordered)
  BY OrderedInit, TypedInit
<1>2. Typed /\ (Steady => Ordered) /\ [PartialNext]_partialVars => (Typed /\ (Steady => Ordered))'
  BY OrderedStep, TypedStep
<1> QED
  BY <1>1, <1>2, PTL DEF PartialSpec

(* A single thread gets the messages whole and in the order they were      *)
(* sent, none left out: more_data puts the ones behind the first on the    *)
(* pending list in the order of their frames, and msg_recv and             *)
(* partially_recv empty that list before they read from the socket again.  *)
THEOREM MessagesInOrder == PartialSpec => []InOrder
<1>1. Typed /\ (Steady => Ordered) => InOrder
  <2> SUFFICES ASSUME Typed, Steady => Ordered, Orderly, Cardinality(client.threads) = 1
               PROVE /\ Len(delivered) <= Len(sent)
                     /\ \A i \in 1..Len(delivered) : delivered[i].msg = Message(i)
    BY DEF InOrder
  <2>1. Single
    BY OrderlyIsSteady
  <2>2. ASSUME NEW i \in 1..Len(delivered)
        PROVE i \in 1..Len(sent) /\ delivered[i].msg = Message(i)
    <3>1. PICK k \in 1..Len(sent) : delivered[i].msg = Message(k) /\ k = i
      BY <2>1, GivenAreSent
    <3> QED
      BY <3>1
  <2>3. Len(delivered) \in Nat /\ Len(sent) \in Nat
    BY DEF Typed, TypedClient, TypedLists
  <2>4. Len(delivered) <= Len(sent)
    <3>1. CASE Len(delivered) = 0
      BY <2>3, <3>1
    <3>2. CASE Len(delivered) \in 1..Len(delivered)
      BY <2>2, <2>3, <3>2
    <3> QED
      BY <2>3, <3>1, <3>2
  <2> QED
    BY <2>2, <2>4
<1> QED
  BY <1>1, AlwaysOrdered, PTL

-----------------------------------------------------------------------------
(* The messages as numbers *)

(* Messages none of which is empty are told apart by their bytes. *)
Told(s) ==
  \A k \in 1..Len(s) :
    /\ Len(Text(s, k)) \in Nat \ {0}
    /\ \A j \in 1..Len(Text(s, k)) : Text(s, k)[j] = KeyByte + k

(* Number and Numbers, of messages s and what was returned. *)
Some(same) == IF same = {} THEN 0 ELSE CHOOSE k \in same : TRUE

NumberOf(s, d) == Some({k \in 1..Len(s) : d.msg = Text(s, k)})

NumbersOf(s, given) == [i \in 1..Len(given) |-> NumberOf(s, given[i])]

(* What is returned are messages, none of them twice. *)
Whole(s, given) == \A i \in 1..Len(given) : \E k \in 1..Len(s) : given[i].msg = Text(s, k)

Once(s, given) ==
  \A i, j \in 1..Len(given) : \A k \in 1..Len(s) :
    given[i].msg = Text(s, k) /\ given[j].msg = Text(s, k) => i = j

(* They depend on what was sent and returned only.                         *)
LEMMA NumbersAre == Typed => Numbers = NumbersOf(sent, delivered)
<1> SUFFICES ASSUME Typed PROVE Numbers = NumbersOf(sent, delivered)
  OBVIOUS
<1>1. \A k \in 1..Len(sent) : Message(k) = Text(sent, k)
  BY SentAre DEF Text
<1>2. ASSUME NEW d PROVE Number(d) = NumberOf(sent, d)
  <2>1. {k \in 1..Len(sent) : d.msg = Message(k)} = {k \in 1..Len(sent) : d.msg = Text(sent, k)}
    BY <1>1
  <2>2. Number(d) = Some({k \in 1..Len(sent) : d.msg = Message(k)})
    BY DEF Number, Some
  <2> QED
    BY <2>1, <2>2, Zenon DEF NumberOf
<1> QED
  BY <1>2, Zenon DEF Numbers, NumbersOf

(* The bytes of a message are its own. *)
LEMMA TextBytes ==
  ASSUME NEW k \in Nat, NEW m, MessageOf(m)
  PROVE /\ Bytes(Payloads(k, m)) \in ByteSeq
        /\ \A j \in 1..Len(Bytes(Payloads(k, m))) : Bytes(Payloads(k, m))[j] = KeyByte + k
        /\ \A i \in 1..Len(m.parts) : m.parts[i] <= Len(Bytes(Payloads(k, m))) /\ m.parts[i] \in Nat
<1> DEFINE P == Payloads(k, m)
           l == Len(m.parts)
           F(i) == FlatTo(P, i)
<1>1. l \in Nat
  BY DEF MessageOf
<1>2. /\ \A i \in 1..l :
           /\ P[i] = Payload(k, m.parts[i]) /\ m.parts[i] \in Nat
           /\ P[i] \in ByteSeq /\ Len(P[i]) = m.parts[i]
           /\ \A j \in 1..m.parts[i] : P[i][j] = KeyByte + k
      /\ \A i \in 0..l : F(i) \in ByteSeq
      /\ F(0) = <<>>
      /\ \A i \in 1..l : F(i) = F(i - 1) \o P[i]
      /\ Bytes(P) = F(l)
      /\ P \in Seq(ByteSeq) /\ Len(P) = l
  <2>1. ASSUME NEW i \in 1..l
        PROVE /\ P[i] = Payload(k, m.parts[i]) /\ m.parts[i] \in Nat
              /\ P[i] \in ByteSeq /\ Len(P[i]) = m.parts[i]
              /\ \A j \in 1..m.parts[i] : P[i][j] = KeyByte + k
              /\ F(i) = F(i - 1) \o P[i]
    <3>1. /\ P[i] = Payload(k, m.parts[i]) /\ m.parts[i] \in Nat
          /\ Payload(k, m.parts[i]) \in ByteSeq /\ Len(Payload(k, m.parts[i])) = m.parts[i]
          /\ \A j \in 1..m.parts[i] : Payload(k, m.parts[i])[j] = KeyByte + k
      BY PayloadsAre, Zenon
    <3>2. F(i) = F(i - 1) \o Payload(k, m.parts[i])
      BY PayloadsAre, Zenon
    <3> HIDE DEF P, F
    <3> QED
      BY <3>1, <3>2, Zenon
  <2>4. /\ \A i \in 0..l : F(i) \in ByteSeq
        /\ F(0) = <<>>
        /\ Bytes(P) = F(l)
        /\ P \in Seq(ByteSeq) /\ Len(P) = l
    BY PayloadsAre, Zenon
  <2> QED
    <3> HIDE DEF P, F
    <3> QED
      BY <2>1, <2>4, Zenon
<1>3. \A i \in 0..l : Len(F(i)) \in Nat /\ Len(F(i)) <= Len(F(l))
  BY <1>1, <1>2, FlatMonotone
<1> HIDE DEF P, F, l
<1>4. ASSUME NEW i \in 1..l
      PROVE /\ i - 1 \in 0..l /\ i \in 0..l /\ m.parts[i] <= Len(F(l))
            /\ (\A j \in 1..Len(F(i - 1)) : F(i - 1)[j] = KeyByte + k)
                 => \A j \in 1..Len(F(i)) : F(i)[j] = KeyByte + k
  <2>1. i - 1 \in 0..l /\ i \in 0..l
    BY <1>1
  <2>2. PICK a \in ByteSeq, b \in ByteSeq, size \in Nat :
          /\ a = F(i - 1) /\ b = P[i] /\ a \o b = F(i) /\ size = m.parts[i] /\ Len(b) = size
          /\ \A j \in 1..size : b[j] = KeyByte + k
    BY <1>2, <2>1
  <2>3. /\ Len(a) \in Nat /\ Len(a \o b) = Len(a) + Len(b)
        /\ \A p \in 1..Len(a \o b) : (a \o b)[p] = IF p <= Len(a) THEN a[p] ELSE b[p - Len(a)]
    BY ConcatAt
  <2>4. size <= Len(F(l))
    <3>1. Len(a \o b) <= Len(F(l)) /\ Len(F(l)) \in Nat
      <4>1. l \in 0..l
        BY <1>1
      <4> QED
        BY <1>3, <2>1, <2>2, <4>1, Zenon
    <3>2. \A x, y, z, n \in Nat : x = y + z /\ x <= n => z <= n
      OBVIOUS
    <3>3. Len(b) = size
      BY <2>2, Zenon
    <3>4. Len(a \o b) \in Nat /\ Len(b) \in Nat
      <4>1. \A x, y \in Nat : x + y \in Nat
        OBVIOUS
      <4> QED
        BY <4>1, ConcatAt, Zenon
    <3>5. Len(b) <= Len(F(l))
      BY <2>3, <3>1, <3>2, <3>4, Zenon
    <3> QED
      BY <3>3, <3>5, Zenon
  <2>5. ASSUME \A j \in 1..Len(a) : a[j] = KeyByte + k, NEW j \in 1..Len(a \o b)
        PROVE (a \o b)[j] = KeyByte + k
    <3>1. CASE j <= Len(a)
      <4>1. j \in 1..Len(a)
        BY <2>3, <3>1
      <4> QED
        BY <2>3, <2>5, <3>1, <4>1, Zenon
    <3>2. CASE ~ j <= Len(a)
      <4>1. j - Len(a) \in 1..Len(b)
        <5>1. \A x, y \in Nat : \A z \in 1..x + y : ~ z <= x => z - x \in 1..y
          OBVIOUS
        <5> QED
          BY <2>3, <3>2, <5>1, ConcatAt, Zenon
      <4> QED
        BY <2>2, <2>3, <3>2, <4>1, Zenon
    <3> QED
      BY <3>1, <3>2
  <2> QED
    BY <2>1, <2>2, <2>4, <2>5, Zenon
<1> DEFINE T == {i \in Nat : i <= l => \A j \in 1..Len(F(i)) : F(i)[j] = KeyByte + k}
<1>5. 0 \in T
  BY <1>2
<1>6. ASSUME NEW i \in T PROVE i + 1 \in T
  <2>1. i + 1 <= l => i <= l /\ i + 1 \in 1..l /\ (i + 1) - 1 = i
    BY <1>1
  <2>2. i + 1 \in Nat
    OBVIOUS
  <2>3. i + 1 <= l => \A j \in 1..Len(F(i + 1)) : F(i + 1)[j] = KeyByte + k
    BY <1>4, <2>1, Zenon
  <2> QED
    BY <2>2, <2>3
<1>7. l \in T
  <2> HIDE DEF T
  <2> QED
    BY <1>1, <1>5, <1>6, Induction
<1>8. l <= l /\ l \in 0..l
  BY <1>1
<1>9. \A j \in 1..Len(F(l)) : F(l)[j] = KeyByte + k
  BY <1>7, <1>8, Zenon
<1> QED
  BY <1>2, <1>4, <1>8, <1>9, Zenon DEF P, l

(* A message that is not empty has a byte, and all its bytes say which one *)
(* it is.                                                                  *)
LEMMA TextsTold == Typed /\ ToldApart => Told(sent)
<1> SUFFICES ASSUME Typed, ToldApart, NEW k \in 1..Len(sent)
             PROVE /\ Len(Text(sent, k)) \in Nat \ {0}
                   /\ \A j \in 1..Len(Text(sent, k)) : Text(sent, k)[j] = KeyByte + k
  BY Zenon DEF Told
<1>1. PICK m, text : m = sent[k] /\ text = Text(sent, k) /\ text = Bytes(Payloads(k, m))
  BY DEF Text
<1>2. MessageOf(m) /\ k \in Nat
  BY <1>1, SentAre
<1>3. m.parts \in client.parts
  <2>1. m \in [binary : client.binary, parts : client.parts]
    BY <1>1, ElementOfSeq, Zenon DEF Typed, TypedClient
  <2> QED
    BY <2>1
<1>4. PICK i \in 1..Len(m.parts) : m.parts[i] > 0
  BY <1>3 DEF ToldApart
<1>5. /\ text \in ByteSeq
      /\ \A j \in 1..Len(text) : text[j] = KeyByte + k
      /\ m.parts[i] <= Len(text) /\ m.parts[i] \in Nat
  BY <1>1, <1>2, TextBytes
<1>6. Len(text) \in Nat \ {0}
  <2>1. Len(text) \in Nat
    BY <1>5 DEF ByteSeq
  <2> QED
    BY <1>4, <1>5, <2>1
<1> QED
  BY <1>1, <1>5, <1>6, Zenon

(* So the number of a message is found by them. *)
LEMMA NumberOfText ==
  ASSUME NEW s, Told(s), NEW k \in 1..Len(s), NEW d, d.msg = Text(s, k)
  PROVE NumberOf(s, d) = k
<1>1. ASSUME NEW j \in 1..Len(s), d.msg = Text(s, j) PROVE j = k
  <2>1. PICK text : text = Text(s, j) /\ text = Text(s, k)
    BY <1>1
  <2>2. Len(text) \in Nat \ {0} /\ \A x \in 1..Len(text) : text[x] = KeyByte + k /\ text[x] = KeyByte + j
    BY <2>1, Zenon DEF Told
  <2>3. 1 \in 1..Len(text)
    <3>1. \A n \in Nat \ {0} : 1 \in 1..n
      OBVIOUS
    <3> QED
      BY <2>2, <3>1, Zenon
  <2>4. text[1] = KeyByte + k /\ text[1] = KeyByte + j
    BY <2>2, <2>3, Zenon
  <2>5. KeyByte + k = KeyByte + j
    BY <2>4, Zenon
  <2>6. k \in Int /\ j \in Int
    OBVIOUS
  <2> QED
    BY <2>5, <2>6 DEF KeyByte
<1>2. \A j \in {x \in 1..Len(s) : d.msg = Text(s, x)} : j = k
  BY <1>1
<1>3. k \in {x \in 1..Len(s) : d.msg = Text(s, x)}
  OBVIOUS
<1> QED
  <2> DEFINE same == {x \in 1..Len(s) : d.msg = Text(s, x)}
  <2>1. same # {} /\ \A x : x \in same => x = k
    BY <1>2, <1>3
  <2> HIDE DEF same
  <2>2. (CHOOSE x \in same : TRUE) \in same
    BY <2>1
  <2>3. Some(same) = k
    BY <2>1, <2>2 DEF Some
  <2> QED
    BY <2>3, Zenon DEF NumberOf, same

(* A set has more elements than places of something whole when another     *)
(* place of it is added.                                                   *)
LEMMA OneMorePlace ==
  ASSUME NEW G, IsFiniteSet(G), NEW n \in Nat \ {0}, NEW i, NEW j, i # j,
         \A x \in 1..n : <<i, x>> \in G, <<j, 1>> \in G
  PROVE ~ Cardinality(G) <= n
<1> DEFINE f == [x \in 1..n + 1 |-> IF x <= n THEN <<i, x>> ELSE <<j, 1>>]
<1>1. f \in [1..n + 1 -> G]
  <2>1. ASSUME NEW x \in 1..n + 1 PROVE (IF x <= n THEN <<i, x>> ELSE <<j, 1>>) \in G
    <3>1. x <= n => x \in 1..n
      OBVIOUS
    <3> QED
      BY <3>1, Zenon
  <2> QED
    BY <2>1
<1>2. ASSUME NEW x \in 1..n + 1, NEW y \in 1..n + 1, f[x] = f[y] PROVE x = y
  <2>1. f[x] = IF x <= n THEN <<i, x>> ELSE <<j, 1>>
    OBVIOUS
  <2>2. f[y] = IF y <= n THEN <<i, y>> ELSE <<j, 1>>
    OBVIOUS
  <2>3. (x <= n \/ x = n + 1) /\ (y <= n \/ y = n + 1)
    OBVIOUS
  <2> QED
    BY <1>2, <2>1, <2>2, <2>3
<1>3. f \in Injection(1..n + 1, G)
  BY <1>1, <1>2 DEF Injection, IsInjective
<1>4. Cardinality(1..n + 1) = n + 1
  <2>1. 1 \in Int /\ n + 1 \in Int /\ ~ 1 > n + 1 /\ (n + 1) - 1 + 1 = n + 1
    OBVIOUS
  <2> QED
    BY <2>1, FS_Interval, Zenon
<1>5. n + 1 <= Cardinality(G)
  <2> HIDE DEF f
  <2>1. Cardinality(1..n + 1) <= Cardinality(G)
    BY <1>3, FS_Injection
  <2> QED
    BY <1>4, <2>1, Zenon
<1>6. Cardinality(G) \in Nat
  BY FS_CardinalityType
<1> QED
  BY <1>5, <1>6

(* As no more bytes of a message are returned than it has, it is not       *)
(* returned twice.                                                         *)
LEMMA GivenOnce ==
  ASSUME Typed, Own, Counted, ToldApart
  PROVE Once(sent, delivered)
<1> SUFFICES ASSUME NEW i \in 1..Len(delivered), NEW j \in 1..Len(delivered), NEW k \in 1..Len(sent),
                    delivered[i].msg = Text(sent, k), delivered[j].msg = Text(sent, k), i # j
             PROVE FALSE
  BY DEF Once
<1>1. PICK text : text = Text(sent, k) /\ text = delivered[i].msg /\ text = delivered[j].msg
  OBVIOUS
<1>2. Len(text) \in Nat \ {0} /\ \A x \in 1..Len(text) : text[x] = KeyByte + k
  BY <1>1, TextsTold, Zenon DEF Told
<1>3. Len(Message(k)) = Len(text)
  BY <1>1, SentAre, Zenon DEF Text
<1>4. \A x \in 1..Len(text) : <<i, x>> \in Given(k) /\ <<j, x>> \in Given(k)
  <2>1. ASSUME NEW x \in 1..Len(text), NEW y \in {i, j} PROVE <<y, x>> \in Given(k)
    <3>1. delivered[y].msg = text /\ y \in 1..Len(delivered)
      BY <1>1
    <3>2. x \in {z \in 1..Len(delivered[y].msg) : delivered[y].msg[z] = KeyByte + k}
      BY <1>2, <3>1
    <3>3. <<y, x>> \in {y} \X {z \in 1..Len(delivered[y].msg) : delivered[y].msg[z] = KeyByte + k}
      BY <3>2
    <3> QED
      BY <3>1, <3>3, Zenon DEF Given
  <2> QED
    BY <2>1
<1>5. 1 \in 1..Len(text)
  <2>1. \A n \in Nat \ {0} : 1 \in 1..n
    OBVIOUS
  <2> QED
    BY <1>2, <2>1, Zenon
<1>6. IsFiniteSet(Given(k)) /\ Cardinality(Given(k)) <= Len(text)
  BY <1>3, NoMoreThanSent
<1> QED
  BY <1>2, <1>4, <1>5, <1>6, OneMorePlace, Zenon

(* What an orderly client is given are messages it sent.                   *)
LEMMA GivenWhole ==
  ASSUME Typed, Orderly, Steady => Ordered
  PROVE Whole(sent, delivered)
<1>1. GivenIs(sent, client.threads, delivered)
  BY OrderlyIsSteady DEF Ordered
<1> QED
  BY <1>1, Zenon DEF GivenIs, IsText, Whole

(* What is returned does not change its number when more is sent.          *)
LEMMA SameNumbers ==
  ASSUME NEW s, NEW u, \A k \in 1..Len(s) : k \in 1..Len(u) /\ u[k] = s[k],
         Told(s), Told(u), NEW given, Whole(s, given)
  PROVE NumbersOf(u, given) = NumbersOf(s, given)
<1>1. ASSUME NEW i \in 1..Len(given) PROVE NumberOf(u, given[i]) = NumberOf(s, given[i])
  <2>1. PICK k \in 1..Len(s) : given[i].msg = Text(s, k)
    BY Zenon DEF Whole
  <2>2. k \in 1..Len(u) /\ u[k] = s[k]
    OBVIOUS
  <2>3. given[i].msg = Text(u, k)
    BY <2>1, <2>2, Zenon DEF Text
  <2>4. NumberOf(s, given[i]) = k
    BY <2>1, NumberOfText, Zenon
  <2>5. NumberOf(u, given[i]) = k
    BY <2>2, <2>3, NumberOfText, Zenon
  <2> QED
    BY <2>4, <2>5
<1> QED
  BY <1>1, Zenon DEF NumbersOf

(* The next one that is returned has a number none before has.             *)
LEMMA NextNumber ==
  ASSUME NEW s, Told(s), Len(s) \in Nat, NEW given \in Seq(Returned), NEW d \in Returned,
         Whole(s, Append(given, d)), Once(s, Append(given, d))
  PROVE /\ NumbersOf(s, Append(given, d)) = Append(NumbersOf(s, given), NumberOf(s, d))
        /\ NumberOf(s, d) \in 1..Len(s)
        /\ \A i \in 1..Len(NumbersOf(s, given)) : NumbersOf(s, given)[i] # NumberOf(s, d)
<1>1. PICK n \in Nat, more \in Seq(Returned) :
        /\ more = Append(given, d) /\ n = Len(given) /\ Len(more) = n + 1 /\ more[n + 1] = d
        /\ \A i \in 1..n : more[i] = given[i]
  <2>1. /\ Len(given) \in Nat /\ Len(Append(given, d)) = Len(given) + 1
        /\ \A i \in 1..Len(given) : Append(given, d)[i] = given[i]
        /\ Append(given, d)[Len(given) + 1] = d
        /\ Append(given, d) \in Seq(Returned)
    BY AppendProperties
  <2> QED
    BY <2>1, Zenon
<1>2. ASSUME NEW i \in 1..n + 1
      PROVE \E k \in 1..Len(s) : more[i].msg = Text(s, k) /\ NumberOf(s, more[i]) = k
  <2>1. PICK k \in 1..Len(s) : more[i].msg = Text(s, k)
    BY <1>1, Zenon DEF Whole
  <2> QED
    BY <2>1, NumberOfText, Zenon
<1>3. n + 1 \in 1..n + 1 /\ \A i \in 1..n : i \in 1..n + 1 /\ i # n + 1
  OBVIOUS
<1>4. NumberOf(s, d) \in 1..Len(s)
  BY <1>1, <1>2, <1>3, Zenon
<1>5. \A i \in 1..n : NumberOf(s, given[i]) \in 1..Len(s) /\ NumberOf(s, given[i]) # NumberOf(s, d)
  <2>1. ASSUME NEW i \in 1..n
        PROVE NumberOf(s, more[i]) \in 1..Len(s) /\ NumberOf(s, more[i]) # NumberOf(s, more[n + 1])
    <3>1. PICK k \in 1..Len(s) : more[i].msg = Text(s, k) /\ NumberOf(s, more[i]) = k
      BY <1>2, <1>3, Zenon
    <3>2. PICK l \in 1..Len(s) : more[n + 1].msg = Text(s, l) /\ NumberOf(s, more[n + 1]) = l
      BY <1>2, <1>3, Zenon
    <3>3. k # l
      BY <1>1, <1>3, <3>1, <3>2, Zenon DEF Once
    <3> QED
      BY <3>1, <3>2, <3>3, Zenon
  <2> QED
    BY <1>1, <2>1, Zenon
<1> DEFINE a == NumbersOf(s, more)
           b == NumbersOf(s, given)
           e == NumberOf(s, d)
<1>6. /\ a = [i \in 1..n + 1 |-> NumberOf(s, more[i])]
      /\ b = [i \in 1..n |-> NumberOf(s, given[i])]
  BY <1>1, Zenon DEF NumbersOf
<1>7. \A i \in 1..n + 1 : NumberOf(s, more[i]) \in Nat
  BY <1>2
<1>8. \A i \in 1..n : NumberOf(s, given[i]) \in Nat /\ NumberOf(s, more[i]) = NumberOf(s, given[i])
  BY <1>1, <1>5
<1>9. e \in Nat /\ NumberOf(s, more[n + 1]) = e
  BY <1>1, <1>4
<1>10. /\ a \in Seq(Nat) /\ Len(a) = n + 1 /\ \A i \in 1..n + 1 : a[i] = NumberOf(s, more[i])
       /\ b \in Seq(Nat) /\ Len(b) = n /\ \A i \in 1..n : b[i] = NumberOf(s, given[i])
  <2> HIDE DEF a, b
  <2> QED
    BY <1>6, <1>7, <1>8
<1>11. a = Append(b, e)
  <2> HIDE DEF a, b, e
  <2>1. /\ Append(b, e) \in Seq(Nat) /\ Len(Append(b, e)) = n + 1
        /\ Append(b, e)[n + 1] = e /\ \A i \in 1..n : Append(b, e)[i] = b[i]
    BY <1>9, <1>10, AppendProperties
  <2>2. ASSUME NEW i \in 1..n + 1 PROVE a[i] = Append(b, e)[i]
    <3>1. CASE i = n + 1
      BY <1>3, <1>9, <1>10, <2>1, <3>1, Zenon
    <3>2. CASE i \in 1..n
      BY <1>3, <1>8, <1>10, <2>1, <3>2, Zenon
    <3>3. i = n + 1 \/ i \in 1..n
      OBVIOUS
    <3> QED
      BY <3>1, <3>2, <3>3
  <2> QED
    BY <1>10, <2>1, <2>2, SeqEqual
<1> QED
  BY <1>1, <1>4, <1>5, <1>10, <1>11, Zenon

(* What a step does to the messages sent and returned.                     *)
LEMMA StepKinds ==
  ASSUME Typed, [PartialNext]_partialVars
  PROVE \/ UNCHANGED <<sent, delivered>>
        \/ /\ \E m \in [binary : client.binary, parts : client.parts] : sent' = Append(sent, m)
           /\ UNCHANGED delivered
        \/ /\ \E d : delivered' = Append(delivered, d)
           /\ UNCHANGED sent
<1>1. CASE Send
  BY <1>1 DEF Send
<1>2. CASE Finish \/ Disarm
  BY <1>2 DEF Disarm, Finish, clientVars
<1>3. ASSUME NEW t, ServeClient(t)
      PROVE /\ \/ UNCHANGED delivered
               \/ \E d : delivered' = Append(delivered, d)
            /\ UNCHANGED sent
  <2>1. ASSUME Refuse(t) PROVE UNCHANGED <<sent, delivered>>
    BY <2>1 DEF Refuse, clientVars
  <2>2. ASSUME NEW before, Receive(t, before) PROVE UNCHANGED <<sent, delivered>>
    BY <2>2 DEF Receive, clientVars
  <2>3. ASSUME Pop(t)
        PROVE (UNCHANGED delivered \/ \E d : delivered' = Append(delivered, d)) /\ UNCHANGED sent
    BY <2>3 DEF Pop, Returns, clientVars
  <2>4. ASSUME NEW msg, NEW done, NEW binary, GivesPart(t, msg, done, binary)
        PROVE UNCHANGED delivered \/ \E d : delivered' = Append(delivered, d)
    BY <2>4 DEF GivesPart, Returns
  <2>5. CASE MsgRecv(t) \/ Prefix(t)
    BY <2>3, <2>5 DEF MsgRecv, Prefix, clientVars
  <2>6. CASE Take(t) \/ NoMessage(t) \/ Abandon(t)
    BY <2>6 DEF Abandon, NoMessage, Take, clientVars
  <2>7. CASE Read(t) \/ ReadMore(t) \/ ReadPart(t)
    BY <2>1, <2>2, <2>7 DEF Read, ReadMore, ReadPart
  <2>8. CASE DecodeFrame(t) \/ Back(t)
    BY <2>1, <2>8 DEF Abort, Back, DecodeFrame, clientVars
  <2>9. CASE Return(t)
    BY <2>1, <2>9 DEF Return, Returns, clientVars
  <2>10. CASE PartiallyRecv(t)
    <3>1. UNCHANGED sent
      BY <2>10 DEF PartiallyRecv, clientVars
    <3>2. \/ UNCHANGED delivered
          \/ GivesPart(t, Head(pending).msg, Head(pending).done, Head(pending).binary)
      BY <2>10 DEF PartiallyRecv
    <3> QED
      BY <2>4, <3>1, <3>2, Zenon
  <2>11. CASE ReturnPart(t)
    <3>1. UNCHANGED sent
      BY <2>11 DEF ReturnPart, clientVars
    <3>2. \/ Refuse(t)
          \/ GivesPart(t, raw_msg[t], call[t].type.done \/ call[t].already_done, call[t].type.binary)
      BY <2>11 DEF ReturnPart
    <3> QED
      BY <2>1, <2>4, <3>1, <3>2, Zenon
  <2> QED
    BY <1>3, <2>5, <2>6, <2>7, <2>8, <2>9, <2>10, <2>11 DEF ServeClient, Works, WorksOnParts
<1>4. CASE Serve
  BY <1>3, <1>4, Zenon DEF Serve
<1>5. CASE UNCHANGED partialVars
  BY <1>5 DEF clientVars, partialVars, readerVars
<1> QED
  BY <1>1, <1>2, <1>4, <1>5 DEF PartialNext

(* What holds of the messages sent and returned to a client that is        *)
(* orderly and sends no empty message,                                     *)
Streams ==
  Typed /\ (Orderly /\ ToldApart =>
              /\ Told(sent) /\ Whole(sent, delivered) /\ Once(sent, delivered)
              /\ Numbers = NumbersOf(sent, delivered))

(* Both counts together give them.                                         *)
LEMMA AlwaysStreams == PartialSpec => []Streams
<1>1. (Typed /\ Own /\ Counted) /\ (Typed /\ (Steady => Ordered)) => Streams
  BY GivenOnce, GivenWhole, NumbersAre, TextsTold DEF Streams
<1> QED
  BY <1>1, AlwaysOrdered, AlwaysOwn, PTL

(* A step then sends the next message, or returns one that was not         *)
(* returned before, or neither.                                            *)
LEMMA StreamStep ==
  ASSUME Streams, Streams', [PartialNext]_partialVars
  PROVE [Stream!StreamNext]_(Stream!streamVars)
<1>1. client' = client
  BY SameClient
<1>2. (Orderly' <=> Orderly) /\ (ToldApart' <=> ToldApart)
  BY <1>1 DEF Orderly, ToldApart
<1>3. CASE ~(Orderly /\ ToldApart)
  <2>1. UNCHANGED Stream!streamVars
    BY <1>2, <1>3 DEF Stream!streamVars
  <2> QED
    BY <2>1
<1>4. CASE Orderly /\ ToldApart
  <2>1. /\ Typed /\ Told(sent) /\ Whole(sent, delivered) /\ Once(sent, delivered)
        /\ Numbers = NumbersOf(sent, delivered)
        /\ Typed' /\ Told(sent') /\ Whole(sent', delivered') /\ Once(sent', delivered')
        /\ Numbers' = NumbersOf(sent', delivered')
    BY <1>2, <1>4 DEF Streams
  <2>2. /\ (IF Orderly /\ ToldApart THEN Len(sent) ELSE 0) = Len(sent)
        /\ (IF Orderly' /\ ToldApart' THEN Len(sent') ELSE 0) = Len(sent')
        /\ (IF Orderly /\ ToldApart THEN Numbers ELSE <<>>) = Numbers
        /\ (IF Orderly' /\ ToldApart' THEN Numbers' ELSE <<>>) = Numbers'
    BY <1>2, <1>4
  <2>3. CASE UNCHANGED <<sent, delivered>>
    <3>1. Numbers' = Numbers
      BY <2>1, <2>3, Zenon
    <3>2. UNCHANGED Stream!streamVars
      BY <2>2, <2>3, <3>1 DEF Stream!streamVars
    <3> QED
      BY <3>2
  <2>4. CASE /\ \E m \in [binary : client.binary, parts : client.parts] : sent' = Append(sent, m)
             /\ UNCHANGED delivered
    <3>1. /\ Len(sent') = Len(sent) + 1
          /\ \A k \in 1..Len(sent) : k \in 1..Len(sent') /\ sent'[k] = sent[k]
      BY <2>1, <2>4 DEF Typed, TypedClient
    <3>2. NumbersOf(sent', delivered) = NumbersOf(sent, delivered)
      BY <2>1, <3>1, SameNumbers, Zenon
    <3>3. Numbers' = Numbers
      BY <2>1, <2>4, <3>2, Zenon
    <3>4. Stream!ClientSends
      BY <2>2, <3>1, <3>3 DEF Stream!ClientSends
    <3> QED
      BY <3>4 DEF Stream!StreamNext
  <2>5. CASE (\E d : delivered' = Append(delivered, d)) /\ UNCHANGED sent
    <3>1. PICK d : delivered' = Append(delivered, d)
      BY <2>5
    <3>2. delivered \in Seq(Returned) /\ delivered' \in Seq(Returned) /\ Len(sent) \in Nat
      BY <2>1 DEF Typed, TypedClient, TypedLists
    <3>3. d \in Returned
      BY <3>1, <3>2
    <3>4. Whole(sent, Append(delivered, d)) /\ Once(sent, Append(delivered, d))
      BY <2>1, <2>5, <3>1, Zenon
    <3>5. PICK k : k = NumberOf(sent, d)
      OBVIOUS
    <3>6. /\ NumbersOf(sent, Append(delivered, d)) = Append(NumbersOf(sent, delivered), k)
          /\ k \in 1..Len(sent)
          /\ \A i \in 1..Len(NumbersOf(sent, delivered)) : NumbersOf(sent, delivered)[i] # k
      BY <2>1, <3>2, <3>3, <3>4, <3>5, NextNumber
    <3>7. Numbers' = Append(Numbers, k) /\ \A i \in 1..Len(Numbers) : Numbers[i] # k
      BY <2>1, <2>5, <3>1, <3>6, Zenon
    <3>8. Stream!Deliver(k)
      BY <2>2, <2>5, <3>7 DEF Stream!Deliver
    <3> QED
      BY <2>2, <3>6, <3>8 DEF Stream!StreamNext
  <2> QED
    BY <2>1, <2>3, <2>4, <2>5, StepKinds
<1> QED
  BY <1>3, <1>4

(* The messages a client sends whose bytes arrive in harmless segments and *)
(* without a pause are given to the application whole and each once,       *)
(* however they are cut into frames, batched, and spread over threads:     *)
(* msg_recv, partially_recv with more_recv, and the pending list implement *)
(* MessageStream.                                                          *)
THEOREM ReaderImplementsStream == PartialSpec => ReaderIsStream
<1>1. PartialInit => Stream!StreamInit
  <2> SUFFICES ASSUME PartialInit PROVE Stream!StreamInit
    OBVIOUS
  <2>1. sent = <<>> /\ delivered = <<>>
    BY DEF PartialInit, ReaderInit
  <2>2. Len(sent) = 0 /\ Numbers = <<>>
    BY <2>1 DEF Numbers
  <2> QED
    BY <2>2 DEF Stream!StreamInit
<1>2. Streams /\ Streams' /\ [PartialNext]_partialVars => [Stream!StreamNext]_(Stream!streamVars)
  BY StreamStep
<1> QED
  BY <1>1, <1>2, AlwaysStreams, PTL DEF PartialSpec, ReaderIsStream, Stream!StreamSpec

=============================================================================
