---------------------------- MODULE MessageReader ----------------------------
(***************************************************************************)
(* How the bytes of one connection become messages of the application:     *)
(* more_data (with read_loop and getFrame), the pending list and the two   *)
(* ways msg_recv uses them.  The pool is left out: any waiting thread may  *)
(* be given the socket while it is armed, and any waiting thread may be    *)
(* told to take a pending message.                                         *)
(*                                                                         *)
(* The client sends messages of one or several frames; its bytes reach the *)
(* server in order, in segments of any length.  What kind of client it is, *)
(* and by which threads it is served, is chosen in the initial state.      *)
(***************************************************************************)
EXTENDS Frame, FiniteSets, SequencesExt

CONSTANTS
  Threads,
  Clients              (* the kinds of clients, see ClientKinds              *)

(*   threads    the threads that serve it                                  *)
(*   partially  by partially_recv and more_recv (PartialReader)?           *)
(*   messages   bound: how many messages it sends                          *)
(*   parts      the payload lengths of a message's frames                  *)
(*   pipelined  those of messages it sends without waiting until all       *)
(*              others are delivered                                       *)
(*   binary     are messages binary?                                       *)
(*   cut        FALSE: no segment ends within the first 2 or last 4 bytes  *)
(*              of a frame                                                 *)
(*   slow       may it pause for 3 s within a message?                     *)
ClientKinds ==
  LET Lengths == SUBSET (Seq(0..125) \ {<<>>})
  IN [threads : SUBSET Threads, partially : BOOLEAN, messages : Nat, parts : Lengths,
      pipelined : Lengths, binary : SUBSET BOOLEAN, cut : BOOLEAN, slow : BOOLEAN]

ASSUME ReaderAssumption == IsFiniteSet(Threads) /\ Clients \subseteq ClientKinds

VARIABLES
  client,
  sent,                (* the messages sent: [binary, parts]                 *)
  stream, ends,        (* all bytes sent, and the offsets frames end at      *)
  got,                 (* how many of them the server has received           *)
  finished,            (* the client has ended its stream                    *)
  conn, armed,         (* is the socket open?  and registered for EPOLLIN?   *)
  disarming,           (* is recv_epoll still to disarm the socket it has    *)
                       (* handed over?                                       *)
  undone,              (* history: was the last epoll_on before that         *)
                       (* EPOLL_CTL_MOD, which undoes it?                    *)
  owners,              (* the threads whose socketfd is this socket          *)
  pending,             (* pending_msg, pending_done and pending_binary       *)
  pushes,              (* names the elements of `pending'                    *)
  pc,
  raw_str, raw_msg,    (* per thread: bytes not decoded, message so far      *)
  call,                (* per thread: the locals of more_data and, in        *)
                       (* `popped', whether msg_pop_pending called it        *)
  delivered            (* what msg_recv has returned: [msg, binary]          *)

clientVars == <<client, sent, stream, ends, finished>>
epollVars == <<armed, disarming, undone>>
socketVars == <<got, conn, epollVars, owners>>
listVars == <<pending, pushes>>
readerVars == <<clientVars, socketVars, listVars, pc, raw_str, raw_msg, call, delivered>>

Set(f, t, v) == [f EXCEPT ![t] = v]

(* `str' is 0 for raw_msg, or names the element of `pending' it points to. *)
NewCall(popped) ==
  [first |-> TRUE, last_is_CONTIN |-> FALSE, already_done |-> FALSE, str |-> 0,
   type |-> Other("NO_MESSAGE"), popped |-> popped]

ReaderInit ==
  /\ client \in Clients
  /\ sent = <<>> /\ stream = <<>> /\ ends = {} /\ finished = FALSE
  /\ got = 0 /\ conn = "open" /\ owners = {}
  /\ armed = TRUE /\ disarming = FALSE /\ undone = FALSE
  /\ pending = <<>> /\ pushes = 0
  /\ pc = [t \in Threads |-> "msg_recv"]
  /\ raw_str = [t \in Threads |-> <<>>]
  /\ raw_msg = [t \in Threads |-> <<>>]
  /\ call = [t \in Threads |-> NewCall(FALSE)]
  /\ delivered = <<>>

-----------------------------------------------------------------------------
(* The client *)

Payload(k, size) == [i \in 1..size |-> KeyByte + k]

(* Message k as frames: the first has the opcode, the last the FIN bit. *)
Frames(k, m) ==
  [i \in 1..Len(m.parts) |->
     LET opcode == IF i > 1 THEN 0 ELSE IF m.binary THEN 2 ELSE 1
         fin == IF i = Len(m.parts) THEN 128 ELSE 0
     IN ClientHeader(opcode + fin, m.parts[i]) \o Payload(k, m.parts[i])]

Bytes(frames) == FlattenSeq(frames)

Send ==
  /\ conn = "open" /\ ~finished
  /\ Len(sent) < client.messages
  /\ \E m \in [binary : client.binary, parts : client.parts] :
       LET frames == Frames(Len(sent) + 1, m)
           ahead == {sent[i].parts : i \in Len(delivered) + 1 .. Len(sent)}
       IN /\ ahead = {} \/ ahead \union {m.parts} \subseteq client.pipelined
          /\ sent' = Append(sent, m)
          /\ stream' = stream \o Bytes(frames)
          /\ ends' = ends \union
               {Len(stream) + Len(Bytes(SubSeq(frames, 1, i))) : i \in 1..Len(frames)}
  /\ UNCHANGED <<client, finished, socketVars, listVars, pc, raw_str, raw_msg, call, delivered>>

(* The stream ends, with or without a close frame. *)
Finish ==
  /\ conn = "open" /\ ~finished
  /\ finished' = TRUE
  /\ \/ UNCHANGED <<stream, ends>>
     \/ /\ stream' = stream \o ClientHeader(136, 0)
        /\ ends' = ends \union {Len(stream')}
  /\ UNCHANGED <<client, sent, socketVars, listVars, pc, raw_str, raw_msg, call, delivered>>

MayEnd(o) ==
  \/ client.cut
  \/ /\ \A e \in ends : o \notin e - 4 .. e - 1
     /\ \A s \in ends \union {0} : o \notin s + 1 .. s + 2

-----------------------------------------------------------------------------
(* msg_recv outside of more_data *)

Returns(t, msg, binary) ==
  /\ delivered' = Append(delivered, [msg |-> msg, binary |-> binary])
  /\ pc' = Set(pc, t, "msg_recv")

(* socketfd[t] is assigned a socket that is closed already, or not. *)
Owns(t) == owners' = IF conn = "open" THEN owners \union {t} ELSE owners

(* Faulty variant: the message stays on the list. *)
PopKeeps(t) ==
  /\ pending # <<>> /\ Head(pending).done
  /\ Returns(t, Head(pending).msg, Head(pending).binary)
  /\ UNCHANGED <<clientVars, socketVars, listVars, raw_str, raw_msg, call>>

(* pop_pending, and what msg_pop_pending makes of it: a message that is    *)
(* not done is completed from the socket.                                  *)
Pop(t) ==
  /\ pending # <<>>
  /\ LET m == Head(pending)
     IN \/ m.done /\ Returns(t, m.msg, m.binary) /\ UNCHANGED <<raw_msg, call>>
        \/ /\ ~m.done
           /\ raw_msg' = Set(raw_msg, t, m.msg)
           /\ call' = Set(call, t, NewCall(TRUE))
           /\ pc' = Set(pc, t, "read")
           /\ UNCHANGED delivered
  /\ pending' = Tail(pending)
  /\ Owns(t)
  /\ UNCHANGED <<clientVars, got, conn, epollVars, pushes, raw_str>>

(* Faulty variant: the pending list is looked at on request only. *)
MsgRecvSkips(t) ==
  /\ pc[t] = "msg_recv"
  /\ pc' = Set(pc, t, "wait")
  /\ UNCHANGED <<clientVars, socketVars, listVars, raw_str, raw_msg, call, delivered>>

MsgRecv(t) ==
  /\ pc[t] = "msg_recv"
  /\ \/ Pop(t)
     \/ /\ pending = <<>>
        /\ pc' = Set(pc, t, "wait")
        /\ owners' = owners \ {t}
        /\ UNCHANGED <<clientVars, got, conn, epollVars, listVars, raw_str, raw_msg, call,
                       delivered>>

(* status became READ_PREFIX *)
Prefix(t) == pc[t] = "wait" /\ Pop(t)

(* status became READ: recv_epoll found the socket ready.  It disarms it   *)
(* next, and does not poll before it has.                                  *)
Take(t) ==
  /\ pc[t] = "wait"
  /\ armed /\ ~disarming /\ (got < Len(stream) \/ finished)
  /\ disarming' = TRUE
  /\ Owns(t)
  /\ raw_msg' = Set(raw_msg, t, <<>>)
  /\ call' = Set(call, t, NewCall(FALSE))
  /\ pc' = Set(pc, t, "read")
  /\ UNCHANGED <<clientVars, got, conn, armed, undone, listVars, raw_str, delivered>>

(* The EPOLL_CTL_MOD of the hand-over: the thread that was given the socket *)
(* may be anywhere by now, and may have armed it again.                    *)
Disarm ==
  /\ disarming
  /\ disarming' = FALSE
  /\ armed' = FALSE
  /\ UNCHANGED <<clientVars, got, conn, undone, owners, listVars, pc, raw_str, raw_msg,
                 call, delivered>>

(* epoll_on, if the thread has a socket to arm. *)
EpollOn(has) ==
  /\ armed' = (armed \/ has)
  /\ undone' = IF has THEN disarming ELSE undone
  /\ UNCHANGED disarming

(* close_socket, and back to the head of the loop or, from more_recv, to   *)
(* the application, which gives up the message.                            *)
Refuse(t) ==
  /\ conn' = "closed" /\ armed' = FALSE /\ owners' = {}
  /\ pending' = IF conn = "open" THEN <<>> ELSE pending
  /\ raw_str' = Set(raw_str, t, <<>>)
  /\ pc' = Set(pc, t, IF client.partially /\ call[t].popped THEN "abandon" ELSE "wait")
  /\ UNCHANGED <<clientVars, got, disarming, undone, pushes, raw_msg, call, delivered>>

-----------------------------------------------------------------------------
(* more_data *)

Receive(t, before) ==
  /\ conn = "open"
  /\ \E n \in got + 1 .. Len(stream) :
       /\ MayEnd(n)
       /\ raw_str' = Set(raw_str, t, before \o SubSeq(stream, got + 1, n))
       /\ got' = n
  /\ pc' = Set(pc, t, "frame")
  /\ UNCHANGED <<clientVars, conn, epollVars, owners, listVars, raw_msg, call, delivered>>

(* read_loop fails: the socket is closed, or the end of the stream was     *)
(* met, by what read bytes before it as well.                              *)
ReadFails == conn = "closed" \/ finished

(* Nothing within 3 s: not right after the socket was found ready, unless  *)
(* another thread has read what was there.                                 *)
TimesOut(t) == call[t].popped \/ raw_msg[t] # <<>> \/ got = Len(stream)

(* The first read_loop of a call.  NO_MESSAGE, after a time-out, makes     *)
(* msg_recv close the socket.                                              *)
Read(t) ==
  /\ pc[t] = "read"
  /\ \/ Receive(t, <<>>)
     \/ (ReadFails \/ TimesOut(t)) /\ Refuse(t)

(* INCOMPLETE_FRAME: read_loop again and again, with no limit. *)
ReadMore(t) ==
  /\ pc[t] = "more"
  /\ \/ Receive(t, raw_str[t])
     \/ ReadFails /\ Refuse(t)

(* An exception nobody catches, or a fault, ends the process. *)
Abort ==
  /\ pc' = [u \in Threads |-> "aborted"]
  /\ UNCHANGED <<clientVars, socketVars, listVars, raw_str, raw_msg, call, delivered>>

Dangling(t) ==
  call[t].str # 0 /\ \A i \in 1..Len(pending) : pending[i].id # call[t].str

(* str->append(msg): raw_msg, or an element of `pending'.  If another      *)
(* thread has taken that element the write goes to freed memory.           *)
AppendMsg(t, msg) ==
  LET str == call[t].str
  IN /\ raw_msg' = IF str = 0 THEN Set(raw_msg, t, raw_msg[t] \o msg) ELSE raw_msg
     /\ pending' = [i \in 1..Len(pending) |->
                      IF pending[i].id = str THEN [pending[i] EXCEPT !.msg = @ \o msg]
                      ELSE pending[i]]
     /\ UNCHANGED pushes

(* push_pending *)
PushPending(t, msg, done, binary) ==
  /\ pushes' = pushes + 1
  /\ pending' = Append(pending, [id |-> pushes', msg |-> msg, done |-> done, binary |-> binary])
  /\ UNCHANGED raw_msg

NextFrame(t, type) == pc' = Set(pc, t, IF type.behind THEN "frame" ELSE "return")

(* Faulty variant: last_is_CONTIN stays TRUE. *)
TakeFrameContin(t, type, msg) ==
  LET mine == call[t].first \/ call[t].last_is_CONTIN
  IN /\ \/ mine /\ AppendMsg(t, msg) /\ NextFrame(t, type)
        \/ /\ ~mine /\ PushPending(t, msg, type.done, type.binary)
           /\ pc' = Set(pc, t, "pushed")
     /\ call' = Set(call, t,
          [call[t] EXCEPT !.first = FALSE, !.last_is_CONTIN = TRUE,
                          !.already_done = @ \/ type.done,
                          !.str = IF mine THEN @ ELSE pushes',
                          !.type = type])

(* One decoded frame: the first of a call goes to raw_msg, a continuation  *)
(* to where its message is, any other to the pending list.                 *)
TakeFrame(t, type, msg) ==
  LET mine == call[t].first \/ call[t].last_is_CONTIN
  IN /\ \/ mine /\ AppendMsg(t, msg) /\ NextFrame(t, type)
        \/ /\ ~mine /\ PushPending(t, msg, type.done, type.binary)
           /\ pc' = Set(pc, t, "pushed")
     /\ call' = Set(call, t,
          [call[t] EXCEPT !.first = FALSE, !.last_is_CONTIN = ~type.done,
                          !.already_done = @ \/ type.done,
                          !.str = IF mine THEN @ ELSE pushes',
                          !.type = type])

(* push_pending returns &pending_msg.back(), evaluated after it unlocked:  *)
(* the element another thread has pushed since, or, of a list that was     *)
(* emptied, no element.                                                    *)
Back(t) ==
  /\ pc[t] = "pushed"
  /\ call' = IF pending = <<>> THEN call
             ELSE Set(call, t, [call[t] EXCEPT !.str = Last(pending).id])
  /\ NextFrame(t, call[t].type)
  /\ UNCHANGED <<clientVars, socketVars, listVars, raw_str, raw_msg, delivered>>

DecodeFrame(t) ==
  /\ pc[t] = "frame"
  /\ LET frame == GetFrame(raw_str[t])
         kind == frame.type.kind
     IN \/ /\ kind = "data"
           /\ TakeFrame(t, frame.type, frame.msg)
           /\ raw_str' = Set(raw_str, t, frame.rest)
           /\ UNCHANGED <<clientVars, socketVars, delivered>>
        \/ /\ kind = "INCOMPLETE_FRAME"
           /\ pc' = Set(pc, t, "more")
           /\ UNCHANGED <<clientVars, socketVars, listVars, raw_str, raw_msg, call, delivered>>
        \/ kind = "out_of_range" /\ Abort
        \/ kind = "data" /\ call[t].last_is_CONTIN /\ Dangling(t) /\ Abort
        \/ kind \in {"ERROR_FRAME", "PING_FRAME", "PONG_FRAME"} /\ Refuse(t)

(* Faulty variant: the socket is armed without a test whether it is open. *)
ReturnArmed(t) ==
  /\ pc[t] = "return"
  /\ EpollOn(TRUE)
  /\ Returns(t, raw_msg[t], call[t].type.binary)
  /\ UNCHANGED <<clientVars, got, conn, owners, listVars, raw_str, raw_msg, call>>

(* What the type of the last frame makes of the call.                      *)
(*   DONE: the socket is armed again and raw_msg returned.                 *)
(*   DONE_CONTIN: raw_msg is returned; the socket stays disarmed, as the   *)
(*   last message in `pending' is not complete.                            *)
(*   CONTIN: raw_msg is not complete, and more_data is called again.       *)
Return(t) ==
  /\ pc[t] = "return"
  /\ \/ /\ ~call[t].type.done /\ ~call[t].already_done
        /\ call' = Set(call, t, NewCall(call[t].popped))
        /\ pc' = Set(pc, t, "read")
        /\ UNCHANGED <<clientVars, socketVars, listVars, raw_str, raw_msg, delivered>>
     \/ /\ call[t].already_done
        /\ call[t].popped \/ raw_msg[t] # <<>>
        /\ EpollOn(call[t].type.done /\ t \in owners)
        /\ Returns(t, raw_msg[t], call[t].type.binary)
        /\ UNCHANGED <<clientVars, got, conn, owners, listVars, raw_str, raw_msg, call>>
     \/ /\ call[t].already_done
        /\ ~call[t].popped /\ raw_msg[t] = <<>>
        /\ Refuse(t)

-----------------------------------------------------------------------------
Works(t) ==
  \/ MsgRecv(t) \/ Prefix(t) \/ Take(t)
  \/ Read(t) \/ ReadMore(t) \/ DecodeFrame(t) \/ Back(t) \/ Return(t)

ReaderNext == Send \/ Finish \/ Disarm \/ \E t \in client.threads : Works(t)

ReaderSpec == ReaderInit /\ [][ReaderNext]_readerVars

-----------------------------------------------------------------------------
ReaderTypeOK ==
  /\ client \in Clients
  /\ sent \in Seq([binary : client.binary, parts : client.parts])
  /\ got \in 0 .. Len(stream)
  /\ ends \subseteq 1 .. Len(stream)
  /\ conn \in {"open", "closed"} /\ owners \subseteq client.threads
  /\ armed \in BOOLEAN /\ disarming \in BOOLEAN /\ undone \in BOOLEAN
  /\ conn = "closed" => ~armed /\ owners = {}
  /\ pc \in [Threads -> {"msg_recv", "wait", "read", "more", "frame", "pushed", "return",
                         "abandon", "aborted"}]
  /\ \A t \in Threads : call[t].str \in 0 .. pushes

(* What the application should be given as message k. *)
Message(k) ==
  Bytes([i \in 1..Len(sent[k].parts) |-> Payload(k, sent[k].parts[i])])

(* The number of the message a returned one is, or 0 if it is none. *)
Number(d) ==
  LET same == {k \in 1..Len(sent) : d.msg = Message(k)}
  IN IF same = {} THEN 0 ELSE CHOOSE k \in same : TRUE

Numbers == [i \in 1..Len(delivered) |-> Number(delivered[i])]

(* A client all of whose messages are put together rightly: it sends no    *)
(* message of several frames behind another or before one, its segments    *)
(* end at harmless places and it does not pause.  Parts of messages sent   *)
(* one behind the other need a single thread.                              *)
Orderly ==
  /\ ~client.cut /\ ~client.slow
  /\ \A parts \in client.pipelined : Len(parts) = 1
  /\ client.partially /\ client.pipelined # {} => Cardinality(client.threads) = 1

(* No message is empty: the others are told apart by their bytes. *)
ToldApart == \A parts \in client.parts : \E i \in 1..Len(parts) : parts[i] > 0

(* What an orderly client's application is given are the messages it sent, *)
(* whole and each once, however they were cut into frames and segments,    *)
(* batched, and spread over threads.                                       *)
Stream ==
  INSTANCE MessageStream WITH
    sent <- IF Orderly /\ ToldApart THEN Len(sent) ELSE 0,
    delivered <- IF Orderly /\ ToldApart THEN Numbers ELSE <<>>

ReaderIsStream == Stream!StreamSpec

(* A single thread gets the messages whole and in the order they were      *)
(* sent, none left out before another, empty ones included: those on the   *)
(* pending list come before anything new is read.                          *)
InOrder ==
  Orderly /\ Cardinality(client.threads) = 1 =>
    /\ Len(delivered) <= Len(sent)
    /\ \A i \in 1..Len(delivered) : delivered[i].msg = Message(i)

(* Every message reaches the application, unless the connection ends or    *)
(* the last epoll_on came before the EPOLL_CTL_MOD of the hand-over, which *)
(* mutes the socket: time and again there is none that was sent and not    *)
(* delivered.                                                              *)
AllDelivered ==
  []<>(Orderly => \/ conn = "closed" \/ undone
                  \/ \A k \in 1..Len(sent) :
                       \E i \in 1..Len(delivered) : delivered[i].msg = Message(k))

(* The places in returned messages at which there is a byte of message k. *)
Given(k) ==
  UNION {{i} \X {j \in 1..Len(delivered[i].msg) : delivered[i].msg[j] = KeyByte + k} :
         i \in 1..Len(delivered)}

(* However wrongly messages are put together, no byte of one is returned   *)
(* twice, even while two threads read from the socket.                     *)
NothingTwice == \A k \in 1..Len(sent) : Cardinality(Given(k)) <= Len(Message(k))

(* Every message is a whole one, under pipelining as well.                 *)
WholeMessages ==
  \A i \in 1..Len(delivered) : \E k \in 1..Len(sent) : delivered[i].msg = Message(k)

(* No way of cutting a stream of valid frames into segments ends the       *)
(* process.                                                                *)
StaysUp == \A t \in Threads : pc[t] # "aborted"

=============================================================================
