---------------------------- MODULE WsTypeProofs ----------------------------
(***************************************************************************)
(* Where the threads of the server are, for every number of threads,       *)
(* sockets, connections and messages (the receiving role, thread_mx and    *)
(* the slots without a pointer), and type correctness, which rests on it.  *)
(*                                                                         *)
(* wss_server inherits most steps of socket_server and adds places of its  *)
(* own, so the lemmas of the first half are stated for any server whose    *)
(* places are in L, its return places in C, its subroutines in S and its   *)
(* receiving role in R, as long as these extend those of ws_server.        *)
(***************************************************************************)
EXTENDS WsServer, TLAPS

(* A subroutine's caller is recorded exactly while the subroutine runs. *)
CallsReturn == \A x \in Actors : pc[x] \in SubLabels <=> ret[x] # "none"

(* The critical sections of thread_mx. *)
UnderThreadMx ==
  {"get_own", "get_take", "get_mark", "add_store", "park_status", "park_role"}

MutexHeld == \A x \in Actors : pc[x] \in UnderThreadMx => thread_mx = x

(* A slot without a pointer runs no thread, or its creator is about to     *)
(* store the pointer.                                                      *)
FreeSlotIdle ==
  \A a \in Threads : thread_list[a]
    \/ pc[a] = "off"
    \/ \E x \in Actors : pc[x] = "add_store" /\ slot[x] = a

Control == CallsReturn /\ MutexHeld /\ FreeSlotIdle /\ RecvExclusive

-----------------------------------------------------------------------------
(* The same for any extension of the places. *)

Extension(L, C, S, R) ==
  /\ Labels \subseteq L /\ "none" \notin L
  /\ Callers \subseteq C /\ C \subseteq L \ S /\ C \intersect Labels \subseteq Callers
  /\ S \intersect Labels = SubLabels
  /\ R \intersect Labels = RecvLabels /\ R \subseteq L \ S /\ S \subseteq L

PlacesIn(L, C) == pc \in [Actors -> L] /\ ret \in [Actors -> C \union {"none"}]

SlotTypeOK ==
  /\ slot \in [Actors -> Threads \union {None}]
  /\ thread_list \in [Threads -> BOOLEAN]
  /\ recv_thread \in Threads \union {None}
  /\ thread_mx \in Actors \union {None}

CallsReturnIn(S) == \A x \in Actors : pc[x] \in S <=> ret[x] # "none"

RoleIn(R) == \A t \in Threads : (pc[t] \in R \/ ret[t] \in R) <=> recv_thread = t

ControlIn(L, C, S, R) ==
  /\ PlacesIn(L, C) /\ SlotTypeOK
  /\ CallsReturnIn(S) /\ MutexHeld /\ FreeSlotIdle /\ RoleIn(R)

(* How x moves: it stays, goes on in the same function, calls or returns,  *)
(* inside or outside of recv_epoll.                                        *)
Move(x, L, C, S, R) ==
  \/ pc'[x] = pc[x] /\ ret'[x] = ret[x]
  \/ /\ pc[x] \in L /\ pc'[x] \in L /\ ret'[x] = ret[x]
     /\ pc'[x] \in S <=> pc[x] \in S
     /\ pc'[x] \in R <=> pc[x] \in R
  \/ /\ pc[x] \in L \ S /\ pc'[x] \in S /\ ret'[x] \in C
     /\ ret'[x] \in R <=> pc[x] \in R
  \/ pc[x] \in S /\ pc'[x] = ret[x] /\ ret'[x] = "none"

OnlyMoves(x) ==
  /\ pc' = [y \in Actors |-> pc'[y]] /\ ret' = [y \in Actors |-> ret'[y]]
  /\ \A y \in Actors \ {x} : pc'[y] = pc[y] /\ ret'[y] = ret[y]

(* A step in which only x moves, outside of the critical sections of       *)
(* thread_mx, and the pool keeps its shape.                                *)
Local(x, L, C, S, R) ==
  /\ OnlyMoves(x) /\ Move(x, L, C, S, R)
  /\ slot' \in [Actors -> Threads \union {None}]
  /\ \A y \in Actors \ {x} : slot'[y] = slot[y]
  /\ UNCHANGED <<thread_list, recv_thread, thread_mx>>
  /\ pc[x] \notin UnderThreadMx \union {"off"}
  /\ pc'[x] \notin UnderThreadMx

BaseLocal(x) == Local(x, Labels, Callers, SubLabels, RecvLabels)

(* What the lemmas about single steps need to know of the state before. *)
Standing ==
  /\ pc = [y \in Actors |-> pc[y]] /\ ret = [y \in Actors |-> ret[y]]
  /\ SlotTypeOK
  /\ \A y \in Actors : ret[y] \notin Labels \ Callers
  /\ \A y \in Actors : pc[y] \in Labels \ SubLabels => ret[y] = "none"

-----------------------------------------------------------------------------
LEMMA ActorFacts == Threads \subseteq Actors /\ Acceptor \in Actors \ Threads /\ None \notin Actors
BY MaxThreadAssumption DEF Threads, Actors, Acceptor, None

(* Where the loop of close_socket starts, and goes on. *)
LEMMA CloseSweepSlots ==
  /\ 0 \in Threads
  /\ \A a \in Threads \union {None} : a + 1 < MaxThread => a + 1 \in Threads
BY MaxThreadAssumption DEF Threads, None

LEMMA LabelFacts ==
  /\ Callers \subseteq Labels /\ "none" \notin SubLabels
  /\ "msg_recv" \in Callers /\ "park" \in Callers /\ "announce" \in Callers
  /\ "announced" \in Callers /\ "epoll_wait" \in Callers /\ "events" \in Callers
  /\ "give" \in Callers /\ "drop" \in Callers /\ "leave" \in Callers
  /\ "give_up" \in Callers /\ "accept" \in Callers
  /\ "recv_epoll" \in Labels /\ "scan" \in Labels /\ "poll" \in Labels
  /\ "epoll_wait" \in Labels /\ "events" \in Labels /\ "give" \in Labels
  /\ "give_fd" \in Labels /\ "give_status" \in Labels
  /\ "give_ctl" \in Labels /\ "acknowledge" \in Labels /\ "drop" \in Labels
  /\ "leave" \in Labels /\ "give_up" \in Labels /\ "msg_recv" \in Labels
  /\ "park" \in Labels /\ "park_status" \in Labels /\ "park_role" \in Labels
  /\ "wait" \in Labels /\ "wait_role" \in Labels /\ "wait_status" \in Labels
  /\ "wait_mx" \in Labels /\ "woken" \in Labels /\ "prefix" \in Labels
  /\ "read_loop" \in Labels /\ "recv" \in Labels /\ "refuse" \in Labels
  /\ "push" \in Labels /\ "push_pending" \in Labels /\ "epoll_on" \in Labels
  /\ "epoll_on_ctl" \in Labels /\ "announce" \in Labels
  /\ "announced" \in Labels /\ "user" \in Labels /\ "done" \in Labels
  /\ "get_thread" \in Labels /\ "get_own" \in Labels
  /\ "get_take" \in Labels /\ "get_mark" \in Labels
  /\ "add_thread" \in Labels /\ "add_store" \in Labels
  /\ "resize" \in Labels /\ "resize_mark" \in Labels
  /\ "resize_join" \in Labels /\ "resize_clear" \in Labels
  /\ "resize_fd" \in Labels
  /\ "close_socket" \in Labels /\ "close_sweep" \in Labels
  /\ "close_reset" \in Labels
  /\ "clear_pending" \in Labels /\ "accept" \in Labels /\ "ended" \in Labels
  /\ "handshake" \in Labels /\ "set_event" \in Labels
  /\ "register" \in Labels /\ "start_thread" \in Labels /\ "off" \in Labels
  /\ "returned" \in Labels
BY DEF Labels, Callers, RecvLabels, WorkLabels, SubLabels, AcceptLabels

LEMMA BaseExtension == Extension(Labels, Callers, SubLabels, RecvLabels)
<1>1. Callers \subseteq Labels \ SubLabels /\ "none" \notin Labels
  BY LabelFacts DEF Callers, SubLabels, Labels, RecvLabels, WorkLabels, AcceptLabels
<1>2. SubLabels \subseteq Labels /\ RecvLabels \subseteq Labels \ SubLabels
  BY DEF Labels, RecvLabels, SubLabels
<1> QED
  BY <1>1, <1>2 DEF Extension

LEMMA BaseControl ==
  /\ ControlTypeOK /\ Control <=> ControlIn(Labels, Callers, SubLabels, RecvLabels)
  /\ ControlTypeOK' /\ Control' <=> ControlIn(Labels, Callers, SubLabels, RecvLabels)'
BY DEF ControlTypeOK, Control, ControlIn, PlacesIn, SlotTypeOK, CallsReturn, CallsReturnIn,
       RecvExclusive, InRecv, RoleIn

LEMMA ControlStands ==
  ASSUME NEW L, NEW C, NEW S, NEW R, Extension(L, C, S, R), ControlIn(L, C, S, R)
  PROVE Standing
<1>1. "none" \notin Labels
  BY BaseExtension DEF Extension
<1> QED
  BY <1>1 DEF Extension, ControlIn, PlacesIn, CallsReturnIn, Standing

LEMMA MoveExtends ==
  ASSUME NEW L, NEW C, NEW S, NEW R, Extension(L, C, S, R), NEW x \in Actors,
         Move(x, Labels, Callers, SubLabels, RecvLabels)
  PROVE Move(x, L, C, S, R)
<1>1. SubLabels \subseteq Labels /\ Callers \subseteq Labels
  BY BaseExtension DEF Extension
<1> QED
  BY <1>1 DEF Extension, Move

LEMMA LocalExtends ==
  ASSUME NEW L, NEW C, NEW S, NEW R, Extension(L, C, S, R), NEW x \in Actors, BaseLocal(x)
  PROVE Local(x, L, C, S, R)
BY MoveExtends DEF BaseLocal, Local

(* Moves that leave recv_thread alone keep the places of all threads. *)
LEMMA MovesKeepPlaces ==
  ASSUME NEW L, NEW C, NEW S, NEW R, Extension(L, C, S, R),
         PlacesIn(L, C), CallsReturnIn(S), RoleIn(R), recv_thread' = recv_thread,
         pc' = [y \in Actors |-> pc'[y]], ret' = [y \in Actors |-> ret'[y]],
         \A y \in Actors : Move(y, L, C, S, R)
  PROVE PlacesIn(L, C)' /\ CallsReturnIn(S)' /\ RoleIn(R)'
<1>1. ASSUME NEW y \in Actors
      PROVE /\ pc'[y] \in L /\ ret'[y] \in C \union {"none"}
            /\ pc'[y] \in S <=> ret'[y] # "none"
            /\ (pc'[y] \in R \/ ret'[y] \in R) <=> (pc[y] \in R \/ ret[y] \in R)
  <2>1. pc[y] \in L /\ ret[y] \in C \union {"none"} /\ (pc[y] \in S <=> ret[y] # "none")
    BY DEF PlacesIn, CallsReturnIn
  <2>2. "none" \notin L /\ (\A l \in C \union R : l \in L /\ l \notin S)
    BY DEF Extension
  <2>3. CASE pc'[y] = pc[y] /\ ret'[y] = ret[y]
    BY <2>1, <2>3
  <2>4. CASE /\ pc'[y] \in L /\ ret'[y] = ret[y]
             /\ (pc'[y] \in S <=> pc[y] \in S) /\ (pc'[y] \in R <=> pc[y] \in R)
    BY <2>1, <2>4
  <2>5. CASE /\ pc[y] \in L \ S /\ pc'[y] \in S /\ ret'[y] \in C
             /\ ret'[y] \in R <=> pc[y] \in R
    <3>1. ret[y] \notin R /\ pc'[y] \notin R /\ pc'[y] \in L /\ ret'[y] # "none"
      BY <2>1, <2>2, <2>5 DEF Extension
    <3> QED
      BY <2>5, <3>1
  <2>6. CASE pc[y] \in S /\ pc'[y] = ret[y] /\ ret'[y] = "none"
    BY <2>1, <2>2, <2>6
  <2> QED
    BY <2>3, <2>4, <2>5, <2>6 DEF Move
<1>2. PlacesIn(L, C)'
  BY <1>1 DEF PlacesIn
<1>3. CallsReturnIn(S)'
  BY <1>1 DEF CallsReturnIn
<1>4. RoleIn(R)'
  BY <1>1, ActorFacts DEF RoleIn
<1> QED
  BY <1>2, <1>3, <1>4

LEMMA OneMoveKeepsPlaces ==
  ASSUME NEW L, NEW C, NEW S, NEW R, Extension(L, C, S, R), ControlIn(L, C, S, R),
         recv_thread' = recv_thread, NEW x \in Actors, OnlyMoves(x), Move(x, L, C, S, R)
  PROVE PlacesIn(L, C)' /\ CallsReturnIn(S)' /\ RoleIn(R)'
<1>1. \A y \in Actors : Move(y, L, C, S, R)
  BY DEF OnlyMoves, Move
<1> QED
  BY <1>1, MovesKeepPlaces DEF ControlIn, OnlyMoves

LEMMA LocalKeepsControl ==
  ASSUME NEW L, NEW C, NEW S, NEW R, Extension(L, C, S, R), ControlIn(L, C, S, R),
         NEW x \in Actors, Local(x, L, C, S, R)
  PROVE ControlIn(L, C, S, R)'
<1>1. PlacesIn(L, C)' /\ CallsReturnIn(S)' /\ RoleIn(R)'
  BY OneMoveKeepsPlaces DEF Local
<1>2. SlotTypeOK'
  BY DEF Local, ControlIn, SlotTypeOK
<1>3. MutexHeld'
  BY DEF Local, OnlyMoves, ControlIn, MutexHeld
<1>4. FreeSlotIdle'
  <2> SUFFICES ASSUME NEW a \in Threads, ~thread_list'[a], pc'[a] # "off"
               PROVE \E y \in Actors : pc'[y] = "add_store" /\ slot'[y] = a
    BY DEF FreeSlotIdle
  <2>1. ~thread_list[a] /\ pc[a] # "off"
    BY ActorFacts DEF Local, OnlyMoves
  <2>2. PICK y \in Actors : pc[y] = "add_store" /\ slot[y] = a
    BY <2>1 DEF ControlIn, FreeSlotIdle
  <2>3. y # x
    BY <2>2 DEF Local, UnderThreadMx
  <2> QED
    BY <2>2, <2>3 DEF Local, OnlyMoves
<1> QED
  BY <1>1, <1>2, <1>3, <1>4 DEF ControlIn

(* The same for a step inherited from ws_server. *)
LEMMA BaseLocalKeepsControl ==
  ASSUME NEW L, NEW C, NEW S, NEW R, Extension(L, C, S, R), ControlIn(L, C, S, R),
         NEW x \in Actors, BaseLocal(x)
  PROVE ControlIn(L, C, S, R)'
BY LocalExtends, LocalKeepsControl

-----------------------------------------------------------------------------
(* Most steps are local. *)

LEMMA PoolLocal ==
  ASSUME Standing, NEW x \in Actors, ResizeEnd(x) \/ ResizeLook(x) \/
         ResizeMark(x) \/ ResizeClear(x) \/ ResizeFd(x)
  PROVE BaseLocal(x)
<1> USE ActorFacts, LabelFacts
       DEF Standing, SlotTypeOK, BaseLocal, Local, OnlyMoves, Move, Goto, Call, Return, Set,
           poolShape, socketVars, RecvLabels, SubLabels, Callers, UnderThreadMx
<1>ResizeEnd. CASE ResizeEnd(x)
  BY <1>ResizeEnd DEF ResizeEnd, NoSweep
<1>ResizeLook. CASE ResizeLook(x)
  BY <1>ResizeLook DEF ResizeLook
<1>ResizeMark. CASE ResizeMark(x)
  BY <1>ResizeMark DEF ResizeMark
<1>ResizeClear. CASE ResizeClear(x)
  BY <1>ResizeClear DEF ResizeClear
<1>ResizeFd. CASE ResizeFd(x)
  BY <1>ResizeFd DEF ResizeFd
<1> QED
  BY <1>ResizeEnd, <1>ResizeLook, <1>ResizeMark, <1>ResizeClear, <1>ResizeFd

LEMMA CloseLocal ==
  ASSUME Standing, NEW x \in Actors, CloseSocket(x) \/ CloseSweep(x) \/
         CloseReset(x) \/ ClearPending(x)
  PROVE BaseLocal(x)
<1> USE ActorFacts, LabelFacts
       DEF Standing, SlotTypeOK, BaseLocal, Local, OnlyMoves, Move, Goto, Call, Return, Set,
           poolShape, socketVars, RecvLabels, SubLabels, Callers, UnderThreadMx
<1>CloseSocket. CASE CloseSocket(x)
  BY <1>CloseSocket, CloseSweepSlots DEF CloseSocket
<1>CloseSweep. CASE CloseSweep(x)
  BY <1>CloseSweep, CloseSweepSlots DEF CloseSweep, NextSwept
<1>CloseReset. CASE CloseReset(x)
  BY <1>CloseReset, CloseSweepSlots DEF CloseReset, NextSwept
<1>ClearPending. CASE ClearPending(x)
  BY <1>ClearPending DEF ClearPending
<1> QED
  BY <1>CloseSocket, <1>CloseSweep, <1>CloseReset, <1>ClearPending

LEMMA MsgRecvLocal ==
  ASSUME Standing, NEW t \in Threads, MsgRecv(t) \/ Wait(t) \/ WaitRole(t) \/
         WaitStatus(t) \/ WaitMx(t) \/ Woken(t) \/ Prefix(t) \/ ReadLoop(t) \/
         Recv(t) \/ Refuse(t) \/ Push(t) \/ PushPending(t) \/ EpollOn(t) \/
         EpollOnCtl(t) \/ Announce(t) \/ Announced(t) \/ Done(t)
  PROVE BaseLocal(t)
<1> USE ActorFacts, LabelFacts
       DEF Standing, SlotTypeOK, BaseLocal, Local, OnlyMoves, Move, Goto, Call, Return, Set,
           poolShape, socketVars, RecvLabels, SubLabels, Callers, UnderThreadMx
<1>MsgRecv. CASE MsgRecv(t)
  BY <1>MsgRecv DEF MsgRecv, Pop
<1>Wait. CASE Wait(t)
  BY <1>Wait DEF Wait
<1>WaitRole. CASE WaitRole(t)
  BY <1>WaitRole DEF WaitRole
<1>WaitStatus. CASE WaitStatus(t)
  BY <1>WaitStatus DEF WaitStatus
<1>WaitMx. CASE WaitMx(t)
  BY <1>WaitMx DEF WaitMx
<1>Woken. CASE Woken(t)
  BY <1>Woken DEF Woken
<1>Prefix. CASE Prefix(t)
  BY <1>Prefix DEF Prefix, Pop
<1>ReadLoop. CASE ReadLoop(t)
  BY <1>ReadLoop DEF ReadLoop
<1>Recv. CASE Recv(t)
  BY <1>Recv DEF Recv
<1>Refuse. CASE Refuse(t)
  BY <1>Refuse DEF Refuse, CallClose
<1>Push. CASE Push(t)
  BY <1>Push DEF Push
<1>PushPending. CASE PushPending(t)
  BY <1>PushPending DEF PushPending
<1>EpollOn. CASE EpollOn(t)
  BY <1>EpollOn DEF EpollOn
<1>EpollOnCtl. CASE EpollOnCtl(t)
  BY <1>EpollOnCtl DEF EpollOnCtl
<1>Announce. CASE Announce(t)
  BY <1>Announce DEF Announce
<1>Announced. CASE Announced(t)
  BY <1>Announced DEF Announced
<1>Done. CASE Done(t)
  BY <1>Done DEF Done
<1> QED
  BY <1>MsgRecv, <1>Wait, <1>WaitRole, <1>WaitStatus, <1>WaitMx, <1>Woken, <1>Prefix,
     <1>ReadLoop, <1>Recv, <1>Refuse, <1>Push, <1>PushPending, <1>EpollOn, <1>EpollOnCtl,
     <1>Announce, <1>Announced, <1>Done

LEMMA RecvEpollLocal ==
  ASSUME Standing, NEW t \in Threads, RecvEpoll(t) \/ Scan(t) \/ Poll(t) \/
         EpollWait(t) \/ Events(t) \/ Give(t) \/ GiveFd(t) \/ GiveStatus(t) \/
         GiveCtl(t) \/ Acknowledge(t) \/ Drop(t) \/ Leave(t)
  PROVE BaseLocal(t)
<1> USE ActorFacts, LabelFacts
       DEF Standing, SlotTypeOK, BaseLocal, Local, OnlyMoves, Move, Goto, Call, Return, Set,
           poolShape, socketVars, RecvLabels, SubLabels, Callers, UnderThreadMx
<1>RecvEpoll. CASE RecvEpoll(t)
  BY <1>RecvEpoll DEF RecvEpoll
<1>Scan. CASE Scan(t)
  BY <1>Scan DEF Scan
<1>Poll. CASE Poll(t)
  BY <1>Poll DEF Poll
<1>EpollWait. CASE EpollWait(t)
  BY <1>EpollWait DEF EpollWait
<1>Events. CASE Events(t)
  BY <1>Events DEF Events
<1>Give. CASE Give(t)
  BY <1>Give DEF Give
<1>GiveFd. CASE GiveFd(t)
  BY <1>GiveFd DEF GiveFd
<1>GiveStatus. CASE GiveStatus(t)
  BY <1>GiveStatus DEF GiveStatus
<1>GiveCtl. CASE GiveCtl(t)
  BY <1>GiveCtl DEF GiveCtl
<1>Acknowledge. CASE Acknowledge(t)
  BY <1>Acknowledge DEF Acknowledge
<1>Drop. CASE Drop(t)
  BY <1>Drop DEF Drop
<1>Leave. CASE Leave(t)
  BY <1>Leave DEF Leave, NoSweep
<1> QED
  BY <1>RecvEpoll, <1>Scan, <1>Poll, <1>EpollWait, <1>Events, <1>Give, <1>GiveFd, <1>GiveStatus,
     <1>GiveCtl, <1>Acknowledge, <1>Drop, <1>Leave

LEMMA UserLocal ==
  ASSUME Standing, NEW t \in Threads, UserReturns(t) \/ WriteFails(t)
  PROVE BaseLocal(t)
<1> USE ActorFacts, LabelFacts
       DEF Standing, SlotTypeOK, BaseLocal, Local, OnlyMoves, Move, Goto, Call, Return, Set,
           poolShape, socketVars, RecvLabels, SubLabels, Callers, UnderThreadMx
<1>UserReturns. CASE UserReturns(t)
  BY <1>UserReturns DEF UserReturns
<1>WriteFails. CASE WriteFails(t)
  BY <1>WriteFails DEF WriteFails, CallClose
<1> QED
  BY <1>UserReturns, <1>WriteFails

LEMMA AcceptLocal ==
  ASSUME Standing, TurnDown \/ AnswerFails \/ Upgrade \/ SetEvent \/ Register
         \/ StartThread \/ Accept \/ AcceptFails
  PROVE BaseLocal(Acceptor)
<1> USE ActorFacts, LabelFacts
       DEF Standing, SlotTypeOK, BaseLocal, Local, OnlyMoves, Move, Goto, Call, Return, Set,
           poolShape, socketVars, RecvLabels, SubLabels, Callers, UnderThreadMx
<1>TurnDown. CASE TurnDown
  BY <1>TurnDown DEF TurnDown
<1>AnswerFails. CASE AnswerFails
  BY <1>AnswerFails DEF AnswerFails
<1>Upgrade. CASE Upgrade
  BY <1>Upgrade DEF Upgrade
<1>SetEvent. CASE SetEvent
  BY <1>SetEvent DEF SetEvent
<1>Register. CASE Register
  BY <1>Register DEF Register
<1>StartThread. CASE StartThread
  BY <1>StartThread DEF StartThread
<1>Accept. CASE Accept
  BY <1>Accept DEF Accept
<1>AcceptFails. CASE AcceptFails
  BY <1>AcceptFails DEF AcceptFails
<1> QED
  BY <1>TurnDown, <1>AnswerFails, <1>Upgrade, <1>SetEvent, <1>Register, <1>StartThread,
     <1>Accept, <1>AcceptFails

-----------------------------------------------------------------------------
(* The steps that take or release thread_mx, start or join a thread, or    *)
(* move the receiving role.                                                *)

LEMMA GetThreadKeepsControl ==
  ASSUME NEW L, NEW C, NEW S, NEW R, Extension(L, C, S, R), ControlIn(L, C, S, R),
         NEW x \in Actors,
         GetThreadScan(x) \/ GetThreadOwn(x) \/ GetThreadTake(x) \/ GetThreadMark(x)
  PROVE ControlIn(L, C, S, R)'
<1> DEFINE Kept ==
      /\ OnlyMoves(x) /\ Move(x, Labels, Callers, SubLabels, RecvLabels)
      /\ UNCHANGED <<thread_list, recv_thread>>
      /\ pc[x] # "add_store" /\ \A y \in Actors \ {x} : slot'[y] = slot[y]
      /\ SlotTypeOK' /\ pc[x] # "off"
      /\ pc'[x] \in UnderThreadMx => thread_mx' = x
<1>1. Standing /\ SlotTypeOK /\ MutexHeld /\ FreeSlotIdle
  BY ControlStands DEF ControlIn
<1>2. Kept
  <2> USE <1>1, ActorFacts, LabelFacts
          DEF Standing, SlotTypeOK, OnlyMoves, Move, Goto, Return, SubLabels, RecvLabels,
              UnderThreadMx, Callers
  <2>1. CASE GetThreadScan(x)
    <3>1. UNCHANGED <<thread_list, recv_thread>> /\ pc[x] = "get_thread"
      BY <2>1 DEF GetThreadScan
    <3>2. ASSUME NEW a \in Threads, slot' = [slot EXCEPT ![x] = a], Goto(x, "get_mark"),
                 thread_mx' = x, ret' = ret
          PROVE Kept
      BY <3>1, <3>2
    <3>3. ASSUME Goto(x, "get_own"), thread_mx' = x, UNCHANGED <<slot, ret>>
          PROVE Kept
      BY <3>1, <3>3
    <3>4. ASSUME Return(x), slot' = [slot EXCEPT ![x] = None], UNCHANGED thread_mx
          PROVE Kept
      BY <3>1, <3>4
    <3> QED
      BY <2>1, <3>2, <3>3, <3>4, Zenon DEF GetThreadScan, Waiting
  <2>2. CASE GetThreadOwn(x)
    BY <2>2 DEF GetThreadOwn, MutexHeld
  <2>3. CASE GetThreadTake(x)
    BY <2>3 DEF GetThreadTake, MutexHeld
  <2>4. CASE GetThreadMark(x)
    BY <2>4 DEF GetThreadMark
  <2> QED
    BY <2>1, <2>2, <2>3, <2>4
<1>3. PlacesIn(L, C)' /\ CallsReturnIn(S)' /\ RoleIn(R)'
  BY <1>2, MoveExtends, OneMoveKeepsPlaces
<1>4. MutexHeld'
  <2>1. \A y \in Actors \ {x} : pc[y] \notin UnderThreadMx
    BY <1>1, ActorFacts
       DEF MutexHeld, GetThreadScan, GetThreadOwn, GetThreadTake, GetThreadMark, UnderThreadMx
  <2> QED
    BY <1>2, <2>1 DEF MutexHeld, OnlyMoves
<1>5. FreeSlotIdle'
  <2> SUFFICES ASSUME NEW a \in Threads, ~thread_list'[a], pc'[a] # "off"
               PROVE \E y \in Actors : pc'[y] = "add_store" /\ slot'[y] = a
    BY DEF FreeSlotIdle
  <2>1. pc[a] # "off" /\ ~thread_list[a]
    BY <1>2, ActorFacts DEF OnlyMoves
  <2>2. PICK y \in Actors : pc[y] = "add_store" /\ slot[y] = a
    BY <1>1, <2>1 DEF FreeSlotIdle
  <2> QED
    BY <1>2, <2>2 DEF OnlyMoves
<1> QED
  BY <1>2, <1>3, <1>4, <1>5 DEF ControlIn

(* A thread is started in a slot that is idle, so nobody loses the role.   *)
LEMMA AddThreadKeepsControl ==
  ASSUME NEW L, NEW C, NEW S, NEW R, Extension(L, C, S, R), ControlIn(L, C, S, R),
         NEW x \in Actors, AddThreadStart(x)
  PROVE ControlIn(L, C, S, R)'
<1>1. Standing /\ SlotTypeOK /\ MutexHeld /\ FreeSlotIdle
  BY ControlStands DEF ControlIn
<1>2. CASE Free = {}
  <2>1. BaseLocal(x)
    BY <1>1, <1>2, ActorFacts, LabelFacts
       DEF AddThreadStart, Lowest, Standing, SlotTypeOK, BaseLocal, Local, OnlyMoves, Move,
           Return, Goto, RecvLabels, SubLabels, UnderThreadMx, Callers
  <2> QED
    BY <2>1, BaseLocalKeepsControl
<1>3. CASE Free # {}
  <2>1. PICK a \in Threads :
          /\ ~thread_list[a]
          /\ pc' = [pc EXCEPT ![x] = "add_store", ![a] = "msg_recv"]
          /\ slot' = [slot EXCEPT ![x] = a]
    BY <1>3 DEF AddThreadStart, Lowest, Free
  <2>2. thread_mx = None /\ thread_mx' = x /\ pc[x] = "add_thread"
        /\ UNCHANGED <<thread_list, recv_thread, ret>>
    BY <1>3 DEF AddThreadStart
  <2>3. pc[a] = "off" /\ a # x
    <3>1. \A y \in Actors : pc[y] # "add_store"
      BY <2>2, <1>1, ActorFacts DEF MutexHeld, UnderThreadMx
    <3>2. pc[a] = "off"
      BY <3>1, <2>1, <1>1 DEF FreeSlotIdle
    <3> QED
      BY <3>2, <2>2
  <2>4. /\ pc' = [y \in Actors |-> pc'[y]] /\ ret' = [y \in Actors |-> ret'[y]]
        /\ pc'[x] = "add_store" /\ pc'[a] = "msg_recv" /\ slot'[x] = a
        /\ \A y \in Actors \ {x} : slot'[y] = slot[y]
        /\ \A y \in Actors \ {x, a} : pc'[y] = pc[y]
    BY <2>1, <2>2, <2>3, <1>1, ActorFacts DEF Standing, SlotTypeOK
  <2>5. \A y \in Actors : Move(y, Labels, Callers, SubLabels, RecvLabels)
    BY <2>2, <2>3, <2>4, LabelFacts DEF Move, SubLabels, RecvLabels
  <2>6. PlacesIn(L, C)' /\ CallsReturnIn(S)' /\ RoleIn(R)'
    BY <2>2, <2>4, <2>5, MoveExtends, MovesKeepPlaces DEF ControlIn
  <2>7. SlotTypeOK'
    BY <1>1, <2>1, <2>2 DEF SlotTypeOK
  <2>8. MutexHeld'
    BY <1>1, <2>2, <2>3, <2>4, ActorFacts DEF MutexHeld, UnderThreadMx
  <2>9. FreeSlotIdle'
    <3> SUFFICES ASSUME NEW c \in Threads, ~thread_list'[c], pc'[c] # "off"
                 PROVE \E y \in Actors : pc'[y] = "add_store" /\ slot'[y] = c
      BY DEF FreeSlotIdle
    <3>1. CASE c = a
      BY <3>1, <2>4
    <3>2. CASE c # a
      <4>1. ~thread_list[c] /\ pc[c] # "off"
        BY <3>2, <2>2, <2>4, ActorFacts
      <4>2. PICK y \in Actors : pc[y] = "add_store" /\ slot[y] = c
        BY <4>1, <1>1 DEF FreeSlotIdle
      <4> QED
        BY <4>2, <2>2, <2>3, <2>4
    <3> QED
      BY <3>1, <3>2
  <2> QED
    BY <2>6, <2>7, <2>8, <2>9 DEF ControlIn
<1> QED
  BY <1>2, <1>3

LEMMA StoreKeepsControl ==
  ASSUME NEW L, NEW C, NEW S, NEW R, Extension(L, C, S, R), ControlIn(L, C, S, R),
         NEW x \in Actors, AddThreadStore(x)
  PROVE ControlIn(L, C, S, R)'
<1>1. Standing /\ SlotTypeOK /\ MutexHeld /\ FreeSlotIdle
  BY ControlStands DEF ControlIn
<1>2. /\ OnlyMoves(x) /\ Move(x, Labels, Callers, SubLabels, RecvLabels)
      /\ recv_thread' = recv_thread /\ pc[x] = "add_store"
      /\ \A y \in Actors \ {x} : slot'[y] = slot[y]
      /\ SlotTypeOK' /\ pc'[x] \notin UnderThreadMx
  BY <1>1, ActorFacts, LabelFacts
     DEF Standing, SlotTypeOK, OnlyMoves, Move, AddThreadStore, Goto, Return, SubLabels,
         RecvLabels, UnderThreadMx, Callers
<1>3. PlacesIn(L, C)' /\ CallsReturnIn(S)' /\ RoleIn(R)'
  BY <1>2, MoveExtends, OneMoveKeepsPlaces
<1>4. MutexHeld'
  BY <1>1, <1>2 DEF MutexHeld, OnlyMoves, UnderThreadMx
<1>5. FreeSlotIdle'
  <2> SUFFICES ASSUME NEW a \in Threads, ~thread_list'[a], pc'[a] # "off"
               PROVE \E y \in Actors : pc'[y] = "add_store" /\ slot'[y] = a
    BY DEF FreeSlotIdle
  <2>1. ~thread_list[a] /\ a # slot[x] /\ pc[a] # "off"
    BY <1>1, <1>2, ActorFacts DEF AddThreadStore, SlotTypeOK, OnlyMoves
  <2>2. PICK y \in Actors : pc[y] = "add_store" /\ slot[y] = a
    BY <2>1, <1>1 DEF FreeSlotIdle
  <2> QED
    BY <1>2, <2>1, <2>2 DEF OnlyMoves
<1> QED
  BY <1>2, <1>3, <1>4, <1>5 DEF ControlIn

LEMMA JoinKeepsControl ==
  ASSUME NEW L, NEW C, NEW S, NEW R, Extension(L, C, S, R), ControlIn(L, C, S, R),
         NEW x \in Actors, ResizeJoin(x)
  PROVE ControlIn(L, C, S, R)'
<1> DEFINE a == sweep.a
<1>1. Standing /\ SlotTypeOK /\ MutexHeld /\ FreeSlotIdle
  BY ControlStands DEF ControlIn
<1>2. /\ pc' = [y \in Actors |-> pc'[y]] /\ ret' = [y \in Actors |-> ret'[y]]
      /\ UNCHANGED <<recv_thread, slot, ret, thread_mx>>
      /\ pc[x] = "resize_join" /\ pc[a] = "returned" /\ pc'[x] = "resize_clear"
      /\ \A y \in Actors : pc'[y] \in {pc[y], "off"} \/ y = x
      /\ \A y \in Actors \ {x} : pc'[y] # pc[y] => pc[y] = "returned"
  BY <1>1, ActorFacts DEF Standing, ResizeJoin
<1>3. \A y \in Actors : Move(y, Labels, Callers, SubLabels, RecvLabels)
  BY <1>2, LabelFacts DEF Move, SubLabels, RecvLabels
<1>4. PlacesIn(L, C)' /\ CallsReturnIn(S)' /\ RoleIn(R)'
  BY <1>2, <1>3, MoveExtends, MovesKeepPlaces DEF ControlIn
<1>5. SlotTypeOK'
  BY <1>1 DEF SlotTypeOK, ResizeJoin
<1>6. MutexHeld'
  BY <1>1, <1>2 DEF MutexHeld, UnderThreadMx
<1>7. FreeSlotIdle'
  <2> SUFFICES ASSUME NEW c \in Threads, ~thread_list'[c], pc'[c] # "off"
               PROVE \E y \in Actors : pc'[y] = "add_store" /\ slot'[y] = c
    BY DEF FreeSlotIdle
  <2>1. pc'[c] # "off" /\ c # a /\ pc[c] # "off"
    BY <1>1, <1>2, ActorFacts DEF ResizeJoin, Standing
  <2>2. ~thread_list[c]
    BY <1>1, <2>1 DEF ResizeJoin, SlotTypeOK
  <2>3. PICK y \in Actors : pc[y] = "add_store" /\ slot[y] = c
    BY <1>1, <2>1, <2>2 DEF FreeSlotIdle
  <2> QED
    BY <1>2, <2>3
<1> QED
  BY <1>4, <1>5, <1>6, <1>7 DEF ControlIn

(* The head of msg_recv's loop, in which a vacant role is taken. *)
LEMMA ParkKeepsControl ==
  ASSUME NEW L, NEW C, NEW S, NEW R, Extension(L, C, S, R), ControlIn(L, C, S, R),
         NEW t \in Threads, Park(t) \/ ParkStatus(t) \/ ParkRole(t)
  PROVE ControlIn(L, C, S, R)'
<1>1. Standing /\ SlotTypeOK /\ MutexHeld /\ FreeSlotIdle /\ RoleIn(R) /\ t \in Actors
  BY ControlStands, ActorFacts DEF ControlIn
<1>2. /\ UNCHANGED <<ret, slot, thread_list>> /\ OnlyMoves(t)
      /\ pc[t] \in {"park", "park_status", "park_role"}
      /\ pc'[t] \in {"park_status", "park_role", "wait", "recv_epoll"}
      /\ pc'[t] \in UnderThreadMx => thread_mx' = t
      /\ SlotTypeOK'
  BY <1>1, ActorFacts
     DEF Park, ParkStatus, ParkRole, Goto, Standing, SlotTypeOK, OnlyMoves, UnderThreadMx,
         MutexHeld
<1>3. /\ pc[t] \in Labels \ SubLabels /\ pc'[t] \in Labels \ SubLabels
      /\ pc[t] \notin RecvLabels /\ (pc'[t] \in RecvLabels <=> pc'[t] = "recv_epoll")
  BY <1>2, LabelFacts DEF SubLabels, RecvLabels
<1>4. /\ pc[t] \in L \ S /\ pc'[t] \in L \ S /\ pc[t] \notin R /\ "none" \notin R
      /\ pc'[t] \in R <=> pc'[t] = "recv_epoll"
  BY <1>3 DEF Extension
<1>5. ret[t] = "none"
  BY <1>1, <1>4 DEF ControlIn, CallsReturnIn
<1>6. PlacesIn(L, C)'
  BY <1>2, <1>4 DEF ControlIn, PlacesIn, OnlyMoves
<1>7. CallsReturnIn(S)'
  BY <1>2, <1>4 DEF ControlIn, CallsReturnIn, OnlyMoves
<1>8. RoleIn(R)'
  <2>1. CASE pc'[t] = "recv_epoll"
    <3>1. recv_thread = None /\ recv_thread' = t
      BY <1>1, <1>2, <2>1 DEF Park, ParkStatus, ParkRole, Goto, Standing
    <3> QED
      BY <1>1, <1>2, <1>4, <2>1, <3>1, ActorFacts DEF RoleIn, OnlyMoves
  <2>2. CASE pc'[t] # "recv_epoll"
    <3>1. recv_thread' = recv_thread
      BY <1>1, <2>2 DEF Park, ParkStatus, ParkRole, Goto, Standing
    <3> QED
      BY <1>1, <1>2, <1>4, <1>5, <2>2, <3>1, ActorFacts DEF RoleIn, OnlyMoves
  <2> QED
    BY <2>1, <2>2
<1>9. MutexHeld'
  <2>1. thread_mx \in {None, t}
    BY <1>1 DEF Park, ParkStatus, ParkRole, MutexHeld, UnderThreadMx
  <2> QED
    BY <1>1, <1>2, <2>1, ActorFacts DEF MutexHeld, OnlyMoves
<1>10. FreeSlotIdle'
  <2> SUFFICES ASSUME NEW a \in Threads, ~thread_list'[a], pc'[a] # "off"
               PROVE \E y \in Actors : pc'[y] = "add_store" /\ slot'[y] = a
    BY DEF FreeSlotIdle
  <2>1. ~thread_list[a] /\ pc[a] # "off"
    BY <1>2, ActorFacts DEF OnlyMoves
  <2>2. PICK y \in Actors : pc[y] = "add_store" /\ slot[y] = a
    BY <1>1, <2>1 DEF FreeSlotIdle
  <2> QED
    BY <2>2, <1>2 DEF OnlyMoves
<1> QED
  BY <1>2, <1>6, <1>7, <1>8, <1>9, <1>10 DEF ControlIn

(* The end of recv_epoll, where the role is given up. *)
LEMMA GiveUpKeepsControl ==
  ASSUME NEW L, NEW C, NEW S, NEW R, Extension(L, C, S, R), ControlIn(L, C, S, R),
         NEW t \in Threads, GiveUp(t)
  PROVE ControlIn(L, C, S, R)'
<1>1. Standing /\ SlotTypeOK /\ MutexHeld /\ FreeSlotIdle /\ RoleIn(R) /\ t \in Actors
  BY ControlStands, ActorFacts DEF ControlIn
<1>2. /\ UNCHANGED <<ret, slot, thread_list, thread_mx>> /\ OnlyMoves(t)
      /\ pc[t] = "give_up" /\ pc'[t] = "wait" /\ recv_thread' = None
  BY <1>1 DEF GiveUp, Goto, Standing, OnlyMoves, poolShape
<1>3. /\ pc[t] \in Labels \ SubLabels /\ pc'[t] \in Labels \ SubLabels
      /\ pc[t] \in RecvLabels /\ pc'[t] \notin RecvLabels
  BY <1>2, LabelFacts DEF SubLabels, RecvLabels
<1>4. /\ pc[t] \in L \ S /\ pc'[t] \in L \ S /\ pc[t] \in R /\ pc'[t] \notin R /\ "none" \notin R
  BY <1>3 DEF Extension
<1>5. ret[t] = "none" /\ recv_thread = t
  BY <1>1, <1>4 DEF ControlIn, CallsReturnIn, RoleIn
<1>6. PlacesIn(L, C)' /\ CallsReturnIn(S)'
  BY <1>2, <1>4 DEF ControlIn, PlacesIn, CallsReturnIn, OnlyMoves
<1>7. RoleIn(R)'
  BY <1>1, <1>2, <1>4, <1>5, ActorFacts DEF RoleIn, OnlyMoves
<1>8. SlotTypeOK' /\ MutexHeld'
  BY <1>1, <1>2 DEF SlotTypeOK, MutexHeld, OnlyMoves, UnderThreadMx
<1>9. FreeSlotIdle'
  <2> SUFFICES ASSUME NEW a \in Threads, ~thread_list'[a], pc'[a] # "off"
               PROVE \E y \in Actors : pc'[y] = "add_store" /\ slot'[y] = a
    BY DEF FreeSlotIdle
  <2>1. ~thread_list[a] /\ pc[a] # "off"
    BY <1>2, ActorFacts DEF OnlyMoves
  <2>2. PICK y \in Actors : pc[y] = "add_store" /\ slot[y] = a
    BY <1>1, <2>1 DEF FreeSlotIdle
  <2> QED
    BY <2>2, <1>2 DEF OnlyMoves
<1> QED
  BY <1>6, <1>7, <1>8, <1>9 DEF ControlIn

-----------------------------------------------------------------------------
(* Every step of the pool, of socket_server and of the application keeps   *)
(* the control part of the state, also in a server that extends ws_server. *)

LEMMA ThreadStepKeepsControl ==
  ASSUME NEW L, NEW C, NEW S, NEW R, Extension(L, C, S, R), ControlIn(L, C, S, R),
         NEW x \in Actors, ThreadStep(x)
  PROVE ControlIn(L, C, S, R)'
<1>1. CASE GetThreadScan(x) \/ GetThreadOwn(x) \/ GetThreadTake(x) \/ GetThreadMark(x)
  BY <1>1, GetThreadKeepsControl
<1>2. CASE AddThreadStart(x) \/ AddThreadStore(x)
  BY <1>2, AddThreadKeepsControl, StoreKeepsControl
<1>3. CASE ResizeJoin(x)
  BY <1>3, JoinKeepsControl
<1>4. CASE \/ ResizeEnd(x) \/ ResizeLook(x) \/ ResizeMark(x) \/ ResizeClear(x)
           \/ ResizeFd(x)
  BY <1>4, ControlStands, PoolLocal, BaseLocalKeepsControl
<1> QED
  BY <1>1, <1>2, <1>3, <1>4 DEF ThreadStep

LEMMA CloseKeepsControl ==
  ASSUME NEW L, NEW C, NEW S, NEW R, Extension(L, C, S, R), ControlIn(L, C, S, R),
         NEW x \in Actors,
         CloseSocket(x) \/ CloseSweep(x) \/ CloseReset(x) \/ ClearPending(x)
  PROVE ControlIn(L, C, S, R)'
BY ControlStands, CloseLocal, BaseLocalKeepsControl

LEMMA MsgRecvKeepsControl ==
  ASSUME NEW L, NEW C, NEW S, NEW R, Extension(L, C, S, R), ControlIn(L, C, S, R),
         NEW t \in Threads, MsgRecvStep(t)
  PROVE ControlIn(L, C, S, R)'
<1>1. CASE Park(t) \/ ParkStatus(t) \/ ParkRole(t)
  BY <1>1, ParkKeepsControl
<1>2. CASE ~(Park(t) \/ ParkStatus(t) \/ ParkRole(t))
  <2>1. BaseLocal(t)
    BY <1>2, ControlStands, MsgRecvLocal DEF MsgRecvStep
  <2> QED
    BY <2>1, ActorFacts, BaseLocalKeepsControl
<1> QED
  BY <1>1, <1>2

LEMMA RecvEpollKeepsControl ==
  ASSUME NEW L, NEW C, NEW S, NEW R, Extension(L, C, S, R), ControlIn(L, C, S, R),
         NEW t \in Threads, RecvEpollStep(t)
  PROVE ControlIn(L, C, S, R)'
<1>1. CASE GiveUp(t)
  BY <1>1, GiveUpKeepsControl
<1>2. CASE ~GiveUp(t)
  <2>1. BaseLocal(t)
    BY <1>2, ControlStands, RecvEpollLocal DEF RecvEpollStep
  <2> QED
    BY <2>1, ActorFacts, BaseLocalKeepsControl
<1> QED
  BY <1>1, <1>2

LEMMA UserKeepsControl ==
  ASSUME NEW L, NEW C, NEW S, NEW R, Extension(L, C, S, R), ControlIn(L, C, S, R),
         NEW t \in Threads, UserStep(t)
  PROVE ControlIn(L, C, S, R)'
<1>1. BaseLocal(t)
  BY ControlStands, UserLocal DEF UserStep
<1> QED
  BY <1>1, ActorFacts, BaseLocalKeepsControl

LEMMA AcceptKeepsControl ==
  ASSUME NEW L, NEW C, NEW S, NEW R, Extension(L, C, S, R), ControlIn(L, C, S, R),
         AcceptStep \/ Accept \/ AcceptFails
  PROVE ControlIn(L, C, S, R)'
<1>1. BaseLocal(Acceptor)
  BY ControlStands, AcceptLocal DEF AcceptStep
<1> QED
  BY <1>1, ActorFacts, BaseLocalKeepsControl

LEMMA StutterKeepsControl ==
  ASSUME NEW L, NEW C, NEW S, NEW R, ControlIn(L, C, S, R), UNCHANGED threadVars
  PROVE ControlIn(L, C, S, R)'
BY DEF threadVars, ControlIn, PlacesIn, SlotTypeOK, CallsReturnIn, MutexHeld, FreeSlotIdle,
       RoleIn

-----------------------------------------------------------------------------
LEMMA NextKeepsControlIn ==
  ASSUME NEW L, NEW C, NEW S, NEW R, Extension(L, C, S, R), ControlIn(L, C, S, R), [Next]_vars
  PROVE ControlIn(L, C, S, R)'
<1> DEFINE In == ControlIn(L, C, S, R)
<1>1. ASSUME NEW x \in Actors, ServerStep(x)
      PROVE In'
  BY <1>1, ThreadStepKeepsControl, CloseKeepsControl DEF ServerStep, PoolStep
<1>2. ASSUME NEW t \in Threads, ThreadRuns(t)
      PROVE In'
  BY <1>1, <1>2, ActorFacts, MsgRecvKeepsControl, RecvEpollKeepsControl DEF ThreadRuns
<1>3. CASE AcceptorRuns
  BY <1>1, <1>3, ActorFacts, AcceptKeepsControl DEF AcceptorRuns
<1>4. CASE ClientStep \/ UNCHANGED vars
  BY <1>4, StutterKeepsControl DEF ClientStep, vars, threadVars
<1> QED
  BY <1>2, <1>3, <1>4, UserKeepsControl, AcceptKeepsControl DEF Next

-----------------------------------------------------------------------------
(* A step of one of the actors, and what it does to the others: nothing,   *)
(* but that a thread begins in an empty slot, and one that has returned is *)
(* joined.                                                                 *)
ActorStep(x) ==
  \/ ServerStep(x)
  \/ x \in Threads /\ (MsgRecvStep(x) \/ RecvEpollStep(x) \/ UserStep(x))
  \/ x = Acceptor /\ (AcceptStep \/ Accept \/ AcceptFails)

LEMMA NextIsActorStep ==
  ASSUME Next
  PROVE (\E x \in Actors : ActorStep(x)) \/ ClientStep
BY ActorFacts DEF Next, ThreadRuns, AcceptorRuns, ActorStep

(* A slot add_thread finds without a pointer runs no thread. *)
LEMMA EmptySlot ==
  ASSUME MutexHeld, FreeSlotIdle, NEW x \in Actors, AddThreadStart(x),
         NEW a \in Threads, ~thread_list[a]
  PROVE pc[a] = "off"
<1>1. \A y \in Actors : pc[y] # "add_store"
  BY ActorFacts DEF MutexHeld, UnderThreadMx, AddThreadStart
<1> QED
  BY <1>1 DEF FreeSlotIdle

LEMMA OthersStay ==
  ASSUME Standing, MutexHeld, FreeSlotIdle, NEW x \in Actors, ActorStep(x),
         NEW y \in Actors \ {x}, pc[y] \notin {"off", "returned"}
  PROVE pc'[y] = pc[y] /\ ret'[y] = ret[y]
<1>1. CASE BaseLocal(x)
  BY <1>1 DEF BaseLocal, Local, OnlyMoves
<1>2. CASE \/ GetThreadScan(x) \/ GetThreadOwn(x) \/ GetThreadTake(x) \/ GetThreadMark(x)
           \/ AddThreadStore(x) \/ ResizeJoin(x)
  BY <1>2
     DEF Standing, GetThreadScan, GetThreadOwn, GetThreadTake, GetThreadMark, AddThreadStore,
         ResizeJoin, Goto, Return
<1>3. CASE AddThreadStart(x)
  <2>1. CASE Return(x)
    BY <1>3, <2>1 DEF Standing, Return, Goto
  <2>2. ASSUME NEW a \in Threads, a \in Free, UNCHANGED ret,
               pc' = [pc EXCEPT ![x] = "add_store", ![a] = "msg_recv"]
        PROVE pc'[y] = pc[y] /\ ret'[y] = ret[y]
    <3>1. pc[a] = "off"
      BY <1>3, <2>2, EmptySlot DEF Free
    <3> QED
      BY <2>2, <3>1 DEF Standing
  <2> QED
    BY <1>3, <2>1, <2>2 DEF AddThreadStart, Lowest
<1>4. CASE x \in Threads /\ (Park(x) \/ ParkStatus(x) \/ ParkRole(x) \/ GiveUp(x))
  BY <1>4 DEF Standing, Park, ParkStatus, ParkRole, GiveUp, Goto
<1>5. CASE ServerStep(x) /\ ~BaseLocal(x)
  BY <1>2, <1>3, <1>5, PoolLocal, CloseLocal DEF ServerStep, PoolStep, ThreadStep
<1>6. CASE x \in Threads /\ (MsgRecvStep(x) \/ RecvEpollStep(x) \/ UserStep(x)) /\ ~BaseLocal(x)
  BY <1>4, <1>6, MsgRecvLocal, RecvEpollLocal, UserLocal
     DEF MsgRecvStep, RecvEpollStep, UserStep
<1>7. CASE x = Acceptor /\ (AcceptStep \/ Accept \/ AcceptFails)
  BY <1>1, <1>7, AcceptLocal DEF AcceptStep
<1> QED
  BY <1>1, <1>5, <1>6, <1>7 DEF ActorStep

-----------------------------------------------------------------------------
(* ws_server itself *)

LEMMA NextKeepsControl ==
  ASSUME ControlTypeOK, Control, [Next]_vars
  PROVE ControlTypeOK' /\ Control'
BY BaseControl, BaseExtension, NextKeepsControlIn

LEMMA InitControl ==
  ASSUME Init
  PROVE ControlTypeOK /\ Control
<1> USE ActorFacts DEF Init, ThreadInit
<1>1. ControlTypeOK
  BY LabelFacts DEF ControlTypeOK
<1>2. CallsReturn
  BY DEF CallsReturn, SubLabels
<1>3. MutexHeld
  BY DEF MutexHeld, UnderThreadMx
<1>4. FreeSlotIdle
  BY DEF FreeSlotIdle
<1>5. RecvExclusive
  BY DEF RecvExclusive, InRecv, RecvLabels
<1> QED
  BY <1>1, <1>2, <1>3, <1>4, <1>5 DEF Control

(* The invariant behind the theorems: every thread's place and return      *)
(* place fit each other, thread_mx is held by whoever is in one of its     *)
(* critical sections, and a slot without a pointer runs no thread.         *)
THEOREM ControlInvariant == Spec => [](ControlTypeOK /\ Control)
<1>1. Init => ControlTypeOK /\ Control
  BY InitControl
<1>2. ControlTypeOK /\ Control /\ [Next]_vars => (ControlTypeOK /\ Control)'
  BY NextKeepsControl
<1> QED
  BY <1>1, <1>2, PTL DEF Spec

(* recv_thread names exactly the thread that runs recv_epoll, whatever the *)
(* number of threads and sockets: taking the role (msg_recv) happens under *)
(* thread_mx, giving it up (recv_epoll) needs no lock.                     *)
THEOREM ReceiverExclusive == Spec => []RecvExclusive
<1>1. ControlTypeOK /\ Control => RecvExclusive
  BY DEF Control
<1> QED
  BY <1>1, ControlInvariant, PTL

-----------------------------------------------------------------------------
(* Types *)

(* From get_thread to epoll_ctl, recv_epoll has an event in its hands.     *)
HandingOver(t) ==
  pc[t] \in {"give", "give_fd", "give_status", "give_ctl"} \/ ret[t] = "give"

EventAtHand == \A t \in Threads : HandingOver(t) => events # <<>>

(* more_data reads from a socket, and counts no message it has not read.   *)
ReadArg == \A t \in Threads : pc[t] = "recv" => arg[t] \in Sockets

MessagesCounted ==
  \A t \in Threads :
    /\ pc[t] = "push_pending" => unpushed[t] > 0
    /\ pc[t] = "announced" \/ ret[t] = "announced" => count[t] > 0

(* Only the thread with the role runs resize, and resize stays inside its  *)
(* array and its amount, and works on other slots than its own.            *)
ResizeLabels == {"resize", "resize_mark", "resize_join", "resize_clear", "resize_fd"}

ResizeByReceiver ==
  \A x \in Actors : pc[x] \in ResizeLabels => x \in Threads /\ ret[x] \in RecvLabels

SweepInRange ==
  \A t \in Threads :
    /\ pc[t] \in ResizeLabels \ {"resize"} => sweep.a < MaxThread /\ sweep.a # t
    /\ pc[t] = "resize_mark" => sweep.amount > 0

DataTypeOK == PoolTypeOK /\ SocketTypeOK /\ KernelTypeOK

Work == EventAtHand /\ ReadArg /\ MessagesCounted

Sweeping == ResizeByReceiver /\ SweepInRange

(* The inductive invariant. *)
TInv == ControlTypeOK /\ Control /\ DataTypeOK /\ Work /\ Sweeping

(* What of it a single step needs: it is the same in a server that adds    *)
(* places and steps of its own to those of ws_server.                      *)
RoleKnown == \A t \in Threads : InRecv(t) => recv_thread = t

Typed == Standing /\ RoleKnown /\ DataTypeOK /\ Work /\ Sweeping

-----------------------------------------------------------------------------
(* What the operators on shared data return. *)

LEMMA PopTypes ==
  ASSUME NEW S, NEW q \in Seq(S), q # <<>>
  PROVE Head(q) \in S /\ Tail(q) \in Seq(S)
OBVIOUS

LEMMA RemoveTypes ==
  ASSUME NEW S, NEW q \in Seq(S), NEW i \in 1..Len(q)
  PROVE RemoveAt(q, i) \in Seq(S)
BY DEF RemoveAt

LEMMA SweepTypes ==
  ASSUME PoolTypeOK
  PROVE /\ sweep.a < MaxThread => NextSlot \in [a : 0..MaxThread, amount : Nat]
        /\ sweep.a < MaxThread /\ sweep.amount > 0 =>
             [NextSlot EXCEPT !.amount = @ - 1] \in [a : 0..MaxThread, amount : Nat]
<1>1. sweep.a \in 0..MaxThread /\ sweep.amount \in Nat /\ sweep = [a |-> sweep.a, amount |-> sweep.amount]
  BY DEF PoolTypeOK
<1>2. NextSlot = [a |-> sweep.a + 1, amount |-> sweep.amount]
  BY <1>1 DEF NextSlot
<1> QED
  BY <1>1, <1>2, MaxThreadAssumption

LEMMA CloseFdTypes ==
  ASSUME KernelTypeOK, NEW s, CloseFd(s)
  PROVE KernelTypeOK'
BY DEF KernelTypeOK, CloseFd, Descriptors, None

LEMMA EventTypes ==
  ASSUME KernelTypeOK
  PROVE EventLists \subseteq Seq([fd : Descriptors, hup : BOOLEAN])
<1> DEFINE E == [fd : Descriptors, hup : BOOLEAN]
<1>1. \A s \in Ready : Event(s) \in E
  BY DEF KernelTypeOK, Ready, Event
<1>2. ASSUME NEW n \in {MAX_EVENTS} \union {k \in 1..MAX_EVENTS : k = Cardinality(Ready)},
             NEW order \in Injection(1..n, Ready)
      PROVE [i \in 1..n |-> Event(order[i])] \in Seq(E)
  <2>1. n \in Nat
    BY <1>2, KernelAssumption
  <2>2. \A i \in 1..n : order[i] \in Ready
    BY <1>2 DEF Injection, IsInjective
  <2>3. \A i \in 1..n : Event(order[i]) \in E
    BY <1>1, <2>2
  <2> HIDE DEF E
  <2> QED
    BY <2>1, <2>3
<1> QED
  <2> SUFFICES ASSUME NEW e \in EventLists
               PROVE e \in Seq(E)
    OBVIOUS
  <2>1. PICK n \in {MAX_EVENTS} \union {k \in 1..MAX_EVENTS : k = Cardinality(Ready)} :
          \E order \in Injection(1..n, Ready) : e = [i \in 1..n |-> Event(order[i])]
    BY DEF EventLists
  <2> QED
    BY <1>2, <2>1

LEMMA Ranges ==
  /\ Threads \subseteq 0..MaxThread
  /\ 0 \in 0..MaxThread /\ 0 \in 0..(resize_while_loop + 1)
  /\ \A k \in 0..(resize_while_loop + 1) :
       k <= resize_while_loop => k + 1 \in 0..(resize_while_loop + 1)
  /\ \A k \in 0..MaxThread \union {None} : k < MaxThread => k + 1 \in 0..MaxThread
BY MaxThreadAssumption, SocketAssumption DEF Threads, None

LEMMA PoolData ==
  ASSUME Typed, NEW x \in Actors, ThreadStep(x), UNCHANGED <<socketVars, kernelVars>>
  PROVE DataTypeOK'
<1> USE ActorFacts
       DEF Typed, DataTypeOK, Descriptors, Statuses, Goto, Call, Return, Set, poolShape,
           epollLocals, socketVars, kernelVars
<1>1. pc[x] \in ResizeLabels => x \in Threads /\ SweepInRange
  BY DEF Sweeping, ResizeByReceiver
<1>GetThreadScan. CASE GetThreadScan(x)
  BY <1>GetThreadScan
     DEF GetThreadScan, Standing, SlotTypeOK, PoolTypeOK, SocketTypeOK, KernelTypeOK
<1>GetThreadOwn. CASE GetThreadOwn(x)
  BY <1>GetThreadOwn
     DEF GetThreadOwn, Standing, SlotTypeOK, PoolTypeOK, SocketTypeOK, KernelTypeOK
<1>GetThreadTake. CASE GetThreadTake(x)
  BY <1>GetThreadTake
     DEF GetThreadTake, Standing, SlotTypeOK, PoolTypeOK, SocketTypeOK, KernelTypeOK
<1>GetThreadMark. CASE GetThreadMark(x)
  BY <1>GetThreadMark
     DEF GetThreadMark, Standing, SlotTypeOK, PoolTypeOK, SocketTypeOK, KernelTypeOK
<1>AddThreadStart. CASE AddThreadStart(x)
  BY <1>AddThreadStart
     DEF AddThreadStart, Free, Standing, SlotTypeOK, PoolTypeOK, SocketTypeOK, KernelTypeOK
<1>AddThreadStore. CASE AddThreadStore(x)
  BY <1>AddThreadStore
     DEF AddThreadStore, Standing, SlotTypeOK, PoolTypeOK, SocketTypeOK, KernelTypeOK
<1>ResizeEnd. CASE ResizeEnd(x)
  <2>1. PoolTypeOK'
    BY <1>ResizeEnd, Ranges DEF ResizeEnd, NoSweep, PoolTypeOK
  <2>2. SocketTypeOK' /\ KernelTypeOK'
    BY <1>ResizeEnd DEF ResizeEnd, SocketTypeOK, KernelTypeOK
  <2> QED
    BY <2>1, <2>2 DEF DataTypeOK
<1>ResizeLook. CASE ResizeLook(x)
  <2>1. PoolTypeOK'
    BY <1>ResizeLook, SweepTypes DEF ResizeLook, PoolTypeOK
  <2>2. SocketTypeOK' /\ KernelTypeOK'
    BY DEF SocketTypeOK, KernelTypeOK
  <2> QED
    BY <2>1, <2>2 DEF DataTypeOK
<1>ResizeMark. CASE ResizeMark(x)
  <2>1. PoolTypeOK'
    BY <1>ResizeMark, <1>1, SweepTypes DEF ResizeMark, PoolTypeOK, SweepInRange, ResizeLabels
  <2>2. SocketTypeOK'
    BY <1>ResizeMark, SweepTypes DEF ResizeMark, SocketTypeOK
  <2>3. KernelTypeOK'
    BY <1>ResizeMark, SweepTypes DEF ResizeMark, KernelTypeOK
  <2> QED
    BY <2>1, <2>2, <2>3 DEF DataTypeOK
<1>ResizeJoin. CASE ResizeJoin(x)
  BY <1>ResizeJoin DEF ResizeJoin, Standing, SlotTypeOK, PoolTypeOK, SocketTypeOK, KernelTypeOK
<1>ResizeClear. CASE ResizeClear(x)
  <2>1. PoolTypeOK'
    BY <1>ResizeClear DEF ResizeClear, PoolTypeOK
  <2>2. SocketTypeOK'
    BY <1>ResizeClear DEF ResizeClear, SocketTypeOK
  <2>3. KernelTypeOK'
    BY <1>ResizeClear DEF ResizeClear, KernelTypeOK
  <2> QED
    BY <2>1, <2>2, <2>3 DEF DataTypeOK
<1>ResizeFd. CASE ResizeFd(x)
  <2>1. PoolTypeOK'
    BY <1>ResizeFd, <1>1, SweepTypes DEF ResizeFd, PoolTypeOK, SweepInRange, ResizeLabels
  <2>2. SocketTypeOK'
    BY <1>ResizeFd, SweepTypes DEF ResizeFd, SocketTypeOK
  <2>3. KernelTypeOK'
    BY <1>ResizeFd, SweepTypes DEF ResizeFd, KernelTypeOK
  <2> QED
    BY <2>1, <2>2, <2>3 DEF DataTypeOK
<1> QED
  BY <1>GetThreadScan, <1>GetThreadOwn, <1>GetThreadTake, <1>GetThreadMark,
     <1>AddThreadStart, <1>AddThreadStore, <1>ResizeEnd, <1>ResizeLook, <1>ResizeMark,
     <1>ResizeJoin, <1>ResizeClear, <1>ResizeFd
     DEF ThreadStep

LEMMA CloseData ==
  ASSUME Typed, NEW x \in Actors,
         CloseSocket(x) \/ CloseSweep(x) \/ CloseReset(x) \/ ClearPending(x)
  PROVE DataTypeOK'
<1> USE ActorFacts
       DEF Typed, DataTypeOK, Descriptors, Statuses, Goto, Call, Return, Set, poolShape,
           epollLocals, socketVars, kernelVars
<1>CloseSocket. CASE CloseSocket(x)
  <2>1. PoolTypeOK'
    BY <1>CloseSocket, CloseFdTypes DEF CloseSocket, PoolTypeOK
  <2>2. SocketTypeOK'
    BY <1>CloseSocket, CloseFdTypes DEF CloseSocket, SocketTypeOK
  <2>3. KernelTypeOK'
    BY <1>CloseSocket, CloseFdTypes DEF CloseSocket, KernelTypeOK
  <2> QED
    BY <2>1, <2>2, <2>3 DEF DataTypeOK
<1>CloseSweep. CASE CloseSweep(x)
  BY <1>CloseSweep DEF CloseSweep, NextSwept, PoolTypeOK, SocketTypeOK, KernelTypeOK
<1>CloseReset. CASE CloseReset(x)
  BY <1>CloseReset DEF CloseReset, NextSwept, PoolTypeOK, SocketTypeOK, KernelTypeOK
<1>ClearPending. CASE ClearPending(x)
  <2>0. \A i \in 1..Len(pending) : RemoveAt(pending, i) \in Seq(Descriptors)
    BY RemoveTypes DEF SocketTypeOK
  <2>1. PoolTypeOK'
    BY <1>ClearPending, <2>0 DEF ClearPending, Lowest, PoolTypeOK
  <2>2. SocketTypeOK'
    BY <1>ClearPending, <2>0 DEF ClearPending, Lowest, SocketTypeOK
  <2>3. KernelTypeOK'
    BY <1>ClearPending, <2>0 DEF ClearPending, Lowest, KernelTypeOK
  <2> QED
    BY <2>1, <2>2, <2>3 DEF DataTypeOK
<1> QED
  BY <1>CloseSocket, <1>CloseSweep, <1>CloseReset, <1>ClearPending

LEMMA MsgRecvData ==
  ASSUME Typed, NEW t \in Threads, MsgRecvStep(t)
  PROVE DataTypeOK'
<1> USE ActorFacts
       DEF Typed, DataTypeOK, Descriptors, Statuses, Goto, Call, Return, Set, poolShape,
           epollLocals, socketVars, kernelVars
<1>MsgRecv. CASE MsgRecv(t)
  <2>0. pending # <<>> => Head(pending) \in Descriptors /\ Tail(pending) \in Seq(Descriptors)
    BY PopTypes DEF SocketTypeOK
  <2>1. PoolTypeOK'
    <3>1. CASE Pop(t)
      BY <1>MsgRecv, <2>0, <3>1 DEF MsgRecv, Pop, PoolTypeOK
    <3>2. CASE pending = <<>> /\ UNCHANGED <<socketfd, pending>>
      BY <1>MsgRecv, <2>0, <3>2 DEF MsgRecv, Pop, PoolTypeOK
    <3> QED
      BY <1>MsgRecv, <3>1, <3>2 DEF MsgRecv
  <2>2. SocketTypeOK'
    BY <1>MsgRecv, <2>0 DEF MsgRecv, Pop, SocketTypeOK
  <2>3. KernelTypeOK'
    BY <1>MsgRecv, <2>0 DEF MsgRecv, Pop, KernelTypeOK
  <2> QED
    BY <2>1, <2>2, <2>3 DEF DataTypeOK
<1>Park. CASE Park(t)
  BY <1>Park DEF Park, Standing, SlotTypeOK, PoolTypeOK, SocketTypeOK, KernelTypeOK
<1>ParkStatus. CASE ParkStatus(t)
  BY <1>ParkStatus DEF ParkStatus, Standing, SlotTypeOK, PoolTypeOK, SocketTypeOK, KernelTypeOK
<1>ParkRole. CASE ParkRole(t)
  BY <1>ParkRole DEF ParkRole, Standing, SlotTypeOK, PoolTypeOK, SocketTypeOK, KernelTypeOK
<1>Wait. CASE Wait(t)
  BY <1>Wait DEF Wait, Standing, SlotTypeOK, PoolTypeOK, SocketTypeOK, KernelTypeOK
<1>WaitRole. CASE WaitRole(t)
  BY <1>WaitRole DEF WaitRole, Standing, SlotTypeOK, PoolTypeOK, SocketTypeOK, KernelTypeOK
<1>WaitStatus. CASE WaitStatus(t)
  BY <1>WaitStatus DEF WaitStatus, Standing, SlotTypeOK, PoolTypeOK, SocketTypeOK, KernelTypeOK
<1>WaitMx. CASE WaitMx(t)
  BY <1>WaitMx DEF WaitMx, Standing, SlotTypeOK, PoolTypeOK, SocketTypeOK, KernelTypeOK
<1>Woken. CASE Woken(t)
  BY <1>Woken DEF Woken, Standing, SlotTypeOK, PoolTypeOK, SocketTypeOK, KernelTypeOK
<1>Prefix. CASE Prefix(t)
  <2>0. pending # <<>> => Head(pending) \in Descriptors /\ Tail(pending) \in Seq(Descriptors)
    BY PopTypes DEF SocketTypeOK
  <2>1. PoolTypeOK'
    <3>1. CASE Pop(t)
      BY <1>Prefix, <2>0, <3>1 DEF Prefix, Pop, PoolTypeOK
    <3>2. CASE pending = <<>> /\ UNCHANGED <<status, socketfd, pending>>
      BY <1>Prefix, <2>0, <3>2 DEF Prefix, Pop, PoolTypeOK
    <3> QED
      BY <1>Prefix, <3>1, <3>2 DEF Prefix
  <2>2. SocketTypeOK'
    BY <1>Prefix, <2>0 DEF Prefix, Pop, SocketTypeOK
  <2>3. KernelTypeOK'
    BY <1>Prefix, <2>0 DEF Prefix, Pop, KernelTypeOK
  <2> QED
    BY <2>1, <2>2, <2>3 DEF DataTypeOK
<1>ReadLoop. CASE ReadLoop(t)
  <2>1. PoolTypeOK'
    BY <1>ReadLoop DEF ReadLoop, PoolTypeOK
  <2>2. SocketTypeOK'
    <3>1. arg' \in [Actors -> Descriptors]
      BY <1>ReadLoop DEF ReadLoop, PoolTypeOK, SocketTypeOK
    <3> QED
      BY <1>ReadLoop, <3>1 DEF ReadLoop, SocketTypeOK
  <2>3. KernelTypeOK'
    BY <1>ReadLoop DEF ReadLoop, KernelTypeOK
  <2> QED
    BY <2>1, <2>2, <2>3 DEF DataTypeOK
<1>Recv. CASE Recv(t)
  <2>1. PoolTypeOK'
    BY <1>Recv DEF Recv, Work, ReadArg, PoolTypeOK
  <2>2. SocketTypeOK'
    <3>1. arg[t] \in Sockets /\ inbox[arg[t]] \in Nat
      BY <1>Recv DEF Recv, Work, ReadArg, KernelTypeOK
    <3>2. unpushed' \in [Threads -> Nat]
      <4> unpushed \in [Threads -> Nat]
        BY DEF SocketTypeOK
      <4>1. CASE inbox[arg[t]] > 0 /\ unpushed' = [unpushed EXCEPT ![t] = inbox[arg[t]] - 1]
        BY <3>1, <4>1
      <4>2. CASE UNCHANGED <<unpushed, tail>>
        BY <4>2
      <4> QED
        BY <1>Recv, <4>1, <4>2 DEF Recv
    <3>3. tail' \subseteq Threads
      BY <1>Recv DEF Recv, SocketTypeOK
    <3> QED
      BY <1>Recv, <3>2, <3>3 DEF Recv, SocketTypeOK
  <2>3. KernelTypeOK'
    BY <1>Recv DEF Recv, Work, ReadArg, KernelTypeOK
  <2> QED
    BY <2>1, <2>2, <2>3 DEF DataTypeOK
<1>Refuse. CASE Refuse(t)
  BY <1>Refuse
     DEF Refuse, CallClose, Standing, SlotTypeOK, PoolTypeOK, SocketTypeOK, KernelTypeOK
<1>Push. CASE Push(t)
  <2>1. PoolTypeOK'
    BY <1>Push DEF Push, PoolTypeOK
  <2>2. SocketTypeOK'
    <3>1. CASE arg' = Set(arg, t, socketfd[t]) /\ UNCHANGED <<tail, count>>
      BY <1>Push, <3>1 DEF Push, SocketTypeOK, PoolTypeOK
    <3>2. CASE unpushed[t] = 0 /\ t \notin tail
      BY <1>Push, <3>2 DEF Push, SocketTypeOK, PoolTypeOK
    <3>3. CASE unpushed[t] = 0 /\ t \in tail
      <4>1. count' \in [Threads -> Nat]
        BY <1>Push, <3>3 DEF Push, SocketTypeOK
      <4>2. tail' \subseteq Threads
        BY <1>Push, <3>3 DEF Push, SocketTypeOK
      <4>3. UNCHANGED <<got_it, wait_mx, close_mx, pending, ev, b, wait_amount,
                        loop_amount, events, arg, unpushed>>
        BY <1>Push, <3>3 DEF Push
      <4> QED
        BY <4>1, <4>2, <4>3 DEF SocketTypeOK
    <3> QED
      BY <1>Push, <3>1, <3>2, <3>3 DEF Push
  <2>3. KernelTypeOK'
    BY <1>Push DEF Push, KernelTypeOK
  <2> QED
    BY <2>1, <2>2, <2>3 DEF DataTypeOK
<1>PushPending. CASE PushPending(t)
  <2>0. Append(pending, arg[t]) \in Seq(Descriptors)
    BY DEF SocketTypeOK
  <2>1. PoolTypeOK'
    BY <1>PushPending, <2>0 DEF PushPending, Work, MessagesCounted, PoolTypeOK
  <2>2. SocketTypeOK'
    BY <1>PushPending, <2>0 DEF PushPending, Work, MessagesCounted, SocketTypeOK
  <2>3. KernelTypeOK'
    BY <1>PushPending, <2>0 DEF PushPending, Work, MessagesCounted, KernelTypeOK
  <2> QED
    BY <2>1, <2>2, <2>3 DEF DataTypeOK
<1>EpollOn. CASE EpollOn(t)
  <2>1. PoolTypeOK' /\ KernelTypeOK'
    BY <1>EpollOn DEF EpollOn, PoolTypeOK, KernelTypeOK
  <2>2. ev' \in Descriptors /\ close_mx' \in Actors \union {None}
    BY <1>EpollOn DEF EpollOn, PoolTypeOK, SocketTypeOK
  <2>3. SocketTypeOK'
    BY <1>EpollOn, <2>2 DEF EpollOn, SocketTypeOK
  <2> QED
    BY <2>1, <2>3 DEF DataTypeOK
<1>EpollOnCtl. CASE EpollOnCtl(t)
  BY <1>EpollOnCtl
     DEF EpollOnCtl, EpollMod, Standing, SlotTypeOK, PoolTypeOK, SocketTypeOK, KernelTypeOK
<1>Announce. CASE Announce(t)
  BY <1>Announce DEF Announce, Standing, SlotTypeOK, PoolTypeOK, SocketTypeOK, KernelTypeOK
<1>Announced. CASE Announced(t)
  <2>1. PoolTypeOK'
    BY <1>Announced DEF Announced, Work, MessagesCounted, PoolTypeOK, ControlTypeOK
  <2>2. SocketTypeOK'
    BY <1>Announced DEF Announced, Work, MessagesCounted, SocketTypeOK
  <2>3. KernelTypeOK'
    BY <1>Announced DEF Announced, Work, MessagesCounted, KernelTypeOK
  <2> QED
    BY <2>1, <2>2, <2>3 DEF DataTypeOK
<1>Done. CASE Done(t)
  BY <1>Done DEF Done, Standing, SlotTypeOK, PoolTypeOK, SocketTypeOK, KernelTypeOK
<1> QED
  BY <1>MsgRecv, <1>Park, <1>ParkStatus, <1>ParkRole, <1>Wait, <1>WaitRole, <1>WaitStatus,
     <1>WaitMx, <1>Woken, <1>Prefix, <1>ReadLoop, <1>Recv, <1>Refuse, <1>Push, <1>PushPending,
     <1>EpollOn, <1>EpollOnCtl, <1>Announce, <1>Announced, <1>Done
     DEF MsgRecvStep

LEMMA RecvEpollData ==
  ASSUME Typed, NEW t \in Threads, RecvEpollStep(t)
  PROVE DataTypeOK'
<1> USE ActorFacts
       DEF Typed, DataTypeOK, Descriptors, Statuses, Goto, Call, Return, Set, poolShape,
           epollLocals, socketVars, kernelVars
<1>RecvEpoll. CASE RecvEpoll(t)
  BY <1>RecvEpoll DEF RecvEpoll, Standing, SlotTypeOK, PoolTypeOK, SocketTypeOK, KernelTypeOK
<1>Scan. CASE Scan(t)
  <2>1. PoolTypeOK'
    BY <1>Scan, Ranges DEF Scan, PoolTypeOK
  <2>2. SocketTypeOK'
    <3>1. CASE b' = b /\ wait_amount' = wait_amount
      BY <1>Scan, Ranges, <3>1 DEF Scan, SocketTypeOK
    <3>2. CASE b < MaxThread /\ b' = b + 1 /\ wait_amount' \in {wait_amount, wait_amount + 1}
      BY <1>Scan, Ranges, <3>2, SMTT(60) DEF Scan, SocketTypeOK
    <3> QED
      BY <1>Scan, <3>1, <3>2 DEF Scan, SocketTypeOK
  <2>3. KernelTypeOK'
    BY <1>Scan, Ranges DEF Scan, KernelTypeOK
  <2> QED
    BY <2>1, <2>2, <2>3 DEF DataTypeOK
<1>Poll. CASE Poll(t)
  <2>1. PoolTypeOK'
    <3>1. sweep' \in [a : 0..MaxThread, amount : Nat]
      BY <1>Poll, Ranges, SocketAssumption DEF Poll, SocketTypeOK
    <3> QED
      BY <1>Poll, <3>1 DEF Poll, PoolTypeOK
  <2>2. SocketTypeOK'
    <3>1. CASE wait_amount <= 1
      BY <1>Poll, Ranges, SocketAssumption, <3>1 DEF Poll, SocketTypeOK
    <3>2. CASE wait_amount > 1 /\ loop_amount > resize_while_loop
      BY <1>Poll, Ranges, SocketAssumption, <3>2 DEF Poll, SocketTypeOK
    <3>3. CASE wait_amount > 1 /\ ~(loop_amount > resize_while_loop)
      BY <1>Poll, Ranges, SocketAssumption, <3>3 DEF Poll, SocketTypeOK
    <3> QED
      BY SocketAssumption, <3>1, <3>2, <3>3, SMTT(60) DEF SocketTypeOK
  <2>3. KernelTypeOK'
    BY <1>Poll, Ranges, SocketAssumption DEF Poll, KernelTypeOK
  <2> QED
    BY <2>1, <2>2, <2>3 DEF DataTypeOK
<1>EpollWait. CASE EpollWait(t)
  <2>0. events' \in Seq([fd : Descriptors, hup : BOOLEAN])
    BY <1>EpollWait, EventTypes DEF EpollWait
  <2>1. PoolTypeOK'
    BY <1>EpollWait, <2>0 DEF EpollWait, PoolTypeOK
  <2>2. SocketTypeOK'
    BY <1>EpollWait, <2>0 DEF EpollWait, SocketTypeOK
  <2>3. KernelTypeOK'
    BY <1>EpollWait, <2>0 DEF EpollWait, KernelTypeOK
  <2> QED
    BY <2>1, <2>2, <2>3 DEF DataTypeOK
<1>Events. CASE Events(t)
  <2>0. events # <<>> => /\ Head(events) \in [fd : Descriptors, hup : BOOLEAN]
                       /\ Tail(events) \in Seq([fd : Descriptors, hup : BOOLEAN])
    BY PopTypes DEF SocketTypeOK
  <2>1. PoolTypeOK'
    BY <1>Events, <2>0, Ranges DEF Events, PoolTypeOK
  <2>2. SocketTypeOK'
    <3>1. CASE events = <<>> /\ b = recv_thread
      BY <1>Events, <2>0, Ranges, <3>1 DEF Events, SocketTypeOK
    <3>2. CASE b' = 0 /\ wait_amount' = 0 /\ UNCHANGED <<events, arg>>
      BY <1>Events, <2>0, Ranges, <3>2 DEF Events, SocketTypeOK
    <3>3. CASE events # <<>> /\ Head(events).hup
      BY <1>Events, <2>0, Ranges, <3>3 DEF Events, SocketTypeOK
    <3>4. CASE events # <<>> /\ ~Head(events).hup
      BY <1>Events, <2>0, Ranges, <3>4 DEF Events, SocketTypeOK
    <3> QED
      BY <1>Events, <3>1, <3>2, <3>3, <3>4 DEF Events
  <2>3. KernelTypeOK'
    BY <1>Events, <2>0, Ranges DEF Events, KernelTypeOK
  <2> QED
    BY <2>1, <2>2, <2>3 DEF DataTypeOK
<1>Give. CASE Give(t)
  <2>1. PoolTypeOK'
    BY <1>Give, Ranges DEF Give, PoolTypeOK
  <2>2. SocketTypeOK'
    BY <1>Give, Ranges DEF Give, SocketTypeOK, SlotTypeOK, Standing
  <2>3. KernelTypeOK'
    BY <1>Give, Ranges DEF Give, KernelTypeOK
  <2> QED
    BY <2>1, <2>2, <2>3 DEF DataTypeOK
<1>GiveFd. CASE GiveFd(t)
  <2>0. events # <<>> => /\ Head(events) \in [fd : Descriptors, hup : BOOLEAN]
                       /\ Tail(events) \in Seq([fd : Descriptors, hup : BOOLEAN])
    BY PopTypes DEF SocketTypeOK
  <2>1. PoolTypeOK'
    BY <1>GiveFd, <2>0 DEF GiveFd, Work, EventAtHand, HandingOver, PoolTypeOK
  <2>2. SocketTypeOK'
    BY <1>GiveFd, <2>0 DEF GiveFd, Work, EventAtHand, HandingOver, SocketTypeOK
  <2>3. KernelTypeOK'
    BY <1>GiveFd, <2>0 DEF GiveFd, Work, EventAtHand, HandingOver, KernelTypeOK
  <2> QED
    BY <2>1, <2>2, <2>3 DEF DataTypeOK
<1>GiveStatus. CASE GiveStatus(t)
  BY <1>GiveStatus DEF GiveStatus, Standing, SlotTypeOK, PoolTypeOK, SocketTypeOK, KernelTypeOK
<1>GiveCtl. CASE GiveCtl(t)
  <2>0. events # <<>> => /\ Head(events) \in [fd : Descriptors, hup : BOOLEAN]
                       /\ Tail(events) \in Seq([fd : Descriptors, hup : BOOLEAN])
    BY PopTypes DEF SocketTypeOK
  <2>1. PoolTypeOK'
    BY <1>GiveCtl, <2>0 DEF GiveCtl, EpollMod, Work, EventAtHand, HandingOver, PoolTypeOK
  <2>2. SocketTypeOK'
    BY <1>GiveCtl, <2>0 DEF GiveCtl, EpollMod, Work, EventAtHand, HandingOver, SocketTypeOK
  <2>3. KernelTypeOK'
    BY <1>GiveCtl, <2>0 DEF GiveCtl, EpollMod, Work, EventAtHand, HandingOver, KernelTypeOK
  <2> QED
    BY <2>1, <2>2, <2>3 DEF DataTypeOK
<1>Acknowledge. CASE Acknowledge(t)
  BY <1>Acknowledge
     DEF Acknowledge, Standing, SlotTypeOK, PoolTypeOK, SocketTypeOK, KernelTypeOK
<1>Drop. CASE Drop(t)
  <2>0. events # <<>> => /\ Head(events) \in [fd : Descriptors, hup : BOOLEAN]
                       /\ Tail(events) \in Seq([fd : Descriptors, hup : BOOLEAN])
    BY PopTypes DEF SocketTypeOK
  <2>1. PoolTypeOK'
    BY <1>Drop, <2>0 DEF Drop, PoolTypeOK
  <2>2. SocketTypeOK'
    BY <1>Drop, <2>0 DEF Drop, SocketTypeOK
  <2>3. KernelTypeOK'
    BY <1>Drop, <2>0 DEF Drop, KernelTypeOK
  <2> QED
    BY <2>1, <2>2, <2>3 DEF DataTypeOK
<1>Leave. CASE Leave(t)
  <2>1. PoolTypeOK'
    BY <1>Leave, Ranges DEF Leave, NoSweep, PoolTypeOK
  <2>2. SocketTypeOK' /\ KernelTypeOK'
    BY <1>Leave DEF Leave, SocketTypeOK, KernelTypeOK
  <2> QED
    BY <2>1, <2>2 DEF DataTypeOK
<1>GiveUp. CASE GiveUp(t)
  <2>1. PoolTypeOK'
    BY <1>GiveUp, Ranges DEF GiveUp, PoolTypeOK
  <2>2. SocketTypeOK'
    BY <1>GiveUp, Ranges DEF GiveUp, SocketTypeOK
  <2>3. KernelTypeOK'
    BY <1>GiveUp, Ranges DEF GiveUp, KernelTypeOK
  <2> QED
    BY <2>1, <2>2, <2>3 DEF DataTypeOK
<1> QED
  BY <1>RecvEpoll, <1>Scan, <1>Poll, <1>EpollWait, <1>Events, <1>Give, <1>GiveFd, <1>GiveStatus,
     <1>GiveCtl, <1>Acknowledge, <1>Drop, <1>Leave, <1>GiveUp
     DEF RecvEpollStep

LEMMA UserData ==
  ASSUME Typed, NEW t \in Threads, UserStep(t)
  PROVE DataTypeOK'
<1> USE ActorFacts
       DEF Typed, DataTypeOK, Descriptors, Statuses, Goto, Call, Return, Set, poolShape,
           epollLocals, socketVars, kernelVars
<1>UserReturns. CASE UserReturns(t)
  BY <1>UserReturns
     DEF UserReturns, Standing, SlotTypeOK, PoolTypeOK, SocketTypeOK, KernelTypeOK
<1>WriteFails. CASE WriteFails(t)
  BY <1>WriteFails
     DEF WriteFails, CallClose, Standing, SlotTypeOK, PoolTypeOK, SocketTypeOK, KernelTypeOK
<1> QED
  BY <1>UserReturns, <1>WriteFails DEF UserStep

LEMMA AcceptData ==
  ASSUME Typed, AcceptStep \/ Accept \/ AcceptFails
  PROVE DataTypeOK'
<1> USE ActorFacts
       DEF Typed, DataTypeOK, Descriptors, Statuses, Goto, Call, Return, Set, poolShape,
           epollLocals, socketVars, kernelVars
<1>TurnDown. CASE TurnDown
  <2>1. PoolTypeOK'
    BY <1>TurnDown, CloseFdTypes DEF TurnDown, PoolTypeOK
  <2>2. SocketTypeOK'
    BY <1>TurnDown, CloseFdTypes DEF TurnDown, SocketTypeOK
  <2>3. KernelTypeOK'
    BY <1>TurnDown, CloseFdTypes DEF TurnDown, KernelTypeOK
  <2> QED
    BY <2>1, <2>2, <2>3 DEF DataTypeOK
<1>AnswerFails. CASE AnswerFails
  BY <1>AnswerFails
     DEF AnswerFails, Standing, SlotTypeOK, PoolTypeOK, SocketTypeOK, KernelTypeOK
<1>Upgrade. CASE Upgrade
  BY <1>Upgrade DEF Upgrade, Standing, SlotTypeOK, PoolTypeOK, SocketTypeOK, KernelTypeOK
<1>SetEvent. CASE SetEvent
  BY <1>SetEvent DEF SetEvent, Standing, SlotTypeOK, PoolTypeOK, SocketTypeOK, KernelTypeOK
<1>Register. CASE Register
  BY <1>Register DEF Register, Standing, SlotTypeOK, PoolTypeOK, SocketTypeOK, KernelTypeOK
<1>StartThread. CASE StartThread
  BY <1>StartThread
     DEF StartThread, Standing, SlotTypeOK, PoolTypeOK, SocketTypeOK, KernelTypeOK
<1>AcceptFails. CASE AcceptFails
  BY <1>AcceptFails DEF AcceptFails, PoolTypeOK, SocketTypeOK, KernelTypeOK
<1>Accept. CASE Accept
  <2>1. PoolTypeOK'
    BY <1>Accept, KernelAssumption DEF Accept, Accept4, PoolTypeOK
  <2>2. SocketTypeOK'
    BY <1>Accept, KernelAssumption DEF Accept, Accept4, SocketTypeOK
  <2>3. KernelTypeOK'
    BY <1>Accept, KernelAssumption DEF Accept, Accept4, KernelTypeOK
  <2> QED
    BY <2>1, <2>2, <2>3 DEF DataTypeOK
<1> QED
  BY <1>TurnDown, <1>AnswerFails, <1>Upgrade, <1>SetEvent, <1>Register, <1>StartThread,
     <1>Accept, <1>AcceptFails
     DEF AcceptStep

-----------------------------------------------------------------------------
(* Every step keeps Work. *)

(* The receiving thread alone resizes. *)
LEMMA OneResizer ==
  ASSUME RoleKnown, ResizeByReceiver, NEW x \in Actors, pc[x] \in ResizeLabels
  PROVE /\ x \in Threads /\ recv_thread = x
        /\ \A u \in Actors \ {x} : pc[u] \notin ResizeLabels
BY DEF RoleKnown, InRecv, ResizeByReceiver

LEMMA OneResizes ==
  ASSUME ControlTypeOK, Control, ResizeByReceiver, NEW x \in Actors, pc[x] \in ResizeLabels
  PROVE /\ x \in Threads /\ recv_thread = x
        /\ \A u \in Actors \ {x} : pc[u] \notin ResizeLabels
BY OneResizer DEF Control, RecvExclusive, RoleKnown

LEMMA Descr == \A d \in Descriptors : d # None => d \in Sockets
BY DEF Descriptors

LEMMA OneHandsOver ==
  ASSUME RoleKnown, NEW t \in Threads, InRecv(t)
  PROVE \A u \in Threads \ {t} : ~HandingOver(u)
BY DEF RoleKnown, InRecv, HandingOver, RecvLabels

LEMMA PoolWork ==
  ASSUME Typed, NEW x \in Actors, ThreadStep(x), UNCHANGED <<socketVars, kernelVars>>
  PROVE Work'
<1> USE ActorFacts
       DEF Goto, Call, Return, Set, poolShape, epollLocals, socketVars, Work, EventAtHand,
           HandingOver, ReadArg, MessagesCounted
<1>1. /\ DOMAIN pc = Actors /\ DOMAIN ret = Actors /\ SlotTypeOK
      /\ RoleKnown /\ EventAtHand /\ ReadArg /\ MessagesCounted
  BY DEF Typed, Work, Standing
<1>3. /\ arg \in [Actors -> Descriptors] /\ socketfd \in [Threads -> Descriptors]
      /\ unpushed \in [Threads -> Nat] /\ count \in [Threads -> Nat]
  BY DEF Typed, DataTypeOK, SocketTypeOK, PoolTypeOK
<1>4. ret[x] \notin {"recv", "push_pending", "give_fd", "give_status", "give_ctl"}
  BY LabelFacts DEF Typed, Standing, Callers
<1>GetThreadScan. CASE GetThreadScan(x)
  BY <1>GetThreadScan, <1>1, <1>3, <1>4 DEF GetThreadScan, SubLabels
<1>GetThreadOwn. CASE GetThreadOwn(x)
  BY <1>GetThreadOwn, <1>1, <1>3, <1>4 DEF GetThreadOwn, SubLabels
<1>GetThreadTake. CASE GetThreadTake(x)
  BY <1>GetThreadTake, <1>1, <1>3, <1>4 DEF GetThreadTake, SubLabels
<1>GetThreadMark. CASE GetThreadMark(x)
  BY <1>GetThreadMark, <1>1, <1>3, <1>4 DEF GetThreadMark, SubLabels
<1>AddThreadStart. CASE AddThreadStart(x)
  <2>1. UNCHANGED <<events, unpushed, count, arg>> /\ pc[x] \in SubLabels
    BY <1>AddThreadStart DEF AddThreadStart, SubLabels
  <2>2. CASE Return(x)
    BY <2>1, <2>2, <1>1, <1>4
  <2>3. ASSUME NEW a \in Threads, UNCHANGED ret,
               pc' = [pc EXCEPT ![x] = "add_store", ![a] = "msg_recv"]
        PROVE Work'
    BY <2>1, <2>3, <1>1
  <2> QED
    BY <1>AddThreadStart, <2>2, <2>3 DEF AddThreadStart
<1>AddThreadStore. CASE AddThreadStore(x)
  BY <1>AddThreadStore, <1>1, <1>3, <1>4 DEF AddThreadStore, SubLabels
<1>ResizeEnd. CASE ResizeEnd(x)
  BY <1>ResizeEnd, <1>1, <1>3, <1>4 DEF ResizeEnd, SubLabels
<1>ResizeLook. CASE ResizeLook(x)
  BY <1>ResizeLook, <1>1, <1>3, <1>4 DEF ResizeLook, SubLabels
<1>ResizeMark. CASE ResizeMark(x)
  BY <1>ResizeMark, <1>1, <1>3, <1>4 DEF ResizeMark, SubLabels
<1>ResizeJoin. CASE ResizeJoin(x)
  BY <1>ResizeJoin, <1>1, <1>3, <1>4 DEF ResizeJoin, SubLabels
<1>ResizeClear. CASE ResizeClear(x)
  BY <1>ResizeClear, <1>1, <1>3, <1>4 DEF ResizeClear, SubLabels
<1>ResizeFd. CASE ResizeFd(x)
  BY <1>ResizeFd, <1>1, <1>3, <1>4 DEF ResizeFd, SubLabels
<1> QED
  BY <1>GetThreadScan, <1>GetThreadOwn, <1>GetThreadTake, <1>GetThreadMark,
     <1>AddThreadStart, <1>AddThreadStore, <1>ResizeEnd, <1>ResizeLook, <1>ResizeMark,
     <1>ResizeJoin, <1>ResizeClear, <1>ResizeFd
     DEF ThreadStep

LEMMA CloseWork ==
  ASSUME Typed, NEW x \in Actors,
         CloseSocket(x) \/ CloseSweep(x) \/ CloseReset(x) \/ ClearPending(x)
  PROVE Work'
<1> USE ActorFacts
       DEF Goto, Call, Return, Set, poolShape, epollLocals, socketVars, Work, EventAtHand,
           HandingOver, ReadArg, MessagesCounted
<1>1. /\ DOMAIN pc = Actors /\ DOMAIN ret = Actors /\ SlotTypeOK
      /\ RoleKnown /\ EventAtHand /\ ReadArg /\ MessagesCounted
  BY DEF Typed, Work, Standing
<1>3. /\ arg \in [Actors -> Descriptors] /\ socketfd \in [Threads -> Descriptors]
      /\ unpushed \in [Threads -> Nat] /\ count \in [Threads -> Nat]
  BY DEF Typed, DataTypeOK, SocketTypeOK, PoolTypeOK
<1>4. ret[x] \notin {"recv", "push_pending", "give_fd", "give_status", "give_ctl"}
  BY LabelFacts DEF Typed, Standing, Callers
<1>CloseSocket. CASE CloseSocket(x)
  BY <1>CloseSocket, <1>1, <1>3, <1>4 DEF CloseSocket, SubLabels
<1>CloseSweep. CASE CloseSweep(x)
  BY <1>CloseSweep, <1>1, <1>3, <1>4 DEF CloseSweep, NextSwept, SubLabels
<1>CloseReset. CASE CloseReset(x)
  BY <1>CloseReset, <1>1, <1>3, <1>4 DEF CloseReset, NextSwept, SubLabels
<1>ClearPending. CASE ClearPending(x)
  <2>1. UNCHANGED <<events, unpushed, count>> /\ pc[x] \in SubLabels
    BY <1>ClearPending DEF ClearPending, SubLabels
  <2>2. CASE UNCHANGED <<pc, ret, arg>>
    BY <2>1, <2>2, <1>1
  <2>3. CASE arg' = Set(arg, x, None) /\ Return(x)
    BY <2>1, <2>3, <1>1, <1>3, <1>4
  <2> QED
    BY <1>ClearPending, <2>2, <2>3 DEF ClearPending
<1> QED
  BY <1>CloseSocket, <1>CloseSweep, <1>CloseReset, <1>ClearPending

LEMMA MsgRecvWork ==
  ASSUME Typed, NEW t \in Threads, MsgRecvStep(t)
  PROVE Work'
<1> USE ActorFacts
       DEF Goto, Call, Return, Set, poolShape, epollLocals, socketVars, Work, EventAtHand,
           HandingOver, ReadArg, MessagesCounted
<1>1. /\ DOMAIN pc = Actors /\ DOMAIN ret = Actors /\ SlotTypeOK
      /\ RoleKnown /\ EventAtHand /\ ReadArg /\ MessagesCounted
  BY DEF Typed, Work, Standing
<1>2. ret[t] = "none"
  <2>1. pc[t] \in Labels \ SubLabels
    BY LabelFacts
       DEF MsgRecvStep, MsgRecv, Park, ParkStatus, ParkRole, Wait, WaitRole, WaitStatus, WaitMx,
           Woken, Prefix, ReadLoop, Recv, Refuse, Push, PushPending, EpollOn, EpollOnCtl,
           Announce, Announced, Done, SubLabels
  <2> QED
    BY <2>1 DEF Typed, Standing
<1>3. /\ arg \in [Actors -> Descriptors] /\ socketfd \in [Threads -> Descriptors]
      /\ unpushed \in [Threads -> Nat] /\ count \in [Threads -> Nat]
  BY DEF Typed, DataTypeOK, SocketTypeOK, PoolTypeOK
<1>MsgRecv. CASE MsgRecv(t)
  BY <1>MsgRecv, <1>1, <1>2, <1>3 DEF MsgRecv, Pop, SubLabels
<1>Park. CASE Park(t)
  BY <1>Park, <1>1, <1>2, <1>3 DEF Park, SubLabels
<1>ParkStatus. CASE ParkStatus(t)
  BY <1>ParkStatus, <1>1, <1>2, <1>3 DEF ParkStatus, SubLabels
<1>ParkRole. CASE ParkRole(t)
  BY <1>ParkRole, <1>1, <1>2, <1>3 DEF ParkRole, SubLabels
<1>Wait. CASE Wait(t)
  BY <1>Wait, <1>1, <1>2, <1>3 DEF Wait, SubLabels
<1>WaitRole. CASE WaitRole(t)
  BY <1>WaitRole, <1>1, <1>2, <1>3 DEF WaitRole, SubLabels
<1>WaitStatus. CASE WaitStatus(t)
  BY <1>WaitStatus, <1>1, <1>2, <1>3 DEF WaitStatus, SubLabels
<1>WaitMx. CASE WaitMx(t)
  BY <1>WaitMx, <1>1, <1>2, <1>3 DEF WaitMx, SubLabels
<1>Woken. CASE Woken(t)
  BY <1>Woken, <1>1, <1>2, <1>3 DEF Woken, SubLabels
<1>Prefix. CASE Prefix(t)
  BY <1>Prefix, <1>1, <1>2, <1>3 DEF Prefix, Pop, SubLabels
<1>ReadLoop. CASE ReadLoop(t)
  BY <1>ReadLoop, <1>1, <1>2, <1>3, Descr DEF ReadLoop, SubLabels
<1>Recv. CASE Recv(t)
  BY <1>Recv, <1>1, <1>2, <1>3 DEF Recv, SubLabels
<1>Refuse. CASE Refuse(t)
  BY <1>Refuse, <1>1, <1>2, <1>3 DEF Refuse, CallClose, SubLabels
<1>Push. CASE Push(t)
  BY <1>Push, <1>1, <1>2, <1>3 DEF Push, SubLabels
<1>PushPending. CASE PushPending(t)
  <2>1. EventAtHand'
    BY <1>PushPending, <1>1, <1>2, <1>3 DEF PushPending, SubLabels
  <2>2. ReadArg'
    BY <1>PushPending, <1>1, <1>2, <1>3 DEF PushPending
  <2>3. MessagesCounted'
    BY <1>PushPending, <1>1, <1>2, <1>3 DEF PushPending, SubLabels
  <2> QED
    BY <2>1, <2>2, <2>3
<1>EpollOn. CASE EpollOn(t)
  BY <1>EpollOn, <1>1, <1>2, <1>3 DEF EpollOn, SubLabels
<1>EpollOnCtl. CASE EpollOnCtl(t)
  BY <1>EpollOnCtl, <1>1, <1>2, <1>3 DEF EpollOnCtl, SubLabels
<1>Announce. CASE Announce(t)
  BY <1>Announce, <1>1, <1>2, <1>3 DEF Announce, SubLabels
<1>Announced. CASE Announced(t)
  <2>1. EventAtHand'
    BY <1>Announced, <1>1, <1>2, <1>3 DEF Announced, SubLabels
  <2>2. ReadArg'
    BY <1>Announced, <1>1, <1>2, <1>3 DEF Announced
  <2>3. MessagesCounted'
    BY <1>Announced, <1>1, <1>2, <1>3 DEF Announced, SubLabels
  <2> QED
    BY <2>1, <2>2, <2>3
<1>Done. CASE Done(t)
  BY <1>Done, <1>1, <1>2, <1>3 DEF Done, SubLabels
<1> QED
  BY <1>MsgRecv, <1>Park, <1>ParkStatus, <1>ParkRole, <1>Wait, <1>WaitRole, <1>WaitStatus,
     <1>WaitMx, <1>Woken, <1>Prefix, <1>ReadLoop, <1>Recv, <1>Refuse, <1>Push, <1>PushPending,
     <1>EpollOn, <1>EpollOnCtl, <1>Announce, <1>Announced, <1>Done
     DEF MsgRecvStep

LEMMA RecvEpollWork ==
  ASSUME Typed, NEW t \in Threads, RecvEpollStep(t)
  PROVE Work'
<1> USE ActorFacts
       DEF Goto, Call, Return, Set, poolShape, epollLocals, socketVars, Work, EventAtHand,
           HandingOver, ReadArg, MessagesCounted
<1>1. /\ DOMAIN pc = Actors /\ DOMAIN ret = Actors /\ SlotTypeOK
      /\ RoleKnown /\ EventAtHand /\ ReadArg /\ MessagesCounted
  BY DEF Typed, Work, Standing
<1>2. ret[t] = "none"
  <2>1. pc[t] \in Labels \ SubLabels
    BY LabelFacts
       DEF RecvEpollStep, RecvEpoll, Scan, Poll, EpollWait, Events, Give, GiveFd, GiveStatus,
           GiveCtl, Acknowledge, Drop, Leave, GiveUp, SubLabels
  <2> QED
    BY <2>1 DEF Typed, Standing
<1>3. /\ arg \in [Actors -> Descriptors] /\ socketfd \in [Threads -> Descriptors]
      /\ unpushed \in [Threads -> Nat] /\ count \in [Threads -> Nat]
  BY DEF Typed, DataTypeOK, SocketTypeOK, PoolTypeOK
<1>RecvEpoll. CASE RecvEpoll(t)
  BY <1>RecvEpoll, <1>1, <1>2, <1>3 DEF RecvEpoll, SubLabels
<1>Scan. CASE Scan(t)
  BY <1>Scan, <1>1, <1>2, <1>3 DEF Scan, SubLabels
<1>Poll. CASE Poll(t)
  BY <1>Poll, <1>1, <1>2, <1>3 DEF Poll, SubLabels
<1>EpollWait. CASE EpollWait(t)
  <2>1. InRecv(t)
    BY <1>EpollWait DEF EpollWait, InRecv, RecvLabels
  <2>2. \A u \in Threads \ {t} : ~HandingOver(u)
    BY <2>1, <1>1, OneHandsOver
  <2> QED
    BY <1>EpollWait, <2>2, <1>1, <1>2, <1>3 DEF EpollWait, SubLabels
<1>Events. CASE Events(t)
  <2>1. InRecv(t)
    BY <1>Events DEF Events, InRecv, RecvLabels
  <2>2. \A u \in Threads \ {t} : ~HandingOver(u)
    BY <2>1, <1>1, OneHandsOver
  <2> QED
    <3>1. EventAtHand'
      BY <1>Events, <2>2, <1>1, <1>2, <1>3 DEF Events, SubLabels
    <3>2. ReadArg'
      BY <1>Events, <1>1, <1>2, <1>3 DEF Events, SubLabels
    <3>3. MessagesCounted'
      BY <1>Events, <1>1, <1>2, <1>3 DEF Events, SubLabels
    <3> QED
      BY <3>1, <3>2, <3>3
<1>Give. CASE Give(t)
  BY <1>Give, <1>1, <1>2, <1>3 DEF Give, SubLabels
<1>GiveFd. CASE GiveFd(t)
  BY <1>GiveFd, <1>1, <1>2, <1>3 DEF GiveFd, SubLabels
<1>GiveStatus. CASE GiveStatus(t)
  BY <1>GiveStatus, <1>1, <1>2, <1>3 DEF GiveStatus, SubLabels
<1>GiveCtl. CASE GiveCtl(t)
  <2>1. InRecv(t)
    BY <1>GiveCtl DEF GiveCtl, InRecv, RecvLabels
  <2>2. \A u \in Threads \ {t} : ~HandingOver(u)
    BY <2>1, <1>1, OneHandsOver
  <2> QED
    BY <1>GiveCtl, <2>2, <1>1, <1>2, <1>3 DEF GiveCtl, SubLabels
<1>Acknowledge. CASE Acknowledge(t)
  BY <1>Acknowledge, <1>1, <1>2, <1>3 DEF Acknowledge, SubLabels
<1>Drop. CASE Drop(t)
  <2>1. InRecv(t)
    BY <1>Drop DEF Drop, InRecv, RecvLabels
  <2>2. \A u \in Threads \ {t} : ~HandingOver(u)
    BY <2>1, <1>1, OneHandsOver
  <2> QED
    <3>1. EventAtHand'
      BY <1>Drop, <2>2, <1>1, <1>2, <1>3 DEF Drop, SubLabels
    <3>2. ReadArg'
      BY <1>Drop, <1>1, <1>2, <1>3 DEF Drop, SubLabels
    <3>3. MessagesCounted'
      BY <1>Drop, <1>1, <1>2, <1>3 DEF Drop, SubLabels
    <3> QED
      BY <3>1, <3>2, <3>3
<1>Leave. CASE Leave(t)
  BY <1>Leave, <1>1, <1>2, <1>3 DEF Leave, SubLabels
<1>GiveUp. CASE GiveUp(t)
  BY <1>GiveUp, <1>1, <1>2, <1>3 DEF GiveUp, SubLabels
<1> QED
  BY <1>RecvEpoll, <1>Scan, <1>Poll, <1>EpollWait, <1>Events, <1>Give, <1>GiveFd, <1>GiveStatus,
     <1>GiveCtl, <1>Acknowledge, <1>Drop, <1>Leave, <1>GiveUp
     DEF RecvEpollStep

LEMMA UserWork ==
  ASSUME Typed, NEW t \in Threads, UserStep(t)
  PROVE Work'
<1> USE ActorFacts
       DEF Goto, Call, Return, Set, poolShape, epollLocals, socketVars, Work, EventAtHand,
           HandingOver, ReadArg, MessagesCounted
<1>1. /\ DOMAIN pc = Actors /\ DOMAIN ret = Actors /\ SlotTypeOK
      /\ RoleKnown /\ EventAtHand /\ ReadArg /\ MessagesCounted
  BY DEF Typed, Work, Standing
<1>3. /\ arg \in [Actors -> Descriptors] /\ socketfd \in [Threads -> Descriptors]
      /\ unpushed \in [Threads -> Nat] /\ count \in [Threads -> Nat]
  BY DEF Typed, DataTypeOK, SocketTypeOK, PoolTypeOK
<1>UserReturns. CASE UserReturns(t)
  BY <1>UserReturns, <1>1, <1>3 DEF UserReturns, SubLabels
<1>WriteFails. CASE WriteFails(t)
  BY <1>WriteFails, <1>1, <1>3 DEF WriteFails, CallClose, SubLabels
<1> QED
  BY <1>UserReturns, <1>WriteFails DEF UserStep

LEMMA AcceptWork ==
  ASSUME Typed, AcceptStep \/ Accept \/ AcceptFails
  PROVE Work'
<1> USE ActorFacts
       DEF Goto, Call, Return, Set, poolShape, epollLocals, socketVars, Work, EventAtHand,
           HandingOver, ReadArg, MessagesCounted
<1>1. /\ DOMAIN pc = Actors /\ DOMAIN ret = Actors /\ SlotTypeOK
      /\ RoleKnown /\ EventAtHand /\ ReadArg /\ MessagesCounted
  BY DEF Typed, Work, Standing
<1>3. /\ arg \in [Actors -> Descriptors] /\ socketfd \in [Threads -> Descriptors]
      /\ unpushed \in [Threads -> Nat] /\ count \in [Threads -> Nat]
  BY DEF Typed, DataTypeOK, SocketTypeOK, PoolTypeOK
<1>TurnDown. CASE TurnDown
  BY <1>TurnDown, <1>1, <1>3 DEF TurnDown, SubLabels
<1>AnswerFails. CASE AnswerFails
  BY <1>AnswerFails, <1>1, <1>3 DEF AnswerFails, SubLabels
<1>Upgrade. CASE Upgrade
  BY <1>Upgrade, <1>1, <1>3 DEF Upgrade, SubLabels
<1>SetEvent. CASE SetEvent
  BY <1>SetEvent, <1>1, <1>3 DEF SetEvent, SubLabels
<1>Register. CASE Register
  BY <1>Register, <1>1, <1>3 DEF Register, SubLabels
<1>StartThread. CASE StartThread
  BY <1>StartThread, <1>1, <1>3 DEF StartThread, SubLabels
<1>Accept. CASE Accept
  BY <1>Accept, <1>1, <1>3 DEF Accept, SubLabels
<1>AcceptFails. CASE AcceptFails
  BY <1>AcceptFails, <1>1, <1>3 DEF AcceptFails, SubLabels
<1> QED
  BY <1>TurnDown, <1>AnswerFails, <1>Upgrade, <1>SetEvent, <1>Register, <1>StartThread,
     <1>Accept, <1>AcceptFails
     DEF AcceptStep

-----------------------------------------------------------------------------
(* Every step keeps Sweeping. *)

(* Only x moves, it is not in resize after the step, and the locals of     *)
(* resize stay.                                                            *)
Elsewhere(x) ==
  /\ sweep' = sweep
  /\ pc'[x] \notin ResizeLabels
  /\ \A y \in Actors \ {x} :
       pc'[y] \in ResizeLabels => pc'[y] = pc[y] /\ ret'[y] = ret[y]

LEMMA ElsewhereKeepsSweeping ==
  ASSUME Sweeping, NEW x \in Actors, Elsewhere(x)
  PROVE Sweeping'
BY ActorFacts DEF Sweeping, ResizeByReceiver, SweepInRange, Elsewhere, ResizeLabels

LEMMA PoolElsewhere ==
  ASSUME Standing, NEW x \in Actors, 
    \/ GetThreadScan(x) \/ GetThreadOwn(x) \/ GetThreadTake(x) \/ GetThreadMark(x)
    \/ AddThreadStart(x) \/ AddThreadStore(x)
  PROVE Elsewhere(x)
<1> USE ActorFacts
       DEF Standing, SlotTypeOK, Elsewhere, ResizeLabels, Goto, Call, Return, Set, poolShape
<1>1. ret[x] \notin ResizeLabels
  BY LabelFacts DEF Standing, Callers, ResizeLabels
<1>GetThreadScan. CASE GetThreadScan(x)
  BY <1>GetThreadScan, <1>1 DEF GetThreadScan
<1>GetThreadMark. CASE GetThreadMark(x)
  BY <1>GetThreadMark, <1>1 DEF GetThreadMark
<1>GetThreadOwn. CASE GetThreadOwn(x)
  BY <1>GetThreadOwn, <1>1 DEF GetThreadOwn
<1>GetThreadTake. CASE GetThreadTake(x)
  BY <1>GetThreadTake, <1>1 DEF GetThreadTake
<1>AddThreadStart. CASE AddThreadStart(x)
  <2>1. CASE Return(x) /\ UNCHANGED <<thread_mx, slot>>
    BY <1>AddThreadStart, <1>1, <2>1 DEF AddThreadStart
  <2>2. ASSUME NEW a \in Threads, ret' = ret,
               pc' = [pc EXCEPT ![x] = "add_store", ![a] = "msg_recv"]
        PROVE  Elsewhere(x)
    BY <1>AddThreadStart, <2>2 DEF AddThreadStart
  <2> QED
    BY <1>AddThreadStart, <2>1, <2>2, Zenon DEF AddThreadStart
<1>AddThreadStore. CASE AddThreadStore(x)
  BY <1>AddThreadStore, <1>1 DEF AddThreadStore
<1> QED
  BY <1>GetThreadScan, <1>GetThreadOwn, <1>GetThreadTake, <1>GetThreadMark,
     <1>AddThreadStart, <1>AddThreadStore

LEMMA CloseElsewhere ==
  ASSUME Standing, NEW x \in Actors, 
    \/ CloseSocket(x) \/ CloseSweep(x) \/ CloseReset(x) \/ ClearPending(x)
  PROVE Elsewhere(x)
<1> USE ActorFacts
       DEF Standing, SlotTypeOK, Elsewhere, ResizeLabels, Goto, Call, Return, Set, poolShape
<1>1. ret[x] \notin ResizeLabels
  BY LabelFacts DEF Standing, Callers, ResizeLabels
<1>CloseSocket. CASE CloseSocket(x)
  BY <1>CloseSocket, <1>1 DEF CloseSocket
<1>CloseSweep. CASE CloseSweep(x)
  BY <1>CloseSweep, <1>1 DEF CloseSweep, NextSwept
<1>CloseReset. CASE CloseReset(x)
  BY <1>CloseReset, <1>1 DEF CloseReset, NextSwept
<1>ClearPending. CASE ClearPending(x)
  BY <1>ClearPending, <1>1 DEF ClearPending
<1> QED
  BY <1>CloseSocket, <1>CloseSweep, <1>CloseReset, <1>ClearPending

LEMMA MsgRecvElsewhere ==
  ASSUME Standing, NEW t \in Threads, 
    \/ MsgRecv(t) \/ Park(t) \/ ParkStatus(t) \/ ParkRole(t) \/ Wait(t)
    \/ WaitRole(t) \/ WaitStatus(t) \/ WaitMx(t) \/ Woken(t) \/ Prefix(t)
    \/ ReadLoop(t) \/ Recv(t) \/ Refuse(t) \/ Push(t) \/ PushPending(t)
    \/ EpollOn(t) \/ EpollOnCtl(t) \/ Announce(t) \/ Announced(t) \/ Done(t)
  PROVE Elsewhere(t)
<1> USE ActorFacts
       DEF Standing, SlotTypeOK, Elsewhere, ResizeLabels, Goto, Call, Return, Set, poolShape
<1>MsgRecv. CASE MsgRecv(t)
  BY <1>MsgRecv DEF MsgRecv
<1>Park. CASE Park(t)
  BY <1>Park DEF Park
<1>ParkStatus. CASE ParkStatus(t)
  BY <1>ParkStatus DEF ParkStatus
<1>ParkRole. CASE ParkRole(t)
  BY <1>ParkRole DEF ParkRole
<1>Wait. CASE Wait(t)
  BY <1>Wait DEF Wait
<1>WaitRole. CASE WaitRole(t)
  BY <1>WaitRole DEF WaitRole
<1>WaitStatus. CASE WaitStatus(t)
  BY <1>WaitStatus DEF WaitStatus
<1>WaitMx. CASE WaitMx(t)
  BY <1>WaitMx DEF WaitMx
<1>Woken. CASE Woken(t)
  BY <1>Woken DEF Woken
<1>Prefix. CASE Prefix(t)
  BY <1>Prefix DEF Prefix
<1>ReadLoop. CASE ReadLoop(t)
  BY <1>ReadLoop DEF ReadLoop
<1>Recv. CASE Recv(t)
  BY <1>Recv DEF Recv
<1>Refuse. CASE Refuse(t)
  BY <1>Refuse DEF Refuse, CallClose
<1>Push. CASE Push(t)
  BY <1>Push DEF Push
<1>PushPending. CASE PushPending(t)
  BY <1>PushPending DEF PushPending
<1>EpollOn. CASE EpollOn(t)
  BY <1>EpollOn DEF EpollOn
<1>EpollOnCtl. CASE EpollOnCtl(t)
  BY <1>EpollOnCtl DEF EpollOnCtl
<1>Announce. CASE Announce(t)
  BY <1>Announce DEF Announce
<1>Announced. CASE Announced(t)
  BY <1>Announced DEF Announced
<1>Done. CASE Done(t)
  BY <1>Done DEF Done
<1> QED
  BY <1>MsgRecv, <1>Park, <1>ParkStatus, <1>ParkRole, <1>Wait, <1>WaitRole, <1>WaitStatus,
     <1>WaitMx, <1>Woken, <1>Prefix, <1>ReadLoop, <1>Recv, <1>Refuse, <1>Push, <1>PushPending,
     <1>EpollOn, <1>EpollOnCtl, <1>Announce, <1>Announced, <1>Done

LEMMA RecvEpollElsewhere ==
  ASSUME Standing, NEW t \in Threads, 
    \/ RecvEpoll(t) \/ Scan(t) \/ EpollWait(t) \/ Events(t) \/ Give(t)
    \/ GiveFd(t) \/ GiveStatus(t) \/ GiveCtl(t) \/ Acknowledge(t) \/ Drop(t)
    \/ GiveUp(t)
  PROVE Elsewhere(t)
<1> USE ActorFacts
       DEF Standing, SlotTypeOK, Elsewhere, ResizeLabels, Goto, Call, Return, Set, poolShape
<1>RecvEpoll. CASE RecvEpoll(t)
  BY <1>RecvEpoll DEF RecvEpoll
<1>Scan. CASE Scan(t)
  BY <1>Scan DEF Scan
<1>EpollWait. CASE EpollWait(t)
  BY <1>EpollWait DEF EpollWait
<1>Events. CASE Events(t)
  BY <1>Events DEF Events
<1>Give. CASE Give(t)
  BY <1>Give DEF Give
<1>GiveFd. CASE GiveFd(t)
  BY <1>GiveFd DEF GiveFd
<1>GiveStatus. CASE GiveStatus(t)
  BY <1>GiveStatus DEF GiveStatus
<1>GiveCtl. CASE GiveCtl(t)
  BY <1>GiveCtl DEF GiveCtl
<1>Acknowledge. CASE Acknowledge(t)
  BY <1>Acknowledge DEF Acknowledge
<1>Drop. CASE Drop(t)
  BY <1>Drop DEF Drop
<1>GiveUp. CASE GiveUp(t)
  BY <1>GiveUp DEF GiveUp
<1> QED
  BY <1>RecvEpoll, <1>Scan, <1>EpollWait, <1>Events, <1>Give, <1>GiveFd, <1>GiveStatus,
     <1>GiveCtl, <1>Acknowledge, <1>Drop, <1>GiveUp

LEMMA UserElsewhere ==
  ASSUME Standing, NEW t \in Threads, 
    \/ UserReturns(t) \/ WriteFails(t)
  PROVE Elsewhere(t)
<1> USE ActorFacts
       DEF Standing, SlotTypeOK, Elsewhere, ResizeLabels, Goto, Call, Return, Set, poolShape
<1>UserReturns. CASE UserReturns(t)
  BY <1>UserReturns DEF UserReturns
<1>WriteFails. CASE WriteFails(t)
  BY <1>WriteFails DEF WriteFails, CallClose
<1> QED
  BY <1>UserReturns, <1>WriteFails

LEMMA AcceptElsewhere ==
  ASSUME Standing, 
    \/ TurnDown \/ AnswerFails \/ Upgrade \/ SetEvent \/ Register
    \/ StartThread \/ Accept \/ AcceptFails
  PROVE Elsewhere(Acceptor)
<1> USE ActorFacts
       DEF Standing, SlotTypeOK, Elsewhere, ResizeLabels, Goto, Call, Return, Set, poolShape,
           socketVars
<1>TurnDown. CASE TurnDown
  BY <1>TurnDown DEF TurnDown
<1>AnswerFails. CASE AnswerFails
  BY <1>AnswerFails DEF AnswerFails
<1>Upgrade. CASE Upgrade
  BY <1>Upgrade DEF Upgrade
<1>SetEvent. CASE SetEvent
  BY <1>SetEvent DEF SetEvent
<1>Register. CASE Register
  BY <1>Register DEF Register
<1>StartThread. CASE StartThread
  BY <1>StartThread DEF StartThread
<1>Accept. CASE Accept
  BY <1>Accept DEF Accept
<1>AcceptFails. CASE AcceptFails
  BY <1>AcceptFails DEF AcceptFails
<1> QED
  BY <1>TurnDown, <1>AnswerFails, <1>Upgrade, <1>SetEvent, <1>Register, <1>StartThread,
     <1>Accept, <1>AcceptFails

LEMMA ResizeKeepsSweeping ==
  ASSUME Typed, NEW x \in Actors,
    \/ ResizeEnd(x) \/ ResizeLook(x) \/ ResizeMark(x) \/ ResizeJoin(x) \/ ResizeClear(x)
    \/ ResizeFd(x)
  PROVE Sweeping'
<1>1. pc[x] \in ResizeLabels
  BY DEF ResizeEnd, ResizeLook, ResizeMark, ResizeJoin, ResizeClear, ResizeFd, ResizeLabels
<1>2. Standing /\ SlotTypeOK /\ RoleKnown /\ Sweeping /\ ResizeByReceiver /\ SweepInRange
  BY DEF Typed, Standing, Sweeping
<1>3. x \in Threads /\ ret[x] \in RecvLabels /\ \A u \in Actors \ {x} : pc[u] \notin ResizeLabels
  BY <1>1, <1>2, OneResizer DEF ResizeByReceiver
<1>4. ret[x] \notin ResizeLabels
  BY <1>2, LabelFacts DEF Standing, Callers, ResizeLabels
<1>5. \A u \in Actors \ {x} : pc'[u] \notin ResizeLabels
  BY <1>2, <1>3
     DEF Standing, ResizeEnd, ResizeLook, ResizeMark, ResizeJoin, ResizeClear, ResizeFd, Goto, Return,
         ResizeLabels
<1>6. pc'[x] \in ResizeLabels => ret'[x] \in RecvLabels
  BY <1>2, <1>3, <1>4
     DEF Standing, ResizeEnd, ResizeLook, ResizeMark, ResizeJoin, ResizeClear, ResizeFd, Goto, Return
<1>7. /\ pc'[x] \in ResizeLabels \ {"resize"} => sweep'.a < MaxThread /\ sweep'.a # x
      /\ pc'[x] = "resize_mark" => sweep'.amount > 0
  <2>1. recv_thread = x /\ pc = [y \in Actors |-> pc[y]]
    BY <1>1, <1>2, OneResizer DEF Standing
  <2>2. CASE ResizeEnd(x)
    BY <1>4, <2>1, <2>2 DEF ResizeEnd, Goto, Return, ResizeLabels
  <2>3. CASE ResizeLook(x)
    BY <2>1, <2>3 DEF ResizeLook, Goto, ResizeLabels
  <2>4. CASE ResizeMark(x) \/ ResizeFd(x)
    BY <2>1, <2>4 DEF ResizeMark, ResizeFd, Goto, ResizeLabels
  <2>5. CASE ResizeJoin(x)
    <3>1. pc[x] = "resize_join" /\ pc' = [pc EXCEPT ![x] = "resize_clear", ![sweep.a] = "off"]
          /\ sweep' = sweep
      BY <2>5 DEF ResizeJoin
    <3>2. sweep.a < MaxThread /\ sweep.a # x
      BY <1>2, <1>3, <3>1 DEF SweepInRange, ResizeLabels
    <3> QED
      BY <2>1, <3>1, <3>2
  <2>6. CASE ResizeClear(x)
    <3>1. pc[x] = "resize_clear" /\ pc'[x] = "resize_fd" /\ sweep' = sweep
      BY <2>1, <2>6 DEF ResizeClear, Goto
    <3>2. sweep.a < MaxThread /\ sweep.a # x
      BY <1>2, <1>3, <3>1 DEF SweepInRange, ResizeLabels
    <3> QED
      BY <3>1, <3>2
  <2> QED
    BY <2>2, <2>3, <2>4, <2>5, <2>6
<1> QED
  BY <1>3, <1>5, <1>6, <1>7, ActorFacts
     DEF Sweeping, ResizeByReceiver, SweepInRange, ResizeLabels

LEMMA CallResizeKeepsSweeping ==
  ASSUME Typed, NEW t \in Threads, Poll(t) \/ Leave(t)
  PROVE Sweeping'
<1>1. Standing /\ SlotTypeOK /\ RoleKnown /\ ResizeByReceiver
  BY DEF Typed, Standing, Sweeping
<1>2. InRecv(t)
  BY DEF Poll, Leave, InRecv, RecvLabels
<1>3. \A u \in Actors \ {t} : pc[u] \notin ResizeLabels
  BY <1>1, <1>2 DEF RoleKnown, InRecv, ResizeByReceiver
<1>4. \A u \in Actors \ {t} : pc'[u] \notin ResizeLabels
  BY <1>1, <1>3 DEF Poll, Leave, Call, Goto, Standing
<1>5. pc'[t] = "resize" /\ ret'[t] \in RecvLabels
  BY <1>1, ActorFacts DEF Poll, Leave, Call, Goto, Standing, RecvLabels
<1> QED
  BY <1>4, <1>5, ActorFacts DEF Sweeping, ResizeByReceiver, SweepInRange, ResizeLabels

LEMMA ThreadStepKeepsSweeping ==
  ASSUME Typed, NEW x \in Actors, ThreadStep(x)
  PROVE Sweeping'
<1>1. Standing /\ Sweeping
  BY DEF Typed
<1>2. CASE \/ ResizeEnd(x) \/ ResizeLook(x) \/ ResizeMark(x) \/ ResizeJoin(x)
           \/ ResizeClear(x) \/ ResizeFd(x)
  BY <1>2, ResizeKeepsSweeping
<1>3. CASE \/ GetThreadScan(x) \/ GetThreadOwn(x) \/ GetThreadTake(x) \/ GetThreadMark(x)
           \/ AddThreadStart(x) \/ AddThreadStore(x)
  BY <1>1, <1>3, PoolElsewhere, ElsewhereKeepsSweeping
<1> QED
  BY <1>2, <1>3 DEF ThreadStep

LEMMA RecvEpollKeepsSweeping ==
  ASSUME Typed, NEW t \in Threads, RecvEpollStep(t)
  PROVE Sweeping'
<1>1. Standing /\ Sweeping
  BY DEF Typed
<1>2. CASE Poll(t) \/ Leave(t)
  BY <1>2, CallResizeKeepsSweeping
<1>3. CASE ~(Poll(t) \/ Leave(t))
  <2>1. Elsewhere(t)
    BY <1>1, <1>3, RecvEpollElsewhere DEF RecvEpollStep
  <2> QED
    BY <1>1, <2>1, ActorFacts, ElsewhereKeepsSweeping
<1> QED
  BY <1>2, <1>3

LEMMA NextKeepsSweeping ==
  ASSUME Typed, Next
  PROVE Sweeping'
<1>1. Standing /\ Sweeping
  BY DEF Typed
<1>2. ASSUME NEW x \in Actors, ServerStep(x)
      PROVE Sweeping'
  BY <1>1, <1>2, ThreadStepKeepsSweeping, CloseElsewhere, ElsewhereKeepsSweeping
     DEF ServerStep, PoolStep
<1>3. ASSUME NEW t \in Threads, MsgRecvStep(t) \/ UserStep(t)
      PROVE Sweeping'
  <2>1. Elsewhere(t)
    BY <1>1, <1>3, MsgRecvElsewhere, UserElsewhere DEF MsgRecvStep, UserStep
  <2> QED
    BY <1>1, <2>1, ActorFacts, ElsewhereKeepsSweeping
<1>4. ASSUME AcceptStep \/ Accept \/ AcceptFails
      PROVE Sweeping'
  <2>1. Elsewhere(Acceptor)
    BY <1>1, <1>4, AcceptElsewhere DEF AcceptStep
  <2> QED
    BY <1>1, <2>1, ActorFacts, ElsewhereKeepsSweeping
<1>5. ASSUME ClientStep
      PROVE Sweeping'
  BY <1>1, <1>5 DEF ClientStep, threadVars, Sweeping, ResizeByReceiver, SweepInRange
<1> QED
  BY <1>2, <1>3, <1>4, <1>5, ActorFacts, RecvEpollKeepsSweeping
     DEF Next, ThreadRuns, AcceptorRuns

-----------------------------------------------------------------------------
LEMMA ServerStepTyped ==
  ASSUME Typed, NEW x \in Actors, ServerStep(x)
  PROVE DataTypeOK' /\ Work'
BY PoolData, PoolWork, CloseData, CloseWork DEF ServerStep, PoolStep

LEMMA ClientTyped ==
  ASSUME Typed, ClientStep
  PROVE DataTypeOK' /\ Work'
<1>1. Work' /\ PoolTypeOK' /\ SocketTypeOK'
  BY DEF ClientStep, threadVars, socketVars, Typed, Work, EventAtHand, HandingOver, ReadArg,
         MessagesCounted, DataTypeOK, PoolTypeOK, SocketTypeOK
<1>2. KernelTypeOK'
  <2>1. PICK s \in Sockets : PeerSends(s) \/ PeerFinishes(s) \/ PeerResets(s)
    BY DEF ClientStep, PeerStep
  <2>2. KernelTypeOK
    BY DEF Typed, DataTypeOK
  <2>3. CASE PeerSends(s)
    BY <2>2, <2>3, KernelAssumption DEF PeerSends, KernelTypeOK
  <2>4. CASE PeerFinishes(s) \/ PeerResets(s)
    BY <2>2, <2>4 DEF PeerFinishes, PeerResets, KernelTypeOK
  <2> QED
    BY <2>1, <2>3, <2>4
<1> QED
  BY <1>1, <1>2 DEF DataTypeOK

LEMMA NextKeepsTyped ==
  ASSUME Typed, [Next]_vars
  PROVE DataTypeOK' /\ Work' /\ Sweeping'
<1>1. ASSUME NEW t \in Threads, ThreadRuns(t) \/ UserStep(t)
      PROVE DataTypeOK' /\ Work'
  BY <1>1, ActorFacts, ServerStepTyped, MsgRecvData, MsgRecvWork, RecvEpollData, RecvEpollWork,
     UserData, UserWork
     DEF ThreadRuns
<1>2. ASSUME AcceptorRuns \/ Accept \/ AcceptFails
      PROVE DataTypeOK' /\ Work'
  BY <1>2, ActorFacts, ServerStepTyped, AcceptData, AcceptWork DEF AcceptorRuns
<1>3. ASSUME UNCHANGED vars
      PROVE DataTypeOK' /\ Work'
  BY <1>3
     DEF vars, threadVars, socketVars, kernelVars, Typed, Work, EventAtHand, HandingOver,
         ReadArg, MessagesCounted, DataTypeOK, PoolTypeOK, SocketTypeOK, KernelTypeOK
<1>4. DataTypeOK' /\ Work'
  BY <1>1, <1>2, <1>3, ClientTyped DEF Next
<1>5. ASSUME UNCHANGED vars
      PROVE Sweeping'
  BY <1>5 DEF vars, threadVars, Typed, Sweeping, ResizeByReceiver, SweepInRange
<1> QED
  BY <1>4, <1>5, NextKeepsSweeping

(* ws_server *)

LEMMA TInvTyped ==
  ASSUME TInv
  PROVE Typed
<1>1. Standing
  BY BaseControl, BaseExtension, ControlStands DEF TInv
<1>2. RoleKnown
  BY DEF TInv, Control, RecvExclusive, RoleKnown
<1> QED
  BY <1>1, <1>2 DEF TInv, Typed

LEMMA NextTyped ==
  ASSUME TInv, [Next]_vars
  PROVE TInv'
<1>1. ControlTypeOK' /\ Control'
  BY NextKeepsControl DEF TInv
<1> QED
  BY <1>1, TInvTyped, NextKeepsTyped DEF TInv

LEMMA InitTyped ==
  ASSUME Init
  PROVE TInv
<1>1. ControlTypeOK /\ Control
  BY InitControl
<1>2. PoolTypeOK
  BY Ranges DEF Init, ThreadInit, PoolTypeOK, Statuses, Descriptors, NoSweep
<1>3. SocketTypeOK
  BY Ranges DEF Init, SocketInit, SocketTypeOK, Descriptors
<1>4. KernelTypeOK
  BY KernelAssumption DEF Init, KernelInit, KernelTypeOK, Descriptors, None
<1>5. Work
  BY ActorFacts DEF Init, ThreadInit, Work, EventAtHand, HandingOver, ReadArg, MessagesCounted
<1>6. Sweeping
  BY ActorFacts DEF Init, ThreadInit, Sweeping, ResizeByReceiver, SweepInRange, ResizeLabels
<1> QED
  BY <1>1, <1>2, <1>3, <1>4, <1>5, <1>6 DEF TInv, DataTypeOK

(* Every variable keeps its type: in particular the number of messages a   *)
(* thread has still to push or to announce never goes below zero, and      *)
(* recv_epoll never takes the first of no events, whatever the numbers of  *)
(* threads, sockets and messages.                                          *)
THEOREM TypeCorrect == Spec => []TypeOK
<1>1. Init => TInv
  BY InitTyped
<1>2. TInv /\ [Next]_vars => TInv'
  BY NextTyped
<1>3. TInv => TypeOK
  BY DEF TInv, DataTypeOK, TypeOK
<1> QED
  BY <1>1, <1>2, <1>3, PTL DEF Spec

=============================================================================
