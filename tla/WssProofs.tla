------------------------------ MODULE WssProofs ------------------------------
(***************************************************************************)
(* WssServer for every number of threads, sockets, connections and         *)
(* messages: the receiving role, the types, the table that finds a         *)
(* socket's SSL object, the thread pool, and the pending list.             *)
(*                                                                         *)
(* A step of wss_server is a step of ws_server's Next, of which the        *)
(* lemmas for ws_server speak, or one of those defined here.               *)
(***************************************************************************)
EXTENDS WssServer, WsRoleProofs

SslSubLabels == {"close_ssl", "close_forget", "close_unmap", "reset_accept", "reset_free"}

L == Labels \union WssLabels
C == Callers \union WssCallers
S == SubLabels \union SslSubLabels
R == RecvLabels \union {"give_ssl", "skip"}

Placed == ControlIn(L, C, S, R)

CloseNew(x) == CloseBaseEnds(x) \/ CloseFree(x) \/ CloseForget(x) \/ CloseUnmap(x)

(* read_loop finds that its SSL object has been freed. *)
SslRefused(t) == SslRecv(t) /\ tmp[t] \in freed /\ Goto(t, "refuse")
                   /\ arg' = Set(arg, t, None)
                   /\ UNCHANGED <<slots, ret, socketRest, kernelVars>>

ThreadNew(t) ==
  \/ SslReadLoop(t) \/ SslRefused(t)
  \/ SslGive(t) \/ GiveSsl(t) \/ Skip(t) \/ SslGiveStatus(t) \/ SslGiveFd(t)
  \/ Write(t) \/ WriteLock(t) \/ WriteSucceeds(t) \/ SslWriteFails(t)

AcceptNew ==
  \/ SslAccept \/ FirstPollFails \/ HandshakeBegins \/ HandshakeEnds \/ Reject
  \/ SslUpgrade \/ MapSsl \/ RegisterFails \/ ResetClose \/ ResetFree \/ Unmap

NewStep ==
  \/ \E x \in Actors : CloseNew(x)
  \/ \E t \in Threads : ThreadNew(t)
  \/ AcceptNew

LEMMA WssStepKinds ==
  ASSUME [WssNext]_wssVars
  PROVE [Next]_vars \/ NewStep
<1>1. ASSUME NEW x \in Actors, CloseStep(x)
      PROVE CloseNew(x) \/ UNCHANGED vars \/ ServerStep(x)
  BY <1>1 DEF CloseStep, CloseLock, CloseBase, Base, CloseClear, CloseNew, ServerStep
<1>2. ASSUME NEW t \in Threads, Base(Inherited(t)) \/ SslStep(t)
      PROVE ThreadNew(t) \/ MsgRecvStep(t) \/ RecvEpollStep(t)
  <2>1. CASE SslRecv(t)
    BY <2>1 DEF SslRecv, SslRefused, ThreadNew, MsgRecvStep
  <2>2. CASE Base(Inherited(t))
    BY <2>2 DEF Base, Inherited, MsgRecvStep, RecvEpollStep
  <2>3. CASE SslStep(t) /\ ~SslRecv(t)
    BY <2>3 DEF SslStep, SslPop, ThreadNew, MsgRecvStep
  <2> QED
    BY <1>2, <2>1, <2>2, <2>3
<1>3. ASSUME NEW t \in Threads, WssThreadRuns(t)
      PROVE ThreadNew(t) \/ CloseNew(t) \/ UNCHANGED vars \/ ThreadRuns(t)
  BY <1>1, <1>2, <1>3, ActorFacts DEF WssThreadRuns, Base, ThreadRuns, ServerStep
<1>4. ASSUME NEW t \in Threads, WssUserStep(t) \/ WriteSucceeds(t)
      PROVE ThreadNew(t) \/ UserStep(t)
  BY <1>4 DEF WssUserStep, Base, UserStep, ThreadNew
<1>5. ASSUME WssAcceptorRuns \/ HandshakeEnds \/ SslAccept
      PROVE AcceptNew \/ CloseNew(Acceptor) \/ UNCHANGED vars \/ AcceptorRuns
  <2>1. CASE Base(PoolStep(Acceptor)) \/ CloseStep(Acceptor)
    BY <1>1, <2>1, ActorFacts DEF Base, AcceptorRuns, ServerStep
  <2>2. CASE Base(SetEvent) \/ SslRegister \/ Base(StartThread)
    BY <2>2 DEF Base, SslRegister, AcceptorRuns, AcceptStep
  <2>3. CASE AcceptEnds
    BY <2>3 DEF AcceptEnds
  <2> QED
    BY <1>5, <2>1, <2>2, <2>3 DEF WssAcceptorRuns, AcceptNew
<1>6. UNCHANGED wssVars => UNCHANGED vars
  BY DEF wssVars
<1>7. (Base(ClientStep) => ClientStep) /\ (Base(AcceptFails) => AcceptFails)
  BY DEF Base
<1> QED
  BY <1>3, <1>4, <1>5, <1>6, <1>7, ActorFacts DEF WssNext, Next, NewStep

-----------------------------------------------------------------------------
(* The places of the threads *)

LEMMA SslLabelFacts ==
  /\ "close_ssl" \in L /\ "close_forget" \in L /\ "close_unmap" \in L
  /\ "give_ssl" \in L /\ "skip" \in L /\ "write" \in L /\ "ssl_write" \in L
  /\ "first_poll" \in L /\ "ssl_accepting" \in L /\ "map" \in L
  /\ "reset_accept" \in L /\ "reset_free" \in L /\ "unmap" \in L
  /\ Labels \subseteq L /\ Callers \subseteq C
  /\ "skip" \in C /\ "map" \in C /\ "unmap" \in C
  /\ "none" \notin S
BY LabelFacts DEF L, WssLabels, C, WssCallers, S, SslSubLabels

LEMMA SslExtension == Extension(L, C, S, R)
<1>1. WssLabels \intersect Labels = {} /\ "none" \notin WssLabels
  BY DEF WssLabels, Labels, RecvLabels, WorkLabels, SubLabels, AcceptLabels
<1>2. WssCallers \subseteq WssLabels \ SslSubLabels /\ SslSubLabels \subseteq WssLabels
      /\ {"give_ssl", "skip"} \subseteq WssLabels \ SslSubLabels
  BY DEF WssLabels, SslSubLabels, WssCallers
<1> QED
  BY <1>1, <1>2, BaseExtension DEF Extension, L, C, S, R

LEMMA CloseNewLocal ==
  ASSUME Placed, Standing, NEW x \in Actors, CloseNew(x)
  PROVE Local(x, L, C, S, R)
<1> USE ActorFacts, LabelFacts, SslLabelFacts
       DEF Standing, SlotTypeOK, Local, OnlyMoves, Move, Goto, Call, Return, Set, poolShape,
           socketVars, slots, socketRest, RecvLabels, SubLabels, SslSubLabels, S, R,
           UnderThreadMx
<1>1. ret[x] \notin UnderThreadMx
  BY DEF Placed, ControlIn, PlacesIn, C, Callers, WssCallers
<1>CloseBaseEnds. CASE CloseBaseEnds(x)
  BY <1>CloseBaseEnds, <1>1 DEF CloseBaseEnds
<1>CloseFree. CASE CloseFree(x)
  BY <1>CloseFree, <1>1 DEF CloseFree, CloseReturns
<1>CloseForget. CASE CloseForget(x)
  BY <1>CloseForget, <1>1 DEF CloseForget
<1>CloseUnmap. CASE CloseUnmap(x)
  BY <1>CloseUnmap, <1>1 DEF CloseUnmap, CloseReturns
<1> QED
  BY <1>CloseBaseEnds, <1>CloseFree, <1>CloseForget, <1>CloseUnmap DEF CloseNew

LEMMA ThreadNewLocal ==
  ASSUME Standing, NEW t \in Threads, ThreadNew(t)
  PROVE Local(t, L, C, S, R)
<1> USE ActorFacts, LabelFacts, SslLabelFacts
       DEF Standing, SlotTypeOK, Local, OnlyMoves, Move, Goto, Call, Return, Set, poolShape,
           socketVars, slots, socketRest, RecvLabels, SubLabels, SslSubLabels, S, R,
           UnderThreadMx
<1>SslReadLoop. CASE SslReadLoop(t)
  BY <1>SslReadLoop DEF SslReadLoop
<1>SslRefused. CASE SslRefused(t)
  BY <1>SslRefused DEF SslRefused, SslRecv
<1>SslGive. CASE SslGive(t)
  BY <1>SslGive DEF SslGive
<1>GiveSsl. CASE GiveSsl(t)
  BY <1>GiveSsl DEF GiveSsl
<1>Skip. CASE Skip(t)
  BY <1>Skip DEF Skip
<1>SslGiveStatus. CASE SslGiveStatus(t)
  BY <1>SslGiveStatus DEF SslGiveStatus
<1>SslGiveFd. CASE SslGiveFd(t)
  BY <1>SslGiveFd DEF SslGiveFd
<1>Write. CASE Write(t)
  BY <1>Write DEF Write
<1>WriteLock. CASE WriteLock(t)
  BY <1>WriteLock DEF WriteLock
<1>WriteSucceeds. CASE WriteSucceeds(t)
  BY <1>WriteSucceeds DEF WriteSucceeds, WriteUnlock
<1>SslWriteFails. CASE SslWriteFails(t)
  BY <1>SslWriteFails DEF SslWriteFails, WriteUnlock
<1> QED
  BY <1>SslReadLoop, <1>SslRefused, <1>SslGive, <1>GiveSsl, <1>Skip, <1>SslGiveStatus,
     <1>SslGiveFd, <1>Write, <1>WriteLock, <1>WriteSucceeds, <1>SslWriteFails
     DEF ThreadNew

LEMMA AcceptNewLocal ==
  ASSUME Placed, Standing, AcceptNew
  PROVE Local(Acceptor, L, C, S, R)
<1> USE ActorFacts, LabelFacts, SslLabelFacts
       DEF Standing, SlotTypeOK, Local, OnlyMoves, Move, Goto, Call, Return, Set, poolShape,
           socketVars, slots, socketRest, RecvLabels, SubLabels, SslSubLabels, S, R,
           UnderThreadMx
<1>1. ret[Acceptor] \notin UnderThreadMx
  BY DEF Placed, ControlIn, PlacesIn, C, Callers, WssCallers
<1>SslAccept. CASE SslAccept
  BY <1>SslAccept, <1>1 DEF SslAccept
<1>FirstPollFails. CASE FirstPollFails
  BY <1>FirstPollFails, <1>1 DEF FirstPollFails
<1>HandshakeBegins. CASE HandshakeBegins
  BY <1>HandshakeBegins, <1>1 DEF HandshakeBegins
<1>HandshakeEnds. CASE HandshakeEnds
  BY <1>HandshakeEnds, <1>1 DEF HandshakeEnds, CallReset
<1>Reject. CASE Reject
  BY <1>Reject, <1>1 DEF Reject, CallReset
<1>SslUpgrade. CASE SslUpgrade
  BY <1>SslUpgrade, <1>1 DEF SslUpgrade
<1>MapSsl. CASE MapSsl
  BY <1>MapSsl, <1>1 DEF MapSsl, CallReset
<1>RegisterFails. CASE RegisterFails
  BY <1>RegisterFails, <1>1 DEF RegisterFails, CallReset
<1>ResetClose. CASE ResetClose
  BY <1>ResetClose, <1>1 DEF ResetClose
<1>ResetFree. CASE ResetFree
  BY <1>ResetFree, <1>1 DEF ResetFree
<1>Unmap. CASE Unmap
  BY <1>Unmap, <1>1 DEF Unmap
<1> QED
  BY <1>SslAccept, <1>FirstPollFails, <1>HandshakeBegins, <1>HandshakeEnds, <1>Reject,
     <1>SslUpgrade, <1>MapSsl, <1>RegisterFails, <1>ResetClose, <1>ResetFree, <1>Unmap
     DEF AcceptNew

LEMMA NewStepLocal ==
  ASSUME Placed, NewStep
  PROVE \E x \in Actors : Local(x, L, C, S, R)
<1>1. Standing
  BY SslExtension, ControlStands DEF Placed
<1> QED
  BY <1>1, ActorFacts, CloseNewLocal, ThreadNewLocal, AcceptNewLocal DEF NewStep

LEMMA WssNextKeepsPlaced ==
  ASSUME Placed, [WssNext]_wssVars
  PROVE Placed'
<1>1. CASE [Next]_vars
  BY <1>1, SslExtension, NextKeepsControlIn DEF Placed
<1>2. CASE NewStep
  BY <1>2, SslExtension, NewStepLocal, LocalKeepsControl DEF Placed
<1> QED
  BY <1>1, <1>2, WssStepKinds

LEMMA WssInitPlaced ==
  ASSUME WssInit
  PROVE Placed
<1>1. Control /\ ControlTypeOK
  BY InitControl DEF WssInit
<1>2. \A x \in Actors : pc[x] \notin S /\ ret[x] = "none" /\ pc[x] \notin R
  BY DEF WssInit, Init, ThreadInit, S, SubLabels, SslSubLabels, R, RecvLabels
<1> QED
  BY <1>1, <1>2, ActorFacts, SslLabelFacts
     DEF Placed, ControlIn, PlacesIn, SlotTypeOK, CallsReturnIn, RoleIn, Control, ControlTypeOK,
         WssInit, Init, ThreadInit, R, RecvLabels, None

(* The invariant behind the role: the same as that of ws_server, with the  *)
(* places wss_server adds.                                                 *)
THEOREM WssControlInvariant == WssSpec => []Placed
<1>1. WssInit => Placed
  BY WssInitPlaced
<1>2. Placed /\ [WssNext]_wssVars => Placed'
  BY WssNextKeepsPlaced
<1> QED
  BY <1>1, <1>2, PTL DEF WssSpec

(* recv_epoll as wss_server overrides it is run by exactly the thread      *)
(* recv_thread names, also while it closes a socket without an SSL object  *)
(* in the middle of a hand-over, whatever the number of threads.           *)
THEOREM SslReceiverExclusive == WssSpec => []SslRecvExclusive
<1>1. Placed => SslRecvExclusive
  <2>1. ASSUME Placed, NEW t \in Threads
        PROVE ret[t] # "give_ssl"
    BY <2>1, ActorFacts DEF Placed, ControlIn, PlacesIn, C, Callers, WssCallers
  <2> QED
    BY <2>1 DEF Placed, ControlIn, RoleIn, R, SslRecvExclusive, InRecv
<1> QED
  BY <1>1, WssControlInvariant, PTL

-----------------------------------------------------------------------------
(* The inductive invariant of the types and of the table of SSL objects.   *)

SslTypeOK ==
  /\ ssl_mx \in Actors \union {None}
  /\ made \in 1 .. MaxAccepts + 1
  /\ freed \subseteq 1..made
  /\ ssl \in [Threads -> 1..made \union {None}]
  /\ ssl_map \in [Descriptors -> 1..made \union {None}]
  /\ ssl_ptr \in 1..made \union {None}
  /\ tmp \in [Actors -> 1..made \union {None}]
  /\ fd_of \in [1 .. MaxAccepts + 1 -> Descriptors]

(* recv_epoll has an event in its hands also where wss_server adds a place. *)
NeedsEvent(t) == pc[t] \in {"give_ssl", "skip"} \/ ret[t] = "skip"

SslEventAtHand == \A t \in Threads : NeedsEvent(t) => events # <<>>

(* Only start_accept calls what returns to its own places. *)
AcceptCalls ==
  \A x \in Actors :
    /\ ret[x] = "map" => x = Acceptor /\ pc[x] \notin SubLabels \ CloseLabels
    /\ ret[x] = "unmap" => x = Acceptor /\ pc[x] \in {"reset_accept", "reset_free"}

(* A copy of a pointer is made before it is used, with its descriptor, and *)
(* every object a thread or a table names has one.                         *)
CopiedPtr ==
  \A t \in Threads :
    pc[t] \in {"recv", "write", "ssl_write"} => tmp[t] # None /\ arg[t] # None

ThreadObject == \A t \in Threads : ssl[t] # None => fd_of[ssl[t]] \in Sockets

MapNamesOwner ==
  \A s \in Descriptors : ssl_map[s] # None => s \in Sockets /\ fd_of[ssl_map[s]] = s

(* An object is made for a connection, or before the first one. *)
MadeForAccepts ==
  made <= accepts + 1 /\ (pc[Acceptor] = "first_poll" => made <= accepts)

(* The object start_accept works with: it belongs to the new socket, and   *)
(* until it is in ssl_map no thread can free it.                           *)
AcceptIn(labels) == pc[Acceptor] \in labels \/ ret[Acceptor] = "map"

AcceptorObject ==
  /\ pc[Acceptor] = "first_poll" => arg[Acceptor] \in Sockets
  /\ AcceptIn({"ssl_accepting", "handshake", "map", "set_event", "register",
               "reset_accept", "reset_free"}) =>
       ssl_ptr # None /\ fd_of[ssl_ptr] \in Sockets
  /\ pc[Acceptor] \in {"set_event", "register", "reset_accept", "reset_free"} =>
       arg[Acceptor] = fd_of[ssl_ptr]
  /\ pc[Acceptor] \in {"reset_accept", "reset_free"} => ret[Acceptor] \in {"accept", "unmap"}

InMap == pc[Acceptor] \in {"set_event", "register"} \/ ret[Acceptor] = "unmap"

SpareUnmapped ==
  ssl_ptr # None /\ ~InMap =>
    ssl_ptr \notin freed /\ \A s \in Descriptors : ssl_map[s] # ssl_ptr

(* While close_socket runs, its socket cannot become an open connection    *)
(* again: start_accept needs ssl_mx to get it there.                       *)
CloseInside ==
  {"close_sweep", "close_reset", "clear_pending", "close_ssl", "close_forget", "close_unmap"}

ClosersHold ==
  \A x \in Actors : pc[x] \in CloseInside =>
    /\ arg[x] # None
    /\ Wrapped(x) => ssl_mx = x /\ conn[arg[x]] # "open"
    /\ pc[x] \notin {"close_sweep", "close_reset", "clear_pending"} => Wrapped(x)

SslMxHeld ==
  /\ pc[Acceptor] = "ssl_accepting" => ssl_mx = Acceptor
  /\ \A t \in Threads : pc[t] = "ssl_write" => ssl_mx = t

TurnedDownClosed ==
  pc[Acceptor] \in {"reset_free", "unmap"} =>
    arg[Acceptor] # None /\ conn[arg[Acceptor]] # "open"

RegisteredOpen == \A s \in Sockets : interest[s] # "none" => conn[s] = "open"

RegisteringMapped ==
  pc[Acceptor] \in {"set_event", "register"} /\ conn[arg[Acceptor]] = "open" =>
    ssl_map[arg[Acceptor]] = ssl_ptr /\ ssl_ptr \notin freed

Objects == SslTypeOK /\ CopiedPtr /\ ThreadObject /\ MapNamesOwner /\ MadeForAccepts

Accepting == AcceptCalls /\ AcceptorObject

Holding == ClosersHold /\ SslMxHeld /\ TurnedDownClosed /\ RegisteredOpen

Mapping == SpareUnmapped /\ RegisteringMapped /\ SslMapLive /\ RegisteredHasSsl

Tables == Objects /\ Accepting /\ Holding /\ Mapping

WInv ==
  /\ Placed /\ DataTypeOK /\ Work /\ Sweeping /\ SslEventAtHand
  /\ Tables

LEMMA WInvTyped ==
  ASSUME WInv
  PROVE Typed
<1>1. Standing
  BY SslExtension, ControlStands DEF WInv, Placed
<1>2. RoleKnown
  BY DEF WInv, Placed, ControlIn, RoleIn, R, RoleKnown, InRecv
<1> QED
  BY <1>1, <1>2 DEF WInv, Typed

-----------------------------------------------------------------------------
(* The types and the work at hand *)

LEMMA CloseNewElsewhere ==
  ASSUME Placed, Standing, NEW x \in Actors, CloseNew(x)
  PROVE Elsewhere(x)
<1> USE ActorFacts
       DEF Standing, SlotTypeOK, Elsewhere, ResizeLabels, Goto, Call, Return, Set, poolShape,
           socketVars, slots, socketRest
<1>1. \A y \in Actors : ret[y] \notin ResizeLabels
  BY DEF Placed, ControlIn, PlacesIn, C, Callers, WssCallers
<1>CloseBaseEnds. CASE CloseBaseEnds(x)
  BY <1>CloseBaseEnds, <1>1 DEF CloseBaseEnds
<1>CloseFree. CASE CloseFree(x)
  BY <1>CloseFree, <1>1 DEF CloseFree, CloseReturns
<1>CloseForget. CASE CloseForget(x)
  BY <1>CloseForget, <1>1 DEF CloseForget
<1>CloseUnmap. CASE CloseUnmap(x)
  BY <1>CloseUnmap, <1>1 DEF CloseUnmap, CloseReturns
<1> QED
  BY <1>CloseBaseEnds, <1>CloseFree, <1>CloseForget, <1>CloseUnmap DEF CloseNew

LEMMA ThreadNewElsewhere ==
  ASSUME Placed, Standing, NEW t \in Threads, ThreadNew(t)
  PROVE Elsewhere(t)
<1> USE ActorFacts
       DEF Standing, SlotTypeOK, Elsewhere, ResizeLabels, Goto, Call, Return, Set, poolShape,
           socketVars, slots, socketRest
<1>1. \A y \in Actors : ret[y] \notin ResizeLabels
  BY DEF Placed, ControlIn, PlacesIn, C, Callers, WssCallers
<1>SslReadLoop. CASE SslReadLoop(t)
  BY <1>SslReadLoop, <1>1 DEF SslReadLoop
<1>SslRefused. CASE SslRefused(t)
  BY <1>SslRefused, <1>1 DEF SslRefused, SslRecv
<1>SslGive. CASE SslGive(t)
  BY <1>SslGive, <1>1 DEF SslGive
<1>GiveSsl. CASE GiveSsl(t)
  BY <1>GiveSsl, <1>1 DEF GiveSsl
<1>Skip. CASE Skip(t)
  BY <1>Skip, <1>1 DEF Skip
<1>SslGiveStatus. CASE SslGiveStatus(t)
  BY <1>SslGiveStatus, <1>1 DEF SslGiveStatus
<1>SslGiveFd. CASE SslGiveFd(t)
  BY <1>SslGiveFd, <1>1 DEF SslGiveFd
<1>Write. CASE Write(t)
  BY <1>Write, <1>1 DEF Write
<1>WriteLock. CASE WriteLock(t)
  BY <1>WriteLock, <1>1 DEF WriteLock
<1>WriteSucceeds. CASE WriteSucceeds(t)
  BY <1>WriteSucceeds, <1>1 DEF WriteSucceeds, WriteUnlock
<1>SslWriteFails. CASE SslWriteFails(t)
  BY <1>SslWriteFails, <1>1 DEF SslWriteFails, WriteUnlock
<1> QED
  BY <1>SslReadLoop, <1>SslRefused, <1>SslGive, <1>GiveSsl, <1>Skip, <1>SslGiveStatus,
     <1>SslGiveFd, <1>Write, <1>WriteLock, <1>WriteSucceeds, <1>SslWriteFails
     DEF ThreadNew

LEMMA AcceptNewElsewhere ==
  ASSUME Placed, Standing, AcceptNew
  PROVE Elsewhere(Acceptor)
<1> USE ActorFacts
       DEF Standing, SlotTypeOK, Elsewhere, ResizeLabels, Goto, Call, Return, Set, poolShape,
           socketVars, slots, socketRest
<1>1. \A y \in Actors : ret[y] \notin ResizeLabels
  BY DEF Placed, ControlIn, PlacesIn, C, Callers, WssCallers
<1>SslAccept. CASE SslAccept
  BY <1>SslAccept, <1>1 DEF SslAccept, Accept4
<1>FirstPollFails. CASE FirstPollFails
  BY <1>FirstPollFails, <1>1 DEF FirstPollFails
<1>HandshakeBegins. CASE HandshakeBegins
  BY <1>HandshakeBegins, <1>1 DEF HandshakeBegins
<1>HandshakeEnds. CASE HandshakeEnds
  BY <1>HandshakeEnds, <1>1 DEF HandshakeEnds, CallReset
<1>Reject. CASE Reject
  BY <1>Reject, <1>1 DEF Reject, CallReset
<1>SslUpgrade. CASE SslUpgrade
  BY <1>SslUpgrade, <1>1 DEF SslUpgrade
<1>MapSsl. CASE MapSsl
  BY <1>MapSsl, <1>1 DEF MapSsl, CallReset
<1>RegisterFails. CASE RegisterFails
  BY <1>RegisterFails, <1>1 DEF RegisterFails, CallReset
<1>ResetClose. CASE ResetClose
  BY <1>ResetClose, <1>1 DEF ResetClose
<1>ResetFree. CASE ResetFree
  BY <1>ResetFree, <1>1 DEF ResetFree
<1>Unmap. CASE Unmap
  BY <1>Unmap, <1>1 DEF Unmap
<1> QED
  BY <1>SslAccept, <1>FirstPollFails, <1>HandshakeBegins, <1>HandshakeEnds, <1>Reject,
     <1>SslUpgrade, <1>MapSsl, <1>RegisterFails, <1>ResetClose, <1>ResetFree, <1>Unmap
     DEF AcceptNew

LEMMA CloseNewData ==
  ASSUME WInv, NEW x \in Actors, CloseNew(x)
  PROVE DataTypeOK'
<1> USE DEF Goto, Return, Set, poolShape, epollLocals, socketVars, kernelVars, slots, socketRest
<1>1. PoolTypeOK /\ SocketTypeOK /\ KernelTypeOK
  BY DEF WInv, DataTypeOK
<1>2. None \in Descriptors /\ None \in Actors \union {None}
  BY DEF Descriptors
<1>3. /\ UNCHANGED <<status, socketfd, sweep, kernelVars>>
      /\ UNCHANGED <<got_it, wait_mx, pending, ev, epollLocals, unpushed, tail, count>>
      /\ close_mx' \in {close_mx, None} /\ arg' \in {arg, [arg EXCEPT ![x] = None]}
  BY DEF CloseNew, CloseBaseEnds, CloseFree, CloseForget, CloseUnmap, CloseReturns
<1> QED
  BY <1>1, <1>2, <1>3 DEF DataTypeOK, PoolTypeOK, SocketTypeOK, KernelTypeOK

LEMMA ThreadNewData ==
  ASSUME WInv, NEW t \in Threads, ThreadNew(t)
  PROVE DataTypeOK'
<1> USE ActorFacts
       DEF DataTypeOK, Descriptors, Statuses, Goto, Call, Return, Set, poolShape, epollLocals,
           socketVars, kernelVars, slots, socketRest
<1>1. PoolTypeOK /\ SocketTypeOK /\ KernelTypeOK
  BY DEF WInv
<1>2. SlotTypeOK /\ SslTypeOK /\ AcceptorObject /\ EventAtHand /\ SslEventAtHand
  BY DEF WInv, Work, Tables, Objects, Accepting, Placed, ControlIn
<1>3. events # <<>> => /\ Head(events) \in [fd : Descriptors, hup : BOOLEAN]
                       /\ Tail(events) \in Seq([fd : Descriptors, hup : BOOLEAN])
  BY <1>1, PopTypes DEF SocketTypeOK
<1>4. 1..made \subseteq 1 .. MaxAccepts + 1
  BY <1>2, KernelAssumption DEF SslTypeOK
<1>SslReadLoop. CASE SslReadLoop(t)
  <2>1. PoolTypeOK'
    BY <1>SslReadLoop, <1>1, <1>2, <1>3, <1>4, Ranges
       DEF SslReadLoop, SlotTypeOK, SslTypeOK, AcceptorObject, AcceptIn, EventAtHand,
           HandingOver, SslEventAtHand, NeedsEvent, PoolTypeOK
  <2>2. SocketTypeOK'
    <3>1. ssl[t] # None => fd_of[ssl[t]] \in Descriptors
      BY <1>2, <1>4 DEF SslTypeOK
    <3>2. arg' \in [Actors -> Descriptors]
      BY <1>SslReadLoop, <1>1, <3>1 DEF SslReadLoop, SocketTypeOK
    <3> QED
      BY <1>SslReadLoop, <1>1, <3>2 DEF SslReadLoop, SocketTypeOK
  <2>3. KernelTypeOK'
    BY <1>SslReadLoop, <1>1, <1>2, <1>3, <1>4, Ranges
       DEF SslReadLoop, SlotTypeOK, SslTypeOK, AcceptorObject, AcceptIn, EventAtHand,
           HandingOver, SslEventAtHand, NeedsEvent, KernelTypeOK
  <2> QED
    BY <2>1, <2>2, <2>3
<1>SslRefused. CASE SslRefused(t)
  BY <1>SslRefused, <1>1, <1>2, <1>3, <1>4, Ranges
     DEF SslRefused, SslRecv, SlotTypeOK, SslTypeOK, AcceptorObject, AcceptIn, EventAtHand,
         HandingOver, SslEventAtHand, NeedsEvent, PoolTypeOK, SocketTypeOK, KernelTypeOK
<1>SslGive. CASE SslGive(t)
  BY <1>SslGive, <1>1, <1>2, <1>3, <1>4, Ranges
     DEF SslGive, SlotTypeOK, SslTypeOK, AcceptorObject, AcceptIn, EventAtHand, HandingOver,
         SslEventAtHand, NeedsEvent, PoolTypeOK, SocketTypeOK, KernelTypeOK
<1>GiveSsl. CASE GiveSsl(t)
  <2>1. PoolTypeOK'
    BY <1>GiveSsl, <1>1, <1>2, <1>3, <1>4, Ranges
       DEF GiveSsl, SlotTypeOK, SslTypeOK, AcceptorObject, AcceptIn, EventAtHand, HandingOver,
           SslEventAtHand, NeedsEvent, PoolTypeOK
  <2>2. SocketTypeOK'
    BY <1>GiveSsl, <1>1, <1>2, <1>3, <1>4, Ranges
       DEF GiveSsl, SlotTypeOK, SslTypeOK, AcceptorObject, AcceptIn, EventAtHand, HandingOver,
           SslEventAtHand, NeedsEvent, SocketTypeOK
  <2>3. KernelTypeOK'
    BY <1>GiveSsl, <1>1, <1>2, <1>3, <1>4, Ranges
       DEF GiveSsl, SlotTypeOK, SslTypeOK, AcceptorObject, AcceptIn, EventAtHand, HandingOver,
           SslEventAtHand, NeedsEvent, KernelTypeOK
  <2> QED
    BY <2>1, <2>2, <2>3
<1>Skip. CASE Skip(t)
  BY <1>Skip, <1>1, <1>2, <1>3, <1>4, Ranges
     DEF Skip, SlotTypeOK, SslTypeOK, AcceptorObject, AcceptIn, EventAtHand, HandingOver,
         SslEventAtHand, NeedsEvent, PoolTypeOK, SocketTypeOK, KernelTypeOK
<1>SslGiveStatus. CASE SslGiveStatus(t)
  BY <1>SslGiveStatus, <1>1, <1>2, <1>3, <1>4, Ranges
     DEF SslGiveStatus, SlotTypeOK, SslTypeOK, AcceptorObject, AcceptIn, EventAtHand,
         HandingOver, SslEventAtHand, NeedsEvent, PoolTypeOK, SocketTypeOK, KernelTypeOK
<1>SslGiveFd. CASE SslGiveFd(t)
  BY <1>SslGiveFd, <1>1, <1>2, <1>3, <1>4, Ranges
     DEF SslGiveFd, SlotTypeOK, SslTypeOK, AcceptorObject, AcceptIn, EventAtHand, HandingOver,
         SslEventAtHand, NeedsEvent, PoolTypeOK, SocketTypeOK, KernelTypeOK
<1>Write. CASE Write(t)
  <2>1. PoolTypeOK'
    BY <1>Write, <1>1, <1>2, <1>3, <1>4, Ranges
       DEF Write, SlotTypeOK, SslTypeOK, AcceptorObject, AcceptIn, EventAtHand, HandingOver,
           SslEventAtHand, NeedsEvent, PoolTypeOK
  <2>2. SocketTypeOK'
    BY <1>Write, <1>1, <1>2, <1>3, <1>4, Ranges
       DEF Write, SlotTypeOK, SslTypeOK, AcceptorObject, AcceptIn, EventAtHand, HandingOver,
           SslEventAtHand, NeedsEvent, SocketTypeOK
  <2>3. KernelTypeOK'
    BY <1>Write, <1>1, <1>2, <1>3, <1>4, Ranges
       DEF Write, SlotTypeOK, SslTypeOK, AcceptorObject, AcceptIn, EventAtHand, HandingOver,
           SslEventAtHand, NeedsEvent, KernelTypeOK
  <2> QED
    BY <2>1, <2>2, <2>3
<1>WriteLock. CASE WriteLock(t)
  BY <1>WriteLock, <1>1, <1>2, <1>3, <1>4, Ranges
     DEF WriteLock, SlotTypeOK, SslTypeOK, AcceptorObject, AcceptIn, EventAtHand, HandingOver,
         SslEventAtHand, NeedsEvent, PoolTypeOK, SocketTypeOK, KernelTypeOK
<1>WriteSucceeds. CASE WriteSucceeds(t)
  BY <1>WriteSucceeds, <1>1, <1>2, <1>3, <1>4, Ranges
     DEF WriteSucceeds, WriteUnlock, SlotTypeOK, SslTypeOK, AcceptorObject, AcceptIn,
         EventAtHand, HandingOver, SslEventAtHand, NeedsEvent, PoolTypeOK, SocketTypeOK,
         KernelTypeOK
<1>SslWriteFails. CASE SslWriteFails(t)
  BY <1>SslWriteFails, <1>1, <1>2, <1>3, <1>4, Ranges
     DEF SslWriteFails, WriteUnlock, SlotTypeOK, SslTypeOK, AcceptorObject, AcceptIn,
         EventAtHand, HandingOver, SslEventAtHand, NeedsEvent, PoolTypeOK, SocketTypeOK,
         KernelTypeOK
<1> QED
  BY <1>SslReadLoop, <1>SslRefused, <1>SslGive, <1>GiveSsl, <1>Skip, <1>SslGiveStatus,
     <1>SslGiveFd, <1>Write, <1>WriteLock, <1>WriteSucceeds, <1>SslWriteFails
     DEF ThreadNew

LEMMA AcceptNewData ==
  ASSUME WInv, AcceptNew
  PROVE DataTypeOK'
<1> USE ActorFacts
       DEF DataTypeOK, Descriptors, Statuses, Goto, Call, Return, Set, poolShape, epollLocals,
           socketVars, kernelVars, slots, socketRest
<1>1. PoolTypeOK /\ SocketTypeOK /\ KernelTypeOK
  BY DEF WInv
<1>2. SlotTypeOK /\ SslTypeOK /\ AcceptorObject /\ EventAtHand /\ SslEventAtHand
  BY DEF WInv, Work, Tables, Objects, Accepting, Placed, ControlIn
<1>3. events # <<>> => /\ Head(events) \in [fd : Descriptors, hup : BOOLEAN]
                       /\ Tail(events) \in Seq([fd : Descriptors, hup : BOOLEAN])
  BY <1>1, PopTypes DEF SocketTypeOK
<1>4. 1..made \subseteq 1 .. MaxAccepts + 1
  BY <1>2, KernelAssumption DEF SslTypeOK
<1>SslAccept. CASE SslAccept
  BY <1>SslAccept, <1>1, <1>2, <1>3, <1>4, CloseFdTypes, KernelAssumption
     DEF SslAccept, Accept4, SlotTypeOK, SslTypeOK, AcceptorObject, AcceptIn, EventAtHand,
         HandingOver, SslEventAtHand, NeedsEvent, PoolTypeOK, SocketTypeOK, KernelTypeOK
<1>FirstPollFails. CASE FirstPollFails
  BY <1>FirstPollFails, <1>1, <1>2, <1>3, <1>4, CloseFdTypes, KernelAssumption
     DEF FirstPollFails, SlotTypeOK, SslTypeOK, AcceptorObject, AcceptIn, EventAtHand,
         HandingOver, SslEventAtHand, NeedsEvent, PoolTypeOK, SocketTypeOK, KernelTypeOK
<1>HandshakeBegins. CASE HandshakeBegins
  BY <1>HandshakeBegins, <1>1, <1>2, <1>3, <1>4, CloseFdTypes, KernelAssumption
     DEF HandshakeBegins, SlotTypeOK, SslTypeOK, AcceptorObject, AcceptIn, EventAtHand,
         HandingOver, SslEventAtHand, NeedsEvent, PoolTypeOK, SocketTypeOK, KernelTypeOK
<1>HandshakeEnds. CASE HandshakeEnds
  BY <1>HandshakeEnds, <1>1, <1>2, <1>3, <1>4, CloseFdTypes, KernelAssumption
     DEF HandshakeEnds, CallReset, SlotTypeOK, SslTypeOK, AcceptorObject, AcceptIn, EventAtHand,
         HandingOver, SslEventAtHand, NeedsEvent, PoolTypeOK, SocketTypeOK, KernelTypeOK
<1>Reject. CASE Reject
  BY <1>Reject, <1>1, <1>2, <1>3, <1>4, CloseFdTypes, KernelAssumption
     DEF Reject, CallReset, SlotTypeOK, SslTypeOK, AcceptorObject, AcceptIn, EventAtHand,
         HandingOver, SslEventAtHand, NeedsEvent, PoolTypeOK, SocketTypeOK, KernelTypeOK
<1>SslUpgrade. CASE SslUpgrade
  BY <1>SslUpgrade, <1>1, <1>2, <1>3, <1>4, CloseFdTypes, KernelAssumption
     DEF SslUpgrade, SlotTypeOK, SslTypeOK, AcceptorObject, AcceptIn, EventAtHand, HandingOver,
         SslEventAtHand, NeedsEvent, PoolTypeOK, SocketTypeOK, KernelTypeOK
<1>MapSsl. CASE MapSsl
  BY <1>MapSsl, <1>1, <1>2, <1>3, <1>4, CloseFdTypes, KernelAssumption
     DEF MapSsl, CallReset, SlotTypeOK, SslTypeOK, AcceptorObject, AcceptIn, EventAtHand,
         HandingOver, SslEventAtHand, NeedsEvent, PoolTypeOK, SocketTypeOK, KernelTypeOK
<1>RegisterFails. CASE RegisterFails
  BY <1>RegisterFails, <1>1, <1>2, <1>3, <1>4, CloseFdTypes, KernelAssumption
     DEF RegisterFails, CallReset, SlotTypeOK, SslTypeOK, AcceptorObject, AcceptIn, EventAtHand,
         HandingOver, SslEventAtHand, NeedsEvent, PoolTypeOK, SocketTypeOK, KernelTypeOK
<1>ResetClose. CASE ResetClose
  BY <1>ResetClose, <1>1, <1>2, <1>3, <1>4, CloseFdTypes, KernelAssumption
     DEF ResetClose, SlotTypeOK, SslTypeOK, AcceptorObject, AcceptIn, EventAtHand, HandingOver,
         SslEventAtHand, NeedsEvent, PoolTypeOK, SocketTypeOK, KernelTypeOK
<1>ResetFree. CASE ResetFree
  BY <1>ResetFree, <1>1, <1>2, <1>3, <1>4, CloseFdTypes, KernelAssumption
     DEF ResetFree, SlotTypeOK, SslTypeOK, AcceptorObject, AcceptIn, EventAtHand, HandingOver,
         SslEventAtHand, NeedsEvent, PoolTypeOK, SocketTypeOK, KernelTypeOK
<1>Unmap. CASE Unmap
  BY <1>Unmap, <1>1, <1>2, <1>3, <1>4, CloseFdTypes, KernelAssumption
     DEF Unmap, SlotTypeOK, SslTypeOK, AcceptorObject, AcceptIn, EventAtHand, HandingOver,
         SslEventAtHand, NeedsEvent, PoolTypeOK, SocketTypeOK, KernelTypeOK
<1> QED
  BY <1>SslAccept, <1>FirstPollFails, <1>HandshakeBegins, <1>HandshakeEnds, <1>Reject,
     <1>SslUpgrade, <1>MapSsl, <1>RegisterFails, <1>ResetClose, <1>ResetFree, <1>Unmap
     DEF AcceptNew

LEMMA CloseNewWork ==
  ASSUME WInv, NEW x \in Actors, CloseNew(x)
  PROVE Work'
<1> USE ActorFacts
       DEF Standing, Goto, Call, Return, Set, poolShape, epollLocals, socketVars, slots,
           socketRest, Work, EventAtHand, HandingOver, ReadArg, MessagesCounted
<1>1. Standing /\ EventAtHand /\ ReadArg /\ MessagesCounted /\ SslEventAtHand
  BY WInvTyped DEF WInv, Typed
<1>2. /\ arg \in [Actors -> Descriptors] /\ socketfd \in [Threads -> Descriptors]
      /\ unpushed \in [Threads -> Nat] /\ count \in [Threads -> Nat]
  BY DEF WInv, DataTypeOK, SocketTypeOK, PoolTypeOK
<1>3. ret[x] \notin {"recv", "push_pending", "give_fd", "give_status", "give_ctl"}
  BY DEF WInv, Placed, ControlIn, PlacesIn, C, Callers, WssCallers
<1>CloseBaseEnds. CASE CloseBaseEnds(x)
  BY <1>CloseBaseEnds, <1>1, <1>2, <1>3 DEF CloseBaseEnds
<1>CloseFree. CASE CloseFree(x)
  <2>1. CASE CloseReturns(x)
    BY <1>CloseFree, <2>1, <1>1, <1>2, <1>3 DEF CloseFree, CloseReturns
  <2>2. CASE Goto(x, "close_forget") /\ UNCHANGED <<ret, arg>>
    BY <1>CloseFree, <2>2, <1>1, <1>2, <1>3 DEF CloseFree
  <2> QED
    BY <1>CloseFree, <2>1, <2>2 DEF CloseFree
<1>CloseForget. CASE CloseForget(x)
  BY <1>CloseForget, <1>1, <1>2, <1>3 DEF CloseForget
<1>CloseUnmap. CASE CloseUnmap(x)
  BY <1>CloseUnmap, <1>1, <1>2, <1>3 DEF CloseUnmap, CloseReturns
<1> QED
  BY <1>CloseBaseEnds, <1>CloseFree, <1>CloseForget, <1>CloseUnmap DEF CloseNew

LEMMA ThreadNewWork ==
  ASSUME WInv, NEW t \in Threads, ThreadNew(t)
  PROVE Work'
<1> USE ActorFacts
       DEF Standing, Goto, Call, Return, Set, poolShape, epollLocals, socketVars, slots,
           socketRest, Work, EventAtHand, HandingOver, ReadArg, MessagesCounted
<1>1. Standing /\ EventAtHand /\ ReadArg /\ MessagesCounted /\ SslEventAtHand
  BY WInvTyped DEF WInv, Typed
<1>2. /\ arg \in [Actors -> Descriptors] /\ socketfd \in [Threads -> Descriptors]
      /\ unpushed \in [Threads -> Nat] /\ count \in [Threads -> Nat]
  BY DEF WInv, DataTypeOK, SocketTypeOK, PoolTypeOK
<1>SslReadLoop. CASE SslReadLoop(t)
  <2>1. ThreadObject
    BY DEF WInv, Tables, Objects
  <2> QED
    BY <1>SslReadLoop, <1>1, <1>2, <2>1 DEF SslReadLoop, ThreadObject
<1>SslRefused. CASE SslRefused(t)
  BY <1>SslRefused, <1>1, <1>2 DEF SslRefused, SslRecv
<1>SslGive. CASE SslGive(t)
  BY <1>SslGive, <1>1, <1>2 DEF SslGive
<1>GiveSsl. CASE GiveSsl(t)
  <2>1. CASE Goto(t, "give_status") /\ UNCHANGED <<ret, arg>>
    BY <1>GiveSsl, <2>1, <1>1, <1>2 DEF GiveSsl, SslEventAtHand, NeedsEvent
  <2>2. CASE arg' = Set(arg, t, Head(events).fd) /\ Call(t, "close_socket", "skip")
    BY <1>GiveSsl, <2>2, <1>1, <1>2 DEF GiveSsl
  <2> QED
    BY <1>GiveSsl, <2>1, <2>2 DEF GiveSsl
<1>Skip. CASE Skip(t)
  <2>1. \A u \in Threads \ {t} : ~HandingOver(u)
    BY <1>Skip DEF Skip, WInv, Placed, ControlIn, RoleIn, R, RecvLabels
  <2>2. ret[t] = "none"
    BY <1>Skip DEF Skip, WInv, Placed, ControlIn, CallsReturnIn, S, SubLabels, SslSubLabels
  <2> QED
    BY <1>Skip, <1>1, <1>2, <2>1, <2>2 DEF Skip
<1>SslGiveStatus. CASE SslGiveStatus(t)
  BY <1>SslGiveStatus, <1>1, <1>2 DEF SslGiveStatus
<1>SslGiveFd. CASE SslGiveFd(t)
  BY <1>SslGiveFd, <1>1, <1>2 DEF SslGiveFd
<1>Write. CASE Write(t)
  BY <1>Write, <1>1, <1>2 DEF Write
<1>WriteLock. CASE WriteLock(t)
  BY <1>WriteLock, <1>1, <1>2 DEF WriteLock
<1>WriteSucceeds. CASE WriteSucceeds(t)
  BY <1>WriteSucceeds, <1>1, <1>2 DEF WriteSucceeds, WriteUnlock
<1>SslWriteFails. CASE SslWriteFails(t)
  BY <1>SslWriteFails, <1>1, <1>2 DEF SslWriteFails, WriteUnlock
<1> QED
  BY <1>SslReadLoop, <1>SslRefused, <1>SslGive, <1>GiveSsl, <1>Skip, <1>SslGiveStatus,
     <1>SslGiveFd, <1>Write, <1>WriteLock, <1>WriteSucceeds, <1>SslWriteFails
     DEF ThreadNew

LEMMA AcceptNewWork ==
  ASSUME WInv, AcceptNew
  PROVE Work'
<1> USE ActorFacts
       DEF Standing, Goto, Call, Return, Set, poolShape, epollLocals, socketVars, slots,
           socketRest, Work, EventAtHand, HandingOver, ReadArg, MessagesCounted
<1>1. Standing /\ EventAtHand /\ ReadArg /\ MessagesCounted /\ SslEventAtHand
  BY WInvTyped DEF WInv, Typed
<1>2. /\ arg \in [Actors -> Descriptors] /\ socketfd \in [Threads -> Descriptors]
      /\ unpushed \in [Threads -> Nat] /\ count \in [Threads -> Nat]
  BY DEF WInv, DataTypeOK, SocketTypeOK, PoolTypeOK
<1>3. ret[Acceptor] \notin {"recv", "push_pending", "give_fd", "give_status", "give_ctl"}
  BY DEF WInv, Placed, ControlIn, PlacesIn, C, Callers, WssCallers
<1>SslAccept. CASE SslAccept
  BY <1>SslAccept, <1>1, <1>2, <1>3 DEF SslAccept, Accept4
<1>FirstPollFails. CASE FirstPollFails
  BY <1>FirstPollFails, <1>1, <1>2, <1>3 DEF FirstPollFails
<1>HandshakeBegins. CASE HandshakeBegins
  BY <1>HandshakeBegins, <1>1, <1>2, <1>3 DEF HandshakeBegins
<1>HandshakeEnds. CASE HandshakeEnds
  BY <1>HandshakeEnds, <1>1, <1>2, <1>3 DEF HandshakeEnds, CallReset
<1>Reject. CASE Reject
  BY <1>Reject, <1>1, <1>2, <1>3 DEF Reject, CallReset
<1>SslUpgrade. CASE SslUpgrade
  BY <1>SslUpgrade, <1>1, <1>2, <1>3 DEF SslUpgrade
<1>MapSsl. CASE MapSsl
  BY <1>MapSsl, <1>1, <1>2, <1>3 DEF MapSsl, CallReset
<1>RegisterFails. CASE RegisterFails
  BY <1>RegisterFails, <1>1, <1>2, <1>3 DEF RegisterFails, CallReset
<1>ResetClose. CASE ResetClose
  BY <1>ResetClose, <1>1, <1>2, <1>3 DEF ResetClose
<1>ResetFree. CASE ResetFree
  BY <1>ResetFree, <1>1, <1>2, <1>3 DEF ResetFree
<1>Unmap. CASE Unmap
  BY <1>Unmap, <1>1, <1>2, <1>3 DEF Unmap
<1> QED
  BY <1>SslAccept, <1>FirstPollFails, <1>HandshakeBegins, <1>HandshakeEnds, <1>Reject,
     <1>SslUpgrade, <1>MapSsl, <1>RegisterFails, <1>ResetClose, <1>ResetFree, <1>Unmap
     DEF AcceptNew

LEMMA WssNextTyped ==
  ASSUME WInv, [WssNext]_wssVars
  PROVE DataTypeOK' /\ Work' /\ Sweeping'
<1>1. CASE [Next]_vars
  BY <1>1, WInvTyped, NextKeepsTyped
<1>2. CASE NewStep
  <2>1. DataTypeOK' /\ Work'
    BY <1>2, CloseNewData, ThreadNewData, AcceptNewData, CloseNewWork, ThreadNewWork,
       AcceptNewWork
       DEF NewStep
  <2>2. Standing /\ Placed /\ Sweeping
    BY WInvTyped DEF WInv, Typed
  <2>3. \E x \in Actors : Elsewhere(x)
    BY <1>2, <2>2, ActorFacts, CloseNewElsewhere, ThreadNewElsewhere, AcceptNewElsewhere
       DEF NewStep
  <2> QED
    BY <2>1, <2>2, <2>3, ElsewhereKeepsSweeping
<1> QED
  BY <1>1, <1>2, WssStepKinds

(* No step of ws_server leads to a place of wss_server, but by a return.   *)
LEMMA BasePlaces ==
  ASSUME Standing, MutexHeld, FreeSlotIdle, [Next]_vars, NEW y \in Actors
  PROVE /\ pc'[y] \in Labels \/ pc'[y] \in {pc[y], ret[y]}
        /\ ret'[y] \in Callers \/ ret'[y] \in {"none", ret[y]}
<1> DEFINE Known(z) ==
             /\ pc'[z] \in Labels \/ pc'[z] \in {pc[z], ret[z]}
             /\ ret'[z] \in Callers \/ ret'[z] \in {"none", ret[z]}
<1> USE ActorFacts
<1>1. ASSUME NEW x \in Actors, BaseLocal(x)
      PROVE Known(y)
  <2>1. Move(x, Labels, Callers, SubLabels, RecvLabels) /\ OnlyMoves(x)
    BY <1>1 DEF BaseLocal, Local
  <2>2. SubLabels \subseteq Labels
    BY DEF Labels
  <2>3. Known(x)
    BY <2>1, <2>2 DEF Move
  <2>4. y # x => pc'[y] = pc[y] /\ ret'[y] = ret[y]
    BY <2>1 DEF OnlyMoves
  <2> QED
    BY <2>3, <2>4
<1>2. ASSUME NEW x \in Actors, ThreadStep(x), ~BaseLocal(x)
      PROVE Known(y)
  <2>1. CASE AddThreadStart(x)
    BY <2>1, LabelFacts DEF AddThreadStart, Standing, Return, Goto
  <2>2. CASE GetThreadScan(x) \/ GetThreadOwn(x) \/ GetThreadTake(x) \/ GetThreadMark(x)
    BY <2>2, LabelFacts
       DEF Standing, GetThreadScan, GetThreadOwn, GetThreadTake, GetThreadMark, Goto, Return
  <2>3. CASE AddThreadStore(x) \/ ResizeJoin(x)
    BY <2>3, LabelFacts DEF Standing, AddThreadStore, ResizeJoin, Goto, Return
  <2> QED
    BY <1>2, <2>1, <2>2, <2>3, PoolLocal DEF ThreadStep
<1>3. ASSUME NEW u \in Threads, Park(u) \/ ParkStatus(u) \/ ParkRole(u) \/ GiveUp(u)
      PROVE Known(y)
  BY <1>3, LabelFacts DEF Standing, Park, ParkStatus, ParkRole, GiveUp, Goto
<1>4. ASSUME NEW x \in Actors, ActorStep(x)
      PROVE Known(y)
  <2>1. CASE ServerStep(x)
    BY <1>1, <1>2, <2>1, CloseLocal DEF ServerStep, PoolStep
  <2>2. CASE x \in Threads /\ (MsgRecvStep(x) \/ RecvEpollStep(x) \/ UserStep(x))
    BY <1>1, <1>3, <2>2, MsgRecvLocal, RecvEpollLocal, UserLocal
       DEF MsgRecvStep, RecvEpollStep, UserStep
  <2>3. CASE x = Acceptor /\ (AcceptStep \/ Accept \/ AcceptFails)
    BY <1>1, <2>3, AcceptLocal DEF AcceptStep
  <2> QED
    BY <1>4, <2>1, <2>2, <2>3 DEF ActorStep
<1>5. ASSUME ClientStep \/ UNCHANGED vars
      PROVE Known(y)
  BY <1>5 DEF ClientStep, vars, threadVars
<1> QED
  BY <1>4, <1>5, NextIsActorStep

LEMMA CloseNewEvents ==
  ASSUME WInv, NEW x \in Actors, CloseNew(x)
  PROVE SslEventAtHand'
<1> USE ActorFacts
       DEF Standing, Goto, Call, Return, Set, poolShape, socketVars, epollLocals, slots,
           socketRest, SslEventAtHand, NeedsEvent
<1>1. Standing /\ SslEventAtHand /\ EventAtHand
  BY WInvTyped DEF WInv, Typed, Work
<1>2. ret[x] # "give_ssl"
  BY DEF WInv, Placed, ControlIn, PlacesIn, C, Callers, WssCallers
<1>CloseBaseEnds. CASE CloseBaseEnds(x)
  BY <1>CloseBaseEnds, <1>1, <1>2 DEF CloseBaseEnds
<1>CloseFree. CASE CloseFree(x)
  BY <1>CloseFree, <1>1, <1>2 DEF CloseFree, CloseReturns
<1>CloseForget. CASE CloseForget(x)
  BY <1>CloseForget, <1>1, <1>2 DEF CloseForget
<1>CloseUnmap. CASE CloseUnmap(x)
  BY <1>CloseUnmap, <1>1, <1>2 DEF CloseUnmap, CloseReturns
<1> QED
  BY <1>CloseBaseEnds, <1>CloseFree, <1>CloseForget, <1>CloseUnmap DEF CloseNew

LEMMA ThreadNewEvents ==
  ASSUME WInv, NEW t \in Threads, ThreadNew(t)
  PROVE SslEventAtHand'
<1> USE ActorFacts
       DEF Standing, Goto, Call, Return, Set, poolShape, socketVars, epollLocals, slots,
           socketRest, SslEventAtHand, NeedsEvent
<1>1. Standing /\ SslEventAtHand /\ EventAtHand
  BY WInvTyped DEF WInv, Typed, Work
<1>SslReadLoop. CASE SslReadLoop(t)
  BY <1>SslReadLoop, <1>1 DEF SslReadLoop
<1>SslRefused. CASE SslRefused(t)
  BY <1>SslRefused, <1>1 DEF SslRefused, SslRecv
<1>SslGive. CASE SslGive(t)
  BY <1>SslGive, <1>1 DEF SslGive, EventAtHand, HandingOver
<1>GiveSsl. CASE GiveSsl(t)
  BY <1>GiveSsl, <1>1 DEF GiveSsl
<1>Skip. CASE Skip(t)
  <2>1. \A u \in Threads \ {t} : ~NeedsEvent(u)
    BY <1>Skip DEF Skip, WInv, Placed, ControlIn, RoleIn, R
  <2>2. ret[t] = "none"
    BY <1>Skip DEF Skip, WInv, Placed, ControlIn, CallsReturnIn, S, SubLabels, SslSubLabels
  <2> QED
    BY <1>Skip, <1>1, <2>1, <2>2 DEF Skip
<1>SslGiveStatus. CASE SslGiveStatus(t)
  BY <1>SslGiveStatus, <1>1 DEF SslGiveStatus
<1>SslGiveFd. CASE SslGiveFd(t)
  BY <1>SslGiveFd, <1>1 DEF SslGiveFd
<1>Write. CASE Write(t)
  BY <1>Write, <1>1 DEF Write
<1>WriteLock. CASE WriteLock(t)
  BY <1>WriteLock, <1>1 DEF WriteLock
<1>WriteSucceeds. CASE WriteSucceeds(t)
  BY <1>WriteSucceeds, <1>1 DEF WriteSucceeds, WriteUnlock
<1>SslWriteFails. CASE SslWriteFails(t)
  BY <1>SslWriteFails, <1>1 DEF SslWriteFails, WriteUnlock
<1> QED
  BY <1>SslReadLoop, <1>SslRefused, <1>SslGive, <1>GiveSsl, <1>Skip, <1>SslGiveStatus,
     <1>SslGiveFd, <1>Write, <1>WriteLock, <1>WriteSucceeds, <1>SslWriteFails
     DEF ThreadNew

LEMMA AcceptNewEvents ==
  ASSUME WInv, AcceptNew
  PROVE SslEventAtHand'
<1> USE ActorFacts
       DEF Standing, Goto, Call, Return, Set, poolShape, socketVars, epollLocals, slots,
           socketRest, SslEventAtHand, NeedsEvent
<1>1. Standing /\ SslEventAtHand /\ EventAtHand
  BY WInvTyped DEF WInv, Typed, Work
<1>2. ret[Acceptor] # "give_ssl"
  BY DEF WInv, Placed, ControlIn, PlacesIn, C, Callers, WssCallers
<1>SslAccept. CASE SslAccept
  BY <1>SslAccept, <1>1, <1>2 DEF SslAccept, Accept4
<1>FirstPollFails. CASE FirstPollFails
  BY <1>FirstPollFails, <1>1, <1>2 DEF FirstPollFails
<1>HandshakeBegins. CASE HandshakeBegins
  BY <1>HandshakeBegins, <1>1, <1>2 DEF HandshakeBegins
<1>HandshakeEnds. CASE HandshakeEnds
  BY <1>HandshakeEnds, <1>1, <1>2 DEF HandshakeEnds, CallReset
<1>Reject. CASE Reject
  BY <1>Reject, <1>1, <1>2 DEF Reject, CallReset
<1>SslUpgrade. CASE SslUpgrade
  BY <1>SslUpgrade, <1>1, <1>2 DEF SslUpgrade
<1>MapSsl. CASE MapSsl
  BY <1>MapSsl, <1>1, <1>2 DEF MapSsl, CallReset
<1>RegisterFails. CASE RegisterFails
  BY <1>RegisterFails, <1>1, <1>2 DEF RegisterFails, CallReset
<1>ResetClose. CASE ResetClose
  BY <1>ResetClose, <1>1, <1>2 DEF ResetClose
<1>ResetFree. CASE ResetFree
  BY <1>ResetFree, <1>1, <1>2 DEF ResetFree
<1>Unmap. CASE Unmap
  BY <1>Unmap, <1>1, <1>2 DEF Unmap
<1> QED
  BY <1>SslAccept, <1>FirstPollFails, <1>HandshakeBegins, <1>HandshakeEnds, <1>Reject,
     <1>SslUpgrade, <1>MapSsl, <1>RegisterFails, <1>ResetClose, <1>ResetFree, <1>Unmap
     DEF AcceptNew

LEMMA WssNextEvents ==
  ASSUME WInv, [WssNext]_wssVars
  PROVE SslEventAtHand'
<1>1. CASE NewStep
  BY <1>1, CloseNewEvents, ThreadNewEvents, AcceptNewEvents DEF NewStep
<1>2. CASE [Next]_vars
  <2> SUFFICES ASSUME NEW t \in Threads, NeedsEvent(t)'
               PROVE events' # <<>>
    BY DEF SslEventAtHand
  <2>1. Standing /\ MutexHeld /\ FreeSlotIdle
    BY WInvTyped DEF WInv, Typed, Placed, ControlIn
  <2>2. NeedsEvent(t)
    <3>1. /\ pc'[t] \in Labels \/ pc'[t] \in {pc[t], ret[t]}
          /\ ret'[t] \in Callers \/ ret'[t] \in {"none", ret[t]}
      BY <1>2, <2>1, ActorFacts, BasePlaces
    <3>2. {"give_ssl", "skip"} \intersect Labels = {} /\ "skip" \notin Callers
      BY DEF Labels, RecvLabels, WorkLabels, SubLabels, AcceptLabels, Callers
    <3>3. ret[t] # "give_ssl"
      BY ActorFacts DEF WInv, Placed, ControlIn, PlacesIn, C, Callers, WssCallers
    <3> QED
      BY <3>1, <3>2, <3>3 DEF NeedsEvent
  <2>3. ASSUME NEW u \in Threads, pc[u] \in {"epoll_wait", "events", "give_ctl", "drop"}
        PROVE FALSE
    <3>1. u = t
      BY <2>2, <2>3 DEF NeedsEvent, WInv, Placed, ControlIn, RoleIn, R, RecvLabels
    <3>2. ret[t] = "none"
      BY <2>1, <2>3, <3>1, LabelFacts, ActorFacts DEF Standing, SubLabels
    <3> QED
      BY <2>2, <2>3, <3>1, <3>2 DEF NeedsEvent
  <2> QED
    BY <1>2, <2>2, <2>3, EventsKept DEF EpollWait, Events, GiveCtl, Drop, WInv, SslEventAtHand
<1> QED
  BY <1>1, <1>2, WssStepKinds

-----------------------------------------------------------------------------
(* The tables of SSL objects.  The steps that touch neither the tables nor   *)
(* the places that hold something of them come first.                      *)

TablePlaces ==
  {"recv", "write", "ssl_write", "close_sweep", "close_reset", "clear_pending",
   "close_ssl", "close_forget", "close_unmap", "first_poll", "ssl_accepting", "handshake",
   "map", "set_event", "register", "reset_accept", "reset_free", "unmap"}

SameRow(y) == pc'[y] = pc[y] /\ ret'[y] = ret[y] /\ arg'[y] = arg[y] /\ tmp'[y] = tmp[y]

Away(y) ==
  /\ pc[y] \notin {"close_forget", "close_unmap", "unmap", "set_event", "register"}
  /\ ret[y] # "unmap"
  /\ pc'[y] \notin TablePlaces /\ ret'[y] \notin {"map", "unmap"}

GoesOnClosing(y) ==
  /\ \/ /\ pc[y] \in {"close_sweep", "close_reset"}
        /\ pc'[y] \in {"close_sweep", "close_reset", "clear_pending"}
     \/ pc[y] = "clear_pending" /\ pc'[y] = "close_ssl" /\ Wrapped(y)
     \/ pc[y] = "close_forget" /\ pc'[y] = "close_unmap"
  /\ ret'[y] = ret[y] /\ arg'[y] = arg[y] /\ tmp'[y] = tmp[y]

Aside ==
  /\ UNCHANGED <<ssl_mx, ssl_map, ssl_ptr, objects, conn, accepts>>
  /\ \A s \in Sockets : interest'[s] # "none" => interest[s] # "none"
  /\ ssl' = [t \in Threads |-> ssl'[t]] /\ tmp' = [y \in Actors |-> tmp'[y]]
  /\ \A t \in Threads : \/ ssl'[t] \in {ssl[t], None}
                        \/ \E s \in Descriptors : ssl'[t] = ssl_map[s]
  /\ \A y \in Actors : tmp'[y] \in {tmp[y], None}
  /\ \A y \in Actors : SameRow(y) \/ Away(y) \/ GoesOnClosing(y)

LEMMA AsideKeepsTables ==
  ASSUME Tables, Aside
  PROVE Tables'
<1> USE ActorFacts
       DEF Tables, Aside, objects, SameRow, Away, GoesOnClosing, TablePlaces, Wrapped
<1>1. SslTypeOK'
  <2>1. SslTypeOK
    BY DEF Objects
  <2>2. \A t \in Threads : ssl'[t] \in 1..made \union {None}
    BY <2>1 DEF SslTypeOK
  <2>3. \A y \in Actors : tmp'[y] \in 1..made \union {None}
    BY <2>1 DEF SslTypeOK
  <2>4. ssl' \in [Threads -> 1..made \union {None}] /\ tmp' \in [Actors -> 1..made \union {None}]
    BY <2>2, <2>3
  <2> QED
    BY <2>1, <2>4 DEF SslTypeOK
<1>2. CopiedPtr'
  BY DEF Objects, CopiedPtr
<1>3. ThreadObject' /\ MapNamesOwner' /\ MadeForAccepts'
  <2>1. ThreadObject'
    BY DEF Objects, ThreadObject, MapNamesOwner
  <2>2. MapNamesOwner'
    BY DEF Objects, MapNamesOwner
  <2>3. MadeForAccepts'
    BY DEF Objects, MadeForAccepts
  <2> QED
    BY <2>1, <2>2, <2>3
<1>4. AcceptCalls'
  BY DEF Accepting, AcceptCalls, SubLabels, CloseLabels
<1>5. AcceptorObject'
  BY DEF Accepting, AcceptorObject, AcceptIn
<1>6. ClosersHold'
  BY DEF Holding, ClosersHold, CloseInside
<1>7. SslMxHeld' /\ TurnedDownClosed' /\ RegisteredOpen'
  BY DEF Holding, SslMxHeld, TurnedDownClosed, RegisteredOpen
<1>8. SpareUnmapped'
  BY DEF Mapping, SpareUnmapped, InMap
<1>9. RegisteringMapped' /\ RegisteredHasSsl'
  BY DEF Mapping, RegisteringMapped, RegisteredHasSsl, Live
<1>10. SslMapLive'
  <2> SUFFICES ASSUME NEW s \in Sockets, ssl_map[s] \in freed
               PROVE \E x \in Actors :
                       arg'[x] = s /\ pc'[x] \in {"close_forget", "close_unmap", "unmap"}
    BY DEF SslMapLive
  <2>1. PICK x \in Actors : arg[x] = s /\ pc[x] \in {"close_forget", "close_unmap", "unmap"}
    BY DEF Mapping, SslMapLive
  <2> QED
    BY <2>1
<1> QED
  BY <1>1, <1>2, <1>3, <1>4, <1>5, <1>6, <1>7, <1>8, <1>9, <1>10
     DEF Objects, Accepting, Holding, Mapping

LEMMA InheritedAside ==
  ASSUME WInv, NEW t \in Threads, Base(Inherited(t))
  PROVE Aside
<1> USE ActorFacts
       DEF Standing, Goto, Call, Return, Set, poolShape, epollLocals, socketVars, kernelVars,
           slots, socketRest, sslVars, tables, objects, Base, Aside, SameRow, Away,
           GoesOnClosing, TablePlaces, Wrapped
<1>1. /\ Standing /\ arg = [y \in Actors |-> arg[y]]
      /\ ssl = [u \in Threads |-> ssl[u]] /\ tmp = [y \in Actors |-> tmp[y]]
  BY WInvTyped DEF WInv, Typed, DataTypeOK, SocketTypeOK, Tables, Objects, SslTypeOK
<1>2. \A u \in Threads : ret[u] \notin {"map", "unmap"}
  BY ActorFacts DEF WInv, Tables, Accepting, AcceptCalls
<1>Park. CASE Park(t)
  BY <1>Park, <1>1, <1>2 DEF Park
<1>ParkStatus. CASE ParkStatus(t)
  BY <1>ParkStatus, <1>1, <1>2 DEF ParkStatus
<1>ParkRole. CASE ParkRole(t)
  BY <1>ParkRole, <1>1, <1>2 DEF ParkRole
<1>Wait. CASE Wait(t)
  BY <1>Wait, <1>1, <1>2 DEF Wait
<1>WaitRole. CASE WaitRole(t)
  BY <1>WaitRole, <1>1, <1>2 DEF WaitRole
<1>WaitStatus. CASE WaitStatus(t)
  BY <1>WaitStatus, <1>1, <1>2 DEF WaitStatus
<1>WaitMx. CASE WaitMx(t)
  BY <1>WaitMx, <1>1, <1>2 DEF WaitMx
<1>Woken. CASE Woken(t)
  BY <1>Woken, <1>1, <1>2 DEF Woken
<1>Refuse. CASE Refuse(t)
  BY <1>Refuse, <1>1, <1>2 DEF Refuse, CallClose
<1>Push. CASE Push(t)
  BY <1>Push, <1>1, <1>2 DEF Push
<1>PushPending. CASE PushPending(t)
  BY <1>PushPending, <1>1, <1>2 DEF PushPending
<1>EpollOn. CASE EpollOn(t)
  BY <1>EpollOn, <1>1, <1>2 DEF EpollOn
<1>EpollOnCtl. CASE EpollOnCtl(t)
  BY <1>EpollOnCtl, <1>1, <1>2 DEF EpollOnCtl, EpollMod
<1>Announce. CASE Announce(t)
  BY <1>Announce, <1>1, <1>2 DEF Announce
<1>Announced. CASE Announced(t)
  BY <1>Announced, <1>1, <1>2 DEF Announced
<1>Done. CASE Done(t)
  BY <1>Done, <1>1, <1>2 DEF Done
<1>RecvEpoll. CASE RecvEpoll(t)
  BY <1>RecvEpoll, <1>1, <1>2 DEF RecvEpoll
<1>Scan. CASE Scan(t)
  BY <1>Scan, <1>1, <1>2 DEF Scan
<1>Poll. CASE Poll(t)
  BY <1>Poll, <1>1, <1>2 DEF Poll
<1>EpollWait. CASE EpollWait(t)
  BY <1>EpollWait, <1>1, <1>2 DEF EpollWait
<1>Events. CASE Events(t)
  <2>1. ret'[t] \notin {"map", "unmap"} /\ pc'[t] \notin TablePlaces
    BY <1>Events, <1>1, <1>2 DEF Events
  <2> QED
    BY <1>Events, <2>1, <1>1, <1>2 DEF Events
<1>GiveCtl. CASE GiveCtl(t)
  BY <1>GiveCtl, <1>1, <1>2 DEF GiveCtl, EpollMod
<1>Acknowledge. CASE Acknowledge(t)
  BY <1>Acknowledge, <1>1, <1>2 DEF Acknowledge
<1>Drop. CASE Drop(t)
  <2>1. ret'[t] \notin {"map", "unmap"} /\ pc'[t] \notin TablePlaces
    BY <1>Drop, <1>1, <1>2 DEF Drop
  <2> QED
    BY <1>Drop, <2>1, <1>1, <1>2 DEF Drop
<1>Leave. CASE Leave(t)
  BY <1>Leave, <1>1, <1>2 DEF Leave
<1>GiveUp. CASE GiveUp(t)
  BY <1>GiveUp, <1>1, <1>2 DEF GiveUp
<1> QED
  BY <1>Park, <1>ParkStatus, <1>ParkRole, <1>Wait, <1>WaitRole, <1>WaitStatus, <1>WaitMx,
     <1>Woken, <1>Refuse, <1>Push, <1>PushPending, <1>EpollOn, <1>EpollOnCtl, <1>Announce,
     <1>Announced, <1>Done, <1>RecvEpoll, <1>Scan, <1>Poll, <1>EpollWait, <1>Events, <1>GiveCtl,
     <1>Acknowledge, <1>Drop, <1>Leave, <1>GiveUp
     DEF Inherited

LEMMA PoolAside ==
  ASSUME WInv, NEW x \in Actors, Base(PoolStep(x))
  PROVE Aside
<1> USE ActorFacts
       DEF Standing, Goto, Call, Return, Set, poolShape, epollLocals, socketVars, kernelVars,
           slots, socketRest, sslVars, tables, objects, Base, Aside, SameRow, Away,
           GoesOnClosing, TablePlaces, Wrapped
<1>1. /\ Standing /\ arg = [y \in Actors |-> arg[y]]
      /\ ssl = [u \in Threads |-> ssl[u]] /\ tmp = [y \in Actors |-> tmp[y]]
  BY WInvTyped DEF WInv, Typed, DataTypeOK, SocketTypeOK, Tables, Objects, SslTypeOK
<1>2. \A u \in Threads : ret[u] \notin {"map", "unmap"}
  BY ActorFacts DEF WInv, Tables, Accepting, AcceptCalls
<1>3. UNCHANGED <<socketVars, kernelVars, sslVars>> /\ ThreadStep(x)
  BY DEF PoolStep
<1>4. pc[x] \in SubLabels \ CloseLabels
  BY <1>3
     DEF ThreadStep, GetThreadScan, GetThreadOwn, GetThreadTake, GetThreadMark,
         AddThreadStart, AddThreadStore, ResizeEnd, ResizeLook, ResizeMark, ResizeJoin,
         ResizeClear, ResizeFd, SubLabels, CloseLabels
<1>5. ret[x] \notin {"map", "unmap"} /\ ret[x] \notin TablePlaces
  <2>1. ret[x] \notin {"map", "unmap"}
    BY <1>4 DEF WInv, Tables, Accepting, AcceptCalls, SubLabels, CloseLabels
  <2>2. ret[x] \in Callers \union {"skip", "none", "map", "unmap"}
    BY DEF WInv, Placed, ControlIn, PlacesIn, C, WssCallers
  <2> QED
    BY <2>1, <2>2 DEF Callers
<1>GetThreadScan. CASE GetThreadScan(x)
  BY <1>GetThreadScan, <1>1, <1>2, <1>3, <1>5 DEF GetThreadScan
<1>GetThreadOwn. CASE GetThreadOwn(x)
  BY <1>GetThreadOwn, <1>1, <1>2, <1>3, <1>5 DEF GetThreadOwn
<1>GetThreadTake. CASE GetThreadTake(x)
  BY <1>GetThreadTake, <1>1, <1>2, <1>3, <1>5 DEF GetThreadTake
<1>GetThreadMark. CASE GetThreadMark(x)
  BY <1>GetThreadMark, <1>1, <1>2, <1>3, <1>5 DEF GetThreadMark
<1>AddThreadStart. CASE AddThreadStart(x)
  <2>1. CASE Return(x)
    BY <1>AddThreadStart, <2>1, <1>1, <1>3, <1>5 DEF AddThreadStart
  <2>2. ASSUME NEW a \in Threads, a \in Free, UNCHANGED ret,
               pc' = [pc EXCEPT ![x] = "add_store", ![a] = "msg_recv"]
        PROVE Aside
    <3>1. pc[a] = "off"
      BY <1>AddThreadStart, <2>2, EmptySlot DEF AddThreadStart, WInv, Placed, ControlIn, Free
    <3> QED
      BY <1>AddThreadStart, <2>2, <3>1, <1>1, <1>2, <1>3, <1>5 DEF AddThreadStart
  <2> QED
    BY <1>AddThreadStart, <2>1, <2>2 DEF AddThreadStart, Lowest
<1>AddThreadStore. CASE AddThreadStore(x)
  BY <1>AddThreadStore, <1>1, <1>2, <1>3, <1>5 DEF AddThreadStore
<1>ResizeEnd. CASE ResizeEnd(x)
  BY <1>ResizeEnd, <1>1, <1>2, <1>3, <1>5 DEF ResizeEnd
<1>ResizeLook. CASE ResizeLook(x)
  BY <1>ResizeLook, <1>1, <1>2, <1>3, <1>5 DEF ResizeLook
<1>ResizeMark. CASE ResizeMark(x)
  BY <1>ResizeMark, <1>1, <1>2, <1>3, <1>5 DEF ResizeMark
<1>ResizeJoin. CASE ResizeJoin(x)
  <2>1. pc[sweep.a] = "returned" /\ (sweep.a \in Actors => ret[sweep.a] = "none")
    BY <1>ResizeJoin, <1>1, LabelFacts DEF ResizeJoin, SubLabels
  <2> QED
    BY <1>ResizeJoin, <2>1, <1>1, <1>3, <1>5 DEF ResizeJoin
<1>ResizeClear. CASE ResizeClear(x)
  BY <1>ResizeClear, <1>1, <1>2, <1>3, <1>5 DEF ResizeClear
<1>ResizeFd. CASE ResizeFd(x)
  BY <1>ResizeFd, <1>1, <1>2, <1>3, <1>5 DEF ResizeFd
<1> QED
  BY <1>3, <1>GetThreadScan, <1>GetThreadOwn, <1>GetThreadTake, <1>GetThreadMark,
     <1>AddThreadStart, <1>AddThreadStore, <1>ResizeEnd, <1>ResizeLook, <1>ResizeMark,
     <1>ResizeJoin, <1>ResizeClear, <1>ResizeFd
     DEF ThreadStep

LEMMA ThreadAside ==
  ASSUME WInv, NEW t \in Threads,
         \/ Base(UserReturns(t)) \/ SslPop(t) \/ SslRecv(t) \/ SslGive(t) \/ GiveSsl(t)
         \/ Skip(t) \/ SslGiveStatus(t) \/ SslGiveFd(t)
  PROVE Aside
<1> USE ActorFacts
       DEF Standing, Goto, Call, Return, Set, poolShape, epollLocals, socketVars, kernelVars,
           slots, socketRest, sslVars, tables, objects, Base, Aside, SameRow, Away,
           GoesOnClosing, TablePlaces, Wrapped
<1>1. /\ Standing /\ arg = [y \in Actors |-> arg[y]]
      /\ ssl = [u \in Threads |-> ssl[u]] /\ tmp = [y \in Actors |-> tmp[y]]
  BY WInvTyped DEF WInv, Typed, DataTypeOK, SocketTypeOK, Tables, Objects, SslTypeOK
<1>2. \A u \in Threads : ret[u] \notin {"map", "unmap"}
  BY ActorFacts DEF WInv, Tables, Accepting, AcceptCalls
<1>3. /\ pending # <<>> => Head(pending) \in Descriptors
      /\ events # <<>> => Head(events).fd \in Descriptors
  <2>1. pending \in Seq(Descriptors) /\ events \in Seq([fd : Descriptors, hup : BOOLEAN])
    BY DEF WInv, DataTypeOK, SocketTypeOK
  <2>2. pending # <<>> => Head(pending) \in Descriptors
    BY <2>1, PopTypes
  <2>3. events # <<>> => Head(events) \in [fd : Descriptors, hup : BOOLEAN]
    BY <2>1, PopTypes
  <2> QED
    BY <2>2, <2>3
<1>4. pc[t] = "give_ssl" => events # <<>>
  BY DEF WInv, SslEventAtHand, NeedsEvent
<1>UserReturns. CASE Base(UserReturns(t))
  BY <1>UserReturns, <1>1, <1>2, <1>3, <1>4 DEF UserReturns
<1>SslPop. CASE SslPop(t)
  <2>1. /\ UNCHANGED <<ssl_mx, ssl_map, ssl_ptr, tmp, objects, kernelVars, arg>>
        /\ ssl' = ssl \/ \E s \in Descriptors : ssl' = [ssl EXCEPT ![t] = ssl_map[s]]
    BY <1>SslPop, <1>3 DEF SslPop, MsgRecv, Prefix, FindSsl
  <2>2. /\ pc[t] \in {"msg_recv", "prefix"} /\ pc'[t] \in {"user", "park"} /\ UNCHANGED ret
        /\ \A y \in Actors \ {t} : pc'[y] = pc[y]
    BY <1>SslPop, <1>1 DEF SslPop, MsgRecv, Prefix
  <2> QED
    BY <2>1, <2>2, <1>1, <1>2
<1>SslRecv. CASE SslRecv(t)
  <2>1. /\ UNCHANGED <<ssl_mx, ssl_map, ssl_ptr, objects, conn, accepts, interest, ssl>>
        /\ tmp' = [tmp EXCEPT ![t] = None]
    BY <1>SslRecv DEF SslRecv, Recv
  <2>2. /\ pc[t] = "recv" /\ pc'[t] \in {"push", "refuse"} /\ UNCHANGED ret
        /\ \A y \in Actors \ {t} : pc'[y] = pc[y] /\ arg'[y] = arg[y]
    BY <1>SslRecv, <1>1 DEF SslRecv, Recv
  <2> QED
    BY <2>1, <2>2, <1>1, <1>2
<1>SslGive. CASE SslGive(t)
  BY <1>SslGive, <1>1, <1>2, <1>3, <1>4 DEF SslGive
<1>GiveSsl. CASE GiveSsl(t)
  <2>1. /\ UNCHANGED <<ssl_mx, ssl_map, ssl_ptr, tmp, objects, kernelVars>>
        /\ \E s \in Descriptors : ssl' = [ssl EXCEPT ![b] = ssl_map[s]]
    BY <1>GiveSsl, <1>3, <1>4 DEF GiveSsl
  <2>2. /\ pc[t] = "give_ssl" /\ pc'[t] \in {"close_socket", "give_status"}
        /\ ret'[t] \in {ret[t], "skip"}
        /\ \A y \in Actors \ {t} : pc'[y] = pc[y] /\ ret'[y] = ret[y] /\ arg'[y] = arg[y]
    BY <1>GiveSsl, <1>1 DEF GiveSsl
  <2>3. \A y \in Actors : SameRow(y) \/ Away(y)
    BY <2>1, <2>2, <1>2
  <2>4. \A u \in Threads : ssl'[u] = ssl[u] \/ \E s \in Descriptors : ssl'[u] = ssl_map[s]
    BY <2>1, <1>1
  <2> QED
    BY <2>1, <2>3, <2>4, <1>1
<1>Skip. CASE Skip(t)
  BY <1>Skip, <1>1, <1>2, <1>3, <1>4 DEF Skip
<1>SslGiveStatus. CASE SslGiveStatus(t)
  BY <1>SslGiveStatus, <1>1, <1>2, <1>3, <1>4 DEF SslGiveStatus
<1>SslGiveFd. CASE SslGiveFd(t)
  BY <1>SslGiveFd, <1>1, <1>2, <1>3, <1>4 DEF SslGiveFd
<1> QED
  BY <1>UserReturns, <1>SslPop, <1>SslRecv, <1>SslGive, <1>GiveSsl, <1>Skip, <1>SslGiveStatus,
     <1>SslGiveFd

LEMMA CloseAside ==
  ASSUME WInv, NEW x \in Actors,
         \/ CloseClear(x) \/ Base(CloseSweep(x)) \/ Base(CloseReset(x))
         \/ CloseBaseEnds(x) \/ CloseForget(x)
  PROVE Aside
<1> USE ActorFacts
       DEF Standing, Goto, Call, Return, Set, poolShape, epollLocals, socketVars, kernelVars,
           slots, socketRest, sslVars, tables, objects, Base, Aside, SameRow, Away,
           GoesOnClosing, TablePlaces, Wrapped
<1>1. /\ Standing /\ arg = [y \in Actors |-> arg[y]]
      /\ ssl = [u \in Threads |-> ssl[u]] /\ tmp = [y \in Actors |-> tmp[y]]
  BY WInvTyped DEF WInv, Typed, DataTypeOK, SocketTypeOK, Tables, Objects, SslTypeOK
<1>2. \A u \in Threads : ret[u] \notin {"map", "unmap"}
  BY ActorFacts DEF WInv, Tables, Accepting, AcceptCalls
<1>CloseClear. CASE CloseClear(x)
  BY <1>CloseClear, <1>1, <1>2 DEF CloseClear, ClearPending
<1>CloseSweep. CASE Base(CloseSweep(x))
  BY <1>CloseSweep, <1>1, <1>2 DEF CloseSweep, NextSwept
<1>CloseReset. CASE Base(CloseReset(x))
  BY <1>CloseReset, <1>1, <1>2 DEF CloseReset, NextSwept
<1>CloseBaseEnds. CASE CloseBaseEnds(x)
  BY <1>CloseBaseEnds, <1>1, <1>2 DEF CloseBaseEnds
<1>CloseForget. CASE CloseForget(x)
  BY <1>CloseForget, <1>1, <1>2 DEF CloseForget
<1> QED
  BY <1>CloseClear, <1>CloseSweep, <1>CloseReset, <1>CloseBaseEnds, <1>CloseForget

LEMMA OtherAside ==
  ASSUME WInv,
         Base(StartThread) \/ Base(AcceptFails) \/ Base(ClientStep) \/ UNCHANGED wssVars
  PROVE Aside
<1> USE ActorFacts
       DEF Standing, Goto, Call, Return, Set, poolShape, epollLocals, socketVars, kernelVars,
           slots, socketRest, sslVars, tables, objects, Base, Aside, SameRow, Away,
           GoesOnClosing, TablePlaces, Wrapped
<1>1. /\ Standing /\ arg = [y \in Actors |-> arg[y]]
      /\ ssl = [u \in Threads |-> ssl[u]] /\ tmp = [y \in Actors |-> tmp[y]]
  BY WInvTyped DEF WInv, Typed, DataTypeOK, SocketTypeOK, Tables, Objects, SslTypeOK
<1>2. \A u \in Threads : ret[u] \notin {"map", "unmap"}
  BY ActorFacts DEF WInv, Tables, Accepting, AcceptCalls
<1>StartThread. CASE Base(StartThread)
  <2>1. ret[Acceptor] = "none"
    BY <1>StartThread, <1>1, LabelFacts DEF StartThread, SubLabels
  <2> QED
    BY <1>StartThread, <2>1, <1>1, <1>2 DEF StartThread
<1>AcceptFails. CASE Base(AcceptFails)
  <2>1. ret[Acceptor] = "none"
    BY <1>AcceptFails, <1>1, LabelFacts DEF AcceptFails, SubLabels
  <2> QED
    BY <1>AcceptFails, <2>1, <1>1, <1>2 DEF AcceptFails
<1>ClientStep. CASE Base(ClientStep)
  BY <1>ClientStep, <1>1
     DEF ClientStep, PeerStep, PeerSends, PeerFinishes, PeerResets, threadVars
<1>stutter. CASE UNCHANGED wssVars
  BY <1>stutter, <1>1 DEF wssVars, vars, threadVars
<1> QED
  BY <1>StartThread, <1>AcceptFails, <1>ClientStep, <1>stutter

LEMMA ObjectFacts ==
  ASSUME SslTypeOK
  PROVE /\ None \notin Sockets /\ None \notin 1..made /\ None \notin freed
        /\ 1..made \subseteq 1 .. MaxAccepts + 1
BY KernelAssumption DEF SslTypeOK, None

LEMMA TableFacts ==
  ASSUME WInv
  PROVE /\ Standing /\ arg \in [Actors -> Descriptors]
        /\ conn \in [Sockets -> {"free", "new", "open"}]
        /\ interest \in [Sockets -> {"none", "in", "hup"}] /\ accepts \in 0..MaxAccepts
        /\ SslTypeOK /\ CopiedPtr /\ ThreadObject /\ MapNamesOwner /\ MadeForAccepts
        /\ AcceptCalls /\ AcceptorObject
        /\ ClosersHold /\ SslMxHeld /\ TurnedDownClosed /\ RegisteredOpen
        /\ SpareUnmapped /\ RegisteringMapped /\ SslMapLive /\ RegisteredHasSsl
        /\ None \notin Sockets /\ None \notin 1..made /\ None \notin freed
        /\ 1..made \subseteq 1 .. MaxAccepts + 1
BY WInvTyped, ObjectFacts
   DEF WInv, Typed, DataTypeOK, SocketTypeOK, KernelTypeOK, Tables, Objects, Accepting, Holding,
       Mapping

(* What close_socket holds while it works on the tables, and where it      *)
(* returns to.                                                             *)
LEMMA CloserFacts ==
  ASSUME WInv, NEW x \in Actors, pc[x] \in {"close_ssl", "close_forget", "close_unmap"}
  PROVE /\ arg[x] \in Sockets /\ conn[arg[x]] # "open" /\ ssl_mx = x
        /\ \A y \in Actors \ {x} : pc[y] \in CloseInside => ~Wrapped(y)
        /\ pc[Acceptor] # "ssl_accepting" /\ \A t \in Threads : pc[t] # "ssl_write"
        /\ ret[x] = "map" \/ ret[x] \notin TablePlaces
        /\ ret[x] # "unmap" /\ (ret[x] = "map" => x = Acceptor)
<1>1. ClosersHold /\ SslMxHeld /\ AcceptCalls /\ arg[x] \in Descriptors
  BY TableFacts
<1>2. arg[x] \in Sockets /\ conn[arg[x]] # "open" /\ ssl_mx = x
  BY <1>1 DEF ClosersHold, CloseInside, Descriptors
<1>3. ret[x] \in Callers \union {"skip", "none", "map", "unmap"}
  BY DEF WInv, Placed, ControlIn, PlacesIn, C, WssCallers
<1>4. ret[x] # "unmap" /\ (ret[x] = "map" => x = Acceptor)
  BY <1>1 DEF AcceptCalls
<1>5. ret[x] = "map" \/ ret[x] \notin TablePlaces
  BY <1>3, <1>4 DEF Callers, TablePlaces
<1>6. \A y \in Actors \ {x} : pc[y] \in CloseInside => ~Wrapped(y)
  BY <1>1, <1>2 DEF ClosersHold
<1>7. pc[Acceptor] # "ssl_accepting" /\ \A t \in Threads : pc[t] # "ssl_write"
  BY <1>1, <1>2, ActorFacts DEF SslMxHeld
<1> QED
  BY <1>2, <1>4, <1>5, <1>6, <1>7

(* A close ends: its socket has no entry any more.                         *)
LEMMA ClearedTables ==
  ASSUME WInv, NEW x \in Actors, pc[x] \in {"close_ssl", "close_unmap"},
         ssl_map' = Set(ssl_map, arg[x], None), CloseReturns(x),
         UNCHANGED <<ssl, ssl_ptr, objects, conn, interest, accepts>>
  PROVE Tables'
<1> USE ActorFacts DEF CloseReturns, Return, Goto, Set, objects, Wrapped
<1>1. /\ Standing /\ arg \in [Actors -> Descriptors]
      /\ SslTypeOK /\ CopiedPtr /\ ThreadObject /\ MapNamesOwner /\ MadeForAccepts
      /\ AcceptCalls /\ AcceptorObject
      /\ ClosersHold /\ SslMxHeld /\ TurnedDownClosed /\ RegisteredOpen
      /\ SpareUnmapped /\ RegisteringMapped /\ SslMapLive /\ RegisteredHasSsl
      /\ None \notin freed
  BY TableFacts
<1>2. /\ arg[x] \in Sockets /\ conn[arg[x]] # "open" /\ ssl_mx = x
      /\ \A y \in Actors \ {x} : pc[y] \in CloseInside => ~Wrapped(y)
      /\ pc[Acceptor] # "ssl_accepting" /\ \A t \in Threads : pc[t] # "ssl_write"
      /\ ret[x] = "map" \/ ret[x] \notin TablePlaces
      /\ ret[x] # "unmap" /\ (ret[x] = "map" => x = Acceptor)
  BY CloserFacts
<1>3. /\ pc'[x] = ret[x] /\ ret'[x] = "none"
      /\ \A y \in Actors \ {x} : pc'[y] = pc[y] /\ ret'[y] = ret[y] /\ arg'[y] = arg[y] /\ tmp'[y] = tmp[y]
  BY <1>1 DEF Standing, SslTypeOK
<1>4. /\ ssl_map'[arg[x]] = None
      /\ \A s \in Descriptors \ {arg[x]} : ssl_map'[s] = ssl_map[s]
  BY <1>1, <1>2 DEF SslTypeOK, Descriptors
<1>5. Objects'
  <2>1. SslTypeOK'
    BY <1>1 DEF SslTypeOK
  <2>2. CopiedPtr'
    BY <1>1, <1>2, <1>3 DEF CopiedPtr, TablePlaces
  <2>3. ThreadObject' /\ MapNamesOwner'
    BY <1>1, <1>4 DEF ThreadObject, MapNamesOwner
  <2>4. MadeForAccepts'
    BY <1>1, <1>2, <1>3 DEF MadeForAccepts, TablePlaces
  <2> QED
    BY <2>1, <2>2, <2>3, <2>4 DEF Objects
<1>6. Accepting'
  BY <1>1, <1>2, <1>3
     DEF Accepting, AcceptCalls, AcceptorObject, AcceptIn, TablePlaces, SubLabels, CloseLabels
<1>7. Holding'
  <2>1. ClosersHold'
    BY <1>1, <1>2, <1>3 DEF ClosersHold, CloseInside, TablePlaces
  <2>2. SslMxHeld'
    BY <1>2, <1>3 DEF SslMxHeld, TablePlaces
  <2>3. TurnedDownClosed' /\ RegisteredOpen'
    BY <1>1, <1>2, <1>3 DEF TurnedDownClosed, RegisteredOpen, TablePlaces
  <2> QED
    BY <2>1, <2>2, <2>3 DEF Holding
<1>8. Mapping'
  <2>1. SpareUnmapped'
    BY <1>1, <1>2, <1>3, <1>4 DEF SpareUnmapped, InMap, TablePlaces
  <2>2. RegisteringMapped'
    <3> SUFFICES ASSUME pc'[Acceptor] \in {"set_event", "register"}, conn[arg'[Acceptor]] = "open"
                 PROVE ssl_map'[arg'[Acceptor]] = ssl_ptr /\ ssl_ptr \notin freed
      BY DEF RegisteringMapped
    <3>1. x # Acceptor
      BY <1>2, <1>3 DEF TablePlaces
    <3> QED
      BY <3>1, <1>1, <1>2, <1>3, <1>4 DEF RegisteringMapped
  <2>3. SslMapLive'
    <3> SUFFICES ASSUME NEW s \in Sockets, ssl_map'[s] \in freed
                 PROVE \E y \in Actors :
                         arg'[y] = s /\ pc'[y] \in {"close_forget", "close_unmap", "unmap"}
      BY DEF SslMapLive
    <3>1. s # arg[x] /\ ssl_map[s] \in freed
      BY <1>1, <1>4 DEF Descriptors
    <3>2. PICK y \in Actors : arg[y] = s /\ pc[y] \in {"close_forget", "close_unmap", "unmap"}
      BY <3>1, <1>1 DEF SslMapLive
    <3> QED
      BY <3>1, <3>2, <1>3
  <2>4. RegisteredHasSsl'
    BY <1>1, <1>2, <1>4 DEF RegisteredHasSsl, RegisteredOpen, Live, Descriptors
  <2> QED
    BY <2>1, <2>2, <2>3, <2>4 DEF Mapping
<1> QED
  BY <1>5, <1>6, <1>7, <1>8 DEF Tables

(* A close frees the object of its socket: no other socket has that one,   *)
(* and start_accept does not work with it.                                 *)
LEMMA FreedTables ==
  ASSUME WInv, NEW x \in Actors, CloseFree(x), ssl_map[arg[x]] # None
  PROVE Tables'
<1> USE ActorFacts DEF Goto, Set, kernelVars, tables, Wrapped
<1>1. /\ Standing /\ arg \in [Actors -> Descriptors]
      /\ SslTypeOK /\ CopiedPtr /\ ThreadObject /\ MapNamesOwner /\ MadeForAccepts
      /\ AcceptCalls /\ AcceptorObject
      /\ ClosersHold /\ SslMxHeld /\ TurnedDownClosed /\ RegisteredOpen
      /\ SpareUnmapped /\ RegisteringMapped /\ SslMapLive /\ RegisteredHasSsl
  BY TableFacts
<1>2. arg[x] \in Sockets /\ conn[arg[x]] # "open" /\ pc[x] = "close_ssl"
  BY CloserFacts DEF CloseFree
<1> DEFINE p == ssl_map[arg[x]]
<1>3. /\ freed' = freed \union {p} /\ tmp' = Set(tmp, x, p)
      /\ UNCHANGED <<ssl_mx, ret, arg, ssl, ssl_map, ssl_ptr, made, fd_of, conn, interest, accepts>>
      /\ pc' = [pc EXCEPT ![x] = "close_forget"]
  BY DEF CloseFree
<1>4. p \in 1..made /\ fd_of[p] = arg[x]
  BY <1>1, <1>2 DEF SslTypeOK, MapNamesOwner, Descriptors
<1>5. /\ pc'[x] = "close_forget"
      /\ \A y \in Actors \ {x} : pc'[y] = pc[y] /\ tmp'[y] = tmp[y]
  BY <1>1, <1>3 DEF Standing, SslTypeOK
<1>6. \A s \in Sockets : s # arg[x] => ssl_map[s] # p
  BY <1>1, <1>4 DEF MapNamesOwner, Descriptors
<1> HIDE DEF p
<1>7. Objects'
  BY <1>1, <1>2, <1>3, <1>4, <1>5
     DEF Objects, SslTypeOK, CopiedPtr, ThreadObject, MapNamesOwner, MadeForAccepts
<1>8. Accepting'
  BY <1>1, <1>2, <1>3, <1>5
     DEF Accepting, AcceptCalls, AcceptorObject, AcceptIn, SubLabels, CloseLabels
<1>9. Holding'
  BY <1>1, <1>2, <1>3, <1>5
     DEF Holding, ClosersHold, CloseInside, SslMxHeld, TurnedDownClosed, RegisteredOpen
<1>10. Mapping'
  <2>1. SpareUnmapped'
    BY <1>1, <1>2, <1>3, <1>5 DEF SpareUnmapped, InMap, p, Descriptors
  <2>2. RegisteringMapped'
    <3> SUFFICES ASSUME pc'[Acceptor] \in {"set_event", "register"}, conn[arg[Acceptor]] = "open"
                 PROVE ssl_map[arg[Acceptor]] = ssl_ptr /\ ssl_ptr \notin freed'
      BY <1>3 DEF RegisteringMapped
    <3>1. ssl_map[arg[Acceptor]] = ssl_ptr /\ ssl_ptr \notin freed
      BY <1>1, <1>5 DEF RegisteringMapped
    <3>2. arg[Acceptor] = fd_of[ssl_ptr]
      BY <1>1, <1>5 DEF AcceptorObject
    <3> QED
      BY <3>1, <3>2, <1>2, <1>3, <1>4
  <2>3. SslMapLive'
    <3> SUFFICES ASSUME NEW s \in Sockets, ssl_map[s] \in freed'
                 PROVE \E y \in Actors :
                         arg[y] = s /\ pc'[y] \in {"close_forget", "close_unmap", "unmap"}
      BY <1>3 DEF SslMapLive
    <3>1. CASE s = arg[x]
      BY <3>1, <1>5
    <3>2. CASE s # arg[x]
      <4>1. ssl_map[s] \in freed
        BY <3>2, <1>3, <1>6
      <4>2. PICK y \in Actors : arg[y] = s /\ pc[y] \in {"close_forget", "close_unmap", "unmap"}
        BY <4>1, <1>1 DEF SslMapLive
      <4> QED
        BY <4>2, <1>5
    <3> QED
      BY <3>1, <3>2
  <2>4. RegisteredHasSsl'
    BY <1>1, <1>2, <1>3, <1>6 DEF RegisteredHasSsl, RegisteredOpen, Live
  <2> QED
    BY <2>1, <2>2, <2>3, <2>4 DEF Mapping
<1> QED
  BY <1>7, <1>8, <1>9, <1>10 DEF Tables

(* The base's close_socket takes the socket away from its threads, or     *)
(* finds that the socket was closed before.                                *)
LEMMA CloseBaseTables ==
  ASSUME WInv, NEW x \in Actors, CloseBase(x)
  PROVE Tables'
<1> USE ActorFacts DEF Goto, Set, tables, objects, Wrapped
<1>1. /\ Standing /\ arg \in [Actors -> Descriptors]
      /\ conn \in [Sockets -> {"free", "new", "open"}]
      /\ interest \in [Sockets -> {"none", "in", "hup"}] /\ accepts \in 0..MaxAccepts
      /\ SslTypeOK /\ CopiedPtr /\ ThreadObject /\ MapNamesOwner /\ MadeForAccepts
      /\ AcceptCalls /\ AcceptorObject
      /\ ClosersHold /\ SslMxHeld /\ TurnedDownClosed /\ RegisteredOpen
      /\ SpareUnmapped /\ RegisteringMapped /\ SslMapLive /\ RegisteredHasSsl
      /\ None \notin Sockets /\ None \notin 1..made /\ None \notin freed
      /\ 1..made \subseteq 1 .. MaxAccepts + 1
  BY TableFacts
<1>2. pc[x] = "close_socket" /\ ret[x] # "unmap" /\ (ret[x] = "map" => x = Acceptor)
  BY <1>1 DEF CloseBase, CloseSocket, AcceptCalls
<1>3. ret[x] = "map" \/ ret[x] \notin TablePlaces
  <2>1. ret[x] \in Callers \union {"skip", "none", "map", "unmap"}
    BY DEF WInv, Placed, ControlIn, PlacesIn, C, WssCallers
  <2> QED
    BY <1>2, <2>1 DEF Callers, TablePlaces
<1>4. /\ UNCHANGED <<arg, ssl, ssl_map, ssl_ptr, tmp, made, freed, fd_of, accepts>>
      /\ Wrapped(x) => ssl_mx = x
      /\ ssl_mx' = IF arg[x] = None /\ Wrapped(x) THEN None ELSE ssl_mx
  BY DEF CloseBase, CloseSocket, CloseFd, kernelVars
<1>5. CASE arg[x] = None
  <2>1. UNCHANGED <<conn, interest>> /\ Return(x)
    BY <1>5 DEF CloseBase, CloseSocket, kernelVars
  <2>2. /\ pc'[x] = ret[x] /\ ret'[x] = "none"
        /\ \A y \in Actors \ {x} : pc'[y] = pc[y] /\ ret'[y] = ret[y]
    BY <2>1, <1>1 DEF Return, Standing
  <2>3. Objects'
    BY <1>1, <1>2, <1>3, <1>4, <2>1, <2>2
       DEF Objects, SslTypeOK, CopiedPtr, ThreadObject, MapNamesOwner, MadeForAccepts,
           TablePlaces
  <2>4. Accepting'
    BY <1>1, <1>2, <1>3, <1>4, <2>1, <2>2
       DEF Accepting, AcceptCalls, AcceptorObject, AcceptIn, TablePlaces, SubLabels, CloseLabels
  <2>5. Holding'
    <3>1. ClosersHold'
      <4> SUFFICES ASSUME NEW y \in Actors, pc'[y] \in CloseInside
                   PROVE /\ arg[y] # None
                         /\ ret'[y] # "skip" => ssl_mx' = y /\ conn[arg[y]] # "open"
                         /\ pc'[y] \notin {"close_sweep", "close_reset", "clear_pending"}
                              => ret'[y] # "skip"
        BY <1>4, <2>1 DEF ClosersHold
      <4>1. y # x
        BY <1>3, <2>2 DEF CloseInside, TablePlaces
      <4>2. ret[y] # "skip" => ssl_mx' = ssl_mx
        BY <4>1, <2>2, <1>1, <1>4 DEF ClosersHold
      <4> QED
        BY <4>1, <4>2, <2>2, <1>1 DEF ClosersHold
    <3>2. SslMxHeld'
      BY <1>1, <1>2, <1>3, <1>4, <2>2 DEF SslMxHeld, TablePlaces
    <3>3. TurnedDownClosed' /\ RegisteredOpen'
      BY <1>1, <1>2, <1>3, <1>4, <2>1, <2>2 DEF TurnedDownClosed, RegisteredOpen, TablePlaces
    <3> QED
      BY <3>1, <3>2, <3>3 DEF Holding
  <2>6. Mapping'
    <3>1. SpareUnmapped' /\ RegisteringMapped' /\ RegisteredHasSsl'
      BY <1>1, <1>2, <1>3, <1>4, <2>1, <2>2
         DEF SpareUnmapped, InMap, RegisteringMapped, RegisteredHasSsl, Live, TablePlaces
    <3>2. SslMapLive'
      BY <1>1, <1>2, <1>4, <2>2 DEF SslMapLive
    <3> QED
      BY <3>1, <3>2 DEF Mapping
  <2> QED
    BY <2>3, <2>4, <2>5, <2>6 DEF Tables
<1>6. CASE arg[x] # None
  <2>1. /\ UNCHANGED <<ssl_mx, ret>> /\ pc' = [pc EXCEPT ![x] = "close_sweep"]
        /\ conn' = [conn EXCEPT ![arg[x]] = "free"]
        /\ interest' = [interest EXCEPT ![arg[x]] = "none"]
    BY <1>6, <1>4 DEF CloseBase, CloseSocket, CloseFd
  <2>2. /\ arg[x] \in Sockets /\ conn'[arg[x]] = "free"
        /\ \A s \in Sockets : /\ conn'[s] = "open" => conn[s] = "open"
                              /\ interest'[s] # "none" => s # arg[x] /\ interest[s] # "none"
    BY <1>1, <1>6, <2>1 DEF Descriptors
  <2>3. pc'[x] = "close_sweep" /\ \A y \in Actors \ {x} : pc'[y] = pc[y]
    BY <2>1, <1>1 DEF Standing
  <2>4. Objects'
    BY <1>1, <1>2, <1>4, <2>1, <2>3
       DEF Objects, SslTypeOK, CopiedPtr, ThreadObject, MapNamesOwner, MadeForAccepts
  <2>5. Accepting'
    BY <1>1, <1>2, <1>4, <2>1, <2>3
       DEF Accepting, AcceptCalls, AcceptorObject, AcceptIn, SubLabels, CloseLabels
  <2>6. Holding'
    <3>1. ClosersHold'
      BY <1>1, <1>4, <1>6, <2>1, <2>2, <2>3 DEF ClosersHold, CloseInside, Descriptors
    <3>2. SslMxHeld' /\ TurnedDownClosed'
      BY <1>1, <1>4, <2>1, <2>2, <2>3 DEF SslMxHeld, TurnedDownClosed, Descriptors
    <3>3. RegisteredOpen'
      BY <1>1, <2>1, <2>2 DEF RegisteredOpen
    <3> QED
      BY <3>1, <3>2, <3>3 DEF Holding
  <2>7. Mapping'
    <3>1. SpareUnmapped' /\ RegisteredHasSsl'
      BY <1>1, <1>2, <1>4, <2>1, <2>2, <2>3 DEF SpareUnmapped, InMap, RegisteredHasSsl, Live
    <3>2. SslMapLive'
      BY <1>1, <1>2, <1>4, <2>3 DEF SslMapLive
    <3>3. RegisteringMapped'
      BY <1>1, <1>4, <2>1, <2>2, <2>3 DEF RegisteringMapped, AcceptorObject, AcceptIn
    <3> QED
      BY <3>1, <3>2, <3>3 DEF Mapping
  <2> QED
    BY <2>4, <2>5, <2>6, <2>7 DEF Tables
<1> QED
  BY <1>5, <1>6

(* start_accept gives the object at hand, or a new one, the descriptor of  *)
(* its socket: no table names that object.                                 *)
LEMMA HandshakeTables ==
  ASSUME WInv, HandshakeBegins
  PROVE Tables'
<1> USE ActorFacts DEF Goto, Set, tables, kernelVars, socketVars
<1>1. /\ Standing /\ arg \in [Actors -> Descriptors]
      /\ conn \in [Sockets -> {"free", "new", "open"}]
      /\ interest \in [Sockets -> {"none", "in", "hup"}] /\ accepts \in 0..MaxAccepts
      /\ SslTypeOK /\ CopiedPtr /\ ThreadObject /\ MapNamesOwner /\ MadeForAccepts
      /\ AcceptCalls /\ AcceptorObject
      /\ ClosersHold /\ SslMxHeld /\ TurnedDownClosed /\ RegisteredOpen
      /\ SpareUnmapped /\ RegisteringMapped /\ SslMapLive /\ RegisteredHasSsl
      /\ None \notin Sockets /\ None \notin 1..made /\ None \notin freed
      /\ 1..made \subseteq 1 .. MaxAccepts + 1
  BY TableFacts
<1>2. /\ pc[Acceptor] = "first_poll" /\ ssl_mx = None /\ ssl_mx' = Acceptor
      /\ pc' = [pc EXCEPT ![Acceptor] = "ssl_accepting"]
      /\ fd_of' = [fd_of EXCEPT ![ssl_ptr'] = arg[Acceptor]]
      /\ UNCHANGED <<ret, arg, ssl, ssl_map, tmp, freed, conn, interest, accepts>>
  BY DEF HandshakeBegins
<1>3. ret[Acceptor] = "none"
  BY <1>2 DEF WInv, Placed, ControlIn, CallsReturnIn, S, SubLabels, SslSubLabels
<1>4. arg[Acceptor] \in Sockets
  BY <1>1, <1>2 DEF AcceptorObject
<1>5. /\ made \in 1 .. MaxAccepts + 1 /\ made' \in 1 .. MaxAccepts + 1 /\ made' <= accepts + 1
      /\ 1..made \subseteq 1..made' /\ ssl_ptr' \in 1..made' /\ ssl_ptr' \in 1 .. MaxAccepts + 1
  BY <1>1, <1>2, KernelAssumption DEF HandshakeBegins, SslTypeOK, MadeForAccepts
<1>6. /\ ssl_ptr' \notin freed
      /\ \A s \in Descriptors : ssl_map[s] # ssl_ptr'
  <2>1. CASE ssl_ptr # None /\ UNCHANGED <<ssl_ptr, made>>
    BY <2>1, <1>1, <1>2, <1>3 DEF SpareUnmapped, InMap
  <2>2. CASE ssl_ptr' = made + 1
    <3>1. made + 1 \notin 1..made /\ made + 1 # None
      BY <1>5 DEF None
    <3> QED
      BY <2>2, <3>1, <1>1 DEF SslTypeOK
  <2> QED
    BY <2>1, <2>2 DEF HandshakeBegins
<1>7. /\ fd_of'[ssl_ptr'] = arg[Acceptor]
      /\ \A q \in 1 .. MaxAccepts + 1 : q # ssl_ptr' => fd_of'[q] = fd_of[q]
  BY <1>1, <1>2, <1>5 DEF SslTypeOK
<1>8. pc'[Acceptor] = "ssl_accepting" /\ \A y \in Actors \ {Acceptor} : pc'[y] = pc[y]
  BY <1>1, <1>2 DEF Standing
<1>9. Objects'
  <2>1. SslTypeOK'
    <3>1. /\ freed \subseteq 1..made' /\ ssl \in [Threads -> 1..made' \union {None}]
          /\ ssl_map \in [Descriptors -> 1..made' \union {None}]
          /\ tmp \in [Actors -> 1..made' \union {None}]
      BY <1>1, <1>5 DEF SslTypeOK
    <3>2. fd_of' \in [1 .. MaxAccepts + 1 -> Descriptors]
      BY <1>1, <1>2, <1>4 DEF SslTypeOK, Descriptors
    <3> QED
      BY <3>1, <3>2, <1>2, <1>5 DEF SslTypeOK
  <2>2. CopiedPtr'
    BY <1>1, <1>2, <1>8 DEF CopiedPtr
  <2>3. ThreadObject'
    <3> SUFFICES ASSUME NEW t \in Threads, ssl[t] # None
                 PROVE fd_of'[ssl[t]] \in Sockets
      BY <1>2 DEF ThreadObject
    <3>1. ssl[t] \in 1 .. MaxAccepts + 1 /\ fd_of[ssl[t]] \in Sockets
      BY <1>1 DEF ThreadObject, SslTypeOK
    <3> QED
      BY <3>1, <1>4, <1>7
  <2>4. MapNamesOwner'
    <3> SUFFICES ASSUME NEW s \in Descriptors, ssl_map[s] # None
                 PROVE s \in Sockets /\ fd_of'[ssl_map[s]] = s
      BY <1>2 DEF MapNamesOwner
    <3>1. ssl_map[s] \in 1 .. MaxAccepts + 1 /\ s \in Sockets /\ fd_of[ssl_map[s]] = s
      BY <1>1 DEF MapNamesOwner, SslTypeOK
    <3> QED
      BY <3>1, <1>6, <1>7
  <2>5. MadeForAccepts'
    BY <1>2, <1>5, <1>8 DEF MadeForAccepts
  <2> QED
    BY <2>1, <2>2, <2>3, <2>4, <2>5 DEF Objects
<1>10. Accepting'
  <2>1. AcceptCalls'
    BY <1>1, <1>2, <1>3, <1>8 DEF AcceptCalls
  <2>2. AcceptorObject'
    <3>1. ssl_ptr' # None /\ fd_of'[ssl_ptr'] \in Sockets
      BY <1>4, <1>5, <1>7 DEF None
    <3> QED
      BY <3>1, <1>8 DEF AcceptorObject
  <2> QED
    BY <2>1, <2>2 DEF Accepting
<1>11. Holding'
  BY <1>1, <1>2, <1>8
     DEF Holding, ClosersHold, CloseInside, SslMxHeld, TurnedDownClosed, RegisteredOpen, Wrapped
<1>12. Mapping'
  <2>1. SpareUnmapped'
    BY <1>2, <1>6 DEF SpareUnmapped
  <2>2. RegisteringMapped'
    BY <1>8 DEF RegisteringMapped
  <2>3. SslMapLive'
    BY <1>1, <1>2, <1>8 DEF SslMapLive
  <2>4. RegisteredHasSsl'
    BY <1>1, <1>2, <1>5 DEF RegisteredHasSsl, Live
  <2> QED
    BY <2>1, <2>2, <2>3, <2>4 DEF Mapping
<1> QED
  BY <1>9, <1>10, <1>11, <1>12 DEF Tables

(* start_accept enters its object in ssl_map, or finds that of an earlier     *)
(* connection and turns the client down.                                   *)
LEMMA MapTables ==
  ASSUME WInv, MapSsl
  PROVE Tables'
<1> USE ActorFacts DEF Goto, Set, objects, kernelVars, slots, socketRest
<1>1. /\ Standing /\ arg \in [Actors -> Descriptors]
      /\ conn \in [Sockets -> {"free", "new", "open"}]
      /\ interest \in [Sockets -> {"none", "in", "hup"}] /\ accepts \in 0..MaxAccepts
      /\ SslTypeOK /\ CopiedPtr /\ ThreadObject /\ MapNamesOwner /\ MadeForAccepts
      /\ AcceptCalls /\ AcceptorObject
      /\ ClosersHold /\ SslMxHeld /\ TurnedDownClosed /\ RegisteredOpen
      /\ SpareUnmapped /\ RegisteringMapped /\ SslMapLive /\ RegisteredHasSsl
      /\ None \notin Sockets /\ None \notin 1..made /\ None \notin freed
      /\ 1..made \subseteq 1 .. MaxAccepts + 1
  BY TableFacts
<1>2. pc[Acceptor] = "map" /\ ret[Acceptor] = "none"
  BY DEF MapSsl, WInv, Placed, ControlIn, CallsReturnIn, S, SubLabels, SslSubLabels
<1> DEFINE new_socket == fd_of[ssl_ptr]
<1>3. ssl_ptr # None /\ new_socket \in Sockets /\ ssl_ptr \in 1..made
  BY <1>1, <1>2 DEF AcceptorObject, AcceptIn, SslTypeOK
<1>4. ssl_ptr \notin freed /\ \A s \in Descriptors : ssl_map[s] # ssl_ptr
  BY <1>1, <1>2, <1>3 DEF SpareUnmapped, InMap
<1>5. /\ UNCHANGED <<ssl_mx, ssl, ssl_ptr, tmp, made, freed, fd_of, conn, interest, accepts>>
      /\ arg' = [arg EXCEPT ![Acceptor] = new_socket]
      /\ \/ /\ ssl_map[new_socket] = None /\ ssl_map' = [ssl_map EXCEPT ![new_socket] = ssl_ptr]
            /\ ret' = ret /\ pc' = [pc EXCEPT ![Acceptor] = "set_event"]
         \/ /\ ssl_map' = ssl_map /\ ret' = [ret EXCEPT ![Acceptor] = "unmap"]
            /\ pc' = [pc EXCEPT ![Acceptor] = "reset_accept"]
  BY DEF MapSsl, CallReset, Call
<1> HIDE DEF new_socket
<1>6. /\ \/ pc'[Acceptor] = "set_event" /\ ret'[Acceptor] = "none"
         \/ pc'[Acceptor] = "reset_accept" /\ ret'[Acceptor] = "unmap" /\ ssl_map' = ssl_map
      /\ arg'[Acceptor] = new_socket
      /\ \A y \in Actors \ {Acceptor} : pc'[y] = pc[y] /\ ret'[y] = ret[y] /\ arg'[y] = arg[y]
  <2>1. arg'[Acceptor] = new_socket /\ \A y \in Actors \ {Acceptor} : arg'[y] = arg[y]
    BY <1>1, <1>5
  <2>2. CASE ret' = ret /\ pc' = [pc EXCEPT ![Acceptor] = "set_event"]
    BY <1>1, <1>2, <2>1, <2>2 DEF Standing
  <2>3. CASE /\ ssl_map' = ssl_map /\ ret' = [ret EXCEPT ![Acceptor] = "unmap"]
             /\ pc' = [pc EXCEPT ![Acceptor] = "reset_accept"]
    BY <1>1, <2>1, <2>3 DEF Standing
  <2> QED
    BY <1>5, <2>2, <2>3
<1>7. /\ pc'[Acceptor] = "set_event" => ssl_map'[new_socket] = ssl_ptr
      /\ \A s \in Descriptors : \/ ssl_map'[s] = ssl_map[s]
                                \/ s = new_socket /\ ssl_map[s] = None /\ ssl_map'[s] = ssl_ptr
  <2>1. CASE ssl_map' = ssl_map /\ pc' = [pc EXCEPT ![Acceptor] = "reset_accept"]
    BY <1>1, <2>1 DEF Standing
  <2>2. CASE ssl_map[new_socket] = None /\ ssl_map' = [ssl_map EXCEPT ![new_socket] = ssl_ptr]
    BY <1>1, <1>3, <2>2 DEF Descriptors, SslTypeOK
  <2> QED
    BY <1>5, <2>1, <2>2
<1>8. Objects'
  <2>1. SslTypeOK'
    BY <1>1, <1>3, <1>5 DEF SslTypeOK
  <2>2. CopiedPtr' /\ ThreadObject' /\ MadeForAccepts'
    BY <1>1, <1>5, <1>6 DEF CopiedPtr, ThreadObject, MadeForAccepts
  <2>3. MapNamesOwner'
    BY <1>1, <1>3, <1>5, <1>7 DEF MapNamesOwner, new_socket
  <2> QED
    BY <2>1, <2>2, <2>3 DEF Objects
<1>9. Accepting'
  BY <1>1, <1>2, <1>3, <1>5, <1>6
     DEF Accepting, AcceptCalls, AcceptorObject, AcceptIn, SubLabels, CloseLabels, new_socket
<1>10. Holding'
  BY <1>1, <1>2, <1>5, <1>6
     DEF Holding, ClosersHold, CloseInside, SslMxHeld, TurnedDownClosed, RegisteredOpen, Wrapped
<1>11. Mapping'
  <2>1. SpareUnmapped' /\ RegisteringMapped'
    BY <1>4, <1>5, <1>6, <1>7 DEF SpareUnmapped, InMap, RegisteringMapped
  <2>2. SslMapLive'
    BY <1>1, <1>2, <1>4, <1>5, <1>6, <1>7 DEF SslMapLive, Descriptors
  <2>3. RegisteredHasSsl'
    BY <1>1, <1>3, <1>4, <1>5, <1>7 DEF RegisteredHasSsl, Live, Descriptors
  <2> QED
    BY <2>1, <2>2, <2>3 DEF Mapping
<1> QED
  BY <1>8, <1>9, <1>10, <1>11 DEF Tables

(* reset_accept frees the object start_accept works with.  If it is in     *)
(* ssl_map, start_accept is about to take it out.                          *)
LEMMA ResetFreeTables ==
  ASSUME WInv, ResetFree
  PROVE Tables'
<1> USE ActorFacts DEF Goto, Set, tables, kernelVars, slots, socketRest
<1>1. /\ Standing /\ arg \in [Actors -> Descriptors]
      /\ conn \in [Sockets -> {"free", "new", "open"}]
      /\ interest \in [Sockets -> {"none", "in", "hup"}] /\ accepts \in 0..MaxAccepts
      /\ SslTypeOK /\ CopiedPtr /\ ThreadObject /\ MapNamesOwner /\ MadeForAccepts
      /\ AcceptCalls /\ AcceptorObject
      /\ ClosersHold /\ SslMxHeld /\ TurnedDownClosed /\ RegisteredOpen
      /\ SpareUnmapped /\ RegisteringMapped /\ SslMapLive /\ RegisteredHasSsl
      /\ None \notin Sockets /\ None \notin 1..made /\ None \notin freed
      /\ 1..made \subseteq 1 .. MaxAccepts + 1
  BY TableFacts
<1>2. /\ pc[Acceptor] = "reset_free" /\ ssl_mx = None /\ ret[Acceptor] \in {"accept", "unmap"}
      /\ ssl_ptr # None /\ arg[Acceptor] = fd_of[ssl_ptr] /\ arg[Acceptor] \in Sockets
      /\ conn[arg[Acceptor]] # "open" /\ ssl_ptr \in 1..made
  BY <1>1 DEF ResetFree, AcceptorObject, AcceptIn, TurnedDownClosed, SslTypeOK
<1>3. /\ UNCHANGED <<ssl_mx, ssl, ssl_map, tmp, made, fd_of, conn, interest, accepts>>
      /\ freed' = freed \union {ssl_ptr} /\ ssl_ptr' = None
      /\ arg' = IF ret[Acceptor] = "accept" THEN [arg EXCEPT ![Acceptor] = None] ELSE arg
      /\ pc' = [pc EXCEPT ![Acceptor] = ret[Acceptor]] /\ ret' = [ret EXCEPT ![Acceptor] = "none"]
  BY DEF ResetFree, Return
<1>4. /\ pc'[Acceptor] = ret[Acceptor] /\ ret'[Acceptor] = "none"
      /\ ret[Acceptor] = "unmap" => arg'[Acceptor] = arg[Acceptor]
      /\ \A y \in Actors \ {Acceptor} : pc'[y] = pc[y] /\ ret'[y] = ret[y] /\ arg'[y] = arg[y]
  BY <1>1, <1>3 DEF Standing
<1>5. \A s \in Sockets : ssl_map[s] = ssl_ptr => s = arg[Acceptor] /\ ret[Acceptor] = "unmap"
  BY <1>1, <1>2 DEF MapNamesOwner, SpareUnmapped, InMap, Descriptors
<1>6. Objects'
  BY <1>1, <1>2, <1>3, <1>4
     DEF Objects, SslTypeOK, CopiedPtr, ThreadObject, MapNamesOwner, MadeForAccepts, Descriptors
<1>7. Accepting'
  BY <1>1, <1>2, <1>3, <1>4 DEF Accepting, AcceptCalls, AcceptorObject, AcceptIn
<1>8. Holding'
  <2>1. ClosersHold'
    BY <1>1, <1>2, <1>3, <1>4 DEF ClosersHold, CloseInside, Wrapped
  <2>2. SslMxHeld' /\ TurnedDownClosed' /\ RegisteredOpen'
    BY <1>1, <1>2, <1>3, <1>4 DEF SslMxHeld, TurnedDownClosed, RegisteredOpen
  <2> QED
    BY <2>1, <2>2 DEF Holding
<1>9. Mapping'
  <2>1. SpareUnmapped' /\ RegisteringMapped'
    BY <1>2, <1>3, <1>4 DEF SpareUnmapped, RegisteringMapped
  <2>2. SslMapLive'
    <3> SUFFICES ASSUME NEW s \in Sockets, ssl_map[s] \in freed'
                 PROVE \E y \in Actors :
                         arg'[y] = s /\ pc'[y] \in {"close_forget", "close_unmap", "unmap"}
      BY <1>3 DEF SslMapLive
    <3>1. CASE ssl_map[s] = ssl_ptr
      BY <3>1, <1>4, <1>5
    <3>2. CASE ssl_map[s] \in freed
      <4>1. PICK y \in Actors : arg[y] = s /\ pc[y] \in {"close_forget", "close_unmap", "unmap"}
        BY <3>2, <1>1 DEF SslMapLive
      <4> QED
        BY <4>1, <1>2, <1>4
    <3> QED
      BY <3>1, <3>2, <1>3
  <2>3. RegisteredHasSsl'
    BY <1>1, <1>2, <1>3, <1>5 DEF RegisteredHasSsl, RegisteredOpen, Live
  <2> QED
    BY <2>1, <2>2, <2>3 DEF Mapping
<1> QED
  BY <1>6, <1>7, <1>8, <1>9 DEF Tables

(* The object start_accept has at hand when accept4 fails is in no table. *)
LEMMA AcceptEndsTables ==
  ASSUME WInv, AcceptEnds
  PROVE Tables'
<1> USE ActorFacts DEF tables
<1>1. /\ Standing /\ SslTypeOK /\ CopiedPtr /\ ThreadObject /\ MapNamesOwner /\ MadeForAccepts
      /\ AcceptCalls /\ AcceptorObject
      /\ ClosersHold /\ SslMxHeld /\ TurnedDownClosed /\ RegisteredOpen
      /\ SpareUnmapped /\ RegisteringMapped /\ SslMapLive /\ RegisteredHasSsl
  BY TableFacts
<1>2. pc[Acceptor] = "ended" /\ ret[Acceptor] = "none" /\ ssl_ptr # None
  BY <1>1, LabelFacts DEF AcceptEnds, Standing, SubLabels
<1>3. /\ UNCHANGED <<pc, ret, arg, conn, interest, accepts>>
      /\ UNCHANGED <<ssl_mx, ssl, ssl_map, tmp, made, fd_of>>
      /\ freed' = freed \union {ssl_ptr} /\ ssl_ptr' = None
  BY DEF AcceptEnds, vars, threadVars, socketVars, kernelVars
<1>4. ssl_ptr \in 1..made /\ \A s \in Descriptors : ssl_map[s] # ssl_ptr
  BY <1>1, <1>2 DEF SslTypeOK, SpareUnmapped, InMap
<1>5. Objects'
  BY <1>1, <1>3, <1>4
     DEF Objects, SslTypeOK, CopiedPtr, ThreadObject, MapNamesOwner, MadeForAccepts
<1>6. Accepting'
  BY <1>1, <1>2, <1>3 DEF Accepting, AcceptCalls, AcceptorObject, AcceptIn
<1>7. Holding'
  BY <1>1, <1>3
     DEF Holding, ClosersHold, Wrapped, SslMxHeld, TurnedDownClosed, RegisteredOpen
<1>8. Mapping'
  <2>1. SpareUnmapped' /\ RegisteringMapped'
    BY <1>2, <1>3 DEF SpareUnmapped, RegisteringMapped
  <2>2. SslMapLive' /\ RegisteredHasSsl'
    BY <1>1, <1>3, <1>4 DEF SslMapLive, RegisteredHasSsl, Live, Descriptors
  <2> QED
    BY <2>1, <2>2 DEF Mapping
<1> QED
  BY <1>5, <1>6, <1>7, <1>8 DEF Tables

LEMMA UnmapTables ==
  ASSUME WInv, Unmap
  PROVE Tables'
<1> USE ActorFacts DEF Goto, Set, objects, kernelVars, slots, socketRest
<1>1. /\ Standing /\ arg \in [Actors -> Descriptors]
      /\ conn \in [Sockets -> {"free", "new", "open"}]
      /\ interest \in [Sockets -> {"none", "in", "hup"}] /\ accepts \in 0..MaxAccepts
      /\ SslTypeOK /\ CopiedPtr /\ ThreadObject /\ MapNamesOwner /\ MadeForAccepts
      /\ AcceptCalls /\ AcceptorObject
      /\ ClosersHold /\ SslMxHeld /\ TurnedDownClosed /\ RegisteredOpen
      /\ SpareUnmapped /\ RegisteringMapped /\ SslMapLive /\ RegisteredHasSsl
      /\ None \notin Sockets /\ None \notin 1..made /\ None \notin freed
      /\ 1..made \subseteq 1 .. MaxAccepts + 1
  BY TableFacts
<1>2. /\ pc[Acceptor] = "unmap" /\ ret[Acceptor] = "none"
      /\ arg[Acceptor] \in Sockets /\ conn[arg[Acceptor]] # "open"
  BY <1>1
     DEF Unmap, TurnedDownClosed, Descriptors, WInv, Placed, ControlIn, CallsReturnIn, S,
         SubLabels, SslSubLabels
<1>3. /\ UNCHANGED <<ret, ssl_mx, ssl, ssl_ptr, tmp, made, freed, fd_of, conn, interest, accepts>>
      /\ ssl_map' = [ssl_map EXCEPT ![arg[Acceptor]] = None]
      /\ arg' = [arg EXCEPT ![Acceptor] = None] /\ pc' = [pc EXCEPT ![Acceptor] = "accept"]
  BY DEF Unmap
<1>4. /\ pc'[Acceptor] = "accept"
      /\ \A y \in Actors \ {Acceptor} : pc'[y] = pc[y] /\ arg'[y] = arg[y]
  BY <1>1, <1>3 DEF Standing
<1>5. /\ ssl_map'[arg[Acceptor]] = None
      /\ \A s \in Descriptors \ {arg[Acceptor]} : ssl_map'[s] = ssl_map[s]
  BY <1>1, <1>2, <1>3 DEF SslTypeOK, Descriptors
<1>6. Objects'
  <2>1. SslTypeOK' /\ CopiedPtr' /\ MadeForAccepts'
    BY <1>1, <1>3, <1>4 DEF SslTypeOK, CopiedPtr, MadeForAccepts
  <2>2. ThreadObject' /\ MapNamesOwner'
    BY <1>1, <1>3, <1>5 DEF ThreadObject, MapNamesOwner
  <2> QED
    BY <2>1, <2>2 DEF Objects
<1>7. Accepting'
  BY <1>1, <1>2, <1>3, <1>4 DEF Accepting, AcceptCalls, AcceptorObject, AcceptIn
<1>8. Holding'
  BY <1>1, <1>2, <1>3, <1>4
     DEF Holding, ClosersHold, CloseInside, SslMxHeld, TurnedDownClosed, RegisteredOpen, Wrapped
<1>9. Mapping'
  <2>1. SpareUnmapped' /\ RegisteringMapped'
    BY <1>1, <1>2, <1>3, <1>4, <1>5 DEF SpareUnmapped, InMap, RegisteringMapped
  <2>2. SslMapLive'
    <3> SUFFICES ASSUME NEW s \in Sockets, ssl_map'[s] \in freed
                 PROVE \E y \in Actors :
                         arg'[y] = s /\ pc'[y] \in {"close_forget", "close_unmap", "unmap"}
      BY <1>3 DEF SslMapLive
    <3>1. s # arg[Acceptor] /\ ssl_map[s] \in freed
      BY <1>1, <1>5 DEF Descriptors
    <3>2. PICK y \in Actors : arg[y] = s /\ pc[y] \in {"close_forget", "close_unmap", "unmap"}
      BY <3>1, <1>1 DEF SslMapLive
    <3> QED
      BY <3>1, <3>2, <1>4
  <2>3. RegisteredHasSsl'
    BY <1>1, <1>2, <1>3, <1>5 DEF RegisteredHasSsl, RegisteredOpen, Live, Descriptors
  <2> QED
    BY <2>1, <2>2, <2>3 DEF Mapping
<1> QED
  BY <1>6, <1>7, <1>8, <1>9 DEF Tables

(* The other steps that take or give up ssl_mx, or that start_accept takes    *)
(* with its object.                                                        *)
LEMMA CloseLockTables ==
  ASSUME WInv, NEW x \in Actors, CloseLock(x)
  PROVE Tables'
<1>1. /\ Standing /\ arg \in [Actors -> Descriptors]
      /\ conn \in [Sockets -> {"free", "new", "open"}]
      /\ interest \in [Sockets -> {"none", "in", "hup"}] /\ accepts \in 0..MaxAccepts
      /\ SslTypeOK /\ CopiedPtr /\ ThreadObject /\ MapNamesOwner /\ MadeForAccepts
      /\ AcceptCalls /\ AcceptorObject
      /\ ClosersHold /\ SslMxHeld /\ TurnedDownClosed /\ RegisteredOpen
      /\ SpareUnmapped /\ RegisteringMapped /\ SslMapLive /\ RegisteredHasSsl
      /\ None \notin Sockets /\ None \notin 1..made /\ None \notin freed
      /\ 1..made \subseteq 1 .. MaxAccepts + 1
  BY TableFacts
<1>2. /\ UNCHANGED <<pc, ret, arg, ssl, ssl_map, ssl_ptr, tmp, made, freed, fd_of, conn, interest, accepts>>
      /\ ssl_mx = None /\ ssl_mx' = x
  BY DEF CloseLock, vars, threadVars, socketVars, kernelVars, tables, objects
<1>3. Objects'
  BY <1>1, <1>2 DEF Objects, SslTypeOK, CopiedPtr, ThreadObject, MapNamesOwner, MadeForAccepts
<1>4. Accepting'
  BY <1>1, <1>2 DEF Accepting, AcceptCalls, AcceptorObject, AcceptIn
<1>5. Holding'
  BY <1>1, <1>2, ActorFacts
     DEF Holding, ClosersHold, CloseInside, SslMxHeld, TurnedDownClosed, RegisteredOpen, Wrapped
<1>6. Mapping'
  BY <1>1, <1>2
     DEF Mapping, SpareUnmapped, InMap, RegisteringMapped, SslMapLive, RegisteredHasSsl, Live
<1> QED
  BY <1>3, <1>4, <1>5, <1>6 DEF Tables

(* A step of a thread that is not resetting an entry, and that leaves the  *)
(* tables and the connections alone.                                       *)
LEMMA KeepsMapping ==
  ASSUME WInv, NEW t \in Threads,
         pc[t] \notin {"close_forget", "close_unmap", "unmap"},
         \A y \in Actors \ {t} : arg'[y] = arg[y] /\ pc'[y] = pc[y] /\ ret'[y] = ret[y],
         UNCHANGED <<ssl_map, ssl_ptr, freed, made, conn, interest>>
  PROVE Mapping'
<1>1. Mapping /\ t # Acceptor /\ Acceptor \in Actors \ {t}
  BY ActorFacts DEF WInv, Tables
<1>2. SpareUnmapped' /\ RegisteringMapped'
  BY <1>1 DEF Mapping, SpareUnmapped, InMap, RegisteringMapped
<1>3. SslMapLive'
  BY <1>1 DEF Mapping, SslMapLive
<1>4. RegisteredHasSsl'
  BY <1>1 DEF Mapping, RegisteredHasSsl, Live
<1> QED
  BY <1>2, <1>3, <1>4 DEF Mapping

LEMMA ThreadTables ==
  ASSUME WInv, NEW t \in Threads,
         SslReadLoop(t) \/ Write(t) \/ WriteLock(t) \/ WriteSucceeds(t) \/ SslWriteFails(t)
  PROVE Tables'
<1> USE ActorFacts
       DEF Goto, Call, Set, poolShape, epollLocals, socketVars, kernelVars, slots, socketRest,
           sslVars, tables, objects, Base, Standing, Wrapped
<1>1. /\ Standing /\ arg \in [Actors -> Descriptors]
      /\ conn \in [Sockets -> {"free", "new", "open"}]
      /\ interest \in [Sockets -> {"none", "in", "hup"}] /\ accepts \in 0..MaxAccepts
      /\ SslTypeOK /\ CopiedPtr /\ ThreadObject /\ MapNamesOwner /\ MadeForAccepts
      /\ AcceptCalls /\ AcceptorObject
      /\ ClosersHold /\ SslMxHeld /\ TurnedDownClosed /\ RegisteredOpen
      /\ SpareUnmapped /\ RegisteringMapped /\ SslMapLive /\ RegisteredHasSsl
      /\ None \notin Sockets /\ None \notin 1..made /\ None \notin freed
      /\ 1..made \subseteq 1 .. MaxAccepts + 1
  BY TableFacts
<1>2. ret[t] \notin {"map", "unmap"}
  BY <1>1 DEF AcceptCalls
<1>SslReadLoop. CASE SslReadLoop(t)
  <2>1. Objects'
    <3>1. SslTypeOK'
      BY <1>SslReadLoop, <1>1, <1>2 DEF SslReadLoop, SslTypeOK
    <3>2. CopiedPtr'
      <4>1. CASE ssl[t] = None
        BY <4>1, <1>SslReadLoop, <1>1 DEF SslReadLoop, CopiedPtr
      <4>2. CASE ssl[t] # None
        <5>1. fd_of[ssl[t]] # None
          BY <4>2, <1>1 DEF ThreadObject
        <5>2. tmp' = [tmp EXCEPT ![t] = ssl[t]] /\ arg' = [arg EXCEPT ![t] = fd_of[ssl[t]]]
          BY <4>2, <1>SslReadLoop DEF SslReadLoop
        <5> QED
          BY <4>2, <5>1, <5>2, <1>SslReadLoop, <1>1 DEF SslReadLoop, CopiedPtr, SslTypeOK
      <4> QED
        BY <4>1, <4>2
    <3>3. ThreadObject'
      BY <1>SslReadLoop, <1>1, <1>2 DEF SslReadLoop, ThreadObject, SslTypeOK
    <3>4. MapNamesOwner'
      BY <1>SslReadLoop, <1>1, <1>2 DEF SslReadLoop, MapNamesOwner, SslTypeOK
    <3>5. MadeForAccepts'
      BY <1>SslReadLoop, <1>1, <1>2 DEF SslReadLoop, MadeForAccepts
    <3> QED
      BY <3>1, <3>2, <3>3, <3>4, <3>5 DEF Objects
  <2>2. Accepting'
    BY <1>SslReadLoop, <1>1, <1>2
       DEF SslReadLoop, Accepting, AcceptCalls, AcceptorObject, AcceptIn, SubLabels, CloseLabels
  <2>3. Holding'
    BY <1>SslReadLoop, <1>1, <1>2
       DEF SslReadLoop, Holding, ClosersHold, CloseInside, SslMxHeld, TurnedDownClosed,
           RegisteredOpen
  <2>4. Mapping'
    BY <1>SslReadLoop, <1>1, KeepsMapping DEF SslReadLoop
  <2> QED
    BY <2>1, <2>2, <2>3, <2>4 DEF Tables
<1>Write. CASE Write(t)
  <2>1. Objects'
    <3>1. SslTypeOK'
      BY <1>Write, <1>1, <1>2 DEF Write, SslTypeOK
    <3>2. CopiedPtr'
      <4>1. fd_of[ssl[t]] # None
        BY <1>Write, <1>1 DEF Write, ThreadObject
      <4> QED
        BY <4>1, <1>Write, <1>1 DEF Write, CopiedPtr, SslTypeOK
    <3>3. ThreadObject'
      BY <1>Write, <1>1, <1>2 DEF Write, ThreadObject, SslTypeOK
    <3>4. MapNamesOwner'
      BY <1>Write, <1>1, <1>2 DEF Write, MapNamesOwner, SslTypeOK
    <3>5. MadeForAccepts'
      BY <1>Write, <1>1, <1>2 DEF Write, MadeForAccepts
    <3> QED
      BY <3>1, <3>2, <3>3, <3>4, <3>5 DEF Objects
  <2>2. Accepting'
    BY <1>Write, <1>1, <1>2
       DEF Write, Accepting, AcceptCalls, AcceptorObject, AcceptIn, SubLabels, CloseLabels
  <2>3. Holding'
    BY <1>Write, <1>1, <1>2
       DEF Write, Holding, ClosersHold, CloseInside, SslMxHeld, TurnedDownClosed, RegisteredOpen
  <2>4. Mapping'
    BY <1>Write, <1>1, KeepsMapping DEF Write
  <2> QED
    BY <2>1, <2>2, <2>3, <2>4 DEF Tables
<1>WriteLock. CASE WriteLock(t)
  <2>1. Objects'
    BY <1>WriteLock, <1>1, <1>2
       DEF WriteLock, Objects, SslTypeOK, CopiedPtr, ThreadObject, MapNamesOwner, MadeForAccepts
  <2>2. Accepting'
    BY <1>WriteLock, <1>1, <1>2
       DEF WriteLock, Accepting, AcceptCalls, AcceptorObject, AcceptIn, SubLabels, CloseLabels
  <2>3. Holding'
    BY <1>WriteLock, <1>1, <1>2
       DEF WriteLock, Holding, ClosersHold, CloseInside, SslMxHeld, TurnedDownClosed,
           RegisteredOpen
  <2>4. Mapping'
    BY <1>WriteLock, <1>1, KeepsMapping DEF WriteLock
  <2> QED
    BY <2>1, <2>2, <2>3, <2>4 DEF Tables
<1>WriteSucceeds. CASE WriteSucceeds(t)
  <2>1. Objects'
    BY <1>WriteSucceeds, <1>1, <1>2
       DEF WriteSucceeds, WriteUnlock, Objects, SslTypeOK, CopiedPtr, ThreadObject,
           MapNamesOwner, MadeForAccepts
  <2>2. Accepting'
    BY <1>WriteSucceeds, <1>1, <1>2
       DEF WriteSucceeds, WriteUnlock, Accepting, AcceptCalls, AcceptorObject, AcceptIn,
           SubLabels, CloseLabels
  <2>3. Holding'
    BY <1>WriteSucceeds, <1>1, <1>2
       DEF WriteSucceeds, WriteUnlock, Holding, ClosersHold, CloseInside, SslMxHeld,
           TurnedDownClosed, RegisteredOpen
  <2>4. Mapping'
    BY <1>WriteSucceeds, <1>1, KeepsMapping DEF WriteSucceeds, WriteUnlock
  <2> QED
    BY <2>1, <2>2, <2>3, <2>4 DEF Tables
<1>SslWriteFails. CASE SslWriteFails(t)
  <2>1. Objects'
    BY <1>SslWriteFails, <1>1, <1>2
       DEF SslWriteFails, WriteUnlock, Objects, SslTypeOK, CopiedPtr, ThreadObject,
           MapNamesOwner, MadeForAccepts
  <2>2. Accepting'
    BY <1>SslWriteFails, <1>1, <1>2
       DEF SslWriteFails, WriteUnlock, Accepting, AcceptCalls, AcceptorObject, AcceptIn,
           SubLabels, CloseLabels
  <2>3. Holding'
    BY <1>SslWriteFails, <1>1, <1>2
       DEF SslWriteFails, WriteUnlock, Holding, ClosersHold, CloseInside, SslMxHeld,
           TurnedDownClosed, RegisteredOpen
  <2>4. Mapping'
    BY <1>SslWriteFails, <1>1, KeepsMapping DEF SslWriteFails, WriteUnlock
  <2> QED
    BY <2>1, <2>2, <2>3, <2>4 DEF Tables
<1> QED
  BY <1>SslReadLoop, <1>Write, <1>WriteLock, <1>WriteSucceeds, <1>SslWriteFails

LEMMA AcceptTables ==
  ASSUME WInv,
         \/ SslAccept \/ FirstPollFails \/ HandshakeEnds \/ Reject \/ SslUpgrade
         \/ Base(SetEvent) \/ SslRegister \/ RegisterFails \/ ResetClose
  PROVE Tables'
<1> USE ActorFacts
       DEF Goto, Call, Set, poolShape, epollLocals, socketVars, kernelVars, slots, socketRest,
           sslVars, tables, objects, Base, Standing, Wrapped
<1>1. /\ Standing /\ arg \in [Actors -> Descriptors]
      /\ conn \in [Sockets -> {"free", "new", "open"}]
      /\ interest \in [Sockets -> {"none", "in", "hup"}] /\ accepts \in 0..MaxAccepts
      /\ SslTypeOK /\ CopiedPtr /\ ThreadObject /\ MapNamesOwner /\ MadeForAccepts
      /\ AcceptCalls /\ AcceptorObject
      /\ ClosersHold /\ SslMxHeld /\ TurnedDownClosed /\ RegisteredOpen
      /\ SpareUnmapped /\ RegisteringMapped /\ SslMapLive /\ RegisteredHasSsl
      /\ None \notin Sockets /\ None \notin 1..made /\ None \notin freed
      /\ 1..made \subseteq 1 .. MaxAccepts + 1
  BY TableFacts
<1>2. pc[Acceptor] \in {"first_poll", "ssl_accepting", "handshake", "map", "set_event",
                        "register", "accept"} => ret[Acceptor] = "none"
  BY DEF WInv, Placed, ControlIn, CallsReturnIn, S, SubLabels, SslSubLabels
<1>SslAccept. CASE SslAccept
  <2>1. Objects'
    <3>1. SslTypeOK'
      BY <1>SslAccept, <1>1, <1>2 DEF SslAccept, Accept4, SslTypeOK
    <3>2. CopiedPtr'
      BY <1>SslAccept, <1>1, <1>2 DEF SslAccept, Accept4, CopiedPtr, SslTypeOK
    <3>3. ThreadObject'
      BY <1>SslAccept, <1>1, <1>2 DEF SslAccept, Accept4, ThreadObject, SslTypeOK
    <3>4. MapNamesOwner'
      BY <1>SslAccept, <1>1, <1>2 DEF SslAccept, Accept4, MapNamesOwner, SslTypeOK
    <3>5. MadeForAccepts'
      <4>1. made <= accepts + 1 /\ made' = made /\ accepts' = accepts + 1
        BY <1>SslAccept, <1>1 DEF SslAccept, Accept4, MadeForAccepts
      <4>2. made \in Int /\ accepts \in Int
        BY <1>1, KernelAssumption DEF SslTypeOK
      <4> QED
        BY <4>1, <4>2 DEF MadeForAccepts
    <3> QED
      BY <3>1, <3>2, <3>3, <3>4, <3>5 DEF Objects
  <2>2. Accepting'
    BY <1>SslAccept, <1>1, <1>2
       DEF SslAccept, Accept4, Accepting, AcceptCalls, AcceptorObject, AcceptIn, SubLabels,
           CloseLabels
  <2>3. Holding'
    BY <1>SslAccept, <1>1, <1>2
       DEF SslAccept, Accept4, Holding, ClosersHold, CloseInside, SslMxHeld, TurnedDownClosed,
           RegisteredOpen
  <2>4. Mapping'
    <3>1. SpareUnmapped'
      BY <1>SslAccept, <1>1, <1>2 DEF SslAccept, Accept4, SpareUnmapped, InMap
    <3>2. RegisteringMapped'
      BY <1>SslAccept, <1>1, <1>2 DEF SslAccept, Accept4, RegisteringMapped
    <3>3. SslMapLive'
      <4> SUFFICES ASSUME NEW s \in Sockets, ssl_map[s] \in freed
                   PROVE \E y \in Actors :
                           arg'[y] = s /\ pc'[y] \in {"close_forget", "close_unmap", "unmap"}
        BY <1>SslAccept DEF SslAccept, SslMapLive
      <4>1. PICK y \in Actors : arg[y] = s /\ pc[y] \in {"close_forget", "close_unmap", "unmap"}
        BY <1>1 DEF SslMapLive
      <4> QED
        BY <4>1, <1>SslAccept, <1>1 DEF SslAccept
    <3>4. RegisteredHasSsl'
      BY <1>SslAccept, <1>1, <1>2 DEF SslAccept, Accept4, RegisteredHasSsl, RegisteredOpen, Live
    <3> QED
      BY <3>1, <3>2, <3>3, <3>4 DEF Mapping
  <2> QED
    BY <2>1, <2>2, <2>3, <2>4 DEF Tables
<1>FirstPollFails. CASE FirstPollFails
  <2>1. Objects'
    BY <1>FirstPollFails, <1>1, <1>2
       DEF FirstPollFails, CloseFd, Objects, SslTypeOK, CopiedPtr, ThreadObject, MapNamesOwner,
           MadeForAccepts
  <2>2. Accepting'
    BY <1>FirstPollFails, <1>1, <1>2
       DEF FirstPollFails, CloseFd, Accepting, AcceptCalls, AcceptorObject, AcceptIn, SubLabels,
           CloseLabels
  <2>3. Holding'
    <3>1. ClosersHold'
      BY <1>FirstPollFails, <1>1, <1>2 DEF FirstPollFails, CloseFd, ClosersHold, CloseInside
    <3>2. SslMxHeld'
      BY <1>FirstPollFails, <1>1, <1>2 DEF FirstPollFails, CloseFd, SslMxHeld
    <3>3. TurnedDownClosed'
      BY <1>FirstPollFails, <1>1, <1>2 DEF FirstPollFails, CloseFd, TurnedDownClosed
    <3>4. RegisteredOpen'
      BY <1>FirstPollFails, <1>1, <1>2 DEF FirstPollFails, CloseFd, RegisteredOpen
    <3> QED
      BY <3>1, <3>2, <3>3, <3>4 DEF Holding
  <2>4. Mapping'
    <3>1. SpareUnmapped'
      BY <1>FirstPollFails, <1>1, <1>2 DEF FirstPollFails, CloseFd, SpareUnmapped, InMap
    <3>2. RegisteringMapped'
      BY <1>FirstPollFails, <1>1, <1>2 DEF FirstPollFails, CloseFd, RegisteringMapped
    <3>3. SslMapLive'
      BY <1>FirstPollFails, <1>1, <1>2 DEF FirstPollFails, CloseFd, SslMapLive
    <3>4. RegisteredHasSsl'
      BY <1>FirstPollFails, <1>1, <1>2
         DEF FirstPollFails, CloseFd, RegisteredHasSsl, RegisteredOpen, Live
    <3> QED
      BY <3>1, <3>2, <3>3, <3>4 DEF Mapping
  <2> QED
    BY <2>1, <2>2, <2>3, <2>4 DEF Tables
<1>HandshakeEnds. CASE HandshakeEnds
  <2>1. Objects'
    <3>1. SslTypeOK'
      BY <1>HandshakeEnds, <1>1, <1>2 DEF HandshakeEnds, CallReset, SslTypeOK
    <3>2. CopiedPtr'
      BY <1>HandshakeEnds, <1>1, <1>2 DEF HandshakeEnds, CallReset, CopiedPtr, SslTypeOK
    <3>3. ThreadObject'
      BY <1>HandshakeEnds, <1>1, <1>2 DEF HandshakeEnds, CallReset, ThreadObject, SslTypeOK
    <3>4. MapNamesOwner'
      BY <1>HandshakeEnds, <1>1, <1>2 DEF HandshakeEnds, CallReset, MapNamesOwner, SslTypeOK
    <3>5. MadeForAccepts'
      BY <1>HandshakeEnds, <1>1, <1>2 DEF HandshakeEnds, CallReset, MadeForAccepts
    <3> QED
      BY <3>1, <3>2, <3>3, <3>4, <3>5 DEF Objects
  <2>2. Accepting'
    BY <1>HandshakeEnds, <1>1, <1>2
       DEF HandshakeEnds, CallReset, Accepting, AcceptCalls, AcceptorObject, AcceptIn,
           SubLabels, CloseLabels
  <2>3. Holding'
    BY <1>HandshakeEnds, <1>1, <1>2
       DEF HandshakeEnds, CallReset, Holding, ClosersHold, CloseInside, SslMxHeld,
           TurnedDownClosed, RegisteredOpen
  <2>4. Mapping'
    BY <1>HandshakeEnds, <1>1, <1>2
       DEF HandshakeEnds, CallReset, Mapping, SpareUnmapped, InMap, RegisteringMapped,
           SslMapLive, RegisteredHasSsl, Live
  <2> QED
    BY <2>1, <2>2, <2>3, <2>4 DEF Tables
<1>Reject. CASE Reject
  <2>1. Objects'
    BY <1>Reject, <1>1, <1>2
       DEF Reject, CallReset, Objects, SslTypeOK, CopiedPtr, ThreadObject, MapNamesOwner,
           MadeForAccepts
  <2>2. Accepting'
    BY <1>Reject, <1>1, <1>2
       DEF Reject, CallReset, Accepting, AcceptCalls, AcceptorObject, AcceptIn, SubLabels,
           CloseLabels
  <2>3. Holding'
    BY <1>Reject, <1>1, <1>2
       DEF Reject, CallReset, Holding, ClosersHold, CloseInside, SslMxHeld, TurnedDownClosed,
           RegisteredOpen
  <2>4. Mapping'
    BY <1>Reject, <1>1, <1>2
       DEF Reject, CallReset, Mapping, SpareUnmapped, InMap, RegisteringMapped, SslMapLive,
           RegisteredHasSsl, Live
  <2> QED
    BY <2>1, <2>2, <2>3, <2>4 DEF Tables
<1>SslUpgrade. CASE SslUpgrade
  <2>1. Objects'
    <3>1. SslTypeOK'
      BY <1>SslUpgrade, <1>1, <1>2 DEF SslUpgrade, SslTypeOK
    <3>2. CopiedPtr'
      BY <1>SslUpgrade, <1>1, <1>2 DEF SslUpgrade, CopiedPtr, SslTypeOK
    <3>3. ThreadObject'
      BY <1>SslUpgrade, <1>1, <1>2 DEF SslUpgrade, ThreadObject, SslTypeOK
    <3>4. MapNamesOwner'
      BY <1>SslUpgrade, <1>1, <1>2 DEF SslUpgrade, MapNamesOwner, SslTypeOK
    <3>5. MadeForAccepts'
      BY <1>SslUpgrade, <1>1, <1>2 DEF SslUpgrade, MadeForAccepts
    <3> QED
      BY <3>1, <3>2, <3>3, <3>4, <3>5 DEF Objects
  <2>2. Accepting'
    BY <1>SslUpgrade, <1>1, <1>2
       DEF SslUpgrade, Accepting, AcceptCalls, AcceptorObject, AcceptIn, SubLabels, CloseLabels
  <2>3. Holding'
    <3>1. ClosersHold'
      BY <1>SslUpgrade, <1>1, <1>2 DEF SslUpgrade, ClosersHold, CloseInside
    <3>2. SslMxHeld' /\ TurnedDownClosed'
      BY <1>SslUpgrade, <1>1, <1>2 DEF SslUpgrade, SslMxHeld, TurnedDownClosed
    <3>3. RegisteredOpen'
      BY <1>SslUpgrade, <1>1, <1>2 DEF SslUpgrade, RegisteredOpen
    <3> QED
      BY <3>1, <3>2, <3>3 DEF Holding
  <2>4. Mapping'
    BY <1>SslUpgrade, <1>1, <1>2
       DEF SslUpgrade, Mapping, SpareUnmapped, InMap, RegisteringMapped, SslMapLive,
           RegisteredHasSsl, Live
  <2> QED
    BY <2>1, <2>2, <2>3, <2>4 DEF Tables
<1>SetEvent. CASE Base(SetEvent)
  <2>1. Objects'
    BY <1>SetEvent, <1>1, <1>2
       DEF SetEvent, Objects, SslTypeOK, CopiedPtr, ThreadObject, MapNamesOwner, MadeForAccepts
  <2>2. Accepting'
    BY <1>SetEvent, <1>1, <1>2
       DEF SetEvent, Accepting, AcceptCalls, AcceptorObject, AcceptIn, SubLabels, CloseLabels
  <2>3. Holding'
    BY <1>SetEvent, <1>1, <1>2
       DEF SetEvent, Holding, ClosersHold, CloseInside, SslMxHeld, TurnedDownClosed,
           RegisteredOpen
  <2>4. Mapping'
    BY <1>SetEvent, <1>1, <1>2
       DEF SetEvent, Mapping, SpareUnmapped, InMap, RegisteringMapped, SslMapLive,
           RegisteredHasSsl, Live
  <2> QED
    BY <2>1, <2>2, <2>3, <2>4 DEF Tables
<1>SslRegister. CASE SslRegister
  <2>1. Objects'
    BY <1>SslRegister, <1>1, <1>2
       DEF SslRegister, Register, Objects, SslTypeOK, CopiedPtr, ThreadObject, MapNamesOwner,
           MadeForAccepts
  <2>2. Accepting'
    BY <1>SslRegister, <1>1, <1>2
       DEF SslRegister, Register, Accepting, AcceptCalls, AcceptorObject, AcceptIn, SubLabels,
           CloseLabels
  <2>3. Holding'
    BY <1>SslRegister, <1>1, <1>2
       DEF SslRegister, Register, Holding, ClosersHold, CloseInside, SslMxHeld,
           TurnedDownClosed, RegisteredOpen
  <2>4. Mapping'
    <3>1. SpareUnmapped'
      BY <1>SslRegister, <1>1, <1>2 DEF SslRegister, Register, SpareUnmapped, InMap
    <3>2. RegisteringMapped'
      BY <1>SslRegister, <1>1, <1>2 DEF SslRegister, Register, RegisteringMapped
    <3>3. SslMapLive'
      BY <1>SslRegister, <1>1, <1>2 DEF SslRegister, Register, SslMapLive
    <3>4. RegisteredHasSsl'
      <4>1. conn[arg[Acceptor]] = "open" /\ ssl_ptr # None
        BY <1>SslRegister, <1>1 DEF SslRegister, Register, AcceptorObject, AcceptIn
      <4>2. ssl_map[arg[Acceptor]] = ssl_ptr /\ ssl_ptr \notin freed /\ ssl_ptr \in 1..made
        BY <1>SslRegister, <1>1, <4>1 DEF SslRegister, Register, RegisteringMapped, SslTypeOK
      <4>3. UNCHANGED <<ssl_map, made, freed>>
            /\ \A s \in Sockets : s # arg[Acceptor] => interest'[s] = interest[s]
        BY <1>SslRegister, <1>1 DEF SslRegister, Register
      <4> QED
        BY <4>2, <4>3, <1>1 DEF RegisteredHasSsl, Live
    <3> QED
      BY <3>1, <3>2, <3>3, <3>4 DEF Mapping
  <2> QED
    BY <2>1, <2>2, <2>3, <2>4 DEF Tables
<1>RegisterFails. CASE RegisterFails
  <2>1. Objects'
    BY <1>RegisterFails, <1>1, <1>2
       DEF RegisterFails, CallReset, Objects, SslTypeOK, CopiedPtr, ThreadObject, MapNamesOwner,
           MadeForAccepts
  <2>2. Accepting'
    BY <1>RegisterFails, <1>1, <1>2
       DEF RegisterFails, CallReset, Accepting, AcceptCalls, AcceptorObject, AcceptIn,
           SubLabels, CloseLabels
  <2>3. Holding'
    BY <1>RegisterFails, <1>1, <1>2
       DEF RegisterFails, CallReset, Holding, ClosersHold, CloseInside, SslMxHeld,
           TurnedDownClosed, RegisteredOpen
  <2>4. Mapping'
    BY <1>RegisterFails, <1>1, <1>2
       DEF RegisterFails, CallReset, Mapping, SpareUnmapped, InMap, RegisteringMapped,
           SslMapLive, RegisteredHasSsl, Live
  <2> QED
    BY <2>1, <2>2, <2>3, <2>4 DEF Tables
<1>ResetClose. CASE ResetClose
  <2>1. Objects'
    BY <1>ResetClose, <1>1, <1>2
       DEF ResetClose, CloseFd, Objects, SslTypeOK, CopiedPtr, ThreadObject, MapNamesOwner,
           MadeForAccepts
  <2>2. Accepting'
    BY <1>ResetClose, <1>1, <1>2
       DEF ResetClose, CloseFd, Accepting, AcceptCalls, AcceptorObject, AcceptIn, SubLabels,
           CloseLabels
  <2>3. Holding'
    <3>1. ClosersHold'
      BY <1>ResetClose, <1>1, <1>2 DEF ResetClose, CloseFd, ClosersHold, CloseInside
    <3>2. SslMxHeld'
      BY <1>ResetClose, <1>1, <1>2 DEF ResetClose, CloseFd, SslMxHeld
    <3>3. TurnedDownClosed'
      <4>1. arg[Acceptor] \in Sockets
        BY <1>ResetClose, <1>1 DEF ResetClose, AcceptorObject, AcceptIn
      <4> QED
        BY <4>1, <1>ResetClose, <1>1 DEF ResetClose, CloseFd, TurnedDownClosed
    <3>4. RegisteredOpen'
      BY <1>ResetClose, <1>1, <1>2 DEF ResetClose, CloseFd, RegisteredOpen
    <3> QED
      BY <3>1, <3>2, <3>3, <3>4 DEF Holding
  <2>4. Mapping'
    <3>1. SpareUnmapped'
      BY <1>ResetClose, <1>1, <1>2 DEF ResetClose, CloseFd, SpareUnmapped, InMap
    <3>2. RegisteringMapped'
      BY <1>ResetClose, <1>1, <1>2 DEF ResetClose, CloseFd, RegisteringMapped
    <3>3. SslMapLive'
      BY <1>ResetClose, <1>1, <1>2 DEF ResetClose, CloseFd, SslMapLive
    <3>4. RegisteredHasSsl'
      BY <1>ResetClose, <1>1, <1>2
         DEF ResetClose, CloseFd, RegisteredHasSsl, RegisteredOpen, Live
    <3> QED
      BY <3>1, <3>2, <3>3, <3>4 DEF Mapping
  <2> QED
    BY <2>1, <2>2, <2>3, <2>4 DEF Tables
<1> QED
  BY <1>SslAccept, <1>FirstPollFails, <1>HandshakeEnds, <1>Reject, <1>SslUpgrade, <1>SetEvent,
     <1>SslRegister, <1>RegisterFails, <1>ResetClose

LEMMA WssNextTables ==
  ASSUME WInv, [WssNext]_wssVars
  PROVE Tables'
<1>1. ASSUME NEW x \in Actors, Base(PoolStep(x)) \/ CloseStep(x)
      PROVE Tables'
  <2>1. CASE CloseFree(x)
    <3>1. CASE ssl_map[arg[x]] = None
      <4>1. arg[x] \in Sockets /\ ssl_map \in [Descriptors -> 1..made \union {None}] /\ pc[x] = "close_ssl"
        BY <2>1, CloserFacts, TableFacts DEF CloseFree, SslTypeOK
      <4>2. ssl_map' = Set(ssl_map, arg[x], None)
        BY <2>1, <3>1, <4>1 DEF CloseFree, Set, tables, Descriptors
      <4>3. CloseReturns(x) /\ UNCHANGED <<ssl, ssl_ptr, objects, conn, interest, accepts>>
        BY <2>1, <3>1 DEF CloseFree, kernelVars, tables, objects
      <4> QED
        BY <4>1, <4>2, <4>3, ClearedTables
    <3> QED
      BY <2>1, <3>1, FreedTables
  <2>2. CASE CloseUnmap(x)
    BY <2>2, ClearedTables DEF CloseUnmap, kernelVars
  <2>3. CASE \/ Base(PoolStep(x)) \/ CloseClear(x) \/ Base(CloseSweep(x))
             \/ Base(CloseReset(x)) \/ CloseBaseEnds(x) \/ CloseForget(x)
    BY <2>3, PoolAside, CloseAside, AsideKeepsTables DEF WInv
  <2> QED
    BY <1>1, <2>1, <2>2, <2>3, CloseLockTables, CloseBaseTables DEF CloseStep
<1>2. ASSUME NEW t \in Threads, Base(Inherited(t)) \/ SslStep(t) \/ WssUserStep(t) \/ WriteSucceeds(t)
      PROVE Tables'
  <2>1. CASE SslReadLoop(t) \/ Write(t) \/ WriteLock(t) \/ WriteSucceeds(t) \/ SslWriteFails(t)
    BY <2>1, ThreadTables
  <2>2. CASE Base(Inherited(t))
    BY <2>2, InheritedAside, AsideKeepsTables DEF WInv
  <2>3. CASE \/ Base(UserReturns(t)) \/ SslPop(t) \/ SslRecv(t) \/ SslGive(t) \/ GiveSsl(t)
             \/ Skip(t) \/ SslGiveStatus(t) \/ SslGiveFd(t)
    BY <2>3, ThreadAside, AsideKeepsTables DEF WInv
  <2> QED
    BY <1>2, <2>1, <2>2, <2>3 DEF SslStep, WssUserStep
<1>3. ASSUME WssAcceptorRuns \/ HandshakeEnds \/ SslAccept
      PROVE Tables'
  <2>1. CASE Base(PoolStep(Acceptor)) \/ CloseStep(Acceptor)
    BY <1>1, <2>1, ActorFacts
  <2>2. CASE Base(StartThread)
    BY <2>2, OtherAside, AsideKeepsTables DEF WInv
  <2> QED
    BY <1>3, <2>1, <2>2, AcceptTables, HandshakeTables, MapTables, ResetFreeTables, UnmapTables,
       AcceptEndsTables
       DEF WssAcceptorRuns
<1>4. Base(AcceptFails) \/ Base(ClientStep) \/ UNCHANGED wssVars => Tables'
  BY OtherAside, AsideKeepsTables DEF WInv
<1> QED
  BY <1>1, <1>2, <1>3, <1>4, ActorFacts DEF WssNext, WssThreadRuns

LEMMA WssNextInvariant ==
  ASSUME WInv, [WssNext]_wssVars
  PROVE WInv'
BY WssNextKeepsPlaced, WssNextTyped, WssNextEvents, WssNextTables DEF WInv

LEMMA WssInitInvariant ==
  ASSUME WssInit
  PROVE WInv
<1> USE ActorFacts
<1>1. Placed
  BY WssInitPlaced
<1>2. TInv
  BY InitTyped DEF WssInit
<1>3. /\ pc = [x \in Actors |-> IF x = Acceptor THEN "accept" ELSE "off"]
      /\ ret = [x \in Actors |-> "none"] /\ conn = [s \in Sockets |-> "free"]
      /\ interest = [s \in Sockets |-> "none"] /\ accepts = 0
  BY DEF WssInit, Init, ThreadInit, KernelInit
<1>4. SslEventAtHand
  BY <1>3 DEF SslEventAtHand, NeedsEvent
<1>5. Objects
  BY <1>3, KernelAssumption
     DEF WssInit, Objects, SslTypeOK, CopiedPtr, ThreadObject, MapNamesOwner, MadeForAccepts,
         Descriptors
<1>6. Accepting /\ Holding
  BY <1>3
     DEF WssInit, Accepting, AcceptCalls, AcceptorObject, AcceptIn, Holding, ClosersHold,
         CloseInside, SslMxHeld, TurnedDownClosed, RegisteredOpen
<1>7. Mapping
  BY <1>3
     DEF WssInit, Mapping, SpareUnmapped, RegisteringMapped, SslMapLive, RegisteredHasSsl,
         Descriptors, None
<1> QED
  BY <1>1, <1>2, <1>4, <1>5, <1>6, <1>7 DEF WInv, TInv, Tables

(* The inductive invariant of wss_server.                                  *)
THEOREM WssInvariant == WssSpec => []WInv
BY WssInitInvariant, WssNextInvariant, PTL DEF WssSpec

(* The types of wss_server: it makes no more SSL objects than it has       *)
(* connections, and one, and frees none that was not made.                 *)
THEOREM WssTypes == WssSpec => []WssTypeOK
<1>1. WInv => WssTypeOK
  BY DEF WInv, Placed, ControlIn, PlacesIn, L, C, DataTypeOK, Tables, Objects, SslTypeOK,
         WssTypeOK
<1> QED
  BY <1>1, WssInvariant, PTL

(* recv_epoll finds an SSL object, one that is not freed, for every socket *)
(* that is registered with epoll, whoever closes and accepts meanwhile.    *)
THEOREM RegisteredSsl == WssSpec => []RegisteredHasSsl
<1>1. WInv => RegisteredHasSsl
  BY DEF WInv, Tables, Mapping
<1> QED
  BY <1>1, WssInvariant, PTL

(* ssl_map names a freed object only while its entry is being reset,       *)
(* although start_accept writes the table without ssl_mx.                  *)
THEOREM MapIsLive == WssSpec => []SslMapLive
<1>1. WInv => SslMapLive
  BY DEF WInv, Tables, Mapping
<1> QED
  BY <1>1, WssInvariant, PTL

-----------------------------------------------------------------------------
(* The refinement of ThreadPool: what wss_server adds starts and ends no   *)
(* thread, and leaves the role alone.                                      *)
LEMMA NewStepSameLife ==
  ASSUME Placed, Standing, NewStep
  PROVE \E x \in Actors : SameLife(x)
<1>1. \A x \in Actors : ret[x] \notin {"off", "returned"}
  BY DEF Placed, ControlIn, PlacesIn, C, Callers, WssCallers
<1>2. ASSUME NEW x \in Actors, Local(x, L, C, S, R), pc[x] # "returned",
             pc'[x] \notin {"off", "returned"}
      PROVE SameLife(x)
  BY <1>2 DEF Local, OnlyMoves, SameLife
<1>3. ASSUME NEW x \in Actors, CloseNew(x)
      PROVE SameLife(x)
  <2>1. pc[x] # "returned" /\ pc'[x] \notin {"off", "returned"}
    BY <1>1, <1>3
       DEF CloseNew, CloseBaseEnds, CloseFree, CloseForget, CloseUnmap, CloseReturns, Goto,
           Return, Standing
  <2> QED
    BY <1>2, <1>3, <2>1, CloseNewLocal
<1>4. ASSUME NEW t \in Threads, ThreadNew(t)
      PROVE SameLife(t)
  <2>1. pc[t] # "returned" /\ pc'[t] \notin {"off", "returned"}
    BY <1>4, ActorFacts
       DEF ThreadNew, SslReadLoop, SslRefused, SslRecv, SslGive, GiveSsl, Skip, SslGiveStatus,
           SslGiveFd, Write, WriteLock, WriteSucceeds, SslWriteFails, Goto, Call, Standing
  <2> QED
    BY <1>2, <1>4, <2>1, ActorFacts, ThreadNewLocal
<1>5. ASSUME AcceptNew
      PROVE SameLife(Acceptor)
  <2>1. pc[Acceptor] # "returned" /\ pc'[Acceptor] \notin {"off", "returned"}
    BY <1>1, <1>5, ActorFacts
       DEF AcceptNew, SslAccept, FirstPollFails, HandshakeBegins, HandshakeEnds, Reject,
           SslUpgrade, MapSsl, RegisterFails, ResetClose, ResetFree, Unmap, CallReset, Goto,
           Call, Return, Standing
  <2> QED
    BY <1>2, <1>5, <2>1, ActorFacts, AcceptNewLocal
<1> QED
  BY <1>3, <1>4, <1>5, ActorFacts DEF NewStep

(* The pool under wss_server implements ThreadPool as that of ws_server    *)
(* does, with the overridden recv_epoll and the places where threads reply *)
(* and close sockets under ssl_mx.                                         *)
THEOREM SslImplementsPool == WssSpec => PoolIsThreadPool
<1>1. WInv /\ [WssNext]_wssVars => [Pool!PoolNext]_(Pool!poolVars)
  <2> SUFFICES ASSUME WInv, [WssNext]_wssVars
               PROVE [Pool!PoolNext]_(Pool!poolVars)
    OBVIOUS
  <2>1. Typed /\ Standing /\ Placed /\ MutexHeld /\ FreeSlotIdle
    BY WInvTyped DEF WInv, Typed, Placed, ControlIn
  <2>2. \A t \in Threads : pc[t] = "done" => recv_thread # t
    BY <2>1, ActorFacts
       DEF Placed, ControlIn, RoleIn, CallsReturnIn, R, RecvLabels, S, SubLabels,
           SslSubLabels
  <2>3. CASE NewStep
    BY <2>1, <2>3, NewStepSameLife, SameLifeStutters
  <2> QED
    BY <2>1, <2>2, <2>3, NextRefines, WssStepKinds
<1>2. WssInit => Pool!PoolInit
  BY InitRefines DEF WssInit
<1> QED
  BY <1>1, <1>2, WssInvariant, PTL DEF WssSpec, PoolIsThreadPool, Pool!PoolSpec

-----------------------------------------------------------------------------
(* What wss_server adds keeps the pending list as it is, and a thread that *)
(* is bound to look at the list stays so while it replies, or closes its   *)
(* socket instead.                                                         *)
SslServing(t) == Serving(t) \/ pc[t] \in {"write", "ssl_write"}

StillServes(x) ==
  /\ UNCHANGED <<pending, tail>>
  /\ \A y \in Threads \ {x} : pc'[y] = pc[y] /\ ret'[y] = ret[y]
  /\ x \in Threads /\ SslServing(x) => SslServing(x)'

LEMMA CloseNewServes ==
  ASSUME Placed, Standing, NEW x \in Actors, CloseNew(x)
  PROVE StillServes(x)
<1> USE ActorFacts, SslLabelFacts
       DEF Standing, StillServes, SslServing, Serving, ServingLabels, Goto, Call, Return, Set,
           poolShape, socketVars, slots, socketRest, epollLocals
<1>1. /\ ret[x] \in C \union {"none"}
      /\ pc[x] \in S <=> ret[x] # "none"
  BY DEF Placed, ControlIn, PlacesIn, CallsReturnIn
<1>CloseBaseEnds. CASE CloseBaseEnds(x)
  BY <1>CloseBaseEnds, <1>1 DEF CloseBaseEnds
<1>CloseFree. CASE CloseFree(x)
  BY <1>CloseFree, <1>1 DEF CloseFree, CloseReturns
<1>CloseForget. CASE CloseForget(x)
  BY <1>CloseForget, <1>1 DEF CloseForget
<1>CloseUnmap. CASE CloseUnmap(x)
  BY <1>CloseUnmap, <1>1 DEF CloseUnmap, CloseReturns
<1> QED
  BY <1>CloseBaseEnds, <1>CloseFree, <1>CloseForget, <1>CloseUnmap DEF CloseNew

LEMMA ThreadNewServes ==
  ASSUME Placed, Standing, NEW x \in Threads, ThreadNew(x)
  PROVE StillServes(x)
<1> USE ActorFacts, SslLabelFacts
       DEF Standing, StillServes, SslServing, Serving, ServingLabels, Goto, Call, Return, Set,
           poolShape, socketVars, slots, socketRest, epollLocals
<1>1. /\ pc[x] \in {"read_loop", "recv", "give", "give_ssl", "skip", "give_status", "give_fd",
                   "user", "write", "ssl_write"}
      /\ pc[x] \notin S => ret[x] = "none"
  BY DEF Placed, ControlIn, CallsReturnIn, ThreadNew, SslReadLoop, SslRefused, SslRecv, SslGive,
         GiveSsl, Skip, SslGiveStatus, SslGiveFd, Write, WriteLock, WriteSucceeds, SslWriteFails
<1>2. pc[x] \notin S
  BY <1>1 DEF S, SubLabels, SslSubLabels
<1>SslReadLoop. CASE SslReadLoop(x)
  BY <1>SslReadLoop, <1>1, <1>2 DEF SslReadLoop
<1>SslRefused. CASE SslRefused(x)
  BY <1>SslRefused, <1>1, <1>2 DEF SslRefused, SslRecv
<1>SslGive. CASE SslGive(x)
  BY <1>SslGive, <1>1, <1>2 DEF SslGive
<1>GiveSsl. CASE GiveSsl(x)
  BY <1>GiveSsl, <1>1, <1>2 DEF GiveSsl
<1>Skip. CASE Skip(x)
  BY <1>Skip, <1>1, <1>2 DEF Skip
<1>SslGiveStatus. CASE SslGiveStatus(x)
  BY <1>SslGiveStatus, <1>1, <1>2 DEF SslGiveStatus
<1>SslGiveFd. CASE SslGiveFd(x)
  BY <1>SslGiveFd, <1>1, <1>2 DEF SslGiveFd
<1>Write. CASE Write(x)
  BY <1>Write, <1>1, <1>2 DEF Write
<1>WriteLock. CASE WriteLock(x)
  BY <1>WriteLock, <1>1, <1>2 DEF WriteLock
<1>WriteSucceeds. CASE WriteSucceeds(x)
  BY <1>WriteSucceeds, <1>1, <1>2 DEF WriteSucceeds, WriteUnlock
<1>SslWriteFails. CASE SslWriteFails(x)
  BY <1>SslWriteFails, <1>1, <1>2 DEF SslWriteFails, WriteUnlock
<1> QED
  BY <1>SslReadLoop, <1>SslRefused, <1>SslGive, <1>GiveSsl, <1>Skip, <1>SslGiveStatus,
     <1>SslGiveFd, <1>Write, <1>WriteLock, <1>WriteSucceeds, <1>SslWriteFails
     DEF ThreadNew

LEMMA AcceptNewServes ==
  ASSUME Placed, Standing, AcceptNew
  PROVE StillServes(Acceptor)
<1> USE ActorFacts, SslLabelFacts
       DEF Standing, StillServes, SslServing, Serving, ServingLabels, Goto, Call, Return, Set,
           poolShape, socketVars, slots, socketRest, epollLocals
<1>1. Acceptor \notin Threads
  BY ActorFacts
<1>SslAccept. CASE SslAccept
  BY <1>SslAccept, <1>1 DEF SslAccept, Accept4
<1>FirstPollFails. CASE FirstPollFails
  BY <1>FirstPollFails, <1>1 DEF FirstPollFails
<1>HandshakeBegins. CASE HandshakeBegins
  BY <1>HandshakeBegins, <1>1 DEF HandshakeBegins
<1>HandshakeEnds. CASE HandshakeEnds
  BY <1>HandshakeEnds, <1>1 DEF HandshakeEnds, CallReset
<1>Reject. CASE Reject
  BY <1>Reject, <1>1 DEF Reject, CallReset
<1>SslUpgrade. CASE SslUpgrade
  BY <1>SslUpgrade, <1>1 DEF SslUpgrade
<1>MapSsl. CASE MapSsl
  BY <1>MapSsl, <1>1 DEF MapSsl, CallReset
<1>RegisterFails. CASE RegisterFails
  BY <1>RegisterFails, <1>1 DEF RegisterFails, CallReset
<1>ResetClose. CASE ResetClose
  BY <1>ResetClose, <1>1 DEF ResetClose
<1>ResetFree. CASE ResetFree
  BY <1>ResetFree, <1>1 DEF ResetFree
<1>Unmap. CASE Unmap
  BY <1>Unmap, <1>1 DEF Unmap
<1> QED
  BY <1>SslAccept, <1>FirstPollFails, <1>HandshakeBegins, <1>HandshakeEnds, <1>Reject,
     <1>SslUpgrade, <1>MapSsl, <1>RegisterFails, <1>ResetClose, <1>ResetFree, <1>Unmap
     DEF AcceptNew

(* A step of ws_server starts at a place of ws_server. *)
LEMMA ActorPlace ==
  ASSUME NEW x \in Actors, ActorStep(x)
  PROVE pc[x] \in Labels
<1> USE DEF Labels, SubLabels, RecvLabels, WorkLabels, AcceptLabels
<1>1. CASE ServerStep(x)
  BY <1>1
     DEF ServerStep, PoolStep, ThreadStep, GetThreadScan, GetThreadOwn, GetThreadTake,
         GetThreadMark, AddThreadStart, AddThreadStore, ResizeEnd, ResizeLook, ResizeMark,
         ResizeJoin, ResizeClear, ResizeFd, CloseSocket, CloseSweep, CloseReset, ClearPending
<1>2. CASE MsgRecvStep(x) \/ UserStep(x)
  BY <1>2
     DEF MsgRecvStep, MsgRecv, Park, ParkStatus, ParkRole, Wait, WaitRole, WaitStatus, WaitMx,
         Woken, Prefix, ReadLoop, Recv, Refuse, Push, PushPending, EpollOn, EpollOnCtl,
         Announce, Announced, Done, UserStep, UserReturns, WriteFails
<1>3. CASE RecvEpollStep(x)
  BY <1>3
     DEF RecvEpollStep, RecvEpoll, Scan, Poll, EpollWait, Events, Give, GiveFd, GiveStatus,
         GiveCtl, Acknowledge, Drop, Leave, GiveUp
<1>4. CASE x = Acceptor /\ (AcceptStep \/ Accept \/ AcceptFails)
  BY <1>4
     DEF AcceptStep, TurnDown, AnswerFails, Upgrade, SetEvent, Register, StartThread, Accept,
         AcceptFails
<1> QED
  BY <1>1, <1>2, <1>3, <1>4 DEF ActorStep

(* The steps of ws_server do not move a thread that replies, and of those  *)
(* that serve the list speaks ServingStays.                                *)
LEMMA BaseServes ==
  ASSUME WInv, NoTail, [Next]_vars, ~MixedReads, pending' # <<>>,
         NEW t \in Threads, SslServing(t)
  PROVE SslServing(t)'
<1>1. Standing /\ MutexHeld /\ FreeSlotIdle /\ ResizeByReceiver
  BY WInvTyped DEF WInv, Typed, Placed, ControlIn, Sweeping
<1>2. CASE Serving(t)
  BY <1>1, <1>2, ServingStays DEF SslServing, NoTail
<1>3. CASE pc[t] \in {"write", "ssl_write"}
  <2>1. pc[t] \notin Labels \union {"off", "returned"}
    BY <1>3 DEF Labels, SubLabels, RecvLabels, WorkLabels, AcceptLabels
  <2>2. ASSUME NEW x \in Actors, ActorStep(x)
        PROVE pc'[t] = pc[t]
    <3>1. x # t
      BY <2>1, <2>2, ActorPlace
    <3> QED
      BY <1>1, <2>1, <2>2, <3>1, ActorFacts, OthersStay
  <2>3. ClientStep \/ UNCHANGED vars => pc' = pc
    BY DEF ClientStep, vars, threadVars
  <2> QED
    BY <1>3, <2>2, <2>3, NextIsActorStep DEF SslServing
<1> QED
  BY <1>2, <1>3 DEF SslServing

(* A message on the pending list of wss_server has a thread that will look *)
(* for it, also if that thread waits for ssl_mx to reply, or its reply     *)
(* fails and it closes the socket first.                                   *)
THEOREM SslPendingIsServed == WssSpec => []SslPendingServed
<1> DEFINE Inv == WInv /\ NoTail /\ SslPendingServed
<1>1. WssInit => Inv
  BY WssInitInvariant DEF WssInit, Init, SocketInit, NoTail, SslPendingServed
<1>2. ASSUME Inv, [WssNext]_wssVars
      PROVE Inv'
  <2>1. WInv /\ Placed /\ Standing
    BY <1>2, WInvTyped DEF WInv, Typed
  <2>2. CASE NewStep
    <3>1. PICK x \in Actors : StillServes(x)
      BY <2>1, <2>2, ActorFacts, CloseNewServes, ThreadNewServes, AcceptNewServes DEF NewStep
    <3>2. NoTail' /\ SslPendingServed'
      BY <1>2, <3>1 DEF StillServes, NoTail, SslPendingServed, SslServing, Serving
    <3> QED
      BY <1>2, <3>2, WssNextInvariant
  <2>3. CASE [Next]_vars
    <3>1. NoTail'
      BY <1>2, <2>3, NextNoTail
    <3>2. SslPendingServed'
      <4> SUFFICES ASSUME ~MixedReads, pending' # <<>>
                   PROVE \E t \in Threads : SslServing(t)'
        BY DEF SslPendingServed, SslServing
      <4>1. CASE pending # <<>>
        <5>1. PICK t \in Threads : SslServing(t)
          BY <1>2, <4>1 DEF SslPendingServed, SslServing
        <5> QED
          BY <1>2, <2>3, <5>1, BaseServes
      <4>2. CASE pending = <<>>
        <5>1. PICK t \in Threads : PushPending(t)
          BY <2>3, <4>2, PendingGrows
        <5>2. pc'[t] = "push"
          BY <2>1, <5>1, ActorFacts DEF PushPending, Goto, Standing
        <5> QED
          BY <5>2 DEF SslServing, Serving, ServingLabels
      <4> QED
        BY <4>1, <4>2
    <3> QED
      BY <1>2, <3>1, <3>2, WssNextInvariant
  <2> QED
    BY <1>2, <2>2, <2>3, WssStepKinds
<1>3. Inv /\ [WssNext]_wssVars => Inv'
  BY <1>2
<1>4. Inv => SslPendingServed
  OBVIOUS
<1> QED
  BY <1>1, <1>3, <1>4, PTL DEF WssSpec

=============================================================================
