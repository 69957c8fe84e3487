----------------------------- MODULE WssServer -----------------------------
(***************************************************************************)
(* class wss_server (hast_web/wss_server.cpp): the server over TLS.        *)
(*                                                                         *)
(* It inherits the pool and the whole of socket_server and overrides       *)
(* recv_epoll, read_loop, pop_pending and close_socket, so that every      *)
(* socket has an SSL object: ssl_map finds it for a descriptor, ssl[t] is  *)
(* the one thread t works with, and ssl_mx is held around every call of    *)
(* OpenSSL, but not around every use of the two tables.                    *)
(*                                                                         *)
(* The actions of SocketServer that are not overridden are taken over as   *)
(* they are; of WsServer, the steps start_accept has in common with that   *)
(* of ws_server.  SSL objects are numbered in the order SSL_new makes      *)
(* them, so that an object that was freed is not taken for a later one at  *)
(* the same address.  What a call on a freed object does is undefined: the *)
(* calls fail here (the process might as well end, which only takes        *)
(* behaviour away).                                                        *)
(***************************************************************************)
EXTENDS WsServer

CONSTANT MaxTraffic    (* bound: connections and messages together             *)

ASSUME TrafficAssumption == MaxTraffic \in Nat

VARIABLES
  ssl_mx,              (* holder of the mutex, or None                       *)
  ssl,                 (* ssl[t]: the SSL object of thread t, or None        *)
  ssl_map,             (* ssl_map[s]: the SSL object of descriptor s         *)
  ssl_ptr,             (* local of start_accept: the object for its socket   *)
  tmp,                 (* per actor: the pointer a call in progress copied   *)
  made, freed,         (* objects SSL_new made, and those SSL_free was given *)
  fd_of                (* fd_of[p]: the descriptor SSL_set_fd gave object p  *)

(* What most steps leave alone: the fields of the pool but pc and ret, and  *)
(* those of socket_server but arg.                                         *)
slots == <<status, thread_list, socketfd, recv_thread, thread_mx, slot, sweep>>
socketRest == <<got_it, wait_mx, close_mx, pending, ev, epollLocals, unpushed, tail, count>>
tables == <<ssl, ssl_map>>
objects == <<made, freed, fd_of>>
sslVars == <<ssl_mx, tables, ssl_ptr, tmp, objects>>
wssVars == <<vars, sslVars>>

Live == 1..made \ freed

(* One object is made before the first connection. *)
WssInit ==
  /\ Init
  /\ ssl_mx = None
  /\ ssl = [t \in Threads |-> None]
  /\ ssl_map = [s \in Descriptors |-> None]
  /\ ssl_ptr = 1
  /\ tmp = [x \in Actors |-> None]
  /\ made = 1 /\ freed = {}
  /\ fd_of = [p \in 1 .. MaxAccepts + 1 |-> None]

(* A step of the base classes. *)
Base(A) == A /\ UNCHANGED sslVars

-----------------------------------------------------------------------------
(* close_socket(int): the base's close_socket and the end of the SSL       *)
(* object in one critical section of ssl_mx.  The base's own is called     *)
(* without it when a socket has no object; that call returns to "skip".    *)

Wrapped(x) == ret[x] # "skip"

CloseLock(x) ==
  /\ pc[x] = "close_socket" /\ Wrapped(x)
  /\ ssl_mx = None
  /\ ssl_mx' = x
  /\ UNCHANGED <<vars, tables, ssl_ptr, tmp, objects>>

(* A closed socket is -1, of which ssl_map knows nothing. *)
CloseBase(x) ==
  /\ Wrapped(x) => ssl_mx = x
  /\ CloseSocket(x)
  /\ ssl_mx' = IF arg[x] = None /\ Wrapped(x) THEN None ELSE ssl_mx
  /\ UNCHANGED <<tables, ssl_ptr, tmp, objects>>

CloseClear(x) ==
  /\ ClearPending(x)
  /\ Wrapped(x) => Contains(pending, arg[x])
  /\ UNCHANGED sslVars

CloseBaseEnds(x) ==
  /\ pc[x] = "clear_pending" /\ Wrapped(x)
  /\ ~Contains(pending, arg[x])
  /\ close_mx' = None
  /\ Goto(x, "close_ssl")
  /\ UNCHANGED <<slots, ret, epollLocals, got_it, wait_mx, pending, ev, arg, unpushed,
                 tail, count, kernelVars, sslVars>>

CloseReturns(x) ==
  /\ ssl_mx' = None
  /\ arg' = Set(arg, x, None)
  /\ tmp' = Set(tmp, x, None)
  /\ Return(x)

CloseFree(x) ==
  /\ pc[x] = "close_ssl"
  /\ \/ /\ ssl_map[arg[x]] = None
        /\ CloseReturns(x) /\ UNCHANGED freed
     \/ /\ ssl_map[arg[x]] # None
        /\ tmp' = Set(tmp, x, ssl_map[arg[x]])
        /\ freed' = freed \union {ssl_map[arg[x]]}
        /\ Goto(x, "close_forget")
        /\ UNCHANGED <<ssl_mx, ret, arg>>
  /\ UNCHANGED <<slots, socketRest, kernelVars, tables, ssl_ptr, made, fd_of>>

CloseForget(x) ==
  /\ pc[x] = "close_forget"
  /\ ssl' = [a \in Threads |-> IF ssl[a] = tmp[x] THEN None ELSE ssl[a]]
  /\ Goto(x, "close_unmap")
  /\ UNCHANGED <<slots, ret, socketVars, kernelVars, ssl_mx, ssl_map, ssl_ptr, tmp,
                 objects>>

(* Faulty variant: the entry of ssl_map stays. *)
CloseKeepsEntry(x) ==
  /\ pc[x] = "close_unmap"
  /\ CloseReturns(x)
  /\ UNCHANGED <<slots, socketRest, kernelVars, tables, ssl_ptr, objects>>

CloseUnmap(x) ==
  /\ pc[x] = "close_unmap"
  /\ ssl_map' = Set(ssl_map, arg[x], None)
  /\ CloseReturns(x)
  /\ UNCHANGED <<slots, socketRest, kernelVars, ssl, ssl_ptr, objects>>

CloseStep(x) ==
  \/ CloseLock(x) \/ CloseBase(x) \/ Base(CloseSweep(x)) \/ Base(CloseReset(x))
  \/ CloseClear(x) \/ CloseBaseEnds(x) \/ CloseFree(x) \/ CloseForget(x) \/ CloseUnmap(x)

-----------------------------------------------------------------------------
(* pop_pending: ssl_map is read under close_mx, not under ssl_mx. *)

FindSsl(t) ==
  ssl' = IF pending = <<>> THEN ssl ELSE Set(ssl, t, ssl_map[Head(pending)])

SslPop(t) ==
  /\ MsgRecv(t) \/ Prefix(t)
  /\ FindSsl(t)
  /\ UNCHANGED <<ssl_mx, ssl_map, ssl_ptr, tmp, objects>>

-----------------------------------------------------------------------------
(* read_loop: the pointer is copied under ssl_mx, and used after it is     *)
(* given up: for SSL_get_fd, to wait for data, and for SSL_read, each call *)
(* of which takes ssl_mx again.                                            *)

SslReadLoop(t) ==
  /\ pc[t] = "read_loop"
  /\ ssl_mx = None
  /\ IF ssl[t] = None
     THEN Goto(t, "refuse") /\ UNCHANGED <<arg, tmp>>
     ELSE /\ tmp' = Set(tmp, t, ssl[t])
          /\ arg' = Set(arg, t, fd_of[ssl[t]])
          /\ Goto(t, "recv")
  /\ UNCHANGED <<slots, ret, socketRest, kernelVars, ssl_mx, tables, ssl_ptr, objects>>

SslRecv(t) ==
  /\ pc[t] = "recv"
  /\ ssl_mx = None
  /\ \/ tmp[t] \in Live /\ Recv(t)
     \/ /\ tmp[t] \in freed
        /\ arg' = Set(arg, t, None)
        /\ Goto(t, "refuse")
        /\ UNCHANGED <<slots, ret, socketRest, kernelVars>>
  /\ tmp' = Set(tmp, t, None)
  /\ UNCHANGED <<ssl_mx, tables, ssl_ptr, objects>>

-----------------------------------------------------------------------------
(* recv_epoll: as the base's but for the hand-over, which looks up the SSL *)
(* object first and sets status before socketfd.                           *)

SslGive(t) ==
  /\ pc[t] = "give"
  /\ b' = slot[t]
  /\ slot' = Set(slot, t, None)
  /\ Goto(t, IF slot[t] = None THEN "drop" ELSE "give_ssl")
  /\ UNCHANGED <<status, socketfd, recv_thread, thread_mx, ret, poolShape, got_it,
                 wait_mx, close_mx, pending, ev, wait_amount, loop_amount, events, arg,
                 unpushed, tail, count, kernelVars, sslVars>>

(* A descriptor without an object is closed by the base's close_socket, at *)
(* once but after ssl_mx is given up.                                      *)
GiveSsl(t) ==
  LET c == Head(events).fd
  IN /\ pc[t] = "give_ssl"
     /\ ssl_mx = None
     /\ ssl' = Set(ssl, b, ssl_map[c])
     /\ \/ /\ ssl_map[c] = None
           /\ status' = Set(status, b, "WAIT")
           /\ arg' = Set(arg, t, c)
           /\ Call(t, "close_socket", "skip")
           /\ UNCHANGED got_it
        \/ /\ ssl_map[c] # None
           /\ got_it' = FALSE
           /\ Goto(t, "give_status")
           /\ UNCHANGED <<status, ret, arg>>
     /\ UNCHANGED <<socketfd, recv_thread, thread_mx, slot, poolShape, epollLocals,
                    wait_mx, close_mx, pending, ev, unpushed, tail, count, kernelVars,
                    ssl_mx, ssl_map, ssl_ptr, tmp, objects>>

Skip(t) ==
  /\ pc[t] = "skip"
  /\ events' = Tail(events)
  /\ Goto(t, "events")
  /\ UNCHANGED <<slots, ret, got_it, wait_mx, close_mx, pending, ev, b, wait_amount,
                 loop_amount, arg, unpushed, tail, count, kernelVars, sslVars>>

SslGiveStatus(t) ==
  /\ pc[t] = "give_status"
  /\ status' = Set(status, b, "READ")
  /\ Goto(t, "give_fd")
  /\ UNCHANGED <<socketfd, recv_thread, thread_mx, ret, slot, poolShape, socketVars,
                 kernelVars, sslVars>>

SslGiveFd(t) ==
  /\ pc[t] = "give_fd"
  /\ socketfd' = Set(socketfd, b, Head(events).fd)
  /\ Goto(t, "give_ctl")
  /\ UNCHANGED <<status, recv_thread, thread_mx, ret, slot, poolShape, socketVars,
                 kernelVars, sslVars>>

-----------------------------------------------------------------------------
(* write(ssl[t], ...), by which the application replies.  ssl_mx is held   *)
(* until everything is written, however long the client takes to read.     *)

Write(t) ==
  /\ pc[t] = "user"
  /\ ssl[t] # None
  /\ tmp' = Set(tmp, t, ssl[t])
  /\ arg' = Set(arg, t, fd_of[ssl[t]])
  /\ Goto(t, "write")
  /\ UNCHANGED <<slots, ret, socketRest, kernelVars, ssl_mx, tables, ssl_ptr, objects>>

WriteLock(t) ==
  /\ pc[t] = "write"
  /\ ssl_mx = None
  /\ ssl_mx' = t
  /\ Goto(t, "ssl_write")
  /\ UNCHANGED <<slots, ret, socketVars, kernelVars, tables, ssl_ptr, tmp, objects>>

Broken(s) == conn[s] = "free" \/ peer[s] = "rst"

WriteUnlock(t) ==
  /\ ssl_mx' = None
  /\ tmp' = Set(tmp, t, None)
  /\ UNCHANGED <<slots, socketRest, kernelVars, tables, ssl_ptr, objects>>

WriteSucceeds(t) ==
  /\ pc[t] = "ssl_write"
  /\ tmp[t] \in Live
  /\ arg' = Set(arg, t, None)
  /\ Goto(t, "msg_recv") /\ UNCHANGED ret
  /\ WriteUnlock(t)

(* close_socket(fd), with the descriptor read before the lock. *)
SslWriteFails(t) ==
  /\ pc[t] = "ssl_write"
  /\ tmp[t] \in freed \/ Broken(arg[t])
  /\ Call(t, "close_socket", "msg_recv") /\ UNCHANGED arg
  /\ WriteUnlock(t)

-----------------------------------------------------------------------------
(* start_accept *)

SslAccept ==
  /\ pc[Acceptor] = "accept"
  /\ \E s \in Sockets : Accept4(s) /\ arg' = Set(arg, Acceptor, s)
  /\ Goto(Acceptor, "first_poll")
  /\ UNCHANGED <<slots, ret, socketRest, sslVars>>

(* After accept4 failed, the object at hand is freed. *)
AcceptEnds ==
  /\ pc[Acceptor] = "ended" /\ ssl_ptr # None
  /\ ssl_mx = None
  /\ freed' = freed \union {ssl_ptr}
  /\ ssl_ptr' = None
  /\ UNCHANGED <<vars, ssl_mx, tables, tmp, made, fd_of>>

(* Nothing within 3 s: the SSL object is kept for the next connection. *)
FirstPollFails ==
  /\ pc[Acceptor] = "first_poll"
  /\ CloseFd(arg[Acceptor])
  /\ arg' = Set(arg, Acceptor, None)
  /\ Goto(Acceptor, "accept")
  /\ UNCHANGED <<slots, ret, socketRest, sslVars>>

(* The object is the one at hand or a new one.  ssl_mx is held until       *)
(* SSL_accept ends, one way or the other.                                  *)
HandshakeBegins ==
  /\ pc[Acceptor] = "first_poll"
  /\ ssl_mx = None
  /\ ssl_mx' = Acceptor
  /\ \/ ssl_ptr # None /\ UNCHANGED <<ssl_ptr, made>>
     \/ ssl_ptr = None /\ ssl_ptr' = made + 1 /\ made' = made + 1
  /\ fd_of' = Set(fd_of, ssl_ptr', arg[Acceptor])
  /\ Goto(Acceptor, "ssl_accepting")
  /\ UNCHANGED <<slots, ret, socketVars, kernelVars, tables, tmp, freed>>

(* reset_accept(new_socket, ssl_ptr), then back to accept4, or on to the   *)
(* end of the entry of ssl_map.                                            *)
CallReset(back) ==
  /\ Call(Acceptor, "reset_accept", back)
  /\ arg' = Set(arg, Acceptor, fd_of[ssl_ptr])

(* Faulty variant: reset_accept is called with ssl_mx held. *)
HandshakeFailsLocked ==
  /\ pc[Acceptor] = "ssl_accepting"
  /\ \/ Goto(Acceptor, "handshake") /\ ssl_mx' = None /\ UNCHANGED <<ret, arg>>
     \/ CallReset("accept") /\ UNCHANGED ssl_mx
  /\ UNCHANGED <<slots, socketRest, kernelVars, tables, ssl_ptr, tmp, objects>>

HandshakeEnds ==
  /\ pc[Acceptor] = "ssl_accepting"
  /\ ssl_mx' = None
  /\ \/ Goto(Acceptor, "handshake") /\ UNCHANGED <<ret, arg>>
     \/ CallReset("accept")
  /\ UNCHANGED <<slots, socketRest, kernelVars, tables, ssl_ptr, tmp, objects>>

(* No request, one that upgrade or on_connect turns down, or, once it is   *)
(* answered, one that on_open turns down.                                  *)
Reject ==
  /\ pc[Acceptor] \in {"handshake", "map"}
  /\ CallReset("accept")
  /\ UNCHANGED <<slots, socketRest, kernelVars, sslVars>>

(* The request is read and answered under ssl_mx.  That the answer fails,  *)
(* and the socket is closed, goes unnoticed.                               *)
SslUpgrade ==
  /\ pc[Acceptor] = "handshake"
  /\ ssl_mx = None
  /\ \/ /\ conn[arg[Acceptor]] = "new"
        /\ conn' = Set(conn, arg[Acceptor], "open")
        /\ Goto(Acceptor, "map")
        /\ UNCHANGED ret
     \/ /\ Broken(arg[Acceptor])
        /\ Call(Acceptor, "close_socket", "map")
        /\ UNCHANGED conn
  /\ UNCHANGED <<slots, socketVars, inbox, peer, interest, tag, accepts, sent, sslVars>>

(* ssl_map[new_socket] is read and written without ssl_mx. *)
MapSsl ==
  /\ pc[Acceptor] = "map"
  /\ LET new_socket == fd_of[ssl_ptr]
     IN \/ /\ ssl_map[new_socket] = None
           /\ ssl_map' = Set(ssl_map, new_socket, ssl_ptr)
           /\ arg' = Set(arg, Acceptor, new_socket)
           /\ Goto(Acceptor, "set_event") /\ UNCHANGED ret
        \/ /\ ssl_map[new_socket] # None
           /\ CallReset("unmap") /\ UNCHANGED ssl_map
  /\ UNCHANGED <<slots, socketRest, kernelVars, ssl_mx, ssl, ssl_ptr, tmp, objects>>

(* Faulty variant: ssl_ptr keeps the object for the next connection. *)
RegisterKeepsPtr ==
  /\ Register
  /\ UNCHANGED sslVars

SslRegister ==
  /\ Register
  /\ ssl_ptr' = None
  /\ UNCHANGED <<ssl_mx, tables, tmp, objects>>

RegisterFails ==
  /\ pc[Acceptor] = "register"
  /\ CallReset("unmap")
  /\ UNCHANGED <<slots, socketRest, kernelVars, sslVars>>

ResetClose ==
  /\ pc[Acceptor] = "reset_accept"
  /\ CloseFd(arg[Acceptor])
  /\ Goto(Acceptor, "reset_free")
  /\ UNCHANGED <<slots, ret, socketVars, sslVars>>

(* ssl_ptr is freed, whether or not it still is what it was: once it is in *)
(* ssl_map, a close_socket of another thread may have freed it already.    *)
ResetFree ==
  /\ pc[Acceptor] = "reset_free"
  /\ ssl_mx = None
  /\ freed' = freed \union {ssl_ptr}
  /\ ssl_ptr' = None
  /\ arg' = IF ret[Acceptor] = "accept" THEN Set(arg, Acceptor, None) ELSE arg
  /\ Return(Acceptor)
  /\ UNCHANGED <<slots, socketRest, kernelVars, ssl_mx, tables, tmp, made, fd_of>>

Unmap ==
  /\ pc[Acceptor] = "unmap"
  /\ ssl_map' = Set(ssl_map, arg[Acceptor], None)
  /\ arg' = Set(arg, Acceptor, None)
  /\ Goto(Acceptor, "accept")
  /\ UNCHANGED <<slots, ret, socketRest, kernelVars, ssl_mx, ssl, ssl_ptr, tmp,
                 objects>>

-----------------------------------------------------------------------------
(* The steps of socket_server that wss_server does not override. *)
Inherited(t) ==
  \/ Park(t) \/ ParkStatus(t) \/ ParkRole(t) \/ Wait(t) \/ WaitRole(t) \/ WaitStatus(t)
  \/ WaitMx(t) \/ Woken(t) \/ Refuse(t) \/ Push(t) \/ PushPending(t) \/ EpollOn(t)
  \/ EpollOnCtl(t) \/ Announce(t) \/ Announced(t) \/ Done(t)
  \/ RecvEpoll(t) \/ Scan(t) \/ Poll(t) \/ EpollWait(t) \/ Events(t) \/ GiveCtl(t)
  \/ Acknowledge(t) \/ Drop(t) \/ Leave(t) \/ GiveUp(t)

SslStep(t) ==
  \/ SslPop(t) \/ SslReadLoop(t) \/ SslRecv(t)
  \/ SslGive(t) \/ GiveSsl(t) \/ Skip(t) \/ SslGiveStatus(t) \/ SslGiveFd(t)
  \/ WriteLock(t) \/ SslWriteFails(t)

WssThreadRuns(t) == Base(PoolStep(t)) \/ CloseStep(t) \/ Base(Inherited(t)) \/ SslStep(t)

WssUserStep(t) == Base(UserReturns(t)) \/ Write(t)

WssAcceptorRuns ==
  \/ Base(PoolStep(Acceptor)) \/ CloseStep(Acceptor)
  \/ FirstPollFails \/ HandshakeBegins \/ Reject \/ SslUpgrade \/ MapSsl
  \/ Base(SetEvent) \/ SslRegister \/ RegisterFails \/ ResetClose \/ ResetFree \/ Unmap
  \/ Base(StartThread) \/ AcceptEnds

Bounded == accepts + sent <= MaxTraffic

WssNext ==
  \/ \E t \in Threads : WssThreadRuns(t) \/ WssUserStep(t) \/ WriteSucceeds(t)
  \/ WssAcceptorRuns \/ HandshakeEnds
  \/ SslAccept /\ Bounded'
  \/ Base(AcceptFails)
  \/ Base(ClientStep) /\ Bounded'

WssSpec == WssInit /\ [][WssNext]_wssVars

(* What ends the holding of close_mx and ssl_mx.  The last two depend on   *)
(* clients: to end their TLS handshakes, and to read what is written.      *)
HolderStep ==
  \/ \E x \in Actors : CloseStep(x)
  \/ \E t \in Threads : Base(EpollOnCtl(t)) \/ SslWriteFails(t) \/ WriteSucceeds(t)
  \/ HandshakeEnds

FairWss == WssSpec /\ WF_wssVars(HolderStep)

-----------------------------------------------------------------------------
WssLabels ==
  {"close_ssl", "close_forget", "close_unmap", "give_ssl", "skip", "write", "ssl_write",
   "first_poll", "ssl_accepting", "map", "reset_accept", "reset_free", "unmap"}

WssCallers == {"skip", "map", "unmap"}

(* The base's types, with the labels of this class; ssl_mx, the tables and *)
(* the SSL objects.  An object is freed after it was made.                 *)
WssTypeOK ==
  /\ PoolTypeOK /\ SocketTypeOK /\ KernelTypeOK
  /\ pc \in [Actors -> Labels \union WssLabels]
  /\ ret \in [Actors -> Callers \union WssCallers \union {"none"}]
  /\ ssl_mx \in Actors \union {None}
  /\ made \in 1 .. MaxAccepts + 1
  /\ freed \subseteq 1..made
  /\ ssl \in [Threads -> 1..made \union {None}]
  /\ ssl_map \in [Descriptors -> 1..made \union {None}]
  /\ ssl_ptr \in 1..made \union {None}
  /\ tmp \in [Actors -> 1..made \union {None}]
  /\ fd_of \in [1 .. MaxAccepts + 1 -> Descriptors]

(* A socket that is registered with epoll has an SSL object that is not    *)
(* freed: recv_epoll finds none for a socket only if its event is stale.   *)
RegisteredHasSsl ==
  \A s \in Sockets : interest[s] # "none" => ssl_map[s] \in Live

(* ssl_map never names a freed object but while its entry is being reset,  *)
(* by close_socket or, after a reset_accept, by start_accept.              *)
SslMapLive ==
  \A s \in Sockets : ssl_map[s] \in freed =>
    \E x \in Actors :
      arg[x] = s /\ pc[x] \in {"close_forget", "close_unmap", "unmap"}

(* recv_epoll as wss_server overrides it is still run by exactly the       *)
(* thread recv_thread names, also while it closes a socket without an      *)
(* object in the middle of a hand-over.                                    *)
SslRecvExclusive ==
  \A t \in Threads :
    (InRecv(t) \/ pc[t] \in {"give_ssl", "skip"} \/ ret[t] = "skip") <=> recv_thread = t

(* No pending message is forgotten: a thread that replies, or waits for    *)
(* ssl_mx to reply, looks at the list afterwards, also if the reply fails. *)
SslPendingServed ==
  ~MixedReads /\ pending # <<>>
    => \E t \in Threads : Serving(t) \/ pc[t] \in {"write", "ssl_write"}

(* No call of OpenSSL is made with an object that has been freed: a thread *)
(* whose socket another closes is refused, and abandons it, and nothing is *)
(* freed twice.                                                            *)
SslInUseIsLive ==
  /\ \A t \in Threads :
       pc[t] \in {"recv", "write", "ssl_write"} => tmp[t] \in Live
  /\ \A x \in Actors : pc[x] = "close_ssl" => ssl_map[arg[x]] \notin freed
  /\ pc[Acceptor] = "reset_free" => ssl_ptr \in Live

(* ssl_mx is given up by whoever holds it, provided that clients end their *)
(* handshakes and read what is written to them: a thread that closes a     *)
(* socket gets close_mx while it holds ssl_mx, and no path keeps ssl_mx.   *)
SslMxReleased == ssl_mx # None ~> ssl_mx = None

=============================================================================
