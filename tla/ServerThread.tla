---------------------------- MODULE ServerThread ----------------------------
(***************************************************************************)
(* class server_thread (hast_web/server_thread.cpp): the thread pool.      *)
(*                                                                         *)
(* Its methods are called from several places, so each is a little         *)
(* subroutine: the caller sets pc[x] to its label and ret[x] to the label  *)
(* it continues at.  One action is one access, or one group of accesses    *)
(* that no other thread can come between, to the shared fields.  The       *)
(* arrays status, socketfd and the pointer array thread_list are read and  *)
(* written without a lock in most places; thread_mx covers get_thread and  *)
(* add_thread only.                                                        *)
(***************************************************************************)
EXTENDS Integers, FiniteSets

CONSTANT MaxThread     (* max_thread                                         *)

ASSUME MaxThreadAssumption == MaxThread \in Nat \ {0}

None == -1
Threads == 0 .. MaxThread - 1
Acceptor == MaxThread  (* the thread that runs start_accept                 *)
Actors == 0 .. MaxThread

VARIABLES
  status,              (* status[a]: the hand-over byte of slot a            *)
  thread_list,         (* thread_list[a]: is the pointer of slot a set?      *)
  socketfd,            (* socketfd[a]: the socket slot a works for, or -1    *)
  recv_thread,         (* the slot with the receiving role, or -1            *)
  thread_mx,           (* holder of the mutex, or None                       *)
  pc, ret,             (* per actor: next label, and where a subroutine      *)
                       (* returns to ("none" outside of one)                 *)
  slot,                (* per actor: the index `a' in get_thread, add_thread *)
                       (* and close_socket, and in the caller that uses what *)
                       (* they return                                        *)
  sweep                (* locals of resize: index `a' and `amount'           *)

threadVars == <<status, thread_list, socketfd, recv_thread, thread_mx,
                pc, ret, slot, sweep>>

Statuses == {"WAIT", "BUSY", "RECYCLE", "READ", "READ_PREFIX", "GET"}
NoSweep == [a |-> 0, amount |-> 0]

Goto(x, label) == pc' = [pc EXCEPT ![x] = label]

Call(x, label, back) ==
  /\ Goto(x, label)
  /\ ret' = [ret EXCEPT ![x] = back]

Return(x) ==
  /\ Goto(x, ret[x])
  /\ ret' = [ret EXCEPT ![x] = "none"]

ThreadInit ==
  /\ status = [a \in Threads |-> "BUSY"]
  /\ thread_list = [a \in Threads |-> FALSE]
  /\ socketfd = [a \in Threads |-> None]
  /\ recv_thread = None
  /\ thread_mx = None
  /\ pc = [x \in Actors |-> IF x = Acceptor THEN "accept" ELSE "off"]
  /\ ret = [x \in Actors |-> "none"]
  /\ slot = [x \in Actors |-> None]
  /\ sweep = NoSweep

-----------------------------------------------------------------------------
(* get_thread: the lowest waiting slot, the receiving thread's own slot    *)
(* only when no other waits, None when there is none.  recv_thread is read *)
(* for the scan, once more to look at the receiver's status and once more  *)
(* to take its slot; the receiver resigns without thread_mx, so that it    *)
(* may be None by then.                                                    *)

Lowest(a, S) == a \in S /\ \A c \in S : a <= c

(* Faulty variant: a slot told to recycle counts as waiting. *)
WaitingOrRecycled == {a \in Threads : status[a] \in {"WAIT", "RECYCLE"}}

Waiting == {a \in Threads : status[a] = "WAIT"}

(* Faulty variant: returns without unlocking thread_mx when no slot waits. *)
GetThreadScanLocked(x) ==
  /\ pc[x] = "get_thread"
  /\ thread_mx = None
  /\ LET others == Waiting \ {recv_thread}
     IN \/ \E a \in others :
             /\ Lowest(a, others)
             /\ slot' = [slot EXCEPT ![x] = a]
             /\ Goto(x, "get_mark") /\ UNCHANGED ret
        \/ /\ others = {} /\ recv_thread # None
           /\ Goto(x, "get_own") /\ UNCHANGED <<slot, ret>>
        \/ /\ others = {} /\ recv_thread = None
           /\ Return(x) /\ slot' = [slot EXCEPT ![x] = None]
  /\ thread_mx' = x
  /\ UNCHANGED <<status, thread_list, socketfd, recv_thread, sweep>>

(* The scan.  Under thread_mx no slot becomes WAIT, so that what its reads *)
(* find is what one of them, or the last one before the receiver resigned, *)
(* would find in all slots; resize can still take the chosen slot away     *)
(* before it is marked.                                                    *)
GetThreadScan(x) ==
  /\ pc[x] = "get_thread"
  /\ thread_mx = None
  /\ LET others == Waiting \ {recv_thread}
     IN \/ \E a \in others :
             /\ Lowest(a, others)
             /\ slot' = [slot EXCEPT ![x] = a]
             /\ Goto(x, "get_mark") /\ thread_mx' = x /\ UNCHANGED ret
        \/ /\ others = {} /\ recv_thread # None
           /\ Goto(x, "get_own") /\ thread_mx' = x /\ UNCHANGED <<slot, ret>>
        \/ /\ others = {} /\ recv_thread = None
           /\ slot' = [slot EXCEPT ![x] = None]
           /\ Return(x) /\ UNCHANGED thread_mx
  /\ UNCHANGED <<status, thread_list, socketfd, recv_thread, sweep>>

(* The byte in front of the array, status[-1], may have any value. *)
GetThreadOwn(x) ==
  /\ pc[x] = "get_own"
  /\ \/ /\ recv_thread # None => status[recv_thread] = "WAIT"
        /\ Goto(x, "get_take") /\ UNCHANGED <<thread_mx, slot, ret>>
     \/ /\ recv_thread # None => status[recv_thread] # "WAIT"
        /\ slot' = [slot EXCEPT ![x] = None]
        /\ Return(x) /\ thread_mx' = None
  /\ UNCHANGED <<status, thread_list, socketfd, recv_thread, sweep>>

GetThreadTake(x) ==
  /\ pc[x] = "get_take"
  /\ slot' = [slot EXCEPT ![x] = recv_thread]
  /\ Goto(x, "get_mark")
  /\ UNCHANGED <<status, thread_list, socketfd, recv_thread, thread_mx, ret, sweep>>

(* A GET that goes to status[-1] changes nothing here; the caller is told  *)
(* -1, that no thread waits.                                               *)
GetThreadMark(x) ==
  /\ pc[x] = "get_mark"
  /\ status' = IF slot[x] = None THEN status ELSE [status EXCEPT ![slot[x]] = "GET"]
  /\ thread_mx' = None
  /\ Return(x)
  /\ UNCHANGED <<thread_list, socketfd, recv_thread, slot, sweep>>

-----------------------------------------------------------------------------
(* add_thread: std::thread is constructed, and runs, before its pointer is *)
(* stored.                                                                 *)

(* Faulty variant: a slot told to recycle counts as free before its join. *)
FreeOrRecycled == {a \in Threads : ~thread_list[a] \/ status[a] = "RECYCLE"}

Free == {a \in Threads : ~thread_list[a]}

(* Faulty variant: thread_mx is not taken. *)
AddThreadUnlocked(x) ==
  /\ pc[x] = "add_thread"
  /\ \/ Free = {} /\ Return(x) /\ UNCHANGED slot
     \/ \E a \in Threads :
          /\ Lowest(a, Free)
          /\ pc' = [pc EXCEPT ![x] = "add_store", ![a] = "msg_recv"]
          /\ slot' = [slot EXCEPT ![x] = a]
          /\ UNCHANGED ret
  /\ UNCHANGED <<status, thread_list, socketfd, recv_thread, thread_mx, sweep>>

AddThreadStart(x) ==
  /\ pc[x] = "add_thread"
  /\ thread_mx = None
  /\ \/ Free = {} /\ Return(x) /\ UNCHANGED <<thread_mx, slot>>
     \/ \E a \in Threads :
          /\ Lowest(a, Free)
          /\ pc' = [pc EXCEPT ![x] = "add_store", ![a] = "msg_recv"]
          /\ slot' = [slot EXCEPT ![x] = a]
          /\ thread_mx' = x
          /\ UNCHANGED ret
  /\ UNCHANGED <<status, thread_list, socketfd, recv_thread, sweep>>

AddThreadStore(x) ==
  /\ pc[x] = "add_store"
  /\ thread_list' = [thread_list EXCEPT ![slot[x]] = TRUE]
  /\ thread_mx' = None
  /\ slot' = [slot EXCEPT ![x] = None]
  /\ Return(x)
  /\ UNCHANGED <<status, socketfd, recv_thread, sweep>>

-----------------------------------------------------------------------------
(* resize: runs without thread_mx.  It tells `amount' waiting threads to   *)
(* recycle and joins those told earlier.                                   *)

NextSlot == [sweep EXCEPT !.a = @ + 1]

Idle(a) == status[a] = "WAIT" /\ thread_list[a]

ResizeEnd(x) ==
  /\ pc[x] = "resize"
  /\ sweep.a = MaxThread
  /\ sweep' = NoSweep
  /\ Return(x)
  /\ UNCHANGED <<status, thread_list, socketfd, recv_thread, thread_mx, slot>>

(* Faulty variant: `amount' is not tested. *)
ResizeLookUnlimited(x) ==
  /\ pc[x] = "resize"
  /\ sweep.a < MaxThread
  /\ LET a == sweep.a
         mine == a = recv_thread
     IN \/ ~mine /\ Idle(a) /\ Goto(x, "resize_mark") /\ UNCHANGED sweep
        \/ ~mine /\ status[a] = "RECYCLE" /\ Goto(x, "resize_join") /\ UNCHANGED sweep
        \/ /\ mine \/ (~Idle(a) /\ status[a] # "RECYCLE")
           /\ sweep' = NextSlot /\ UNCHANGED pc
  /\ UNCHANGED <<status, thread_list, socketfd, recv_thread, thread_mx, ret, slot>>

ResizeLook(x) ==
  /\ pc[x] = "resize"
  /\ sweep.a < MaxThread
  /\ LET a == sweep.a
         mine == a = recv_thread
     IN \/ /\ ~mine /\ Idle(a) /\ sweep.amount > 0
           /\ Goto(x, "resize_mark") /\ UNCHANGED sweep
        \/ /\ ~mine /\ ~Idle(a) /\ status[a] = "RECYCLE"
           /\ Goto(x, "resize_join") /\ UNCHANGED sweep
        \/ /\ mine \/ IF Idle(a) THEN sweep.amount = 0 ELSE status[a] # "RECYCLE"
           /\ sweep' = NextSlot /\ UNCHANGED pc
  /\ UNCHANGED <<status, thread_list, socketfd, recv_thread, thread_mx, ret, slot>>

ResizeMark(x) ==
  /\ pc[x] = "resize_mark"
  /\ status' = [status EXCEPT ![sweep.a] = "RECYCLE"]
  /\ sweep' = [NextSlot EXCEPT !.amount = @ - 1]
  /\ Goto(x, "resize")
  /\ UNCHANGED <<thread_list, socketfd, recv_thread, thread_mx, ret, slot>>

(* join() blocks until the thread function has returned. *)
ResizeJoin(x) ==
  /\ pc[x] = "resize_join"
  /\ pc[sweep.a] = "returned"
  /\ pc' = [pc EXCEPT ![x] = "resize_clear", ![sweep.a] = "off"]
  /\ thread_list' = [thread_list EXCEPT ![sweep.a] = FALSE]
  /\ UNCHANGED <<status, socketfd, recv_thread, thread_mx, ret, slot, sweep>>

(* Faulty variants: the status of the joined thread stays, or is taken for *)
(* that of a waiting one.                                                  *)
ClearWithStatus(x, new) ==
  /\ pc[x] = "resize_clear"
  /\ status' = [status EXCEPT ![sweep.a] = new]
  /\ Goto(x, "resize_fd")
  /\ UNCHANGED <<thread_list, socketfd, recv_thread, thread_mx, ret, slot, sweep>>

ResizeClearKeepsStatus(x) == ClearWithStatus(x, status[sweep.a])

ResizeClearToWait(x) == ClearWithStatus(x, "WAIT")

(* The slot is already free for add_thread at each of these two writes. *)
ResizeClear(x) ==
  /\ pc[x] = "resize_clear"
  /\ status' = [status EXCEPT ![sweep.a] = "BUSY"]
  /\ Goto(x, "resize_fd")
  /\ UNCHANGED <<thread_list, socketfd, recv_thread, thread_mx, ret, slot, sweep>>

ResizeFd(x) ==
  /\ pc[x] = "resize_fd"
  /\ socketfd' = [socketfd EXCEPT ![sweep.a] = None]
  /\ sweep' = NextSlot
  /\ Goto(x, "resize")
  /\ UNCHANGED <<status, thread_list, recv_thread, thread_mx, ret, slot>>

-----------------------------------------------------------------------------
ThreadStep(x) ==
  \/ GetThreadScan(x) \/ GetThreadOwn(x) \/ GetThreadTake(x) \/ GetThreadMark(x)
  \/ AddThreadStart(x) \/ AddThreadStore(x)
  \/ ResizeEnd(x) \/ ResizeLook(x) \/ ResizeMark(x)
  \/ ResizeJoin(x) \/ ResizeClear(x) \/ ResizeFd(x)

=============================================================================
