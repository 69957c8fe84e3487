---------------------------- MODULE PartialReader ----------------------------
(***************************************************************************)
(* The other way an application gets its messages: partially_recv for the  *)
(* first part of one and more_recv for each further part, as              *)
(* examples/upload_image/wss.cpp calls them.  The parts of a message are   *)
(* collected in a file, which is complete with the part whose type is DONE *)
(* and is given up when more_recv returns NO_MESSAGE or ERROR_FRAME.       *)
(*                                                                         *)
(* partially_recv arms the socket of the message before when it is called  *)
(* for the next one, and takes from the pending list only at its start.    *)
(***************************************************************************)
EXTENDS MessageReader

VARIABLE file          (* file[t]: the parts thread t has collected          *)

partialVars == <<readerVars, file>>

PartialInit == ReaderInit /\ file = [t \in Threads |-> <<>>]

-----------------------------------------------------------------------------
(* The loop of the application: a part is added to the file, and more_recv *)
(* called unless it was the last.                                          *)
GivesPart(t, msg, done, binary) ==
  \/ /\ done
     /\ Returns(t, file[t] \o msg, binary)
     /\ file' = Set(file, t, <<>>)
     /\ UNCHANGED <<raw_msg, call>>
  \/ /\ ~done
     /\ file' = Set(file, t, file[t] \o msg)
     /\ raw_msg' = Set(raw_msg, t, <<>>)
     /\ call' = Set(call, t, NewCall(TRUE))
     /\ pc' = Set(pc, t, "read")
     /\ UNCHANGED delivered

(* more_recv returned ERROR_FRAME. *)
Abandon(t) ==
  /\ pc[t] = "abandon"
  /\ file' = Set(file, t, <<>>)
  /\ pc' = Set(pc, t, "msg_recv")
  /\ UNCHANGED <<clientVars, socketVars, listVars, raw_str, raw_msg, call, delivered>>

-----------------------------------------------------------------------------
(* Faulty variant: the socket is left disarmed. *)
RearmNothing(t) ==
  /\ owners' = owners \ {t}
  /\ pc' = Set(pc, t, "wait")
  /\ UNCHANGED epollVars

(* The head of partially_recv's loop: epoll_on, socketfd = -1, WAIT. *)
Rearm(t) ==
  /\ EpollOn(t \in owners)
  /\ owners' = owners \ {t}
  /\ pc' = Set(pc, t, "wait")

PartiallyRecv(t) ==
  /\ pc[t] = "msg_recv"
  /\ \/ /\ pending # <<>>
        /\ LET m == Head(pending) IN GivesPart(t, m.msg, m.done, m.binary)
        /\ pending' = Tail(pending)
        /\ Owns(t)
        /\ UNCHANGED epollVars
     \/ /\ pending = <<>>
        /\ Rearm(t)
        /\ UNCHANGED <<pending, raw_msg, call, file, delivered>>
  /\ UNCHANGED <<clientVars, got, conn, pushes, raw_str>>

(* NO_MESSAGE: the client paused, or another thread has read what was     *)
(* there.  partially_recv goes on waiting, the application gives up.       *)
NoMessage(t) ==
  /\ pc[t] = "read"
  /\ conn = "open" /\ ~finished
  /\ got = Len(stream) \/ (client.slow /\ call[t].popped)
  /\ \/ /\ ~call[t].popped
        /\ Rearm(t)
        /\ UNCHANGED file
     \/ /\ call[t].popped
        /\ file' = Set(file, t, <<>>)
        /\ pc' = Set(pc, t, "msg_recv")
        /\ UNCHANGED <<epollVars, owners>>
  /\ UNCHANGED <<clientVars, got, conn, listVars, raw_str, raw_msg, call, delivered>>

ReadPart(t) ==
  /\ pc[t] = "read"
  /\ \/ Receive(t, <<>>)
     \/ ReadFails /\ Refuse(t)
  /\ UNCHANGED file

(* DONE_CONTIN counts as DONE: what follows is on the pending list. *)
ReturnPart(t) ==
  /\ pc[t] = "return"
  /\ \/ /\ ~call[t].popped /\ raw_msg[t] = <<>>
        /\ Refuse(t) /\ UNCHANGED file
     \/ /\ call[t].popped \/ raw_msg[t] # <<>>
        /\ GivesPart(t, raw_msg[t], call[t].type.done \/ call[t].already_done,
                     call[t].type.binary)
        /\ UNCHANGED <<socketVars, listVars, raw_str>>
  /\ UNCHANGED clientVars

-----------------------------------------------------------------------------
WorksOnParts(t) ==
  \/ PartiallyRecv(t) \/ NoMessage(t) \/ ReadPart(t) \/ ReturnPart(t) \/ Abandon(t)
  \/ Take(t) /\ UNCHANGED file
  \/ ReadMore(t) /\ UNCHANGED file
  \/ DecodeFrame(t) /\ UNCHANGED file
  \/ Back(t) /\ UNCHANGED file

ServeClient(t) ==
  \/ ~client.partially /\ Works(t) /\ UNCHANGED file
  \/ client.partially /\ WorksOnParts(t)

Serve == \E t \in client.threads : ServeClient(t)

PartialNext ==
  \/ Send /\ UNCHANGED file
  \/ Finish /\ UNCHANGED file
  \/ Disarm /\ UNCHANGED file
  \/ Serve

PartialSpec == PartialInit /\ [][PartialNext]_partialVars

(* Some thread that can take a step does, the receiving one included, and  *)
(* bytes sent arrive: assumed of the clients about which something is said *)
(* that must happen.                                                       *)
FairReader ==
  PartialSpec /\ WF_partialVars(Orderly /\ (Serve \/ (Disarm /\ UNCHANGED file)))

=============================================================================
