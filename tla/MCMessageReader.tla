--------------------------- MODULE MCMessageReader ---------------------------
(***************************************************************************)
(* MessageReader and PartialReader for TLC: the kinds of clients.          *)
(***************************************************************************)
EXTENDS PartialReader

CONSTANTS t1, t2

OneFrame == {<<1>>, <<6>>}
OrManyFrames == {<<1>>, <<6>>, <<6, 0, 1>>}
OneOrTwo == {<<1>>, <<1, 1>>}

(* Served by msg_recv: a client that sends single frames without waiting   *)
(* and messages of several frames one by one.                              *)
Batch ==
  [threads |-> {t1, t2}, partially |-> FALSE, messages |-> 3, parts |-> OrManyFrames,
   pipelined |-> OneFrame, binary |-> {FALSE}, cut |-> FALSE, slow |-> FALSE]

Order == [Batch EXCEPT !.threads = {t1}]

(* One that does whatever TCP and the protocol allow. *)
Mixed ==
  [Batch EXCEPT !.parts = OneOrTwo, !.pipelined = OneOrTwo, !.cut = TRUE]

(* Served by partially_recv: by one thread, by two, and a client that may  *)
(* pause.                                                                  *)
Upload == [Order EXCEPT !.partially = TRUE]
Uploads == [Batch EXCEPT !.partially = TRUE, !.pipelined = {}]
SlowUpload ==
  [Uploads EXCEPT !.parts = OneOrTwo, !.pipelined = OneOrTwo, !.slow = TRUE]

(* One that sends messages of no bytes. *)
Empty(kind) ==
  [kind EXCEPT !.messages = 2, !.parts = {<<0>>, <<1>>}, !.pipelined = {<<0>>, <<1>>}]

AllClients ==
  {Batch, Order, Mixed, Upload, Uploads, SlowUpload, Empty(Order), Empty(Upload)}

(* A client that sends one message of one frame, cut anywhere. *)
CutClients ==
  {[Order EXCEPT !.messages = 1, !.parts = OneFrame, !.pipelined = {}, !.cut = TRUE]}

PipelinedClients == {[Order EXCEPT !.parts = OneOrTwo, !.pipelined = OneOrTwo]}

=============================================================================
