---------------------------- MODULE FrameArrival ----------------------------
(***************************************************************************)
(* One frame, of the server's or of a client's, arrives at getFrame in     *)
(* segments: whatever its length, the buffer is taken for the right frame. *)
(* Payload bytes are not kept, only counted, so that frames of every       *)
(* length form can be tried.                                               *)
(***************************************************************************)
EXTENDS Frame, FiniteSets

CONSTANTS
  Sizes,               (* payload lengths tried                              *)
  MaxBehind            (* bound: bytes of a next frame that arrive with it   *)

ASSUME ArrivalAssumption == Sizes \subseteq 0 .. MaxLength /\ MaxBehind \in Nat

VARIABLES
  sender,              (* "server", "file" (get_blob_frame) or "client"      *)
  size,                (* payload bytes of the frame                         *)
  header,              (* its header                                         *)
  arrived              (* bytes that have arrived: in_length                 *)

arrivalVars == <<sender, size, header, arrived>>

HeaderOf(who, n) ==
  CASE who = "server" -> Header(TEXT_FRAME, n)
    [] who = "file" -> BlobFrame(n, MaxLength).header
    [] who = "client" -> ClientHeader(TEXT_FRAME, n)

ArrivalInit ==
  /\ sender \in {"server", "file", "client"}
  /\ size \in Sizes
  /\ header = HeaderOf(sender, size)
  /\ arrived = 0

Total == Len(header) + size

(* A segment ends anywhere in the header, or near the end of the payload.  *)
Arrive ==
  /\ \E n \in (1 .. Len(header) + 4) \union (Total - 5 .. Total + MaxBehind) :
       /\ n > arrived /\ n <= Total + MaxBehind
       /\ arrived' = n
  /\ UNCHANGED <<sender, size, header>>

ArrivalSpec == ArrivalInit /\ [][Arrive]_arrivalVars

(* The bytes of the header that getFrame can see. *)
Seen == SubSeq(header, 1, IF arrived < Len(header) THEN arrived ELSE Len(header))

-----------------------------------------------------------------------------
(* A frame that has arrived whole is decoded as what it was made from: its *)
(* payload has the length and the place makeFrame or get_blob_frame gave   *)
(* it, and data counts as behind it exactly when there is some.  (getFrame *)
(* refuses a buffer of two bytes: an empty frame that is not masked, which *)
(* no client may send.)                                                    *)
WholeFrameDecoded ==
  arrived >= Total /\ arrived > 2 =>
    /\ FrameType(header, arrived)
         = [kind |-> "data", done |-> TRUE, binary |-> sender = "file", behind |-> arrived > Total]
    /\ PayloadStart(header) = Len(header)
    /\ PayloadLength(header) = size
    /\ sender = "file" => BlobFrame(size, size).offset = Len(header)

(* Nothing is taken for a whole frame before the last byte has arrived,    *)
(* wherever the frame is cut and whatever form its length has.             *)
NoEarlyFrame ==
  arrived \in 1 .. Total - 1 => FrameType(Seen, arrived).kind # "data"

=============================================================================
