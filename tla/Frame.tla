------------------------------- MODULE Frame -------------------------------
(***************************************************************************)
(* The frame codec of socket_server: makeFrame, makeFrameU, get_blob_frame *)
(* and getFrame.  A buffer is a sequence of numbers.  Those below 256 are  *)
(* the bytes of a frame header; a masking key is four times KeyByte, and   *)
(* greater numbers stand for payload bytes, which are not told apart from  *)
(* their masked form.                                                      *)
(***************************************************************************)
EXTENDS Integers, Sequences

KeyByte == 256

(* The greatest payload length considered, somewhat below 2^31. *)
MaxLength == 127 * 256 * 256 * 256

TEXT_FRAME == 129      (* 0x81 *)
BINARY_FRAME == 130    (* 0x82 *)

-----------------------------------------------------------------------------
(* Encoding *)

(* (size >> 8*i) & 0xFF for i = 0 .. 3 *)
Byte0(size) == size % 256
Byte1(size) == (size \div 256) % 256
Byte2(size) == ((size \div 256) \div 256) % 256
Byte3(size) == (((size \div 256) \div 256) \div 256) % 256

(* Faulty variant: 65536 counts as a 16 bit length. *)
HeaderTo65536(frame_type, size) ==
  IF size <= 125 THEN <<frame_type, size>>
  ELSE IF size <= 65536 THEN <<frame_type, 126, Byte1(size), Byte0(size)>>
  ELSE <<frame_type, 127, 0, 0, 0, 0, Byte3(size), Byte2(size), Byte1(size), Byte0(size)>>

(* makeFrame and makeFrameU: what precedes the payload in the buffer.  The *)
(* length takes one byte; 126 and two bytes; or 127 and eight bytes, the   *)
(* upper half of which is always zero.                                     *)
Header(frame_type, size) ==
  IF size <= 125 THEN <<frame_type, size>>
  ELSE IF size <= 65535 THEN <<frame_type, 126, Byte1(size), Byte0(size)>>
  ELSE <<frame_type, 127, 0, 0, 0, 0, Byte3(size), Byte2(size), Byte1(size), Byte0(size)>>

(* get_blob_frame: the header put in front of a file, and where the file's *)
(* bytes go, or 0 for a file that is too large.                            *)
BlobFrame(size, file_max) ==
  IF size > file_max
  THEN [header |-> <<>>, offset |-> 0]
  ELSE [header |-> Header(BINARY_FRAME, size),
        offset |-> IF size <= 125 THEN 2 ELSE IF size <= 65535 THEN 4 ELSE 10]

-----------------------------------------------------------------------------
(* Decoding: getFrame on a buffer of in_length bytes that begins with h.   *)

Fin(h) == h[1] \div 128
Opcode(h) == h[1] % 16
Masked(h) == h[2] \div 128 = 1
LengthField(h) == h[2] % 128

(* `pos' after the length. *)
LengthEnd(h) ==
  IF LengthField(h) = 126 THEN 4 ELSE IF LengthField(h) = 127 THEN 10 ELSE 2

(* Faulty variant: the bytes of a 16 bit length in the wrong order. *)
PayloadLength16(h) ==
  IF LengthField(h) = 126 THEN h[3] + h[4] * 256
  ELSE IF LengthField(h) = 127 THEN ((h[7] * 256 + h[8]) * 256 + h[9]) * 256 + h[10]
  ELSE LengthField(h)

(* For lengths up to MaxLength.  The upper half of a 64 bit length is zero *)
(* for these; the code shifts it by more bits than an int has.             *)
PayloadLength(h) ==
  IF LengthField(h) = 126 THEN h[3] * 256 + h[4]
  ELSE IF LengthField(h) = 127 THEN ((h[7] * 256 + h[8]) * 256 + h[9]) * 256 + h[10]
  ELSE LengthField(h)

PayloadStart(h) == LengthEnd(h) + (IF Masked(h) THEN 4 ELSE 0)
FrameEnd(h) == PayloadStart(h) + PayloadLength(h)

(* The frame type of a decoded frame, with DONE/CONTIN, TEXT/BINARY and    *)
(* _BEHIND as fields.  A continuation frame counts as text.                *)
DataType(h, in_length) ==
  [kind |-> "data", done |-> Fin(h) = 1, binary |-> Opcode(h) = 2,
   behind |-> in_length > FrameEnd(h)]

Other(kind) == [kind |-> kind, done |-> FALSE, binary |-> FALSE, behind |-> FALSE]

WholeType(h, in_length) ==
  IF Opcode(h) \in {0, 1, 2} THEN DataType(h, in_length)
  ELSE IF Opcode(h) = 9 THEN Other("PING_FRAME")
  ELSE IF Opcode(h) = 10 THEN Other("PONG_FRAME")
  ELSE Other("ERROR_FRAME")

(* What getFrame returns.  The masking key is not part of the length that  *)
(* decides on INCOMPLETE_FRAME: with up to four bytes missing the decoding *)
(* goes on beyond the buffer, and substr throws std::out_of_range.         *)
(* A length that has not arrived is read from beyond the buffer: whatever  *)
(* is there, the sum of it and `pos' is more than in_length (or a value    *)
(* that has wrapped around, and no payload of its size can be decoded).    *)
FrameType(h, in_length) ==
  IF in_length < 3 THEN Other("ERROR_FRAME")
  ELSE IF in_length < LengthEnd(h) THEN Other("INCOMPLETE_FRAME")
  ELSE IF in_length < LengthEnd(h) + PayloadLength(h) THEN Other("INCOMPLETE_FRAME")
  ELSE IF in_length < FrameEnd(h) THEN Other("out_of_range")
  ELSE WholeType(h, in_length)

(* getFrame on a whole buffer: its type, the payload and the bytes left.   *)
GetFrame(raw_str) ==
  LET h == raw_str
      type == FrameType(h, Len(raw_str))
      taken == /\ Len(raw_str) >= 3
               /\ type.kind \notin {"INCOMPLETE_FRAME", "out_of_range"}
  IN [type |-> type,
      msg |-> IF taken THEN SubSeq(raw_str, PayloadStart(h) + 1, FrameEnd(h)) ELSE <<>>,
      rest |-> IF taken THEN SubSeq(raw_str, FrameEnd(h) + 1, Len(raw_str)) ELSE raw_str]

-----------------------------------------------------------------------------
(* The client's frames (external): the same header with the mask bit set,  *)
(* and a masking key.                                                      *)
ClientHeader(frame_type, size) ==
  [Header(frame_type, size) EXCEPT ![2] = @ + 128] \o <<KeyByte, KeyByte, KeyByte, KeyByte>>

=============================================================================
