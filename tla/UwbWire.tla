------------------------------- MODULE UwbWire ------------------------------
(***************************************************************************)
(* What the UWB link of src/src/Master/src/uwb puts on its serial port: a  *)
(* request is turned into text (UwbText), framed by FrameCodec::encode and *)
(* ended by a line feed; the reader cuts the bytes at line feeds, decodes  *)
(* each line and turns it back into a request.  UwbLink takes for granted  *)
(* that a frame arrives as it was written or not at all; this module is    *)
(* why.  Characters are their codes.                                       *)
(*                                                                         *)
(* Bounds: MaxFrames frames, of which one is hit by noise.                 *)
(***************************************************************************)
EXTENDS UwbText, Bitwise

CONSTANTS
  Body,       \* bodies of the requests
  Noise,      \* characters noise can leave in the place of another one
  MaxFrames

VARIABLES
  wire,       \* bytes between the writers and the reader, m_read_buffer included
  written,    \* history: the frames that were written
  accepted,   \* history: what the reader made of the lines it could decode
  hit         \* history: "none", or what of a frame the noise has hit

wiVars == <<wire, written, accepted, hit>>

NoFrame == [type |-> "NONE"]

-----------------------------------------------------------------------------
(* FrameCodec *)

FRAME_HEADER == <<91, 84, 83, 93>>
MIN_FRAME_SIZE == 12
FrameType == [DATA |-> 0, ACK |-> 1, HEARTBEAT |-> 2]
frame_type_to_string ==
  [DATA |-> <<68, 65, 84>>, ACK |-> <<65, 67, 75>>, HEARTBEAT |-> <<72, 66, 84>>]
HasPayload(type) == type \in {"DATA", "HEARTBEAT"}

HexDigit(d) == IF d < 10 THEN 48 + d ELSE 55 + d
to_hex(v) == <<HexDigit(v \div 16), HexDigit(v % 16)>>
to_hex_word(v) == to_hex(v \div 256) \o to_hex(v % 256)

\* The value of a hexadecimal digit, -1 for any other character.
HexValue(c) ==
  CASE c \in 48..57 -> c - 48
    [] c \in 65..70 -> c - 55
    [] c \in 97..102 -> c - 87
    [] OTHER -> -1

\* std::stoul stops at the first character that is no digit, and throws (-1) when
\* that is the first one.
from_hex(s) ==
  LET other == {i \in DOMAIN s : HexValue(s[i]) = -1}
      n == IF other = {} THEN Len(s)
           ELSE (CHOOSE i \in other : \A j \in other : i <= j) - 1 IN
  IF n = 0 THEN -1
  ELSE FoldLeft(LAMBDA v, c : 16 * v + HexValue(c), 0, SubSeq(s, 1, n))

XorAll(bytes) == FoldLeft(LAMBDA x, b : x ^^ b, 0, bytes)

\* Mutant: the checksum is that of the head alone.
ChecksumOfHead(f) == XorAll(<<f.src, f.dst, f.seq, FrameType[f.type]>>)

calculate_checksum(f) ==
  XorAll(<<f.src, f.dst, f.seq, FrameType[f.type]>> \o f.payload)

encode(f) ==
  FRAME_HEADER \o to_hex(f.src) \o to_hex(f.dst) \o to_hex(f.seq)
    \o frame_type_to_string[f.type]
    \o (IF HasPayload(f.type) THEN to_hex_word(Len(f.payload)) \o f.payload ELSE <<>>)
    \o to_hex(calculate_checksum(f))

\* Behind the checksum anything may follow.
DecodeFrom(data, type, head, pos, n) ==
  LET payload == SubSeq(data, pos, pos + n - 1)
      f == [src |-> head[1], dst |-> head[2], seq |-> head[3], type |-> type,
            payload |-> payload]
      sum == from_hex(SubSeq(data, pos + n, pos + n + 1)) IN
  IF pos + n + 1 <= Len(data) /\ sum # -1 /\ sum = calculate_checksum(f)
  THEN f ELSE NoFrame

\* std::string::substr, which ends with the string.
Substr(data, a, b) == SubSeq(data, a, IF b > Len(data) THEN Len(data) ELSE b)

\* The frame, or NoFrame where decode returns false.
decode(data) ==
  IF Len(data) < MIN_FRAME_SIZE \/ SubSeq(data, 1, 4) # FRAME_HEADER THEN NoFrame
  ELSE LET head == [i \in 1..3 |-> from_hex(SubSeq(data, 3 + 2 * i, 4 + 2 * i))]
           types == {t \in DOMAIN FrameType :
                       frame_type_to_string[t] = Substr(data, 11, 13)}
           type == CHOOSE t \in types : TRUE
           length == IF Len(data) < 17 THEN -1 ELSE from_hex(SubSeq(data, 14, 17)) IN
       IF types = {} \/ \E i \in 1..3 : head[i] = -1 THEN NoFrame
       ELSE IF ~HasPayload(type) THEN DecodeFrom(data, type, head, 14, 0)
       ELSE IF length = -1 THEN NoFrame
       ELSE DecodeFrom(data, type, head, 18, length)

-----------------------------------------------------------------------------
(* send_frame_immediately and handle_read *)

Request == [method : {"POST", "DELETE"}, fields : {<<<<<<107>>, <<118>>>>>>}, body : Body]

\* The frames of node 1: requests and heartbeats ("HB:1"), and ACKs for node 2.
DataFrameOf(r) == [src |-> 1, dst |-> 2, seq |-> 1, type |-> "DATA",
                   payload |-> serialize_http_request(r)]
SentFrame == {DataFrameOf(r) : r \in Request}
  \cup {[src |-> 1, dst |-> 2, seq |-> 7, type |-> "ACK", payload |-> <<>>],
        [src |-> 1, dst |-> 255, seq |-> 0, type |-> "HEARTBEAT",
         payload |-> <<72, 66, 58, 49>>]}

\* What the handler of a frame works with.
Meaning(f) == [src |-> f.src, dst |-> f.dst, seq |-> f.seq, type |-> f.type,
               req |-> IF f.type = "DATA" THEN parse_http_request(f.payload) ELSE NoRequest]

\* Each frame as send_frame_immediately writes it, with its line end.
WireForm == [f \in SentFrame |-> Append(encode(f), LF)]

WiInit == wire = <<>> /\ written = <<>> /\ accepted = <<>> /\ hit = "none"

Write(f) ==
  /\ Len(written) < MaxFrames
  /\ wire' = wire \o WireForm[f]
  /\ written' = Append(written, f)
  /\ UNCHANGED <<accepted, hit>>

\* The part of a frame that its i-th character belongs to.
PartOf(f, i) == IF HasPayload(f.type) /\ i \in 14..17 THEN "length" ELSE "other"

Swallowed == -1

\* Noise changes one character of the frame or of its line end, or swallows it.
WriteNoisy(f, i, c) ==
  LET line == WireForm[f] IN
  /\ Len(written) < MaxFrames /\ hit = "none"
  /\ line[i] # c
  /\ wire' = wire \o (IF c = Swallowed THEN RemoveAt(line, i) ELSE [line EXCEPT ![i] = c])
  /\ written' = Append(written, f)
  /\ hit' = PartOf(f, i)
  /\ UNCHANGED accepted

\* The line up to the first line feed is taken; what cannot be decoded is counted
\* as an error and forgotten.
handle_read ==
  LET end == SelectInSeq(wire, LAMBDA c : c = LF)
      frame == decode(Chomp(SubSeq(wire, 1, end - 1))) IN
  /\ end # 0
  /\ wire' = SubSeq(wire, end + 1, Len(wire))
  /\ accepted' = IF frame = NoFrame THEN accepted ELSE Append(accepted, Meaning(frame))
  /\ UNCHANGED <<written, hit>>

WiNext ==
  \/ \E f \in SentFrame :
       \/ Write(f)
       \/ \E i \in DOMAIN WireForm[f], c \in Noise \cup {Swallowed} : WriteNoisy(f, i, c)
  \/ handle_read

-----------------------------------------------------------------------------
(* Properties *)

\* The request a frame was made of.
Original(f) ==
  [src |-> f.src, dst |-> f.dst, seq |-> f.seq, type |-> f.type,
   req |-> IF f.type # "DATA" THEN NoRequest
           ELSE CHOOSE r \in Request : DataFrameOf(r) = f]

Originals == [k \in DOMAIN written |-> Original(written[k])]

\* The frames read are frames written, in their order and with the request that was
\* given to send_http_reliable, whatever characters its body holds; a character that
\* noise has changed or swallowed costs one frame at most, also when it was or has
\* become a line end, and never lets the reader take a frame for another one
\* (UwbFramecodec.cpp:19-100, UwbHandle.cpp:162-194).  The exception is a hit on the
\* length, which the checksum does not cover.
WireFaithful ==
  LET lost == Len(written) - Len(accepted)
      without(k) == IF k = 0 THEN Originals ELSE RemoveAt(Originals, k) IN
  hit # "length" =>
    /\ \E k \in 0..Len(written) : IsPrefix(accepted, without(k))
    /\ wire = <<>> => lost <= (IF hit = "none" THEN 0 ELSE 1)
=============================================================================
