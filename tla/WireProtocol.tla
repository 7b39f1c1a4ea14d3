---------------------------- MODULE WireProtocol ----------------------------
(***************************************************************************)
(* The header of a frame, include/protocol.hpp on the client's side and    *)
(* server/server.cpp on the server's: how it lies in memory, what goes     *)
(* over the wire and what the server makes of it.                          *)
(*                                                                         *)
(* An unsigned integer is the sequence of its bytes, the most significant  *)
(* one first, at its real width.  The two hosts may differ in byte order.  *)
(***************************************************************************)
EXTENDS Integers, Sequences, SequencesExt

CONSTANTS
    U64,         \* values of seq and timestamp_ns
    U32,         \* values of payload_len
    U16,         \* values of width and height
    Formats      \* values of pixel_format

Byte == 0 .. 255

ASSUME WidthAssumption ==
    /\ U64 \subseteq [1 .. 8 -> Byte]
    /\ U32 \subseteq [1 .. 4 -> Byte] /\ Formats \subseteq [1 .. 4 -> Byte]
    /\ U16 \subseteq [1 .. 2 -> Byte]

VARIABLES
    client_le, server_le,   \* whether the host is little-endian
    frame,                  \* what networkLoop() passes to initFrameHeader()
    hdr,                    \* the header as bytes in memory and on the wire
    wire_pc, parsed, ext    \* the server's progress, its values, the file extension

wireVars == <<client_le, server_le, frame, hdr, wire_pc, parsed, ext>>

-----------------------------------------------------------------------------
(* Integers in memory, and the conversions of <arpa/inet.h>.               *)

InMemory(le, v)   == IF le THEN Reverse(v) ELSE v
FromMemory(le, m) == IF le THEN Reverse(m) ELSE m

\* htons(), ntohs(), htonl(), ntohl().
ByteOrder(le, v) == IF le THEN Reverse(v) ELSE v

Low32(v)  == SubSeq(v, 5, 8)
High32(v) == SubSeq(v, 1, 4)

HalvesKept(le, v) ==   \* faulty: the halves are converted and not exchanged
    IF le THEN ByteOrder(le, High32(v)) \o ByteOrder(le, Low32(v)) ELSE v

htonll(le, v) ==
    IF le THEN ByteOrder(le, Low32(v)) \o ByteOrder(le, High32(v)) ELSE v

ServerHalvesKept(le, v) ==   \* faulty: the same mistake in the server's copy
    IF le THEN ByteOrder(le, High32(v)) \o ByteOrder(le, Low32(v)) ELSE v

\* server.cpp has a definition of its own.
ntohll(le, v) ==
    IF le THEN ByteOrder(le, Low32(v)) \o ByteOrder(le, High32(v)) ELSE v

-----------------------------------------------------------------------------
(* The header.                                                             *)

PROTO_MAGIC   == <<70, 82, 65, 77>>    \* "FRAM"
PROTO_VERSION == <<0, 1>>

\* sizeof(FrameHeader): packed, so the sum of the sizes of its members.
FRAME_HEADER_SIZE == 4 + 2 + 2 + 8 + 8 + 4 + 4 + 2 + 2

HeaderLen16 == <<FRAME_HEADER_SIZE \div 256, FRAME_HEADER_SIZE % 256>>

\* PixelFormat::JPEG and BGR24, 0x47504A4D and 0x33524742.
JPEG  == <<71, 80, 74, 77>>
BGR24 == <<51, 82, 71, 66>>

initFrameHeader(le, f) ==
    PROTO_MAGIC
    \o InMemory(le, ByteOrder(le, PROTO_VERSION))
    \o InMemory(le, ByteOrder(le, HeaderLen16))
    \o InMemory(le, htonll(le, f.seq))
    \o InMemory(le, htonll(le, f.timestamp_ns))
    \o InMemory(le, ByteOrder(le, f.payload_len))
    \o InMemory(le, ByteOrder(le, f.pixel_format))
    \o InMemory(le, ByteOrder(le, f.width))
    \o InMemory(le, ByteOrder(le, f.height))

\* The member of n bytes at offset off, as the server's CPU loads it.
Member(le, h, off, n) == FromMemory(le, SubSeq(h, off + 1, off + n))

HeaderFields(le, h) ==
    [ seq          |-> ntohll(le, Member(le, h, 8, 8)),
      timestamp_ns |-> ntohll(le, Member(le, h, 16, 8)),
      payload_len  |-> ByteOrder(le, Member(le, h, 24, 4)),
      pixel_format |-> ByteOrder(le, Member(le, h, 28, 4)),
      width        |-> ByteOrder(le, Member(le, h, 32, 2)),
      height       |-> ByteOrder(le, Member(le, h, 34, 2)) ]

Exceeds(a, b) ==
    \E i \in 1 .. Len(a) : a[i] > b[i] /\ \A j \in 1 .. (i - 1) : a[j] = b[j]

SixteenMB == <<1, 0, 0, 0>>
FourMB    == <<0, 64, 0, 0>>    \* MAX_FRAME_SIZE of the queue

Accepted(le, h) ==
    /\ SubSeq(h, 1, 4) = PROTO_MAGIC
    /\ ByteOrder(le, Member(le, h, 4, 2)) = PROTO_VERSION
    /\ ~Exceeds(HeaderFields(le, h).payload_len, SixteenMB)

\* pixelFormatToString() and fourccToString(): the lowest byte comes first.
fourccToString(format) == Reverse(format)

Extension(format) ==
    LET fourcc == fourccToString(format)
    IN  CASE fourcc = <<77, 74, 80, 71>> -> "jpg"     \* "MJPG"
          [] fourcc = <<89, 85, 89, 86>> -> "yuyv"    \* "YUYV"
          [] fourcc = <<66, 71, 82, 51>> -> "bgr"     \* "BGR3"
          [] OTHER -> "raw"

-----------------------------------------------------------------------------
\* A frame the queue has taken is at most 4 MB long.
Frames ==
    [seq : U64, timestamp_ns : U64, payload_len : {n \in U32 : ~Exceeds(n, FourMB)},
     pixel_format : Formats, width : U16, height : U16]

WireInit ==
    /\ client_le \in BOOLEAN /\ server_le \in BOOLEAN
    /\ frame \in Frames
    /\ hdr = <<>> /\ wire_pc = "new" /\ parsed = {} /\ ext = "none"

Encode ==
    /\ wire_pc = "new"
    /\ hdr' = initFrameHeader(client_le, frame)
    /\ wire_pc' = "sent"
    /\ UNCHANGED <<client_le, server_le, frame, parsed, ext>>

\* The server accepts the header, or drops the connection over it.
Decode ==
    /\ wire_pc = "sent"
    /\ IF Accepted(server_le, hdr)
       THEN /\ parsed' = {HeaderFields(server_le, hdr)}
            /\ ext' = Extension(HeaderFields(server_le, hdr).pixel_format)
            /\ wire_pc' = "accepted"
       ELSE /\ wire_pc' = "rejected"
            /\ UNCHANGED <<parsed, ext>>
    /\ UNCHANGED <<client_le, server_le, frame, hdr>>

WireDone == wire_pc \in {"accepted", "rejected"} /\ UNCHANGED wireVars

WireNext == Encode \/ Decode \/ WireDone

WireSpec == WireInit /\ [][WireNext]_wireVars

-----------------------------------------------------------------------------
(* Properties.                                                             *)

\* Whatever the byte orders of the two hosts, the server accepts every header of
\* the client, reads from it the values that the client put in, and saves the two
\* formats of the camera code, and no others, as .jpg and .bgr.
RoundTrip ==
    /\ wire_pc # "rejected"
    /\ wire_pc = "accepted" =>
          /\ parsed = {frame}
          /\ frame.pixel_format = JPEG  <=> ext = "jpg"
          /\ frame.pixel_format = BGR24 <=> ext = "bgr"

\* "All multi-byte integers are in network byte order (big-endian)", in the order
\* of the comment in protocol.hpp, without padding: the header is the size that it
\* announces, sizeof(FrameHeader).
NetworkOrder ==
    wire_pc # "new" =>
        hdr = PROTO_MAGIC \o PROTO_VERSION \o HeaderLen16 \o frame.seq \o frame.timestamp_ns
                 \o frame.payload_len \o frame.pixel_format \o frame.width \o frame.height

\* The header of README.md, for a receiver that is written from it: 40 bytes before
\* the payload, and 40 in header_len.
DocumentedHeaderSize ==
    wire_pc # "new" => Len(hdr) = 40 /\ SubSeq(hdr, 7, 8) = <<0, 40>>
=============================================================================
