---------------------------- MODULE MCFrameServer ----------------------------
(***************************************************************************)
(* Instances of FrameServer for TLC: what clients may send.                *)
(***************************************************************************)
EXTENDS FrameServer

\* The bytes of one frame.
FrameBytes(src, proto, seq, len) ==
    [i \in 1 .. (HeaderLen + len) |->
        [src |-> src, proto |-> proto, seq |-> seq, off |-> i - 1, len |-> len]]

\* Two runs of the client with frames of different lengths, one without a payload,
\* headers of another protocol and of a payload beyond the limit, and a stream that
\* starts inside a frame.
MCStreams ==
    { FrameBytes(1, "FRAM 1", 0, 2) \o FrameBytes(1, "FRAM 1", 1, 1),
      FrameBytes(2, "FRAM 1", 0, 1),
      FrameBytes(2, "FRAM 1", 1, 0),
      FrameBytes(3, "other", 0, 0),
      SubSeq(FrameBytes(4, "FRAM 1", 0, 3), 1, 2),
      SubSeq(FrameBytes(5, "FRAM 1", 0, 1), 2, 3) }
=============================================================================
