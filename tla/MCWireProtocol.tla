--------------------------- MODULE MCWireProtocol ---------------------------
(***************************************************************************)
(* Instances of WireProtocol for TLC: bytes that tell places apart.        *)
(***************************************************************************)
EXTENDS WireProtocol

MCU64 == {<<1, 2, 3, 4, 5, 6, 7, 8>>, <<0, 0, 0, 0, 255, 255, 255, 255>>,
          <<255, 255, 255, 255, 0, 0, 0, 0>>, <<0, 0, 0, 0, 0, 0, 0, 0>>}
MCU32 == {<<0, 64, 0, 0>>, <<0, 63, 255, 255>>, <<0, 0, 0, 1>>}
MCU16 == {<<5, 0>>, <<2, 208>>, <<255, 255>>}
\* JPEG and BGR24, and YUYV, NV12 of the enumeration.
MCFormats == {JPEG, BGR24, <<86, 89, 85, 89>>, <<50, 49, 86, 78>>}
=============================================================================
