------------------------------- MODULE MCSdioRx -------------------------------
(* Instances of SdioRx for TLC: two payload bytes of the first frame look    *)
(* like the start of a header.                                               *)
EXTENDS SdioRx

Sizes     == <<5, 4, 4, 4>>
MimicByte == {<<1, 4>>}
ClaimByte == {<<1, 5>>}
=============================================================================
