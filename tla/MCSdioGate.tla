----------------------------- MODULE MCSdioGate -----------------------------
(* Instances of SdioGate for TLC. *)
EXTENDS SdioGate

CONSTANTS f1, f2, f3
=============================================================================
