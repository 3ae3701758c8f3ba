----------------------------- MODULE MCSdioCmdRx -----------------------------
(* Instances of SdioCmdRx for TLC. *)
EXTENDS SdioCmdRx

CONSTANTS r1, r2
=============================================================================
