------------------------------ MODULE MCSdioTx ------------------------------
(* Instances of SdioTx for TLC. *)
EXTENDS SdioTx

CONSTANTS p1, p2, p3, p4, c1, c2, c3, c4, w1, w2

\* A packet of the link MTU, one that fits a single block, and one whose first
\* byte is not 0x45.
SizeMixed ==
    [m \in Msg |-> CASE m = p1 -> 4096
                     [] m = p2 -> 400
                     [] m = p3 -> 1500
                     [] m = p4 -> 4096
                     [] m \in {c1, c2, c3} -> 300
                     [] OTHER  -> 65535]
\* Packets of an interface whose MTU was raised, and a command longer than tx_buf.
SizeLarge ==
    [m \in Msg |-> CASE m \in Pkt -> 40000
                     [] m \in {c1, c2, c3} -> 300
                     [] OTHER  -> 65535]
=============================================================================
