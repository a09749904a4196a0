------------------------------ MODULE MCNtMemcpy ------------------------------
(***************************************************************************)
(* Every length up to a 256-byte piece, every line piece and every tail,   *)
(* with targets below, inside and beyond the source.  Nothing is scaled    *)
(* but the width of an address.                                            *)
(***************************************************************************)
EXTENDS NtMemcpy

Offsets == {-300, -100, -64, -16, -1, 0, 1, 16, 40, 64, 300, 600}

MCCalls == [dest : {640 + d : d \in Offsets}, src : {640}, len : 0 .. 72]
           \cup [dest : {640 + d : d \in Offsets}, src : {640},
                 len : {127, 128, 160, 255, 256, 264, 320, 449, 575, 600}]
=============================================================================
