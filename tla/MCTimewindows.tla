--------------------------- MODULE MCTimewindows ---------------------------
(* Timewindows on one profile, two writers and two window numbers.        *)
EXTENDS Timewindows

(* One flow older than the first flow, and one a width after it.           *)
MCFlowTimes == {-1, 1}
=============================================================================
