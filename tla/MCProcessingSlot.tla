-------------------------- MODULE MCProcessingSlot -------------------------
(* Small instances of ProcessingSlot. *)
EXTENDS ProcessingSlot

CONSTANTS tick, one, two

MCJob == {tick}
MCWeb == {one, two}
MCLimits == {-1, 0, 3, NaN}
FewLimits == {0, NaN}
=============================================================================
