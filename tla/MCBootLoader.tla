----------------------------- MODULE MCBootLoader -----------------------------
(* TLC instances of the boot loader: two images, banks of three pages of   *)
(* which two are copied, so that the host can overrun the copied pages and *)
(* the bank, and an image can be larger than the copied pages.             *)
EXTENDS BootLoaderSafety, FiniteSets, TLC

CONSTANTS v1, v2

MCImage == {v1, v2}
MCSize  == v1 :> 1 @@ v2 :> 2

\* v2 fills its bank, so that it is not copied whole.
MCLargeSize == v1 :> 1 @@ v2 :> 3

\* At most two kinds of fault in one behaviour, each as often as it likes.
MCFaults == {F \in SUBSET FaultKind : Cardinality(F) <= 2}

\* The faults the design document promises a fallback for: the upgrade is cut
\* off, or what came over the line is not the firmware.
MCFallback == {{"cut"}, {"line"}}
=============================================================================
