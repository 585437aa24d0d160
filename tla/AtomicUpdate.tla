----------------------------- MODULE AtomicUpdate -----------------------------
(***************************************************************************)
(* What a dual-bank update promises, without banks: a board has one image; *)
(* an update that is under way leaves it alone and ends, all at once,      *)
(* either with the image the host offered or with the image it had.  A     *)
(* board that has suffered a fault the design does not tolerate promises   *)
(* nothing: its image is NoImage from then on.                             *)
(***************************************************************************)
CONSTANTS Image, NoImage

VARIABLES
    image,      \* the image the board boots now, or would after a power cut
    updating,   \* an update is under way
    offer       \* the image the host has offered, NoImage if none

vars == <<image, updating, offer>>

Init ==
    /\ image \in Image
    /\ updating = FALSE
    /\ offer = NoImage

Begin ==
    /\ image # NoImage /\ ~updating
    /\ updating' = TRUE
    /\ UNCHANGED <<image, offer>>

Offer ==
    /\ image # NoImage /\ updating /\ offer = NoImage
    /\ offer' \in Image
    /\ UNCHANGED <<image, updating>>

\* The host goes away or the power fails: the offer is forgotten.
Withdraw ==
    /\ image # NoImage
    /\ offer' = NoImage
    /\ UNCHANGED <<image, updating>>

Conclude ==
    /\ image # NoImage /\ updating
    /\ updating' = FALSE
    /\ image' = IF offer = NoImage THEN image ELSE offer
    /\ UNCHANGED offer

Break  == image' = NoImage
Broken == image = NoImage /\ image' = NoImage

Next == Begin \/ Offer \/ Withdraw \/ Conclude \/ Break \/ Broken

Spec == Init /\ [][Next]_vars
=============================================================================
