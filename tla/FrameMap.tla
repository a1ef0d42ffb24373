------------------------------ MODULE FrameMap ------------------------------
(***************************************************************************)
(* What mm_stage2_build promises, without lists, merging or sweeping: RAM  *)
(* is collected, then what must not be allocated, and free memory appears  *)
(* at once, as exactly the RAM that nothing reserves.  A build may be      *)
(* given up at any point; what it had collected is then nobody's map.      *)
(***************************************************************************)
EXTENDS Naturals

CONSTANT Addr  \* addresses

VARIABLES
    inRam,       \* addresses known to be RAM
    inReserved,  \* addresses nobody may allocate
    inFree,      \* addresses published as free
    status

frameVars == <<inRam, inReserved, inFree, status>>

FrameInit ==
    /\ inRam = {} /\ inReserved = {} /\ inFree = {}
    /\ status = "collecting"

FoundRam ==
    /\ status = "collecting"
    /\ inRam \subseteq inRam' /\ inRam' \subseteq Addr
    /\ UNCHANGED <<inReserved, inFree, status>>

RamKnown ==
    /\ status = "collecting"
    /\ status' = "reserving"
    /\ UNCHANGED <<inRam, inReserved, inFree>>

\* Reserving never gives an address back and never touches RAM's extent.
Reserved ==
    /\ status = "reserving"
    /\ inReserved \subseteq inReserved' /\ inReserved' \subseteq Addr
    /\ UNCHANGED <<inRam, inFree, status>>

FramePublish ==
    /\ status = "reserving"
    /\ status' = "published"
    /\ inFree' = inRam \ inReserved
    /\ UNCHANGED <<inRam, inReserved>>

GiveUp ==
    /\ status \in {"collecting", "reserving"}
    /\ status' = "gave_up"
    /\ inRam' = {} /\ inReserved' = {} /\ inFree' = {}

FrameNext == FoundRam \/ RamKnown \/ Reserved \/ FramePublish \/ GiveUp

FrameSpec == FrameInit /\ [][FrameNext]_frameVars
=============================================================================
