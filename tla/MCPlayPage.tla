----------------------------- MODULE MCPlayPage -----------------------------
(* An instance of PlayPage for TLC.  The cabinet and the panel share the spin *)
(* hook and neither writes what the other reads, so that TLC may look at one  *)
(* half of the page at a time: with the panel's requests never answered, and  *)
(* with reels that are never drawn and rounds that win nothing.               *)
EXTENDS PlayPage

CONSTANT PanelSpins      \* bound: spins while the panel is looked at

VARIABLE half

AtRest == <<query, commitment, check, of, got, report, others, unseen, forged>>

HalfInit == PageInit /\ half \in {"cabinet", "panel"}

HalfNext ==
    /\ PageNext
    /\ UNCHANGED half
    /\ half = "cabinet" => UNCHANGED AtRest
    /\ half = "panel" => UNCHANGED <<won, hides>> /\ ~Animate /\ spins' <= PanelSpins

HalfSpec == HalfInit /\ [][HalfNext]_<<pageVars, half>> /\ PageFairness
=============================================================================
