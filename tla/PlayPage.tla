------------------------------ MODULE PlayPage ------------------------------
(***************************************************************************)
(* The page a player plays on (apps/frontend, app/game-provider.tsx): the  *)
(* slot cabinet, the celebration on it and the provably-fair panel beside  *)
(* it share one spin hook, whose last round the panel checks, and all use  *)
(* one seed of the player's.                                               *)
(***************************************************************************)
EXTENDS Sequences, Integers

CONSTANTS Reel, MaxSpins, MaxHides, Me, MaxSeeds, MaxOthers

ASSUME BoundsAreNatural ==
    /\ MaxSpins \in Nat /\ MaxHides \in Nat
    /\ MaxSeeds \in Nat /\ MaxOthers \in Nat

Round == 1 .. MaxSpins

VARIABLES spins, phase, awaiting, posted, revealing, result, lastRound,
          won, counting, tag, counted, leftover,
          strip, atEnd, moving, frames, running, hides, hidden, late,
          big, shower, flash, timers,
          seeds, told, drawn, forged, query, commitment, check, of, got, report,
          others, unseen

cabinet == <<spins, phase, awaiting, posted, revealing, result, lastRound, won, counting, tag,
             counted, leftover, strip, atEnd, moving, frames, running, hides, hidden, late>>
fx == <<big, shower, flash, timers>>
fairness == <<seeds, told, drawn, forged, query, commitment, check, of, got, report, others, unseen>>
pageVars == <<cabinet, fx, fairness>>

Cab == INSTANCE Cabinet WITH busy <- awaiting
FX == INSTANCE WinFX
Fair == INSTANCE Verify

PageInit == Cab!Init /\ FX!Init /\ Fair!Init

---------------------------------------------------------------------------

StartSpin == Cab!Spin /\ FX!Clear(result) /\ UNCHANGED fairness

\* The backend's part of a round, which the seeds see.
Serve(n) ==
    /\ n \in posted /\ drawn[n] = Fair!Undrawn
    /\ Fair!Ensure \/ Fair!DrawRound(n)
    /\ UNCHANGED <<cabinet, fx>>

Answered(n) ==
    /\ drawn[n] # Fair!Undrawn
    /\ Cab!Answered(n)
    /\ UNCHANGED <<fx, fairness>>

\* Before or after its draw.
SpinFails(n) == Cab!SpinFails(n) /\ UNCHANGED <<fx, fairness>>

Reveal(n) == Cab!Reveal(n) /\ FX!Celebrate(n, n \in won) /\ UNCHANGED fairness

Frame == Cab!Frame /\ UNCHANGED <<fx, fairness>>
StopFinished(r) == Cab!StopFinished(r) /\ UNCHANGED <<fx, fairness>>
Tick(n) == Cab!Tick(n) /\ UNCHANGED <<fx, fairness>>
LastTick(n) == Cab!LastTick(n) /\ UNCHANGED <<fx, fairness>>
Hide == Cab!Hide /\ UNCHANGED <<fx, fairness>>
Show == Cab!Show /\ UNCHANGED <<fx, fairness>>

\* Frames and animations, which need a page that is seen.
Animate ==
    \/ \E n \in counting : Tick(n) \/ LastTick(n)
    \/ Frame \/ (\E r \in Reel : StopFinished(r))
    \/ Hide \/ Show

CelebrationEnds ==
    /\ \E k \in FX!Runs : FX!ShowerEnds(k) \/ FX!FlashEnds(k)
    /\ UNCHANGED <<cabinet, fairness>>

Check ==
    /\ \/ Fair!Click \/ Fair!RevealServed \/ Fair!Report \/ Fair!RevealFails
       \/ query = Fair!Sent /\ Fair!Ensure
       \/ Fair!QueryServed \/ Fair!QueryArrives \/ Fair!QueryFails
       \/ Fair!Other
    /\ UNCHANGED <<cabinet, fx>>

PageNext ==
    \/ StartSpin
    \/ \E n \in posted : Serve(n) \/ SpinFails(n) \/ Answered(n)
    \/ \E n \in revealing : Reveal(n)
    \/ Animate \/ CelebrationEnds \/ Check

PageSpec == PageInit /\ [][PageNext]_pageVars

\* The page is seen again, frames come, animations end; nobody has to spin, and the
\* panel's requests need not be answered.
PageFairness ==
    /\ WF_pageVars(Show) /\ WF_pageVars(Frame)
    /\ \A r \in Reel : WF_pageVars(StopFinished(r))
    /\ \A n \in Round : WF_pageVars(LastTick(n))

PageFairSpec == PageSpec /\ PageFairness

---------------------------------------------------------------------------
(* Properties.                                                             *)

\* What falls over a win is that win's, for its whole time.
CelebrationIsTheWins ==
    /\ FX!LastsItsTime
    /\ phase = "result" /\ result \in won => {shower, flash} \subseteq {0, result}

\* What the page shows as a result is one round's: window, paylines, payout and
\* celebration (Cabinet, WinFX).
ResultIsOneRounds == Cab!ResultIsOneRounds /\ CelebrationIsTheWins

\* Reels that spin are seen to (Cabinet).
SpinningReelsLoop == Cab!SpinningReelsLoop

\* A result that is shown is reached (Cabinet).
ResultsAreReached == Cab!ResultsAreReached

\* What the panel says of a round and of the seeds is true (Verify).
VerifierIsTrue == Fair!TypeOK /\ Fair!ReportIsTrue /\ Fair!ShownHashIsInUse
=============================================================================
