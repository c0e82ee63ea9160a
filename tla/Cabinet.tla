------------------------------- MODULE Cabinet -------------------------------
(***************************************************************************)
(* The slot on the screen (apps/frontend: lib/use-spin.ts,                 *)
(* components/slot/Reel.tsx, SlotCabinet.tsx).  The spin hook asks the     *)
(* backend for a round and reveals it when a timer has run; each reel loops*)
(* over filler from the click on and slows down onto the round's window    *)
(* once it is revealed.  Animations start in the next animation frame, and *)
(* the browser gives none to a page that is hidden; timers and answers go  *)
(* on there.  A round is named by the number of its spin; 0 is the grid the*)
(* page shows before the first.                                            *)
(***************************************************************************)
EXTENDS Integers, FiniteSets

CONSTANTS Reel,
          MaxSpins,     \* bound: spins of the player
          MaxHides      \* bound: how often the page is hidden

VARIABLES spins,      \* spinId / 3
          phase,      \* SpinPhase
          busy,
          posted,     \* rounds asked for
          revealing,  \* rounds whose timer runs
          result,     \* the round shown, in windows and paylines
          lastRound,  \* the last round shown, kept while the next is awaited
          won,        \* the rounds answered that pay
          counting,   \* rounds whose count-up has a tick scheduled
          tag,        \* the round whose payout displayPayout shows, 0 for none
          counted,    \* it shows it in full
          strip,      \* the round each reel's strip ends on, or Filler
          atEnd,      \* the reel's offset is at that end
          moving,     \* it is drawn blurred
          frames,     \* the animations that start in its next frame
          running,    \* the animations that run on it
          hides, hidden,
          leftover,   \* a count-up ran on when this spin was started
          late        \* this spin's round was revealed before the frame that starts its loop

hook == <<spins, phase, busy, posted, revealing, result, lastRound>>
count == <<won, counting, tag, counted, leftover>>
reels == <<strip, atEnd, moving, frames, running>>
vars == <<hook, count, reels, hides, hidden, late>>

Filler == -1
Animation == {"loop", "stop"}

TypeOK ==
    /\ spins \in 0..MaxSpins
    /\ phase \in {"idle", "spinning", "result"} /\ busy \in BOOLEAN
    /\ posted \subseteq 1..spins /\ revealing \subseteq 1..spins /\ result \in 0..spins /\ lastRound \in 0..spins
    /\ won \subseteq 1..spins /\ counting \subseteq won /\ tag \in {0} \cup won
    /\ counted \in BOOLEAN /\ leftover \in BOOLEAN
    /\ strip \in [Reel -> {Filler} \cup 0..spins]
    /\ atEnd \in [Reel -> BOOLEAN] /\ moving \in [Reel -> BOOLEAN]
    /\ frames \in [Reel -> SUBSET Animation] /\ running \in [Reel -> SUBSET Animation]
    /\ hides \in 0..MaxHides /\ hidden \in BOOLEAN /\ late \in BOOLEAN

\* Three tiles fill the reel, so that the start of a strip of three is its end.
Init ==
    /\ spins = 0 /\ phase = "idle" /\ busy = FALSE
    /\ posted = {} /\ revealing = {} /\ result = 0 /\ lastRound = 0
    /\ won = {} /\ counting = {} /\ tag = 0 /\ counted = FALSE /\ leftover = FALSE
    /\ strip = [r \in Reel |-> 0] /\ atEnd = [r \in Reel |-> TRUE]
    /\ moving = [r \in Reel |-> FALSE]
    /\ frames = [r \in Reel |-> {}] /\ running = [r \in Reel |-> {}]
    /\ hides = 0 /\ hidden = FALSE /\ late = FALSE

---------------------------------------------------------------------------
(* The reels' two effects.                                                 *)

\* Mutant: the stop animation of the last spin is left running.
FreeSpinOverStop ==
    /\ strip' = [r \in Reel |-> Filler] /\ atEnd' = [r \in Reel |-> FALSE]
    /\ moving' = [r \in Reel |-> TRUE]
    /\ running' = [r \in Reel |-> running[r] \ {"loop"}]
    /\ frames' = [r \in Reel |-> {"loop"}]

\* Stage 1, on spinId: both animations are cancelled, and the clean-ups of the
\* effects cancel the frames that were to start one.
FreeSpin ==
    /\ strip' = [r \in Reel |-> Filler] /\ atEnd' = [r \in Reel |-> FALSE]
    /\ moving' = [r \in Reel |-> TRUE]
    /\ running' = [r \in Reel |-> {}]
    /\ frames' = [r \in Reel |-> {"loop"}]

\* Mutant: the loop goes on under the stop.
DecelerateOverLoop(n) ==
    /\ strip' = [r \in Reel |-> n] /\ atEnd' = [r \in Reel |-> FALSE]
    /\ moving' = [r \in Reel |-> TRUE]
    /\ UNCHANGED running
    /\ frames' = [r \in Reel |-> frames[r] \cup {"stop"}]

\* Stage 2, on landed: the loop is cancelled if it runs.  A frame that is yet to
\* start it belongs to stage 1 and is not.
Decelerate(n) ==
    /\ strip' = [r \in Reel |-> n] /\ atEnd' = [r \in Reel |-> FALSE]
    /\ moving' = [r \in Reel |-> TRUE]
    /\ running' = [r \in Reel |-> running[r] \ {"loop"}]
    /\ frames' = [r \in Reel |-> frames[r] \cup {"stop"}]

---------------------------------------------------------------------------
(* The spin hook.                                                          *)

\* Mutant: a second click spins again.
SpinTwice ==
    /\ spins < MaxSpins
    /\ spins' = spins + 1 /\ phase' = "spinning" /\ busy' = TRUE /\ result' = 0
    /\ posted' = posted \cup {spins'}
    /\ FreeSpin /\ late' = FALSE
    /\ tag' = 0 /\ counted' = FALSE /\ leftover' = (counting # {})
    /\ UNCHANGED <<revealing, lastRound, won, counting, hides, hidden>>

\* The click, on a page that is seen; the stake's checks are in Cashier.  The
\* payout is reset, but not the count-up that may still write it.
Spin ==
    /\ ~busy /\ ~hidden /\ spins < MaxSpins
    /\ spins' = spins + 1 /\ phase' = "spinning" /\ busy' = TRUE /\ result' = 0
    /\ posted' = posted \cup {spins'}
    /\ FreeSpin /\ late' = FALSE
    /\ tag' = 0 /\ counted' = FALSE /\ leftover' = (counting # {})
    /\ UNCHANGED <<revealing, lastRound, won, counting, hides, hidden>>

\* The error answer is shown as a toast; the reels are told nothing.
SpinFails(n) ==
    /\ n \in posted
    /\ posted' = posted \ {n}
    /\ busy' = FALSE /\ phase' = "idle"
    /\ UNCHANGED <<spins, revealing, result, lastRound, count, reels, hides, hidden, late>>

Answered(n) ==
    /\ n \in posted
    /\ posted' = posted \ {n} /\ revealing' = revealing \cup {n}
    /\ won' \in {won, won \cup {n}}
    /\ UNCHANGED <<spins, phase, busy, result, lastRound, counting, tag, counted, leftover, reels, hides, hidden, late>>

\* Mutant: the count-up of an earlier win goes on beside this one's.
CountUpBeside(n) == counting' = counting \cup {n}

\* countUp: the tick of an earlier win is cancelled.
CountUp(n) == counting' = {n}

\* The timer that keeps the reels spinning for preset.spin.
Reveal(n) ==
    /\ n \in revealing
    /\ revealing' = revealing \ {n}
    /\ phase' = "result" /\ result' = n /\ lastRound' = n /\ busy' = FALSE
    /\ Decelerate(n)
    /\ IF n \in won THEN CountUp(n) ELSE UNCHANGED counting
    /\ late' = (\E r \in Reel : "loop" \in frames[r])
    /\ UNCHANGED <<spins, posted, won, tag, counted, leftover, hides, hidden>>

---------------------------------------------------------------------------
(* The browser.                                                            *)

\* One frame runs what all the reels have asked for.
Frame ==
    /\ ~hidden /\ \E r \in Reel : frames[r] # {}
    /\ running' = [r \in Reel |-> running[r] \cup frames[r]]
    /\ frames' = [r \in Reel |-> {}]
    /\ UNCHANGED <<hook, count, strip, atEnd, moving, hides, hidden, late>>

\* onfinish: each reel has its own duration.
StopFinished(r) ==
    /\ ~hidden /\ "stop" \in running[r]
    /\ atEnd' = [atEnd EXCEPT ![r] = TRUE]
    /\ moving' = [moving EXCEPT ![r] = FALSE]
    /\ running' = [running EXCEPT ![r] = @ \ {"stop"}]
    /\ UNCHANGED <<hook, count, strip, frames, hides, hidden, late>>

\* A tick of the count-up writes a part of the payout, and the last all of it.
Tick(n) ==
    /\ ~hidden /\ n \in counting
    /\ tag' = n /\ counted' = FALSE
    /\ UNCHANGED <<hook, won, counting, leftover, reels, hides, hidden, late>>

LastTick(n) ==
    /\ ~hidden /\ n \in counting
    /\ tag' = n /\ counted' = TRUE /\ counting' = counting \ {n}
    /\ UNCHANGED <<hook, won, leftover, reels, hides, hidden, late>>

Hide == ~hidden /\ hides < MaxHides /\ hidden' = TRUE /\ hides' = hides + 1 /\ UNCHANGED <<hook, count, reels, late>>

Show == hidden /\ hidden' = FALSE /\ UNCHANGED <<hook, count, reels, hides, late>>

Next ==
    \/ Spin
    \/ \E n \in posted : SpinFails(n) \/ Answered(n)
    \/ \E n \in revealing : Reveal(n)
    \/ \E n \in counting : Tick(n) \/ LastTick(n)
    \/ Frame \/ (\E r \in Reel : StopFinished(r))
    \/ Hide \/ Show

Spec == Init /\ [][Next]_vars

\* The page is seen again, frames come, animations end; nobody has to spin.
FairSpec ==
    /\ Spec /\ WF_vars(Show) /\ WF_vars(Frame)
    /\ \A r \in Reel : WF_vars(StopFinished(r))
    /\ \A n \in 1..MaxSpins : WF_vars(LastTick(n))

---------------------------------------------------------------------------
(* Properties.                                                             *)

Stands(r) == frames[r] = {} /\ running[r] = {}

\* What is shown is the round of the last spin and no other is under way, so that
\* the paylines and the balance that go with it are its own; and "the displayed
\* stop is therefore always exactly the backend's grid" (Reel.tsx:36): a reel drawn
\* as standing stands on that round's window, with no animation left on it, unless
\* the round was revealed before the reel's first frame, which takes a hidden page.
StopIsTheGrid ==
    phase = "result" =>
        /\ result = spins /\ posted \cup revealing = {}
        /\ ~late => \A r \in Reel : ~moving[r] => Stands(r) /\ atEnd[r] /\ strip[r] = result

\* The payout shown with a win is its own, in part while it is counted up and in
\* full after, unless an earlier win was still being counted at the click, whose
\* last amount then shows until the first tick.
PayoutIsTheRounds ==
    phase = "result" /\ result \in won =>
        /\ tag \in {0, result} \/ (leftover /\ result \in counting)
        /\ IF counting = {} THEN tag = result /\ counted ELSE counting = {result}

\* What the page shows as a result is one round's: window, paylines and payout.
ResultIsOneRounds == TypeOK /\ StopIsTheGrid /\ PayoutIsTheRounds

\* A reel that spins is seen to: while a round is awaited every reel is blurred,
\* and the only animation on it is its loop, however the last spin ended - even
\* if it ended a moment ago and its reels had not stopped.
SpinningReelsLoop ==
    phase = "spinning" => \A r \in Reel : moving[r] /\ frames[r] \cup running[r] = {"loop"}

\* A result that is shown is reached: its reels stop on it and its payout is told
\* in full in the end, or the player spins again first.
ResultsAreReached ==
    \A n \in 1..MaxSpins :
        phase = "result" /\ result = n /\ ~late
            ~> \/ /\ \A r \in Reel : Stands(r) /\ atEnd[r] /\ strip[r] = n
                  /\ n \in won => tag = n /\ counted
               \/ spins > n
=============================================================================
