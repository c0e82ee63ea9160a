-------------------------------- MODULE WinFX --------------------------------
(***************************************************************************)
(* The celebration of a win on the slot (apps/frontend,                    *)
(* components/slot/WinFX.tsx, SlotCabinet.tsx): a shower of coins and a    *)
(* flash, each ended by a timer of its own.  React runs the effect again   *)
(* whenever the count of wins or the size of the win on the screen has     *)
(* changed, and clears the timers of its last run before.  A run is named  *)
(* by its round, or by the round's negative when it is that round's second.*)
(***************************************************************************)
EXTENDS Integers

VARIABLES big,      \* the win on the screen is of a high tier
          shower,   \* the run whose coins fall, 0 for none
          flash,    \* the run whose flash is on
          timers    \* what they end, and the run that set them

fx == <<big, shower, flash, timers>>

Init == big = FALSE /\ shower = 0 /\ flash = 0 /\ timers = {}

\* Mutant: the effect returns no clean-up.
BurstUncleared(k) ==
    /\ shower' = k /\ flash' = k
    /\ timers' = timers \cup ({"shower", "flash"} \X {k})

\* The effect: its clean-up and its next run.
Burst(k) ==
    /\ shower' = k /\ flash' = k
    /\ timers' = {"shower", "flash"} \X {k}

Quiet == UNCHANGED <<shower, flash, timers>>

\* A round is revealed: a win counts up glowKey, a loss changes nothing here.
Celebrate(n, wins) ==
    IF wins
    THEN big' \in BOOLEAN /\ Burst(n)
    ELSE big' = FALSE /\ Quiet

\* The click takes the win off the screen.  After a big one that is a change of
\* size, for which the effect runs once more.
Clear(shown) ==
    /\ big' = FALSE
    /\ IF big THEN Burst(-shown) ELSE Quiet

ShowerEnds(k) ==
    /\ <<"shower", k>> \in timers
    /\ shower' = 0 /\ timers' = timers \ {<<"shower", k>>}
    /\ UNCHANGED <<big, flash>>

FlashEnds(k) ==
    /\ <<"flash", k>> \in timers
    /\ flash' = 0 /\ timers' = timers \ {<<"flash", k>>}
    /\ UNCHANGED <<big, shower>>

Runs == {t[2] : t \in timers}

\* What falls and flashes was set off by one run of the effect and lasts until that
\* run's own timer: no timer of an earlier win cuts it short.
LastsItsTime ==
    timers = {<<"shower", k>> : k \in {shower} \ {0}} \cup {<<"flash", k>> : k \in {flash} \ {0}}
=============================================================================
