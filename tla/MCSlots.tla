------------------------------ MODULE MCSlots -------------------------------
(* Instances of Slots for TLC.                                               *)
EXTENDS Slots

CONSTANT NotInteger    \* what Number() makes of a param that is no integer

Call(game, stake, lineBet, lines) == [game |-> game, stake |-> stake, lineBet |-> lineBet, lines |-> lines]

\* The page's least stake, one below it and one that does not divide by five; each
\* bound of the params and the value beyond it; a game nobody registered.
Calls ==
    {Call(Classic, stake, 0, 0) : stake \in {0, 4, 5, 7}}
    \cup {Call("roulette", 5, 1, 1)}
    \cup {Call(Video, 100, lineBet, lines) :
              lineBet \in {NotInteger, 0, 100, 101}, lines \in {NotInteger, 0, 1, 20, 21}}
    \cup {Call(Video, 0, 1, 1)}

\* Values in hundredths.  29 and 30 lie on both sides of a weight's end, 96 is
\* the first that draws a wild.
Nines == [1..9 -> {29, 30, 96}]

\* 0 and 99 wrap around a strip's ends, 36 shows wilds, 68 scatters, 52 crowns.
Fives == [1..5 -> {0, 36, 52, 68, 99}]
=============================================================================
