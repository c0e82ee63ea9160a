------------------------------- MODULE Slots -------------------------------
(***************************************************************************)
(* The two games (apps/backend, modules/game/games): the classic 3x3 slot  *)
(* and the 5x3 slot of 20 lines, each a pure function of the round's       *)
(* random values, its params and its stake, and the checks the engine      *)
(* makes before it takes the stake.  Amounts and tables are the source's;  *)
(* a random value of 52 bits is an integer below Resolution.               *)
(***************************************************************************)
EXTENDS Integers, Sequences, FiniteSets, FiniteSetsExt, Functions

CONSTANTS Resolution,     \* 2^52 in the code
          Orders,         \* the play calls made
          ClassicDraws,   \* streams of nine values
          VideoDraws      \* streams of five

ASSUME ResolutionIsPositive == Resolution \in Nat \ {0}
ASSUME StakesAreDigits == \A o \in Orders : o.stake \in Nat
ASSUME DrawsAreValues == /\ ClassicDraws \subseteq [1..9 -> 0..Resolution-1]
                         /\ VideoDraws \subseteq [1..5 -> 0..Resolution-1]

VARIABLES call,     \* the game, the stake, and the params it names
          reply,    \* "none", "refused" or "played"
          draws,    \* the values the round's stream gave
          grid,     \* the cells that show, by reel and row
          result    \* what evaluate returned

gameVars == <<call, reply, draws, grid, result>>

---------------------------------------------------------------------------
(* The random stream, engine/rng.ts.                                       *)

NextInt(v, n) == (v * n) \div Resolution

\* Mutant: the option is left once its weight is used up exactly.
WeightedIndexLate(v, weights) ==
    LET rest[i \in 0..Len(weights)] ==
            IF i = 0 THEN v * SumFunction(weights) ELSE rest[i-1] - weights[i] * Resolution
    IN Min({i \in 1..Len(weights) : rest[i] <= 0} \cup {Len(weights)})

\* The weights are taken off the value one by one until it is below zero.
WeightedIndex(v, weights) ==
    LET rest[i \in 0..Len(weights)] ==
            IF i = 0 THEN v * SumFunction(weights) ELSE rest[i-1] - weights[i] * Resolution
    IN Min({i \in 1..Len(weights) : rest[i] < 0} \cup {Len(weights)})

---------------------------------------------------------------------------
(* The classic slot: nine weighted cells, five lines.                      *)

ClassicSymbols == <<"CHERRY", "LEMON", "BELL", "STAR", "SEVEN", "WILD">>
ClassicWeights == <<30, 28, 20, 12, 6, 4>>
ClassicPays == [CHERRY |-> 6, LEMON |-> 8, BELL |-> 16, STAR |-> 30, SEVEN |-> 101, WILD |-> 201]
ClassicLines == <<<<0, 0, 0>>, <<1, 1, 1>>, <<2, 2, 2>>, <<0, 1, 2>>, <<2, 1, 0>>>>

ClassicGrid(d) ==
    [col \in 0..2 |-> [row \in 0..2 |->
        ClassicSymbols[WeightedIndex(d[3 * col + row + 1], ClassicWeights)]]]

\* The cells a line runs over, from the left.
Cells(g, line) == [reel \in 1..Len(line) |-> g[reel - 1][line[reel]]]

\* Mutant: a line of wilds is taken for a line without a symbol.
ResolveLineSymbolOfPlain(cells) ==
    LET nonWild == Range(cells) \ {"WILD"}
    IN IF Cardinality(nonWild) = 1 THEN CHOOSE c \in nonWild : TRUE ELSE "none"

\* The symbol a line pays as: the one it shows beside wilds, or WILD itself.
ResolveLineSymbol(cells) ==
    LET nonWild == Range(cells) \ {"WILD"}
    IN CASE nonWild = {} -> "WILD"
         [] Cardinality(nonWild) = 1 -> CHOOSE c \in nonWild : TRUE
         [] OTHER -> "none"

\* Mutant: every line is played for the whole stake.
LineStakeWhole(stake) == stake

\* The stake is split over the lines; what is left over is not played.
LineStake(stake) == stake \div Len(ClassicLines)

EvaluateClassic(g, stake) ==
    LET symbol(i) == ResolveLineSymbol(Cells(g, ClassicLines[i]))
        won == {i \in 1..Len(ClassicLines) : symbol(i) # "none"}
        wins == [i \in won |-> [symbol |-> symbol(i), count |-> 3,
                                win |-> LineStake(stake) * ClassicPays[symbol(i)]]]
    IN [wins |-> wins, scatters |-> 0, freeSpins |-> 0,
        payout |-> SumFunction([i \in won |-> wins[i].win])]

\* What a line returns of its stake, in millionths: every one of its 216
\* outcomes with its weight, as scripts/slot-calibrate.mjs counts it.
ExactReturn ==
    LET weight(i) == ClassicWeights[i]
        pay(c) == LET s == ResolveLineSymbol(<<ClassicSymbols[c[1]], ClassicSymbols[c[2]], ClassicSymbols[c[3]]>>)
                  IN IF s = "none" THEN 0 ELSE ClassicPays[s]
    IN SumFunction([i \in 1..6 |-> weight(i) * SumFunction([j \in 1..6 |-> weight(j) *
           SumFunction([k \in 1..6 |-> weight(k) * pay(<<i, j, k>>)])])])

---------------------------------------------------------------------------
(* What the page makes of a classic round (apps/frontend): it has a copy of *)
(* the tables of its own, takes the lines that won from the answer by their *)
(* number, and computes the return it publishes from its copy.              *)

PanelSymbols == <<"CHERRY", "LEMON", "BELL", "STAR", "SEVEN", "WILD">>
PanelWeights == [CHERRY |-> 30, LEMON |-> 28, BELL |-> 20, STAR |-> 12, SEVEN |-> 6, WILD |-> 4]

\* Mutant: the calibration before the last one (rtp-check.mjs).
PanelPaysBefore == [CHERRY |-> 6, LEMON |-> 7, BELL |-> 15, STAR |-> 28, SEVEN |-> 93, WILD |-> 186]

PanelPays == [CHERRY |-> 6, LEMON |-> 8, BELL |-> 16, STAR |-> 30, SEVEN |-> 101, WILD |-> 201]

\* Mutant: the diagonals are listed the other way round.
PanelLinesSwapped == <<<<0, 0, 0>>, <<1, 1, 1>>, <<2, 2, 2>>, <<2, 1, 0>>, <<0, 1, 2>>>>

PanelLines == <<<<0, 0, 0>>, <<1, 1, 1>>, <<2, 2, 2>>, <<0, 1, 2>>, <<2, 1, 0>>>>

\* Mutant: any stake may be played.
MinBetOfOne == 1

\* The least stake the spin button takes.
MinBet == 5

\* The lines that light up: those of the answer, if it paid anything.
LitLines == IF result.payout > 0 THEN DOMAIN result.wins ELSE {}

Cube(n) == n * n * n

\* Mutant: lines of wilds alone are counted with every symbol.
PanelReturnOfWilds ==
    SumFunction([i \in 1..6 |->
        LET s == PanelSymbols[i] wild == PanelWeights["WILD"]
        IN PanelPays[s] * (IF s = "WILD" THEN Cube(wild) ELSE Cube(PanelWeights[s] + wild))])

\* The return that is published, in millionths, as its closed form has it: a line
\* of three that are s or wild, wilds alone taken off.
PanelReturn ==
    SumFunction([i \in 1..6 |->
        LET s == PanelSymbols[i] wild == PanelWeights["WILD"]
        IN PanelPays[s] * (IF s = "WILD" THEN Cube(wild)
                           ELSE Cube(PanelWeights[s] + wild) - Cube(wild))])

---------------------------------------------------------------------------
(* The video slot: five strips, twenty lines, wilds, scatters.             *)

Strips == <<
  <<"TEN", "JACK", "GEM", "QUEEN", "TEN", "KING", "ACE", "WILD", "JACK", "CROWN", "TEN", "QUEEN", "SCATTER",
    "JACK", "KING", "TEN", "ACE", "QUEEN", "GEM", "JACK">>,
  <<"JACK", "TEN", "QUEEN", "KING", "JACK", "GEM", "TEN", "ACE", "WILD", "QUEEN", "JACK", "CROWN", "TEN", "KING",
    "SCATTER", "QUEEN", "JACK", "ACE", "TEN", "GEM", "KING">>,
  <<"TEN", "QUEEN", "JACK", "ACE", "KING", "TEN", "GEM", "WILD", "QUEEN", "JACK", "CROWN", "TEN", "KING", "ACE",
    "SCATTER", "QUEEN", "JACK", "TEN", "GEM", "WILD", "KING", "ACE">>,
  <<"KING", "TEN", "JACK", "QUEEN", "ACE", "TEN", "GEM", "JACK", "WILD", "KING", "QUEEN", "TEN", "CROWN", "JACK",
    "ACE", "SCATTER", "TEN", "QUEEN", "KING", "GEM", "JACK">>,
  <<"TEN", "JACK", "QUEEN", "TEN", "KING", "JACK", "ACE", "TEN", "GEM", "QUEEN", "WILD", "JACK", "TEN", "CROWN",
    "KING", "SCATTER", "QUEEN", "JACK", "TEN", "ACE", "GEM", "KING">>>>

Lines == <<
  <<1, 1, 1, 1, 1>>, <<0, 0, 0, 0, 0>>, <<2, 2, 2, 2, 2>>, <<0, 1, 2, 1, 0>>, <<2, 1, 0, 1, 2>>,
  <<0, 0, 1, 2, 2>>, <<2, 2, 1, 0, 0>>, <<1, 0, 0, 0, 1>>, <<1, 2, 2, 2, 1>>, <<1, 0, 1, 2, 1>>,
  <<1, 2, 1, 0, 1>>, <<0, 1, 1, 1, 0>>, <<2, 1, 1, 1, 2>>, <<0, 1, 0, 1, 0>>, <<2, 1, 2, 1, 2>>,
  <<1, 1, 0, 1, 1>>, <<1, 1, 2, 1, 1>>, <<0, 0, 1, 0, 0>>, <<2, 2, 1, 2, 2>>, <<0, 2, 0, 2, 0>>>>

\* What 3, 4 and 5 of a kind pay, times the line bet or the total bet.
LinePays ==
    [TEN |-> <<5, 15, 52>>, JACK |-> <<5, 15, 52>>, QUEEN |-> <<9, 26, 88>>, KING |-> <<12, 33, 130>>,
     ACE |-> <<16, 44, 190>>, GEM |-> <<25, 75, 350>>, CROWN |-> <<30, 120, 600>>]
ScatterPays == <<5, 15, 60>>
ScatterFreeSpins == <<10, 15, 25>>
MaxLineBet == 100

\* Mutant: the loop over the rows takes one step too many.
VideoGridOfFourRows(d) ==
    [reel \in 0..4 |-> LET strip == Strips[reel + 1] stop == NextInt(d[reel + 1], Len(strip))
                       IN [row \in 0..3 |-> strip[((stop + row - 1 + Len(strip)) % Len(strip)) + 1]]]

\* A reel shows its stop in the middle, and its neighbours on the band.
VideoGrid(d) ==
    [reel \in 0..4 |-> LET strip == Strips[reel + 1] stop == NextInt(d[reel + 1], Len(strip))
                       IN [row \in 0..2 |-> strip[((stop + row - 1 + Len(strip)) % Len(strip)) + 1]]]

\* Mutant: a scatter on the line is passed over, not the end of the run.
RunPassingScatters(cells) ==
    LET step[i \in 0..Len(cells)] ==
            IF i = 0 THEN [symbol |-> "none", count |-> 0, over |-> FALSE]
            ELSE LET run == step[i-1] c == cells[i] IN
                 IF run.over \/ c = "SCATTER" THEN run
                 ELSE IF c = "WILD" THEN [run EXCEPT !.count = @ + 1]
                 ELSE IF run.symbol \in {"none", c} THEN [run EXCEPT !.count = @ + 1, !.symbol = c]
                 ELSE [run EXCEPT !.over = TRUE]
    IN step[Len(cells)]

\* Mutant: a wild is a symbol like another once the line has one.
RunOfPlainWilds(cells) ==
    LET step[i \in 0..Len(cells)] ==
            IF i = 0 THEN [symbol |-> "none", count |-> 0, over |-> FALSE]
            ELSE LET run == step[i-1] c == cells[i] IN
                 IF run.over THEN run
                 ELSE IF c = "WILD" /\ run.symbol = "none" THEN [run EXCEPT !.count = @ + 1]
                 ELSE IF c # "SCATTER" /\ run.symbol \in {"none", c}
                      THEN [run EXCEPT !.count = @ + 1, !.symbol = c]
                 ELSE [run EXCEPT !.over = TRUE]
    IN step[Len(cells)]

\* The loop over a line's cells: the first symbol that is no wild is what the
\* line pays as; another symbol, or a scatter, ends the run.
Run(cells) ==
    LET step[i \in 0..Len(cells)] ==
            IF i = 0 THEN [symbol |-> "none", count |-> 0, over |-> FALSE]
            ELSE LET run == step[i-1] c == cells[i] IN
                 IF run.over THEN run
                 ELSE IF c = "WILD" THEN [run EXCEPT !.count = @ + 1]
                 ELSE IF c # "SCATTER" /\ run.symbol \in {"none", c}
                      THEN [run EXCEPT !.count = @ + 1, !.symbol = c]
                 ELSE [run EXCEPT !.over = TRUE]
    IN step[Len(cells)]

\* A run of wilds alone pays as the crown.
PaySymbol(run) == IF run.symbol = "none" THEN "CROWN" ELSE run.symbol

\* Mutant: scatters count once for each reel's middle row.
ScattersInTheMiddle(g) == Cardinality({reel \in 0..4 : g[reel][1] = "SCATTER"})

CountScatters(g) == Cardinality({cell \in (0..4) \X (0..2) : g[cell[1]][cell[2]] = "SCATTER"})

EvaluateVideo(g, lineBet, lines) ==
    LET run == [i \in 1..lines |-> Run(Cells(g, Lines[i]))]
        won == {i \in 1..lines : run[i].count >= 3}
        wins == [i \in won |-> LET s == PaySymbol(run[i]) n == run[i].count
                               IN [symbol |-> s, count |-> n, win |-> lineBet * LinePays[s][n - 2]]]
        scatters == CountScatters(g)
        prize(table) == IF scatters >= 3 THEN table[Min({scatters, 5}) - 2] ELSE 0
    IN [wins |-> wins, scatters |-> scatters, freeSpins |-> prize(ScatterFreeSpins),
        payout |-> SumFunction([i \in won |-> wins[i].win]) + lineBet * lines * prize(ScatterPays)]

---------------------------------------------------------------------------
(* One call of play.                                                       *)

Classic == "slot-classic-3x3"
Video == "slot-5x3-20line"
NoGrid == <<>>
NoResult == [wins |-> <<>>, scatters |-> 0, freeSpins |-> 0, payout |-> 0]

ValidParams(o) ==
    o.game = Video => /\ o.lineBet \in 1..MaxLineBet
                      /\ o.lines \in 1..Len(Lines)

Accepted(o) == o.game \in {Classic, Video} /\ o.stake > 0 /\ ValidParams(o)

GameInit ==
    /\ call \in Orders
    /\ reply = "none" /\ draws = <<>> /\ grid = NoGrid /\ result = NoResult

Refuse ==
    /\ reply = "none" /\ ~Accepted(call)
    /\ reply' = "refused"
    /\ UNCHANGED <<call, draws, grid, result>>

PlayClassic ==
    /\ reply = "none" /\ Accepted(call) /\ call.game = Classic
    /\ draws' \in ClassicDraws
    /\ grid' = ClassicGrid(draws')
    /\ result' = EvaluateClassic(grid', call.stake)
    /\ reply' = "played"
    /\ UNCHANGED call

PlayVideo ==
    /\ reply = "none" /\ Accepted(call) /\ call.game = Video
    /\ draws' \in VideoDraws
    /\ grid' = VideoGrid(draws')
    /\ result' = EvaluateVideo(grid', call.lineBet, call.lines)
    /\ reply' = "played"
    /\ UNCHANGED call

GameNext == Refuse \/ PlayClassic \/ PlayVideo

GameSpec == GameInit /\ [][GameNext]_gameVars

---------------------------------------------------------------------------
(* Properties.                                                             *)

Grids(reels, symbols) == [0..reels-1 -> [0..2 -> symbols]]
VideoSymbols == DOMAIN LinePays \cup {"WILD", "SCATTER"}

ResultOK ==
    /\ call \in Orders
    /\ reply \in {"none", "refused", "played"}
    /\ draws \in {<<>>} \cup ClassicDraws \cup VideoDraws
    /\ reply # "played" => grid = NoGrid /\ result = NoResult
    /\ reply = "played" =>
         /\ grid \in IF call.game = Classic THEN Grids(3, Range(ClassicSymbols))
                                            ELSE Grids(5, VideoSymbols)
         /\ result.payout \in Nat /\ result.freeSpins \in {0} \cup Range(ScatterFreeSpins)

Played(game) == reply = "played" /\ call.game = game

\* A line of the video slot wins exactly when its first three cells or more are
\* one symbol and wilds, it pays for the longest such run, and it pays as the
\* symbol that shows in that run, the crown when there are only wilds.
RunsAreLongest ==
    Played(Video) =>
        \A i \in 1..call.lines :
            LET cells == Cells(grid, Lines[i])
                of(s) == {k \in 0..5 : \A j \in 1..k : cells[j] \in {s, "WILD"}}
                longest == Max(UNION {of(s) : s \in DOMAIN LinePays})
                shown == {cells[j] : j \in 1..longest} \ {"WILD"}
            IN /\ i \in DOMAIN result.wins <=> longest >= 3
               /\ longest >= 3 => /\ result.wins[i].count = longest
                                  /\ {result.wins[i].symbol} = IF shown = {} THEN {"CROWN"} ELSE shown

\* A wild in the place of any cell never makes a line's run shorter, whatever
\* symbol the line then pays as.
WildsNeverShorten ==
    Played(Video) =>
        \A i \in 1..call.lines : \A reel \in 1..5 :
            LET cells == Cells(grid, Lines[i])
            IN Run([cells EXCEPT ![reel] = "WILD"]).count >= Run(cells).count

\* The strips never show two scatters on one reel, so the scatters that show are
\* the reels that show one, the tables of 3 to 5 cover every count, and free
\* spins are granted when three reels show one and only then.
ScattersAreReels ==
    Played(Video) =>
        LET reels == Cardinality({reel \in 0..4 : "SCATTER" \in Range(grid[reel])})
        IN /\ result.scatters = reels
           /\ result.freeSpins = IF reels < 3 THEN 0 ELSE ScatterFreeSpins[reels - 2]

\* The symbol of a cell is the one in whose share of the weights its random value
\* falls: no share is widened by the loop that takes the weights off.
CellsFollowWeights ==
    Played(Classic) =>
        \A col \in 0..2, row \in 0..2 : \E i \in 1..6 :
            LET below(k) == SumFunction([j \in 1..k |-> ClassicWeights[j]]) * Resolution
                v == draws[3 * col + row + 1] * 100
            IN ClassicSymbols[i] = grid[col][row] /\ below(i - 1) <= v /\ v < below(i)

\* No round returns more than its best line on every line: the shares of the
\* classic slot's lines are never more than the stake, and the video slot's wins
\* are backed by the line bets and the total bet (slot.game.spec.ts).
PayoutHasItsCeiling ==
    /\ Played(Classic) => result.payout <= call.stake * 201
    /\ Played(Video) => result.payout <= call.lineBet * call.lines * (600 + 60)

\* A round wins what its grid and its stake allow, and in the tables' terms: the
\* results are well typed, lines and scatters are those that show, a wild takes
\* nothing, and the sum has its ceiling.
WinsAreOnTheGrid == ResultOK /\ RunsAreLongest /\ WildsNeverShorten /\ ScattersAreReels /\ PayoutHasItsCeiling

\* What the page tells of a classic round is so by the rules and the tables it
\* shows, "three on a line, multiplier times line bet" (Paytable.tsx), though lines,
\* wins and payout come from the backend's copy: for every stake its button takes,
\* the lines that light up are those on which the player sees three of a symbol or
\* wilds, each of them paid the multiplier the panel lists, and the return published
\* beside them, by a closed form, is the one the rounds have, outcome by outcome.
PageTellsTheRound ==
    Played(Classic) /\ call.stake >= MinBet =>
        LET cells(i) == Range(Cells(grid, PanelLines[i]))
            three(i) == {s \in DOMAIN PanelPays : s \in cells(i) /\ cells(i) \subseteq {s, "WILD"}}
            lineBet == call.stake \div Len(PanelLines)
        IN /\ LitLines = {i \in 1..Len(PanelLines) : three(i) # {}}
           /\ \A i \in LitLines : \A s \in three(i) : result.wins[i].win = lineBet * PanelPays[s]
           /\ PanelReturn = ExactReturn
=============================================================================
