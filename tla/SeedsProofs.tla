---------------------------- MODULE SeedsProofs ----------------------------
(***************************************************************************)
(* What holds of the provably-fair seeds for every set of players and      *)
(* requests: no outcome is drawn twice, every draw is counted, and the SQL *)
(* statements implement the service's contract.                            *)
(***************************************************************************)
EXTENDS Seeds, SequenceTheorems, FiniteSetTheorems, TLAPS

\* What the statement a request has reached says of the request.
OnItsWay ==
    \A r \in Request :
        /\ pc[r] = "findActive" => kind[r] \in {"commitment", "draw"}
        /\ pc[r] = "createActive" => kind[r] # "reveal"
        /\ pc[r] = "drawNonce" => kind[r] = "draw"
        /\ pc[r] = "revealActive" => kind[r] \in {"rotate", "reveal"}
        /\ pc[r] # "end" => answer[r] = NoAnswer

\* A row that was handed out has counted it, and a row that was told is final.
AnswersStand ==
    /\ \A r \in Answered("draw") : answer[r].nonce < seeds[answer[r].seed].nonce
    /\ \A r \in Answered("reveal") :
          /\ seeds[answer[r].seed].status = "revealed"
          /\ answer[r].nonce = seeds[answer[r].seed].nonce

\* Only finitely many requests have ended, so that their draws can be counted.
Ended == {r \in Request : pc[r] = "end"}

NoncesAreCounted ==
    \A s \in DOMAIN seeds :
        seeds[s].nonce <= Cardinality(Drawn(s)) + Cardinality(Lost(seeds[s].player))

IInv ==
    /\ WellFormed
    /\ OnItsWay
    /\ AnswersStand
    /\ NoOutcomeTwice
    /\ IsFiniteSet(Ended)
    /\ NoncesAreCounted

---------------------------------------------------------------------------
(* The statements.                                                         *)

\* An INSERT adds one active row to a player who has none, or changes nothing.
LEMMA InsertedRows ==
    ASSUME seeds \in Seq(Row), NEW p \in Player
    PROVE  /\ Inserted(p) \in Seq(Row)
           /\ Active(p) # {} => Inserted(p) = seeds
           /\ Active(p) = {} =>
                 /\ Inserted(p) # seeds
                 /\ Len(Inserted(p)) = Len(seeds) + 1
                 /\ \A s \in 1 .. Len(seeds) : Inserted(p)[s] = seeds[s]
                 /\ Inserted(p)[Len(seeds) + 1] =
                       [player |-> p, nonce |-> 0, status |-> "active"]
<1> DEFINE row == [player |-> p, nonce |-> 0, status |-> "active"]
<1>1. row \in Row
  BY DEF Row
<1>2. /\ Append(seeds, row) \in Seq(Row)
      /\ Len(Append(seeds, row)) = Len(seeds) + 1
      /\ \A s \in 1 .. Len(seeds) : Append(seeds, row)[s] = seeds[s]
      /\ Append(seeds, row)[Len(seeds) + 1] = row
  BY <1>1, AppendProperties
<1>3. Len(seeds) \in Nat
  BY LenProperties
<1>4. Append(seeds, row) # seeds
  BY <1>2, <1>3
<1>5. QED
  BY <1>2, <1>4 DEF Inserted

\* A map over the rows that keeps each a row keeps the table a table.
LEMMA UpdatedRows ==
    ASSUME seeds \in Seq(Row), NEW f \in [DOMAIN seeds -> Row]
    PROVE  f \in Seq(Row) /\ Len(f) = Len(seeds)
<1>1. Len(seeds) \in Nat /\ DOMAIN seeds = 1 .. Len(seeds)
  BY LenProperties
<1>2. QED
  BY <1>1

\* The UPDATE of a draw counts one nonce on the active rows.
LEMMA IncrementedRows ==
    ASSUME seeds \in Seq(Row), NEW p \in Player
    PROVE  /\ Incremented(p) \in Seq(Row)
           /\ DOMAIN Incremented(p) = DOMAIN seeds
           /\ Len(Incremented(p)) = Len(seeds)
           /\ \A s \in DOMAIN seeds :
                 Incremented(p)[s] =
                     IF s \in Active(p) THEN [seeds[s] EXCEPT !.nonce = @ + 1] ELSE seeds[s]
<1>1. \A s \in DOMAIN seeds : seeds[s] \in Row
  BY ElementOfSeq, LenProperties
<1>2. \A s \in DOMAIN seeds : [seeds[s] EXCEPT !.nonce = @ + 1] \in Row
  <2>1. ASSUME NEW row \in Row
        PROVE  [row EXCEPT !.nonce = @ + 1] \in Row
    <3>1. row.nonce + 1 \in Nat
      BY DEF Row
    <3>2. QED
      BY <3>1 DEF Row
  <2>2. QED
    BY <1>1, <2>1
<1>3. Incremented(p) \in [DOMAIN seeds -> Row]
  BY <1>1, <1>2 DEF Incremented
<1>4. QED
  BY <1>3, UpdatedRows DEF Incremented

\* The UPDATE of a reveal or a rotation retires the active rows.
LEMMA RetiredRows ==
    ASSUME seeds \in Seq(Row), NEW p \in Player
    PROVE  /\ Retired(p) \in Seq(Row)
           /\ DOMAIN Retired(p) = DOMAIN seeds
           /\ Len(Retired(p)) = Len(seeds)
           /\ \A s \in DOMAIN seeds :
                 Retired(p)[s] =
                     IF s \in Active(p) THEN [seeds[s] EXCEPT !.status = "revealed"] ELSE seeds[s]
<1>1. \A s \in DOMAIN seeds : seeds[s] \in Row
  BY ElementOfSeq, LenProperties
<1>2. \A s \in DOMAIN seeds : [seeds[s] EXCEPT !.status = "revealed"] \in Row
  BY <1>1 DEF Row
<1>3. Retired(p) \in [DOMAIN seeds -> Row]
  BY <1>1, <1>2 DEF Retired
<1>4. QED
  BY <1>3, UpdatedRows DEF Retired

\* Both UPDATEs leave every row alone but the player's active ones.
LEMMA UpdatesTouchActive ==
    ASSUME seeds \in Seq(Row), NEW p \in Player, NEW rows,
           rows = Incremented(p) \/ rows = Retired(p)
    PROVE  /\ rows \in Seq(Row)
           /\ DOMAIN rows = DOMAIN seeds
           /\ Len(rows) = Len(seeds)
           /\ \A s \in 1 .. Len(seeds) :
                 \/ rows[s] = seeds[s]
                 \/ /\ s \in Active(p)
                    /\ \/ rows[s] = [seeds[s] EXCEPT !.nonce = @ + 1]
                       \/ rows[s] = [seeds[s] EXCEPT !.status = "revealed"]
<1>1. DOMAIN seeds = 1 .. Len(seeds)
  BY LenProperties
<1>2. CASE rows = Incremented(p)
  BY <1>1, <1>2, IncrementedRows
<1>3. CASE rows = Retired(p)
  BY <1>1, <1>3, RetiredRows
<1>4. QED
  BY <1>2, <1>3

---------------------------------------------------------------------------
(* What a step does to the table.                                          *)

\* Each step executes at most one of the statements.
LEMMA StepIsStatement ==
    ASSUME [Next]_vars
    PROVE  \/ UNCHANGED seeds
           \/ \E r \in Request : \/ seeds' = Inserted(OwnerOf[r])
                                 \/ seeds' = Incremented(OwnerOf[r])
                                 \/ seeds' = Retired(OwnerOf[r])
<1>1. CASE UNCHANGED vars
  BY <1>1 DEF vars
<1>2. ASSUME NEW r \in Request,
             \/ Receive(r) \/ FindActive(r) \/ CreateActive(r)
             \/ DrawNonce(r) \/ RevealActive(r) \/ StatementFails(r)
      PROVE  \/ UNCHANGED seeds
             \/ seeds' = Inserted(OwnerOf[r])
             \/ seeds' = Incremented(OwnerOf[r])
             \/ seeds' = Retired(OwnerOf[r])
  BY <1>2 DEF Receive, FindActive, CreateActive, DrawNonce, RevealActive, StatementFails
<1>3. QED
  BY <1>1, <1>2 DEF Next

\* Rows stay, keep their player, count upwards and, once revealed, do not change.
LEMMA RowsEvolve ==
    ASSUME TypeOK, [Next]_vars
    PROVE  /\ seeds' \in Seq(Row)
           /\ Len(seeds) \in Nat /\ Len(seeds') \in Nat /\ Len(seeds) <= Len(seeds')
           /\ \A s \in 1 .. Len(seeds) :
                 /\ seeds[s] \in Row /\ seeds'[s] \in Row
                 /\ seeds'[s].player = seeds[s].player
                 /\ seeds[s].nonce <= seeds'[s].nonce
                 /\ seeds[s].status = "revealed" => seeds'[s] = seeds[s]
<1>1. /\ seeds \in Seq(Row)
      /\ Len(seeds) \in Nat
      /\ DOMAIN seeds = 1 .. Len(seeds)
      /\ \A s \in 1 .. Len(seeds) : seeds[s] \in Row
  BY LenProperties, ElementOfSeq DEF TypeOK
<1>3. ASSUME NEW p \in Player, seeds' = Inserted(p)
      PROVE  /\ seeds' \in Seq(Row)
             /\ Len(seeds') \in Nat /\ Len(seeds) <= Len(seeds')
             /\ \A s \in 1 .. Len(seeds) : seeds'[s] = seeds[s]
  <2>1. CASE Active(p) = {}
    <3>1. /\ seeds' \in Seq(Row)
          /\ Len(seeds') = Len(seeds) + 1
          /\ \A s \in 1 .. Len(seeds) : seeds'[s] = seeds[s]
      BY <1>1, <1>3, <2>1, InsertedRows
    <3>2. QED
      BY <1>1, <3>1
  <2>2. CASE Active(p) # {}
    <3>1. seeds' = seeds
      BY <1>1, <1>3, <2>2, InsertedRows
    <3>2. QED
      BY <1>1, <3>1
  <2>3. QED
    BY <2>1, <2>2
<1>4. ASSUME NEW p \in Player, seeds' = Incremented(p) \/ seeds' = Retired(p)
      PROVE  /\ seeds' \in Seq(Row)
             /\ Len(seeds') = Len(seeds)
             /\ \A s \in 1 .. Len(seeds) :
                   /\ seeds'[s].player = seeds[s].player
                   /\ seeds[s].nonce <= seeds'[s].nonce
                   /\ seeds[s].status = "revealed" => seeds'[s] = seeds[s]
  <2>1. /\ seeds' \in Seq(Row)
        /\ Len(seeds') = Len(seeds)
        /\ \A s \in 1 .. Len(seeds) :
              \/ seeds'[s] = seeds[s]
              \/ /\ s \in Active(p)
                 /\ \/ seeds'[s] = [seeds[s] EXCEPT !.nonce = @ + 1]
                    \/ seeds'[s] = [seeds[s] EXCEPT !.status = "revealed"]
    BY <1>1, <1>4, UpdatesTouchActive
  <2>2. \A s \in Active(p) : seeds[s].status # "revealed"
    BY DEF Active
  <2>3. ASSUME NEW s \in 1 .. Len(seeds)
        PROVE  /\ seeds'[s].player = seeds[s].player
               /\ seeds[s].nonce <= seeds'[s].nonce
               /\ seeds[s].status = "revealed" => seeds'[s] = seeds[s]
    <3>1. seeds[s] \in Row
      BY <1>1
    <3>2. CASE seeds'[s] = seeds[s]
      BY <3>1, <3>2 DEF Row
    <3>3. CASE s \in Active(p) /\ seeds'[s] = [seeds[s] EXCEPT !.nonce = @ + 1]
      BY <2>2, <3>1, <3>3 DEF Row
    <3>4. CASE s \in Active(p) /\ seeds'[s] = [seeds[s] EXCEPT !.status = "revealed"]
      BY <2>2, <3>1, <3>4 DEF Row
    <3>5. QED
      BY <2>1, <3>2, <3>3, <3>4
  <2>4. QED
    BY <2>1, <2>3
<1>5. /\ seeds' \in Seq(Row)
      /\ Len(seeds') \in Nat /\ Len(seeds) <= Len(seeds')
      /\ \A s \in 1 .. Len(seeds) :
            /\ seeds'[s].player = seeds[s].player
            /\ seeds[s].nonce <= seeds'[s].nonce
            /\ seeds[s].status = "revealed" => seeds'[s] = seeds[s]
  <2>1. CASE UNCHANGED seeds
    BY <1>1, <2>1 DEF Row
  <2>2. ASSUME NEW r \in Request, seeds' = Inserted(OwnerOf[r])
        PROVE  <1>5
    <3>1. OwnerOf[r] \in Player
      BY OwnersArePlayers
    <3>2. /\ seeds' \in Seq(Row)
          /\ Len(seeds') \in Nat /\ Len(seeds) <= Len(seeds')
          /\ \A s \in 1 .. Len(seeds) : seeds'[s] = seeds[s]
      BY <1>3, <2>2, <3>1
    <3>3. \A s \in 1 .. Len(seeds) : seeds[s].nonce <= seeds[s].nonce
      BY <1>1 DEF Row
    <3>4. QED
      BY <3>2, <3>3
  <2>3. ASSUME NEW r \in Request,
               seeds' = Incremented(OwnerOf[r]) \/ seeds' = Retired(OwnerOf[r])
        PROVE  <1>5
    <3>1. OwnerOf[r] \in Player
      BY OwnersArePlayers
    <3>2. QED
      BY <1>1, <1>4, <2>3, <3>1
  <2>4. QED
    BY <2>1, <2>2, <2>3, StepIsStatement
<1>6. \A s \in 1 .. Len(seeds') : seeds'[s] \in Row
  BY <1>5, ElementOfSeq
<1>7. QED
  BY <1>1, <1>5, <1>6

\* A step leaves at most one active row to each player.
LEMMA OneActiveStep ==
    ASSUME TypeOK, OneActivePerPlayer, [Next]_vars
    PROVE  OneActivePerPlayer'
<1>1. /\ seeds \in Seq(Row)
      /\ Len(seeds) \in Nat
      /\ DOMAIN seeds = 1 .. Len(seeds)
  BY LenProperties DEF TypeOK
<1>2. CASE UNCHANGED seeds
  BY <1>2 DEF OneActivePerPlayer, Active
<1>3. ASSUME NEW p \in Player, seeds' = Inserted(p)
      PROVE  OneActivePerPlayer'
  <2>1. CASE Active(p) # {}
    <3>1. seeds' = seeds
      BY <1>1, <1>3, <2>1, InsertedRows
    <3>2. QED
      BY <1>2, <3>1
  <2>2. CASE Active(p) = {}
    <3>0. /\ seeds' \in Seq(Row)
          /\ Len(seeds') = Len(seeds) + 1
          /\ \A s \in 1 .. Len(seeds) : seeds'[s] = seeds[s]
          /\ seeds'[Len(seeds) + 1] = [player |-> p, nonce |-> 0, status |-> "active"]
      BY <1>1, <1>3, <2>2, InsertedRows
    <3>1. /\ DOMAIN seeds' = 1 .. Len(seeds) + 1
          /\ \A s \in 1 .. Len(seeds) : seeds'[s] = seeds[s]
          /\ seeds'[Len(seeds) + 1].player = p
      BY <3>0, LenProperties
    <3>2. \A s \in 1 .. Len(seeds) : seeds[s].player = p => seeds[s].status # "active"
      BY <1>1, <2>2 DEF Active
    <3>3. QED
      BY <1>1, <3>1, <3>2 DEF OneActivePerPlayer, Active
  <2>3. QED
    BY <2>1, <2>2
<1>4. ASSUME NEW p \in Player, seeds' = Incremented(p) \/ seeds' = Retired(p)
      PROVE  OneActivePerPlayer'
  <2>1. \A s \in DOMAIN seeds : seeds[s] \in Row
    BY <1>1, ElementOfSeq
  <2>2. /\ DOMAIN seeds' = DOMAIN seeds
        /\ \A s \in DOMAIN seeds :
              /\ seeds'[s].player = seeds[s].player
              /\ seeds'[s].status = "active" => seeds[s].status = "active"
    <3>1. /\ DOMAIN seeds' = DOMAIN seeds
          /\ \A s \in 1 .. Len(seeds) :
              \/ seeds'[s] = seeds[s]
              \/ /\ s \in Active(p)
                 /\ \/ seeds'[s] = [seeds[s] EXCEPT !.nonce = @ + 1]
                    \/ seeds'[s] = [seeds[s] EXCEPT !.status = "revealed"]
      BY <1>1, <1>4, UpdatesTouchActive
    <3>2. QED
      BY <1>1, <2>1, <3>1 DEF Row
  <2>3. \A q \in Player : Active(q)' \subseteq Active(q)
    BY <2>2 DEF Active
  <2>4. QED
    BY <2>3 DEF OneActivePerPlayer
<1>5. QED
  BY <1>2, <1>3, <1>4, StepIsStatement, OwnersArePlayers

---------------------------------------------------------------------------
(* What a step answers.                                                    *)

\* Every step is one request's, and leaves the other requests where they are.
LEMMA OneRequestSteps ==
    ASSUME TypeOK, OnItsWay, NEW r \in Request,
           \/ Receive(r) \/ FindActive(r) \/ CreateActive(r)
           \/ DrawNonce(r) \/ RevealActive(r) \/ StatementFails(r)
    PROVE  /\ kind' = kind
           /\ pc[r] # "end" /\ answer[r] = NoAnswer
           /\ \E point \in Point : pc' = [pc EXCEPT ![r] = point]
           /\ \/ UNCHANGED answer
              \/ pc'[r] = "end" /\ \E a : answer' = [answer EXCEPT ![r] = a]
           /\ pc'[r] = "findActive" => kind[r] \in {"commitment", "draw"}
           /\ pc'[r] = "createActive" => kind[r] # "reveal"
           /\ pc'[r] = "drawNonce" => kind[r] = "draw"
           /\ pc'[r] = "revealActive" => kind[r] \in {"rotate", "reveal"}
<1>1. pc \in [Request -> Point] /\ kind[r] \in Kind
  BY DEF TypeOK
<1>2. CASE Receive(r)
  BY <1>1, <1>2 DEF Receive, Goto, Point, Kind, OnItsWay
<1>3. CASE FindActive(r)
  BY <1>1, <1>3 DEF FindActive, Goto, Answer, Point, OnItsWay
<1>4. CASE CreateActive(r)
  BY <1>1, <1>4 DEF CreateActive, Refuse, Goto, Answer, Point, OnItsWay
<1>5. CASE DrawNonce(r)
  BY <1>1, <1>5 DEF DrawNonce, Refuse, Goto, Answer, Point, OnItsWay
<1>6. CASE RevealActive(r)
  BY <1>1, <1>6 DEF RevealActive, Refuse, Goto, Answer, Point, OnItsWay
<1>7. CASE StatementFails(r)
  BY <1>1, <1>7 DEF StatementFails, Refuse, Goto, Point, OnItsWay
<1>8. QED
  BY <1>2, <1>3, <1>4, <1>5, <1>6, <1>7

\* A step that answers a draw counts its nonce; one that answers a reveal has retired
\* the row.
AnswersRow(r, s, n) ==
    /\ s \in 1 .. Len(seeds')
    /\ n \in Nat
    /\ answer' = [answer EXCEPT ![r] = [seed |-> s, nonce |-> n]]
    /\ kind[r] = "draw" =>
          s \in 1 .. Len(seeds) /\ n = seeds[s].nonce /\ seeds'[s].nonce = n + 1
    /\ kind[r] = "reveal" =>
          s \in 1 .. Len(seeds) /\ seeds'[s].status = "revealed" /\ seeds'[s].nonce = n

\* A statement of a request answers with a row and a nonce that are there, or
\* not at all.
LEMMA StepAnswers ==
    ASSUME TypeOK, OnItsWay, NEW r \in Request,
           \/ Receive(r) \/ FindActive(r) \/ CreateActive(r)
           \/ DrawNonce(r) \/ RevealActive(r) \/ StatementFails(r)
    PROVE  \/ UNCHANGED answer
           \/ \E s, n : AnswersRow(r, s, n)
<1>1. /\ seeds \in Seq(Row)
      /\ Len(seeds) \in Nat
      /\ DOMAIN seeds = 1 .. Len(seeds)
      /\ \A s \in 1 .. Len(seeds) : seeds[s] \in Row
      /\ OwnerOf[r] \in Player
  BY LenProperties, ElementOfSeq, OwnersArePlayers DEF TypeOK
<1>2. CASE Receive(r)
  BY <1>2 DEF Receive, Goto
<1>3. CASE FindActive(r)
  <2>1. CASE UNCHANGED answer
    BY <2>1
  <2>2. ASSUME NEW s \in Active(OwnerOf[r]), Answer(r, s, seeds[s].nonce), kind[r] # "draw"
        PROVE  AnswersRow(r, s, seeds[s].nonce)
    <3>1. s \in 1 .. Len(seeds) /\ seeds[s].nonce \in Nat /\ UNCHANGED seeds
      BY <1>1, <1>3 DEF Active, Row, FindActive
    <3>2. kind[r] # "reveal"
      BY <1>3 DEF FindActive, OnItsWay
    <3>3. QED
      BY <2>2, <3>1, <3>2 DEF AnswersRow, Answer
  <2>3. QED
    BY <1>3, <2>1, <2>2 DEF FindActive, Goto
<1>4. CASE CreateActive(r)
  <2>1. CASE UNCHANGED answer
    BY <2>1
  <2>2. CASE seeds' # seeds /\ kind[r] # "draw" /\ Answer(r, Len(seeds'), 0)
    <3>1. Active(OwnerOf[r]) = {}
      BY <1>1, <1>4, <2>2, InsertedRows DEF CreateActive
    <3>2. Len(seeds') = Len(seeds) + 1
      BY <1>1, <1>4, <3>1, InsertedRows DEF CreateActive
    <3>3. kind[r] # "reveal"
      BY <1>4 DEF CreateActive, OnItsWay
    <3>4. AnswersRow(r, Len(seeds'), 0)
      BY <1>1, <2>2, <3>2, <3>3 DEF AnswersRow, Answer
    <3>5. QED
      BY <3>4
  <2>3. QED
    BY <1>4, <2>1, <2>2 DEF CreateActive, Refuse, Goto
<1>5. CASE DrawNonce(r)
  <2>1. CASE UNCHANGED answer
    BY <2>1
  <2>2. ASSUME NEW s \in Active(OwnerOf[r]), Answer(r, s, seeds[s].nonce)
        PROVE  AnswersRow(r, s, seeds[s].nonce)
    <3>1. s \in 1 .. Len(seeds) /\ seeds[s].nonce \in Nat
      BY <1>1 DEF Active, Row
    <3>2. seeds' = Incremented(OwnerOf[r]) /\ kind[r] = "draw"
      BY <1>5 DEF DrawNonce, OnItsWay
    <3>3. Len(seeds') = Len(seeds) /\ seeds'[s] = [seeds[s] EXCEPT !.nonce = @ + 1]
      BY <1>1, <3>1, <3>2, IncrementedRows
    <3>4. seeds'[s].nonce = seeds[s].nonce + 1
      BY <1>1, <3>1, <3>3 DEF Row
    <3>5. QED
      BY <2>2, <3>1, <3>2, <3>3, <3>4 DEF AnswersRow, Answer
  <2>3. QED
    BY <1>5, <2>1, <2>2 DEF DrawNonce, Refuse, Goto
<1>6. CASE RevealActive(r)
  <2>1. CASE UNCHANGED answer
    BY <2>1
  <2>2. ASSUME NEW s \in Active(OwnerOf[r]), Answer(r, s, seeds[s].nonce)
        PROVE  AnswersRow(r, s, seeds[s].nonce)
    <3>1. s \in 1 .. Len(seeds) /\ seeds[s].nonce \in Nat
      BY <1>1 DEF Active, Row
    <3>2. seeds' = Retired(OwnerOf[r]) /\ kind[r] # "draw"
      BY <1>6 DEF RevealActive, OnItsWay
    <3>3. Len(seeds') = Len(seeds) /\ seeds'[s] = [seeds[s] EXCEPT !.status = "revealed"]
      BY <1>1, <3>1, <3>2, RetiredRows
    <3>4. seeds'[s].nonce = seeds[s].nonce /\ seeds'[s].status = "revealed"
      BY <1>1, <3>1, <3>3 DEF Row
    <3>5. QED
      BY <2>2, <3>1, <3>2, <3>3, <3>4 DEF AnswersRow, Answer
  <2>3. QED
    BY <1>6, <2>1, <2>2 DEF RevealActive, Refuse, Goto
<1>7. CASE StatementFails(r)
  BY <1>7 DEF StatementFails, Refuse, Goto
<1>8. QED
  BY <1>2, <1>3, <1>4, <1>5, <1>6, <1>7

---------------------------------------------------------------------------
(* Every step keeps the invariant.                                         *)

\* The type invariant is kept.
LEMMA TypeStep ==
    ASSUME TypeOK, OnItsWay, [Next]_vars
    PROVE  TypeOK'
<1>1. CASE UNCHANGED vars
  BY <1>1 DEF vars, TypeOK
<1>2. ASSUME NEW r \in Request,
             \/ Receive(r) \/ FindActive(r) \/ CreateActive(r)
             \/ DrawNonce(r) \/ RevealActive(r) \/ StatementFails(r)
      PROVE  TypeOK'
  <2>1. /\ seeds' \in Seq(Row)
        /\ Len(seeds) \in Nat /\ Len(seeds') \in Nat /\ Len(seeds) <= Len(seeds')
    BY RowsEvolve
  <2>2. pc' \in [Request -> Point] /\ kind' \in [Request -> Kind]
    BY <1>2, OneRequestSteps DEF TypeOK
  <2>3. answer' \in [Request -> [seed : 0 .. Len(seeds'), nonce : Nat]]
    <3>1. 0 .. Len(seeds) \subseteq 0 .. Len(seeds')
      BY <2>1
    <3>2. answer \in [Request -> [seed : 0 .. Len(seeds'), nonce : Nat]]
      BY <3>1 DEF TypeOK
    <3>3. CASE UNCHANGED answer
      BY <3>2, <3>3
    <3>4. ASSUME NEW s, NEW n, AnswersRow(r, s, n)
          PROVE  answer' \in [Request -> [seed : 0 .. Len(seeds'), nonce : Nat]]
      <4>1. [seed |-> s, nonce |-> n] \in [seed : 0 .. Len(seeds'), nonce : Nat]
        BY <2>1, <3>4 DEF AnswersRow
      <4>2. QED
        BY <3>2, <3>4, <4>1 DEF AnswersRow
    <3>5. QED
      BY <1>2, <3>3, <3>4, StepAnswers
  <2>4. QED
    BY <2>1, <2>2, <2>3 DEF TypeOK
<1>3. QED
  BY <1>1, <1>2 DEF Next

\* Every request stays where its control flow can be.
LEMMA OnItsWayStep ==
    ASSUME TypeOK, OnItsWay, [Next]_vars
    PROVE  OnItsWay'
<1>1. CASE UNCHANGED vars
  BY <1>1 DEF vars, OnItsWay
<1>2. ASSUME NEW r \in Request,
             \/ Receive(r) \/ FindActive(r) \/ CreateActive(r)
             \/ DrawNonce(r) \/ RevealActive(r) \/ StatementFails(r)
      PROVE  OnItsWay'
  <2>1. /\ kind' = kind
        /\ \E point \in Point : pc' = [pc EXCEPT ![r] = point]
        /\ \/ UNCHANGED answer
           \/ pc'[r] = "end" /\ \E a : answer' = [answer EXCEPT ![r] = a]
        /\ answer[r] = NoAnswer
        /\ pc'[r] = "findActive" => kind[r] \in {"commitment", "draw"}
        /\ pc'[r] = "createActive" => kind[r] # "reveal"
        /\ pc'[r] = "drawNonce" => kind[r] = "draw"
        /\ pc'[r] = "revealActive" => kind[r] \in {"rotate", "reveal"}
    BY <1>2, OneRequestSteps
  <2>2. /\ \A q \in Request \ {r} : pc'[q] = pc[q] /\ answer'[q] = answer[q]
        /\ pc'[r] # "end" => answer'[r] = NoAnswer
    BY <2>1 DEF TypeOK
  <2>3. QED
    BY <2>1, <2>2 DEF OnItsWay
<1>3. QED
  BY <1>1, <1>2 DEF Next

\* What was answered stays so, and at most one request is answered in a step.
LEMMA AnswersStandStep ==
    ASSUME TypeOK, OnItsWay, AnswersStand, [Next]_vars
    PROVE  AnswersStand'
<1>1. /\ Len(seeds) \in Nat /\ Len(seeds') \in Nat /\ Len(seeds) <= Len(seeds')
      /\ \A s \in 1 .. Len(seeds) :
            /\ seeds[s] \in Row /\ seeds'[s] \in Row
            /\ seeds[s].nonce <= seeds'[s].nonce
            /\ seeds[s].status = "revealed" => seeds'[s] = seeds[s]
  BY RowsEvolve
<1>2. \A q \in Request : answer[q].seed # 0 =>
          answer[q].seed \in 1 .. Len(seeds) /\ answer[q].nonce \in Nat
  BY <1>1 DEF TypeOK
<1>3. ASSUME NEW q \in Request, answer'[q] = answer[q], kind'[q] = kind[q], answer[q].seed # 0
      PROVE  /\ kind[q] = "draw" => answer'[q].nonce < seeds'[answer'[q].seed].nonce
             /\ kind[q] = "reveal" =>
                   /\ seeds'[answer'[q].seed].status = "revealed"
                   /\ answer'[q].nonce = seeds'[answer'[q].seed].nonce
  <2>1. CASE kind[q] = "draw"
    <3>1. answer[q].nonce < seeds[answer[q].seed].nonce
      BY <1>3, <2>1 DEF AnswersStand, Answered
    <3>2. QED
      BY <1>1, <1>2, <1>3, <2>1, <3>1 DEF Row
  <2>2. CASE kind[q] = "reveal"
    <3>1. /\ seeds[answer[q].seed].status = "revealed"
          /\ answer[q].nonce = seeds[answer[q].seed].nonce
      BY <1>3, <2>2 DEF AnswersStand, Answered
    <3>2. QED
      BY <1>1, <1>2, <1>3, <2>2, <3>1
  <2>3. QED
    BY <2>1, <2>2
<1>4. CASE UNCHANGED vars
  BY <1>4 DEF vars, AnswersStand, Answered
<1>5. ASSUME NEW r \in Request,
             \/ Receive(r) \/ FindActive(r) \/ CreateActive(r)
             \/ DrawNonce(r) \/ RevealActive(r) \/ StatementFails(r)
      PROVE  AnswersStand'
  <2>1. kind' = kind
    BY <1>5, OneRequestSteps
  <2>2. CASE UNCHANGED answer
    BY <1>3, <2>1, <2>2 DEF AnswersStand, Answered
  <2>3. ASSUME NEW s, NEW n, AnswersRow(r, s, n)
        PROVE  AnswersStand'
    <3>1. /\ answer'[r] = [seed |-> s, nonce |-> n]
          /\ \A q \in Request \ {r} : answer'[q] = answer[q]
      BY <2>3 DEF AnswersRow, TypeOK
    <3>2. /\ kind[r] = "draw" => answer'[r].nonce < seeds'[answer'[r].seed].nonce
          /\ kind[r] = "reveal" =>
                /\ seeds'[answer'[r].seed].status = "revealed"
                /\ answer'[r].nonce = seeds'[answer'[r].seed].nonce
      BY <1>1, <2>3, <3>1 DEF AnswersRow, Row
    <3>3. QED
      BY <1>3, <2>1, <3>1, <3>2 DEF AnswersStand, Answered
  <2>4. QED
    BY <1>5, <2>2, <2>3, StepAnswers
<1>6. QED
  BY <1>4, <1>5 DEF Next

\* No pair of seed and nonce is answered twice, since a draw moves the nonce
\* on.
LEMMA NoOutcomeTwiceStep ==
    ASSUME TypeOK, OnItsWay, AnswersStand, NoOutcomeTwice, [Next]_vars
    PROVE  NoOutcomeTwice'
<1>1. CASE UNCHANGED vars
  BY <1>1 DEF vars, NoOutcomeTwice, Answered
<1>2. ASSUME NEW r \in Request,
             \/ Receive(r) \/ FindActive(r) \/ CreateActive(r)
             \/ DrawNonce(r) \/ RevealActive(r) \/ StatementFails(r)
      PROVE  NoOutcomeTwice'
  <2>1. kind' = kind /\ answer[r] = NoAnswer
    BY <1>2, OneRequestSteps
  <2>2. CASE UNCHANGED answer
    BY <2>1, <2>2 DEF NoOutcomeTwice, Answered
  <2>3. ASSUME NEW s, NEW n, AnswersRow(r, s, n)
        PROVE  NoOutcomeTwice'
    <3>1. /\ answer'[r] = [seed |-> s, nonce |-> n]
          /\ \A q \in Request \ {r} : answer'[q] = answer[q]
      BY <2>3 DEF AnswersRow, TypeOK
    <3>2. ASSUME NEW q \in Request \ {r}, q \in Answered("draw"), kind[r] = "draw"
          PROVE  answer[q] # answer'[r]
      <4>1. answer[q].nonce < seeds[answer[q].seed].nonce
        BY <3>2 DEF AnswersStand
      <4>2. n = seeds[s].nonce /\ n \in Nat
        BY <2>3, <3>2 DEF AnswersRow
      <4>3. QED
        BY <3>1, <4>1, <4>2
    <3>3. QED
      BY <2>1, <3>1, <3>2 DEF NoOutcomeTwice, Answered
  <2>4. QED
    BY <1>2, <2>2, <2>3, StepAnswers
<1>3. QED
  BY <1>1, <1>2 DEF Next

\* A step ends at most one request.
LEMMA EndedStep ==
    ASSUME TypeOK, OnItsWay, IsFiniteSet(Ended), [Next]_vars
    PROVE  IsFiniteSet(Ended')
<1>1. CASE UNCHANGED vars
  BY <1>1 DEF vars, Ended
<1>2. ASSUME NEW r \in Request,
             \/ Receive(r) \/ FindActive(r) \/ CreateActive(r)
             \/ DrawNonce(r) \/ RevealActive(r) \/ StatementFails(r)
      PROVE  IsFiniteSet(Ended')
  <2>1. \E point \in Point : pc' = [pc EXCEPT ![r] = point]
    BY <1>2, OneRequestSteps
  <2>2. Ended' \subseteq Ended \cup {r}
    BY <2>1 DEF Ended, TypeOK
  <2>3. IsFiniteSet(Ended \cup {r})
    BY FS_AddElement
  <2>4. QED
    BY <2>2, <2>3, FS_Subset
<1>3. QED
  BY <1>1, <1>2 DEF Next

---------------------------------------------------------------------------
(* Counting the draws.                                                     *)

\* A draw that was answered, or has ended without an answer, remains one.
LEMMA DrawsAccumulate ==
    ASSUME TypeOK, OnItsWay, [Next]_vars
    PROVE  /\ \A s : Drawn(s) \subseteq Drawn(s)' /\ (s # 0 => Drawn(s)' \subseteq Ended')
           /\ \A p : Lost(p) \subseteq Lost(p)' /\ Lost(p)' \subseteq Ended'
<1>1. OnItsWay'
  BY OnItsWayStep
<1>2. \A s : s # 0 => Drawn(s)' \subseteq Ended'
  BY <1>1 DEF Drawn, Answered, Ended, OnItsWay, NoAnswer
<1>3. \A p : Lost(p)' \subseteq Ended'
  BY DEF Lost, Ended
<1>4. CASE UNCHANGED vars
  BY <1>2, <1>3, <1>4 DEF vars, Drawn, Lost, Answered
<1>5. ASSUME NEW r \in Request,
             \/ Receive(r) \/ FindActive(r) \/ CreateActive(r)
             \/ DrawNonce(r) \/ RevealActive(r) \/ StatementFails(r)
      PROVE  /\ \A s : Drawn(s) \subseteq Drawn(s)'
             /\ \A p : Lost(p) \subseteq Lost(p)'
  <2>1. /\ kind' = kind
        /\ pc[r] # "end" /\ answer[r] = NoAnswer
        /\ \E point \in Point : pc' = [pc EXCEPT ![r] = point]
        /\ \/ UNCHANGED answer
           \/ \E a : answer' = [answer EXCEPT ![r] = a]
    BY <1>5, OneRequestSteps
  <2>2. \A q \in Request \ {r} : pc'[q] = pc[q] /\ answer'[q] = answer[q]
    BY <2>1 DEF TypeOK
  <2>3. answer[r].seed = 0
    BY <2>1 DEF NoAnswer
  <2>4. QED
    BY <2>1, <2>2, <2>3 DEF Drawn, Lost, Answered
<1>6. QED
  BY <1>2, <1>3, <1>4, <1>5 DEF Next

\* The statement of a draw counts a nonce exactly when it adds a draw.
LEMMA DrawIsCounted ==
    ASSUME WellFormed, OnItsWay, NEW r \in Request, NEW s \in 1 .. Len(seeds),
           NEW p, p = seeds[s].player,
           DrawNonce(r) \/ (StatementFails(r) /\ pc[r] = "drawNonce")
    PROVE  \/ seeds'[s].nonce = seeds[s].nonce
           \/ /\ seeds'[s].nonce = seeds[s].nonce + 1
              /\ r \in Drawn(s)' \ Drawn(s) \/ r \in Lost(p)' \ Lost(p)
<1>1. /\ seeds \in Seq(Row)
      /\ DOMAIN seeds = 1 .. Len(seeds)
      /\ Len(seeds) \in Nat
      /\ seeds[s] \in Row
      /\ OwnerOf[r] \in Player
  BY LenProperties, ElementOfSeq, OwnersArePlayers DEF WellFormed, TypeOK
<1>2. kind' = kind /\ pc[r] = "drawNonce" /\ kind[r] = "draw" /\ answer[r] = NoAnswer
  BY OneRequestSteps DEF DrawNonce, OnItsWay, WellFormed
<1>3. r \notin Drawn(s) /\ r \notin Lost(p)
  BY <1>1, <1>2 DEF Drawn, Answered, Lost, NoAnswer
<1>4. seeds' = Incremented(OwnerOf[r]) \/ UNCHANGED seeds
  BY <1>2 DEF DrawNonce, StatementFails
<1>5. CASE seeds'[s] = seeds[s]
  BY <1>5
<1>6. CASE seeds'[s] # seeds[s]
  <2>1. seeds' = Incremented(OwnerOf[r])
    BY <1>4, <1>6
  <2>2. s \in Active(OwnerOf[r]) /\ seeds'[s] = [seeds[s] EXCEPT !.nonce = @ + 1]
    BY <1>1, <1>6, <2>1, IncrementedRows
  <2>3. seeds'[s].nonce = seeds[s].nonce + 1 /\ seeds[s].player = OwnerOf[r]
    BY <1>1, <2>2 DEF Row, Active
  <2>4. CASE DrawNonce(r)
    <3>1. PICK t \in Active(OwnerOf[r]) : Answer(r, t, seeds[t].nonce)
      BY <2>2, <2>4 DEF DrawNonce
    <3>2. t = s
      BY <1>1, <2>2, <3>1 DEF WellFormed, OneActivePerPlayer
    <3>3. answer'[r] = [seed |-> s, nonce |-> seeds[s].nonce]
      BY <3>1, <3>2 DEF Answer, WellFormed, TypeOK
    <3>4. r \in Drawn(s)'
      BY <1>1, <1>2, <3>3 DEF Drawn, Answered
    <3>5. QED
      BY <1>3, <2>3, <3>4
  <2>5. CASE StatementFails(r)
    <3>1. pc'[r] = "end" /\ answer'[r] = NoAnswer
      BY <1>2, <2>5 DEF StatementFails, Refuse, Goto, WellFormed, TypeOK
    <3>2. r \in Lost(p)'
      BY <1>2, <2>3, <3>1 DEF Lost
    <3>3. QED
      BY <1>3, <2>3, <3>2
  <2>6. QED
    BY <2>4, <2>5
<1>7. QED
  BY <1>5, <1>6

\* No other statement counts a nonce.
LEMMA OnlyDrawsCount ==
    ASSUME TypeOK, NEW r \in Request, NEW s \in 1 .. Len(seeds),
           \/ Receive(r) \/ FindActive(r) \/ CreateActive(r) \/ RevealActive(r)
           \/ StatementFails(r) /\ pc[r] # "drawNonce"
    PROVE  seeds'[s].nonce = seeds[s].nonce
<1>1. /\ seeds \in Seq(Row)
      /\ DOMAIN seeds = 1 .. Len(seeds)
      /\ seeds[s] \in Row
      /\ OwnerOf[r] \in Player
  BY LenProperties, ElementOfSeq, OwnersArePlayers DEF TypeOK
<1>2. \/ UNCHANGED seeds
      \/ seeds' = Inserted(OwnerOf[r])
      \/ seeds' = Retired(OwnerOf[r])
  BY DEF Receive, FindActive, CreateActive, RevealActive, StatementFails
<1>3. CASE seeds' = Inserted(OwnerOf[r])
  <2>1. CASE Active(OwnerOf[r]) = {}
    BY <1>1, <1>3, <2>1, InsertedRows
  <2>2. CASE Active(OwnerOf[r]) # {}
    <3>1. seeds' = seeds
      BY <1>1, <1>3, <2>2, InsertedRows
    <3>2. QED
      BY <3>1
  <2>3. QED
    BY <2>1, <2>2
<1>4. CASE seeds' = Retired(OwnerOf[r])
  <2>1. \/ seeds'[s] = seeds[s]
        \/ seeds'[s] = [seeds[s] EXCEPT !.status = "revealed"]
    BY <1>1, <1>4, RetiredRows
  <2>2. QED
    BY <1>1, <2>1 DEF Row
<1>5. QED
  BY <1>2, <1>3, <1>4

\* A row that a step adds starts at nonce 0.
LEMMA NewRowsStartAtZero ==
    ASSUME TypeOK, [Next]_vars
    PROVE  \A s \in DOMAIN seeds' \ DOMAIN seeds : seeds'[s].nonce = 0
<1>1. /\ seeds \in Seq(Row)
      /\ DOMAIN seeds = 1 .. Len(seeds)
      /\ Len(seeds) \in Nat
  BY LenProperties DEF TypeOK
<1>2. ASSUME NEW p \in Player, seeds' = Inserted(p)
      PROVE  \A s \in DOMAIN seeds' \ DOMAIN seeds : seeds'[s].nonce = 0
  <2>1. CASE Active(p) = {}
    <3>1. /\ seeds' \in Seq(Row)
          /\ Len(seeds') = Len(seeds) + 1
          /\ seeds'[Len(seeds) + 1] = [player |-> p, nonce |-> 0, status |-> "active"]
      BY <1>1, <1>2, <2>1, InsertedRows
    <3>2. DOMAIN seeds' = 1 .. Len(seeds) + 1
      BY <3>1, LenProperties
    <3>3. QED
      BY <1>1, <3>1, <3>2
  <2>2. CASE Active(p) # {}
    <3>1. seeds' = seeds
      BY <1>1, <1>2, <2>2, InsertedRows
    <3>2. QED
      BY <3>1
  <2>3. QED
    BY <2>1, <2>2
<1>3. ASSUME NEW p \in Player, seeds' = Incremented(p) \/ seeds' = Retired(p)
      PROVE  DOMAIN seeds' = DOMAIN seeds
  BY <1>1, <1>3, UpdatesTouchActive
<1>4. QED
  BY <1>2, <1>3, StepIsStatement, OwnersArePlayers

\* Each nonce below a seed's counter keeps the draw that accounts for it.
LEMMA NoncesAreCountedStep ==
    ASSUME IInv, [Next]_vars
    PROVE  NoncesAreCounted'
<1>1. /\ DOMAIN seeds = 1 .. Len(seeds) /\ DOMAIN seeds' = 1 .. Len(seeds')
      /\ \A s \in DOMAIN seeds :
            /\ s \in DOMAIN seeds'
            /\ seeds'[s].player = seeds[s].player
            /\ seeds[s].nonce \in Nat /\ seeds'[s].nonce \in Nat
  <2>1. TypeOK /\ seeds \in Seq(Row)
    BY DEF IInv, WellFormed, TypeOK
  <2>2. /\ seeds' \in Seq(Row)
        /\ Len(seeds) \in Nat /\ Len(seeds') \in Nat /\ Len(seeds) <= Len(seeds')
        /\ \A s \in 1 .. Len(seeds) :
              /\ seeds[s] \in Row /\ seeds'[s] \in Row
              /\ seeds'[s].player = seeds[s].player
    BY <2>1, RowsEvolve
  <2>3. DOMAIN seeds = 1 .. Len(seeds) /\ DOMAIN seeds' = 1 .. Len(seeds')
    BY <2>1, <2>2, LenProperties
  <2>4. QED
    BY <2>2, <2>3 DEF Row
<1>2. /\ \A s : Drawn(s) \subseteq Drawn(s)' /\ (s # 0 => Drawn(s)' \subseteq Ended')
      /\ \A p : Lost(p) \subseteq Lost(p)' /\ Lost(p)' \subseteq Ended'
  BY DrawsAccumulate DEF IInv, WellFormed
<1>3. IsFiniteSet(Ended')
  BY EndedStep DEF IInv, WellFormed
<1>4. SUFFICES ASSUME NEW s \in DOMAIN seeds', NEW p, p = seeds'[s].player
               PROVE  seeds'[s].nonce <= Cardinality(Drawn(s)') + Cardinality(Lost(p)')
  BY DEF NoncesAreCounted
<1> DEFINE D == Drawn(s)
           L == Lost(p)
           D1 == Drawn(s)'
           L1 == Lost(p)'
<1>5. /\ IsFiniteSet(D1) /\ IsFiniteSet(L1) /\ IsFiniteSet(D) /\ IsFiniteSet(L)
      /\ D \subseteq D1 /\ L \subseteq L1
  <2>1. s # 0
    BY <1>1, <1>4
  <2>2. D \subseteq D1 /\ D1 \subseteq Ended' /\ L \subseteq L1 /\ L1 \subseteq Ended'
    BY <1>2, <2>1
  <2>3. IsFiniteSet(D1) /\ IsFiniteSet(L1)
    BY <1>3, <2>2, FS_Subset
  <2>4. QED
    BY <2>2, <2>3, FS_Subset
<1>6. /\ Cardinality(D) \in Nat /\ Cardinality(L) \in Nat
      /\ Cardinality(D1) \in Nat /\ Cardinality(L1) \in Nat
      /\ Cardinality(D) <= Cardinality(D1) /\ Cardinality(L) <= Cardinality(L1)
  BY <1>5, FS_CardinalityType, FS_Subset
<1>7. CASE s \notin DOMAIN seeds
  <2>1. seeds'[s].nonce = 0
    BY <1>4, <1>7, NewRowsStartAtZero DEF IInv, WellFormed
  <2>2. QED
    BY <1>6, <2>1
<1>8. CASE s \in DOMAIN seeds
  <2>1. seeds[s].nonce <= Cardinality(D) + Cardinality(L)
    BY <1>1, <1>4, <1>8 DEF IInv, NoncesAreCounted
  <2>2. CASE seeds'[s].nonce = seeds[s].nonce
    BY <1>1, <1>6, <1>8, <2>1, <2>2
  <2>3. ASSUME NEW r, seeds'[s].nonce = seeds[s].nonce + 1, r \in D1 \ D \/ r \in L1 \ L
        PROVE  seeds'[s].nonce <= Cardinality(D1) + Cardinality(L1)
    <3>1. CASE r \in D1 \ D
      <4>1. D # D1
        BY <3>1
      <4>2. Cardinality(D) # Cardinality(D1)
        BY <1>5, <4>1, FS_Subset
      <4>3. QED
        BY <1>1, <1>6, <1>8, <2>1, <2>3, <4>2
    <3>2. CASE r \in L1 \ L
      <4>1. L # L1
        BY <3>2
      <4>2. Cardinality(L) # Cardinality(L1)
        BY <1>5, <4>1, FS_Subset
      <4>3. QED
        BY <1>1, <1>6, <1>8, <2>1, <2>3, <4>2
    <3>3. QED
      BY <2>3, <3>1, <3>2
  <2>4. CASE UNCHANGED vars
    BY <2>2, <2>4 DEF vars
  <2>5. ASSUME NEW r \in Request,
               DrawNonce(r) \/ (StatementFails(r) /\ pc[r] = "drawNonce")
        PROVE  seeds'[s].nonce <= Cardinality(D1) + Cardinality(L1)
    <3>1. \/ seeds'[s].nonce = seeds[s].nonce
          \/ /\ seeds'[s].nonce = seeds[s].nonce + 1
             /\ r \in Drawn(s)' \ Drawn(s) \/ r \in Lost(p)' \ Lost(p)
      BY <1>1, <1>4, <1>8, <2>5, DrawIsCounted DEF IInv
    <3>2. QED
      BY <1>1, <1>8, <2>2, <2>3, <3>1
  <2>6. ASSUME NEW r \in Request,
               \/ Receive(r) \/ FindActive(r) \/ CreateActive(r) \/ RevealActive(r)
               \/ StatementFails(r) /\ pc[r] # "drawNonce"
        PROVE  seeds'[s].nonce <= Cardinality(D1) + Cardinality(L1)
    BY <1>1, <1>8, <2>2, <2>6, OnlyDrawsCount DEF IInv, WellFormed
  <2>7. QED
    BY <2>4, <2>5, <2>6 DEF Next
<1>9. QED
  BY <1>7, <1>8

---------------------------------------------------------------------------
(* The invariant, and what follows from it.                                *)

\* The first state satisfies the invariant.
LEMMA InitIInv ==
    ASSUME Init
    PROVE  IInv
<1>1. TypeOK
  BY EmptySeq DEF Init, TypeOK, Point, NoAnswer
<1>2. OneActivePerPlayer /\ OnItsWay
  BY DEF Init, OneActivePerPlayer, Active, OnItsWay
<1>3. AnswersStand /\ NoOutcomeTwice
  BY DEF Init, AnswersStand, NoOutcomeTwice, Answered, NoAnswer
<1>4. Ended = {} /\ NoncesAreCounted
  BY DEF Init, Ended, NoncesAreCounted
<1>5. QED
  BY <1>1, <1>2, <1>3, <1>4, FS_EmptySet DEF IInv, WellFormed

\* Every step keeps it.
LEMMA StepIInv ==
    ASSUME IInv, [Next]_vars
    PROVE  IInv'
<1>1. /\ TypeOK /\ OneActivePerPlayer /\ OnItsWay /\ AnswersStand
      /\ NoOutcomeTwice /\ IsFiniteSet(Ended)
  BY DEF IInv, WellFormed
<1>2. TypeOK' /\ OneActivePerPlayer'
  BY <1>1, TypeStep, OneActiveStep
<1>3. OnItsWay' /\ AnswersStand' /\ NoOutcomeTwice'
  BY <1>1, OnItsWayStep, AnswersStandStep, NoOutcomeTwiceStep
<1>4. IsFiniteSet(Ended')
  BY <1>1, EndedStep
<1>5. NoncesAreCounted'
  BY NoncesAreCountedStep
<1>6. QED
  BY <1>2, <1>3, <1>4, <1>5 DEF IInv, WellFormed

\* IInv is an invariant of the service.
THEOREM Invariance == Spec => []IInv
<1>1. Init => IInv
  BY InitIInv
<1>2. IInv /\ [Next]_vars => IInv'
  BY StepIInv
<1>3. QED
  BY <1>1, <1>2, PTL DEF Spec

\* However many requests of a player interleave and fail between their statements,
\* the player has at most one active seed (ensureActive, rotate, and the partial
\* unique index of 0003_provably_fair_seeds.sql).
THEOREM OneActiveSeed == Spec => []WellFormed
<1>1. IInv => WellFormed
  BY DEF IInv
<1>2. QED
  BY <1>1, Invariance, PTL

\* No two draws are answered the same seed and nonce (drawNonce's increment and
\* read are one statement), for any number of concurrent spins.
THEOREM OutcomesDiffer == Spec => []NoOutcomeTwice
<1>1. IInv => NoOutcomeTwice
  BY DEF IInv
<1>2. QED
  BY <1>1, Invariance, PTL

\* Every nonce is some draw's, and what a reveal tells is the count of them all: no
\* draw slips between the reveal and the row it retires.
THEOREM DrawsAreCounted == Spec => []EveryDrawIsCounted
<1>1. IInv => EveryDrawIsCounted
  BY DEF IInv, AnswersStand, NoncesAreCounted,
         EveryDrawIsCounted, EveryNonceHasItsDraw, RevealCountsEveryDraw
<1>2. QED
  BY <1>1, Invariance, PTL

---------------------------------------------------------------------------
(* The refinement of Commitments.                                          *)

\* With one active row the UPDATEs are the contract's, and with none they do nothing.
LEMMA OneRowUpdates ==
    ASSUME WellFormed, NEW p \in Player
    PROVE  /\ Active(p) = {} => Incremented(p) = seeds /\ Retired(p) = seeds
           /\ \A s \in Active(p) :
                 /\ Incremented(p) = [seeds EXCEPT ![s].nonce = @ + 1]
                 /\ Retired(p) = [seeds EXCEPT ![s].status = "revealed"]
<1>1. seeds \in [1 .. Len(seeds) -> Row] /\ DOMAIN seeds = 1 .. Len(seeds)
  BY LenProperties DEF WellFormed, TypeOK
<1>2. \A s, t \in Active(p) : s = t
  BY DEF WellFormed, OneActivePerPlayer
<1>3. CASE Active(p) = {}
  BY <1>1, <1>3 DEF Incremented, Retired
<1>4. ASSUME NEW s \in Active(p)
      PROVE  /\ Incremented(p) = [seeds EXCEPT ![s].nonce = @ + 1]
             /\ Retired(p) = [seeds EXCEPT ![s].status = "revealed"]
  <2>1. Active(p) = {s}
    BY <1>2, <1>4
  <2>2. QED
    BY <1>1, <2>1 DEF Incremented, Retired
<1>5. QED
  BY <1>3, <1>4

\* What the callers hold changes only when a draw or a reveal is answered.
LEMMA HeldChanges ==
    ASSUME TypeOK, OnItsWay, NEW r \in Request,
           \/ Receive(r) \/ FindActive(r) \/ CreateActive(r)
           \/ DrawNonce(r) \/ RevealActive(r) \/ StatementFails(r)
    PROVE  /\ \/ UNCHANGED answer
              \/ kind[r] \notin {"draw", "reveal"}
              => UNCHANGED <<Handed, Told>>
           /\ \A s, n : AnswersRow(r, s, n) =>
                 /\ kind[r] = "draw" =>
                       Handed' = Handed \cup {<<s, n>>} /\ UNCHANGED Told
                 /\ kind[r] = "reveal" =>
                       Told' = Told \cup {s} /\ UNCHANGED Handed
<1>1. /\ kind' = kind /\ answer[r].seed = 0
      /\ \A q \in Request \ {r} : answer'[q] = answer[q]
  BY OneRequestSteps DEF TypeOK, NoAnswer
<1>2. \A k : kind[r] # k \/ answer' = answer => Answered(k)' = Answered(k)
  BY <1>1 DEF Answered
<1>3. \A k : r \notin Answered(k)
  BY <1>1 DEF Answered
<1>4. kind[r] # "draw" \/ answer' = answer => Handed' = Handed
  <2>1. \A q \in Answered("draw") : answer'[q] = answer[q]
    BY <1>1, <1>3 DEF Answered
  <2>2. QED
    BY <1>2, <2>1 DEF Handed
<1>5. kind[r] # "reveal" \/ answer' = answer => Told' = Told
  <2>1. \A q \in Answered("reveal") : answer'[q] = answer[q]
    BY <1>1, <1>3 DEF Answered
  <2>2. QED
    BY <1>2, <2>1 DEF Told
<1>6. ASSUME NEW s, NEW n, AnswersRow(r, s, n)
      PROVE  /\ kind[r] = "draw" => Handed' = Handed \cup {<<s, n>>}
             /\ kind[r] = "reveal" => Told' = Told \cup {s}
  <2>1. answer'[r] = [seed |-> s, nonce |-> n] /\ s # 0
    BY <1>6 DEF AnswersRow, TypeOK
  <2>2. \A k : kind[r] = k => Answered(k)' = Answered(k) \cup {r}
    BY <1>1, <2>1 DEF Answered
  <2>3. \A k : \A q \in Answered(k) : answer'[q] = answer[q]
    BY <1>1, <1>3 DEF Answered
  <2>4. ASSUME kind[r] = "draw"
        PROVE  Handed' = Handed \cup {<<s, n>>}
    <3>1. Handed' = {<<answer'[q].seed, answer'[q].nonce>> : q \in Answered("draw") \cup {r}}
      BY <2>2, <2>4 DEF Handed
    <3>2. <<answer'[r].seed, answer'[r].nonce>> = <<s, n>>
      BY <2>1
    <3>3. QED
      BY <2>3, <3>1, <3>2 DEF Handed
  <2>5. ASSUME kind[r] = "reveal"
        PROVE  Told' = Told \cup {s}
    <3>1. Told' = {answer'[q].seed : q \in Answered("reveal") \cup {r}}
      BY <2>2, <2>5 DEF Told
    <3>2. answer'[r].seed = s
      BY <2>1
    <3>3. QED
      BY <2>3, <3>1, <3>2 DEF Told
  <2>6. QED
    BY <2>4, <2>5
<1>7. QED
  BY <1>4, <1>5, <1>6

\* Each step of a request is a step of the contract, or none that its callers see.
LEMMA StepIsContracts ==
    ASSUME IInv, [Next]_vars
    PROVE  [Contract!Next]_(Contract!seedVars)
<1>1. WellFormed /\ TypeOK /\ OnItsWay
  BY DEF IInv, WellFormed
<1>2. CASE UNCHANGED vars
  BY <1>2 DEF vars, Contract!seedVars, Handed, Told, Answered
<1>3. ASSUME NEW r \in Request, Receive(r) \/ FindActive(r)
      PROVE  UNCHANGED Contract!seedVars
  <2>1. UNCHANGED seeds
    BY <1>3 DEF Receive, FindActive
  <2>2. UNCHANGED answer \/ kind[r] \notin {"draw", "reveal"}
    BY <1>1, <1>3 DEF Receive, FindActive, Goto, Answer, OnItsWay
  <2>3. QED
    BY <1>1, <1>3, <2>1, <2>2, HeldChanges DEF Contract!seedVars
<1>4. ASSUME NEW r \in Request,
             \/ CreateActive(r)
             \/ StatementFails(r) /\ seeds' = Inserted(OwnerOf[r])
      PROVE  Contract!Commit(OwnerOf[r]) \/ UNCHANGED Contract!seedVars
  <2>1. OwnerOf[r] \in Player
    BY OwnersArePlayers
  <2>2. seeds' = Inserted(OwnerOf[r])
    BY <1>4 DEF CreateActive
  <2>3. UNCHANGED answer \/ kind[r] \notin {"draw", "reveal"}
    BY <1>1, <1>4 DEF CreateActive, StatementFails, Refuse, Goto, Answer, OnItsWay
  <2>4. UNCHANGED <<Handed, Told>>
    BY <1>1, <1>4, <2>3, HeldChanges
  <2>5. CASE Active(OwnerOf[r]) = {}
    BY <2>2, <2>4, <2>5 DEF Inserted, Active, Contract!Commit, Contract!Active, Contract!Fresh
  <2>6. CASE Active(OwnerOf[r]) # {}
    BY <2>2, <2>4, <2>6 DEF Inserted, Contract!seedVars
  <2>7. QED
    BY <2>5, <2>6
<1>5. ASSUME NEW r \in Request,
             \/ DrawNonce(r)
             \/ StatementFails(r) /\ seeds' = Incremented(OwnerOf[r])
      PROVE  Contract!Draw(OwnerOf[r]) \/ UNCHANGED Contract!seedVars
  <2>1. OwnerOf[r] \in Player
    BY OwnersArePlayers
  <2>2. seeds' = Incremented(OwnerOf[r])
    BY <1>5 DEF DrawNonce
  <2>3. CASE Active(OwnerOf[r]) = {}
    <3>1. UNCHANGED answer
      BY <1>5, <2>3 DEF DrawNonce, StatementFails, Refuse, Goto
    <3>2. UNCHANGED seeds
      BY <1>1, <2>1, <2>2, <2>3, OneRowUpdates
    <3>3. QED
      BY <1>1, <1>5, <3>1, <3>2, HeldChanges DEF Contract!seedVars
  <2>4. ASSUME NEW s \in Active(OwnerOf[r])
        PROVE  Contract!Draw(OwnerOf[r])
    <3>1. s \in Contract!Active(OwnerOf[r])
      BY <2>4 DEF Active, Contract!Active
    <3>2. seeds' = [seeds EXCEPT ![s].nonce = @ + 1]
      BY <1>1, <2>1, <2>2, <2>4, OneRowUpdates
    <3>3. CASE UNCHANGED answer
      <4>1. UNCHANGED <<Handed, Told>>
        BY <1>1, <1>5, <3>3, HeldChanges
      <4>2. QED
        BY <3>1, <3>2, <4>1 DEF Contract!Draw
    <3>4. CASE ~ UNCHANGED answer
      <4>1. DrawNonce(r) /\ kind[r] = "draw"
        BY <1>1, <1>5, <3>4 DEF StatementFails, Refuse, Goto, DrawNonce, OnItsWay
      <4>2. PICK t, n : AnswersRow(r, t, n)
        BY <1>1, <1>5, <3>4, StepAnswers
      <4>3. t = s
        <5>1. PICK u \in Active(OwnerOf[r]) : Answer(r, u, seeds[u].nonce)
          BY <3>4, <4>1 DEF DrawNonce, Refuse, Goto
        <5>2. t = u
          BY <1>1, <4>2, <5>1 DEF Answer, AnswersRow, TypeOK
        <5>3. QED
          BY <1>1, <2>1, <2>4, <5>1, <5>2 DEF WellFormed, OneActivePerPlayer
      <4>4. n = seeds[s].nonce
        BY <4>1, <4>2, <4>3 DEF AnswersRow
      <4>5. Handed' = Handed \cup {<<s, seeds[s].nonce>>} /\ UNCHANGED Told
        BY <1>1, <1>5, <4>1, <4>2, <4>3, <4>4, HeldChanges
      <4>6. QED
        BY <3>1, <3>2, <4>5 DEF Contract!Draw
    <3>5. QED
      BY <3>3, <3>4
  <2>5. QED
    BY <2>3, <2>4
<1>6. ASSUME NEW r \in Request,
             \/ RevealActive(r)
             \/ StatementFails(r) /\ seeds' = Retired(OwnerOf[r])
      PROVE  Contract!Retire(OwnerOf[r]) \/ UNCHANGED Contract!seedVars
  <2>1. OwnerOf[r] \in Player
    BY OwnersArePlayers
  <2>2. seeds' = Retired(OwnerOf[r])
    BY <1>6 DEF RevealActive
  <2>3. CASE Active(OwnerOf[r]) = {}
    <3>1. UNCHANGED answer
      BY <1>6, <2>3 DEF RevealActive, StatementFails, Refuse, Goto
    <3>2. UNCHANGED seeds
      BY <1>1, <2>1, <2>2, <2>3, OneRowUpdates
    <3>3. QED
      BY <1>1, <1>6, <3>1, <3>2, HeldChanges DEF Contract!seedVars
  <2>4. ASSUME NEW s \in Active(OwnerOf[r])
        PROVE  Contract!Retire(OwnerOf[r])
    <3>1. s \in Contract!Active(OwnerOf[r])
      BY <2>4 DEF Active, Contract!Active
    <3>2. seeds' = [seeds EXCEPT ![s].status = "revealed"]
      BY <1>1, <2>1, <2>2, <2>4, OneRowUpdates
    <3>3. CASE UNCHANGED answer
      <4>1. UNCHANGED <<Handed, Told>>
        BY <1>1, <1>6, <3>3, HeldChanges
      <4>2. QED
        BY <3>1, <3>2, <4>1 DEF Contract!Retire
    <3>4. CASE ~ UNCHANGED answer
      <4>1. RevealActive(r) /\ kind[r] = "reveal"
        BY <1>1, <1>6, <3>4 DEF StatementFails, Refuse, Goto, RevealActive, OnItsWay
      <4>2. PICK t, n : AnswersRow(r, t, n)
        BY <1>1, <1>6, <3>4, StepAnswers
      <4>3. t = s
        <5>1. PICK u \in Active(OwnerOf[r]) : Answer(r, u, seeds[u].nonce)
          BY <3>4, <4>1 DEF RevealActive, Refuse, Goto
        <5>2. t = u
          BY <1>1, <4>2, <5>1 DEF Answer, AnswersRow, TypeOK
        <5>3. QED
          BY <1>1, <2>1, <2>4, <5>1, <5>2 DEF WellFormed, OneActivePerPlayer
      <4>4. Told' = Told \cup {s} /\ UNCHANGED Handed
        BY <1>1, <1>6, <4>1, <4>2, <4>3, HeldChanges
      <4>5. QED
        BY <3>1, <3>2, <4>4 DEF Contract!Retire
    <3>5. QED
      BY <3>3, <3>4
  <2>5. QED
    BY <2>3, <2>4
<1>7. ASSUME NEW r \in Request, StatementFails(r), UNCHANGED seeds
      PROVE  UNCHANGED Contract!seedVars
  <2>1. UNCHANGED answer
    BY <1>7 DEF StatementFails, Refuse, Goto
  <2>2. QED
    BY <1>1, <1>7, <2>1, HeldChanges DEF Contract!seedVars
<1>8. ASSUME NEW r \in Request,
             \/ Receive(r) \/ FindActive(r) \/ CreateActive(r)
             \/ DrawNonce(r) \/ RevealActive(r) \/ StatementFails(r)
      PROVE  [Contract!Next]_(Contract!seedVars)
  <2>1. OwnerOf[r] \in Player
    BY OwnersArePlayers
  <2>2. QED
    BY <1>3, <1>4, <1>5, <1>6, <1>7, <1>8, <2>1 DEF StatementFails, Contract!Next
<1>9. QED
  BY <1>2, <1>8 DEF Next

\* The statements of the requests implement the contract of
\* provably-fair.contract.ts: each behaviour of theirs, seen through the answers,
\* is one in which commitment, draw and reveal are single steps.
THEOREM ImplementsCommitments == Spec => CommitmentsSpec
<1>1. Init => Contract!Init
  BY DEF Init, Contract!Init, Handed, Told, Answered, NoAnswer
<1>2. IInv /\ [Next]_vars => [Contract!Next]_(Contract!seedVars)
  BY StepIsContracts
<1>3. QED
  BY <1>1, <1>2, Invariance, PTL DEF Spec, CommitmentsSpec, Contract!Spec
=============================================================================
