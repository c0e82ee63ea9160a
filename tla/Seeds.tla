------------------------------- MODULE Seeds -------------------------------
(***************************************************************************)
(* The provably-fair seeds (apps/backend, modules/provably-fair).  A       *)
(* request is a sequence of SQL statements on pf_seeds, each atomic; the   *)
(* requests of one player interleave between them.  A server seed is 32    *)
(* random bytes, so a row stands for its seed and for the seed's hash; the *)
(* row a request answers is named by its index.                            *)
(***************************************************************************)
EXTENDS Sequences, Integers, FiniteSets

CONSTANTS Player,
          Request,      \* the requests the players send, each once
          OwnerOf       \* the player of each request

Kind == {"commitment", "draw", "rotate", "reveal"}

ASSUME OwnersArePlayers == OwnerOf \in [Request -> Player]

VARIABLES seeds,    \* the rows of pf_seeds, in the order of their insertion
          pc,       \* the statement each request executes next
          kind,     \* what it asks for
          answer    \* the row and the nonce it was answered

vars == <<seeds, pc, kind, answer>>

Point == {"start", "findActive", "createActive", "drawNonce", "revealActive", "end"}
Row == [player : Player, nonce : Nat, status : {"active", "revealed"}]

NoAnswer == [seed |-> 0, nonce |-> 0]

TypeOK ==
    /\ seeds \in Seq(Row)
    /\ pc \in [Request -> Point]
    /\ kind \in [Request -> Kind]
    /\ answer \in [Request -> [seed : 0 .. Len(seeds), nonce : Nat]]

Init ==
    /\ seeds = <<>>
    /\ pc = [r \in Request |-> "start"]
    /\ kind \in [Request -> Kind]
    /\ answer = [r \in Request |-> NoAnswer]

---------------------------------------------------------------------------
(* The statements.                                                         *)

\* Mutant: the statements look for the player's last row, active or not.
ActiveAnyStatus(p) == {s \in DOMAIN seeds : seeds[s].player = p /\ s = Len(seeds)}

Active(p) == {s \in DOMAIN seeds : seeds[s].player = p /\ seeds[s].status = "active"}

\* Mutant: no unique index on the active rows.
InsertedUnchecked(p) == Append(seeds, [player |-> p, nonce |-> 0, status |-> "active"])

\* The partial unique index refuses a second active row.
Inserted(p) ==
    IF Active(p) = {}
    THEN Append(seeds, [player |-> p, nonce |-> 0, status |-> "active"])
    ELSE seeds

Incremented(p) ==
    [s \in DOMAIN seeds |->
        IF s \in Active(p) THEN [seeds[s] EXCEPT !.nonce = @ + 1] ELSE seeds[s]]

\* Mutant: a status the table's CHECK refuses.
RetiredUnknown(p) ==
    [s \in DOMAIN seeds |->
        IF s \in Active(p) THEN [seeds[s] EXCEPT !.status = "retired"] ELSE seeds[s]]

Retired(p) ==
    [s \in DOMAIN seeds |->
        IF s \in Active(p) THEN [seeds[s] EXCEPT !.status = "revealed"] ELSE seeds[s]]

---------------------------------------------------------------------------
(* The requests.                                                           *)

Goto(r, point) ==
    /\ pc' = [pc EXCEPT ![r] = point]
    /\ UNCHANGED <<kind, answer>>

Answer(r, s, n) ==
    /\ pc' = [pc EXCEPT ![r] = "end"]
    /\ answer' = [answer EXCEPT ![r] = [seed |-> s, nonce |-> n]]
    /\ UNCHANGED kind

\* An exception, or EntityNotFound: nothing is handed out.
Refuse(r) == Goto(r, "end")

Receive(r) ==
    /\ pc[r] = "start"
    /\ Goto(r, IF kind[r] \in {"rotate", "reveal"} THEN "revealActive" ELSE "findActive")
    /\ UNCHANGED seeds

\* ensureActive's SELECT.
FindActive(r) ==
    /\ pc[r] = "findActive"
    /\ IF Active(OwnerOf[r]) = {}
       THEN Goto(r, "createActive")
       ELSE IF kind[r] = "draw"
       THEN Goto(r, "drawNonce")
       ELSE \E s \in Active(OwnerOf[r]) : Answer(r, s, seeds[s].nonce)
    /\ UNCHANGED seeds

\* The INSERT of ensureActive and of rotate.
CreateActive(r) ==
    /\ pc[r] = "createActive"
    /\ seeds' = Inserted(OwnerOf[r])
    /\ IF seeds' = seeds
       THEN Refuse(r)
       ELSE IF kind[r] = "draw"
       THEN Goto(r, "drawNonce")
       ELSE Answer(r, Len(seeds'), 0)

\* Mutant: RETURNING nonce instead of nonce - 1.
DrawNonceAfter(r) ==
    /\ pc[r] = "drawNonce"
    /\ seeds' = Incremented(OwnerOf[r])
    /\ IF Active(OwnerOf[r]) = {}
       THEN Refuse(r)
       ELSE \E s \in Active(OwnerOf[r]) : Answer(r, s, seeds'[s].nonce)

\* Mutant: the increment is lost.
DrawNonceRead(r) ==
    /\ pc[r] = "drawNonce"
    /\ UNCHANGED seeds
    /\ IF Active(OwnerOf[r]) = {}
       THEN Refuse(r)
       ELSE \E s \in Active(OwnerOf[r]) : Answer(r, s, seeds[s].nonce)

DrawNonce(r) ==
    /\ pc[r] = "drawNonce"
    /\ seeds' = Incremented(OwnerOf[r])
    /\ IF Active(OwnerOf[r]) = {}
       THEN Refuse(r)
       ELSE \E s \in Active(OwnerOf[r]) : Answer(r, s, seeds[s].nonce)

\* Mutant: the seed is handed out and stays in use.
RevealActiveKept(r) ==
    /\ pc[r] = "revealActive"
    /\ UNCHANGED seeds
    /\ IF kind[r] = "rotate"
       THEN Goto(r, "createActive")
       ELSE IF Active(OwnerOf[r]) = {}
       THEN Refuse(r)
       ELSE \E s \in Active(OwnerOf[r]) : Answer(r, s, seeds[s].nonce)

\* The UPDATE of reveal and of rotate; rotate drops the row it returns.
RevealActive(r) ==
    /\ pc[r] = "revealActive"
    /\ seeds' = Retired(OwnerOf[r])
    /\ IF kind[r] = "rotate"
       THEN Goto(r, "createActive")
       ELSE IF Active(OwnerOf[r]) = {}
       THEN Refuse(r)
       ELSE \E s \in Active(OwnerOf[r]) : Answer(r, s, seeds[s].nonce)

\* A statement fails: it was never executed, or its answer is lost.
StatementFails(r) ==
    /\ \/ pc[r] \in Point \ {"start", "end"} /\ UNCHANGED seeds
       \/ pc[r] = "createActive" /\ seeds' = Inserted(OwnerOf[r])
       \/ pc[r] = "drawNonce" /\ seeds' = Incremented(OwnerOf[r])
       \/ pc[r] = "revealActive" /\ seeds' = Retired(OwnerOf[r])
    /\ Refuse(r)

Next ==
    \E r \in Request :
        \/ Receive(r)
        \/ FindActive(r) \/ CreateActive(r)
        \/ DrawNonce(r) \/ RevealActive(r)
        \/ StatementFails(r)

Spec == Init /\ [][Next]_vars

---------------------------------------------------------------------------
(* Properties.                                                             *)

Answered(k) == {r \in Request : kind[r] = k /\ answer[r].seed # 0}

\* The seeds a player has been told in the clear.
Told == {answer[r].seed : r \in Answered("reveal")}

\* However commitments, draws, rotations and reveals interleave, a player has at
\* most one active seed, and so a draw and a reveal never have a choice of rows.
OneActivePerPlayer == \A p \in Player : \A s, t \in Active(p) : s = t

\* The table is well typed and obeys its partial unique index.
WellFormed == TypeOK /\ OneActivePerPlayer

\* No two rounds are drawn from one seed at one nonce: their outcomes would be
\* the same (0003_provably_fair_seeds.sql: "the same seed pair yields distinct
\* outcomes").
NoOutcomeTwice ==
    \A q, r \in Answered("draw") : answer[q] = answer[r] => q = r

\* The draws answered from a row, and a player's draws that ended unanswered.
Drawn(s) == {r \in Answered("draw") : answer[r].seed = s}
Lost(p) ==
    {r \in Request : /\ kind[r] = "draw" /\ pc[r] = "end"
                     /\ answer[r] = NoAnswer /\ OwnerOf[r] = p}

\* Every nonce a player's rows have counted belongs to a draw of the player's: one
\* that was answered it, or one that has ended without an answer.  The nonces
\* answered lie below the row's own.
EveryNonceHasItsDraw ==
    /\ \A r \in Answered("draw") : answer[r].nonce < seeds[answer[r].seed].nonce
    /\ \A s \in DOMAIN seeds :
         seeds[s].nonce <= Cardinality(Drawn(s)) + Cardinality(Lost(seeds[s].player))

\* A revealed seed's nonce counts every draw ever made from it: what the reveal
\* answered is still the row's nonce, whatever was in flight at the time.
RevealCountsEveryDraw ==
    \A r \in Answered("reveal") : answer[r].nonce = seeds[answer[r].seed].nonce

\* The count of draws is exact while a seed is in use and after it is revealed,
\* so that the player can check every outcome and none is missing.
EveryDrawIsCounted == EveryNonceHasItsDraw /\ RevealCountsEveryDraw

---------------------------------------------------------------------------
(* The contract.                                                           *)

Handed == {<<answer[r].seed, answer[r].nonce>> : r \in Answered("draw")}

Contract == INSTANCE Commitments WITH handed <- Handed, told <- Told

\* The statements implement the service's contract, in which commitment, draw and
\* reveal are one step each: however they interleave and fail, every answer of a
\* draw is the next nonce of the one active seed, and a seed that is told to the
\* player is out of use for good, with no draw of it still to come.
CommitmentsSpec == Contract!Spec
=============================================================================
