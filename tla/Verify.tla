------------------------------- MODULE Verify -------------------------------
(***************************************************************************)
(* The provably-fair panel (apps/frontend, components/verify/Verify.tsx,   *)
(* lib/fair-verify.ts) and what it asks of the seeds' contract.  The panel *)
(* shows the hash of the active seed and, on a click, has the active seed  *)
(* revealed and recomputes the last round from it.  A seed's hash is its   *)
(* index; an outcome is the pair of seed and nonce it derives from.  The   *)
(* player's other tabs, and requests of any other client, are Other.       *)
(***************************************************************************)
EXTENDS Sequences, Integers

CONSTANTS Round,        \* the rounds of the page
          Me,           \* its player
          MaxSeeds,     \* bound: seeds that are made
          MaxOthers     \* bound: operations of others on the player's seeds

VARIABLES seeds, told,
          drawn,        \* the seed and the nonce of each round
          forged,       \* rounds answered with an outcome that is not their draw's
          lastRound,    \* the round the panel shows
          query,        \* the commitment's query: Idle, Sent, or the seed it was answered
          commitment,   \* the seed whose hash is shown
          check,        \* where handleVerify is
          of,           \* the round it closed over
          got,          \* the seed it was answered
          report,       \* what it has set
          others,
          unseen        \* something the page was not told of has happened to its seeds

Undrawn == [seed |-> 0, nonce |-> 0]
NoReport == [of |-> 0, hash |-> FALSE, outcome |-> FALSE]

Idle == -1
Sent == 0

panel == <<commitment, check, of, got, report>>

Handed == {<<drawn[n].seed, drawn[n].nonce>> : n \in {m \in Round : drawn[m] # Undrawn}}

Service == INSTANCE Commitments WITH Player <- {Me}, handed <- Handed

TypeOK ==
    /\ drawn \in [Round -> [seed : 0 .. Len(seeds), nonce : Nat]]
    /\ forged \subseteq Round
    /\ query \in {Idle, Sent} \cup DOMAIN seeds /\ commitment \in 0 .. Len(seeds)
    /\ check \in {"idle", "posted", "revealed"} /\ of \in Round \cup {0}
    /\ got \in 0 .. Len(seeds)
    /\ report \in [of : Round \cup {0}, hash : BOOLEAN, outcome : BOOLEAN]
    /\ others \in 0 .. MaxOthers /\ unseen \in BOOLEAN

\* The panel is mounted by a player who is signed in.
Init ==
    /\ seeds = <<>> /\ told = {}
    /\ drawn = [n \in Round |-> Undrawn] /\ forged = {}
    /\ query = Sent /\ commitment = 0
    /\ check = "idle" /\ of = 0 /\ got = 0 /\ report = NoReport
    /\ others = 0 /\ unseen = FALSE

---------------------------------------------------------------------------
(* The service, on behalf of the page.                                     *)

\* A round or a query that finds no active seed makes one.
Ensure ==
    /\ Len(seeds) < MaxSeeds
    /\ UNCHANGED <<drawn, forged, query, panel, others, unseen>>
    /\ Service!Commit(Me)

DrawRound(n) ==
    /\ drawn[n] = Undrawn
    /\ \E s \in Service!Active(Me) : drawn' = [drawn EXCEPT ![n] = [seed |-> s, nonce |-> seeds[s].nonce]]
    /\ Service!Draw(Me)
    /\ forged' \in {forged, forged \cup {n}}
    /\ UNCHANGED <<query, panel, others, unseen>>

Other ==
    /\ others < MaxOthers /\ others' = others + 1
    /\ UNCHANGED <<drawn, forged, query, panel>>
    /\ \/ Service!Retire(Me) /\ unseen' = TRUE
       \/ Len(seeds) < MaxSeeds /\ Service!Commit(Me) /\ UNCHANGED unseen

---------------------------------------------------------------------------
(* The commitment's query.                                                 *)

QueryServed ==
    /\ query = Sent
    /\ query' \in Service!Active(Me)
    /\ UNCHANGED <<seeds, told, drawn, forged, panel, others, unseen>>

QueryArrives ==
    /\ query \in DOMAIN seeds
    /\ commitment' = query /\ query' = Idle
    /\ UNCHANGED <<seeds, told, drawn, forged, check, of, got, report, others, unseen>>

\* Both tries have failed; what was shown stays.
QueryFails ==
    /\ query # Idle
    /\ query' = Idle /\ unseen' = TRUE
    /\ UNCHANGED <<seeds, told, drawn, forged, panel, others>>

---------------------------------------------------------------------------
(* handleVerify.                                                           *)

Derive(seed, nonce) == <<seed, nonce>>

Claimed(n) == IF n \in forged THEN <<0, 0>> ELSE Derive(drawn[n].seed, drawn[n].nonce)

\* Mutant: the hash is all that is compared.
VerifyHash(seed, n) ==
    [of |-> n, hash |-> seed = drawn[n].seed, outcome |-> seed = drawn[n].seed]

\* Mutant: the nonce is the one the reveal answered, the next to be drawn.
VerifyNextNonce(seed, n) ==
    [of |-> n,
     hash |-> seed = drawn[n].seed,
     outcome |-> Derive(seed, seeds[seed].nonce) = Claimed(n)]

VerifyDraw(seed, n) ==
    [of |-> n,
     hash |-> seed = drawn[n].seed,
     outcome |-> Derive(seed, drawn[n].nonce) = Claimed(n)]

Click ==
    /\ lastRound # 0 /\ check = "idle"
    /\ check' = "posted" /\ of' = lastRound /\ report' = NoReport
    /\ UNCHANGED <<seeds, told, drawn, forged, query, commitment, got, others, unseen>>

\* The service reveals whatever seed is active when the request arrives.
RevealServed ==
    /\ check = "posted"
    /\ got' \in Service!Active(Me)
    /\ check' = "revealed" /\ told' = told \cup {got'}
    /\ UNCHANGED <<drawn, forged, query, commitment, of, report, others, unseen>>
    /\ Service!Retire(Me)

\* Mutant: the round is read when the answer is there.
ReportOnLatest ==
    /\ check = "revealed"
    /\ report' = VerifyDraw(got, lastRound) /\ check' = "idle"
    /\ query' = Sent
    /\ UNCHANGED <<seeds, told, drawn, forged, commitment, of, got, others, unseen>>

\* Mutant: the commitment is not fetched again.
ReportUnrefetched ==
    /\ check = "revealed"
    /\ report' = VerifyDraw(got, of) /\ check' = "idle"
    /\ UNCHANGED <<seeds, told, drawn, forged, query, commitment, of, got, others, unseen>>

\* refetch drops a query that is under way and sends another, except that it
\* joins the first one of all, which may have been served before the reveal.
Refetch ==
    LET joins == commitment = 0 /\ query # Idle
    IN  /\ query' = IF joins THEN query ELSE Sent
        /\ unseen' = (unseen \/ (joins /\ query # Sent))

\* The report is computed and set.
Report ==
    /\ check = "revealed"
    /\ report' = VerifyDraw(got, of) /\ check' = "idle"
    /\ Refetch
    /\ UNCHANGED <<seeds, told, drawn, forged, commitment, of, got, others>>

\* No seed is active, the request fails, or its answer is lost: a toast says so,
\* and nothing is fetched again.
RevealFails ==
    /\ check # "idle"
    /\ check' = "idle" /\ unseen' = (unseen \/ check = "revealed")
    /\ UNCHANGED <<seeds, told, drawn, forged, query, commitment, of, got, report, others>>

---------------------------------------------------------------------------
(* Properties.                                                             *)

IsValid == report.hash /\ report.outcome

\* "Provably fair" is said of a round only if its outcome is its draw's and its seed
\* is told and out of use.  A round that was not tampered with is said to have failed
\* only if its seed had been retired before - by a rotation, another tab, an earlier
\* check or one whose answer was lost - so that a later one was revealed.
ReportIsTrue ==
    report.of # 0 =>
        LET s == drawn[report.of].seed
        IN  /\ IsValid => report.of \notin forged /\ s \in told /\ s \notin Service!Active(Me)
            /\ ~IsValid /\ report.of \notin forged => s < got

\* The hash shown to the player is the active seed's, the one the next round will be
\* drawn from: after a check the new one is fetched before the panel is at rest,
\* unless a request for it failed, was served before the reveal, or others have
\* changed the seeds.
ShownHashIsInUse ==
    commitment # 0 /\ query = Idle /\ check = "idle" /\ ~unseen =>
        commitment \in Service!Active(Me)
=============================================================================
