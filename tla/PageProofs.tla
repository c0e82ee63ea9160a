----------------------------- MODULE PageProofs -----------------------------
(***************************************************************************)
(* What holds of the player's page for every number of rounds, reels,      *)
(* seeds and calls: what the slot shows is one round's, what the           *)
(* provably-fair panel says is true, and the cashier's panel, its buttons  *)
(* and the displayed balance agree with the ledger and the chain.          *)
(***************************************************************************)
EXTENDS PlayPage, Cashier, SequenceTheorems, TLAPS

---------------------------------------------------------------------------
(* The panel.                                                              *)

\* A row of the seeds.
SeedRow == [player : {Me}, nonce : Nat, status : {"active", "revealed"}]

\* Only the last seed may be active, and what was told is retired.
SeedsInv ==
    /\ seeds \in Seq(SeedRow)
    /\ \A s \in DOMAIN seeds : seeds[s].status = "active" => s = Len(seeds)
    /\ told \subseteq {s \in DOMAIN seeds : seeds[s].status = "revealed"}

\* A round that has its draw.
IsDrawn(n) == n \in Round /\ drawn[n] # Fair!Undrawn

\* A round that was answered has its draw, of a seed there is.
DrawsInv ==
    /\ \A n \in Round : IsDrawn(n) => drawn[n].seed \in 1 .. Len(seeds)
    /\ posted \subseteq Round
    /\ \A n \in revealing : IsDrawn(n)
    /\ lastRound # 0 => IsDrawn(lastRound)

\* The seed a check was answered is told, and not older than the round's.
Answers(n) == IsDrawn(n) /\ got \in told /\ drawn[n].seed <= got

\* What a check says is of a seed that was told.
CheckInv ==
    /\ check # "idle" => IsDrawn(of) /\ report = Fair!NoReport
    /\ check = "revealed" => Answers(of)
    /\ report.of # 0 => Answers(report.of) /\ report = Fair!VerifyDraw(got, report.of)

\* A hash on the screen, or on its way there, is the active seed's.
HashInv ==
    check # "revealed" /\ ~unseen =>
        /\ query \in DOMAIN seeds => query \in Fair!Service!Active(Me)
        /\ query = Fair!Idle /\ commitment # 0 => commitment \in Fair!Service!Active(Me)

\* The panel's part, all together.
PanelInv == Fair!TypeOK /\ SeedsInv /\ DrawsInv /\ CheckInv /\ HashInv

\* The seed in use: the last one, if it is active.
LEMMA ActiveIsLast ==
    ASSUME SeedsInv
    PROVE  /\ Len(seeds) \in Nat /\ DOMAIN seeds = 1 .. Len(seeds)
           /\ \A s \in Fair!Service!Active(Me) : s = Len(seeds) /\ s \in DOMAIN seeds /\ s \notin told
           /\ Fair!Service!Active(Me) = {s \in DOMAIN seeds : seeds[s].status = "active"}
<1>1. Len(seeds) \in Nat /\ DOMAIN seeds = 1 .. Len(seeds)
  BY DEF SeedsInv
<1>2. \A s \in DOMAIN seeds : seeds[s] \in SeedRow
  BY DEF SeedsInv
<1>3. QED
  BY <1>1, <1>2 DEF SeedsInv, Fair!Service!Active, SeedRow

\* A commitment is one new seed, the only active one.
LEMMA CommitAdds ==
    ASSUME SeedsInv, Fair!Service!Commit(Me)
    PROVE  /\ SeedsInv' /\ told' = told /\ Len(seeds)' = Len(seeds) + 1
           /\ Fair!Service!Active(Me) = {}
<1>1. /\ Fair!Service!Active(Me) = {} /\ told' = told
      /\ seeds' = Append(seeds, Fair!Service!Fresh(Me))
  BY DEF Fair!Service!Commit
<1>2. Fair!Service!Fresh(Me) \in SeedRow
  BY DEF Fair!Service!Fresh, SeedRow
<1>3. /\ seeds' \in Seq(SeedRow) /\ Len(seeds') = Len(seeds) + 1
      /\ \A s \in 1 .. Len(seeds) : seeds'[s] = seeds[s]
  BY <1>1, <1>2, AppendProperties DEF SeedsInv
<1>4. \A s \in DOMAIN seeds : seeds[s].status # "active"
  BY <1>1, ActiveIsLast
<1>5. SeedsInv'
  <2>1. DOMAIN seeds' = 1 .. Len(seeds) + 1 /\ Len(seeds) \in Nat /\ DOMAIN seeds = 1 .. Len(seeds)
    BY <1>3 DEF SeedsInv
  <2>2. \A s \in DOMAIN seeds' : seeds'[s].status = "active" => s = Len(seeds')
    BY <1>3, <1>4, <2>1
  <2>3. told' \subseteq {s \in DOMAIN seeds' : seeds'[s].status = "revealed"}
    BY <1>1, <1>3, <2>1 DEF SeedsInv
  <2>4. QED
    BY <1>3, <2>2, <2>3 DEF SeedsInv
<1>6. QED
  BY <1>1, <1>3, <1>5

\* A draw counts one nonce and changes nothing else.
LEMMA DrawCounts ==
    ASSUME SeedsInv, Fair!Service!Draw(Me)
    PROVE  /\ SeedsInv' /\ told' = told /\ Len(seeds)' = Len(seeds)
           /\ Fair!Service!Active(Me)' = Fair!Service!Active(Me)
<1>1. PICK s \in Fair!Service!Active(Me) :
            seeds' = [seeds EXCEPT ![s].nonce = @ + 1] /\ told' = told
  BY DEF Fair!Service!Draw
<1>2. s \in DOMAIN seeds /\ seeds[s] \in SeedRow
  BY <1>1, ActiveIsLast DEF SeedsInv
<1>3. [seeds[s] EXCEPT !.nonce = @ + 1] \in SeedRow
  BY <1>2 DEF SeedRow
<1>4. seeds' = [seeds EXCEPT ![s] = [seeds[s] EXCEPT !.nonce = @ + 1]]
  BY <1>1
<1>5. /\ seeds' \in Seq(SeedRow) /\ Len(seeds') = Len(seeds) /\ DOMAIN seeds' = DOMAIN seeds
      /\ \A t \in DOMAIN seeds : seeds'[t].status = seeds[t].status
  BY <1>2, <1>3, <1>4 DEF SeedsInv, SeedRow
<1>6. SeedsInv'
  BY <1>1, <1>5 DEF SeedsInv
<1>7. \A t \in DOMAIN seeds : seeds'[t].player = seeds[t].player
  BY <1>2, <1>4 DEF SeedsInv, SeedRow
<1>8. QED
  BY <1>1, <1>5, <1>6, <1>7 DEF Fair!Service!Active

\* A reveal or a rotation leaves no seed active.
LEMMA RetireEnds ==
    ASSUME SeedsInv, Fair!Service!Retire(Me)
    PROVE  /\ SeedsInv' /\ Len(seeds)' = Len(seeds)
           /\ told' \in {told, told \cup {Len(seeds)}}
           /\ Fair!Service!Active(Me) = {Len(seeds)}
<1>1. PICK s \in Fair!Service!Active(Me) :
            /\ seeds' = [seeds EXCEPT ![s].status = "revealed"]
            /\ told' \in {told, told \cup {s}}
  BY DEF Fair!Service!Retire
<1>2. s \in DOMAIN seeds /\ s = Len(seeds) /\ seeds[s] \in SeedRow
  BY <1>1, ActiveIsLast DEF SeedsInv
<1>3. [seeds[s] EXCEPT !.status = "revealed"] \in SeedRow
  BY <1>2 DEF SeedRow
<1>4. seeds' = [seeds EXCEPT ![s] = [seeds[s] EXCEPT !.status = "revealed"]]
  BY <1>1
<1>5. /\ seeds' \in Seq(SeedRow) /\ Len(seeds') = Len(seeds) /\ DOMAIN seeds' = DOMAIN seeds
      /\ seeds'[s].status = "revealed"
      /\ \A t \in DOMAIN seeds : t # s => seeds'[t] = seeds[t]
  BY <1>2, <1>3, <1>4 DEF SeedsInv, SeedRow
<1>6. SeedsInv'
  <2>1. \A t \in DOMAIN seeds : seeds'[t].status = "active" => t = Len(seeds)
    BY <1>2, <1>5 DEF SeedsInv
  <2>2. \A t \in told' : t \in DOMAIN seeds /\ seeds'[t].status = "revealed"
    BY <1>1, <1>2, <1>5 DEF SeedsInv
  <2>3. QED
    BY <1>5, <2>1, <2>2 DEF SeedsInv
<1>7. Fair!Service!Active(Me) = {Len(seeds)}
  BY <1>1, <1>2, ActiveIsLast
<1>8. QED
  BY <1>1, <1>2, <1>5, <1>6, <1>7

---------------------------------------------------------------------------
(* The panel's steps.                                                      *)

\* What is drawn stays drawn while seeds are only added or changed.
Extends ==
    /\ SeedsInv' /\ Len(seeds) <= Len(seeds)' /\ Len(seeds)' \in Nat
    /\ told \subseteq told'
    /\ drawn' = drawn /\ forged' = forged

\* A round keeps its draw, and what a check found of it.
LEMMA DrawsStay ==
    ASSUME Fair!TypeOK, SeedsInv, Extends
    PROVE  /\ drawn' \in [Round -> [seed : 0 .. Len(seeds'), nonce : Nat]]
           /\ \A n : IsDrawn(n)' <=> IsDrawn(n)
           /\ (\A n \in Round : IsDrawn(n) => drawn[n].seed \in 1 .. Len(seeds))
                => (\A n \in Round : IsDrawn(n)' => drawn'[n].seed \in 1 .. Len(seeds'))
           /\ got' = got => \A n : Answers(n) => Answers(n)'
           /\ \A g, n : Fair!VerifyDraw(g, n)' = Fair!VerifyDraw(g, n)
<1>1. Len(seeds) \in Nat
  BY DEF SeedsInv
<1>2. drawn' \in [Round -> [seed : 0 .. Len(seeds'), nonce : Nat]]
  BY <1>1 DEF Fair!TypeOK, Extends
<1>3. \A n : IsDrawn(n)' <=> IsDrawn(n)
  BY DEF IsDrawn, Extends
<1>4. ASSUME NEW n \in Round, drawn[n].seed \in 1 .. Len(seeds)
      PROVE  drawn'[n].seed \in 1 .. Len(seeds')
  BY <1>1, <1>4 DEF Extends
<1>5. got' = got => \A n : Answers(n) => Answers(n)'
  BY <1>3 DEF Answers, Extends
<1>6. \A g, n : Fair!VerifyDraw(g, n)' = Fair!VerifyDraw(g, n)
  BY DEF Fair!VerifyDraw, Fair!Derive, Fair!Claimed, Extends
<1>7. QED
  BY <1>2, <1>3, <1>4, <1>5, <1>6

\* The panel's part of the page's state, and what of the spin hook it sees.
SeenOfHook == <<posted, revealing, lastRound>>

\* A new commitment, of the page or of another client.
LEMMA CommitKeepsPanel ==
    ASSUME PanelInv, Fair!Service!Commit(Me), UNCHANGED SeenOfHook,
           UNCHANGED <<drawn, forged, query, commitment, check, of, got, report, unseen>>,
           others' \in 0 .. MaxOthers
    PROVE  PanelInv'
<1>1. /\ SeedsInv' /\ told' = told /\ Len(seeds)' = Len(seeds) + 1 /\ Len(seeds) \in Nat
      /\ Fair!Service!Active(Me) = {}
  BY CommitAdds DEF PanelInv, SeedsInv
<1>2. Extends
  BY <1>1 DEF Extends
<1>3. DOMAIN seeds = 1 .. Len(seeds) /\ DOMAIN seeds' = 1 .. Len(seeds) + 1
  BY <1>1 DEF PanelInv, SeedsInv
<1>4. Fair!TypeOK'
  <2>1. drawn' \in [Round -> [seed : 0 .. Len(seeds'), nonce : Nat]]
    BY <1>2, DrawsStay DEF PanelInv
  <2>2. query' \in {Fair!Idle, Fair!Sent} \cup DOMAIN seeds'
    BY <1>3 DEF PanelInv, Fair!TypeOK
  <2>3. commitment' \in 0 .. Len(seeds') /\ got' \in 0 .. Len(seeds')
    BY <1>1 DEF PanelInv, Fair!TypeOK
  <2>4. QED
    BY <2>1, <2>2, <2>3 DEF PanelInv, Fair!TypeOK
<1>5. DrawsInv'
  BY <1>2, DrawsStay DEF PanelInv, DrawsInv, SeenOfHook
<1>6. CheckInv'
  BY <1>2, DrawsStay DEF PanelInv, CheckInv
<1>7. HashInv'
  <2>1. SUFFICES ASSUME check # "revealed", ~unseen
                 PROVE  /\ query \notin DOMAIN seeds'
                        /\ ~(query = Fair!Idle /\ commitment # 0)
    BY DEF HashInv
  <2>2. query \notin DOMAIN seeds /\ ~(query = Fair!Idle /\ commitment # 0)
    BY <1>1, <2>1 DEF PanelInv, HashInv
  <2>3. query \in {Fair!Idle, Fair!Sent}
    BY <2>2 DEF PanelInv, Fair!TypeOK
  <2>4. QED
    BY <1>3, <2>2, <2>3 DEF Fair!Idle, Fair!Sent
<1>8. QED
  BY <1>1, <1>4, <1>5, <1>6, <1>7 DEF PanelInv

\* A round draws its seed's next nonce; no round that was drawn before is touched.
LEMMA DrawKeepsPanel ==
    ASSUME PanelInv, NEW n \in Round, Fair!DrawRound(n), UNCHANGED SeenOfHook
    PROVE  PanelInv'
<1>1. /\ SeedsInv' /\ told' = told /\ Len(seeds)' = Len(seeds) /\ Len(seeds) \in Nat
      /\ Fair!Service!Active(Me)' = Fair!Service!Active(Me)
      /\ DOMAIN seeds' = DOMAIN seeds /\ DOMAIN seeds = 1 .. Len(seeds)
  BY DrawCounts DEF PanelInv, SeedsInv, Fair!DrawRound
<1>2. PICK s \in Fair!Service!Active(Me) :
            drawn' = [drawn EXCEPT ![n] = [seed |-> s, nonce |-> seeds[s].nonce]]
  BY DEF Fair!DrawRound
<1>3. /\ ~IsDrawn(n) /\ forged' \in {forged, forged \cup {n}}
      /\ UNCHANGED <<query, commitment, check, of, got, report, others, unseen>>
  BY DEF Fair!DrawRound, IsDrawn, Fair!panel
<1>4. s \in 1 .. Len(seeds) /\ seeds[s].nonce \in Nat
  <2>1. s \in DOMAIN seeds
    BY ActiveIsLast DEF PanelInv
  <2>2. seeds[s] \in SeedRow
    BY <2>1 DEF PanelInv, SeedsInv
  <2>3. QED
    BY <1>1, <2>1, <2>2 DEF SeedRow
<1>5. /\ drawn' \in [Round -> [seed : 0 .. Len(seeds), nonce : Nat]]
      /\ drawn'[n].seed = s /\ \A m \in Round : m # n => drawn'[m] = drawn[m]
  BY <1>2, <1>4 DEF PanelInv, Fair!TypeOK
<1>6. ASSUME NEW m, IsDrawn(m)
      PROVE  /\ m # n /\ m \in Round /\ drawn'[m] = drawn[m] /\ IsDrawn(m)'
             /\ Answers(m) => Answers(m)'
             /\ \A g : Fair!VerifyDraw(g, m)' = Fair!VerifyDraw(g, m)
  <2>1. m # n /\ m \in Round /\ drawn'[m] = drawn[m]
    BY <1>3, <1>5, <1>6 DEF IsDrawn
  <2>2. m \in forged' <=> m \in forged
    BY <1>3, <2>1
  <2>3. QED
    BY <1>1, <1>3, <1>6, <2>1, <2>2
       DEF IsDrawn, Answers, Fair!Undrawn, Fair!VerifyDraw, Fair!Derive, Fair!Claimed
<1>7. Fair!TypeOK'
  BY <1>1, <1>3, <1>5 DEF PanelInv, Fair!TypeOK
<1>8. DrawsInv'
  <2>1. ASSUME NEW m \in Round, IsDrawn(m)'
        PROVE  drawn'[m].seed \in 1 .. Len(seeds')
    <3>1. CASE m = n
      BY <1>1, <1>4, <1>5, <3>1
    <3>2. CASE m # n
      BY <1>1, <1>5, <2>1, <3>2 DEF PanelInv, DrawsInv, IsDrawn, Fair!Undrawn
    <3>3. QED
      BY <3>1, <3>2
  <2>2. QED
    BY <1>6, <2>1 DEF PanelInv, DrawsInv, SeenOfHook
<1>9. CheckInv'
  BY <1>3, <1>6 DEF PanelInv, CheckInv, Answers
<1>10. HashInv'
  BY <1>1, <1>3 DEF PanelInv, HashInv
<1>11. QED
  BY <1>1, <1>7, <1>8, <1>9, <1>10 DEF PanelInv

\* The seed in use is retired, by a check or by another client; the check then holds
\* what it was answered, and what others do is not seen.
LEMMA RetireKeepsPanel ==
    ASSUME PanelInv, Fair!Service!Retire(Me), UNCHANGED SeenOfHook,
           UNCHANGED <<drawn, forged, query, commitment, of, report>>,
           \/ /\ check = "posted" /\ check' = "revealed" /\ UNCHANGED <<others, unseen>>
              /\ got' \in Fair!Service!Active(Me) /\ told' = told \cup {got'}
           \/ UNCHANGED <<check, got>> /\ others' \in 0 .. MaxOthers /\ unseen' = TRUE
    PROVE  PanelInv'
<1>1. /\ SeedsInv' /\ Len(seeds)' = Len(seeds) /\ Len(seeds) \in Nat /\ told \subseteq told'
      /\ Fair!Service!Active(Me) = {Len(seeds)} /\ Len(seeds) \in DOMAIN seeds
      /\ DOMAIN seeds' = 1 .. Len(seeds) /\ DOMAIN seeds = 1 .. Len(seeds)
  <2>1. /\ SeedsInv' /\ Len(seeds)' = Len(seeds) /\ told \subseteq told'
        /\ Fair!Service!Active(Me) = {Len(seeds)}
    BY RetireEnds DEF PanelInv
  <2>2. Len(seeds) \in DOMAIN seeds
    BY <2>1, ActiveIsLast DEF PanelInv
  <2>3. QED
    BY <2>1, <2>2 DEF PanelInv, SeedsInv
<1>2. Extends
  BY <1>1 DEF Extends
<1>3. got' \in 0 .. Len(seeds)
  BY <1>1 DEF PanelInv, Fair!TypeOK
<1>4. Fair!TypeOK'
  <2>1. drawn' \in [Round -> [seed : 0 .. Len(seeds'), nonce : Nat]]
    BY <1>2, DrawsStay DEF PanelInv
  <2>2. query' \in {Fair!Idle, Fair!Sent} \cup DOMAIN seeds'
    BY <1>1 DEF PanelInv, Fair!TypeOK
  <2>3. QED
    BY <1>1, <1>3, <2>1, <2>2 DEF PanelInv, Fair!TypeOK
<1>5. DrawsInv'
  BY <1>2, DrawsStay DEF PanelInv, DrawsInv, SeenOfHook
<1>6. CheckInv'
  <2>1. CASE UNCHANGED <<check, got>>
    BY <1>2, <2>1, DrawsStay DEF PanelInv, CheckInv
  <2>2. CASE check = "posted" /\ check' = "revealed" /\ told' = told \cup {got'}
                /\ got' \in Fair!Service!Active(Me)
    <3>1. IsDrawn(of) /\ report = Fair!NoReport /\ drawn[of].seed <= Len(seeds)
      BY <1>1, <2>2 DEF PanelInv, CheckInv, DrawsInv, IsDrawn
    <3>2. IsDrawn(of)'
      BY <1>2, <3>1, DrawsStay DEF PanelInv
    <3>3. got' = Len(seeds)
      BY <1>1, <2>2
    <3>4. Answers(of)'
      BY <2>2, <3>1, <3>2, <3>3 DEF Answers
    <3>5. QED
      BY <2>2, <3>1, <3>2, <3>4 DEF CheckInv, Fair!NoReport
  <2>3. QED
    BY <2>1, <2>2
<1>7. HashInv'
  BY DEF HashInv
<1>8. QED
  BY <1>1, <1>4, <1>5, <1>6, <1>7 DEF PanelInv

\* A step on the page that leaves the seeds and the draws alone.
PanelStep ==
    /\ UNCHANGED SeenOfHook /\ UNCHANGED <<seeds, told, drawn, forged, others>>
    /\ \/ Fair!Click \/ Fair!Report \/ Fair!RevealFails
       \/ Fair!QueryServed \/ Fair!QueryArrives \/ Fair!QueryFails

\* The click, the report and the query.
LEMMA PanelStepKeepsPanel ==
    ASSUME PanelInv, PanelStep
    PROVE  PanelInv'
<1>1. /\ SeedsInv' /\ Extends /\ Len(seeds) \in Nat /\ DOMAIN seeds = 1 .. Len(seeds)
      /\ Fair!Service!Active(Me)' = Fair!Service!Active(Me)
      /\ \A s \in Fair!Service!Active(Me) : s \in DOMAIN seeds
  BY ActiveIsLast DEF PanelStep, Extends, PanelInv, SeedsInv, Fair!Service!Active
<1>2. DrawsInv'
  BY <1>1, DrawsStay DEF PanelInv, DrawsInv, PanelStep, SeenOfHook
<1>3. \A n : /\ IsDrawn(n)' <=> IsDrawn(n) /\ IsDrawn(n) => n \in Round
            /\ got' = got => (Answers(n) => Answers(n)')
            /\ \A g : Fair!VerifyDraw(g, n)' = Fair!VerifyDraw(g, n)
  BY <1>1, DrawsStay DEF PanelInv, IsDrawn
<1>4. CASE Fair!Click
  <2>1. /\ check = "idle" /\ check' = "posted" /\ of' = lastRound /\ report' = Fair!NoReport
        /\ IsDrawn(lastRound) /\ UNCHANGED <<query, commitment, got, unseen>>
    BY <1>4 DEF Fair!Click, PanelInv, DrawsInv
  <2>2. of' \in Round /\ IsDrawn(of)' /\ report'.of = 0
        /\ report' \in [of : Round \cup {0}, hash : BOOLEAN, outcome : BOOLEAN]
    BY <2>1 DEF PanelStep, IsDrawn, Fair!NoReport
  <2>3. Fair!TypeOK'
    BY <2>1, <2>2 DEF PanelStep, PanelInv, Fair!TypeOK
  <2>4. CheckInv'
    BY <2>1, <2>2 DEF CheckInv
  <2>5. HashInv'
    BY <1>1, <2>1 DEF PanelStep, PanelInv, HashInv
  <2>6. QED
    BY <1>1, <1>2, <2>3, <2>4, <2>5 DEF PanelInv
<1>5. CASE Fair!Report
  <2>1. /\ check = "revealed" /\ check' = "idle" /\ report' = Fair!VerifyDraw(got, of)
        /\ Answers(of) /\ UNCHANGED <<commitment, of, got>> /\ Fair!Refetch
    BY <1>5 DEF Fair!Report, PanelInv, CheckInv
  <2>2. /\ report'.of = of /\ of \in Round
        /\ report' \in [of : Round \cup {0}, hash : BOOLEAN, outcome : BOOLEAN]
    <3>1. of \in Round
      BY <2>1 DEF Answers, IsDrawn
    <3>2. PICK h \in BOOLEAN, o \in BOOLEAN : report' = [of |-> of, hash |-> h, outcome |-> o]
      BY <2>1 DEF Fair!VerifyDraw
    <3>3. QED
      BY <3>1, <3>2
  <2>3. /\ query' \in {query, Fair!Sent} /\ unseen' \in BOOLEAN
        /\ query' = Fair!Sent \/ unseen'
    BY <2>1 DEF Fair!Refetch, PanelInv, Fair!TypeOK
  <2>4. Fair!TypeOK'
    BY <2>1, <2>2, <2>3 DEF PanelStep, PanelInv, Fair!TypeOK
  <2>5. CheckInv'
    BY <1>3, <2>1, <2>2 DEF CheckInv
  <2>6. HashInv'
    BY <1>1, <2>3 DEF HashInv, PanelStep, Fair!Sent, Fair!Idle
  <2>7. QED
    BY <1>1, <1>2, <2>4, <2>5, <2>6 DEF PanelInv
<1>6. CASE Fair!RevealFails
  <2>1. /\ check # "idle" /\ check' = "idle" /\ unseen' = (unseen \/ check = "revealed")
        /\ UNCHANGED <<query, commitment, of, got, report>>
    BY <1>6 DEF Fair!RevealFails
  <2>2. Fair!TypeOK'
    BY <2>1 DEF PanelStep, PanelInv, Fair!TypeOK
  <2>3. CheckInv'
    <3>1. report.of = 0
      BY <2>1 DEF PanelInv, CheckInv, Fair!NoReport
    <3>2. QED
      BY <2>1, <3>1 DEF CheckInv
  <2>4. HashInv'
    BY <1>1, <2>1 DEF PanelInv, HashInv, PanelStep
  <2>5. QED
    BY <1>1, <1>2, <2>2, <2>3, <2>4 DEF PanelInv
<1>7. CASE Fair!QueryServed \/ Fair!QueryArrives \/ Fair!QueryFails
  <2>1. UNCHANGED <<check, of, got, report>>
    BY <1>7 DEF Fair!QueryServed, Fair!QueryArrives, Fair!QueryFails, Fair!panel
  <2>2. CheckInv'
    BY <2>1 DEF PanelInv, PanelStep, CheckInv, IsDrawn, Answers, Fair!VerifyDraw, Fair!Derive,
                Fair!Claimed
  <2>3. Fair!TypeOK' /\ HashInv'
    <3>1. CASE Fair!QueryServed
      BY <1>1, <2>1, <3>1
         DEF PanelStep, PanelInv, Fair!QueryServed, Fair!TypeOK, HashInv, Fair!panel,
             Fair!Idle, Fair!Sent
    <3>2. CASE Fair!QueryArrives
      BY <1>1, <2>1, <3>2
         DEF PanelStep, PanelInv, Fair!QueryArrives, Fair!TypeOK, HashInv, Fair!Idle, Fair!Sent
    <3>3. CASE Fair!QueryFails
      BY <1>1, <2>1, <3>3
         DEF PanelStep, PanelInv, Fair!QueryFails, Fair!TypeOK, HashInv, Fair!panel
    <3>4. QED
      BY <1>7, <3>1, <3>2, <3>3
  <2>4. QED
    BY <1>1, <1>2, <2>2, <2>3 DEF PanelInv
<1>8. QED
  BY <1>4, <1>5, <1>6, <1>7 DEF PanelStep

\* A step of the spin hook: what it has answered is drawn.
LEMMA HookKeepsPanel ==
    ASSUME PanelInv, UNCHANGED fairness,
           posted' \subseteq Round, \A n \in revealing' : IsDrawn(n),
           lastRound' # 0 => IsDrawn(lastRound')
    PROVE  PanelInv'
<1>1. Fair!TypeOK' /\ SeedsInv'
  BY DEF PanelInv, fairness, Fair!TypeOK, SeedsInv
<1>2. DrawsInv'
  BY DEF PanelInv, fairness, DrawsInv, IsDrawn
<1>3. CheckInv'
  BY DEF PanelInv, fairness, CheckInv, IsDrawn, Answers, Fair!VerifyDraw, Fair!Derive,
         Fair!Claimed
<1>4. HashInv'
  BY DEF PanelInv, fairness, HashInv, Fair!Service!Active
<1>5. QED
  BY <1>1, <1>2, <1>3, <1>4 DEF PanelInv

---------------------------------------------------------------------------
(* The slot.                                                               *)

\* One round at a time: the last spin's is awaited, answered or shown.
HookInv ==
    /\ Cab!TypeOK
    /\ awaiting <=> phase = "spinning"
    /\ phase = "spinning" => \/ posted = {spins} /\ revealing = {}
                             \/ posted = {} /\ revealing = {spins}
    /\ phase # "spinning" => posted = {} /\ revealing = {}
    /\ phase = "result" => spins # 0
    /\ result = IF phase = "result" THEN spins ELSE 0

\* Reels that spin loop; with the result they stop on its round or stand on it.
ReelsInv ==
    /\ Cab!SpinningReelsLoop
    /\ phase = "result" /\ ~late => \A r \in Reel :
          /\ strip[r] = result
          /\ \/ moving[r] /\ frames[r] = {"stop"} /\ running[r] = {}
             \/ moving[r] /\ frames[r] = {} /\ running[r] = {"stop"}
             \/ ~moving[r] /\ Cab!Stands(r) /\ atEnd[r]

\* Before the result nothing is counted but what ran on over the click.
CountInv ==
    /\ phase = "spinning" /\ ~leftover => counting = {} /\ tag = 0
    /\ Cab!PayoutIsTheRounds

\* A big win is on the screen with its result only.
FxInv == (big => phase = "result") /\ CelebrationIsTheWins

\* The slot's part, all together.
SlotInv == HookInv /\ ReelsInv /\ CountInv /\ FxInv

\* The page is loaded: no round yet, and the reels stand on the first grid.
LEMMA SlotStarts == PageInit => SlotInv
<1>1. SUFFICES ASSUME PageInit PROVE SlotInv
  OBVIOUS
<1>2. Cab!TypeOK
  <2>1. 0 \in 0 .. MaxSpins /\ 0 \in 0 .. MaxHides /\ 0 \in 0 .. 0
    BY BoundsAreNatural
  <2>2. /\ strip \in [Reel -> {Cab!Filler} \cup 0 .. 0]
        /\ atEnd \in [Reel -> BOOLEAN] /\ moving \in [Reel -> BOOLEAN]
        /\ frames \in [Reel -> SUBSET Cab!Animation] /\ running \in [Reel -> SUBSET Cab!Animation]
    BY <1>1, <2>1 DEF PageInit, Cab!Init
  <2>3. QED
    BY <1>1, <2>1, <2>2 DEF PageInit, Cab!Init, Cab!TypeOK
<1>3. HookInv
  BY <1>1, <1>2 DEF PageInit, Cab!Init, HookInv
<1>4. FxInv
  BY <1>1 DEF PageInit, Cab!Init, FX!Init, FxInv, CelebrationIsTheWins, FX!LastsItsTime
<1>5. QED
  BY <1>1, <1>3, <1>4 DEF PageInit, Cab!Init, SlotInv, ReelsInv, CountInv,
     Cab!SpinningReelsLoop, Cab!PayoutIsTheRounds

\* The click: whatever was on the reels or in the air is cleared, but for the count-up.
LEMMA StartSpinKeepsSlot ==
    ASSUME SlotInv, StartSpin PROVE SlotInv'
<1>1. HookInv /\ ReelsInv /\ CountInv /\ FxInv /\ Cab!TypeOK
  BY DEF SlotInv, HookInv
<1>2. /\ phase # "spinning" /\ spins < MaxSpins /\ spins' = spins + 1 /\ phase' = "spinning"
      /\ awaiting' = TRUE /\ result' = 0 /\ posted' = posted \cup {spins'}
      /\ tag' = 0 /\ counted' = FALSE /\ leftover' = (counting # {}) /\ late' = FALSE
      /\ UNCHANGED <<revealing, lastRound, won, counting, hides, hidden>>
      /\ Cab!FreeSpin /\ FX!Clear(result) /\ spins \in Nat
  BY <1>1 DEF StartSpin, Cab!Spin, HookInv, Cab!TypeOK
<1>3. /\ 1 .. spins \subseteq 1 .. spins + 1 /\ 0 .. spins \subseteq 0 .. spins + 1
      /\ spins + 1 \in 0 .. MaxSpins /\ spins + 1 \in 1 .. spins + 1
  BY <1>2, BoundsAreNatural
<1>4. Cab!TypeOK'
  <2>1. /\ spins' \in 0 .. MaxSpins /\ posted' \subseteq 1 .. spins' /\ revealing' \subseteq 1 .. spins'
        /\ result' \in 0 .. spins' /\ lastRound' \in 0 .. spins' /\ won' \subseteq 1 .. spins'
    BY <1>1, <1>2, <1>3 DEF Cab!TypeOK
  <2>2. /\ strip' \in [Reel -> {Cab!Filler} \cup 0 .. spins']
        /\ atEnd' \in [Reel -> BOOLEAN] /\ moving' \in [Reel -> BOOLEAN]
        /\ frames' \in [Reel -> SUBSET Cab!Animation] /\ running' \in [Reel -> SUBSET Cab!Animation]
    BY <1>2 DEF Cab!FreeSpin, Cab!Animation
  <2>3. QED
    BY <1>1, <1>2, <2>1, <2>2 DEF Cab!TypeOK
<1>5. HookInv'
  <2>1. posted' = {spins'} /\ revealing' = {} /\ spins' # 0
    BY <1>1, <1>2 DEF HookInv
  <2>2. awaiting' <=> phase' = "spinning"
    BY <1>2
  <2>3. phase' # "result" /\ result' = 0 /\ ~(phase' # "spinning")
    BY <1>2
  <2>4. QED
    BY <1>4, <2>1, <2>2, <2>3 DEF HookInv
<1>6. ReelsInv'
  BY <1>2 DEF ReelsInv, Cab!SpinningReelsLoop, Cab!FreeSpin
<1>7. CountInv'
  BY <1>2 DEF CountInv, Cab!PayoutIsTheRounds
<1>8. FxInv'
  <2>1. CASE big
    <3>1. result # 0 /\ result \in Int
      BY <1>1, <2>1 DEF HookInv, FxInv, Cab!TypeOK
    <3>2. /\ shower' = -result /\ flash' = -result /\ -result # 0 /\ ~big'
          /\ timers' = {"shower", "flash"} \X {-result}
      BY <1>2, <2>1, <3>1 DEF FX!Clear, FX!Burst
    <3>3. FX!LastsItsTime'
      BY <3>2 DEF FX!LastsItsTime
    <3>4. QED
      BY <1>2, <3>2, <3>3 DEF FxInv, CelebrationIsTheWins
  <2>2. CASE ~big
    BY <1>1, <1>2, <2>2 DEF FX!Clear, FX!Quiet, FxInv, CelebrationIsTheWins, FX!LastsItsTime
  <2>3. QED
    BY <2>1, <2>2
<1>9. QED
  BY <1>5, <1>6, <1>7, <1>8 DEF SlotInv

\* An answer, good or bad, is the awaited round's.
LEMMA AnswerKeepsSlot ==
    ASSUME SlotInv, NEW n \in posted, Answered(n) \/ SpinFails(n)
    PROVE  SlotInv'
<1>1. HookInv /\ ReelsInv /\ CountInv /\ FxInv /\ Cab!TypeOK
  BY DEF SlotInv, HookInv
<1>2. /\ phase = "spinning" /\ n = spins /\ posted = {spins} /\ revealing = {} /\ result = 0
      /\ UNCHANGED <<spins, result, lastRound, counting, tag, counted, leftover, strip, atEnd,
                     moving, frames, running, hides, hidden, late, fx>>
      /\ n \in 1 .. spins
  BY <1>1 DEF Answered, SpinFails, Cab!Answered, Cab!SpinFails, Cab!count, Cab!reels, HookInv, Cab!TypeOK
<1>3. /\ posted' = {} /\ won' \in {won, won \cup {n}}
      /\ \/ revealing' = {n} /\ phase' = "spinning" /\ awaiting' = awaiting
         \/ revealing' = {} /\ phase' = "idle" /\ awaiting' = FALSE
  BY <1>2 DEF Answered, SpinFails, Cab!Answered, Cab!SpinFails, Cab!count
<1>4. Cab!TypeOK'
  <2>1. /\ posted' \subseteq 1 .. spins /\ revealing' \subseteq 1 .. spins /\ awaiting' \in BOOLEAN
        /\ won' \subseteq 1 .. spins /\ counting \subseteq won' /\ tag \in {0} \cup won'
        /\ phase' \in {"idle", "spinning", "result"}
    BY <1>1, <1>2, <1>3 DEF Cab!TypeOK
  <2>2. /\ strip' \in [Reel -> {Cab!Filler} \cup 0 .. spins']
        /\ atEnd' \in [Reel -> BOOLEAN] /\ moving' \in [Reel -> BOOLEAN]
        /\ frames' \in [Reel -> SUBSET Cab!Animation] /\ running' \in [Reel -> SUBSET Cab!Animation]
    BY <1>1, <1>2 DEF Cab!TypeOK
  <2>3. QED
    BY <1>1, <1>2, <2>1, <2>2 DEF Cab!TypeOK
<1>5. HookInv'
  <2>1. awaiting' <=> phase' = "spinning"
    <3>1. awaiting = TRUE
      BY <1>1, <1>2 DEF HookInv, Cab!TypeOK
    <3>2. QED
      BY <1>3, <3>1
  <2>2. /\ phase' # "result" /\ result' = 0 /\ spins' = spins /\ posted' = {}
        /\ phase' = "spinning" => revealing' = {spins}
        /\ phase' # "spinning" => revealing' = {}
    BY <1>2, <1>3
  <2>3. QED
    BY <1>4, <2>1, <2>2 DEF HookInv
<1>6. ReelsInv'
  BY <1>1, <1>2, <1>3 DEF ReelsInv, Cab!SpinningReelsLoop
<1>7. CountInv'
  BY <1>1, <1>2, <1>3 DEF CountInv, Cab!PayoutIsTheRounds
<1>8. FxInv'
  BY <1>1, <1>2, <1>3 DEF FxInv, CelebrationIsTheWins, FX!LastsItsTime, fx
<1>9. QED
  BY <1>5, <1>6, <1>7, <1>8 DEF SlotInv

\* The timer reveals the awaited round, and the reels are told to stop on it.
LEMMA RevealKeepsSlot ==
    ASSUME SlotInv, NEW n \in revealing, Reveal(n)
    PROVE  SlotInv'
<1>1. HookInv /\ ReelsInv /\ CountInv /\ FxInv /\ Cab!TypeOK
  BY DEF SlotInv, HookInv
<1>2. /\ phase = "spinning" /\ n = spins /\ posted = {} /\ revealing = {spins} /\ n \in 1 .. spins
      /\ revealing' = {} /\ phase' = "result" /\ result' = n /\ lastRound' = n /\ awaiting' = FALSE
      /\ Cab!Decelerate(n) /\ FX!Celebrate(n, n \in won)
      /\ IF n \in won THEN counting' = {n} ELSE counting' = counting
      /\ late' = (\E r \in Reel : "loop" \in frames[r])
      /\ UNCHANGED <<spins, posted, won, tag, counted, leftover, hides, hidden>>
  BY <1>1 DEF Reveal, Cab!Reveal, Cab!CountUp, HookInv, Cab!TypeOK
<1>3. Cab!TypeOK'
  <2>1. /\ strip' \in [Reel -> {Cab!Filler} \cup 0 .. spins']
        /\ atEnd' \in [Reel -> BOOLEAN] /\ moving' \in [Reel -> BOOLEAN]
        /\ frames' \in [Reel -> SUBSET Cab!Animation] /\ running' \in [Reel -> SUBSET Cab!Animation]
    BY <1>1, <1>2 DEF Cab!Decelerate, Cab!Animation, Cab!TypeOK
  <2>2. /\ counting' \subseteq won
        /\ n \in 0 .. spins
    <3>1. counting \subseteq won /\ spins \in Nat
      BY <1>1 DEF Cab!TypeOK
    <3>2. CASE n \in won
      BY <1>2, <3>1, <3>2
    <3>3. CASE n \notin won
      BY <1>2, <3>1, <3>3
    <3>4. QED
      BY <3>2, <3>3
  <2>3. late' \in BOOLEAN
    <3>1. late' = (\E r \in Reel : "loop" \in frames[r])
      BY <1>2
    <3>2. QED
      BY <3>1, Zenon
  <2>4. QED
    BY <1>1, <1>2, <2>1, <2>2, <2>3 DEF Cab!TypeOK
<1>4. HookInv'
  BY <1>1, <1>2, <1>3 DEF HookInv
<1>5. ReelsInv'
  <2>1. ASSUME ~late', NEW r \in Reel
        PROVE  strip'[r] = n /\ moving'[r] /\ frames'[r] = {"stop"} /\ running'[r] = {}
    <3>1. frames[r] = {} /\ running[r] = {"loop"}
      BY <1>1, <1>2, <2>1 DEF ReelsInv, Cab!SpinningReelsLoop, Cab!TypeOK
    <3>2. QED
      BY <1>2, <3>1 DEF Cab!Decelerate
  <2>2. QED
    BY <1>2, <2>1 DEF ReelsInv, Cab!SpinningReelsLoop
<1>6. CountInv'
  BY <1>1, <1>2 DEF CountInv, Cab!PayoutIsTheRounds
<1>7. FxInv'
  <2>1. CASE n \in won
    <3>1. /\ shower' = n /\ flash' = n /\ timers' = {"shower", "flash"} \X {n} /\ n # 0
      BY <1>2, <2>1 DEF FX!Celebrate, FX!Burst
    <3>2. FX!LastsItsTime'
      BY <3>1 DEF FX!LastsItsTime
    <3>3. QED
      BY <1>2, <3>1, <3>2 DEF FxInv, CelebrationIsTheWins
  <2>2. CASE n \notin won
    BY <1>1, <1>2, <2>2 DEF FX!Celebrate, FX!Quiet, FxInv, CelebrationIsTheWins, FX!LastsItsTime
  <2>3. QED
    BY <2>1, <2>2
<1>8. QED
  BY <1>4, <1>5, <1>6, <1>7 DEF SlotInv

\* A frame, the end of a stop, a tick of the count-up, and the page's hiding.
LEMMA AnimateKeepsSlot ==
    ASSUME SlotInv, Animate PROVE SlotInv'
<1>1. HookInv /\ ReelsInv /\ CountInv /\ FxInv /\ Cab!TypeOK
  BY DEF SlotInv, HookInv
<1>2. /\ UNCHANGED <<spins, phase, awaiting, posted, revealing, result, lastRound>>
      /\ UNCHANGED <<won, leftover, strip, late, fx>>
  BY DEF Animate, Frame, StopFinished, Tick, LastTick, Hide, Show, Cab!Frame, Cab!StopFinished, Cab!Tick,
         Cab!LastTick, Cab!Hide, Cab!Show, Cab!hook, Cab!count, Cab!reels
<1>3. FxInv'
  BY <1>1, <1>2 DEF FxInv, CelebrationIsTheWins, FX!LastsItsTime, fx
<1>4. SUFFICES Cab!TypeOK' /\ ReelsInv' /\ CountInv'
  BY <1>1, <1>2, <1>3 DEF SlotInv, HookInv
<1>5. CASE Frame
  <2>1. /\ running' = [r \in Reel |-> running[r] \cup frames[r]] /\ frames' = [r \in Reel |-> {}]
        /\ UNCHANGED <<counting, tag, counted, atEnd, moving, hides, hidden>>
    BY <1>5 DEF Frame, Cab!Frame, Cab!count
  <2>2. Cab!TypeOK'
    BY <1>1, <1>2, <2>1 DEF Cab!TypeOK
  <2>3. ReelsInv'
    <3>1. Cab!SpinningReelsLoop'
      BY <1>1, <1>2, <2>1 DEF ReelsInv, Cab!SpinningReelsLoop
    <3>2. ASSUME phase = "result", ~late, NEW r \in Reel
          PROVE  /\ strip[r] = result
                 /\ \/ moving[r] /\ frames'[r] = {} /\ running'[r] = {"stop"}
                    \/ ~moving[r] /\ frames'[r] = {} /\ running'[r] = {} /\ atEnd[r]
      BY <1>1, <2>1, <3>2 DEF ReelsInv, Cab!Stands
    <3>3. QED
      BY <1>2, <2>1, <3>1, <3>2 DEF ReelsInv, Cab!Stands
  <2>4. CountInv'
    BY <1>1, <1>2, <2>1 DEF CountInv, Cab!PayoutIsTheRounds
  <2>5. QED
    BY <2>2, <2>3, <2>4
<1>6. ASSUME NEW q \in Reel, StopFinished(q)
      PROVE  Cab!TypeOK' /\ ReelsInv' /\ CountInv'
  <2>1. /\ "stop" \in running[q] /\ atEnd' = [atEnd EXCEPT ![q] = TRUE]
        /\ moving' = [moving EXCEPT ![q] = FALSE]
        /\ running' = [running EXCEPT ![q] = @ \ {"stop"}]
        /\ UNCHANGED <<counting, tag, counted, frames, hides, hidden>>
    BY <1>6 DEF StopFinished, Cab!StopFinished, Cab!count
  <2>2. Cab!TypeOK'
    <3>1. running[q] \ {"stop"} \in SUBSET Cab!Animation
      BY <1>1 DEF Cab!TypeOK
    <3>2. QED
      BY <1>1, <1>2, <2>1, <3>1 DEF Cab!TypeOK
  <2>3. ReelsInv'
    <3>1. phase # "spinning"
      BY <1>1, <2>1 DEF ReelsInv, Cab!SpinningReelsLoop
    <3>2. ASSUME phase = "result", ~late, NEW r \in Reel
          PROVE  /\ strip[r] = result
                 /\ \/ moving'[r] /\ frames[r] = {"stop"} /\ running'[r] = {}
                    \/ moving'[r] /\ frames[r] = {} /\ running'[r] = {"stop"}
                    \/ ~moving'[r] /\ frames[r] = {} /\ running'[r] = {} /\ atEnd'[r]
      <4>1. CASE r = q
        BY <1>1, <2>1, <3>2, <4>1 DEF ReelsInv, Cab!Stands, Cab!TypeOK
      <4>2. CASE r # q
        BY <1>1, <2>1, <3>2, <4>2 DEF ReelsInv, Cab!Stands, Cab!TypeOK
      <4>3. QED
        BY <4>1, <4>2
    <3>3. QED
      BY <1>2, <2>1, <3>1, <3>2 DEF ReelsInv, Cab!Stands, Cab!SpinningReelsLoop
  <2>4. CountInv'
    BY <1>1, <1>2, <2>1 DEF CountInv, Cab!PayoutIsTheRounds
  <2>5. QED
    BY <2>2, <2>3, <2>4
<1>7. ASSUME NEW n \in counting, Tick(n) \/ LastTick(n)
      PROVE  Cab!TypeOK' /\ ReelsInv' /\ CountInv'
  <2>1. /\ tag' = n /\ UNCHANGED <<atEnd, moving, frames, running, hides, hidden>>
        /\ \/ counting' = counting /\ counted' = FALSE
           \/ counting' = counting \ {n} /\ counted' = TRUE
    BY <1>7 DEF Tick, LastTick, Cab!Tick, Cab!LastTick, Cab!reels
  <2>2. Cab!TypeOK'
    BY <1>1, <1>2, <2>1 DEF Cab!TypeOK
  <2>3. ReelsInv'
    BY <1>1, <1>2, <2>1 DEF ReelsInv, Cab!SpinningReelsLoop, Cab!Stands
  <2>4. CountInv'
    BY <1>1, <1>2, <2>1 DEF CountInv, Cab!PayoutIsTheRounds
  <2>5. QED
    BY <2>2, <2>3, <2>4
<1>8. CASE Hide \/ Show
  <2>1. /\ hides' = hides \/ (hides < MaxHides /\ hides' = hides + 1)
        /\ hidden' \in BOOLEAN
        /\ UNCHANGED <<counting, tag, counted, atEnd, moving, frames, running>>
    BY <1>8 DEF Hide, Show, Cab!Hide, Cab!Show, Cab!count, Cab!reels
  <2>2. Cab!TypeOK'
    <3>1. hides' \in 0 .. MaxHides
      BY <1>1, <2>1, BoundsAreNatural DEF Cab!TypeOK
    <3>2. QED
      BY <1>1, <1>2, <2>1, <3>1 DEF Cab!TypeOK
  <2>3. QED
    BY <1>1, <1>2, <2>1, <2>2
       DEF ReelsInv, Cab!SpinningReelsLoop, Cab!Stands, CountInv, Cab!PayoutIsTheRounds
<1>9. QED
  BY <1>5, <1>6, <1>7, <1>8 DEF Animate

\* A timer of the celebration ends what it was set for.
LEMMA CelebrationEndsKeepsSlot ==
    ASSUME SlotInv, CelebrationEnds PROVE SlotInv'
<1>1. HookInv /\ ReelsInv /\ CountInv /\ FxInv /\ Cab!TypeOK /\ UNCHANGED cabinet
  BY DEF SlotInv, HookInv, CelebrationEnds
<1>2. HookInv' /\ ReelsInv' /\ CountInv'
  BY <1>1 DEF cabinet, HookInv, ReelsInv, CountInv, Cab!TypeOK, Cab!SpinningReelsLoop, Cab!Stands,
              Cab!PayoutIsTheRounds
<1>3. FxInv'
  <2>1. PICK k : FX!ShowerEnds(k) \/ FX!FlashEnds(k)
    BY DEF CelebrationEnds
  <2>2. FX!LastsItsTime
    BY <1>1 DEF FxInv, CelebrationIsTheWins
  <2>3. /\ shower' \in {shower, 0} /\ flash' \in {flash, 0} /\ big' = big
    BY <2>1 DEF FX!ShowerEnds, FX!FlashEnds
  <2>4. CASE FX!ShowerEnds(k)
    <3>1. k = shower /\ shower # 0
      BY <2>2, <2>4 DEF FX!ShowerEnds, FX!LastsItsTime
    <3>2. FX!LastsItsTime'
      BY <2>2, <2>4, <3>1 DEF FX!ShowerEnds, FX!LastsItsTime
    <3>3. QED
      BY <1>1, <2>3, <3>2 DEF cabinet, FxInv, CelebrationIsTheWins
  <2>5. CASE FX!FlashEnds(k)
    <3>1. k = flash /\ flash # 0
      BY <2>2, <2>5 DEF FX!FlashEnds, FX!LastsItsTime
    <3>2. FX!LastsItsTime'
      BY <2>2, <2>5, <3>1 DEF FX!FlashEnds, FX!LastsItsTime
    <3>3. QED
      BY <1>1, <2>3, <3>2 DEF cabinet, FxInv, CelebrationIsTheWins
  <2>6. QED
    BY <2>1, <2>4, <2>5
<1>4. QED
  BY <1>2, <1>3 DEF SlotInv

\* What the panel and the backend do changes nothing on the slot.
LEMMA OthersKeepSlot ==
    ASSUME SlotInv, UNCHANGED <<cabinet, fx>> PROVE SlotInv'
BY DEF SlotInv, cabinet, fx, HookInv, ReelsInv, CountInv, FxInv, Cab!TypeOK, Cab!SpinningReelsLoop,
       Cab!Stands, Cab!PayoutIsTheRounds, CelebrationIsTheWins, FX!LastsItsTime
---------------------------------------------------------------------------
(* The page.                                                               *)

\* The inductive invariant.
PageInv == PanelInv /\ SlotInv

\* The page is loaded.
LEMMA PageStarts == PageInit => PageInv
<1>1. SUFFICES ASSUME PageInit PROVE PageInv
  OBVIOUS
<1>2. /\ seeds = <<>> /\ told = {} /\ DOMAIN seeds = {} /\ Len(seeds) = 0 /\ seeds \in Seq(SeedRow)
      /\ drawn = [n \in Round |-> Fair!Undrawn] /\ posted = {} /\ revealing = {} /\ lastRound = 0
      /\ query = 0 /\ commitment = 0 /\ check = "idle" /\ of = 0 /\ got = 0
      /\ report = Fair!NoReport /\ others = 0 /\ unseen = FALSE /\ forged = {}
  BY <1>1 DEF PageInit, Cab!Init, Fair!Init, Fair!Sent
<1>3. Fair!TypeOK
  <2>1. drawn \in [Round -> [seed : 0 .. Len(seeds), nonce : Nat]]
    BY <1>2 DEF Fair!Undrawn
  <2>2. report \in [of : Round \cup {0}, hash : BOOLEAN, outcome : BOOLEAN]
    BY <1>2 DEF Fair!NoReport
  <2>3. /\ query \in {Fair!Idle, Fair!Sent} /\ commitment \in 0 .. Len(seeds) /\ got \in 0 .. Len(seeds)
        /\ others \in 0 .. MaxOthers
    BY <1>2, BoundsAreNatural DEF Fair!Sent
  <2>4. QED
    BY <1>2, <2>1, <2>2, <2>3 DEF Fair!TypeOK
<1>4. SeedsInv
  BY <1>2 DEF SeedsInv
<1>5. DrawsInv
  BY <1>2 DEF DrawsInv, IsDrawn
<1>6. CheckInv
  BY <1>2 DEF CheckInv, Fair!NoReport
<1>7. HashInv
  BY <1>2 DEF HashInv
<1>8. QED
  BY <1>1, <1>3, <1>4, <1>5, <1>6, <1>7, SlotStarts DEF PageInv, PanelInv

\* The spin hook's own steps.
LEMMA SlotStepKeepsPage ==
    ASSUME PageInv, PageNext, UNCHANGED fairness
    PROVE  PanelInv'
<1>1. PanelInv /\ HookInv /\ Cab!TypeOK
  BY DEF PageInv, SlotInv, HookInv
<1>2. /\ posted \subseteq Round /\ \A n \in revealing : IsDrawn(n)
      /\ lastRound # 0 => IsDrawn(lastRound)
  BY <1>1 DEF PanelInv, DrawsInv
<1>3. SUFFICES /\ posted' \subseteq Round /\ \A n \in revealing' : IsDrawn(n)
               /\ lastRound' # 0 => IsDrawn(lastRound')
  BY <1>1, HookKeepsPanel
<1>4. CASE StartSpin
  <2>1. spins' \in Round /\ posted' = posted \cup {spins'} /\ UNCHANGED <<revealing, lastRound>>
    BY <1>1, <1>4, BoundsAreNatural DEF StartSpin, Cab!Spin, Cab!TypeOK, Round
  <2>2. QED
    BY <1>2, <2>1
<1>5. ASSUME NEW n \in posted, SpinFails(n) \/ Answered(n)
      PROVE  /\ posted' \subseteq Round /\ \A m \in revealing' : IsDrawn(m)
             /\ lastRound' = lastRound
  <2>1. /\ posted' \subseteq posted /\ lastRound' = lastRound
        /\ revealing' = revealing \/ (revealing' = revealing \cup {n} /\ drawn[n] # Fair!Undrawn)
    BY <1>5 DEF SpinFails, Answered, Cab!SpinFails, Cab!Answered
  <2>2. QED
    BY <1>2, <1>5, <2>1 DEF IsDrawn
<1>6. ASSUME NEW n \in revealing, Reveal(n)
      PROVE  posted' = posted /\ revealing' \subseteq revealing /\ lastRound' = n
  BY <1>6 DEF Reveal, Cab!Reveal
<1>7. ASSUME Animate \/ CelebrationEnds \/ Check \/ \E n \in posted : Serve(n)
      PROVE  UNCHANGED <<posted, revealing, lastRound>>
  BY <1>7 DEF Animate, Frame, StopFinished, Tick, LastTick, Hide, Show, Cab!Frame, Cab!StopFinished,
         Cab!Tick, Cab!LastTick, Cab!Hide, Cab!Show, Cab!hook, CelebrationEnds, Check, Serve, cabinet
<1>8. QED
  BY <1>2, <1>4, <1>5, <1>6, <1>7 DEF PageNext

\* The seeds, as the backend and the panel change them.
LEMMA FairStepKeepsPage ==
    ASSUME PageInv, Check \/ \E n \in posted : Serve(n)
    PROVE  PageInv'
<1>1. PanelInv /\ SlotInv /\ posted \subseteq Round
  BY DEF PageInv, PanelInv, DrawsInv
<1>2. UNCHANGED <<cabinet, fx>> /\ UNCHANGED SeenOfHook
  BY DEF Check, Serve, cabinet, SeenOfHook
<1>3. SUFFICES PanelInv'
  BY <1>1, <1>2, OthersKeepSlot DEF PageInv
<1>4. CASE Fair!Ensure
  <2>1. /\ Fair!Service!Commit(Me)
        /\ UNCHANGED <<drawn, forged, query, commitment, check, of, got, report, others, unseen>>
    BY <1>4 DEF Fair!Ensure, Fair!panel
  <2>2. others' \in 0 .. MaxOthers
    BY <1>1, <2>1 DEF PanelInv, Fair!TypeOK
  <2>3. QED
    BY <1>1, <1>2, <2>1, <2>2, CommitKeepsPanel
<1>5. ASSUME NEW n \in posted, Fair!DrawRound(n)
      PROVE  PanelInv'
  BY <1>1, <1>2, <1>5, DrawKeepsPanel
<1>6. CASE Fair!RevealServed
  BY <1>1, <1>2, <1>6, RetireKeepsPanel DEF Fair!RevealServed
<1>7. CASE Fair!Other
  <2>1. others' \in 0 .. MaxOthers
    BY <1>1, <1>7, BoundsAreNatural DEF Fair!Other, PanelInv, Fair!TypeOK
  <2>2. UNCHANGED <<drawn, forged, query, commitment, check, of, got, report>>
    BY <1>7 DEF Fair!Other, Fair!panel
  <2>3. CASE Fair!Service!Retire(Me) /\ unseen' = TRUE
    BY <1>1, <1>2, <2>1, <2>2, <2>3, RetireKeepsPanel
  <2>4. CASE Fair!Service!Commit(Me) /\ UNCHANGED unseen
    BY <1>1, <1>2, <2>1, <2>2, <2>4, CommitKeepsPanel
  <2>5. QED
    BY <1>7, <2>3, <2>4 DEF Fair!Other
<1>8. ASSUME \/ Fair!Click \/ Fair!Report \/ Fair!RevealFails
             \/ Fair!QueryServed \/ Fair!QueryArrives \/ Fair!QueryFails
      PROVE  PanelInv'
  <2>1. UNCHANGED <<seeds, told, drawn, forged, others>>
    BY <1>8 DEF Fair!Click, Fair!Report, Fair!RevealFails, Fair!QueryServed, Fair!QueryArrives,
                Fair!QueryFails
  <2>2. PanelStep
    BY <1>2, <1>8, <2>1 DEF PanelStep
  <2>3. QED
    BY <1>1, <2>2, PanelStepKeepsPanel
<1>9. QED
  BY <1>4, <1>5, <1>6, <1>7, <1>8 DEF Check, Serve

\* Every step of the page keeps both parts.
LEMMA PageKept ==
    ASSUME PageInv, [PageNext]_pageVars
    PROVE  PageInv'
<1>1. CASE UNCHANGED pageVars
  <2>1. PanelInv'
    BY <1>1, HookKeepsPanel DEF PageInv, PanelInv, DrawsInv, pageVars, cabinet
  <2>2. QED
    BY <1>1, <2>1, OthersKeepSlot DEF PageInv, pageVars
<1>2. CASE Check \/ \E n \in posted : Serve(n)
  BY <1>2, FairStepKeepsPage
<1>3. CASE \/ StartSpin \/ Animate \/ CelebrationEnds
           \/ \E n \in posted : SpinFails(n) \/ Answered(n)
           \/ \E n \in revealing : Reveal(n)
  <2>1. PageNext
    BY <1>3 DEF PageNext
  <2>2. UNCHANGED fairness
    BY <1>3 DEF StartSpin, SpinFails, Answered, Reveal, Animate, Frame, StopFinished, Tick, LastTick,
                Hide, Show, CelebrationEnds
  <2>3. PanelInv'
    BY <2>1, <2>2, SlotStepKeepsPage
  <2>4. SlotInv'
    BY <1>3, StartSpinKeepsSlot, AnswerKeepsSlot, RevealKeepsSlot, AnimateKeepsSlot,
       CelebrationEndsKeepsSlot DEF PageInv
  <2>5. QED
    BY <2>3, <2>4 DEF PageInv
<1>4. QED
  BY <1>1, <1>2, <1>3 DEF PageNext

\* The page's state is one round's and one check's, always.
THEOREM PageIsConsistent == PageSpec => []PageInv
<1>1. PageInit => PageInv
  BY PageStarts
<1>2. PageInv /\ [PageNext]_pageVars => PageInv'
  BY PageKept
<1>3. QED
  BY <1>1, <1>2, PTL DEF PageSpec

\* What the page shows as a result is one round's: its window on every reel, its payout
\* and its celebration, whatever the player clicked before (use-spin.ts, Reel.tsx, WinFX.tsx).
THEOREM ResultIsAlwaysOneRounds == PageSpec => []ResultIsOneRounds
<1>1. ASSUME PageInv PROVE ResultIsOneRounds
  <2>1. HookInv /\ ReelsInv /\ CountInv /\ FxInv /\ Cab!TypeOK
    BY <1>1 DEF PageInv, SlotInv, HookInv
  <2>2. Cab!StopIsTheGrid
    BY <2>1 DEF HookInv, ReelsInv, Cab!StopIsTheGrid
  <2>3. QED
    BY <2>1, <2>2 DEF CountInv, FxInv, ResultIsOneRounds, Cab!ResultIsOneRounds
<1>2. QED
  BY <1>1, PageIsConsistent, PTL

\* A reel that spins is blurred and runs its loop only, however the last spin ended.
THEOREM SpinningReelsAlwaysLoop == PageSpec => []SpinningReelsLoop
<1>1. ASSUME PageInv PROVE SpinningReelsLoop
  BY <1>1 DEF PageInv, SlotInv, ReelsInv, SpinningReelsLoop
<1>2. QED
  BY <1>1, PageIsConsistent, PTL

\* "Provably fair" is said of a round that is, a round that was not tampered with is
\* called invalid only if its seed was retired before, and the hash shown at rest is
\* the active seed's (Verify.tsx, fair-verify.ts).
THEOREM VerifierIsAlwaysTrue == PageSpec => []VerifierIsTrue
<1>1. ASSUME PageInv PROVE VerifierIsTrue
  <2>1. Fair!TypeOK /\ SeedsInv /\ CheckInv /\ HashInv /\ DrawsInv
    BY <1>1 DEF PageInv, PanelInv
  <2>2. \A s \in Fair!Service!Active(Me) : s \in DOMAIN seeds /\ s \notin told
    BY <2>1, ActiveIsLast
  <2>3. Fair!ReportIsTrue
    <3>1. SUFFICES ASSUME report.of # 0
                   PROVE  LET s == drawn[report.of].seed
                          IN  /\ Fair!IsValid =>
                                    /\ report.of \notin forged /\ s \in told
                                    /\ s \notin Fair!Service!Active(Me)
                              /\ ~Fair!IsValid /\ report.of \notin forged => s < got
      BY DEF Fair!ReportIsTrue
    <3> DEFINE n == report.of
               s == drawn[n].seed
    <3>2. /\ n \in Round /\ got \in told /\ s <= got /\ s \in Nat /\ s # 0 /\ got \in Nat
          /\ report = Fair!VerifyDraw(got, n)
      <4>1. Answers(n) /\ report = Fair!VerifyDraw(got, n)
        BY <2>1, <3>1 DEF CheckInv
      <4>2. s \in 1 .. Len(seeds) /\ Len(seeds) \in Nat
        BY <2>1, <4>1 DEF DrawsInv, Answers, IsDrawn, SeedsInv
      <4>3. got \in Nat
        BY <2>1, <4>2 DEF Fair!TypeOK
      <4>4. QED
        BY <4>1, <4>2, <4>3 DEF Answers, IsDrawn
    <3>3. report.hash = (got = s) /\ report.outcome = (<<got, drawn[n].nonce>> = Fair!Claimed(n))
      BY <3>2 DEF Fair!VerifyDraw, Fair!Derive
    <3>4. ASSUME Fair!IsValid
          PROVE  n \notin forged /\ s \in told /\ s \notin Fair!Service!Active(Me)
      <4>1. got = s /\ <<got, drawn[n].nonce>> = Fair!Claimed(n)
        BY <3>3, <3>4 DEF Fair!IsValid
      <4>2. n \notin forged
        BY <3>2, <4>1 DEF Fair!Claimed
      <4>3. QED
        BY <2>2, <3>2, <4>1, <4>2
    <3>5. ASSUME ~Fair!IsValid, n \notin forged
          PROVE  s < got
      <4>1. Fair!Claimed(n) = <<s, drawn[n].nonce>>
        BY <3>5 DEF Fair!Claimed, Fair!Derive
      <4>2. got # s
        BY <3>3, <3>5, <4>1 DEF Fair!IsValid
      <4>3. QED
        BY <3>2, <4>2
    <3>6. QED
      BY <3>4, <3>5
  <2>4. Fair!ShownHashIsInUse
    BY <2>1 DEF HashInv, Fair!ShownHashIsInUse
  <2>5. QED
    BY <2>1, <2>3, <2>4 DEF VerifierIsTrue
<1>2. QED
  BY <1>1, PageIsConsistent, PTL

---------------------------------------------------------------------------
(* The cashier: the parts of its invariant.                                *)

\* The parts of the type invariant.
CallsType ==
    /\ pc \in [Op -> Point] /\ kind \in [Op -> Kind] /\ amount \in [Op -> Amounts \cup {0}]
    /\ before \in [Op -> Nat] /\ polls \in [Op -> 0 .. Polls]

MetType == met \in [Op -> SUBSET {"overlap", "stale", "raised", "lost", "unread"}]

FlowType ==
    /\ flow \in [of : SUBSET Op, done : BOOLEAN,
                 steps : [Key -> {"absent", "pending", "active", "done", "error"}]]
    /\ flow.of = {} \/ \E o \in Op : flow.of = {o}

PageType ==
    /\ busy \in Kind \cup {"null"} /\ casino \in Nat
    /\ play \in [Spin -> {"idle", "post", "played", "refused", "over"}]
    /\ stake \in [Spin -> Stakes \cup {0}] /\ fell \in BOOLEAN

LedgerType == balance \in Nat /\ credited \subseteq executed /\ debited \subseteq Op

ChainType ==
    /\ executed \subseteq Op
    /\ pool \in Seq([op : Op, what : {"approve", "move"}])
    /\ receipt \in [Op -> {"none", "ok", "noAllowance", "noChips"}]
    /\ chips \in Nat /\ allowance \in Nat /\ faults \in 0 .. MaxFaults

Types == CallsType /\ MetType /\ FlowType /\ PageType /\ LedgerType /\ ChainType

\* They are the type invariant.
LEMMA TypesSuffice == ASSUME Types PROVE TypeOK
<1>1. flow.of \in {{}} \cup {{o} : o \in Op} /\ flow.done \in BOOLEAN
      /\ flow.steps \in [Key -> {"absent", "pending", "active", "done", "error"}]
  BY DEF Types, FlowType
<1>2. QED
  BY <1>1 DEF Types, CallsType, MetType, PageType, LedgerType, ChainType, TypeOK

\* The awaits of each kind of call.
PointsOf(k) ==
    CASE k = "faucet" -> {"idle", "send", "mine", "confirmed", "failed"}
      [] k = "deposit" -> {"idle", "allowance", "approve", "mineApprove", "send", "mine", "poll",
                           "confirmed", "failed"}
      [] k = "withdraw" -> {"idle", "post", "release", "refused", "served", "confirmed", "failed"}

\* What a call has done by the time it is where it is.
CallInv(o) ==
    /\ pc[o] \in PointsOf(kind[o])
    /\ pc[o] = "idle" => met[o] = {}
    /\ pc[o] \in {"idle", "allowance", "approve"} => receipt[o] = "none"
    /\ o \in executed =>
          /\ kind[o] # "withdraw" /\ pc[o] \in {"mine", "poll", "confirmed", "failed"}
          /\ pc[o] = "failed" => "lost" \in met[o]
    /\ receipt[o] \in {"noAllowance", "noChips"} =>
          kind[o] = "deposit" /\ pc[o] \in {"mine", "poll", "confirmed", "failed"} /\ o \notin executed
    /\ pc[o] = "mine" /\ receipt[o] = "ok" => o \in executed
    /\ pc[o] \in {"poll", "confirmed"} /\ kind[o] # "withdraw" =>
          o \in executed \/ receipt[o] \in {"noAllowance", "noChips"}
    /\ o \in debited =>
          /\ kind[o] = "withdraw" /\ pc[o] \in {"release", "served", "confirmed", "failed"}
          /\ pc[o] = "failed" => "lost" \in met[o]
    /\ pc[o] \in {"release", "served"} \/ (pc[o] = "confirmed" /\ kind[o] = "withdraw") => o \in debited

\* A call has at most one transaction in the pool, and has no receipt of it.
PoolInv ==
    /\ \A i \in DOMAIN pool :
          LET o == pool[i].op IN
          /\ receipt[o] = "none" /\ o \notin executed /\ kind[o] # "withdraw"
          /\ \/ pc[o] = IF pool[i].what = "approve" THEN "mineApprove" ELSE "mine"
             \/ pc[o] = "failed" /\ "lost" \in met[o]
          /\ pool[i].what = "approve" => kind[o] = "deposit"
    /\ \A i, j \in DOMAIN pool : pool[i].op = pool[j].op => i = j

\* No other call was under way together with this one.
Single(o) == "overlap" \notin met[o]

\* A call that none overlapped is alone on the page and in the pool.
AloneInv ==
    \A o \in Open : Single(o) => Open = {o} /\ \A i \in DOMAIN pool : pool[i].op = o

\* Its transaction is the next to be mined, and what it approved is still there.
AllowanceInv ==
    \A o \in Op : Single(o) =>
        /\ \A i \in DOMAIN pool : pool[i].op = o =>
              i = 1 /\ (kind[o] = "deposit" /\ pool[i].what = "move" => amount[o] <= allowance)
        /\ kind[o] = "deposit" /\ (pc[o] = "send" \/ (pc[o] = "mineApprove" /\ receipt[o] = "ok"))
              => amount[o] <= allowance
        /\ receipt[o] # "noAllowance"

\* The steps a panel shows for a faucet, a deposit and a withdrawal.
FaucetSteps(o) ==
    /\ \A k \in Key \ {"mint"} : flow.steps[k] = "absent"
    /\ flow.steps["mint"] = IF pc[o] = "confirmed" THEN "done"
                            ELSE IF pc[o] = "failed" THEN "error" ELSE "active"

DepositSteps(o) ==
    LET approve == flow.steps["approve"]
        deposit == flow.steps["deposit"]
        credit == flow.steps["credit"]
    IN  /\ \A k \in {"mint", "request", "release"} : flow.steps[k] = "absent"
        /\ pc[o] \in {"approve", "mineApprove"} =>
              approve = "active" /\ deposit = "pending" /\ credit = "pending"
        /\ pc[o] \in {"send", "mine"} =>
              approve \in {"absent", "done"} /\ deposit = "active" /\ credit = "pending"
        /\ pc[o] = "poll" => approve \in {"absent", "done"} /\ deposit = "done" /\ credit = "active"
        /\ pc[o] = "confirmed" =>
              approve \in {"absent", "done"} /\ deposit = "done" /\ credit \in {"done", "error"}
        /\ pc[o] = "failed" => deposit \in {"error", "pending"} /\ credit = "pending"

WithdrawSteps(o) ==
    /\ \A k \in {"mint", "approve", "deposit", "credit"} : flow.steps[k] = "absent"
    /\ flow.steps["request"] = IF pc[o] = "confirmed" THEN "done"
                               ELSE IF pc[o] = "failed" THEN "error" ELSE "active"
    /\ flow.steps["release"] = IF pc[o] = "confirmed" THEN "done" ELSE "pending"

\* The flow is as far as its call.
Tells(o) ==
    /\ flow.done <=> Over(o) /\ ~(kind[o] = "withdraw" /\ pc[o] = "failed")
    /\ kind[o] = "faucet" => FaucetSteps(o)
    /\ kind[o] = "deposit" => DepositSteps(o)
    /\ kind[o] = "withdraw" => WithdrawSteps(o)

\* The flow of a call that none overlapped is its own: no other has started one.
FlowInv ==
    \A o \in Op : flow.of = {o} =>
        /\ pc[o] \notin {"idle", "allowance"}
        /\ Single(o) => Tells(o) /\ \A u \in Open : u # o => pc[u] = "allowance"

\* A deposit whose balance was fresh, and that nothing else raised, sees its credit.
CreditInv ==
    \A o \in Op : kind[o] = "deposit" /\ met[o] \cap {"stale", "raised", "overlap"} = {} =>
        /\ o \in Open => balance <= before[o] \/ o \in credited
        /\ flow.of = {o} /\ flow.steps["credit"] = "done" => o \in credited

\* The ledger covers what the page shows and what the slot has staked, unless it fell.
FellInv ==
    ~fell => /\ casino <= balance
             /\ \A s \in Spin : play[s] = "post" => stake[s] <= balance

CallsInv == \A o \in Op : CallInv(o)

\* The inductive invariant.
CashierInv ==
    /\ Types /\ CallsInv /\ PoolInv /\ AloneInv /\ AllowanceInv
    /\ FlowInv /\ CreditInv /\ BusyMeansUnderWay /\ FellInv

---------------------------------------------------------------------------
(* The cashier's types.                                                    *)

\* A raise of the balance notes itself on the calls under way.
LEMMA RaiseDoes ==
    ASSUME Types, NEW n, NEW who, Raise(n, who)
    PROVE  /\ balance' = balance + n /\ met' \in [Op -> SUBSET {"overlap", "stale", "raised", "lost", "unread"}]
           /\ \A u \in Op : met'[u] = IF u \in Open \ who THEN met[u] \cup {"raised"} ELSE met[u]
  BY DEF Types, MetType, Raise

\* The amounts of the calls are natural numbers.
LEMMA AmountsAreNatural ==
    ASSUME Types PROVE \A o \in Op : amount[o] \in Nat
  BY AmountsArePositive DEF Types, CallsType

\* A call goes from one point to another.
LEMMA CallsTypeKept ==
    ASSUME Types, Next PROVE CallsType'
<1>1. CallsType /\ casino \in Nat
  BY DEF Types, PageType
<1>2. ASSUME NEW o \in Op, NEW a \in Amounts, Deposit(o, a)
      PROVE  CallsType'
  <2>1. /\ amount' = [amount EXCEPT ![o] = a] /\ before' = [before EXCEPT ![o] = casino]
        /\ pc' = [pc EXCEPT ![o] = "allowance"] /\ UNCHANGED <<kind, polls>>
    BY <1>2 DEF Deposit, Goto
  <2>2. amount' \in [Op -> Amounts \cup {0}] /\ before' \in [Op -> Nat]
    BY <1>1, <2>1 DEF CallsType
  <2>3. pc' \in [Op -> Point]
    BY <1>1, <2>1 DEF CallsType, Point
  <2>4. QED
    BY <1>1, <2>1, <2>2, <2>3 DEF CallsType
<1>3. ASSUME NEW o \in Op, NEW a \in Amounts, Withdraw(o, a)
      PROVE  CallsType'
  BY <1>1, <1>3 DEF CallsType, Withdraw, Goto, Point
<1>4. ASSUME NEW o \in Op, Faucet(o) \/ SendMint(o) \/ MintMined(o) \/ FaucetFails(o) \/ ReadAllowance(o)
                           \/ AllowanceFails(o) \/ SendApprove(o) \/ ApproveMined(o)
      PROVE  CallsType'
  BY <1>1, <1>4 DEF CallsType, Faucet, SendMint, MintMined, FaucetFails, ReadAllowance, AllowanceFails,
     SendApprove, ApproveMined, Goto, Finish, Point
<1>5. ASSUME NEW o \in Op, SendDeposit(o) \/ DepositMined(o) \/ DepositFails(o) \/ PollEnds(o)
                           \/ WithdrawAnswered(o) \/ WithdrawFails(o) \/ Debit(o) \/ Release(o)
      PROVE  CallsType'
  BY <1>1, <1>5 DEF CallsType, SendDeposit, DepositMined, DepositFails, PollEnds, WithdrawAnswered,
     WithdrawFails, Debit, Release, Goto, Finish, Point
<1>6. ASSUME NEW o \in Op, Poll(o) \/ PollFails(o)
      PROVE  CallsType'
  BY <1>1, <1>6, NumbersAreNatural DEF CallsType, Poll, PollFails
<1>7. ASSUME NEW o \in Op, Credit(o)
      PROVE  CallsType'
  BY <1>1, <1>7 DEF CallsType, calls, Credit
<1>8. ASSUME NEW s \in Spin, PlayAnswered(s) \/ ServePlay(s) \/ \E n \in Stakes : Play(s, n)
      PROVE  CallsType'
  BY <1>1, <1>8 DEF CallsType, calls, PlayAnswered, ServePlay, Play
<1>9. CASE Close \/ Refetch \/ MineApprove \/ MineMint \/ MineDeposit
  BY <1>1, <1>9 DEF CallsType, calls, Close, Refetch, MineApprove, MineMint, MineDeposit
<1>10. QED
  BY <1>2, <1>3, <1>4, <1>5, <1>6, <1>7, <1>8, <1>9 DEF Next, OnPage, Elsewhere

\* What a call meets is one of five things.
LEMMA MetTypeKept ==
    ASSUME Types, Next PROVE MetType'
<1>1. MetType
  BY DEF Types
<1>2. ASSUME NEW o \in Op, Click(o)
      PROVE  MetType'
  BY <1>1, <1>2 DEF MetType, Click
<1>3. ASSUME NEW o \in Op, NEW what \in {"lost", "unread"}, Met(o, what)
      PROVE  MetType'
  BY <1>1, <1>3 DEF MetType, Met
<1>4. ASSUME NEW n, NEW who, Raise(n, who)
      PROVE  MetType'
  BY <1>4, RaiseDoes DEF MetType
<1>5. CASE UNCHANGED met
  BY <1>1, <1>5 DEF MetType
<1>6. ASSUME NEW o \in Op, FaucetFails(o) \/ DepositFails(o)
      PROVE  UNCHANGED met \/ Met(o, "lost")
  BY <1>6 DEF FaucetFails, DepositFails, SendFails, WaitFails
<1>7. ASSUME NEW o \in Op, WithdrawFails(o) \/ Release(o) \/ Credit(o) \/ AllowanceFails(o)
      PROVE  UNCHANGED met \/ Met(o, "lost") \/ Met(o, "unread") \/ Raise(amount[o], {o})
  BY <1>7 DEF WithdrawFails, Release, Credit, AllowanceFails
<1>8. ASSUME NEW s \in Spin, ServePlay(s)
      PROVE  UNCHANGED met \/ \E p \in Payouts : Raise(p - stake[s], {})
  BY <1>8 DEF ServePlay
<1>9. ASSUME NEW o \in Op, NEW a \in Amounts, Deposit(o, a) \/ Withdraw(o, a)
      PROVE  Click(o)
  BY <1>9 DEF Deposit, Withdraw
<1>10. ASSUME NEW o \in Op, Faucet(o)
       PROVE  Click(o)
  BY <1>10 DEF Faucet
<1>11. ASSUME NEW o \in Op,
              SendMint(o) \/ MintMined(o) \/ ReadAllowance(o) \/ SendApprove(o) \/ ApproveMined(o)
              \/ SendDeposit(o) \/ DepositMined(o) \/ Poll(o) \/ PollFails(o) \/ PollEnds(o)
              \/ WithdrawAnswered(o) \/ Debit(o)
       PROVE  UNCHANGED met
  BY <1>11 DEF SendMint, MintMined, ReadAllowance, SendApprove, ApproveMined, SendDeposit, DepositMined,
     Poll, PollFails, PollEnds, WithdrawAnswered, Debit, history
<1>12. ASSUME NEW s \in Spin, PlayAnswered(s) \/ \E n \in Stakes : Play(s, n)
       PROVE  UNCHANGED met
  BY <1>12 DEF PlayAnswered, Play, history
<1>13. CASE Close \/ Refetch \/ MineApprove \/ MineMint \/ MineDeposit
  BY <1>5, <1>13 DEF Close, Refetch, MineApprove, MineMint, MineDeposit, history
<1>14. QED
  BY <1>2, <1>3, <1>4, <1>5, <1>6, <1>7, <1>8, <1>9, <1>10, <1>11, <1>12, <1>13
     DEF Next, OnPage, Elsewhere

\* The two ways a call changes the flow.
LEMMA PatchDoes ==
    ASSUME FlowType, NEW patch, Patch(patch),
           \A k \in DOMAIN patch : patch[k] \in {"active", "done", "error"}
    PROVE  /\ FlowType' /\ flow'.of = flow.of
           /\ flow.of # {} =>
                /\ \A k \in Key : flow'.steps[k] = IF k \in DOMAIN patch /\ flow.steps[k] # "absent"
                                                 THEN patch[k] ELSE flow.steps[k]
                /\ flow'.done <=> \A k \in Key : flow'.steps[k] \in {"absent", "done", "error"}
<1> DEFINE St == {"absent", "pending", "active", "done", "error"}
           steps == [k \in Key |-> IF k \in DOMAIN patch /\ flow.steps[k] # "absent"
                                  THEN patch[k] ELSE flow.steps[k]]
<1>1. flow \in [of : SUBSET Op, done : BOOLEAN, steps : [Key -> St]]
  BY DEF FlowType
<1>2. CASE flow = NoFlow
  <2>1. flow' = flow /\ flow.of = {}
    BY <1>2 DEF Patch, NoFlow
  <2>2. QED
    BY <2>1 DEF FlowType
<1>3. CASE flow # NoFlow
  <2>1. flow' = [flow EXCEPT !.steps = steps, !.done = Settled(steps)]
    BY <1>3 DEF Patch
  <2>2. steps \in [Key -> St]
    BY <1>1
  <2>3. Settled(steps) \in BOOLEAN
    BY Zenon DEF Settled
  <2> HIDE DEF steps
  <2>4. /\ flow' \in [of : SUBSET Op, done : BOOLEAN, steps : [Key -> St]]
        /\ flow'.of = flow.of /\ flow'.steps = steps /\ flow'.done = Settled(steps)
    BY <1>1, <2>1, <2>2, <2>3
  <2>5. FlowType'
    BY <2>4 DEF FlowType
  <2>6. flow'.done <=> \A k \in Key : steps[k] \in {"absent", "done", "error"}
    BY <2>4 DEF Settled
  <2>7. \A k \in Key : steps[k] = IF k \in DOMAIN patch /\ flow.steps[k] # "absent"
                                 THEN patch[k] ELSE flow.steps[k]
    BY DEF steps
  <2>8. QED
    BY <2>4, <2>5, <2>6, <2>7
<1>4. QED
  BY <1>2, <1>3

\* A flow that starts, step by step.
LEMMA StartDoes ==
    ASSUME NEW o \in Op, NEW steps, StartFlow(o, steps),
           \A k \in DOMAIN steps : steps[k] \in {"pending", "active"}
    PROVE  /\ FlowType' /\ flow'.of = {o} /\ ~flow'.done
           /\ \A k \in Key : flow'.steps[k] = IF k \in DOMAIN steps THEN steps[k] ELSE "absent"
<1>1. flow' = [of |-> {o}, done |-> FALSE,
               steps |-> [k \in Key |-> IF k \in DOMAIN steps THEN steps[k] ELSE "absent"]]
  BY DEF StartFlow
<1>2. [k \in Key |-> IF k \in DOMAIN steps THEN steps[k] ELSE "absent"]
         \in [Key -> {"absent", "pending", "active", "done", "error"}]
  OBVIOUS
<1>3. QED
  BY <1>1, <1>2 DEF FlowType

\* A deposit that fails ends the flow there is.
FlowEnds ==
    flow' = IF flow = NoFlow THEN flow
            ELSE [flow EXCEPT !.done = TRUE,
                     !.steps = [k \in Key |-> IF @[k] = "active" THEN "error" ELSE @[k]]]

\* What a deposit's failure does to the flow, step by step.
LEMMA FlowEndsDoes ==
    ASSUME FlowType, FlowEnds
    PROVE  /\ FlowType' /\ flow'.of = flow.of
           /\ flow.of # {} =>
                /\ flow'.done
                /\ \A k \in Key : flow'.steps[k] = IF flow.steps[k] = "active" THEN "error" ELSE flow.steps[k]
<1> DEFINE St == {"absent", "pending", "active", "done", "error"}
           steps == [k \in Key |-> IF flow.steps[k] = "active" THEN "error" ELSE flow.steps[k]]
<1>1. flow \in [of : SUBSET Op, done : BOOLEAN, steps : [Key -> St]]
  BY DEF FlowType
<1>2. CASE flow = NoFlow
  <2>1. flow' = flow /\ flow.of = {}
    BY <1>2 DEF FlowEnds, NoFlow
  <2>2. QED
    BY <2>1 DEF FlowType
<1>3. CASE flow # NoFlow
  <2>1. flow' = [flow EXCEPT !.done = TRUE, !.steps = steps]
    BY <1>3, Zenon DEF FlowEnds
  <2>2. steps \in [Key -> St]
    BY <1>1
  <2> HIDE DEF steps
  <2>3. /\ flow' \in [of : SUBSET Op, done : BOOLEAN, steps : [Key -> St]]
        /\ flow'.of = flow.of /\ flow'.steps = steps /\ flow'.done = TRUE
    BY <1>1, <2>1, <2>2
  <2>4. \A k \in Key : steps[k] = IF flow.steps[k] = "active" THEN "error" ELSE flow.steps[k]
    BY DEF steps
  <2>5. FlowType'
    BY <2>3 DEF FlowType
  <2>6. QED
    BY <2>3, <2>4, <2>5
<1>4. QED
  BY <1>2, <1>3

\* The flow is none, or one call's, with one state for each step.
LEMMA FlowTypeKept ==
    ASSUME Types, Next PROVE FlowType'
<1>1. FlowType
  BY DEF Types
<1>2. CASE UNCHANGED flow
  BY <1>1, <1>2 DEF FlowType
<1>3. CASE Close
  <2>1. flow' = NoFlow
    BY <1>3 DEF Close
  <2>2. [k \in Key |-> "absent"] \in [Key -> {"absent", "pending", "active", "done", "error"}]
    OBVIOUS
  <2>3. QED
    BY <2>1, <2>2 DEF FlowType, NoFlow
<1>4. ASSUME NEW o \in Op,
             \/ Faucet(o) \/ ReadAllowance(o) \/ MintMined(o) \/ FaucetFails(o) \/ ApproveMined(o)
             \/ DepositMined(o) \/ DepositFails(o) \/ PollEnds(o) \/ WithdrawAnswered(o) \/ WithdrawFails(o)
             \/ \E a \in Amounts : Withdraw(o, a)
      PROVE  FlowType'
  <2>1. CASE Faucet(o)
    <3>1. StartFlow(o, [mint |-> "active"])
      BY <2>1 DEF Faucet
    <3>2. QED
      BY <3>1, StartDoes
  <2>2. CASE \E a \in Amounts : Withdraw(o, a)
    <3>1. StartFlow(o, [request |-> "active", release |-> "pending"])
      BY <2>2 DEF Withdraw
    <3>2. QED
      BY <3>1, StartDoes
  <2>3. CASE ReadAllowance(o)
    <3>1. \/ StartFlow(o, [approve |-> "active", deposit |-> "pending", credit |-> "pending"])
          \/ StartFlow(o, [deposit |-> "active", credit |-> "pending"])
      BY <2>3 DEF ReadAllowance
    <3>2. QED
      BY <3>1, StartDoes
  <2>4. CASE MintMined(o) \/ FaucetFails(o)
    BY <1>1, <2>4, PatchDoes DEF MintMined, FaucetFails
  <2>5. CASE ApproveMined(o) \/ DepositMined(o)
    BY <1>1, <2>5, PatchDoes DEF ApproveMined, DepositMined
  <2>6. CASE PollEnds(o)
    BY <1>1, <2>6, PatchDoes DEF PollEnds
  <2>7. CASE WithdrawAnswered(o) \/ WithdrawFails(o)
    BY <1>1, <2>7, PatchDoes DEF WithdrawAnswered, WithdrawFails
  <2>8. CASE DepositFails(o)
    <3>1. FlowEnds
      BY <2>8, Zenon DEF DepositFails, FlowEnds
    <3>2. QED
      BY <1>1, <3>1, FlowEndsDoes
  <2>9. QED
    BY <1>4, <2>1, <2>2, <2>3, <2>4, <2>5, <2>6, <2>7, <2>8
<1>5. ASSUME NEW o \in Op,
             \/ SendMint(o) \/ AllowanceFails(o) \/ SendApprove(o) \/ SendDeposit(o) \/ Poll(o)
             \/ PollFails(o) \/ Debit(o) \/ Release(o) \/ Credit(o) \/ \E a \in Amounts : Deposit(o, a)
      PROVE  UNCHANGED flow
  BY <1>5 DEF SendMint, AllowanceFails, SendApprove, SendDeposit, Poll, PollFails, Debit, Release, Credit,
     Deposit, page
<1>6. ASSUME NEW s \in Spin, PlayAnswered(s) \/ ServePlay(s) \/ \E n \in Stakes : Play(s, n)
      PROVE  UNCHANGED flow
  BY <1>6 DEF PlayAnswered, ServePlay, Play, page
<1>7. CASE Refetch \/ MineApprove \/ MineMint \/ MineDeposit
  BY <1>2, <1>7 DEF Refetch, MineApprove, MineMint, MineDeposit, page
<1>8. QED
  BY <1>2, <1>3, <1>4, <1>5, <1>6, <1>7 DEF Next, OnPage, Elsewhere

\* The balance read, and what it says of a fall.
LEMMA ReadDoes ==
    ASSUME Types, Read
    PROVE  /\ casino' = balance /\ casino' \in Nat /\ fell' \in BOOLEAN
           /\ fell' <=> (fell /\ \E s \in Spin : play[s] = "post")
<1>1. fell' = (fell /\ \E s \in Spin : play[s] = "post")
  BY DEF Read
<1>2. fell' \in BOOLEAN
  BY <1>1, Zenon
<1>3. fell' <=> (fell /\ \E s \in Spin : play[s] = "post")
  BY <1>1
<1>4. QED
  BY <1>2, <1>3 DEF Types, LedgerType, Read

\* What the page and the slot show.
LEMMA PageTypeKept ==
    ASSUME Types, Next PROVE PageType'
<1>1. PageType /\ CallsType
  BY DEF Types
<1>2. CASE Refetch
  BY <1>1, <1>2, ReadDoes DEF Refetch, PageType, rounds
<1>3. ASSUME NEW o \in Op, PollEnds(o) \/ WithdrawAnswered(o)
      PROVE  PageType'
  BY <1>1, <1>3, ReadDoes DEF PollEnds, WithdrawAnswered, Finish, PageType, rounds
<1>4. ASSUME NEW o \in Op, Faucet(o) \/ \E a \in Amounts : Deposit(o, a) \/ Withdraw(o, a)
      PROVE  PageType'
  BY <1>1, <1>4 DEF Faucet, Deposit, Withdraw, Click, PageType, CallsType, rounds
<1>5. ASSUME NEW o \in Op, MintMined(o) \/ FaucetFails(o) \/ DepositFails(o) \/ WithdrawFails(o)
      PROVE  PageType'
  BY <1>1, <1>5 DEF MintMined, FaucetFails, DepositFails, WithdrawFails, Finish, PageType, rounds, history
<1>6. ASSUME NEW o \in Op, ReadAllowance(o) \/ AllowanceFails(o) \/ ApproveMined(o) \/ DepositMined(o)
                           \/ SendMint(o) \/ SendApprove(o) \/ SendDeposit(o) \/ Poll(o) \/ PollFails(o)
      PROVE  PageType'
  BY <1>1, <1>6 DEF ReadAllowance, AllowanceFails, ApproveMined, DepositMined, SendMint, SendApprove,
     SendDeposit, Poll, PollFails, PageType, page, rounds, history
<1>7. ASSUME NEW o \in Op, Debit(o) \/ Release(o) \/ Credit(o)
      PROVE  PageType'
  BY <1>1, <1>7 DEF Debit, Release, Credit, PageType, page, rounds
<1>8. ASSUME NEW s \in Spin, PlayAnswered(s) \/ \E n \in Stakes : Play(s, n)
      PROVE  PageType'
  BY <1>1, <1>8 DEF PlayAnswered, Play, PageType, page, history
<1>9. ASSUME NEW s \in Spin, ServePlay(s)
      PROVE  PageType'
  BY <1>1, <1>9 DEF ServePlay, PageType, page
<1>10. CASE Close \/ MineApprove \/ MineMint \/ MineDeposit
  BY <1>1, <1>10 DEF Close, MineApprove, MineMint, MineDeposit, PageType, page, rounds, history
<1>11. QED
  BY <1>2, <1>3, <1>4, <1>5, <1>6, <1>7, <1>8, <1>9, <1>10 DEF Next, OnPage, Elsewhere

\* The pool, the receipts and the wallet; an executed call stays executed.
LEMMA ChainTypeKept ==
    ASSUME Types, Next PROVE ChainType' /\ executed \subseteq executed'
<1>1. ChainType /\ CallsType /\ Amounts \subseteq Nat /\ FaucetChips \in Nat /\ MaxFaults \in Nat
  BY AmountsArePositive, NumbersAreNatural DEF Types
<1>2. ASSUME NEW o \in Op, NEW what \in {"approve", "move"}, Submit(o, what)
      PROVE  ChainType' \/ faults' \notin 0 .. MaxFaults
  <2>1. pool' \in Seq([op : Op, what : {"approve", "move"}])
    BY <1>1, <1>2, AppendProperties DEF Submit, ChainType
  <2>2. QED
    BY <1>1, <1>2, <2>1 DEF Submit, ChainType
<1>3. Fault => faults' \in 0 .. MaxFaults
  BY <1>1 DEF Fault, ChainType
<1>4. ASSUME NEW o \in Op, \/ SendMint(o) \/ SendApprove(o) \/ SendDeposit(o) \/ FaucetFails(o)
                           \/ DepositFails(o)
      PROVE  /\ faults' \in 0 .. MaxFaults /\ executed' = executed
             /\ \/ \E what \in {"approve", "move"} : Submit(o, what)
                \/ UNCHANGED chain
  <2>1. CASE SendMint(o) \/ SendApprove(o) \/ SendDeposit(o)
    BY <1>1, <2>1 DEF SendMint, SendApprove, SendDeposit, Submit, ChainType
  <2>2. CASE FaucetFails(o)
    BY <1>3, <2>2 DEF FaucetFails, SendFails, WaitFails, Submit, chain
  <2>3. CASE DepositFails(o)
    BY <1>1, <1>3, <2>3 DEF DepositFails, SendFails, WaitFails, Submit, chain, ChainType
  <2>4. QED
    BY <1>4, <2>1, <2>2, <2>3
<1>5. ASSUME NEW o \in Op,
             \/ Faucet(o) \/ MintMined(o) \/ ReadAllowance(o) \/ AllowanceFails(o) \/ ApproveMined(o)
             \/ DepositMined(o) \/ Poll(o) \/ PollFails(o) \/ PollEnds(o) \/ WithdrawAnswered(o)
             \/ WithdrawFails(o) \/ Debit(o) \/ Credit(o)
             \/ \E a \in Amounts : Deposit(o, a) \/ Withdraw(o, a)
      PROVE  UNCHANGED chain /\ faults' \in 0 .. MaxFaults
  <2>1. UNCHANGED chain
    BY <1>5 DEF Faucet, Deposit, Withdraw, Click, MintMined, ReadAllowance, AllowanceFails, ApproveMined,
       DepositMined, Poll, PollFails, PollEnds, WithdrawAnswered, WithdrawFails, Debit, Credit
  <2>2. faults' = faults \/ Fault
    BY <1>5 DEF Faucet, Deposit, Withdraw, Click, MintMined, ReadAllowance, AllowanceFails, ApproveMined,
       DepositMined, Poll, PollFails, PollEnds, WithdrawAnswered, WithdrawFails, Debit, Credit
  <2>3. QED
    BY <1>1, <1>3, <2>1, <2>2 DEF ChainType
<1>6. ASSUME NEW s \in Spin, PlayAnswered(s) \/ ServePlay(s) \/ \E n \in Stakes : Play(s, n)
      PROVE  UNCHANGED chain /\ faults' \in 0 .. MaxFaults
  BY <1>1, <1>6 DEF PlayAnswered, ServePlay, Play, ChainType
<1>7. CASE Close \/ Refetch
  BY <1>1, <1>7 DEF Close, Refetch, ChainType, chain
<1>8. ASSUME NEW o \in Op, Release(o)
      PROVE  ChainType' /\ executed' = executed
  <2>1. amount[o] \in Nat
    BY AmountsAreNatural
  <2>2. UNCHANGED <<pool, receipt, executed, allowance, faults>> /\ chips' \in {chips, chips + amount[o]}
    BY <1>8 DEF Release
  <2>3. QED
    BY <1>1, <2>1, <2>2 DEF ChainType
<1>9. CASE MineApprove \/ MineMint \/ MineDeposit
  <2>1. /\ pool # <<>> /\ Head(pool).op \in Op /\ Tail(pool) \in Seq([op : Op, what : {"approve", "move"}])
        /\ amount[Head(pool).op] \in Nat
    <3>1. pool # <<>>
      BY <1>9 DEF MineApprove, MineMint, MineDeposit
    <3>2. Head(pool) \in [op : Op, what : {"approve", "move"}]
      BY <1>1, <3>1, HeadTailProperties DEF ChainType
    <3>3. QED
      BY <1>1, <3>1, <3>2, HeadTailProperties, AmountsAreNatural DEF ChainType
  <2> DEFINE o == Head(pool).op
  <2>2. CASE MineApprove
    BY <1>1, <2>1, <2>2 DEF MineApprove, Receipt, ChainType
  <2>3. CASE MineMint
    BY <1>1, <2>1, <2>3 DEF MineMint, Receipt, ChainType
  <2>4. CASE MineDeposit
    <3>1. /\ \E what \in {"ok", "noAllowance", "noChips"} : Receipt(o, what)
          /\ faults' = faults
          /\ \/ UNCHANGED <<executed, chips, allowance>>
             \/ /\ amount[o] <= allowance /\ amount[o] <= chips
                /\ chips' = chips - amount[o] /\ allowance' = allowance - amount[o]
                /\ executed' = executed \cup {o}
      <4>1. amount[o] \in Nat /\ allowance \in Nat /\ chips \in Nat
        BY <1>1, <2>1 DEF ChainType
      <4>2. QED
        BY <2>4, <4>1 DEF MineDeposit
    <3>2. PICK what \in {"ok", "noAllowance", "noChips"} : Receipt(o, what)
      BY <3>1
    <3>3. /\ pool' \in Seq([op : Op, what : {"approve", "move"}])
          /\ receipt' \in [Op -> {"none", "ok", "noAllowance", "noChips"}]
      BY <1>1, <2>1, <3>2 DEF Receipt, ChainType
    <3>4. executed' \subseteq Op /\ chips' \in Nat /\ allowance' \in Nat /\ executed \subseteq executed'
      BY <1>1, <2>1, <3>1 DEF ChainType
    <3>5. QED
      BY <1>1, <3>1, <3>3, <3>4 DEF ChainType
  <2>5. QED
    BY <1>9, <2>2, <2>3, <2>4
<1>10. CASE UNCHANGED chain /\ faults' \in 0 .. MaxFaults
  BY <1>1, <1>10 DEF ChainType, chain
<1>11. ASSUME NEW o \in Op, NEW what \in {"approve", "move"}, Submit(o, what), faults' \in 0 .. MaxFaults
       PROVE  ChainType' /\ executed' = executed
  BY <1>2, <1>11 DEF Submit
<1>12. QED
  BY <1>4, <1>5, <1>6, <1>7, <1>8, <1>9, <1>10, <1>11 DEF Next, OnPage, Elsewhere

\* The ledger balance is never negative: only what is there is staked or withdrawn.
LEMMA LedgerTypeKept ==
    ASSUME Types, Next PROVE LedgerType'
<1>1. /\ LedgerType /\ CallsType /\ PageType /\ executed \subseteq executed'
      /\ Amounts \cup Stakes \cup Payouts \subseteq Nat
  BY AmountsArePositive, NumbersAreNatural, ChainTypeKept DEF Types
<1>2. CASE UNCHANGED ledger
  BY <1>1, <1>2 DEF LedgerType, ledger
<1>3. ASSUME NEW s \in Spin, ServePlay(s)
      PROVE  LedgerType'
  <2>1. /\ UNCHANGED <<credited, debited>> /\ stake[s] \in Nat
        /\ \/ balance' = balance
           \/ stake[s] <= balance /\ \E p \in Payouts : balance' = balance + (p - stake[s])
    <3>1. stake[s] \in Nat /\ balance \in Nat
      BY <1>1 DEF PageType, LedgerType
    <3>2. CASE stake[s] > balance
      BY <1>3, <3>1, <3>2 DEF ServePlay
    <3>3. CASE ~(stake[s] > balance)
      <4>1. PICK p \in Payouts :
                  IF p > 0 THEN Raise(p - stake[s], {}) ELSE balance' = balance - stake[s]
        BY <1>3, <3>3 DEF ServePlay
      <4>2. balance' = balance + (p - stake[s])
        <5>1. p \in Nat
          BY <1>1
        <5>2. QED
          BY <3>1, <4>1, <5>1 DEF Raise
      <4>3. QED
        BY <1>3, <3>1, <3>3, <4>2 DEF ServePlay
    <3>4. QED
      BY <3>2, <3>3
  <2>2. balance' \in Nat
    BY <1>1, <2>1 DEF LedgerType
  <2>3. QED
    BY <1>1, <2>1, <2>2 DEF LedgerType
<1>4. ASSUME NEW o \in Op, Debit(o) \/ Release(o) \/ Credit(o)
      PROVE  LedgerType'
  <2>1. amount[o] \in Nat /\ balance \in Nat
    BY <1>1 DEF CallsType, LedgerType
  <2>2. CASE Debit(o)
    BY <1>1, <2>1, <2>2 DEF Debit, LedgerType
  <2>3. CASE Release(o)
    BY <1>1, <2>1, <2>3 DEF Release, Raise, LedgerType
  <2>4. CASE Credit(o)
    BY <1>1, <2>1, <2>4 DEF Credit, Raise, LedgerType
  <2>5. QED
    BY <1>4, <2>2, <2>3, <2>4
<1>5. ASSUME NEW o \in Op,
             \/ Faucet(o) \/ MintMined(o) \/ ReadAllowance(o) \/ AllowanceFails(o) \/ ApproveMined(o)
             \/ DepositMined(o) \/ Poll(o) \/ PollFails(o) \/ PollEnds(o) \/ WithdrawAnswered(o)
             \/ WithdrawFails(o) \/ SendMint(o) \/ SendApprove(o) \/ SendDeposit(o) \/ FaucetFails(o)
             \/ DepositFails(o)
             \/ \E a \in Amounts : Deposit(o, a) \/ Withdraw(o, a)
      PROVE  UNCHANGED ledger
  BY <1>5 DEF Faucet, Deposit, Withdraw, Click, MintMined, ReadAllowance, AllowanceFails, ApproveMined,
     DepositMined, Poll, PollFails, PollEnds, WithdrawAnswered, WithdrawFails, SendMint, SendApprove,
     SendDeposit, FaucetFails, DepositFails
<1>6. ASSUME NEW s \in Spin, PlayAnswered(s) \/ \E n \in Stakes : Play(s, n)
      PROVE  UNCHANGED ledger
  BY <1>6 DEF PlayAnswered, Play
<1>7. CASE Close \/ Refetch \/ MineApprove \/ MineMint \/ MineDeposit
  BY <1>2, <1>7 DEF Close, Refetch, MineApprove, MineMint, MineDeposit
<1>8. QED
  BY <1>2, <1>3, <1>4, <1>5, <1>6, <1>7 DEF Next, OnPage, Elsewhere

\* All the types are kept.
LEMMA TypesKept ==
    ASSUME Types, Next PROVE Types'
BY CallsTypeKept, MetTypeKept, FlowTypeKept, PageTypeKept, ChainTypeKept, LedgerTypeKept DEF Types

---------------------------------------------------------------------------
(* What a step does to the calls and their transactions.                   *)

\* A call that is not the step's own may see the balance raised, while it is open.
Noted(u) ==
    /\ met[u] \subseteq met'[u] /\ met'[u] \subseteq met[u] \cup {"raised"}
    /\ u \notin Open => met'[u] = met[u]

\* A call goes from p to q and meets what; the others stay.
Moves(o, p, q, what) ==
    /\ pc[o] = p /\ pc'[o] = q /\ met'[o] = met[o] \cup what
    /\ \A u \in Op : u # o => pc'[u] = pc[u] /\ Noted(u)
    /\ UNCHANGED <<kind, amount, before>>

\* The finally, which only the read of the allowance passes by.
Frees(o) == busy' = IF pc'[o] \in {"confirmed", "failed"} /\ pc[o] # "allowance" THEN "null" ELSE busy

\* A call goes on, or fails, and sends nothing.
LegStep(o) ==
    /\ UNCHANGED <<pool, receipt, executed, allowance>> /\ Frees(o)
    /\ \/ /\ debited' = debited
          /\ \/ Moves(o, "allowance", "approve", {})
             \/ Moves(o, "allowance", "send", {}) /\ amount[o] <= allowance
             \/ Moves(o, "allowance", "failed", {"unread"})
             \/ \E p \in {"approve", "send"} : Moves(o, p, "failed", {})
             \/ Moves(o, "mineApprove", "send", {}) /\ receipt[o] = "ok"
             \/ \E p \in {"mineApprove", "mine"} : Moves(o, p, "failed", {"lost"})
             \/ Moves(o, "mine", "confirmed", {}) /\ kind[o] = "faucet" /\ receipt[o] = "ok"
             \/ Moves(o, "mine", "poll", {}) /\ kind[o] = "deposit" /\ receipt[o] # "none"
             \/ Moves(o, "mine", "failed", {}) /\ receipt[o] \in {"noAllowance", "noChips"}
             \/ \E p \in {"poll", "served"} : Moves(o, p, "confirmed", {})
             \/ Moves(o, "refused", "failed", {})
             \/ \E p \in {"post", "served"} : Moves(o, p, "failed", {"lost"})
             \/ Moves(o, "post", "refused", {}) \/ Moves(o, "release", "served", {})
       \/ debited' = debited \cup {o} /\ Moves(o, "post", "release", {})
       \/ debited' = debited \ {o} /\ Moves(o, "release", "refused", {})

\* A call sends a transaction, and may not hear of it.
SubmitStep(o) ==
    /\ UNCHANGED <<executed, allowance, debited>>
    /\ receipt' = [receipt EXCEPT ![o] = "none"]
    /\ Frees(o)
    /\ \/ /\ pool' = Append(pool, [op |-> o, what |-> "approve"])
          /\ Moves(o, "approve", "mineApprove", {}) \/ Moves(o, "approve", "failed", {"lost"})
       \/ /\ pool' = Append(pool, [op |-> o, what |-> "move"])
          /\ Moves(o, "send", "mine", {}) \/ Moves(o, "send", "failed", {"lost"})

\* The first transaction of the pool is mined.
MineStep ==
    /\ pool # <<>> /\ pool' = Tail(pool)
    /\ UNCHANGED <<pc, kind, amount, before, met, debited, busy>>
    /\ LET o == Head(pool).op
       IN  \/ /\ Head(pool).what = "approve" /\ allowance' = amount[o] /\ executed' = executed
              /\ receipt' = [receipt EXCEPT ![o] = "ok"]
           \/ /\ Head(pool).what = "move" /\ allowance' \in {allowance, allowance - amount[o]}
              /\ executed' = executed \cup {o}
              /\ receipt' = [receipt EXCEPT ![o] = "ok"]
           \/ /\ Head(pool).what = "move" /\ kind[o] = "deposit" /\ UNCHANGED <<allowance, executed>>
              /\ \/ receipt' = [receipt EXCEPT ![o] = "noAllowance"] /\ allowance < amount[o]
                 \/ receipt' = [receipt EXCEPT ![o] = "noChips"]

\* Where a click leads.
Start(k) == CASE k = "faucet" -> "send" [] k = "deposit" -> "allowance" [] k = "withdraw" -> "post"

\* A call starts and overlaps those that are open.
ClickStep(o) ==
    /\ UNCHANGED chain /\ UNCHANGED <<kind, debited>>
    /\ pc[o] = "idle" /\ pc'[o] = Start(kind[o]) /\ busy' = kind[o]
    /\ \A u \in Op : u # o =>
          /\ pc'[u] = pc[u] /\ amount'[u] = amount[u] /\ before'[u] = before[u]
          /\ met'[u] = IF u \in Open THEN met[u] \cup {"overlap"} ELSE met[u]
    /\ "overlap" \notin met'[o] => Open = {} /\ pool = <<>>
    /\ met'[o] \subseteq {"overlap", "stale"}

\* No call moves.
StillStep ==
    /\ UNCHANGED chain /\ UNCHANGED <<pc, kind, amount, before, debited, busy>>
    /\ \A u \in Op : Noted(u)

\* Where a call is says which kind it is.
LEMMA KindOf ==
    ASSUME Types, CallsInv, NEW o \in Op
    PROVE  /\ pc[o] \in {"allowance", "approve", "mineApprove", "poll"} => kind[o] = "deposit"
           /\ pc[o] \in {"post", "release", "served", "refused"} => kind[o] = "withdraw"
           /\ pc[o] \in {"send", "mine"} => kind[o] \in {"faucet", "deposit"}
<1>1. kind[o] \in {"faucet", "deposit", "withdraw"} /\ pc[o] \in PointsOf(kind[o])
  BY DEF Types, CallsType, Kind, CallsInv, CallInv
<1>2. QED
  BY <1>1 DEF PointsOf

\* A click on any of the three buttons.
LEMMA ClickIsClick ==
    ASSUME Types, NEW o \in Op, Click(o), Goto(o, Start(kind[o])), UNCHANGED kind,
           \A u \in Op : u # o => amount'[u] = amount[u] /\ before'[u] = before[u]
    PROVE  ClickStep(o)
<1>1. pc' = [pc EXCEPT ![o] = Start(kind[o])] /\ pc \in [Op -> Point]
  BY DEF Goto, Types, CallsType
<1>2. /\ pc[o] = "idle" /\ UNCHANGED chain /\ UNCHANGED debited /\ busy' = kind[o]
      /\ met' = [u \in Op |->
                 IF u = o THEN {e \in {"overlap", "stale"} :
                                   \/ e = "overlap" /\ (Open # {} \/ pool # <<>>)
                                   \/ e = "stale" /\ casino # balance}
                 ELSE IF u \in Open THEN met[u] \cup {"overlap"} ELSE met[u]]
  BY DEF Click, ledger
<1>3. /\ met'[o] \subseteq {"overlap", "stale"}
      /\ "overlap" \notin met'[o] => Open = {} /\ pool = <<>>
  BY <1>2
<1>4. \A u \in Op : u # o => met'[u] = IF u \in Open THEN met[u] \cup {"overlap"} ELSE met[u]
  BY <1>2
<1>5. \A u \in Op : u # o => pc'[u] = pc[u]
  BY <1>1
<1>6. pc'[o] = Start(kind[o])
  BY <1>1
<1>7. QED
  BY <1>2, <1>3, <1>4, <1>5, <1>6 DEF ClickStep

\* A call goes on: what it has met is unchanged, or noted, or the balance is raised.
LEMMA MovesIs ==
    ASSUME Types, NEW o \in Op, NEW p, NEW q, pc[o] = p, Goto(o, q), UNCHANGED <<kind, amount, before>>
    PROVE  /\ UNCHANGED met => Moves(o, p, q, {})
           /\ \A what : Met(o, what) => Moves(o, p, q, {what})
           /\ \A n : Raise(n, {o}) => Moves(o, p, q, {})
<1>1. /\ pc' = [pc EXCEPT ![o] = q] /\ pc \in [Op -> Point]
      /\ met \in [Op -> SUBSET {"overlap", "stale", "raised", "lost", "unread"}]
  BY DEF Goto, Types, CallsType, MetType
<1>2. pc'[o] = q /\ \A u \in Op : u # o => pc'[u] = pc[u]
  BY <1>1
<1>3. ASSUME UNCHANGED met PROVE Moves(o, p, q, {})
  BY <1>2, <1>3 DEF Moves, Noted
<1>4. ASSUME NEW what, Met(o, what) PROVE Moves(o, p, q, {what})
  <2>1. met' = [met EXCEPT ![o] = @ \cup {what}]
    BY <1>4 DEF Met
  <2>2. met'[o] = met[o] \cup {what} /\ \A u \in Op : u # o => met'[u] = met[u]
    BY <1>1, <2>1
  <2>3. QED
    BY <1>2, <2>2 DEF Moves, Noted
<1>5. ASSUME NEW n, Raise(n, {o}) PROVE Moves(o, p, q, {})
  <2>1. \A u \in Op : met'[u] = IF u \in Open \ {o} THEN met[u] \cup {"raised"} ELSE met[u]
    BY <1>5, RaiseDoes
  <2>2. QED
    BY <1>2, <2>1 DEF Moves, Noted
<1>6. QED
  BY <1>3, <1>4, <1>5

\* A call that ends by its finally frees the buttons; one that goes on does not.
LEMMA FreesIs ==
    ASSUME Types, NEW o \in Op, NEW q, Goto(o, q)
    PROVE  /\ busy' = "null" /\ pc[o] # "allowance" /\ q \in {"confirmed", "failed"} => Frees(o)
           /\ busy' = busy /\ (pc[o] = "allowance" \/ q \notin {"confirmed", "failed"}) => Frees(o)
<1>1. pc'[o] = q
  BY DEF Goto, Types, CallsType
<1>2. QED
  BY <1>1 DEF Frees

\* The first transaction of the pool, and the others.
LEMMA HeadIsFirst ==
    ASSUME ChainType, pool # <<>>
    PROVE  /\ 1 \in DOMAIN pool /\ Head(pool) = pool[1] /\ Head(pool) \in [op : Op, what : {"approve", "move"}]
           /\ \A i \in DOMAIN Tail(pool) :
                 i \in Nat /\ i + 1 \in DOMAIN pool /\ i + 1 # 1 /\ Tail(pool)[i] = pool[i + 1]
<1>1. /\ pool \in Seq([op : Op, what : {"approve", "move"}]) /\ Len(pool) \in Nat
      /\ DOMAIN pool = 1 .. Len(pool) /\ Len(pool) # 0
  BY EmptySeq DEF ChainType
<1>2. 1 \in DOMAIN pool
  BY <1>1
<1>3. /\ Head(pool) = pool[1] /\ Len(Tail(pool)) = Len(pool) - 1
      /\ Tail(pool) \in Seq([op : Op, what : {"approve", "move"}])
      /\ \A i \in 1 .. Len(pool) - 1 : Tail(pool)[i] = pool[i + 1]
  BY <1>1
<1>4. DOMAIN Tail(pool) = 1 .. Len(pool) - 1
  BY <1>1, <1>3
<1>5. pool[1] \in [op : Op, what : {"approve", "move"}]
  BY <1>1, <1>2, ElementOfSeq
<1>6. QED
  BY <1>1, <1>2, <1>3, <1>4, <1>5

\* Every step is of one of the five shapes.
LEMMA StepsHaveShapes ==
    ASSUME Types, CallsInv, PoolInv, Next
    PROVE  StillStep \/ MineStep \/ \E o \in Op : LegStep(o) \/ SubmitStep(o) \/ ClickStep(o)
<1>1. ASSUME UNCHANGED chain, UNCHANGED calls, UNCHANGED <<debited, met, busy>>
      PROVE  StillStep
  BY <1>1 DEF StillStep, Noted, calls
<1>2. ASSUME UNCHANGED chain, UNCHANGED calls, UNCHANGED <<debited, busy>>, NEW n, NEW who, Raise(n, who)
      PROVE  StillStep
  BY <1>2, RaiseDoes DEF StillStep, Noted, calls
<1>3. CASE Close \/ Refetch
  BY <1>1, <1>3 DEF Close, Refetch, ledger, history
<1>4. ASSUME NEW s \in Spin, PlayAnswered(s) \/ (\E n \in Stakes : Play(s, n)) \/ ServePlay(s)
      PROVE  StillStep
  <2>1. CASE PlayAnswered(s) \/ (\E n \in Stakes : Play(s, n))
    BY <1>1, <2>1 DEF PlayAnswered, Play, ledger, history, page
  <2>2. CASE ServePlay(s)
    BY <1>1, <1>2, <2>2 DEF ServePlay, page
  <2>3. QED
    BY <1>4, <2>1, <2>2
<1>5. ASSUME NEW o \in Op, Faucet(o)
      PROVE  ClickStep(o)
  BY <1>5, ClickIsClick DEF Faucet, Start
<1>6. ASSUME NEW o \in Op, NEW a \in Amounts, Deposit(o, a) \/ Withdraw(o, a)
      PROVE  ClickStep(o)
  <2>1. /\ Click(o) /\ UNCHANGED kind /\ Goto(o, Start(kind[o]))
        /\ amount' = [amount EXCEPT ![o] = a]
        /\ before' = before \/ before' = [before EXCEPT ![o] = casino]
    BY <1>6 DEF Deposit, Withdraw, Start
  <2>2. \A u \in Op : u # o => amount'[u] = amount[u] /\ before'[u] = before[u]
    BY <2>1 DEF Types, CallsType
  <2>3. QED
    BY <2>1, <2>2, ClickIsClick
<1>7. ASSUME NEW o \in Op, Poll(o) \/ PollFails(o) \/ Credit(o)
      PROVE  StillStep
  <2>1. CASE Poll(o) \/ PollFails(o)
    BY <2>1 DEF Poll, PollFails, StillStep, Noted, ledger, history, page
  <2>2. CASE Credit(o)
    BY <1>2, <2>2 DEF Credit, page
  <2>3. QED
    BY <1>7, <2>1, <2>2
<1>8. ASSUME NEW o \in Op, SendMint(o) \/ SendApprove(o) \/ SendDeposit(o)
      PROVE  SubmitStep(o)
  <2>1. UNCHANGED <<kind, amount, before, met, debited, busy>>
    BY <1>8 DEF SendMint, SendApprove, SendDeposit, ledger, history, page
  <2>2. \/ pc[o] = "approve" /\ Goto(o, "mineApprove") /\ Submit(o, "approve")
        \/ pc[o] = "send" /\ Goto(o, "mine") /\ Submit(o, "move")
    BY <1>8 DEF SendMint, SendApprove, SendDeposit
  <2>3. Frees(o)
    BY <2>1, <2>2, FreesIs
  <2>4. \/ Moves(o, "approve", "mineApprove", {}) /\ Submit(o, "approve")
        \/ Moves(o, "send", "mine", {}) /\ Submit(o, "move")
    BY <2>1, <2>2, MovesIs
  <2>5. QED
    BY <2>1, <2>3, <2>4 DEF SubmitStep, Submit
<1>9. ASSUME NEW o \in Op, MintMined(o) \/ ReadAllowance(o) \/ AllowanceFails(o) \/ ApproveMined(o) \/ DepositMined(o)
      PROVE  LegStep(o)
  <2>1. /\ UNCHANGED <<kind, amount, before, debited>>
        /\ UNCHANGED <<pool, receipt, executed, allowance>>
    BY <1>9 DEF MintMined, ReadAllowance, AllowanceFails, ApproveMined, DepositMined, ledger, chain
  <2>2. amount[o] \in Nat /\ allowance \in Nat
    BY AmountsAreNatural DEF Types, ChainType
  <2>3. CASE MintMined(o)
    <3>1. /\ pc[o] = "mine" /\ Goto(o, "confirmed") /\ busy' = "null" /\ met' = met
          /\ kind[o] = "faucet" /\ receipt[o] = "ok"
      BY <2>3 DEF MintMined, Finish, history
    <3>2. Moves(o, "mine", "confirmed", {}) /\ Frees(o)
      BY <2>1, <3>1, MovesIs, FreesIs
    <3>3. QED
      BY <2>1, <3>1, <3>2 DEF LegStep
  <2>4. CASE ReadAllowance(o)
    <3>1. /\ pc[o] = "allowance" /\ UNCHANGED <<met, busy>>
          /\ Goto(o, "approve") \/ (Goto(o, "send") /\ amount[o] <= allowance)
      BY <2>2, <2>4 DEF ReadAllowance, NeedsApprove, history
    <3>2. Frees(o)
      BY <3>1, FreesIs
    <3>3. \/ Moves(o, "allowance", "approve", {})
          \/ Moves(o, "allowance", "send", {}) /\ amount[o] <= allowance
      BY <2>1, <3>1, MovesIs
    <3>4. QED
      BY <2>1, <3>2, <3>3 DEF LegStep
  <2>5. CASE AllowanceFails(o)
    <3>1. pc[o] = "allowance" /\ Goto(o, "failed") /\ busy' = busy /\ Met(o, "unread")
      BY <2>5 DEF AllowanceFails, page
    <3>2. Moves(o, "allowance", "failed", {"unread"}) /\ Frees(o)
      BY <2>1, <3>1, MovesIs, FreesIs
    <3>3. QED
      BY <2>1, <3>2 DEF LegStep
  <2>6. CASE ApproveMined(o) \/ DepositMined(o)
    <3>1. /\ UNCHANGED <<busy, met>>
          /\ \/ pc[o] = "mineApprove" /\ Goto(o, "send") /\ receipt[o] = "ok"
             \/ pc[o] = "mine" /\ Goto(o, "poll") /\ kind[o] = "deposit" /\ receipt[o] # "none"
      BY <2>6 DEF ApproveMined, DepositMined, history
    <3>2. Frees(o)
      BY <3>1, FreesIs
    <3>3. \/ Moves(o, "mineApprove", "send", {}) /\ receipt[o] = "ok"
          \/ Moves(o, "mine", "poll", {}) /\ kind[o] = "deposit" /\ receipt[o] # "none"
      BY <2>1, <3>1, MovesIs
    <3>4. QED
      BY <2>1, <3>2, <3>3 DEF LegStep
  <2>7. QED
    BY <1>9, <2>3, <2>4, <2>5, <2>6
<1>10. ASSUME NEW o \in Op, FaucetFails(o) \/ DepositFails(o)
       PROVE  LegStep(o) \/ SubmitStep(o)
  <2>1. UNCHANGED <<kind, amount, before, debited>> /\ Goto(o, "failed") /\ busy' = "null"
    BY <1>10 DEF FaucetFails, DepositFails, Finish, ledger
  <2>2. \/ pc[o] \in {"approve", "send"} /\ UNCHANGED <<chain, met>>
        \/ pc[o] = "approve" /\ Submit(o, "approve") /\ Met(o, "lost")
        \/ pc[o] = "send" /\ Submit(o, "move") /\ Met(o, "lost")
        \/ pc[o] \in {"mine", "mineApprove"} /\ UNCHANGED chain /\ Met(o, "lost")
        \/ /\ pc[o] = "mine" /\ UNCHANGED <<chain, met>>
           /\ receipt[o] \in {"noAllowance", "noChips"}
    BY <1>10 DEF FaucetFails, DepositFails, SendFails, WaitFails, Reverted
  <2>3. Frees(o)
    BY <2>1, <2>2, FreesIs
  <2>4. \/ (\E p \in {"approve", "send"} : Moves(o, p, "failed", {})) /\ UNCHANGED chain
        \/ Moves(o, "approve", "failed", {"lost"}) /\ Submit(o, "approve")
        \/ Moves(o, "send", "failed", {"lost"}) /\ Submit(o, "move")
        \/ (\E p \in {"mineApprove", "mine"} : Moves(o, p, "failed", {"lost"})) /\ UNCHANGED chain
        \/ /\ Moves(o, "mine", "failed", {}) /\ receipt[o] \in {"noAllowance", "noChips"}
           /\ UNCHANGED chain
    BY <2>1, <2>2, MovesIs
  <2>5. QED
    BY <2>1, <2>3, <2>4 DEF LegStep, SubmitStep, Submit, chain
<1>11. ASSUME NEW o \in Op, PollEnds(o) \/ WithdrawAnswered(o) \/ WithdrawFails(o)
       PROVE  LegStep(o)
  <2>1. UNCHANGED <<kind, amount, before, debited>> /\ UNCHANGED chain
    BY <1>11 DEF PollEnds, WithdrawAnswered, WithdrawFails, ledger
  <2>2. CASE PollEnds(o) \/ WithdrawAnswered(o)
    <3>1. /\ pc[o] \in {"poll", "served"} /\ Goto(o, "confirmed") /\ busy' = "null"
          /\ met' = met /\ debited' = debited
      BY <2>2 DEF PollEnds, WithdrawAnswered, Finish, ledger
    <3>2. Frees(o) /\ \E p \in {"poll", "served"} : Moves(o, p, "confirmed", {})
      BY <2>1, <3>1, MovesIs, FreesIs
    <3>3. QED
      BY <2>1, <3>1, <3>2 DEF LegStep, chain
  <2>3. CASE WithdrawFails(o)
    <3>1. /\ Goto(o, "failed") /\ busy' = "null" /\ debited' = debited
          /\ \/ pc[o] = "refused" /\ met' = met
             \/ pc[o] \in {"post", "served"} /\ Met(o, "lost")
      BY <2>3 DEF WithdrawFails, Finish, ledger
    <3>2. Frees(o) /\ \/ Moves(o, "refused", "failed", {})
                      \/ \E p \in {"post", "served"} : Moves(o, p, "failed", {"lost"})
      BY <2>1, <3>1, MovesIs, FreesIs
    <3>3. QED
      BY <2>1, <3>1, <3>2 DEF LegStep, chain
  <2>4. QED
    BY <1>11, <2>2, <2>3
<1>12. ASSUME NEW o \in Op, Debit(o) \/ Release(o)
       PROVE  LegStep(o)
  <2>1. UNCHANGED <<kind, amount, before, busy>> /\ UNCHANGED <<pool, receipt, executed, allowance>>
    BY <1>12 DEF Debit, Release, chain, page
  <2>2. CASE Debit(o)
    <3>1. /\ pc[o] = "post" /\ met' = met
          /\ \/ debited' = debited \cup {o} /\ Goto(o, "release")
             \/ debited' = debited /\ Goto(o, "refused")
      BY <2>2 DEF Debit
    <3>2. Frees(o)
      BY <2>1, <3>1, FreesIs
    <3>3. \/ debited' = debited \cup {o} /\ Moves(o, "post", "release", {})
          \/ debited' = debited /\ Moves(o, "post", "refused", {})
      BY <2>1, <3>1, MovesIs
    <3>4. QED
      BY <2>1, <3>2, <3>3 DEF LegStep
  <2>3. CASE Release(o)
    <3>1. /\ pc[o] = "release"
          /\ \/ debited' = debited /\ met' = met /\ Goto(o, "served")
             \/ debited' = debited \ {o} /\ Raise(amount[o], {o}) /\ Goto(o, "refused")
      BY <2>3 DEF Release
    <3>2. Frees(o)
      BY <2>1, <3>1, FreesIs
    <3>3. \/ debited' = debited /\ Moves(o, "release", "served", {})
          \/ debited' = debited \ {o} /\ Moves(o, "release", "refused", {})
      BY <2>1, <3>1, MovesIs
    <3>4. QED
      BY <2>1, <3>2, <3>3 DEF LegStep
  <2>4. QED
    BY <1>12, <2>2, <2>3
<1>13. CASE MineApprove \/ MineMint \/ MineDeposit
  <2>1. UNCHANGED <<pc, kind, amount, before, met, debited, busy>> /\ pool # <<>>
    BY <1>13 DEF MineApprove, MineMint, MineDeposit, calls, ledger, history, page
  <2>2. CASE MineApprove
    BY <2>1, <2>2 DEF MineApprove, Receipt, MineStep
  <2>3. CASE MineMint
    <3>1. Head(pool).what = "move"
      <4>1. 1 \in DOMAIN pool /\ Head(pool) = pool[1] /\ pool[1].what \in {"approve", "move"}
        BY <2>1, HeadIsFirst DEF Types
      <4>2. kind[pool[1].op] = "faucet"
        BY <2>3, <4>1 DEF MineMint
      <4>3. QED
        BY <4>1, <4>2 DEF PoolInv
    <3>2. QED
      BY <2>1, <2>3, <3>1 DEF MineMint, Receipt, MineStep
  <2>4. CASE MineDeposit
    BY <2>1, <2>4 DEF MineDeposit, Receipt, MineStep
  <2>5. QED
    BY <1>13, <2>2, <2>3, <2>4
<1>14. QED
  BY <1>3, <1>4, <1>5, <1>6, <1>7, <1>8, <1>9, <1>10, <1>11, <1>12, <1>13 DEF Next, OnPage, Elsewhere

---------------------------------------------------------------------------
(* The calls, one by one.                                                  *)

\* A call that moves is open until it is over; the others stay as they are.
LEMMA OpenAfter ==
    ASSUME NEW o \in Op, NEW p, NEW q, NEW what, Moves(o, p, q, what), p # "idle"
    PROVE  /\ \A u \in Op : u \in Open' <=> IF u = o THEN q \notin {"idle", "confirmed", "failed"} ELSE u \in Open
           /\ o \in Open <=> p \notin {"confirmed", "failed"}
  BY DEF Moves, Open, Over

\* A call that does not move, and whose transaction is not mined.
LEMMA UnmovedCall ==
    ASSUME NEW u \in Op, CallInv(u), UNCHANGED kind, pc'[u] = pc[u], receipt'[u] = receipt[u],
           met[u] \subseteq met'[u], pc[u] = "idle" => met'[u] = met[u],
           u \in executed' <=> u \in executed, u \in debited' <=> u \in debited
    PROVE  CallInv(u)'
  BY DEF CallInv

\* A call goes on or fails, and sends nothing.
LEMMA LegKeepsCalls ==
    ASSUME Types, CallsInv, PoolInv, NEW o \in Op, LegStep(o)
    PROVE  CallsInv'
<1>1. UNCHANGED kind /\ UNCHANGED <<receipt, executed>>
  BY DEF LegStep, Moves
<1>2. ASSUME NEW u \in Op, u # o PROVE CallInv(u)'
  <2>1. pc'[u] = pc[u] /\ Noted(u) /\ (u \in debited' <=> u \in debited)
    BY <1>2 DEF LegStep, Moves
  <2>2. pc[u] = "idle" => u \notin Open
    BY DEF Open
  <2>3. CallInv(u)
    BY DEF CallsInv
  <2>4. met[u] \subseteq met'[u] /\ (pc[u] = "idle" => met'[u] = met[u])
    BY <2>1, <2>2 DEF Noted
  <2>5. QED
    BY <1>1, <2>1, <2>3, <2>4, UnmovedCall
<1>3. CallInv(o)'
  <2>1. CallInv(o) /\ kind[o] \in {"faucet", "deposit", "withdraw"}
        /\ receipt[o] \in {"none", "ok", "noAllowance", "noChips"}
    BY DEF Types, CallsType, ChainType, Kind, CallsInv
  <2>2. CASE debited' = debited
    <3>1. CASE \/ Moves(o, "allowance", "approve", {}) \/ Moves(o, "allowance", "send", {})
               \/ Moves(o, "allowance", "failed", {"unread"})
               \/ \E p \in {"approve", "send"} : Moves(o, p, "failed", {})
               \/ Moves(o, "mineApprove", "send", {}) /\ receipt[o] = "ok"
               \/ \E p \in {"mineApprove", "mine"} : Moves(o, p, "failed", {"lost"})
      BY <1>1, <2>1, <2>2, <3>1 DEF CallInv, PointsOf, Moves
    <3>2. CASE \/ Moves(o, "mine", "confirmed", {}) /\ kind[o] = "faucet" /\ receipt[o] = "ok"
               \/ Moves(o, "mine", "poll", {}) /\ kind[o] = "deposit" /\ receipt[o] # "none"
               \/ Moves(o, "mine", "failed", {}) /\ receipt[o] \in {"noAllowance", "noChips"}
      BY <1>1, <2>1, <2>2, <3>2 DEF CallInv, PointsOf, Moves
    <3>3. CASE \/ \E p \in {"poll", "served"} : Moves(o, p, "confirmed", {})
               \/ Moves(o, "refused", "failed", {})
               \/ \E p \in {"post", "served"} : Moves(o, p, "failed", {"lost"})
               \/ Moves(o, "post", "refused", {}) \/ Moves(o, "release", "served", {})
      BY <1>1, <2>1, <2>2, <3>3 DEF CallInv, PointsOf, Moves
    <3>4. CASE \/ debited' = debited \cup {o} /\ Moves(o, "post", "release", {})
               \/ debited' = debited \ {o} /\ Moves(o, "release", "refused", {})
      BY <1>1, <2>1, <3>4 DEF CallInv, PointsOf, Moves
    <3>5. QED
      BY <3>1, <3>2, <3>3, <3>4 DEF LegStep
  <2>3. CASE \/ debited' = debited \cup {o} /\ Moves(o, "post", "release", {})
             \/ debited' = debited \ {o} /\ Moves(o, "release", "refused", {})
    BY <1>1, <2>1, <2>3 DEF CallInv, PointsOf, Moves
  <2>4. QED
    BY <2>2, <2>3 DEF LegStep
<1>4. QED
  BY <1>2, <1>3 DEF CallsInv

\* A call sends a transaction.
LEMMA SubmitKeepsCalls ==
    ASSUME Types, CallsInv, PoolInv, NEW o \in Op, SubmitStep(o)
    PROVE  CallsInv'
<1>1. /\ UNCHANGED kind /\ UNCHANGED <<executed, debited>>
      /\ receipt'[o] = "none" /\ \A u \in Op : u # o => receipt'[u] = receipt[u]
  BY DEF SubmitStep, Moves, Types, ChainType
<1>2. ASSUME NEW u \in Op, u # o PROVE CallInv(u)'
  <2>1. pc'[u] = pc[u] /\ Noted(u)
    BY <1>2 DEF SubmitStep, Moves
  <2>2. pc[u] = "idle" => u \notin Open
    BY DEF Open
  <2>3. CallInv(u)
    BY DEF CallsInv
  <2>4. met[u] \subseteq met'[u] /\ (pc[u] = "idle" => met'[u] = met[u])
    BY <2>1, <2>2 DEF Noted
  <2>5. QED
    BY <1>1, <1>2, <2>1, <2>3, <2>4, UnmovedCall
<1>3. CallInv(o)'
  <2>1. CallInv(o) /\ kind[o] \in {"faucet", "deposit", "withdraw"}
    BY DEF Types, CallsType, Kind, CallsInv
  <2>2. QED
    BY <1>1, <2>1 DEF CallInv, PointsOf, Moves, SubmitStep
<1>4. QED
  BY <1>2, <1>3 DEF CallsInv

\* The first transaction is mined.
LEMMA MineKeepsCalls ==
    ASSUME Types, CallsInv, PoolInv, MineStep
    PROVE  CallsInv'
<1>1. PICK o \in Op : o = Head(pool).op
  BY HeadIsFirst DEF Types, MineStep
<1>2. /\ receipt[o] = "none" /\ o \notin executed /\ kind[o] # "withdraw"
      /\ \/ pc[o] = IF Head(pool).what = "approve" THEN "mineApprove" ELSE "mine"
         \/ pc[o] = "failed" /\ "lost" \in met[o]
      /\ Head(pool).what = "approve" => kind[o] = "deposit"
      /\ receipt \in [Op -> {"none", "ok", "noAllowance", "noChips"}]
  <2>1. 1 \in DOMAIN pool /\ Head(pool) = pool[1]
    BY HeadIsFirst DEF Types, MineStep
  <2>2. QED
    BY <1>1, <2>1 DEF PoolInv, Types, ChainType
<1>3. UNCHANGED <<pc, kind, met, debited>>
  BY DEF MineStep
<1>4. \/ Head(pool).what = "approve" /\ executed' = executed /\ receipt' = [receipt EXCEPT ![o] = "ok"]
      \/ Head(pool).what = "move" /\ executed' = executed \cup {o} /\ receipt' = [receipt EXCEPT ![o] = "ok"]
      \/ /\ Head(pool).what = "move" /\ kind[o] = "deposit" /\ executed' = executed
         /\ \E r \in {"noAllowance", "noChips"} : receipt' = [receipt EXCEPT ![o] = r]
  BY <1>1 DEF MineStep
<1>5. ASSUME NEW u \in Op, u # o PROVE CallInv(u)'
  <2>1. receipt'[u] = receipt[u] /\ (u \in executed' <=> u \in executed) /\ CallInv(u)
    BY <1>2, <1>4, <1>5 DEF CallsInv
  <2>2. QED
    BY <1>3, <2>1, UnmovedCall
<1>6. CallInv(o)'
  <2>1. CallInv(o) /\ debited' = debited /\ pc'[o] = pc[o] /\ met'[o] = met[o] /\ kind' = kind
    BY <1>1, <1>3 DEF CallsInv
  <2>2. \/ Head(pool).what = "approve" /\ executed' = executed /\ receipt'[o] = "ok"
        \/ Head(pool).what = "move" /\ executed' = executed \cup {o} /\ receipt'[o] = "ok"
        \/ /\ Head(pool).what = "move" /\ kind[o] = "deposit" /\ executed' = executed
           /\ receipt'[o] \in {"noAllowance", "noChips"}
    BY <1>2, <1>4
  <2>3. QED
    BY <1>2, <2>1, <2>2 DEF CallInv
<1>7. QED
  BY <1>5, <1>6 DEF CallsInv

\* A call starts, and the others are overlapped.
LEMMA ClickKeepsCalls ==
    ASSUME Types, CallsInv, NEW o \in Op, ClickStep(o)
    PROVE  CallsInv'
<1>1. UNCHANGED <<receipt, executed, debited, kind>>
  BY DEF ClickStep, chain
<1>2. ASSUME NEW u \in Op, u # o PROVE CallInv(u)'
  <2>1. /\ pc'[u] = pc[u] /\ met[u] \subseteq met'[u] /\ (pc[u] = "idle" => met'[u] = met[u])
    BY <1>2 DEF ClickStep, Open
  <2>2. CallInv(u)
    BY DEF CallsInv
  <2>3. QED
    BY <1>1, <2>1, <2>2, UnmovedCall
<1>3. CallInv(o)'
  <2>1. CallInv(o) /\ kind[o] \in {"faucet", "deposit", "withdraw"}
    BY DEF Types, CallsType, Kind, CallsInv
  <2>2. pc[o] = "idle" /\ pc'[o] = Start(kind[o])
    BY DEF ClickStep
  <2>3. QED
    BY <1>1, <2>1, <2>2 DEF CallInv, PointsOf, Start
<1>4. QED
  BY <1>2, <1>3 DEF CallsInv

\* No call moves.
LEMMA StillKeepsCalls ==
    ASSUME CallsInv, StillStep
    PROVE  CallsInv'
<1>1. ASSUME NEW u \in Op PROVE CallInv(u)'
  <2>1. /\ UNCHANGED <<pc, kind, receipt, executed, debited>>
        /\ met[u] \subseteq met'[u] /\ (pc[u] = "idle" => met'[u] = met[u])
    BY DEF StillStep, Noted, Open, chain
  <2>2. CallInv(u)
    BY DEF CallsInv
  <2>3. QED
    BY <2>1, <2>2, UnmovedCall
<1>2. QED
  BY <1>1 DEF CallsInv

---------------------------------------------------------------------------
(* The pool.                                                               *)

\* A call that has nothing in the pool.
LEMMA NothingPending ==
    ASSUME PoolInv, NEW o, pc[o] \notin {"mineApprove", "mine", "failed"} \/ receipt[o] # "none"
    PROVE  \A i \in DOMAIN pool : pool[i].op # o
  BY DEF PoolInv

\* A pool that no step touches, while its calls wait or fail.
LEMMA PoolStays ==
    ASSUME PoolInv, UNCHANGED <<pool, kind, receipt, executed>>,
           \A i \in DOMAIN pool : LET u == pool[i].op IN
              met[u] \subseteq met'[u] /\ (pc'[u] = pc[u] \/ (pc'[u] = "failed" /\ "lost" \in met'[u]))
    PROVE  PoolInv'
  BY DEF PoolInv

\* A call has one transaction in the pool, at most, by any step.
LEMMA PoolKept ==
    ASSUME Types, CallsInv, PoolInv,
           StillStep \/ MineStep \/ \E o \in Op : LegStep(o) \/ SubmitStep(o) \/ ClickStep(o)
    PROVE  PoolInv'
<1>1. ChainType /\ \A i \in DOMAIN pool : pool[i] \in [op : Op, what : {"approve", "move"}]
  <2>1. pool \in Seq([op : Op, what : {"approve", "move"}]) /\ DOMAIN pool = 1 .. Len(pool)
    BY DEF Types, ChainType
  <2>2. QED
    BY <2>1, ElementOfSeq DEF Types
<1>2. CASE StillStep
  <2>1. UNCHANGED <<pool, kind, receipt, executed, pc>> /\ \A u \in Op : met[u] \subseteq met'[u]
    BY <1>2 DEF StillStep, Noted, chain
  <2>2. QED
    BY <1>1, <2>1, PoolStays
<1>3. ASSUME NEW o \in Op, LegStep(o)
      PROVE  PoolInv'
  <2>1. UNCHANGED <<pool, kind, receipt, executed>>
    BY <1>3 DEF LegStep, Moves
  <2>2. ASSUME NEW i \in DOMAIN pool
        PROVE  LET u == pool[i].op IN
               met[u] \subseteq met'[u] /\ (pc'[u] = pc[u] \/ (pc'[u] = "failed" /\ "lost" \in met'[u]))
    <3>1. pool[i].op \in Op
      BY <1>1
    <3>2. CASE pool[i].op # o
      BY <1>3, <3>1, <3>2 DEF LegStep, Moves, Noted
    <3>3. CASE pool[i].op = o
      <4>1. receipt[o] = "none" /\ pc[o] \in {"mineApprove", "mine", "failed"}
        BY <3>3 DEF PoolInv
      <4>2. \E p \in {"mineApprove", "mine"} : Moves(o, p, "failed", {"lost"})
        BY <1>3, <4>1 DEF LegStep, Moves
      <4>3. QED
        BY <3>3, <4>2 DEF Moves
    <3>4. QED
      BY <3>2, <3>3
  <2>3. QED
    BY <2>1, <2>2, PoolStays
<1>4. ASSUME NEW o \in Op, ClickStep(o)
      PROVE  PoolInv'
  <2>1. \A i \in DOMAIN pool : pool[i].op # o
    BY <1>4, NothingPending DEF ClickStep
  <2>2. /\ UNCHANGED <<pool, kind, receipt, executed>>
        /\ \A u \in Op : u # o => pc'[u] = pc[u] /\ met[u] \subseteq met'[u]
    BY <1>4 DEF ClickStep, chain
  <2>3. QED
    BY <1>1, <2>1, <2>2, PoolStays
<1>5. ASSUME NEW o \in Op, SubmitStep(o)
      PROVE  PoolInv'
  <2>1. \A i \in DOMAIN pool : pool[i].op # o
    BY <1>5, NothingPending DEF SubmitStep, Moves
  <2>2. PICK w \in {"approve", "move"} :
            /\ pool' = Append(pool, [op |-> o, what |-> w])
            /\ \/ Moves(o, IF w = "approve" THEN "approve" ELSE "send",
                           IF w = "approve" THEN "mineApprove" ELSE "mine", {})
               \/ Moves(o, IF w = "approve" THEN "approve" ELSE "send", "failed", {"lost"})
    BY <1>5 DEF SubmitStep
  <2>3. /\ receipt'[o] = "none" /\ \A u \in Op : u # o => receipt'[u] = receipt[u]
        /\ executed' = executed /\ kind' = kind
    BY <1>1, <1>5 DEF SubmitStep, Moves, ChainType
  <2>4. /\ DOMAIN pool = 1 .. Len(pool) /\ DOMAIN pool' = 1 .. Len(pool) + 1 /\ Len(pool) \in Nat
        /\ pool'[Len(pool) + 1] = [op |-> o, what |-> w]
        /\ \A i \in DOMAIN pool : pool'[i] = pool[i]
    BY <1>1, <2>2, AppendProperties DEF ChainType
  <2>5. ASSUME NEW i \in DOMAIN pool'
        PROVE  LET u == pool'[i].op IN
               /\ receipt'[u] = "none" /\ u \notin executed' /\ kind'[u] # "withdraw"
               /\ \/ pc'[u] = IF pool'[i].what = "approve" THEN "mineApprove" ELSE "mine"
                  \/ pc'[u] = "failed" /\ "lost" \in met'[u]
               /\ pool'[i].what = "approve" => kind'[u] = "deposit"
    <3>1. CASE i \in DOMAIN pool
      <4>1. pool'[i] = pool[i] /\ pool[i].op # o /\ pool[i].op \in Op
        BY <1>1, <2>1, <2>4, <3>1
      <4>2. pc'[pool[i].op] = pc[pool[i].op] /\ met[pool[i].op] \subseteq met'[pool[i].op]
        BY <2>2, <4>1 DEF Moves, Noted
      <4>3. QED
        BY <2>3, <3>1, <4>1, <4>2 DEF PoolInv
    <3>2. CASE i = Len(pool) + 1
      <4>1. pool'[i].op = o /\ pool'[i].what = w
        BY <2>4, <3>2
      <4>2. /\ kind[o] # "withdraw" /\ o \notin executed
            /\ w = "approve" => kind[o] = "deposit"
        <5>1. pc[o] \in {"approve", "send"} /\ (w = "approve" => pc[o] = "approve") /\ CallInv(o)
          BY <2>2 DEF Moves, CallsInv
        <5>2. QED
          BY <5>1, KindOf DEF CallInv
      <4>3. \/ pc'[o] = IF w = "approve" THEN "mineApprove" ELSE "mine"
            \/ pc'[o] = "failed" /\ "lost" \in met'[o]
        BY <2>2 DEF Moves
      <4>4. QED
        BY <2>3, <4>1, <4>2, <4>3
    <3>3. QED
      BY <2>4, <3>1, <3>2
  <2>6. \A i, j \in DOMAIN pool' : pool'[i].op = pool'[j].op => i = j
    BY <2>1, <2>4 DEF PoolInv
  <2>7. QED
    BY <2>5, <2>6 DEF PoolInv
<1>6. CASE MineStep
  <2> DEFINE o == Head(pool).op
  <2>1. /\ pool' = Tail(pool) /\ 1 \in DOMAIN pool /\ o = pool[1].op /\ o \in Op
        /\ \A i \in DOMAIN pool' : i \in Nat /\ i + 1 \in DOMAIN pool /\ i + 1 # 1 /\ pool'[i] = pool[i + 1]
    BY <1>1, <1>6, HeadIsFirst DEF MineStep
  <2>2. \A i \in DOMAIN pool' : pool[i + 1].op # o /\ pool[i + 1].op \in Op
    BY <1>1, <2>1 DEF PoolInv
  <2>3. /\ UNCHANGED <<pc, kind, met>> /\ executed' \subseteq executed \cup {o}
        /\ \A u \in Op : u # o => receipt'[u] = receipt[u]
    BY <1>1, <1>6 DEF MineStep, ChainType
  <2> HIDE DEF o
  <2>4. ASSUME NEW i \in DOMAIN pool'
        PROVE  LET u == pool'[i].op IN
               /\ receipt'[u] = "none" /\ u \notin executed' /\ kind'[u] # "withdraw"
               /\ \/ pc'[u] = IF pool'[i].what = "approve" THEN "mineApprove" ELSE "mine"
                  \/ pc'[u] = "failed" /\ "lost" \in met'[u]
               /\ pool'[i].what = "approve" => kind'[u] = "deposit"
    BY <2>1, <2>2, <2>3 DEF PoolInv
  <2>5. \A i, j \in DOMAIN pool' : pool'[i].op = pool'[j].op => i = j
    <3>1. ASSUME NEW i \in DOMAIN pool', NEW j \in DOMAIN pool', pool'[i].op = pool'[j].op
          PROVE  i = j
      <4>1. i + 1 = j + 1
        BY <2>1, <3>1 DEF PoolInv
      <4>2. QED
        BY <2>1, <4>1
    <3>2. QED
      BY <3>1
  <2>6. QED
    BY <2>4, <2>5 DEF PoolInv
<1>7. QED
  BY <1>2, <1>3, <1>4, <1>5, <1>6

---------------------------------------------------------------------------
(* Calls that none overlapped.                                             *)

\* Who is alone stays alone when no call joins.
LEMMA AloneStays ==
    ASSUME AloneInv, Open' \subseteq Open, Open \subseteq Op,
           \A u \in Open' : Single(u)' => Single(u),
           \A i \in DOMAIN pool' : \/ pool'[i].op \in Open
                                 \/ \E j \in DOMAIN pool : pool[j].op = pool'[i].op
    PROVE  AloneInv'
<1>1. SUFFICES ASSUME NEW u \in Open', Single(u)'
               PROVE  Open' = {u} /\ \A i \in DOMAIN pool' : pool'[i].op = u
  BY DEF AloneInv
<1>2. Open = {u} /\ \A j \in DOMAIN pool : pool[j].op = u
  BY <1>1 DEF AloneInv
<1>3. QED
  BY <1>1, <1>2

\* A call that moves overlaps no other.
LEMMA MovesSingle ==
    ASSUME NEW o \in Op, NEW p, NEW q, NEW what, Moves(o, p, q, what)
    PROVE  \A u \in Op : Single(u)' => Single(u)
  BY DEF Moves, Noted, Single

\* A call that none overlapped is alone, after any step.
LEMMA AloneKept ==
    ASSUME Types, CallsInv, PoolInv, AloneInv,
           StillStep \/ MineStep \/ \E o \in Op : LegStep(o) \/ SubmitStep(o) \/ ClickStep(o)
    PROVE  AloneInv'
<1>1. Open \subseteq Op /\ Open' \subseteq Op
  BY DEF Open
<1>2. CASE StillStep
  <2>1. Open' = Open /\ pool' = pool
    BY <1>2 DEF StillStep, Open, Over, chain
  <2>2. \A u \in Op : Single(u)' => Single(u)
    BY <1>2 DEF StillStep, Noted, Single
  <2>3. QED
    BY <1>1, <2>1, <2>2, AloneStays
<1>3. CASE MineStep
  <2>1. Open' = Open /\ \A u \in Op : Single(u)' <=> Single(u)
    BY <1>3 DEF MineStep, Open, Over, Single
  <2>2. \A i \in DOMAIN pool' : \E j \in DOMAIN pool : pool[j].op = pool'[i].op
    BY <1>3, HeadIsFirst DEF MineStep, Types
  <2>3. QED
    BY <1>1, <2>1, <2>2, AloneStays
<1>4. ASSUME NEW o \in Op, LegStep(o) \/ SubmitStep(o)
      PROVE  AloneInv'
  <2>1. PICK p, q, what : Moves(o, p, q, what) /\ p \notin {"idle", "confirmed", "failed"}
    BY <1>4 DEF LegStep, SubmitStep
  <2>2. Open' \subseteq Open /\ o \in Open
    BY <1>1, <2>1, OpenAfter
  <2>3. \A u \in Op : Single(u)' => Single(u)
    BY <2>1, MovesSingle
  <2>4. \A i \in DOMAIN pool' : \/ pool'[i].op = o
                               \/ \E j \in DOMAIN pool : pool[j].op = pool'[i].op
    <3>1. CASE LegStep(o)
      BY <3>1 DEF LegStep
    <3>2. CASE SubmitStep(o)
      <4>1. PICK w \in {"approve", "move"} : pool' = Append(pool, [op |-> o, what |-> w])
        BY <3>2 DEF SubmitStep
      <4>2. /\ DOMAIN pool = 1 .. Len(pool) /\ DOMAIN pool' = 1 .. Len(pool) + 1 /\ Len(pool) \in Nat
            /\ pool'[Len(pool) + 1] = [op |-> o, what |-> w]
            /\ \A i \in DOMAIN pool : pool'[i] = pool[i]
        BY <4>1, AppendProperties DEF Types, ChainType
      <4>3. \A i \in DOMAIN pool' : i \in DOMAIN pool \/ i = Len(pool) + 1
        BY <4>2
      <4>4. QED
        BY <4>2, <4>3
    <3>3. QED
      BY <1>4, <3>1, <3>2
  <2>5. QED
    BY <1>1, <2>2, <2>3, <2>4, AloneStays
<1>5. ASSUME NEW o \in Op, ClickStep(o)
      PROVE  AloneInv'
  <2>1. /\ \A u \in Op : u # o => (u \in Open' <=> u \in Open)
        /\ pool' = pool
    BY <1>5 DEF ClickStep, Open, Over, chain
  <2>2. SUFFICES ASSUME NEW u \in Open', Single(u)'
                 PROVE  Open' = {u} /\ \A i \in DOMAIN pool' : pool'[i].op = u
    BY DEF AloneInv
  <2>3. u = o
    BY <1>1, <1>5, <2>1, <2>2 DEF ClickStep, Single
  <2>4. Open = {} /\ pool = <<>>
    BY <1>5, <2>2, <2>3 DEF ClickStep, Single
  <2>5. QED
    BY <1>1, <2>1, <2>2, <2>3, <2>4
<1>6. QED
  BY <1>2, <1>3, <1>4, <1>5

\* The part of a call that its allowance is about.
LEMMA AllowanceKept ==
    ASSUME Types, CallsInv, PoolInv, AloneInv, AllowanceInv,
           StillStep \/ MineStep \/ \E o \in Op : LegStep(o) \/ SubmitStep(o) \/ ClickStep(o)
    PROVE  AllowanceInv'
<1>1. \A i \in DOMAIN pool : pool[i] \in [op : Op, what : {"approve", "move"}]
  <2>1. pool \in Seq([op : Op, what : {"approve", "move"}]) /\ DOMAIN pool = 1 .. Len(pool)
    BY DEF Types, ChainType
  <2>2. QED
    BY <2>1, ElementOfSeq DEF Types
<1>2. CASE StillStep
  <2>1. \A u \in Op : Single(u)' => Single(u)
    BY <1>2 DEF StillStep, Noted, Single
  <2>2. QED
    BY <1>2, <2>1 DEF AllowanceInv, StillStep, chain
<1>3. ASSUME NEW o \in Op, LegStep(o)
      PROVE  AllowanceInv'
  <2>1. /\ UNCHANGED <<pool, receipt, allowance, kind, amount>>
        /\ \A u \in Op : Single(u)' => Single(u)
    BY <1>3, MovesSingle DEF LegStep, Moves
  <2>2. ASSUME NEW u \in Op, Single(u)', kind[u] = "deposit",
               pc'[u] = "send" \/ (pc'[u] = "mineApprove" /\ receipt[u] = "ok")
        PROVE  amount[u] <= allowance
    <3>1. CASE pc'[u] = pc[u]
      BY <2>1, <2>2, <3>1 DEF AllowanceInv
    <3>2. CASE pc'[u] # pc[u]
      <4>1. u = o
        BY <1>3, <3>2 DEF LegStep, Moves
      <4>2. \/ Moves(o, "allowance", "send", {}) /\ amount[o] <= allowance
            \/ Moves(o, "mineApprove", "send", {}) /\ receipt[o] = "ok"
        BY <1>3, <2>2, <4>1 DEF LegStep, Moves
      <4>3. QED
        BY <2>1, <2>2, <4>1, <4>2 DEF AllowanceInv, Moves
    <3>3. QED
      BY <3>1, <3>2
  <2>3. QED
    BY <2>1, <2>2 DEF AllowanceInv
<1>4. ASSUME NEW o \in Op, ClickStep(o)
      PROVE  AllowanceInv'
  <2>1. /\ UNCHANGED <<pool, receipt, allowance, kind>> /\ pc[o] = "idle" /\ pc'[o] = Start(kind[o])
        /\ \A u \in Op : u # o => /\ Single(u)' => Single(u)
                                /\ pc'[u] = pc[u] /\ amount'[u] = amount[u]
    BY <1>4 DEF ClickStep, chain, Single
  <2>2. (\A i \in DOMAIN pool : pool[i].op # o) /\ receipt[o] = "none"
    BY <2>1, NothingPending DEF CallsInv, CallInv
  <2>3. kind[o] = "deposit" => pc'[o] = "allowance"
    BY <2>1 DEF Start
  <2>4. ASSUME NEW u \in Op, Single(u)'
        PROVE  /\ \A i \in DOMAIN pool : pool[i].op = u =>
                    i = 1 /\ (kind[u] = "deposit" /\ pool[i].what = "move" => amount'[u] <= allowance)
               /\ kind[u] = "deposit" /\ (pc'[u] = "send" \/ (pc'[u] = "mineApprove" /\ receipt[u] = "ok"))
                    => amount'[u] <= allowance
               /\ receipt[u] # "noAllowance"
    <3>1. CASE u = o
      BY <2>2, <2>3, <3>1
    <3>2. CASE u # o
      BY <2>1, <2>4, <3>2 DEF AllowanceInv
    <3>3. QED
      BY <3>1, <3>2
  <2>5. QED
    BY <2>1, <2>4 DEF AllowanceInv
<1>5. ASSUME NEW o \in Op, SubmitStep(o)
      PROVE  AllowanceInv'
  <2>1. PICK w \in {"approve", "move"} :
            /\ pool' = Append(pool, [op |-> o, what |-> w])
            /\ \/ Moves(o, IF w = "approve" THEN "approve" ELSE "send",
                           IF w = "approve" THEN "mineApprove" ELSE "mine", {})
               \/ Moves(o, IF w = "approve" THEN "approve" ELSE "send", "failed", {"lost"})
    BY <1>5 DEF SubmitStep
  <2>2. /\ receipt'[o] = "none" /\ \A u \in Op : u # o => receipt'[u] = receipt[u]
        /\ UNCHANGED <<allowance, kind, amount>> /\ \A u \in Op : Single(u)' => Single(u)
    BY <1>5, MovesSingle DEF SubmitStep, Moves, Types, ChainType
  <2>3. /\ DOMAIN pool = 1 .. Len(pool) /\ DOMAIN pool' = 1 .. Len(pool) + 1 /\ Len(pool) \in Nat
        /\ pool'[Len(pool) + 1] = [op |-> o, what |-> w]
        /\ \A i \in DOMAIN pool : pool'[i] = pool[i]
    BY <2>1, AppendProperties DEF Types, ChainType
  <2>4. ASSUME NEW u \in Op, Single(u)', u # o
        PROVE  /\ \A i \in DOMAIN pool' : pool'[i].op = u =>
                    i = 1 /\ (kind[u] = "deposit" /\ pool'[i].what = "move" => amount[u] <= allowance)
               /\ kind[u] = "deposit" /\ (pc'[u] = "send" \/ (pc'[u] = "mineApprove" /\ receipt'[u] = "ok"))
                    => amount[u] <= allowance
               /\ receipt'[u] # "noAllowance"
    <3>1. Single(u) /\ pc'[u] = pc[u] /\ receipt'[u] = receipt[u]
      BY <2>1, <2>2, <2>4 DEF Moves
    <3>2. \A i \in DOMAIN pool' : pool'[i].op = u => i \in DOMAIN pool /\ pool'[i] = pool[i]
      BY <2>3, <2>4
    <3>3. QED
      BY <3>1, <3>2 DEF AllowanceInv
  <2>5. ASSUME Single(o)'
        PROVE  /\ \A i \in DOMAIN pool' : pool'[i].op = o =>
                    i = 1 /\ (kind[o] = "deposit" /\ pool'[i].what = "move" => amount[o] <= allowance)
               /\ pc'[o] # "send" /\ receipt'[o] = "none"
    <3>1. /\ Single(o) /\ o \in Open /\ \A i \in DOMAIN pool : pool[i].op # o
          /\ pc[o] = IF w = "approve" THEN "approve" ELSE "send"
          /\ pc'[o] # "send"
      BY <2>1, <2>2, <2>5, NothingPending DEF Moves, Open, Over
    <3>2. DOMAIN pool = {}
      BY <3>1 DEF AloneInv
    <3>3. Len(pool) = 0
      BY <2>3, <3>2
    <3>4. w = "move" /\ kind[o] = "deposit" => amount[o] <= allowance
      BY <3>1 DEF AllowanceInv
    <3>5. QED
      BY <2>2, <2>3, <3>1, <3>3, <3>4
  <2>6. QED
    BY <2>2, <2>4, <2>5 DEF AllowanceInv
<1>6. CASE MineStep
  <2>1. PICK o \in Op : o = Head(pool).op
    BY <1>6, HeadIsFirst DEF Types, MineStep
  <2>2. /\ pool' = Tail(pool) /\ 1 \in DOMAIN pool /\ o = pool[1].op /\ Head(pool) = pool[1]
        /\ \A i \in DOMAIN pool' : i \in Nat /\ i + 1 \in DOMAIN pool /\ i + 1 # 1 /\ pool'[i] = pool[i + 1]
    BY <1>6, <2>1, HeadIsFirst DEF Types, MineStep
  <2>3. /\ UNCHANGED <<pc, kind, amount, met>> /\ \A u \in Op : Single(u)' <=> Single(u)
        /\ \A u \in Op : u # o => receipt'[u] = receipt[u]
        /\ \/ pool[1].what = "approve" /\ allowance' = amount[o] /\ receipt'[o] = "ok"
           \/ pool[1].what = "move" /\ receipt'[o] \in {"ok", "noChips"}
           \/ pool[1].what = "move" /\ kind[o] = "deposit" /\ allowance < amount[o] /\ receipt'[o] = "noAllowance"
    BY <1>6, <2>1, <2>2 DEF MineStep, Types, ChainType, Single
  <2>4. ASSUME NEW u \in Op, Single(u)
        PROVE  /\ \A i \in DOMAIN pool' : pool'[i].op # u
               /\ kind[u] = "deposit" /\ (pc[u] = "send" \/ (pc[u] = "mineApprove" /\ receipt'[u] = "ok"))
                    => amount[u] <= allowance'
               /\ receipt'[u] # "noAllowance"
    <3>1. \A i \in DOMAIN pool' : pool'[i].op # u
      BY <2>2, <2>4 DEF AllowanceInv
    <3>2. CASE u = o
      <4>1. amount[o] \in Nat /\ allowance \in Nat
        BY AmountsAreNatural DEF Types, ChainType
      <4>2. pool[1].what = "move" /\ kind[o] = "deposit" => amount[o] <= allowance
        BY <2>2, <2>4, <3>2 DEF AllowanceInv
      <4>3. \/ pc[o] = IF pool[1].what = "approve" THEN "mineApprove" ELSE "mine"
            \/ pc[o] = "failed"
        BY <2>2 DEF PoolInv
      <4>4. QED
        BY <2>3, <3>1, <3>2, <4>1, <4>2, <4>3
    <3>3. CASE u # o
      <4>1. receipt'[u] = receipt[u] /\ receipt[u] # "noAllowance"
        BY <2>3, <2>4, <3>3 DEF AllowanceInv
      <4>2. pc[u] \notin {"send", "mineApprove"}
        <5>1. pc[u] \in {"send", "mineApprove"} => u \in Open
          BY DEF Open, Over
        <5>2. QED
          BY <2>2, <2>4, <3>3, <5>1 DEF AloneInv
      <4>3. QED
        BY <3>1, <4>1, <4>2
    <3>4. QED
      BY <3>2, <3>3
  <2>5. QED
    BY <2>3, <2>4 DEF AllowanceInv
<1>7. QED
  BY <1>2, <1>3, <1>4, <1>5, <1>6

---------------------------------------------------------------------------
(* The buttons.                                                            *)

\* A button is busy while a call of its kind is under way, after any step.
LEMMA BusyKept ==
    ASSUME Types, CallsInv, AloneInv, BusyMeansUnderWay,
           StillStep \/ MineStep \/ \E o \in Op : LegStep(o) \/ SubmitStep(o) \/ ClickStep(o)
    PROVE  BusyMeansUnderWay'
<1> DEFINE Unread == \E o \in Op : "unread" \in met[o]
<1>1. CASE StillStep \/ MineStep
  <2>1. /\ Open' = Open /\ UNCHANGED <<busy, kind>> /\ \A u \in Op : met[u] \subseteq met'[u]
    BY <1>1 DEF StillStep, MineStep, Noted, Open, Over
  <2>2. \A u \in Open : u \in Op
    BY DEF Open
  <2>3. QED
    BY <2>1, <2>2 DEF BusyMeansUnderWay
<1>2. ASSUME NEW o \in Op, LegStep(o) \/ SubmitStep(o)
      PROVE  BusyMeansUnderWay'
  <2>1. PICK p, q, what : Moves(o, p, q, what) /\ p \notin {"idle", "confirmed", "failed"}
    BY <1>2 DEF LegStep, SubmitStep
  <2>2. /\ o \in Open /\ Open \subseteq Op /\ Open' \subseteq Op
        /\ \A u \in Op : u \in Open' <=> IF u = o THEN q \notin {"idle", "confirmed", "failed"} ELSE u \in Open
    BY <2>1, OpenAfter DEF Open
  <2>3. (\A u \in Op : met[u] \subseteq met'[u] /\ (Single(u)' => Single(u))) /\ kind' = kind
    BY <2>1, MovesSingle DEF Moves, Noted
  <2>4. \/ busy' = "null" /\ o \notin Open'
        \/ busy' = busy /\ o \in Open'
        \/ busy' = busy /\ o \notin Open' /\ pc[o] = "allowance" /\ "unread" \in met'[o]
    <3>1. Frees(o) /\ pc[o] = p /\ pc'[o] = q
      BY <1>2, <2>1 DEF LegStep, SubmitStep, Moves
    <3>2. q # "idle" /\ (p = "allowance" /\ q \in {"confirmed", "failed"} => "unread" \in met'[o])
      BY <1>2, <3>1 DEF LegStep, SubmitStep, Moves
    <3>3. QED
      BY <2>2, <3>1, <3>2 DEF Frees
  <2>5. CASE busy' = "null" /\ o \notin Open'
    <3>1. \A u \in Open' : "overlap" \in met'[u]
      <4>1. ASSUME NEW u \in Open', Single(u)' PROVE FALSE
        BY <2>2, <2>3, <2>5, <4>1 DEF AloneInv
      <4>2. QED
        BY <4>1 DEF Single
    <3>2. QED
      BY <2>5, <3>1 DEF BusyMeansUnderWay
  <2>6. CASE busy' = busy /\ o \in Open'
    BY <2>2, <2>3, <2>6 DEF BusyMeansUnderWay
  <2>7. CASE busy' = busy /\ o \notin Open' /\ pc[o] = "allowance" /\ "unread" \in met'[o]
    <3>1. kind[o] = "deposit"
      BY <2>7, KindOf
    <3>2. busy' = "null" \/ (\E u \in Open' : kind'[u] = busy')
            \/ (busy' = "deposit" /\ \E u \in Op : "unread" \in met'[u])
      BY <2>2, <2>3, <2>7, <3>1 DEF BusyMeansUnderWay
    <3>3. \A u \in Open' : busy' = kind'[u] \/ "overlap" \in met'[u]
      BY <2>2, <2>3, <2>7 DEF BusyMeansUnderWay
    <3>4. QED
      BY <3>2, <3>3 DEF BusyMeansUnderWay
  <2>8. QED
    BY <2>4, <2>5, <2>6, <2>7
<1>3. ASSUME NEW o \in Op, ClickStep(o)
      PROVE  BusyMeansUnderWay'
  <2>1. /\ busy' = kind[o] /\ kind' = kind /\ kind[o] \in {"faucet", "deposit", "withdraw"}
        /\ pc'[o] = Start(kind[o])
        /\ \A u \in Op : u # o => pc'[u] = pc[u] /\ (u \in Open => "overlap" \in met'[u])
    BY <1>3 DEF ClickStep, Types, CallsType, Kind
  <2>2. o \in Open' /\ Open' \subseteq Op
    BY <2>1 DEF Open, Over, Start
  <2>3. \A u \in Open' : u # o => u \in Open
    BY <2>1 DEF Open, Over
  <2>4. QED
    BY <2>1, <2>2, <2>3 DEF BusyMeansUnderWay
<1>4. QED
  BY <1>1, <1>2, <1>3

---------------------------------------------------------------------------
(* The displayed balance and the stakes.                                   *)

\* Neither the balances nor the stakes change.
LEMMA FellStays ==
    ASSUME FellInv, UNCHANGED <<casino, fell>>, UNCHANGED rounds, balance' = balance
    PROVE  FellInv'
  BY DEF FellInv, rounds

\* The balance is read, and is what the ledger holds.
LEMMA FellAfterRead ==
    ASSUME Types, FellInv, Read, UNCHANGED rounds, balance' = balance
    PROVE  FellInv'
<1>1. casino' = balance /\ (fell' <=> (fell /\ \E s \in Spin : play[s] = "post")) /\ balance \in Nat
  BY ReadDoes DEF Types, LedgerType
<1>2. CASE fell
  BY <1>1, <1>2 DEF FellInv, rounds
<1>3. CASE ~fell
  BY <1>1, <1>3 DEF FellInv, rounds
<1>4. QED
  BY <1>2, <1>3

\* Unless the ledger fell, the displayed balance and the stakes are covered, after any step.
LEMMA FellKept ==
    ASSUME Types, FellInv, Next
    PROVE  FellInv'
<1>1. /\ casino \in Nat /\ balance \in Nat /\ Amounts \cup Stakes \cup Payouts \subseteq Nat
      /\ play \in [Spin -> {"idle", "post", "played", "refused", "over"}]
      /\ stake \in [Spin -> Stakes \cup {0}]
  BY AmountsArePositive, NumbersAreNatural DEF Types, PageType, LedgerType
<1>2. CASE Refetch
  BY <1>2, FellAfterRead DEF Refetch, ledger
<1>3. ASSUME NEW o \in Op, PollEnds(o) \/ WithdrawAnswered(o)
      PROVE  FellInv'
  BY <1>3, FellAfterRead DEF PollEnds, WithdrawAnswered, ledger
<1>4. ASSUME NEW o \in Op,
             \/ Faucet(o) \/ MintMined(o) \/ FaucetFails(o) \/ DepositFails(o) \/ WithdrawFails(o)
             \/ ReadAllowance(o) \/ AllowanceFails(o) \/ ApproveMined(o) \/ DepositMined(o)
             \/ SendMint(o) \/ SendApprove(o) \/ SendDeposit(o) \/ Poll(o) \/ PollFails(o)
             \/ \E a \in Amounts : Deposit(o, a) \/ Withdraw(o, a)
      PROVE  UNCHANGED <<casino, fell>> /\ UNCHANGED rounds /\ balance' = balance
  BY <1>4 DEF Faucet, Deposit, Withdraw, Click, MintMined, FaucetFails, DepositFails, WithdrawFails,
     ReadAllowance, AllowanceFails, ApproveMined, DepositMined, SendMint, SendApprove, SendDeposit,
     Poll, PollFails, page, ledger, history
<1>5. CASE Close \/ MineApprove \/ MineMint \/ MineDeposit
  BY <1>5, FellStays DEF Close, MineApprove, MineMint, MineDeposit, page, ledger, history
<1>6. ASSUME NEW o \in Op, Debit(o) \/ Release(o) \/ Credit(o)
      PROVE  FellInv'
  <2>1. amount[o] \in Nat
    BY AmountsAreNatural
  <2>2. UNCHANGED casino /\ UNCHANGED rounds
    BY <1>6 DEF Debit, Release, Credit, page
  <2>3. fell' \/ (UNCHANGED fell /\ balance' \in Nat /\ balance <= balance')
    BY <1>1, <1>6, <2>1 DEF Debit, Release, Credit, Raise
  <2>4. QED
    BY <1>1, <2>2, <2>3 DEF FellInv, rounds
<1>7. ASSUME NEW s \in Spin, PlayAnswered(s)
      PROVE  FellInv'
  <2>1. /\ play' = [play EXCEPT ![s] = "over"] /\ UNCHANGED <<stake, casino, fell, balance>>
    BY <1>7 DEF PlayAnswered, page, ledger, history
  <2>2. \A v \in Spin : play'[v] = "post" => play[v] = "post"
    BY <1>1, <2>1
  <2>3. QED
    BY <2>1, <2>2 DEF FellInv
<1>8. ASSUME NEW s \in Spin, NEW n \in Stakes, Play(s, n)
      PROVE  FellInv'
  <2>1. /\ play' = [play EXCEPT ![s] = "post"] /\ stake' = [stake EXCEPT ![s] = n]
        /\ UNCHANGED <<casino, fell, balance>> /\ n <= casino /\ n \in Nat
    BY <1>1, <1>8 DEF Play, Offered, page, ledger, history
  <2>2. ASSUME ~fell, NEW v \in Spin, play'[v] = "post"
        PROVE  stake'[v] <= balance
    <3>1. CASE v = s
      BY <1>1, <2>1, <2>2, <3>1 DEF FellInv
    <3>2. CASE v # s
      BY <1>1, <2>1, <2>2, <3>2 DEF FellInv
    <3>3. QED
      BY <3>1, <3>2
  <2>3. QED
    BY <2>1, <2>2 DEF FellInv
<1>9. ASSUME NEW s \in Spin, ServePlay(s)
      PROVE  FellInv'
  <2>1. /\ UNCHANGED <<casino, stake>> /\ stake[s] \in Nat
        /\ \E w \in {"refused", "played"} : play' = [play EXCEPT ![s] = w]
        /\ \/ UNCHANGED <<balance, fell>>
           \/ \E p \in Payouts : /\ fell' <=> (fell \/ p < stake[s])
                               /\ balance' = balance + (p - stake[s])
    <3>1. stake[s] \in Nat
      BY <1>1
    <3>2. CASE stake[s] > balance
      BY <1>9, <3>1, <3>2 DEF ServePlay, page
    <3>3. CASE ~(stake[s] > balance)
      <4>1. PICK p \in Payouts :
               /\ play' = [play EXCEPT ![s] = "played"]
               /\ IF p > 0 THEN Raise(p - stake[s], {}) ELSE balance' = balance - stake[s]
               /\ fell' = (fell \/ p < stake[s])
        BY <1>9, <3>3 DEF ServePlay
      <4>2. fell' <=> (fell \/ p < stake[s])
        BY <4>1, Zenon
      <4>3. balance' = balance + (p - stake[s])
        <5>1. p \in Nat
          BY <1>1
        <5>2. QED
          BY <1>1, <3>1, <4>1, <5>1 DEF Raise
      <4>4. QED
        BY <1>9, <3>1, <4>1, <4>2, <4>3 DEF ServePlay, page
    <3>4. QED
      BY <3>2, <3>3
  <2>2. fell' \/ (~fell /\ balance' \in Nat /\ balance <= balance')
    <3>1. CASE UNCHANGED <<balance, fell>>
      BY <1>1, <3>1
    <3>2. ASSUME NEW p \in Payouts, fell' <=> (fell \/ p < stake[s]),
                 balance' = balance + (p - stake[s])
          PROVE  fell' \/ (~fell /\ balance' \in Nat /\ balance <= balance')
      <4>1. p \in Nat
        BY <1>1
      <4>2. CASE p < stake[s]
        BY <3>2, <4>2
      <4>3. CASE ~(p < stake[s])
        BY <1>1, <2>1, <3>2, <4>1, <4>3
      <4>4. QED
        BY <4>2, <4>3
    <3>3. QED
      BY <2>1, <3>1, <3>2
  <2>3. \A v \in Spin : play'[v] = "post" => play[v] = "post"
    BY <1>1, <2>1
  <2>4. QED
    BY <1>1, <2>1, <2>2, <2>3 DEF FellInv
<1>10. QED
  BY <1>2, <1>3, <1>4, <1>5, <1>6, <1>7, <1>8, <1>9, FellStays DEF Next, OnPage, Elsewhere

---------------------------------------------------------------------------
(* The panel of the cashier.                                               *)

\* What a call has met is not forgotten.
LEMMA MetGrows ==
    ASSUME Types, CallsInv,
           StillStep \/ MineStep \/ \E o \in Op : LegStep(o) \/ SubmitStep(o) \/ ClickStep(o)
    PROVE  \A u \in Op : met[u] \subseteq met'[u]
<1>1. CASE StillStep \/ MineStep
  BY <1>1 DEF StillStep, MineStep, Noted
<1>2. ASSUME NEW o \in Op, LegStep(o) \/ SubmitStep(o)
      PROVE  \A u \in Op : met[u] \subseteq met'[u]
  <2>1. PICK p, q, what : Moves(o, p, q, what)
    BY <1>2 DEF LegStep, SubmitStep
  <2>2. QED
    BY <2>1 DEF Moves, Noted
<1>3. ASSUME NEW o \in Op, ClickStep(o)
      PROVE  \A u \in Op : met[u] \subseteq met'[u]
  <2>1. pc[o] = "idle" /\ CallInv(o)
    BY <1>3 DEF ClickStep, CallsInv
  <2>2. met[o] = {}
    BY <2>1 DEF CallInv
  <2>3. \A u \in Op : u # o => met'[u] = IF u \in Open THEN met[u] \cup {"overlap"} ELSE met[u]
    BY <1>3 DEF ClickStep
  <2>4. QED
    BY <2>2, <2>3
<1>4. QED
  BY <1>1, <1>2, <1>3

\* A call that was overlapped stays so.
LEMMA SingleBefore ==
    ASSUME Types, CallsInv,
           StillStep \/ MineStep \/ \E o \in Op : LegStep(o) \/ SubmitStep(o) \/ ClickStep(o)
    PROVE  \A u \in Op : Single(u)' => Single(u)
  BY MetGrows DEF Single

\* A step of other calls, at most of one that is reading its allowance.
LEMMA FlowSame ==
    ASSUME FlowInv, UNCHANGED flow, UNCHANGED kind, \A u \in Op : Single(u)' => Single(u),
           \A u \in Op : flow.of = {u} => pc'[u] = pc[u],
           \A u \in Op : u \in Open' => pc'[u] = "allowance" \/ (u \in Open /\ pc'[u] = pc[u])
    PROVE  FlowInv'
<1>1. ASSUME NEW w \in Op, flow.of = {w}
      PROVE  /\ pc'[w] \notin {"idle", "allowance"}
             /\ Single(w)' => Tells(w)' /\ \A u \in Open' : u # w => pc'[u] = "allowance"
  <2>1. pc'[w] \notin {"idle", "allowance"} /\ (Single(w)' => Single(w))
    BY <1>1 DEF FlowInv
  <2>2. Tells(w) => Tells(w)'
    BY <1>1 DEF Tells, Over, FaucetSteps, DepositSteps, WithdrawSteps
  <2>3. Open' \subseteq Op
    BY DEF Open
  <2>4. QED
    BY <1>1, <2>1, <2>2, <2>3 DEF FlowInv
<1>2. QED
  BY <1>1 DEF FlowInv

\* A step of a call whose flow has started.
LEMMA FlowOwn ==
    ASSUME Types, FlowInv, \A u \in Op : Single(u)' => Single(u),
           NEW o \in Op, NEW q, q \notin {"idle", "allowance"}, o \in Open, pc[o] # "allowance",
           Goto(o, q), flow'.of = flow.of,
           flow.of = {o} /\ Single(o) => Tells(o)'
    PROVE  FlowInv'
<1>1. pc'[o] = q /\ \A u \in Op : u # o => pc'[u] = pc[u]
  BY DEF Goto, Types, CallsType
<1>2. Open' \subseteq Op /\ \A u \in Open' : u # o => u \in Open
  BY <1>1 DEF Open, Over
<1>3. ASSUME NEW w \in Op, flow.of = {w}
      PROVE  /\ pc'[w] \notin {"idle", "allowance"}
             /\ Single(w)' => Tells(w)' /\ \A u \in Open' : u # w => pc'[u] = "allowance"
  <2>1. CASE w = o
    BY <1>1, <1>2, <1>3, <2>1 DEF FlowInv
  <2>2. CASE w # o
    BY <1>1, <1>3, <2>2 DEF FlowInv
  <2>3. QED
    BY <2>1, <2>2
<1>4. QED
  BY <1>3 DEF FlowInv

\* A call starts its flow.
LEMMA FlowStarts ==
    ASSUME AloneInv', NEW o \in Op, flow'.of = {o}, o \in Open', pc'[o] # "allowance", Tells(o)'
    PROVE  FlowInv'
<1>1. ASSUME NEW w \in Op, flow'.of = {w}
      PROVE  /\ pc'[w] \notin {"idle", "allowance"}
             /\ Single(w)' => Tells(w)' /\ \A u \in Open' : u # w => pc'[u] = "allowance"
  <2>1. w = o
    BY <1>1
  <2>2. pc'[o] # "idle"
    BY DEF Open
  <2>3. Single(o)' => \A u \in Open' : u = o
    BY DEF AloneInv
  <2>4. QED
    BY <2>1, <2>2, <2>3
<1>2. QED
  BY <1>1 DEF FlowInv

\* What the panel shows for a call, after a step of the call's own.
LEMMA OwnStepTells ==
    ASSUME Types, CallsInv, NEW o \in Op, flow.of = {o}, Tells(o),
           \/ SendMint(o) \/ MintMined(o) \/ FaucetFails(o)
           \/ SendApprove(o) \/ ApproveMined(o) \/ SendDeposit(o) \/ DepositMined(o)
           \/ DepositFails(o) \/ PollEnds(o)
           \/ WithdrawAnswered(o) \/ WithdrawFails(o) \/ Debit(o) \/ Release(o)
    PROVE  Tells(o)'
<1>1. /\ kind' = kind /\ kind[o] \in {"faucet", "deposit", "withdraw"} /\ FlowType /\ pc \in [Op -> Point]
      /\ \A k \in Key : flow.steps[k] \in {"absent", "pending", "active", "done", "error"}
  BY DEF Types, CallsType, FlowType, Kind, SendMint, MintMined, FaucetFails, SendApprove, ApproveMined,
     SendDeposit, DepositMined, DepositFails, PollEnds, WithdrawAnswered, WithdrawFails, Debit, Release
<1>2. CASE SendMint(o) \/ SendApprove(o) \/ SendDeposit(o)
  <2>1. /\ UNCHANGED flow
        /\ \/ pc[o] = "send" /\ pc'[o] = "mine"
           \/ pc[o] = "approve" /\ pc'[o] = "mineApprove"
    BY <1>1, <1>2 DEF SendMint, SendApprove, SendDeposit, Goto, page
  <2>2. QED
    BY <1>1, <2>1, KindOf DEF Tells, Over, FaucetSteps, DepositSteps, WithdrawSteps
<1>3. CASE Debit(o) \/ Release(o)
  <2>1. UNCHANGED flow /\ pc[o] \in {"post", "release"} /\ pc'[o] \in {"release", "served", "refused"}
    BY <1>1, <1>3 DEF Debit, Release, Goto, page
  <2>2. kind[o] = "withdraw"
    BY <2>1, KindOf
  <2>3. QED
    BY <1>1, <2>1, <2>2 DEF Tells, Over, WithdrawSteps
<1>4. CASE MintMined(o) \/ FaucetFails(o)
  <2>1. /\ kind[o] = "faucet" /\ \E r \in {"done", "error"} :
              Patch([mint |-> r]) /\ pc'[o] = IF r = "done" THEN "confirmed" ELSE "failed"
    BY <1>1, <1>4 DEF MintMined, FaucetFails, Finish, Goto
  <2>2. PICK r \in {"done", "error"} :
              Patch([mint |-> r]) /\ pc'[o] = IF r = "done" THEN "confirmed" ELSE "failed"
    BY <2>1
  <2>3. pc[o] \in {"send", "mine"}
    BY <1>4 DEF MintMined, FaucetFails, SendFails, WaitFails
  <2>4. /\ flow.steps["mint"] = "active" /\ \A k \in Key \ {"mint"} : flow.steps[k] = "absent"
    BY <2>1, <2>3 DEF Tells, FaucetSteps
  <2>5. /\ \A k \in Key : flow'.steps[k] = IF k \in {"mint"} /\ flow.steps[k] # "absent" THEN r ELSE flow.steps[k]
        /\ flow'.done <=> \A k \in Key : flow'.steps[k] \in {"absent", "done", "error"}
    BY <1>1, <2>2, PatchDoes
  <2>6. flow'.steps["mint"] = r /\ (\A k \in Key \ {"mint"} : flow'.steps[k] = "absent") /\ flow'.done
    BY <2>4, <2>5 DEF Key
  <2>7. QED
    BY <1>1, <2>1, <2>2, <2>6 DEF Tells, FaucetSteps, Over
<1>5. CASE ApproveMined(o)
  <2>1. /\ pc[o] = "mineApprove" /\ pc'[o] = "send" /\ Patch([approve |-> "done", deposit |-> "active"])
    BY <1>1, <1>5 DEF ApproveMined, Goto
  <2>2. kind[o] = "deposit"
    BY <2>1, KindOf
  <2>3. /\ flow.steps["approve"] = "active" /\ flow.steps["deposit"] = "pending"
        /\ flow.steps["credit"] = "pending" /\ \A k \in {"mint", "request", "release"} : flow.steps[k] = "absent"
    BY <2>1, <2>2 DEF Tells, DepositSteps
  <2>4. /\ \A k \in Key : flow'.steps[k] = IF k \in {"approve", "deposit"} /\ flow.steps[k] # "absent"
                                           THEN [approve |-> "done", deposit |-> "active"][k] ELSE flow.steps[k]
        /\ flow'.done <=> \A k \in Key : flow'.steps[k] \in {"absent", "done", "error"}
    BY <1>1, <2>1, PatchDoes
  <2>5. /\ flow'.steps["approve"] = "done" /\ flow'.steps["deposit"] = "active"
        /\ flow'.steps["credit"] = "pending" /\ ~flow'.done
        /\ \A k \in {"mint", "request", "release"} : flow'.steps[k] = "absent"
    BY <2>3, <2>4 DEF Key
  <2>6. QED
    BY <1>1, <2>1, <2>2, <2>5 DEF Tells, DepositSteps, Over
<1>6. CASE DepositMined(o)
  <2>1. /\ kind[o] = "deposit" /\ pc[o] = "mine" /\ pc'[o] = "poll"
        /\ Patch([deposit |-> "done", credit |-> "active"])
    BY <1>1, <1>6 DEF DepositMined, Goto
  <2>2. /\ flow.steps["approve"] \in {"absent", "done"} /\ flow.steps["deposit"] = "active"
        /\ flow.steps["credit"] = "pending" /\ \A k \in {"mint", "request", "release"} : flow.steps[k] = "absent"
    BY <2>1 DEF Tells, DepositSteps
  <2>3. /\ \A k \in Key : flow'.steps[k] = IF k \in {"deposit", "credit"} /\ flow.steps[k] # "absent"
                                           THEN [deposit |-> "done", credit |-> "active"][k] ELSE flow.steps[k]
        /\ flow'.done <=> \A k \in Key : flow'.steps[k] \in {"absent", "done", "error"}
    BY <1>1, <2>1, PatchDoes
  <2>4. /\ flow'.steps["approve"] \in {"absent", "done"} /\ flow'.steps["deposit"] = "done"
        /\ flow'.steps["credit"] = "active" /\ ~flow'.done
        /\ \A k \in {"mint", "request", "release"} : flow'.steps[k] = "absent"
    BY <2>2, <2>3 DEF Key
  <2>5. QED
    BY <1>1, <2>1, <2>4 DEF Tells, DepositSteps, Over
<1>7. CASE DepositFails(o)
  <2>1. /\ kind[o] = "deposit" /\ pc[o] \in {"approve", "mineApprove", "send", "mine"} /\ pc'[o] = "failed"
        /\ FlowEnds
    BY <1>1, <1>7 DEF DepositFails, SendFails, WaitFails, Reverted, Finish, Goto, FlowEnds
  <2>2. /\ \/ flow.steps["deposit"] = "pending" \/ flow.steps["deposit"] = "active"
        /\ flow.steps["credit"] = "pending" /\ \A k \in {"mint", "request", "release"} : flow.steps[k] = "absent"
    BY <2>1 DEF Tells, DepositSteps
  <2>3. /\ flow'.done
        /\ \A k \in Key : flow'.steps[k] = IF flow.steps[k] = "active" THEN "error" ELSE flow.steps[k]
    BY <1>1, <2>1, FlowEndsDoes
  <2>4. /\ flow'.steps["deposit"] \in {"error", "pending"} /\ flow'.steps["credit"] = "pending"
        /\ \A k \in {"mint", "request", "release"} : flow'.steps[k] = "absent"
    BY <2>2, <2>3 DEF Key
  <2>5. QED
    BY <1>1, <2>1, <2>3, <2>4 DEF Tells, DepositSteps, Over
<1>8. CASE PollEnds(o)
  <2>1. pc[o] = "poll" /\ pc'[o] = "confirmed" /\ \E r \in {"done", "error"} : Patch([credit |-> r])
    BY <1>1, <1>8 DEF PollEnds, Finish, Goto
  <2>2. PICK r \in {"done", "error"} : Patch([credit |-> r])
    BY <2>1
  <2>3. kind[o] = "deposit"
    BY <2>1, KindOf
  <2>4. /\ flow.steps["approve"] \in {"absent", "done"} /\ flow.steps["deposit"] = "done"
        /\ flow.steps["credit"] = "active" /\ \A k \in {"mint", "request", "release"} : flow.steps[k] = "absent"
    BY <2>1, <2>3 DEF Tells, DepositSteps
  <2>5. /\ \A k \in Key : flow'.steps[k] = IF k \in {"credit"} /\ flow.steps[k] # "absent" THEN r ELSE flow.steps[k]
        /\ flow'.done <=> \A k \in Key : flow'.steps[k] \in {"absent", "done", "error"}
    BY <1>1, <2>2, PatchDoes
  <2>6. /\ flow'.steps["approve"] \in {"absent", "done"} /\ flow'.steps["deposit"] = "done"
        /\ flow'.steps["credit"] \in {"done", "error"} /\ flow'.done
        /\ \A k \in {"mint", "request", "release"} : flow'.steps[k] = "absent"
    BY <2>4, <2>5 DEF Key
  <2>7. QED
    BY <1>1, <2>1, <2>3, <2>6 DEF Tells, DepositSteps, Over
<1>9. CASE WithdrawAnswered(o)
  <2>1. pc[o] = "served" /\ pc'[o] = "confirmed" /\ Patch([request |-> "done", release |-> "done"])
    BY <1>1, <1>9 DEF WithdrawAnswered, Finish, Goto
  <2>2. kind[o] = "withdraw"
    BY <2>1, KindOf
  <2>3. /\ flow.steps["request"] = "active" /\ flow.steps["release"] = "pending"
        /\ \A k \in {"mint", "approve", "deposit", "credit"} : flow.steps[k] = "absent"
    BY <2>1, <2>2 DEF Tells, WithdrawSteps
  <2>4. /\ \A k \in Key : flow'.steps[k] = IF k \in {"request", "release"} /\ flow.steps[k] # "absent"
                                           THEN [request |-> "done", release |-> "done"][k] ELSE flow.steps[k]
        /\ flow'.done <=> \A k \in Key : flow'.steps[k] \in {"absent", "done", "error"}
    BY <1>1, <2>1, PatchDoes
  <2>5. /\ flow'.steps["request"] = "done" /\ flow'.steps["release"] = "done" /\ flow'.done
        /\ \A k \in {"mint", "approve", "deposit", "credit"} : flow'.steps[k] = "absent"
    BY <2>3, <2>4 DEF Key
  <2>6. QED
    BY <1>1, <2>1, <2>2, <2>5 DEF Tells, WithdrawSteps, Over
<1>10. CASE WithdrawFails(o)
  <2>1. pc[o] \in {"refused", "post", "served"} /\ pc'[o] = "failed" /\ Patch([request |-> "error"])
    BY <1>1, <1>10 DEF WithdrawFails, Finish, Goto
  <2>2. kind[o] = "withdraw"
    BY <2>1, KindOf
  <2>3. /\ flow.steps["request"] = "active" /\ flow.steps["release"] = "pending"
        /\ \A k \in {"mint", "approve", "deposit", "credit"} : flow.steps[k] = "absent"
    BY <2>1, <2>2 DEF Tells, WithdrawSteps
  <2>4. /\ \A k \in Key : flow'.steps[k] = IF k \in {"request"} /\ flow.steps[k] # "absent"
                                           THEN "error" ELSE flow.steps[k]
        /\ flow'.done <=> \A k \in Key : flow'.steps[k] \in {"absent", "done", "error"}
    BY <1>1, <2>1, PatchDoes
  <2>5. /\ flow'.steps["request"] = "error" /\ flow'.steps["release"] = "pending" /\ ~flow'.done
        /\ \A k \in {"mint", "approve", "deposit", "credit"} : flow'.steps[k] = "absent"
    BY <2>3, <2>4 DEF Key
  <2>6. QED
    BY <1>1, <2>1, <2>2, <2>5 DEF Tells, WithdrawSteps, Over
<1>11. QED
  BY <1>2, <1>3, <1>4, <1>5, <1>6, <1>7, <1>8, <1>9, <1>10

\* The flow is as far as its call, after any step.
LEMMA FlowKept ==
    ASSUME Types, CallsInv, PoolInv, AloneInv, AloneInv', FlowInv, Next
    PROVE  FlowInv'
<1>1. \A u \in Op : Single(u)' => Single(u)
  BY StepsHaveShapes, SingleBefore
<1>2. pc \in [Op -> Point] /\ kind \in [Op -> {"faucet", "deposit", "withdraw"}] /\ FlowType
  BY DEF Types, CallsType, Kind
<1>3. ASSUME UNCHANGED flow, UNCHANGED kind, UNCHANGED pc
      PROVE  FlowInv'
  <2>1. \A u \in Op : u \in Open' => u \in Open
    BY <1>3 DEF Open, Over
  <2>2. QED
    BY <1>1, <1>3, <2>1, FlowSame
<1>4. CASE Refetch \/ MineApprove \/ MineMint \/ MineDeposit
  BY <1>3, <1>4 DEF Refetch, MineApprove, MineMint, MineDeposit, calls, page
<1>5. CASE Close
  BY <1>5 DEF Close, NoFlow, FlowInv
<1>6. ASSUME NEW s \in Spin, PlayAnswered(s) \/ (\E n \in Stakes : Play(s, n)) \/ ServePlay(s)
      PROVE  FlowInv'
  BY <1>3, <1>6 DEF PlayAnswered, Play, ServePlay, calls, page
<1>7. ASSUME NEW o \in Op, Poll(o) \/ PollFails(o) \/ Credit(o)
      PROVE  FlowInv'
  BY <1>3, <1>7 DEF Poll, PollFails, Credit, calls, page
<1>8. ASSUME NEW o \in Op, AllowanceFails(o) \/ \E a \in Amounts : Deposit(o, a)
      PROVE  FlowInv'
  <2>1. /\ UNCHANGED flow /\ UNCHANGED kind
        /\ \/ pc[o] = "allowance" /\ Goto(o, "failed")
           \/ pc[o] = "idle" /\ Goto(o, "allowance")
    BY <1>8 DEF AllowanceFails, Deposit, Click, page
  <2>2. /\ \A u \in Op : u # o => pc'[u] = pc[u]
        /\ pc'[o] = "allowance" \/ o \notin Open'
    BY <1>2, <2>1 DEF Goto, Open, Over
  <2>3. \A u \in Op : u # o => (u \in Open' => u \in Open)
    BY <2>2 DEF Open, Over
  <2>4. flow.of # {o}
    BY <2>1 DEF FlowInv
  <2>5. /\ \A u \in Op : flow.of = {u} => pc'[u] = pc[u]
        /\ \A u \in Op : u \in Open' => pc'[u] = "allowance" \/ (u \in Open /\ pc'[u] = pc[u])
    BY <2>2, <2>3, <2>4
  <2>6. QED
    BY <1>1, <2>1, <2>5, FlowSame
<1>9. ASSUME NEW o \in Op, NEW q \in {"send", "approve", "post"}, Goto(o, q)
      PROVE  pc'[o] = q /\ o \in Open' /\ ~Over(o)'
  BY <1>2, <1>9 DEF Goto, Open, Over
<1>10. ASSUME NEW o \in Op, Faucet(o) \/ \E a \in Amounts : Withdraw(o, a)
       PROVE  FlowInv'
  <2>1. CASE Faucet(o)
    <3>1. kind[o] = "faucet" /\ kind' = kind /\ StartFlow(o, [mint |-> "active"]) /\ Goto(o, "send")
      BY <2>1 DEF Faucet
    <3>2. /\ flow'.of = {o} /\ ~flow'.done
          /\ \A k \in Key : flow'.steps[k] = IF k \in {"mint"} THEN "active" ELSE "absent"
      BY <3>1, StartDoes
    <3>3. Tells(o)'
      BY <1>9, <3>1, <3>2 DEF Tells, FaucetSteps, Key
    <3>4. QED
      BY <1>9, <3>1, <3>2, <3>3, FlowStarts
  <2>2. CASE \E a \in Amounts : Withdraw(o, a)
    <3>1. /\ kind[o] = "withdraw" /\ kind' = kind /\ Goto(o, "post")
          /\ StartFlow(o, [request |-> "active", release |-> "pending"])
      BY <2>2 DEF Withdraw
    <3>2. /\ flow'.of = {o} /\ ~flow'.done
          /\ \A k \in Key : flow'.steps[k] = IF k \in {"request", "release"}
                                           THEN [request |-> "active", release |-> "pending"][k] ELSE "absent"
      BY <3>1, StartDoes
    <3>3. /\ flow'.steps["request"] = "active" /\ flow'.steps["release"] = "pending"
          /\ \A k \in {"mint", "approve", "deposit", "credit"} : flow'.steps[k] = "absent"
      BY <3>2 DEF Key
    <3>4. Tells(o)'
      BY <1>9, <3>1, <3>2, <3>3 DEF Tells, WithdrawSteps
    <3>5. QED
      BY <1>9, <3>1, <3>2, <3>4, FlowStarts
  <2>3. QED
    BY <1>10, <2>1, <2>2
<1>11. ASSUME NEW o \in Op, ReadAllowance(o)
       PROVE  FlowInv'
  <2>1. kind' = kind /\ kind[o] = "deposit"
    BY <1>11, KindOf DEF ReadAllowance
  <2>2. CASE NeedsApprove(o)
    <3>1. /\ Goto(o, "approve")
          /\ StartFlow(o, [approve |-> "active", deposit |-> "pending", credit |-> "pending"])
      BY <1>11, <2>2 DEF ReadAllowance
    <3>2. /\ flow'.of = {o} /\ ~flow'.done
          /\ \A k \in Key : flow'.steps[k] = IF k \in {"approve", "deposit", "credit"}
               THEN [approve |-> "active", deposit |-> "pending", credit |-> "pending"][k] ELSE "absent"
      BY <3>1, StartDoes
    <3>3. /\ flow'.steps["approve"] = "active" /\ flow'.steps["deposit"] = "pending"
          /\ flow'.steps["credit"] = "pending"
          /\ \A k \in {"mint", "request", "release"} : flow'.steps[k] = "absent"
      BY <3>2 DEF Key
    <3>4. Tells(o)'
      BY <1>9, <2>1, <3>1, <3>2, <3>3 DEF Tells, DepositSteps
    <3>5. QED
      BY <1>9, <3>1, <3>2, <3>4, FlowStarts
  <2>3. CASE ~NeedsApprove(o)
    <3>1. Goto(o, "send") /\ StartFlow(o, [deposit |-> "active", credit |-> "pending"])
      BY <1>11, <2>3 DEF ReadAllowance
    <3>2. /\ flow'.of = {o} /\ ~flow'.done
          /\ \A k \in Key : flow'.steps[k] = IF k \in {"deposit", "credit"}
                                           THEN [deposit |-> "active", credit |-> "pending"][k] ELSE "absent"
      BY <3>1, StartDoes
    <3>3. /\ flow'.steps["approve"] = "absent" /\ flow'.steps["deposit"] = "active"
          /\ flow'.steps["credit"] = "pending"
          /\ \A k \in {"mint", "request", "release"} : flow'.steps[k] = "absent"
      BY <3>2 DEF Key
    <3>4. Tells(o)'
      BY <1>9, <2>1, <3>1, <3>2, <3>3 DEF Tells, DepositSteps
    <3>5. QED
      BY <1>9, <3>1, <3>2, <3>4, FlowStarts
  <2>4. QED
    BY <2>2, <2>3
<1>12. ASSUME NEW o \in Op,
              \/ SendMint(o) \/ MintMined(o) \/ FaucetFails(o)
              \/ SendApprove(o) \/ ApproveMined(o) \/ SendDeposit(o) \/ DepositMined(o)
              \/ DepositFails(o) \/ PollEnds(o)
              \/ WithdrawAnswered(o) \/ WithdrawFails(o) \/ Debit(o) \/ Release(o)
       PROVE  FlowInv'
  <2>1. flow.of = {o} /\ Single(o) => Tells(o)'
    BY <1>12, OwnStepTells DEF FlowInv
  <2>2. pc[o] \in {"approve", "mineApprove", "send", "mine", "poll", "post", "release", "served", "refused"}
    BY <1>12 DEF SendMint, MintMined, FaucetFails, SendApprove, ApproveMined, SendDeposit, DepositMined,
       DepositFails, PollEnds, WithdrawAnswered, WithdrawFails, Debit, Release, SendFails, WaitFails, Reverted
  <2>3. \E q \in {"mineApprove", "send", "mine", "poll", "release", "refused", "served", "confirmed", "failed"} :
           Goto(o, q)
    BY <1>12 DEF SendMint, MintMined, FaucetFails, SendApprove, ApproveMined, SendDeposit, DepositMined,
       DepositFails, PollEnds, WithdrawAnswered, WithdrawFails, Debit, Release, Finish
  <2>4. flow'.of = flow.of
    <3>1. CASE SendMint(o) \/ SendApprove(o) \/ SendDeposit(o) \/ Debit(o) \/ Release(o)
      BY <3>1 DEF SendMint, SendApprove, SendDeposit, Debit, Release, page
    <3>2. CASE DepositFails(o)
      BY <1>2, <3>2, FlowEndsDoes DEF DepositFails, FlowEnds
    <3>3. CASE MintMined(o) \/ FaucetFails(o) \/ ApproveMined(o) \/ DepositMined(o) \/ PollEnds(o)
               \/ WithdrawAnswered(o) \/ WithdrawFails(o)
      <4>1. \E patch : Patch(patch) /\ \A k \in DOMAIN patch : patch[k] \in {"active", "done", "error"}
        BY <3>3 DEF MintMined, FaucetFails, ApproveMined, DepositMined, PollEnds, WithdrawAnswered, WithdrawFails
      <4>2. QED
        BY <1>2, <4>1, PatchDoes
    <3>4. QED
      BY <1>12, <3>1, <3>2, <3>3
  <2>5. o \in Open /\ pc[o] # "allowance"
    BY <2>2 DEF Open, Over
  <2>6. QED
    BY <1>1, <2>1, <2>3, <2>4, <2>5, FlowOwn
<1>13. QED
  BY <1>4, <1>5, <1>6, <1>7, <1>8, <1>10, <1>11, <1>12 DEF Next, OnPage, Elsewhere

---------------------------------------------------------------------------
(* The credit.                                                             *)

\* A credit is for good.
LEMMA CreditedGrows ==
    ASSUME Next PROVE credited \subseteq credited'
<1>1. CASE UNCHANGED ledger
  BY <1>1 DEF ledger
<1>2. ASSUME NEW s \in Spin, ServePlay(s) \/ PlayAnswered(s) \/ \E n \in Stakes : Play(s, n)
      PROVE  credited' = credited
  BY <1>2 DEF ServePlay, PlayAnswered, Play, ledger
<1>3. ASSUME NEW o \in Op, Debit(o) \/ Release(o) \/ Credit(o)
      PROVE  credited \subseteq credited'
  BY <1>3 DEF Debit, Release, Credit
<1>4. ASSUME NEW o \in Op,
             \/ Faucet(o) \/ MintMined(o) \/ ReadAllowance(o) \/ AllowanceFails(o) \/ ApproveMined(o)
             \/ DepositMined(o) \/ Poll(o) \/ PollFails(o) \/ PollEnds(o) \/ WithdrawAnswered(o)
             \/ WithdrawFails(o) \/ SendMint(o) \/ SendApprove(o) \/ SendDeposit(o) \/ FaucetFails(o)
             \/ DepositFails(o)
             \/ \E a \in Amounts : Deposit(o, a) \/ Withdraw(o, a)
      PROVE  UNCHANGED ledger
  BY <1>4 DEF Faucet, Deposit, Withdraw, Click, MintMined, ReadAllowance, AllowanceFails, ApproveMined,
     DepositMined, Poll, PollFails, PollEnds, WithdrawAnswered, WithdrawFails, SendMint, SendApprove,
     SendDeposit, FaucetFails, DepositFails
<1>5. CASE Close \/ Refetch \/ MineApprove \/ MineMint \/ MineDeposit
  BY <1>1, <1>5 DEF Close, Refetch, MineApprove, MineMint, MineDeposit
<1>6. QED
  BY <1>1, <1>2, <1>3, <1>4, <1>5 DEF Next, OnPage, Elsewhere

\* A deposit under way keeps the balance it started from; the balance rises past
\* it with a note of that, or with the deposit's own credit.
LEMMA RiseIsNoted ==
    ASSUME Types, CallsInv, PoolInv, Next, NEW o \in Open, kind[o] = "deposit"
    PROVE  /\ before'[o] = before[o] /\ credited \subseteq credited'
           /\ balance' <= balance \/ "raised" \in met'[o] \/ o \in credited'
<1>1. o \in Op /\ pc[o] # "idle" /\ balance \in Nat
  BY DEF Open, Types, LedgerType
<1>2. before'[o] = before[o]
  <2>1. StillStep \/ MineStep \/ \E u \in Op : LegStep(u) \/ SubmitStep(u) \/ ClickStep(u)
    BY StepsHaveShapes
  <2>2. CASE StillStep \/ MineStep
    BY <1>1, <2>2 DEF StillStep, MineStep
  <2>3. ASSUME NEW u \in Op, LegStep(u) \/ SubmitStep(u)
        PROVE  before' = before
    BY <2>3 DEF LegStep, SubmitStep, Moves
  <2>4. ASSUME NEW u \in Op, ClickStep(u)
        PROVE  before'[o] = before[o]
    BY <1>1, <2>4 DEF ClickStep
  <2>5. QED
    BY <2>1, <2>2, <2>3, <2>4
<1>3. ASSUME NEW n, NEW who, Raise(n, who), o \notin who
      PROVE  "raised" \in met'[o]
  <2>1. met'[o] = IF o \in Open \ who THEN met[o] \cup {"raised"} ELSE met[o]
    BY <1>1, <1>3, RaiseDoes
  <2>2. o \in Open \ who
    BY <1>3
  <2>3. QED
    BY <2>1, <2>2
<1>4. CASE UNCHANGED ledger
  BY <1>1, <1>2, <1>4 DEF ledger
<1>5. ASSUME NEW s \in Spin, ServePlay(s)
      PROVE  credited' = credited /\ (balance' <= balance \/ "raised" \in met'[o])
  <2>1. stake[s] \in Nat
    BY AmountsArePositive DEF Types, PageType
  <2>2. credited' = credited
    BY <1>5 DEF ServePlay
  <2>3. \/ balance' = balance \/ balance' = balance - stake[s]
        \/ \E p \in Payouts : Raise(p - stake[s], {})
    BY <1>5 DEF ServePlay
  <2>4. (\E p \in Payouts : Raise(p - stake[s], {})) => "raised" \in met'[o]
    BY <1>3
  <2>5. QED
    BY <1>1, <2>1, <2>2, <2>3, <2>4
<1>6. ASSUME NEW u \in Op, Debit(u) \/ Release(u)
      PROVE  credited' = credited /\ (balance' <= balance \/ "raised" \in met'[o])
  <2>1. amount[u] \in Nat /\ credited' = credited
    BY <1>6, AmountsAreNatural DEF Debit, Release
  <2>2. CASE Debit(u)
    BY <1>1, <2>1, <2>2 DEF Debit
  <2>3. CASE Release(u)
    <3>1. u # o
      BY <2>3, KindOf DEF Release
    <3>2. balance' = balance \/ Raise(amount[u], {u})
      BY <2>3 DEF Release
    <3>3. QED
      BY <1>1, <1>3, <2>1, <3>1, <3>2
  <2>4. QED
    BY <1>6, <2>2, <2>3
<1>7. ASSUME NEW u \in Op, Credit(u)
      PROVE  credited' = credited \cup {u} /\ (o \in credited' \/ "raised" \in met'[o])
  BY <1>3, <1>7 DEF Credit
<1>8. ASSUME NEW u \in Op,
             \/ Faucet(u) \/ MintMined(u) \/ ReadAllowance(u) \/ AllowanceFails(u) \/ ApproveMined(u)
             \/ DepositMined(u) \/ Poll(u) \/ PollFails(u) \/ PollEnds(u) \/ WithdrawAnswered(u)
             \/ WithdrawFails(u) \/ SendMint(u) \/ SendApprove(u) \/ SendDeposit(u) \/ FaucetFails(u)
             \/ DepositFails(u)
             \/ \E a \in Amounts : Deposit(u, a) \/ Withdraw(u, a)
      PROVE  UNCHANGED ledger
  BY <1>8 DEF Faucet, Deposit, Withdraw, Click, MintMined, ReadAllowance, AllowanceFails, ApproveMined,
     DepositMined, Poll, PollFails, PollEnds, WithdrawAnswered, WithdrawFails, SendMint, SendApprove,
     SendDeposit, FaucetFails, DepositFails
<1>9. ASSUME NEW s \in Spin, PlayAnswered(s) \/ \E n \in Stakes : Play(s, n)
      PROVE  UNCHANGED ledger
  BY <1>9 DEF PlayAnswered, Play
<1>10. CASE Close \/ Refetch \/ MineApprove \/ MineMint \/ MineDeposit
  BY <1>4, <1>10 DEF Close, Refetch, MineApprove, MineMint, MineDeposit
<1>11. QED
  BY <1>2, <1>4, <1>5, <1>6, <1>7, <1>8, <1>9, <1>10 DEF Next, OnPage, Elsewhere

\* A deposit that comes under way notes a balance that is not the ledger's.
LEMMA DepositStarts ==
    ASSUME Types, CallsInv, Next, NEW o \in Op, o \notin Open, o \in Open', kind[o] = "deposit",
           "stale" \notin met'[o]
    PROVE  balance' = before'[o]
<1>1. pc \in [Op -> Point] /\ pc[o] \in {"idle", "confirmed", "failed"} /\ pc'[o] # pc[o]
  BY DEF Types, CallsType, Open, Over
<1>2. ASSUME NEW u \in Op, NEW q, pc[u] \notin {"idle", "confirmed", "failed"} \/ q \in {"confirmed", "failed"},
             Goto(u, q)
      PROVE  FALSE
  BY <1>1, <1>2 DEF Goto, Open, Over
<1>3. ASSUME UNCHANGED pc PROVE FALSE
  BY <1>1, <1>3
<1>4. ~(Close \/ Refetch \/ MineApprove \/ MineMint \/ MineDeposit)
  BY <1>3 DEF Close, Refetch, MineApprove, MineMint, MineDeposit, calls
<1>5. ASSUME NEW s \in Spin PROVE ~(PlayAnswered(s) \/ ServePlay(s) \/ \E n \in Stakes : Play(s, n))
  BY <1>3 DEF PlayAnswered, ServePlay, Play, calls
<1>6. ASSUME NEW u \in Op
      PROVE  ~(Poll(u) \/ PollFails(u) \/ Credit(u))
  BY <1>3 DEF Poll, PollFails, Credit, calls
<1>7. ASSUME NEW u \in Op
      PROVE  ~(\/ SendMint(u) \/ MintMined(u) \/ ReadAllowance(u) \/ AllowanceFails(u) \/ SendApprove(u)
               \/ ApproveMined(u) \/ SendDeposit(u) \/ DepositMined(u) \/ PollEnds(u) \/ WithdrawAnswered(u)
               \/ FaucetFails(u) \/ DepositFails(u) \/ WithdrawFails(u) \/ Debit(u) \/ Release(u))
  BY <1>2 DEF SendMint, MintMined, ReadAllowance, AllowanceFails, SendApprove, ApproveMined, SendDeposit,
     DepositMined, PollEnds, WithdrawAnswered, FaucetFails, DepositFails, WithdrawFails, Debit, Release, Finish
<1>8. PICK u \in Op : Faucet(u) \/ \E a \in Amounts : Deposit(u, a) \/ Withdraw(u, a)
  BY <1>4, <1>5, <1>6, <1>7 DEF Next, OnPage, Elsewhere
<1>9. u = o
  <2>1. \E q : Goto(u, q)
    BY <1>8 DEF Faucet, Deposit, Withdraw
  <2>2. QED
    BY <1>1, <2>1 DEF Goto
<1>10. \E a \in Amounts : Deposit(o, a)
  BY <1>8, <1>9 DEF Faucet, Withdraw
<1>11. Click(o) /\ before'[o] = casino
  BY <1>10 DEF Deposit, Types, CallsType
<1>12. /\ balance' = balance
       /\ casino # balance => "stale" \in met'[o]
  BY <1>11 DEF Click, ledger
<1>13. casino = balance
  BY <1>12
<1>14. QED
  BY <1>11, <1>12, <1>13

\* The panel of a call that none overlapped shows a credit when the poll finds the
\* balance risen, and not before.
LEMMA CreditIsFound ==
    ASSUME Types, CallsInv, FlowInv, Next, NEW o \in Op, Single(o), flow'.of = {o},
           flow'.steps["credit"] = "done"
    PROVE  flow.of = {o} /\ (flow.steps["credit"] = "done" \/ (o \in Open /\ balance > before[o]))
<1>1. FlowType /\ pc \in [Op -> Point]
  BY DEF Types, CallsType
<1>2. ASSUME UNCHANGED flow PROVE flow.of = {o} /\ flow.steps["credit"] = "done"
  BY <1>2
<1>3. ASSUME NEW u, NEW steps, StartFlow(u, steps), \A k \in DOMAIN steps : steps[k] \in {"pending", "active"}
      PROVE  FALSE
  BY <1>3 DEF StartFlow, Key
<1>4. ASSUME NEW patch, Patch(patch), \A k \in DOMAIN patch : patch[k] \in {"active", "done", "error"},
             "credit" \in DOMAIN patch => patch["credit"] # "done"
      PROVE  flow.of = {o} /\ flow.steps["credit"] = "done"
  <2>1. /\ flow'.of = flow.of
        /\ flow.of # {} =>
             \A k \in Key : flow'.steps[k] = IF k \in DOMAIN patch /\ flow.steps[k] # "absent"
                                           THEN patch[k] ELSE flow.steps[k]
    BY <1>1, <1>4, PatchDoes
  <2>2. "credit" \in Key
    BY DEF Key
  <2>3. QED
    BY <1>4, <2>1, <2>2
<1>5. ASSUME FlowEnds PROVE flow.of = {o} /\ flow.steps["credit"] = "done"
  <2>1. /\ flow'.of = flow.of
        /\ flow.of # {} => \A k \in Key : flow'.steps[k] = IF flow.steps[k] = "active" THEN "error" ELSE flow.steps[k]
    BY <1>1, <1>5, FlowEndsDoes
  <2>2. QED
    BY <2>1 DEF Key
<1>6. CASE Close
  BY <1>6 DEF Close, NoFlow
<1>7. CASE Refetch \/ MineApprove \/ MineMint \/ MineDeposit
  BY <1>2, <1>7 DEF Refetch, MineApprove, MineMint, MineDeposit, page
<1>8. ASSUME NEW s \in Spin, PlayAnswered(s) \/ ServePlay(s) \/ \E n \in Stakes : Play(s, n)
      PROVE  UNCHANGED flow
  BY <1>8 DEF PlayAnswered, ServePlay, Play, page
<1>9. ASSUME NEW u \in Op,
             \/ AllowanceFails(u) \/ SendMint(u) \/ SendApprove(u) \/ SendDeposit(u) \/ Poll(u) \/ PollFails(u)
             \/ Debit(u) \/ Release(u) \/ Credit(u) \/ \E a \in Amounts : Deposit(u, a)
      PROVE  UNCHANGED flow
  BY <1>9 DEF AllowanceFails, SendMint, SendApprove, SendDeposit, Poll, PollFails, Debit, Release, Credit,
     Deposit, page
<1>10. ASSUME NEW u \in Op, Faucet(u) \/ ReadAllowance(u) \/ \E a \in Amounts : Withdraw(u, a)
       PROVE  FALSE
  <2>1. \E steps : StartFlow(u, steps) /\ \A k \in DOMAIN steps : steps[k] \in {"pending", "active"}
    BY <1>10 DEF Faucet, ReadAllowance, Withdraw
  <2>2. QED
    BY <1>3, <2>1
<1>11. ASSUME NEW u \in Op,
              \/ MintMined(u) \/ FaucetFails(u) \/ ApproveMined(u) \/ DepositMined(u) \/ WithdrawAnswered(u)
              \/ WithdrawFails(u)
       PROVE  flow.of = {o} /\ flow.steps["credit"] = "done"
  <2>1. \E patch : /\ Patch(patch) /\ \A k \in DOMAIN patch : patch[k] \in {"active", "done", "error"}
                   /\ "credit" \in DOMAIN patch => patch["credit"] # "done"
    BY <1>11 DEF MintMined, FaucetFails, ApproveMined, DepositMined, WithdrawAnswered, WithdrawFails
  <2>2. QED
    BY <1>4, <2>1
<1>12. ASSUME NEW u \in Op, DepositFails(u) PROVE FlowEnds
  BY <1>12 DEF DepositFails, FlowEnds
<1>13. ASSUME NEW u \in Op, PollEnds(u)
       PROVE  flow.of = {o} /\ (flow.steps["credit"] = "done" \/ (o \in Open /\ balance > before[o]))
  <2>1. pc[u] = "poll" /\ (Patch([credit |-> "error"]) \/ (Patch([credit |-> "done"]) /\ balance > before[u]))
    BY <1>13 DEF PollEnds, Rose
  <2>2. CASE Patch([credit |-> "error"])
    BY <1>4, <2>2
  <2>3. CASE Patch([credit |-> "done"]) /\ balance > before[u]
    <3>1. flow'.of = flow.of
      BY <1>1, <2>3, PatchDoes
    <3>2. u \in Open
      BY <2>1 DEF Open, Over
    <3>3. u = o
      BY <2>1, <3>1, <3>2 DEF FlowInv
    <3>4. QED
      BY <2>3, <3>1, <3>2, <3>3
  <2>4. QED
    BY <2>1, <2>2, <2>3
<1>14. QED
  BY <1>2, <1>5, <1>6, <1>7, <1>8, <1>9, <1>10, <1>11, <1>12, <1>13 DEF Next, OnPage, Elsewhere

\* A balance that rose unnoted is the deposit's own credit, after any step.
LEMMA CreditKept ==
    ASSUME Types, CallsInv, PoolInv, FlowInv, CreditInv, Next
    PROVE  CreditInv'
<1>1. /\ kind' = kind /\ credited \subseteq credited'
      /\ \A u \in Op : met[u] \subseteq met'[u]
  <2>1. StillStep \/ MineStep \/ \E o \in Op : LegStep(o) \/ SubmitStep(o) \/ ClickStep(o)
    BY StepsHaveShapes
  <2>2. kind' = kind
    BY <2>1 DEF StillStep, MineStep, LegStep, SubmitStep, ClickStep, Moves
  <2>3. QED
    BY <2>1, <2>2, MetGrows, CreditedGrows
<1>2. SUFFICES ASSUME NEW o \in Op, kind[o] = "deposit", met'[o] \cap {"stale", "raised", "overlap"} = {}
               PROVE  /\ o \in Open' => balance' <= before'[o] \/ o \in credited'
                      /\ flow'.of = {o} /\ flow'.steps["credit"] = "done" => o \in credited'
  BY <1>1 DEF CreditInv
<1>3. /\ met[o] \cap {"stale", "raised", "overlap"} = {} /\ Single(o)
      /\ "stale" \notin met'[o] /\ "raised" \notin met'[o]
  <2>1. met[o] \subseteq met'[o]
    BY <1>1
  <2>2. QED
    BY <1>2, <2>1 DEF Single
<1>4. balance \in Nat /\ balance' \in Nat /\ before[o] \in Nat /\ before'[o] \in Nat
  <2>1. Types'
    BY TypesKept
  <2>2. QED
    BY <2>1 DEF Types, LedgerType, CallsType
<1>5. ASSUME o \in Open'
      PROVE  balance' <= before'[o] \/ o \in credited'
  <2>1. CASE o \in Open
    <3>1. balance <= before[o] \/ o \in credited
      BY <1>2, <1>3, <2>1 DEF CreditInv
    <3>2. before'[o] = before[o] /\ (balance' <= balance \/ o \in credited')
      BY <1>2, <1>3, <2>1, RiseIsNoted
    <3>3. QED
      BY <1>1, <1>4, <3>1, <3>2
  <2>2. CASE o \notin Open
    BY <1>2, <1>3, <1>4, <1>5, <2>2, DepositStarts
  <2>3. QED
    BY <2>1, <2>2
<1>6. ASSUME flow'.of = {o}, flow'.steps["credit"] = "done"
      PROVE  o \in credited'
  <2>1. flow.of = {o} /\ (flow.steps["credit"] = "done" \/ (o \in Open /\ balance > before[o]))
    BY <1>3, <1>6, CreditIsFound
  <2>2. o \in credited
    BY <1>2, <1>3, <1>4, <2>1 DEF CreditInv
  <2>3. QED
    BY <1>1, <2>2
<1>7. QED
  BY <1>5, <1>6

---------------------------------------------------------------------------
(* The theorems of the cashier.                                            *)

\* The page is loaded, and nothing has been done.
LEMMA CashierStarts ==
    ASSUME Init PROVE CashierInv
<1>1. Open = {} /\ \A o \in Op : pc[o] = "idle" /\ met[o] = {} /\ receipt[o] = "none"
  BY DEF Init, Open
<1>2. FlowType /\ flow.of = {}
  BY DEF Init, NoFlow, FlowType
<1>3. pool = <<>> /\ DOMAIN pool = {}
  BY DEF Init
<1>4. CallsType /\ MetType
  BY NumbersAreNatural DEF Init, CallsType, MetType, Point
<1>5. PageType /\ LedgerType /\ ChainType
  <2>1. PageType
    BY DEF Init, PageType
  <2>2. LedgerType
    BY NumbersAreNatural DEF Init, LedgerType
  <2>3. pool \in Seq([op : Op, what : {"approve", "move"}])
    BY <1>3, EmptySeq
  <2>4. /\ executed = {} /\ receipt = [o \in Op |-> "none"] /\ chips = Chips /\ allowance = 0 /\ faults = 0
        /\ Chips \in Nat /\ MaxFaults \in Nat
    BY NumbersAreNatural DEF Init
  <2>5. ChainType
    BY <2>3, <2>4 DEF ChainType
  <2>6. QED
    BY <2>1, <2>2, <2>5
<1>6. CallsInv
  <2>1. \A o \in Op : kind[o] \in {"faucet", "deposit", "withdraw"}
    BY DEF Init, Kind
  <2>2. executed = {} /\ debited = {}
    BY DEF Init
  <2>3. QED
    BY <1>1, <2>1, <2>2 DEF CallsInv, CallInv, PointsOf
<1>7. PoolInv /\ AloneInv /\ AllowanceInv
  BY <1>1, <1>3 DEF PoolInv, AloneInv, AllowanceInv
<1>8. FlowInv /\ CreditInv
  BY <1>1, <1>2 DEF FlowInv, CreditInv
<1>9. BusyMeansUnderWay
  BY <1>1 DEF Init, BusyMeansUnderWay
<1>10. FellInv
  BY NumbersAreNatural DEF Init, FellInv
<1>11. QED
  BY <1>2, <1>4, <1>5, <1>6, <1>7, <1>8, <1>9, <1>10 DEF CashierInv, Types

\* Every step keeps every part.
LEMMA CashierKept ==
    ASSUME CashierInv, [Next]_vars PROVE CashierInv'
<1>1. CASE Next
  <2>1. /\ Types /\ CallsInv /\ PoolInv /\ AloneInv /\ AllowanceInv
        /\ FlowInv /\ CreditInv /\ BusyMeansUnderWay /\ FellInv
    BY DEF CashierInv
  <2>2. StillStep \/ MineStep \/ \E o \in Op : LegStep(o) \/ SubmitStep(o) \/ ClickStep(o)
    BY <1>1, <2>1, StepsHaveShapes
  <2>3. Types' /\ PoolInv' /\ AloneInv' /\ AllowanceInv' /\ BusyMeansUnderWay'
    BY <1>1, <2>1, <2>2, TypesKept, PoolKept, AloneKept, AllowanceKept, BusyKept
  <2>4. CallsInv'
    BY <2>1, <2>2, LegKeepsCalls, SubmitKeepsCalls, MineKeepsCalls, ClickKeepsCalls, StillKeepsCalls
  <2>5. FlowInv' /\ CreditInv' /\ FellInv'
    BY <1>1, <2>1, <2>3, FlowKept, CreditKept, FellKept
  <2>6. QED
    BY <2>3, <2>4, <2>5 DEF CashierInv
<1>2. CASE UNCHANGED vars
  BY <1>2 DEF CashierInv, Types, CallsType, MetType, FlowType, PageType, LedgerType, ChainType, CallsInv, CallInv,
     PoolInv, AloneInv, AllowanceInv, FlowInv, CreditInv, BusyMeansUnderWay, FellInv, Open, Over, Single, Tells,
     FaucetSteps, DepositSteps, WithdrawSteps, vars, calls, page, rounds, ledger, chain, history
<1>3. QED
  BY <1>1, <1>2

\* The calls, the panel, the buttons and the balances agree, in every state.
THEOREM CashierIsConsistent == Spec => []CashierInv
BY CashierStarts, CashierKept, PTL DEF Spec

\* "Listener confirmed the deposit on-chain" is true of a deposit whose balance was
\* fresh and that nothing else raised.
THEOREM ConfirmedCreditIsAlwaysTrue == Spec => []ConfirmedCreditIsTrue
<1>1. CashierInv => ConfirmedCreditIsTrue
  BY DEF CashierInv, CreditInv, ConfirmedCreditIsTrue
<1>2. QED
  BY <1>1, CashierIsConsistent, PTL

\* The panel tells the truth about a call that none overlapped.
THEOREM FlowAlwaysTellsTheTruth == Spec => []FlowTellsTheTruth
<1>1. ASSUME CashierInv PROVE FlowTellsTheTruth
  <2>1. CallsInv /\ AllowanceInv /\ FlowInv /\ Types
    BY <1>1 DEF CashierInv
  <2>2. ApprovedDepositsGoThrough
    BY <2>1 DEF AllowanceInv, ApprovedDepositsGoThrough, Single
  <2>3. ASSUME NEW o \in Op, flow.of = {o}, "overlap" \notin met[o]
        PROVE  /\ flow.steps["mint"] = "done" \/ flow.steps["deposit"] = "done"
                     => o \in executed \/ receipt[o] = "noChips"
               /\ flow.steps["request"] = "done" => o \in debited
               /\ \A k \in {"mint", "deposit", "request"} :
                     flow.steps[k] = "error" /\ "lost" \notin met[o] => o \notin executed \cup debited
    <3>1. /\ Tells(o) /\ pc[o] \notin {"idle", "allowance"} /\ receipt[o] # "noAllowance"
          /\ CallInv(o) /\ kind[o] \in {"faucet", "deposit", "withdraw"}
      BY <2>1, <2>3 DEF FlowInv, AllowanceInv, CallsInv, Single, Types, CallsType, Kind
    <3>2. CASE kind[o] = "faucet"
      BY <3>1, <3>2 DEF Tells, FaucetSteps, CallInv, Key
    <3>3. CASE kind[o] = "deposit"
      BY <3>1, <3>3 DEF Tells, DepositSteps, CallInv, PointsOf
    <3>4. CASE kind[o] = "withdraw"
      BY <3>1, <3>4 DEF Tells, WithdrawSteps, CallInv
    <3>5. QED
      BY <3>1, <3>2, <3>3, <3>4
  <2>4. QED
    BY <2>2, <2>3 DEF FlowTellsTheTruth
<1>2. QED
  BY <1>1, CashierIsConsistent, PTL

\* The buttons come back, and the panel of a call that is over can be closed.
THEOREM NothingIsEverLeftBusy == Spec => []NothingIsLeftBusy
<1>1. ASSUME CashierInv PROVE NothingIsLeftBusy
  <2>1. Types /\ FlowInv /\ BusyMeansUnderWay
    BY <1>1 DEF CashierInv
  <2>2. FinishedFlowsClose
    BY <2>1 DEF FlowInv, Tells, Single, FinishedFlowsClose
  <2>3. QED
    BY <2>1, <2>2, TypesSuffice DEF NothingIsLeftBusy
<1>2. QED
  BY <1>1, CashierIsConsistent, PTL

\* No stake that the displayed balance covered is refused, unless the ledger fell.
THEOREM StakesAreRefusedOnlyIfFallen == Spec => RefusedOnlyIfFallen
<1>1. ASSUME CashierInv, [Next]_vars, NEW s \in Spin, play[s] = "post", play'[s] = "refused"
      PROVE  fell
  <2>1. /\ play \in [Spin -> {"idle", "post", "played", "refused", "over"}]
        /\ ~fell => stake[s] <= balance
        /\ stake[s] \in Nat /\ balance \in Nat
    BY <1>1, AmountsArePositive DEF CashierInv, Types, PageType, LedgerType, FellInv
  <2>2. ASSUME UNCHANGED play PROVE FALSE
    BY <1>1, <2>2
  <2>3. ~UNCHANGED vars
    BY <2>2 DEF vars, rounds
  <2>4. ~(Close \/ Refetch \/ MineApprove \/ MineMint \/ MineDeposit)
    BY <2>2 DEF Close, Refetch, MineApprove, MineMint, MineDeposit, rounds
  <2>5. ASSUME NEW o \in Op
        PROVE  ~(\/ Faucet(o) \/ MintMined(o) \/ ReadAllowance(o) \/ AllowanceFails(o) \/ ApproveMined(o)
                 \/ DepositMined(o) \/ Poll(o) \/ PollFails(o) \/ PollEnds(o) \/ WithdrawAnswered(o)
                 \/ WithdrawFails(o) \/ SendMint(o) \/ SendApprove(o) \/ SendDeposit(o) \/ FaucetFails(o)
                 \/ DepositFails(o) \/ Debit(o) \/ Release(o) \/ Credit(o)
                 \/ \E a \in Amounts : Deposit(o, a) \/ Withdraw(o, a))
    BY <2>2 DEF Faucet, Deposit, Withdraw, Click, MintMined, ReadAllowance, AllowanceFails, ApproveMined,
       DepositMined, Poll, PollFails, PollEnds, WithdrawAnswered, WithdrawFails, SendMint, SendApprove,
       SendDeposit, FaucetFails, DepositFails, Debit, Release, Credit, rounds
  <2>6. ASSUME NEW t \in Spin, PlayAnswered(t) \/ \E n \in Stakes : Play(t, n)
        PROVE  FALSE
    BY <1>1, <2>1, <2>6 DEF PlayAnswered, Play
  <2>7. PICK t \in Spin : ServePlay(t)
    BY <1>1, <2>3, <2>4, <2>5, <2>6 DEF Next, OnPage, Elsewhere
  <2>8. CASE stake[t] > balance
    <3>1. play' = [play EXCEPT ![t] = "refused"]
      BY <2>7, <2>8 DEF ServePlay
    <3>2. t = s
      BY <1>1, <2>1, <3>1
    <3>3. QED
      BY <2>1, <2>8, <3>2
  <2>9. CASE ~(stake[t] > balance)
    <3>1. play' = [play EXCEPT ![t] = "played"]
      BY <2>7, <2>9 DEF ServePlay
    <3>2. QED
      BY <1>1, <2>1, <3>1
  <2>10. QED
    BY <2>8, <2>9
<1>2. CashierInv /\ [Next]_vars =>
         [\A s \in Spin : play[s] = "post" /\ play'[s] = "refused" => fell]_vars
  BY <1>1
<1>3. QED
  BY <1>2, CashierIsConsistent, PTL DEF Spec, RefusedOnlyIfFallen
=============================================================================
