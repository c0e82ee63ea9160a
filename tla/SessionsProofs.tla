--------------------------- MODULE SessionsProofs ---------------------------
(***************************************************************************)
(* What holds of the sessions for every number of challenges, tokens and   *)
(* concurrent requests.                                                    *)
(***************************************************************************)
EXTENDS Sessions, SequenceTheorems, TLAPS

\* A request that is about to open a login.
Opening(r) == pc[r] = "create" /\ token[r] = 0

\* A request presents a token of its login, and one that is about to write a token
\* has either revoked the token it replaces or is the only one with its challenge.
RequestsAreEarned ==
    \A r \in Request :
        /\ pc[r] \in {"findActive", "findByHash", "revokeAll", "revoke", "logout"}
              => token[r] # 0
        /\ pc[r] \notin {"idle", "done"} /\ token[r] # 0
              => tokens[token[r]].login = login[r]
        /\ pc[r] = "create" /\ token[r] # 0 => tokens[token[r]].revoked
        /\ Opening(r) =>
              /\ nonces[login[r]] = "gone"
              /\ \A t \in DOMAIN tokens : tokens[t].login # login[r]
              /\ \A q \in Request : Opening(q) /\ login[q] = login[r] => q = r

\* A token descends from a challenge that was consumed.
ChallengesAreSpent == \A t \in DOMAIN tokens : nonces[tokens[t].login] = "gone"

\* What was there when reuse was detected is revoked.
PurgeHolds == \A t \in DOMAIN tokens : t <= killed => tokens[t].revoked

EarnedInv ==
    /\ TypeOK
    /\ RequestsAreEarned
    /\ ChallengesAreSpent
    /\ OneLoginPerChallenge
    /\ RotationRevokesParent
    /\ PurgeHolds

\* With one request at a time, the token that is being rotated is the login's live
\* one, and it is none of those revoked for reuse.
RotatesTheLiveToken ==
    \A r \in Request :
        /\ pc[r] = "revoke" => ~tokens[token[r]].revoked
        /\ pc[r] \in {"revoke", "create"} /\ token[r] # 0 => token[r] > killed
        /\ pc[r] = "create" =>
              \A t \in DOMAIN tokens : tokens[t].login = login[r] => tokens[t].revoked

SerialInv ==
    OneSlotUsed =>
        /\ RotatesTheLiveToken
        /\ \A s, t \in DOMAIN tokens :
              ~tokens[s].revoked /\ ~tokens[t].revoked /\ tokens[s].login = tokens[t].login
                  => s = t
        /\ \A t \in DOMAIN tokens :
              tokens[t].parent \in 1 .. killed => tokens[t].revoked

IInv == EarnedInv /\ SerialInv

---------------------------------------------------------------------------
(* The statements.                                                         *)

\* Revoking rows changes nothing else of them.
LEMMA RevokedRows ==
    ASSUME tokens \in Seq(Row), NEW T
    PROVE  /\ Revoked(T) \in Seq(Row)
           /\ Len(Revoked(T)) = Len(tokens)
           /\ DOMAIN Revoked(T) = 1 .. Len(tokens)
           /\ \A t \in 1 .. Len(tokens) :
                 /\ Revoked(T)[t].login = tokens[t].login
                 /\ Revoked(T)[t].parent = tokens[t].parent
                 /\ Revoked(T)[t].revoked <=> t \in T \/ tokens[t].revoked
<1>1. /\ Len(tokens) \in Nat
      /\ DOMAIN tokens = 1 .. Len(tokens)
      /\ \A t \in 1 .. Len(tokens) : tokens[t] \in Row
  BY LenProperties, ElementOfSeq
<1>2. \A t \in 1 .. Len(tokens) : [tokens[t] EXCEPT !.revoked = TRUE] \in Row
  BY <1>1 DEF Row
<1>3. Revoked(T) \in [1 .. Len(tokens) -> Row]
  BY <1>1, <1>2 DEF Revoked
<1>4. Revoked(T) \in Seq(Row) /\ Len(Revoked(T)) = Len(tokens)
  BY <1>1, <1>3
<1>5. ASSUME NEW t \in 1 .. Len(tokens)
      PROVE  /\ Revoked(T)[t].login = tokens[t].login
             /\ Revoked(T)[t].parent = tokens[t].parent
             /\ Revoked(T)[t].revoked <=> t \in T \/ tokens[t].revoked
  <2>1. CASE t \in T
    <3>1. Revoked(T)[t] = [tokens[t] EXCEPT !.revoked = TRUE]
      BY <1>1, <2>1 DEF Revoked
    <3>2. QED
      BY <1>1, <2>1, <3>1 DEF Row
  <2>2. CASE t \notin T
    <3>1. Revoked(T)[t] = tokens[t]
      BY <1>1, <2>2 DEF Revoked
    <3>2. tokens[t].revoked \in BOOLEAN
      BY <1>1 DEF Row
    <3>3. QED
      BY <2>2, <3>1, <3>2
  <2>3. QED
    BY <2>1, <2>2
<1>6. QED
  BY <1>3, <1>4, <1>5

\* A row is added after those that are there.
LEMMA CreatedRows ==
    ASSUME tokens \in Seq(Row), NEW n \in Nonce, NEW p \in Nat
    PROVE  /\ Created(n, p) \in Seq(Row)
           /\ Len(Created(n, p)) = Len(tokens) + 1
           /\ \A t \in 1 .. Len(tokens) : Created(n, p)[t] = tokens[t]
           /\ Created(n, p)[Len(tokens) + 1].login = n
           /\ Created(n, p)[Len(tokens) + 1].parent = p
           /\ ~ Created(n, p)[Len(tokens) + 1].revoked
<1> DEFINE row == [login |-> n, parent |-> p, revoked |-> FALSE, expired |-> FALSE]
<1>1. row \in Row
  BY DEF Row
<1>2. QED
  BY <1>1, AppendProperties DEF Created

\* Nor does a row change otherwise when it expires.
LEMMA ExpiredRows ==
    ASSUME tokens \in Seq(Row), NEW u \in DOMAIN tokens, Expire(u)
    PROVE  /\ tokens' \in Seq(Row)
           /\ Len(tokens') = Len(tokens)
           /\ \A t \in 1 .. Len(tokens) :
                 /\ tokens'[t].login = tokens[t].login
                 /\ tokens'[t].parent = tokens[t].parent
                 /\ tokens'[t].revoked = tokens[t].revoked
<1>1. /\ Len(tokens) \in Nat
      /\ DOMAIN tokens = 1 .. Len(tokens)
      /\ \A t \in 1 .. Len(tokens) : tokens[t] \in Row
  BY LenProperties, ElementOfSeq
<1>2. [tokens[u] EXCEPT !.expired = TRUE] \in Row
  BY <1>1 DEF Row
<1>3. tokens' = [tokens EXCEPT ![u] = [tokens[u] EXCEPT !.expired = TRUE]]
  BY DEF Expire
<1>4. /\ tokens' \in Seq(Row)
      /\ Len(tokens') = Len(tokens)
      /\ \A t \in 1 .. Len(tokens) :
            tokens'[t] = IF t = u THEN [tokens[u] EXCEPT !.expired = TRUE] ELSE tokens[t]
  BY <1>1, <1>2, <1>3, ExceptSeq
<1>5. /\ [tokens[u] EXCEPT !.expired = TRUE].login = tokens[u].login
      /\ [tokens[u] EXCEPT !.expired = TRUE].parent = tokens[u].parent
      /\ [tokens[u] EXCEPT !.expired = TRUE].revoked = tokens[u].revoked
  BY <1>1 DEF Row
<1>6. QED
  BY <1>4, <1>5

---------------------------------------------------------------------------
(* What a step does to the table.                                          *)

\* Rows stay, with their login and parent, and a revoked one stays revoked; only
\* issueSession adds one.
TokensEvolve ==
    /\ tokens \in Seq(Row) /\ tokens' \in Seq(Row)
    /\ Len(tokens) \in Nat /\ Len(tokens') \in Nat /\ Len(tokens) <= Len(tokens')
    /\ DOMAIN tokens = 1 .. Len(tokens) /\ DOMAIN tokens' = 1 .. Len(tokens')
    /\ \A t \in 1 .. Len(tokens) :
          /\ tokens[t] \in Row /\ tokens'[t] \in Row
          /\ tokens'[t].login = tokens[t].login
          /\ tokens'[t].parent = tokens[t].parent
          /\ tokens[t].revoked => tokens'[t].revoked
    /\ Len(tokens') # Len(tokens) => \E r \in Request : Create(r)

\* The table only grows, and its rows only lose their validity.
LEMMA StepEvolves ==
    ASSUME TypeOK, [Next]_vars
    PROVE  TokensEvolve
<1>1. /\ tokens \in Seq(Row)
      /\ Len(tokens) \in Nat
      /\ DOMAIN tokens = 1 .. Len(tokens)
      /\ \A t \in 1 .. Len(tokens) : tokens[t] \in Row
  BY LenProperties, ElementOfSeq DEF TypeOK
<1>2. ASSUME /\ tokens' \in Seq(Row)
             /\ Len(tokens') \in Nat /\ Len(tokens) <= Len(tokens')
             /\ \A t \in 1 .. Len(tokens) :
                   /\ tokens'[t].login = tokens[t].login
                   /\ tokens'[t].parent = tokens[t].parent
                   /\ tokens[t].revoked => tokens'[t].revoked
             /\ Len(tokens') # Len(tokens) => \E r \in Request : Create(r)
      PROVE  TokensEvolve
  <2>1. DOMAIN tokens' = 1 .. Len(tokens')
    BY <1>2, LenProperties
  <2>2. \A t \in 1 .. Len(tokens') : tokens'[t] \in Row
    BY <1>2, ElementOfSeq
  <2>3. \A t \in 1 .. Len(tokens) : tokens'[t] \in Row
    BY <1>1, <1>2, <2>2
  <2>4. QED
    BY <1>1, <1>2, <2>1, <2>3 DEF TokensEvolve
<1>3. ASSUME NEW r \in Request, Create(r)
      PROVE  TokensEvolve
  <2>1. login[r] \in Nonce /\ token[r] \in Nat
    BY <1>1 DEF TypeOK
  <2>2. /\ tokens' \in Seq(Row)
        /\ Len(tokens') = Len(tokens) + 1
        /\ \A t \in 1 .. Len(tokens) : tokens'[t] = tokens[t]
    BY <1>1, <1>3, <2>1, CreatedRows DEF Create
  <2>3. Len(tokens) <= Len(tokens') /\ Len(tokens') \in Nat
    BY <1>1, <2>2
  <2>4. QED
    BY <1>1, <1>2, <1>3, <2>2, <2>3
<1>4. ASSUME NEW T, tokens' = Revoked(T)
      PROVE  TokensEvolve
  <2>1. /\ tokens' \in Seq(Row)
        /\ Len(tokens') = Len(tokens)
        /\ \A t \in 1 .. Len(tokens) :
              /\ tokens'[t].login = tokens[t].login
              /\ tokens'[t].parent = tokens[t].parent
              /\ tokens[t].revoked => tokens'[t].revoked
    BY <1>1, <1>4, RevokedRows
  <2>2. QED
    BY <1>1, <1>2, <2>1
<1>5. ASSUME NEW u \in DOMAIN tokens, Expire(u)
      PROVE  TokensEvolve
  <2>1. /\ tokens' \in Seq(Row)
        /\ Len(tokens') = Len(tokens)
        /\ \A t \in 1 .. Len(tokens) :
              /\ tokens'[t].login = tokens[t].login
              /\ tokens'[t].parent = tokens[t].parent
              /\ tokens[t].revoked => tokens'[t].revoked
    BY <1>1, <1>5, ExpiredRows
  <2>2. QED
    BY <1>1, <1>2, <2>1
<1>6. CASE UNCHANGED tokens
  BY <1>1, <1>2, <1>6
<1>7. ASSUME NEW r \in Request, Step(r)
      PROVE  TokensEvolve
  BY <1>3, <1>4, <1>6, <1>7 DEF Step, FindActive, FindByHash, RevokeAll, Revoke,
                                RevokeOnLogout, StatementFails
<1>8. QED
  BY <1>5, <1>6, <1>7 DEF Next, vars, Issue, Forget, Verify, Refresh, Logout, Present

\* The type invariant is kept.
LEMMA TypeStep ==
    ASSUME TypeOK, RequestsAreEarned, [Next]_vars
    PROVE  TypeOK'
<1>1. /\ tokens' \in Seq(Row)
      /\ Len(tokens) \in Nat /\ Len(tokens') \in Nat /\ Len(tokens) <= Len(tokens')
      /\ DOMAIN tokens = 1 .. Len(tokens)
      /\ \A t \in 1 .. Len(tokens) : tokens[t] \in Row
  BY StepEvolves DEF TokensEvolve
<1>2. /\ 0 .. Len(tokens) \subseteq 0 .. Len(tokens')
      /\ Len(tokens) \in 0 .. Len(tokens')
      /\ killed \in 0 .. Len(tokens')
      /\ token \in [Request -> 0 .. Len(tokens')]
  <2>1. 0 .. Len(tokens) \subseteq 0 .. Len(tokens') /\ Len(tokens) \in 0 .. Len(tokens')
    BY <1>1
  <2>2. QED
    BY <2>1 DEF TypeOK
<1>3. CASE UNCHANGED vars
  BY <1>3 DEF vars, TypeOK
<1>4. ASSUME NEW n \in Nonce, Issue(n) \/ Forget(n)
      PROVE  TypeOK'
  BY <1>4 DEF Issue, Forget, TypeOK
<1>5. ASSUME NEW t \in DOMAIN tokens, Expire(t)
      PROVE  TypeOK'
  BY <1>1, <1>2, <1>5 DEF Expire, TypeOK
<1>6. ASSUME NEW r \in Request, NEW n \in Nonce, Verify(r, n)
      PROVE  TypeOK'
  BY <1>6 DEF Verify, TypeOK, Point
<1>7. ASSUME NEW r \in Request, NEW t \in DOMAIN tokens, Refresh(r, t) \/ Logout(r, t)
      PROVE  TypeOK'
  <2>1. t \in 0 .. Len(tokens) /\ tokens[t].login \in Nonce
    BY <1>1 DEF Row
  <2>2. CASE Refresh(r, t)
    BY <2>1, <2>2 DEF Refresh, Present, TypeOK, Point
  <2>3. CASE Logout(r, t)
    BY <2>1, <2>3 DEF Logout, Present, TypeOK, Point
  <2>4. QED
    BY <1>7, <2>2, <2>3
<1>8. ASSUME NEW r \in Request, Step(r)
      PROVE  TypeOK'
  BY <1>1, <1>2, <1>8 DEF Step, FindActive, FindByHash, RevokeAll, Revoke, Create,
                    RevokeOnLogout, StatementFails, Goto, TypeOK, Point
<1>9. QED
  BY <1>3, <1>4, <1>5, <1>6, <1>7, <1>8 DEF Next

---------------------------------------------------------------------------
(* Sessions are earned.                                                    *)

\* A challenge is spent once and for all.
LEMMA GoneStaysGone ==
    ASSUME TypeOK, [Next]_vars, NEW n \in Nonce, nonces[n] = "gone"
    PROVE  nonces'[n] = "gone"
BY DEF Next, vars, Issue, Forget, Expire, Verify, Refresh, Logout, Present, Step,
       FindActive, FindByHash, RevokeAll, Revoke, Create, RevokeOnLogout, StatementFails,
       TypeOK

\* issueSession writes the login and the parent of the request.
LEMMA CreateWrites ==
    ASSUME TypeOK, NEW r \in Request, Create(r)
    PROVE  /\ Len(tokens') = Len(tokens) + 1
           /\ \A t \in 1 .. Len(tokens) : tokens'[t] = tokens[t]
           /\ tokens'[Len(tokens) + 1].login = login[r]
           /\ tokens'[Len(tokens) + 1].parent = token[r]
           /\ ~ tokens'[Len(tokens) + 1].revoked
<1>1. Len(tokens) \in Nat
  BY LenProperties DEF TypeOK
<1>2. login[r] \in Nonce /\ token[r] \in Nat
  BY <1>1 DEF TypeOK
<1>3. QED
  BY <1>2, CreatedRows DEF Create, TypeOK

\* A row that is written is a new one.
LEMMA CreateGrows ==
    ASSUME TypeOK, NEW r \in Request, Create(r)
    PROVE  tokens' # tokens
<1>1. Len(tokens) \in Nat
  BY LenProperties DEF TypeOK
<1>2. QED
  BY <1>1, CreateWrites

\* A request presents a token that is a row, or none.
LEMMA PresentedIsRow ==
    ASSUME TypeOK, NEW r \in Request, token[r] # 0
    PROVE  token[r] \in 1 .. Len(tokens)
<1>1. Len(tokens) \in Nat
  BY LenProperties DEF TypeOK
<1>2. QED
  BY <1>1 DEF TypeOK

\* A row after a step was there before, or is the one that a request created.
LEMMA RowsAreOldOrCreated ==
    ASSUME TypeOK, [Next]_vars, NEW t \in DOMAIN tokens'
    PROVE  \/ t \in 1 .. Len(tokens)
           \/ t = Len(tokens) + 1 /\ \E r \in Request : Create(r)
<1>1. /\ Len(tokens) \in Nat
      /\ t \in 1 .. Len(tokens')
      /\ Len(tokens') # Len(tokens) => \E r \in Request : Create(r)
  BY StepEvolves DEF TokensEvolve
<1>2. CASE Len(tokens') = Len(tokens)
  BY <1>1, <1>2
<1>3. CASE Len(tokens') # Len(tokens)
  <2>1. PICK r \in Request : Create(r)
    BY <1>1, <1>3
  <2>2. Len(tokens') = Len(tokens) + 1
    BY <2>1, CreateWrites
  <2>3. QED
    BY <1>1, <2>1, <2>2
<1>4. QED
  BY <1>2, <1>3

\* The challenge of every login is spent.
LEMMA ChallengesAreSpentStep ==
    ASSUME EarnedInv, [Next]_vars
    PROVE  ChallengesAreSpent'
<1>1. TypeOK /\ TokensEvolve
  BY StepEvolves DEF EarnedInv
<1>2. ASSUME NEW t \in 1 .. Len(tokens)
      PROVE  nonces'[tokens'[t].login] = "gone"
  <2>1. tokens[t].login \in Nonce /\ tokens'[t].login = tokens[t].login
    BY <1>1 DEF TokensEvolve, Row
  <2>2. nonces[tokens[t].login] = "gone"
    BY <1>1 DEF EarnedInv, ChallengesAreSpent, TokensEvolve
  <2>3. QED
    BY <1>1, <2>1, <2>2, GoneStaysGone
<1>3. ASSUME NEW r \in Request, Create(r)
      PROVE  nonces'[tokens'[Len(tokens) + 1].login] = "gone"
  <2>1. login[r] \in Nonce /\ tokens'[Len(tokens) + 1].login = login[r]
    BY <1>1, <1>3, CreateWrites DEF TypeOK
  <2>2. nonces[login[r]] = "gone"
    <3>1. CASE token[r] = 0
      BY <1>3, <3>1 DEF EarnedInv, RequestsAreEarned, Opening, Create
    <3>2. CASE token[r] # 0
      <4>1. token[r] \in DOMAIN tokens
        BY <1>1, <3>2, PresentedIsRow DEF TokensEvolve
      <4>2. tokens[token[r]].login = login[r]
        BY <1>3, <3>2 DEF EarnedInv, RequestsAreEarned, Create
      <4>3. QED
        BY <4>1, <4>2 DEF EarnedInv, ChallengesAreSpent
    <3>3. QED
      BY <3>1, <3>2
  <2>3. QED
    BY <1>1, <2>1, <2>2, GoneStaysGone
<1>4. QED
  BY <1>1, <1>2, <1>3, RowsAreOldOrCreated DEF ChallengesAreSpent

\* A challenge opens one login: consuming it is one statement.
LEMMA OneLoginStep ==
    ASSUME EarnedInv, [Next]_vars
    PROVE  OneLoginPerChallenge'
<1>1. TypeOK /\ TokensEvolve
  BY StepEvolves DEF EarnedInv
<1>2. \A s, t \in 1 .. Len(tokens) :
          tokens'[s].parent = 0 /\ tokens'[t].parent = 0 /\ tokens'[s].login = tokens'[t].login
              => s = t
  BY <1>1 DEF EarnedInv, OneLoginPerChallenge, TokensEvolve
<1>3. ASSUME NEW r \in Request, Create(r), tokens'[Len(tokens) + 1].parent = 0,
             NEW t \in 1 .. Len(tokens)
      PROVE  tokens'[t].login # tokens'[Len(tokens) + 1].login
  <2>1. tokens'[Len(tokens) + 1].login = login[r] /\ token[r] = 0 /\ tokens'[t] = tokens[t]
    BY <1>1, <1>3, CreateWrites
  <2>2. t \in DOMAIN tokens
    BY <1>1 DEF TokensEvolve
  <2>3. QED
    BY <1>3, <2>1, <2>2 DEF EarnedInv, RequestsAreEarned, Opening, Create
<1>4. QED
  BY <1>1, <1>2, <1>3, RowsAreOldOrCreated DEF OneLoginPerChallenge

\* The token that a row replaces is revoked.
LEMMA RotationStep ==
    ASSUME EarnedInv, [Next]_vars
    PROVE  RotationRevokesParent'
<1>1. TypeOK /\ TokensEvolve
  BY StepEvolves DEF EarnedInv
<1>0. /\ Len(tokens) \in Nat /\ Len(tokens') \in Nat
      /\ DOMAIN tokens = 1 .. Len(tokens) /\ DOMAIN tokens' = 1 .. Len(tokens')
  BY <1>1 DEF TokensEvolve
<1>2. ASSUME NEW t \in 1 .. Len(tokens), NEW p, p = tokens'[t].parent, p # 0
      PROVE  p < t /\ tokens'[p].login = tokens'[t].login /\ tokens'[p].revoked
  <2>1. t \in DOMAIN tokens /\ p = tokens[t].parent /\ p \in Nat
    BY <1>1, <1>2 DEF TokensEvolve, Row
  <2>2. p < t /\ tokens[p].login = tokens[t].login /\ tokens[p].revoked
    BY <1>2, <2>1 DEF EarnedInv, RotationRevokesParent
  <2>3. p \in 1 .. Len(tokens)
    BY <1>0, <1>2, <2>1, <2>2
  <2>4. QED
    BY <1>1, <1>2, <2>1, <2>2, <2>3 DEF TokensEvolve
<1>3. ASSUME NEW r \in Request, Create(r), NEW t, t = Len(tokens) + 1,
             NEW p, p = tokens'[t].parent, p # 0
      PROVE  p < t /\ tokens'[p].login = tokens'[t].login /\ tokens'[p].revoked
  <2>1. p = token[r] /\ tokens'[t].login = login[r]
    BY <1>1, <1>3, CreateWrites
  <2>2. p \in 1 .. Len(tokens)
    BY <1>1, <1>3, <2>1, PresentedIsRow
  <2>3. tokens'[p] = tokens[p] /\ p < t
    <3>1. tokens'[p] = tokens[p]
      BY <1>1, <1>3, <2>2, CreateWrites
    <3>2. p < t
      BY <1>0, <1>3, <2>2
    <3>3. QED
      BY <3>1, <3>2
  <2>4. tokens[p].login = login[r] /\ tokens[p].revoked
    BY <1>3, <2>1 DEF EarnedInv, RequestsAreEarned, Create
  <2>5. QED
    BY <2>1, <2>3, <2>4
<1>4. QED
  BY <1>1, <1>2, <1>3, RowsAreOldOrCreated DEF RotationRevokesParent

\* A family that was killed holds no live row but what a request underway still
\* writes.
LEMMA PurgeStep ==
    ASSUME EarnedInv, [Next]_vars
    PROVE  PurgeHolds'
<1>1. TypeOK /\ TokensEvolve
  BY StepEvolves DEF EarnedInv
<1>0. /\ Len(tokens) \in Nat /\ Len(tokens') \in Nat
      /\ DOMAIN tokens = 1 .. Len(tokens) /\ DOMAIN tokens' = 1 .. Len(tokens')
  BY <1>1 DEF TokensEvolve
<1>2. \/ killed' = killed
      \/ killed' = Len(tokens) /\ tokens' = Revoked(DOMAIN tokens)
  BY DEF Next, vars, Issue, Forget, Expire, Verify, Refresh, Logout, Present, Step,
         FindActive, FindByHash, RevokeAll, Revoke, Create, RevokeOnLogout, StatementFails
<1>3. CASE killed' = killed
  <2>1. killed \in 0 .. Len(tokens)
    BY <1>1 DEF TypeOK
  <2>2. \A t \in DOMAIN tokens' : t <= killed => t \in 1 .. Len(tokens)
    BY <1>0, <2>1
  <2>3. QED
    BY <1>0, <1>1, <1>3, <2>2 DEF EarnedInv, PurgeHolds, TokensEvolve
<1>4. CASE killed' = Len(tokens) /\ tokens' = Revoked(DOMAIN tokens)
  <2>1. DOMAIN tokens = 1 .. Len(tokens)
    BY <1>1 DEF TokensEvolve
  <2>2. \A t \in 1 .. Len(tokens) : tokens'[t].revoked
    BY <1>1, <1>4, <2>1, RevokedRows DEF TypeOK
  <2>3. DOMAIN tokens' = 1 .. Len(tokens)
    BY <1>1, <1>4, RevokedRows DEF TypeOK
  <2>4. QED
    BY <2>2, <2>3 DEF PurgeHolds
<1>5. QED
  BY <1>2, <1>3, <1>4

\* What RequestsAreEarned says of one request.
Earned(r) ==
    /\ pc[r] \in {"findActive", "findByHash", "revokeAll", "revoke", "logout"}
          => token[r] # 0
    /\ pc[r] \notin {"idle", "done"} /\ token[r] # 0
          => tokens[token[r]].login = login[r]
    /\ pc[r] = "create" /\ token[r] # 0 => tokens[token[r]].revoked
    /\ Opening(r) =>
          /\ nonces[login[r]] = "gone"
          /\ \A t \in DOMAIN tokens : tokens[t].login # login[r]

\* A request that a step leaves where it is keeps what it has earned.
LEMMA BystanderKeeps ==
    ASSUME EarnedInv, [Next]_vars, NEW q \in Request,
           pc'[q] = pc[q], login'[q] = login[q], token'[q] = token[q],
           \A r \in Request : Create(r) => r # q
    PROVE  Earned(q)'
<1>1. TypeOK /\ TokensEvolve
  BY StepEvolves DEF EarnedInv
<1>2. Earned(q)
  BY DEF EarnedInv, RequestsAreEarned, Earned
<1>3. token[q] # 0 => token[q] \in 1 .. Len(tokens)
  BY <1>1, PresentedIsRow
<1>4. token[q] # 0 => /\ tokens'[token[q]].login = tokens[token[q]].login
                      /\ tokens[token[q]].revoked => tokens'[token[q]].revoked
  BY <1>1, <1>3 DEF TokensEvolve
<1>5. ASSUME Opening(q)
      PROVE  /\ nonces'[login[q]] = "gone"
             /\ \A t \in DOMAIN tokens' : tokens'[t].login # login[q]
  <2>1. nonces'[login[q]] = "gone"
    BY <1>1, <1>2, <1>5, GoneStaysGone DEF Earned, TypeOK
  <2>2. ASSUME NEW t \in 1 .. Len(tokens)
        PROVE  tokens'[t].login # login[q]
    BY <1>1, <1>2, <1>5, <2>2 DEF Earned, TokensEvolve
  <2>3. ASSUME NEW r \in Request, Create(r)
        PROVE  tokens'[Len(tokens) + 1].login # login[q]
    <3>1. tokens'[Len(tokens) + 1].login = login[r] /\ pc[r] = "create" /\ r # q
      BY <1>1, <2>3, CreateWrites DEF Create
    <3>2. CASE token[r] = 0
      BY <1>5, <3>1, <3>2 DEF EarnedInv, RequestsAreEarned, Opening
    <3>3. CASE token[r] # 0
      <4>1. token[r] \in DOMAIN tokens
        BY <1>1, <3>3, PresentedIsRow DEF TokensEvolve
      <4>2. tokens[token[r]].login = login[r]
        BY <3>1, <3>3 DEF EarnedInv, RequestsAreEarned
      <4>3. QED
        BY <1>2, <1>5, <3>1, <4>1, <4>2 DEF Earned
    <3>4. QED
      BY <3>2, <3>3
  <2>4. QED
    BY <1>1, <2>1, <2>2, <2>3, RowsAreOldOrCreated
<1>6. QED
  BY <1>2, <1>4, <1>5 DEF Earned, Opening

\* A request that has ended, or has not begun, needs nothing.
LEMMA EndedIsEarned ==
    ASSUME NEW r \in Request, pc'[r] \in {"idle", "done"}
    PROVE  Earned(r)'
BY DEF Earned, Opening

\* The request that steps.
LEMMA StepperIsEarned ==
    ASSUME EarnedInv, NEW r \in Request, Step(r)
    PROVE  Earned(r)'
<1>1. /\ TypeOK /\ Earned(r)
      /\ tokens \in Seq(Row)
      /\ Len(tokens) \in Nat
      /\ token[r] # 0 => token[r] \in 1 .. Len(tokens)
  BY PresentedIsRow, LenProperties DEF EarnedInv, RequestsAreEarned, Earned, TypeOK
<1>2. CASE FindActive(r) \/ FindByHash(r)
  BY <1>1, <1>2 DEF FindActive, FindByHash, Goto, Earned, Opening, TypeOK
<1>3. CASE Revoke(r)
  <2>1. token[r] # 0 /\ tokens' = Revoked({token[r]}) /\ tokens[token[r]].login = login[r]
    BY <1>1, <1>3 DEF Revoke, Earned
  <2>2. tokens'[token[r]].login = login[r] /\ tokens'[token[r]].revoked
    BY <1>1, <2>1, RevokedRows
  <2>3. QED
    BY <1>1, <1>3, <2>1, <2>2 DEF Revoke, Goto, Earned, Opening, TypeOK
<1>4. CASE RevokeAll(r) \/ Create(r) \/ RevokeOnLogout(r) \/ StatementFails(r)
  <2>1. pc'[r] = "done"
    BY <1>1, <1>4 DEF RevokeAll, Create, RevokeOnLogout, StatementFails, Goto, TypeOK
  <2>2. QED
    BY <2>1, EndedIsEarned
<1>5. QED
  BY <1>2, <1>3, <1>4 DEF Step

\* A request that is to write a row has consumed a challenge or presented a
\* token.
LEMMA RequestsAreEarnedStep ==
    ASSUME EarnedInv, [Next]_vars
    PROVE  RequestsAreEarned'
<1>1. TypeOK /\ ChallengesAreSpent
  BY DEF EarnedInv
<1>2. SUFFICES ASSUME NEW q \in Request
               PROVE  /\ Earned(q)'
                      /\ \A p \in Request :
                            Opening(q)' /\ Opening(p)' /\ login'[p] = login'[q] => p = q
  BY DEF RequestsAreEarned, Earned
<1>3. ASSUME pc' = pc, login' = login, token' = token
      PROVE  /\ Earned(q)'
             /\ \A p \in Request :
                   Opening(q)' /\ Opening(p)' /\ login'[p] = login'[q] => p = q
  <2>1. \A r \in Request : ~ Create(r)
    BY <1>1, <1>3 DEF Create, Goto, TypeOK
  <2>2. Earned(q)'
    BY <1>3, <2>1, BystanderKeeps
  <2>3. QED
    BY <1>3, <2>2 DEF EarnedInv, RequestsAreEarned, Opening
<1>4. CASE UNCHANGED vars
  BY <1>3, <1>4 DEF vars
<1>5. ASSUME NEW n \in Nonce, Issue(n) \/ Forget(n)
      PROVE  /\ Earned(q)'
             /\ \A p \in Request :
                   Opening(q)' /\ Opening(p)' /\ login'[p] = login'[q] => p = q
  BY <1>3, <1>5 DEF Issue, Forget
<1>6. ASSUME NEW t \in DOMAIN tokens, Expire(t)
      PROVE  /\ Earned(q)'
             /\ \A p \in Request :
                   Opening(q)' /\ Opening(p)' /\ login'[p] = login'[q] => p = q
  BY <1>3, <1>6 DEF Expire
<1>7. ASSUME NEW r \in Request, NEW n \in Nonce, Verify(r, n)
      PROVE  /\ Earned(q)'
             /\ \A p \in Request :
                   Opening(q)' /\ Opening(p)' /\ login'[p] = login'[q] => p = q
  <2>1. /\ UNCHANGED tokens
        /\ pc'[r] = "create" /\ login'[r] = n /\ token'[r] = 0
        /\ nonces[n] = "issued" /\ nonces'[n] = "gone"
        /\ \A p \in Request \ {r} :
              pc'[p] = pc[p] /\ login'[p] = login[p] /\ token'[p] = token[p]
    BY <1>1, <1>7 DEF Verify, TypeOK
  <2>2. \A p \in Request : Opening(p) => login[p] # n
    BY <2>1 DEF EarnedInv, RequestsAreEarned
  <2>3. \A p \in Request : ~ Create(p)
    BY <1>1, <2>1, CreateGrows
  <2>4. Earned(q)'
    <3>1. CASE q = r
      BY <1>1, <2>1, <3>1 DEF Earned, Opening, ChallengesAreSpent
    <3>2. CASE q # r
      BY <2>1, <3>2, <2>3, BystanderKeeps
    <3>3. QED
      BY <3>1, <3>2
  <2>5. QED
    BY <2>1, <2>2, <2>4 DEF EarnedInv, RequestsAreEarned, Opening
<1>8. ASSUME NEW r \in Request, NEW t \in DOMAIN tokens, Refresh(r, t) \/ Logout(r, t)
      PROVE  /\ Earned(q)'
             /\ \A p \in Request :
                   Opening(q)' /\ Opening(p)' /\ login'[p] = login'[q] => p = q
  <2>1. /\ UNCHANGED <<tokens, nonces>>
        /\ pc'[r] \in {"findActive", "logout"}
        /\ login'[r] = tokens[t].login /\ token'[r] = t /\ t # 0
        /\ \A p \in Request \ {r} :
              pc'[p] = pc[p] /\ login'[p] = login[p] /\ token'[p] = token[p]
    <3>1. DOMAIN tokens = 1 .. Len(tokens)
      BY <1>1, LenProperties DEF TypeOK
    <3>2. QED
      BY <1>1, <1>8, <3>1 DEF Refresh, Logout, Present, TypeOK
  <2>2. \A p \in Request : ~ Create(p)
    BY <1>1, <2>1, CreateGrows
  <2>3. Earned(q)'
    <3>1. CASE q = r
      BY <2>1, <3>1 DEF Earned, Opening
    <3>2. CASE q # r
      BY <2>1, <3>2, <2>2, BystanderKeeps
    <3>3. QED
      BY <3>1, <3>2
  <2>4. QED
    BY <2>1, <2>3 DEF EarnedInv, RequestsAreEarned, Opening
<1>9. ASSUME NEW r \in Request, Step(r)
      PROVE  /\ Earned(q)'
             /\ \A p \in Request :
                   Opening(q)' /\ Opening(p)' /\ login'[p] = login'[q] => p = q
  <2>1. /\ UNCHANGED <<login, token>>
        /\ \A p \in Request \ {r} : pc'[p] = pc[p]
        /\ pc'[r] = "create" => pc[r] = "revoke"
    BY <1>1, <1>9 DEF Step, FindActive, FindByHash, RevokeAll, Revoke, Create,
                      RevokeOnLogout, StatementFails, Goto, TypeOK
  <2>2. Earned(q)'
    <3>1. CASE q = r
      BY <1>9, <3>1, StepperIsEarned
    <3>2. CASE q # r
      <4>1. \A p \in Request : Create(p) => p # q
        BY <1>1, <2>1, <3>2 DEF Create, Goto, TypeOK
      <4>2. QED
        BY <2>1, <3>2, <4>1, BystanderKeeps
    <3>3. QED
      BY <3>1, <3>2
  <2>3. ~ Opening(r)'
    BY <2>1 DEF Opening, EarnedInv, RequestsAreEarned
  <2>4. QED
    BY <2>1, <2>2, <2>3 DEF EarnedInv, RequestsAreEarned, Opening
<1>10. QED
  BY <1>4, <1>5, <1>6, <1>7, <1>8, <1>9 DEF Next

---------------------------------------------------------------------------
(* Requests that come one at a time.                                       *)

\* Slots in use stay in use; so if one slot is used after a step, it is the one
\* that steps, and all others are idle.
LEMMA OneSlotStep ==
    ASSUME TypeOK, [Next]_vars, OneSlotUsed'
    PROVE  OneSlotUsed
<1>1. \A p \in Request : pc[p] # "idle" => pc'[p] # "idle"
  BY DEF Next, vars, Issue, Forget, Expire, Verify, Refresh, Logout, Present, Step,
         FindActive, FindByHash, RevokeAll, Revoke, Create, RevokeOnLogout, StatementFails,
         Goto, TypeOK
<1>2. QED
  BY <1>1 DEF OneSlotUsed

\* The two other conjuncts of SerialInv, of the table alone.
OneLiveToken ==
    \A s, t \in DOMAIN tokens :
        ~tokens[s].revoked /\ ~tokens[t].revoked /\ tokens[s].login = tokens[t].login
            => s = t

PurgedHaveNoHeir ==
    \A t \in DOMAIN tokens : tokens[t].parent \in 1 .. killed => tokens[t].revoked

\* A step that neither adds a row nor detects reuse only revokes.
LEMMA RevokingKeeps ==
    ASSUME TokensEvolve, Len(tokens') = Len(tokens), killed' = killed,
           OneLiveToken, PurgedHaveNoHeir
    PROVE  OneLiveToken' /\ PurgedHaveNoHeir'
<1>1. DOMAIN tokens = 1 .. Len(tokens) /\ DOMAIN tokens' = 1 .. Len(tokens)
  BY DEF TokensEvolve
<1>2. \A t \in DOMAIN tokens :
          /\ tokens'[t].login = tokens[t].login
          /\ tokens'[t].parent = tokens[t].parent
          /\ tokens[t].revoked => tokens'[t].revoked
  BY <1>1 DEF TokensEvolve
<1>3. QED
  BY <1>1, <1>2 DEF OneLiveToken, PurgedHaveNoHeir

\* A request that is not about to revoke or to create needs nothing.
LEMMA NoneRotating ==
    ASSUME NEW r \in Request, \A p \in Request \ {r} : pc'[p] = "idle",
           pc'[r] \notin {"revoke", "create"}
    PROVE  RotatesTheLiveToken'
BY DEF RotatesTheLiveToken

\* With one request at a time, each step keeps one live token for each login.
LEMMA SerialStepOfRequest ==
    ASSUME EarnedInv, RotatesTheLiveToken, OneLiveToken, PurgedHaveNoHeir,
           NEW r \in Request, Step(r), TokensEvolve,
           \A p \in Request \ {r} : pc'[p] = "idle"
    PROVE  RotatesTheLiveToken' /\ OneLiveToken' /\ PurgedHaveNoHeir'
<1>1. /\ TypeOK /\ tokens \in Seq(Row)
      /\ Len(tokens) \in Nat /\ Len(tokens') \in Nat
      /\ DOMAIN tokens = 1 .. Len(tokens) /\ DOMAIN tokens' = 1 .. Len(tokens')
      /\ token[r] # 0 => token[r] \in 1 .. Len(tokens)
      /\ killed \in 0 .. Len(tokens)
  <2>1. TypeOK
    BY DEF EarnedInv
  <2>2. QED
    BY <2>1, PresentedIsRow DEF TokensEvolve, TypeOK
<1>2. CASE FindActive(r)
  <2>1. /\ UNCHANGED <<tokens, killed, login, token>>
        /\ pc'[r] = IF Active(token[r]) THEN "revoke" ELSE "findByHash"
    BY <1>1, <1>2 DEF FindActive, Goto, TypeOK
  <2>2. OneLiveToken' /\ PurgedHaveNoHeir'
    BY <2>1, RevokingKeeps
  <2>3. CASE Active(token[r])
    <3>1. token[r] \in DOMAIN tokens
      BY <1>1, <1>2 DEF EarnedInv, RequestsAreEarned, FindActive
    <3>2. ~tokens[token[r]].revoked /\ token[r] > killed
      BY <1>1, <2>3, <3>1 DEF Active, EarnedInv, PurgeHolds
    <3>3. QED
      BY <2>1, <2>2, <2>3, <3>2 DEF RotatesTheLiveToken
  <2>4. CASE ~Active(token[r])
    BY <2>1, <2>2, <2>4, NoneRotating
  <2>5. QED
    BY <2>3, <2>4
<1>3. CASE Revoke(r)
  <2>1. /\ tokens' = Revoked({token[r]}) /\ UNCHANGED <<killed, login, token>>
        /\ pc[r] = "revoke" /\ pc'[r] = "create"
        /\ token[r] \in DOMAIN tokens /\ tokens[token[r]].login = login[r]
    BY <1>1, <1>3 DEF Revoke, Goto, TypeOK, EarnedInv, RequestsAreEarned
  <2>2. Len(tokens') = Len(tokens)
    BY <1>1, <2>1, RevokedRows
  <2>3. OneLiveToken' /\ PurgedHaveNoHeir'
    BY <2>1, <2>2, RevokingKeeps
  <2>4. ASSUME NEW t \in DOMAIN tokens', tokens'[t].login = login[r]
        PROVE  tokens'[t].revoked
    <3>1. t \in DOMAIN tokens /\ tokens[t].login = login[r]
      BY <1>1, <2>1, <2>2, <2>4, RevokedRows
    <3>2. tokens[t].revoked \/ t = token[r]
      BY <2>1, <3>1 DEF RotatesTheLiveToken, OneLiveToken
    <3>3. QED
      BY <1>1, <2>1, <3>1, <3>2, RevokedRows
  <2>5. token[r] > killed
    BY <1>1, <2>1 DEF RotatesTheLiveToken
  <2>6. QED
    BY <2>1, <2>3, <2>4, <2>5 DEF RotatesTheLiveToken
<1>4. CASE Create(r)
  <2>1. /\ Len(tokens') = Len(tokens) + 1
        /\ \A t \in 1 .. Len(tokens) : tokens'[t] = tokens[t]
        /\ tokens'[Len(tokens) + 1].login = login[r]
        /\ tokens'[Len(tokens) + 1].parent = token[r]
    BY <1>1, <1>4, CreateWrites
  <2>2. pc[r] = "create" /\ pc'[r] = "done" /\ killed' = killed
    BY <1>1, <1>4 DEF Create, Goto, TypeOK
  <2>3. DOMAIN tokens' = DOMAIN tokens \cup {Len(tokens) + 1}
    BY <1>1, <2>1
  <2>4. OneLiveToken'
    <3>1. \A t \in DOMAIN tokens : tokens'[t].login = login[r] => tokens'[t].revoked
      BY <1>1, <2>1, <2>2 DEF RotatesTheLiveToken
    <3>2. QED
      BY <1>1, <2>1, <2>3, <3>1 DEF OneLiveToken
  <2>5. PurgedHaveNoHeir'
    <3>1. token[r] \notin 1 .. killed
      BY <1>1, <2>2 DEF RotatesTheLiveToken
    <3>2. QED
      BY <1>1, <2>1, <2>2, <2>3, <3>1 DEF PurgedHaveNoHeir
  <2>6. QED
    BY <2>2, <2>4, <2>5, NoneRotating
<1>5. CASE RevokeAll(r)
  <2>1. tokens' = Revoked(DOMAIN tokens) /\ pc'[r] = "done"
    BY <1>1, <1>5 DEF RevokeAll, Goto, TypeOK
  <2>2. \A t \in DOMAIN tokens' : tokens'[t].revoked
    BY <1>1, <2>1, RevokedRows
  <2>3. QED
    BY <2>1, <2>2, NoneRotating DEF OneLiveToken, PurgedHaveNoHeir
<1>6. CASE FindByHash(r) \/ RevokeOnLogout(r) \/ StatementFails(r)
  <2>1. /\ killed' = killed
        /\ pc'[r] \in {"revokeAll", "done"}
        /\ UNCHANGED tokens \/ \E T : tokens' = Revoked(T)
    BY <1>1, <1>6 DEF FindByHash, RevokeOnLogout, StatementFails, Goto, TypeOK
  <2>2. Len(tokens') = Len(tokens)
    BY <1>1, <2>1, RevokedRows
  <2>3. QED
    BY <2>1, <2>2, RevokingKeeps, NoneRotating
<1>7. QED
  BY <1>2, <1>3, <1>4, <1>5, <1>6 DEF Step

\* And so does every step of the system.
LEMMA SerialStep ==
    ASSUME IInv, [Next]_vars
    PROVE  SerialInv'
<1>1. SUFFICES ASSUME OneSlotUsed'
               PROVE  RotatesTheLiveToken' /\ OneLiveToken' /\ PurgedHaveNoHeir'
  BY DEF SerialInv, OneLiveToken, PurgedHaveNoHeir
<1>2. TypeOK /\ EarnedInv /\ TokensEvolve
  BY StepEvolves DEF IInv, EarnedInv
<1>3. RotatesTheLiveToken /\ OneLiveToken /\ PurgedHaveNoHeir
  BY <1>1, <1>2, OneSlotStep DEF IInv, SerialInv, OneLiveToken, PurgedHaveNoHeir
<1>4. CASE UNCHANGED <<tokens, killed, pc, login, token>>
  BY <1>3, <1>4 DEF RotatesTheLiveToken, OneLiveToken, PurgedHaveNoHeir
<1>5. ASSUME NEW u \in DOMAIN tokens, Expire(u)
      PROVE  RotatesTheLiveToken' /\ OneLiveToken' /\ PurgedHaveNoHeir'
  <2>1. /\ Len(tokens') = Len(tokens)
        /\ DOMAIN tokens = 1 .. Len(tokens) /\ DOMAIN tokens' = 1 .. Len(tokens)
        /\ \A t \in 1 .. Len(tokens) :
              /\ tokens'[t].login = tokens[t].login
              /\ tokens'[t].revoked = tokens[t].revoked
    BY <1>2, <1>5, ExpiredRows DEF TokensEvolve
  <2>2. UNCHANGED <<killed, pc, login, token>>
    BY <1>5 DEF Expire
  <2>3. OneLiveToken' /\ PurgedHaveNoHeir'
    BY <1>2, <1>3, <2>1, <2>2, RevokingKeeps
  <2>4. \A r \in Request : pc[r] = "revoke" => token[r] \in 1 .. Len(tokens)
    BY <1>2, PresentedIsRow DEF EarnedInv, RequestsAreEarned
  <2>5. QED
    BY <1>3, <2>1, <2>2, <2>3, <2>4 DEF RotatesTheLiveToken
<1>6. ASSUME NEW r \in Request, NEW n \in Nonce, Verify(r, n)
      PROVE  RotatesTheLiveToken' /\ OneLiveToken' /\ PurgedHaveNoHeir'
  <2>1. /\ UNCHANGED <<tokens, killed>> /\ nonces[n] = "issued"
        /\ pc'[r] = "create" /\ login'[r] = n /\ token'[r] = 0
    BY <1>2, <1>6 DEF Verify, TypeOK
  <2>2. \A p \in Request \ {r} : pc'[p] = "idle"
    BY <1>1, <2>1 DEF OneSlotUsed
  <2>3. \A t \in DOMAIN tokens : tokens[t].login # n
    BY <1>2, <2>1 DEF EarnedInv, ChallengesAreSpent
  <2>4. QED
    BY <1>3, <2>1, <2>2, <2>3 DEF RotatesTheLiveToken, OneLiveToken, PurgedHaveNoHeir
<1>7. ASSUME NEW r \in Request, NEW t \in DOMAIN tokens, Refresh(r, t) \/ Logout(r, t)
      PROVE  RotatesTheLiveToken' /\ OneLiveToken' /\ PurgedHaveNoHeir'
  <2>1. UNCHANGED <<tokens, killed>> /\ pc'[r] \in {"findActive", "logout"}
    BY <1>2, <1>7 DEF Refresh, Logout, Present, TypeOK
  <2>2. \A p \in Request \ {r} : pc'[p] = "idle"
    BY <1>1, <2>1 DEF OneSlotUsed
  <2>3. QED
    BY <1>3, <2>1, <2>2, NoneRotating DEF OneLiveToken, PurgedHaveNoHeir
<1>8. ASSUME NEW r \in Request, Step(r)
      PROVE  RotatesTheLiveToken' /\ OneLiveToken' /\ PurgedHaveNoHeir'
  <2>1. pc'[r] # "idle"
    BY <1>2, <1>8 DEF Step, FindActive, FindByHash, RevokeAll, Revoke, Create,
                      RevokeOnLogout, StatementFails, Goto, TypeOK
  <2>2. \A p \in Request \ {r} : pc'[p] = "idle"
    BY <1>1, <2>1 DEF OneSlotUsed
  <2>3. QED
    BY <1>2, <1>3, <1>8, <2>2, SerialStepOfRequest
<1>9. QED
  BY <1>4, <1>5, <1>6, <1>7, <1>8 DEF Next, vars, Issue, Forget

---------------------------------------------------------------------------
(* The invariant, and what follows from it.                                *)

\* IInv is an invariant of the sessions.
THEOREM Invariance == Spec => []IInv
<1>1. Init => IInv
  <2> SUFFICES ASSUME Init
               PROVE  IInv
    OBVIOUS
  <2>1. tokens = <<>> /\ tokens \in Seq(Row) /\ Len(tokens) = 0 /\ DOMAIN tokens = {}
    BY EmptySeq DEF Init
  <2>2. TypeOK
    BY <2>1, ChallengesExist DEF Init, TypeOK, Point
  <2>3. RequestsAreEarned
    BY DEF Init, RequestsAreEarned, Opening
  <2>4. /\ ChallengesAreSpent /\ OneLoginPerChallenge /\ RotationRevokesParent
        /\ PurgeHolds
    BY <2>1 DEF ChallengesAreSpent, OneLoginPerChallenge, RotationRevokesParent, PurgeHolds
  <2>5. SerialInv
    BY <2>1 DEF Init, SerialInv, RotatesTheLiveToken
  <2>6. QED
    BY <2>2, <2>3, <2>4, <2>5 DEF IInv, EarnedInv
<1>2. IInv /\ [Next]_vars => IInv'
  <2> SUFFICES ASSUME IInv, [Next]_vars
               PROVE  IInv'
    OBVIOUS
  <2>1. EarnedInv
    BY DEF IInv
  <2>2. TypeOK'
    BY <2>1, TypeStep DEF EarnedInv
  <2>3. RequestsAreEarned' /\ ChallengesAreSpent'
    BY <2>1, RequestsAreEarnedStep, ChallengesAreSpentStep
  <2>4. OneLoginPerChallenge' /\ RotationRevokesParent' /\ PurgeHolds'
    BY <2>1, OneLoginStep, RotationStep, PurgeStep
  <2>5. SerialInv'
    BY SerialStep
  <2>6. QED
    BY <2>2, <2>3, <2>4, <2>5 DEF IInv, EarnedInv
<1>3. QED
  BY <1>1, <1>2, PTL DEF Spec

\* However many requests race and fail, a challenge opens one session (the nonce is
\* consumed before the first await of verify), and a rotated token replaces an
\* older one of its login that is revoked for good (auth.service.ts).
THEOREM SessionsEarned == Spec => []SessionsAreEarned
<1>1. IInv => SessionsAreEarned
  BY DEF IInv, EarnedInv, SessionsAreEarned
<1>2. QED
  BY <1>1, Invariance, PTL

\* With one request at a time, a refresh ends the token it presents: a login has
\* one live token, whatever statements fail.
THEOREM LoginsHaveOneToken == Spec => []OneLiveTokenPerLogin
<1>1. IInv => OneLiveTokenPerLogin
  BY DEF IInv, SerialInv, OneLiveTokenPerLogin
<1>2. QED
  BY <1>1, Invariance, PTL

\* When reuse is detected the whole family is revoked for good; with one request
\* at a time it has no heirs either.
THEOREM TheftIsFinal == Spec => []TheftEndsFamily
<1>1. IInv => TheftEndsFamily
  BY DEF IInv, EarnedInv, PurgeHolds, SerialInv, TheftEndsFamily
<1>2. QED
  BY <1>1, Invariance, PTL
=============================================================================
