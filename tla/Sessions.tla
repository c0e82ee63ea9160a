------------------------------ MODULE Sessions ------------------------------
(***************************************************************************)
(* The sessions of one player (apps/backend, modules/auth): SIWE challenges *)
(* kept in memory, refresh tokens kept in refresh_tokens.  Logins, refreshes *)
(* and logouts interleave between their SQL statements.  A refresh token is *)
(* 32 random bytes, so a token is named by the index of its row; any token  *)
(* ever issued may be presented again, by the player or by somebody else.   *)
(***************************************************************************)
EXTENDS Sequences, Integers, FiniteSets

CONSTANTS Nonce,      \* the challenges the backend may issue
          Request,    \* the requests that may be in flight together
          MaxTokens   \* bound: rows of refresh_tokens

ASSUME MaxTokensIsNatural == MaxTokens \in Nat
ASSUME ChallengesExist == Nonce # {}

VARIABLES nonces,   \* the state of each challenge in the NonceStore
          tokens,   \* the rows of refresh_tokens, in the order of insertion
          killed,   \* how many rows there were when reuse was last detected
          pc,       \* the statement each request executes next
          login,    \* the challenge it signs, or whose token it presents
          token     \* the token it presents, 0 for a login

vars == <<nonces, tokens, killed, pc, login, token>>

Point == {"idle", "findActive", "findByHash", "revokeAll", "revoke", "create", "logout",
          "done"}
Row == [login : Nonce, parent : Nat, revoked : BOOLEAN, expired : BOOLEAN]

TypeOK ==
    /\ nonces \in [Nonce -> {"unused", "issued", "gone"}]
    /\ tokens \in Seq(Row)
    /\ killed \in 0 .. Len(tokens)
    /\ pc \in [Request -> Point]
    /\ login \in [Request -> Nonce]
    /\ token \in [Request -> 0 .. Len(tokens)]

Init ==
    /\ nonces = [n \in Nonce |-> "unused"]
    /\ tokens = <<>>
    /\ killed = 0
    /\ pc = [r \in Request |-> "idle"]
    /\ login = [r \in Request |-> CHOOSE n \in Nonce : TRUE]
    /\ token = [r \in Request |-> 0]

---------------------------------------------------------------------------
(* The challenges.                                                         *)

Issue(n) ==
    /\ nonces[n] = "unused"
    /\ nonces' = [nonces EXCEPT ![n] = "issued"]
    /\ UNCHANGED <<tokens, killed, pc, login, token>>

\* The five minutes are over, or the backend restarts and forgets the nonce.
Forget(n) ==
    /\ nonces[n] = "issued"
    /\ nonces' = [nonces EXCEPT ![n] = "gone"]
    /\ UNCHANGED <<tokens, killed, pc, login, token>>

---------------------------------------------------------------------------
(* The statements on refresh_tokens.                                       *)

Active(t) == ~tokens[t].revoked /\ ~tokens[t].expired

\* Mutant: the row is written without its expiry.
CreatedForever(n, parent) ==
    Append(tokens, [login |-> n, parent |-> parent, revoked |-> FALSE])

Created(n, parent) ==
    Append(tokens, [login |-> n, parent |-> parent, revoked |-> FALSE, expired |-> FALSE])

Revoked(T) ==
    [t \in DOMAIN tokens |->
        IF t \in T THEN [tokens[t] EXCEPT !.revoked = TRUE] ELSE tokens[t]]

Expire(t) ==
    /\ ~tokens[t].expired
    /\ tokens' = [tokens EXCEPT ![t].expired = TRUE]
    /\ UNCHANGED <<nonces, killed, pc, login, token>>

---------------------------------------------------------------------------
(* The requests.                                                           *)

Goto(r, point) ==
    /\ pc' = [pc EXCEPT ![r] = point]
    /\ UNCHANGED <<login, token>>

InService == {r \in Request : pc[r] \notin {"idle", "done"}}
HasRoom == Len(tokens) + Cardinality(InService) < MaxTokens

\* Mutant: the nonce is looked up and not deleted.
VerifyKeepsNonce(r, n) ==
    /\ r \notin InService /\ HasRoom
    /\ nonces[n] = "issued"
    /\ pc' = [pc EXCEPT ![r] = "create"]
    /\ login' = [login EXCEPT ![r] = n]
    /\ token' = [token EXCEPT ![r] = 0]
    /\ UNCHANGED <<nonces, tokens, killed>>

\* verify consumes the nonce without an await; any other nonce is refused.
Verify(r, n) ==
    /\ r \notin InService /\ HasRoom
    /\ nonces[n] = "issued"
    /\ nonces' = [nonces EXCEPT ![n] = "gone"]
    /\ pc' = [pc EXCEPT ![r] = "create"]
    /\ login' = [login EXCEPT ![r] = n]
    /\ token' = [token EXCEPT ![r] = 0]
    /\ UNCHANGED <<tokens, killed>>

Present(r, t, point) ==
    /\ r \notin InService /\ HasRoom
    /\ pc' = [pc EXCEPT ![r] = point]
    /\ login' = [login EXCEPT ![r] = tokens[t].login]
    /\ token' = [token EXCEPT ![r] = t]
    /\ UNCHANGED <<nonces, tokens, killed>>

Refresh(r, t) == Present(r, t, "findActive")
Logout(r, t) == Present(r, t, "logout")

\* Mutant: every row with the hash is as good as an active one.
FindActiveAny(r) ==
    /\ pc[r] = "findActive"
    /\ Goto(r, "revoke")
    /\ UNCHANGED <<nonces, tokens, killed>>

FindActive(r) ==
    /\ pc[r] = "findActive"
    /\ Goto(r, IF Active(token[r]) THEN "revoke" ELSE "findByHash")
    /\ UNCHANGED <<nonces, tokens, killed>>

\* A row that is not active was rotated, logged out or has expired.
FindByHash(r) ==
    /\ pc[r] = "findByHash"
    /\ Goto(r, "revokeAll")
    /\ UNCHANGED <<nonces, tokens, killed>>

\* Mutant: only the presented token is revoked, not the player's others.
RevokeAllButOthers(r) ==
    /\ pc[r] = "revokeAll"
    /\ tokens' = Revoked({token[r]})
    /\ killed' = Len(tokens)
    /\ Goto(r, "done")
    /\ UNCHANGED nonces

RevokeAll(r) ==
    /\ pc[r] = "revokeAll"
    /\ tokens' = Revoked(DOMAIN tokens)
    /\ killed' = Len(tokens)
    /\ Goto(r, "done")
    /\ UNCHANGED nonces

\* Mutant: the presented token stays in use.
RevokeSkipped(r) ==
    /\ pc[r] = "revoke"
    /\ Goto(r, "create")
    /\ UNCHANGED <<nonces, tokens, killed>>

\* The rotation; its UPDATE may find the row revoked by now and is not asked.
Revoke(r) ==
    /\ pc[r] = "revoke"
    /\ tokens' = Revoked({token[r]})
    /\ Goto(r, "create")
    /\ UNCHANGED <<nonces, killed>>

\* issueSession, for a login and for a rotation.
Create(r) ==
    /\ pc[r] = "create"
    /\ tokens' = Created(login[r], token[r])
    /\ Goto(r, "done")
    /\ UNCHANGED <<nonces, killed>>

RevokeOnLogout(r) ==
    /\ pc[r] = "logout"
    /\ tokens' = Revoked({token[r]})
    /\ Goto(r, "done")
    /\ UNCHANGED <<nonces, killed>>

\* A statement fails, the backend stops, or the row is written and its answer,
\* the new cookie, is lost.
StatementFails(r) ==
    /\ \/ r \in InService /\ UNCHANGED tokens
       \/ pc[r] \in {"revoke", "logout"} /\ tokens' = Revoked({token[r]})
       \/ pc[r] = "revokeAll" /\ tokens' = Revoked(DOMAIN tokens)
    /\ Goto(r, "done")
    /\ UNCHANGED <<nonces, killed>>

Step(r) ==
    \/ FindActive(r) \/ FindByHash(r) \/ RevokeAll(r)
    \/ Revoke(r) \/ Create(r) \/ RevokeOnLogout(r)
    \/ StatementFails(r)

Next ==
    \/ \E n \in Nonce : Issue(n) \/ Forget(n)
    \/ \E t \in DOMAIN tokens : Expire(t)
    \/ \E r \in Request :
         \/ \E n \in Nonce : Verify(r, n)
         \/ \E t \in DOMAIN tokens : Refresh(r, t) \/ Logout(r, t)
         \/ Step(r)

Spec == Init /\ [][Next]_vars

---------------------------------------------------------------------------
(* Properties.                                                             *)

\* A signed challenge opens one session: however often and however fast the
\* same message is sent to verify, one token descends from it directly.
OneLoginPerChallenge ==
    \A s, t \in DOMAIN tokens :
        tokens[s].parent = 0 /\ tokens[t].parent = 0 /\ tokens[s].login = tokens[t].login
            => s = t

\* A token that a rotation issued replaces an older one of the same login that
\* is revoked, and that stays revoked.
RotationRevokesParent ==
    \A t \in DOMAIN tokens :
        LET p == tokens[t].parent
        IN  p # 0 => p < t /\ tokens[p].login = tokens[t].login /\ tokens[p].revoked

\* Every session is earned, by a challenge of its own or by the token it replaces,
\* however requests race and fail, in a well-typed store.
SessionsAreEarned == TypeOK /\ OneLoginPerChallenge /\ RotationRevokesParent

\* Only one slot has served anything yet: no two requests were ever in flight.
OneSlotUsed ==
    \A q, r \in Request : pc[q] # "idle" /\ pc[r] # "idle" => q = r

\* As long as requests come one at a time, a login has one live token at most:
\* each refresh ends the token it presents, whatever fails (auth.contract.ts:
\* "rotates the refresh token; the presented one is revoked").  Two refreshes at
\* once both find the token active and leave two.
OneLiveTokenPerLogin ==
    OneSlotUsed =>
        \A s, t \in DOMAIN tokens :
            ~tokens[s].revoked /\ ~tokens[t].revoked /\ tokens[s].login = tokens[t].login
                => s = t

\* Once reuse was detected, every token there was is revoked for good; as long as
\* requests come one at a time, so is every token a rotation makes of one of them
\* (auth.service.ts: reuse "revokes the player's whole token family").  A refresh
\* in flight at the time issues its successor after the purge.
TheftEndsFamily ==
    \A t \in DOMAIN tokens :
        \/ t <= killed
        \/ OneSlotUsed /\ tokens[t].parent \in 1 .. killed
        => tokens[t].revoked
=============================================================================
