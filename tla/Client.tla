------------------------------- MODULE Client -------------------------------
(***************************************************************************)
(* One browser at the casino (apps/frontend: lib/api.ts, lib/auth.ts,      *)
(* app/session-provider.tsx).  Its tabs share the refresh cookie and the   *)
(* token in localStorage; each keeps a token in memory, the player it      *)
(* shows, and one refresh that its requests share.  A call is sent, served *)
(* and answered in steps of their own.  The server's side of a call is one *)
(* step: Sessions has its statements.  A session is named by its number,   *)
(* which stands for its refresh token and for the access token issued with *)
(* it; 0 is none.                                                          *)
(***************************************************************************)
EXTENDS Sequences, Integers, FiniteSets

CONSTANTS Tab, Player,
          Request,       \* the authenticated calls, each made once
          Nobody,        \* no player is shown
          MaxSessions,   \* bound: sessions issued
          MaxCalls,      \* bound: calls to /auth begun, those not signed yet among them
          MaxFaults      \* bound: calls and sign-ins that fail, and cookies that expire

ASSUME NobodyIsNoOne == Nobody \notin Player \cup Tab
ASSUME BoundsAreNatural == {MaxSessions, MaxCalls, MaxFaults} \subseteq Nat

VARIABLES sessions,     \* the sessions issued, as rows of refresh_tokens
          stale,        \* those whose access token has expired
          theft,        \* a revoked refresh token was presented
          cookie,       \* the browser's refresh cookie
          stored,       \* the access token in localStorage
          token,        \* each tab's access token in memory
          status,       \* SessionStatus of each tab; "failed": disconnected, and an error
          shown,        \* the player it shows
          refreshing,   \* its shared refresh
          auth,         \* its calls to /auth: refresh, verify, logout
          req,          \* the authenticated calls
          played,       \* how often the server carried each out
          faults,       \* how many of these there have been
          met           \* what has happened to the browser so far

server == <<sessions, stale, theft, played, faults>>
browser == <<cookie, stored, token, status, shown, refreshing>>
calls == <<auth, req>>
vars == <<server, browser, calls, met>>

AuthKind == {"refresh", "verify", "logout"}
Event == {"lost", "crossed", "signedOut", "logoutLost", "unfinished", "expired"}

\* The answers to a call besides a session's number.
Refused == 0      \* a 401 of the auth controller, or a logout
Broken == -1      \* any other error status
Lost == -2        \* no answer: fetch throws

NoCall == [at |-> "none", cookie |-> 0, player |-> Nobody, got |-> Refused]
NoRequest == [at |-> "none", tab |-> Nobody, bearer |-> 0, player |-> Nobody, retry |-> TRUE]

Number == 0 .. Len(sessions)

TypeOK ==
    /\ sessions \in Seq([player : Player, revoked : BOOLEAN])
    /\ stale \subseteq DOMAIN sessions
    /\ theft \in BOOLEAN
    /\ cookie \in Number /\ stored \in Number /\ token \in [Tab -> Number]
    /\ status \in [Tab -> {"disconnected", "failed", "authenticating", "connected"}]
    /\ shown \in [Tab -> Player \cup {Nobody}]
    /\ refreshing \in [Tab -> {"null", "pending", "true", "false"}]
    /\ auth \in [Tab -> [AuthKind -> [at : {"none", "signing", "sent", "answered"}, cookie : Number,
                                      player : Player \cup {Nobody}, got : {Broken, Lost} \cup Number]]]
    /\ req \in [Request -> [at : {"none", "sent", "401", "waiting", "over", "unauthorized"},
                            tab : Tab \cup {Nobody}, bearer : Number,
                            player : Player \cup {Nobody}, retry : BOOLEAN]]
    /\ played \in [Request -> 0..2]
    /\ faults \in 0..MaxFaults
    /\ met \subseteq Event

Init ==
    /\ sessions = <<>> /\ stale = {} /\ theft = FALSE
    /\ cookie = 0 /\ stored = 0
    /\ token = [t \in Tab |-> 0]
    /\ status = [t \in Tab |-> "disconnected"]
    /\ shown = [t \in Tab |-> Nobody]
    /\ refreshing = [t \in Tab |-> "null"]
    /\ auth = [t \in Tab |-> [k \in AuthKind |-> NoCall]]
    /\ req = [r \in Request |-> NoRequest]
    /\ played = [r \in Request |-> 0]
    /\ faults = 0
    /\ met = {}

---------------------------------------------------------------------------
(* Tokens and calls.                                                       *)

\* getToken: memory first, then localStorage.
GetToken(t) == IF token[t] # 0 THEN token[t] ELSE stored

\* What is found in localStorage is kept in memory.  rawFetch does so on each call.
CacheToken(t) == token' = [token EXCEPT ![t] = GetToken(t)]

\* setToken: memory and localStorage.
SetToken(t, next) ==
    /\ token' = [token EXCEPT ![t] = next]
    /\ stored' = next

PlayerOf(n) == IF n = 0 THEN Nobody ELSE sessions[n].player

InFlight(t, kind) == auth[t][kind].at \in {"sent", "answered"}

\* The requests of the tab that have not come back.
Open(t) == {r \in Request : req[r].tab = t /\ req[r].at \notin {"over", "unauthorized"}}

\* What the caller gets: a refusal, or anything else.
Back(what) == [NoRequest EXCEPT !.at = what]

\* A call to /auth crosses another of the browser if one of another tab or of
\* another kind is in flight, and so does opening a tab; a sign-in or sign-out
\* also if another tab is in use.
Crosses(t, kind) ==
    \/ \E u \in Tab, k \in AuthKind : <<u, k>> # <<t, kind>> /\ InFlight(u, k)
    \/ kind # "refresh" /\ \E u \in Tab \ {t} : status[u] \notin {"disconnected", "failed"}

HasRoom(t, kind) ==
    Cardinality({c \in Tab \X AuthKind : c # <<t, kind>> /\ auth[c[1]][c[2]].at # "none"}) < MaxCalls

\* It is sent with the cookie of the moment.
SendAuth(t, kind, p) ==
    /\ HasRoom(t, kind)
    /\ auth' = [auth EXCEPT ![t][kind] =
                   [at |-> "sent", cookie |-> cookie, player |-> p, got |-> Refused]]
    /\ CacheToken(t)
    /\ met' = met \cup {e \in Event :
                   \/ e = "crossed" /\ Crosses(t, kind)
                   \/ e = "signedOut" /\ kind = "logout"
                   \/ e = "unfinished" /\ kind # "refresh" /\ Open(t) # {}}

Fault == faults < MaxFaults /\ faults' = faults + 1

Answered(t, kind, got) ==
    auth' = [auth EXCEPT ![t][kind].at = "answered", ![t][kind].got = got, ![t][kind].cookie = 0]

Over(t, kind) == auth' = [auth EXCEPT ![t][kind] = NoCall]

---------------------------------------------------------------------------
(* The session provider: sign-in, sign-out, reload.                        *)

\* connectMetaMask and connectDemo, to the challenge and the wallet's prompt.  The
\* buttons are there while no player is shown and no sign-in goes on.
Connect(t, p) ==
    /\ status[t] # "authenticating" /\ shown[t] = Nobody
    /\ Len(sessions) < MaxSessions /\ HasRoom(t, "verify")
    /\ status' = [status EXCEPT ![t] = "authenticating"]
    /\ CacheToken(t)
    /\ auth' = [auth EXCEPT ![t]["verify"] = [NoCall EXCEPT !.at = "signing", !.player = p]]
    /\ met' = met \cup {e \in {"unfinished"} : Open(t) # {}}
    /\ UNCHANGED <<server, cookie, stored, shown, refreshing, req>>

\* The challenge fails, or the signature is rejected: no call is made.
NotSigned(t) ==
    /\ auth[t]["verify"].at = "signing"
    /\ status' = [status EXCEPT ![t] = "failed"]
    /\ Over(t, "verify")
    /\ Fault
    /\ UNCHANGED <<sessions, stale, theft, played, cookie, stored, token, shown, refreshing, req, met>>

\* The call with the signature.
Sign(t) ==
    /\ auth[t]["verify"].at = "signing"
    /\ SendAuth(t, "verify", auth[t]["verify"].player)
    /\ UNCHANGED <<server, cookie, stored, status, shown, refreshing, req>>

\* Mutant: a token that is there already is kept.
SignedInKeepsToken(t) ==
    LET got == auth[t]["verify"].got IN
    /\ auth[t]["verify"].at = "answered" /\ got > 0
    /\ cookie' = got
    /\ IF GetToken(t) = 0 THEN SetToken(t, got) ELSE UNCHANGED <<token, stored>>
    /\ status' = [status EXCEPT ![t] = "connected"]
    /\ shown' = [shown EXCEPT ![t] = auth[t]["verify"].player]
    /\ Over(t, "verify")
    /\ UNCHANGED <<server, refreshing, req, met>>

SignedIn(t) ==
    LET got == auth[t]["verify"].got IN
    /\ auth[t]["verify"].at = "answered" /\ got > 0
    /\ cookie' = got
    /\ SetToken(t, got)
    /\ status' = [status EXCEPT ![t] = "connected"]
    /\ shown' = [shown EXCEPT ![t] = auth[t]["verify"].player]
    /\ Over(t, "verify")
    /\ UNCHANGED <<server, refreshing, req, met>>

\* The sign-in fails; what the tab held before stays.
NotSignedIn(t) ==
    /\ auth[t]["verify"].at = "answered" /\ auth[t]["verify"].got <= 0
    /\ status' = [status EXCEPT ![t] = "failed"]
    /\ Over(t, "verify")
    /\ UNCHANGED <<server, cookie, stored, token, shown, refreshing, req, met>>

\* disconnect does not wait for the logout it sends.  (Bound: one at a time.)
Disconnect(t) ==
    /\ status[t] = "connected" /\ ~InFlight(t, "logout")
    /\ status' = [status EXCEPT ![t] = "disconnected"]
    /\ shown' = [shown EXCEPT ![t] = Nobody]
    /\ SendAuth(t, "logout", Nobody)
    /\ UNCHANGED <<server, cookie, stored, refreshing, req>>

\* Mutant: a logout that fails leaves the token where it is.
SignedOutIfAnswered(t) ==
    LET got == auth[t]["logout"].got IN
    /\ auth[t]["logout"].at = "answered"
    /\ cookie' = IF got = Refused THEN 0 ELSE cookie
    /\ IF got = Refused THEN SetToken(t, 0) ELSE UNCHANGED <<token, stored>>
    /\ Over(t, "logout")
    /\ UNCHANGED <<server, status, shown, refreshing, req, met>>

\* signOut: whatever the logout did, the token is dropped.
SignedOut(t) ==
    /\ auth[t]["logout"].at = "answered"
    /\ cookie' = IF auth[t]["logout"].got = Refused THEN 0 ELSE cookie
    /\ SetToken(t, 0)
    /\ Over(t, "logout")
    /\ UNCHANGED <<server, status, shown, refreshing, req, met>>

\* The tab is opened or loaded again: a stored token makes it "connected", and a
\* sign-in that waits for its signature is gone.  (Bound: not while it has calls to
\* /auth in flight.)
Reload(t) ==
    /\ \A k \in AuthKind : ~InFlight(t, k)
    /\ token' = [token EXCEPT ![t] = stored]
    /\ status' = [status EXCEPT ![t] = IF stored # 0 THEN "connected" ELSE "disconnected"]
    /\ shown' = [shown EXCEPT ![t] = Nobody]
    /\ refreshing' = [refreshing EXCEPT ![t] = "null"]
    /\ req' = [r \in Request |-> IF r \in Open(t) THEN Back("over") ELSE req[r]]
    /\ Over(t, "verify")
    /\ met' = met \cup {e \in {"crossed"} : Crosses(t, "refresh")}
    /\ UNCHANGED <<server, cookie, stored>>

---------------------------------------------------------------------------
(* The refresh that a tab's requests share, and the requests.              *)

Waiting(t) == {r \in Open(t) : req[r].at = "waiting"}

\* The same call once more, with the token of the moment, and not a third time.
Replayed(r, bearer) == [req[r] EXCEPT !.at = "sent", !.bearer = bearer, !.retry = FALSE]

\* What becomes of the requests that wait when the refresh settles.
Settle(t, ok, bearer) ==
    /\ refreshing' = [refreshing EXCEPT ![t] = ok]
    /\ req' = [r \in Request |-> IF r \notin Waiting(t) THEN req[r]
                                 ELSE IF ok = "true" THEN Replayed(r, bearer)
                                 ELSE Back("unauthorized")]
    /\ Over(t, "refresh")
    /\ UNCHANGED <<server, status, shown, met>>

\* Mutant: the answer's new cookie is not kept.
RefreshKeepsCookie(t) ==
    LET got == auth[t]["refresh"].got IN
    /\ auth[t]["refresh"].at = "answered" /\ got > 0
    /\ SetToken(t, got)
    /\ Settle(t, "true", got)
    /\ UNCHANGED cookie

RefreshSucceeds(t) ==
    LET got == auth[t]["refresh"].got IN
    /\ auth[t]["refresh"].at = "answered" /\ got > 0
    /\ cookie' = got
    /\ SetToken(t, got)
    /\ Settle(t, "true", got)

RefreshRefused(t) ==
    LET got == auth[t]["refresh"].got IN
    /\ auth[t]["refresh"].at = "answered" /\ got \in {Refused, Broken}
    /\ cookie' = IF got = Refused THEN 0 ELSE cookie
    /\ SetToken(t, 0)
    /\ Settle(t, "false", 0)

\* Mutant: what fetch throws is not caught, and nobody who waits is told.
RefreshThrows(t) ==
    /\ auth[t]["refresh"].at = "answered" /\ auth[t]["refresh"].got = Lost
    /\ Over(t, "refresh")
    /\ UNCHANGED <<server, browser, req, met>>

\* No answer: the token stays.
RefreshLost(t) ==
    /\ auth[t]["refresh"].at = "answered" /\ auth[t]["refresh"].got = Lost
    /\ Settle(t, "false", 0)
    /\ UNCHANGED <<cookie, stored, token>>

\* The timer of no delay that ends the sharing.
Forget(t) ==
    /\ refreshing[t] \in {"true", "false"}
    /\ refreshing' = [refreshing EXCEPT ![t] = "null"]
    /\ UNCHANGED <<server, cookie, stored, token, status, shown, calls, met>>

\* Only connected tabs ask: the queries are disabled and the page is closed to
\* others.
Send(t, r) ==
    /\ status[t] = "connected" /\ req[r].at = "none"
    /\ CacheToken(t)
    /\ req' = [req EXCEPT ![r] = [at |-> "sent", tab |-> t, bearer |-> GetToken(t),
                                  player |-> PlayerOf(GetToken(t)), retry |-> TRUE]]
    /\ UNCHANGED <<server, cookie, stored, status, shown, refreshing, auth, met>>

\* A replay that is refused is not replayed.
ReturnUnauthorized(r) ==
    /\ req[r].at = "401"
    /\ ~req[r].retry \/ refreshing[req[r].tab] = "false"
    /\ req' = [req EXCEPT ![r] = Back("unauthorized")]
    /\ UNCHANGED <<server, browser, auth, met>>

\* The first request that is refused starts the refresh.
TryRefresh(r) ==
    LET t == req[r].tab IN
    /\ req[r].at = "401" /\ req[r].retry /\ refreshing[t] = "null"
    /\ refreshing' = [refreshing EXCEPT ![t] = "pending"]
    /\ SendAuth(t, "refresh", Nobody)
    /\ req' = [req EXCEPT ![r].at = "waiting"]
    /\ UNCHANGED <<server, cookie, stored, status, shown>>

\* Mutant: who finds a refresh under way does not wait for it.
ShareNothing(r) ==
    /\ req[r].at = "401" /\ req[r].retry /\ refreshing[req[r].tab] \in {"pending", "true"}
    /\ req' = [req EXCEPT ![r] = Back("unauthorized")]
    /\ UNCHANGED <<server, browser, auth, met>>

\* The others share it, or its result as long as that is kept.
ShareRefresh(r) ==
    LET t == req[r].tab IN
    /\ req[r].at = "401" /\ req[r].retry /\ refreshing[t] \in {"pending", "true"}
    /\ req' = [req EXCEPT ![r] = IF refreshing[t] = "true" THEN Replayed(r, GetToken(t))
                                 ELSE [@ EXCEPT !.at = "waiting"]]
    /\ IF refreshing[t] = "true" THEN CacheToken(t) ELSE UNCHANGED token
    /\ UNCHANGED <<server, cookie, stored, status, shown, refreshing, auth, met>>

---------------------------------------------------------------------------
(* The server and the network.                                             *)

\* Mutant: the row is written without its revoked_at.
NewSessionUnrevoked(p) == Append(sessions, [player |-> p])

NewSession(p) == Append(sessions, [player |-> p, revoked |-> FALSE])

Revoked(ns) ==
    [n \in DOMAIN sessions |-> [sessions[n] EXCEPT !.revoked = @ \/ n \in ns]]

\* verify: a challenge that is gone, or a signature that is not the player's, or a
\* session.  A refusal says nothing about the cookie.
ServeVerify(t) ==
    /\ auth[t]["verify"].at = "sent"
    /\ \/ Answered(t, "verify", Refused) /\ Fault /\ UNCHANGED sessions
       \/ /\ Len(sessions) < MaxSessions
          /\ sessions' = NewSession(auth[t]["verify"].player)
          /\ Answered(t, "verify", Len(sessions'))
          /\ UNCHANGED faults
    /\ UNCHANGED <<stale, theft, played, browser, req, met>>

\* refresh: no cookie, a token in use, or one that was revoked.
ServeRefresh(t) ==
    LET c == auth[t]["refresh"].cookie IN
    /\ auth[t]["refresh"].at = "sent"
    /\ \/ /\ c = 0
          /\ Answered(t, "refresh", Refused)
          /\ UNCHANGED <<sessions, theft>>
       \/ /\ c # 0 /\ ~sessions[c].revoked /\ Len(sessions) < MaxSessions
          /\ sessions' = [NewSession(sessions[c].player) EXCEPT ![c].revoked = TRUE]
          /\ Answered(t, "refresh", Len(sessions'))
          /\ UNCHANGED theft
       \/ /\ c # 0 /\ sessions[c].revoked
          /\ sessions' = Revoked({n \in DOMAIN sessions : sessions[n].player = sessions[c].player})
          /\ theft' = TRUE
          /\ Answered(t, "refresh", Refused)
    /\ UNCHANGED <<stale, played, faults, browser, req, met>>

ServeLogout(t) ==
    /\ auth[t]["logout"].at = "sent"
    /\ sessions' = Revoked({auth[t]["logout"].cookie})
    /\ Answered(t, "logout", Refused)
    /\ UNCHANGED <<stale, theft, played, faults, browser, req, met>>

\* An error, or no answer, before or after the call was served.
AuthFails(t, kind) ==
    /\ \/ auth[t][kind].at = "sent" /\ Answered(t, kind, Lost)
       \/ auth[t][kind].at = "sent" /\ kind = "refresh" /\ Answered(t, kind, Broken)
       \/ auth[t][kind].at = "answered" /\ auth[t][kind].got # Lost /\ Answered(t, kind, Lost)
    /\ Fault
    /\ met' = met \cup {IF kind = "logout" THEN "logoutLost" ELSE "lost"}
    /\ UNCHANGED <<sessions, stale, theft, played, browser, req>>

\* Some call is on its way with the token, or with the answer that brings it,
\* for the first time.
JustIssued(n) ==
    \/ \E t \in Tab : refreshing[t] = "true" /\ GetToken(t) = n
    \/ \E t \in Tab, k \in AuthKind : auth[t][k].at = "answered" /\ auth[t][k].got = n
    \/ \E r \in Request : req[r].at = "sent" /\ ~req[r].retry /\ req[r].bearer = n

\* The guard looks at the access token alone; it knows nothing of sessions.
Valid(r) == req[r].bearer # 0 /\ req[r].bearer \notin stale

ServeRequest(r) ==
    /\ req[r].at = "sent" /\ Valid(r)
    /\ req' = [req EXCEPT ![r] = Back("over")]
    /\ played' = [played EXCEPT ![r] = @ + 1]
    /\ UNCHANGED <<sessions, stale, theft, faults, browser, auth, met>>

\* No token, or one that has expired by now: it lives longer than the call it was
\* issued for.
RefuseRequest(r) ==
    /\ req[r].at = "sent"
    /\ Valid(r) => ~JustIssued(req[r].bearer)
    /\ stale' = stale \cup ({req[r].bearer} \ {0})
    /\ req' = [req EXCEPT ![r].at = "401"]
    /\ UNCHANGED <<sessions, theft, played, faults, browser, auth, met>>

\* Mutant: a call without an answer is made again.
LostAndSentAgain(r) ==
    /\ req[r].at = "sent"
    /\ \/ UNCHANGED played
       \/ Valid(r) /\ played' = [played EXCEPT ![r] = @ + 1]
    /\ req' = [req EXCEPT ![r] = IF @.retry THEN Replayed(r, GetToken(@.tab)) ELSE Back("over")]
    /\ Fault
    /\ UNCHANGED <<sessions, stale, theft, browser, auth, met>>

\* No answer, before or after the call was served: the caller gets the exception.
RequestLost(r) ==
    /\ req[r].at = "sent"
    /\ \/ UNCHANGED played
       \/ Valid(r) /\ played' = [played EXCEPT ![r] = @ + 1]
    /\ req' = [req EXCEPT ![r] = Back("over")]
    /\ Fault
    /\ UNCHANGED <<sessions, stale, theft, browser, auth, met>>

\* The cookie's date is over, and its row's.
ExpireCookie ==
    /\ cookie # 0 /\ \A t \in Tab, k \in AuthKind : ~InFlight(t, k)
    /\ cookie' = 0
    /\ Fault
    /\ met' = met \cup {"expired"}
    /\ UNCHANGED <<sessions, stale, theft, played, stored, token, status, shown, refreshing, calls>>

---------------------------------------------------------------------------
InBrowser ==
    \/ \E t \in Tab :
         \/ \E p \in Player : Connect(t, p)
         \/ NotSigned(t) \/ Sign(t)
         \/ SignedIn(t) \/ NotSignedIn(t) \/ Disconnect(t) \/ SignedOut(t) \/ Reload(t)
         \/ RefreshSucceeds(t) \/ RefreshRefused(t) \/ RefreshLost(t) \/ Forget(t)
         \/ \E r \in Request : Send(t, r)
    \/ \E r \in Request : ReturnUnauthorized(r) \/ TryRefresh(r) \/ ShareRefresh(r)

AtServer ==
    \/ \E t \in Tab : ServeVerify(t) \/ ServeRefresh(t) \/ ServeLogout(t)
    \/ \E t \in Tab, k \in AuthKind : AuthFails(t, k)
    \/ \E r \in Request : ServeRequest(r) \/ RefuseRequest(r) \/ RequestLost(r)
    \/ ExpireCookie

Next == InBrowser \/ AtServer

Spec == Init /\ [][Next]_vars

---------------------------------------------------------------------------
(* Properties.                                                             *)

\* A call is carried out once: what is replayed was refused before, and what got
\* no answer is not replayed.  A round played twice is a stake lost.
PlayedOnce == \A r \in Request : played[r] <= 1

\* Who waits for a refresh waits for one that is in flight: no request hangs.
WaitersAreAwaited ==
    \A t \in Tab : Waiting(t) # {} => refreshing[t] = "pending" /\ InFlight(t, "refresh")

\* Every call of the page comes back, and was carried out once at most.
CallsComeBackOnce == TypeOK /\ PlayedOnce /\ WaitersAreAwaited

\* The browser is not taken for a thief: whatever expires, however its tabs and
\* requests share the cookie, a revoked token is presented only after an answer
\* was lost or while calls to /auth crossed.
HonestBrowserIsNoThief == theft => met \cap {"lost", "logoutLost", "crossed"} # {}

\* The expiry of an access token stays hidden: a request comes back refused only
\* if an answer was lost, calls crossed, somebody signed out, or the cookie expired.
ExpiryStaysHidden ==
    (\E r \in Request : req[r].at = "unauthorized")
        => met \cap {"lost", "crossed", "signedOut", "expired"} # {}

\* Nobody plays on another's account: a tab that shows a player acts for that
\* player, and a request is replayed for the player it was made for, unless calls
\* crossed or a request was under way at a sign-in or sign-out.
ActsForThePlayerShown ==
    met \cap {"crossed", "unfinished"} = {} =>
        /\ \A t \in Tab : shown[t] # Nobody /\ GetToken(t) # 0 => PlayerOf(GetToken(t)) = shown[t]
        /\ \A r \in Request : req[r].player # Nobody => PlayerOf(req[r].bearer) = req[r].player

\* A tab that is disconnected holds no token once a logout is over, whether or not
\* the server answered (auth.ts: "clear locally regardless"), and with all of them
\* so, nor does localStorage.  This is not said of a tab that shows the error of a
\* failed sign-in, which keeps the token it had or found, nor if a request was under
\* way, which may refresh the token of a tab that is signed out.
SignedOutStaysOut ==
    "unfinished" \notin met =>
        LET out == {t \in Tab : status[t] = "disconnected" /\ ~InFlight(t, "logout")}
        IN (\A t \in out : token[t] = 0) /\ (out = Tab => stored = 0)

\* A tab acts for the player it shows, and for nobody when it shows nobody.
TabsAreWhatTheyShow == ActsForThePlayerShown /\ SignedOutStaysOut
=============================================================================
