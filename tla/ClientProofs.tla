---------------------------- MODULE ClientProofs ----------------------------
(***************************************************************************)
(* What holds of the browser for every number of tabs, players, requests,  *)
(* sessions and faults.                                                    *)
(***************************************************************************)
EXTENDS Client, SequenceTheorems, TLAPS

OpenPoint == {"sent", "401", "waiting"}

\* A request is under way until it comes back, and carried out as it does.
RequestsInv ==
    \A r \in Request :
        /\ req[r].at \in OpenPoint => req[r].tab \in Tab
        /\ req[r].at = "none" => req[r].tab = Nobody
        /\ req[r].at \notin OpenPoint => req[r].player = Nobody
        /\ req[r].at \in {"none"} \cup OpenPoint => played[r] = 0
        /\ played[r] <= 1

\* A refresh is under way as long as its call is, and somebody waits for it.
SharingInv ==
    \A t \in Tab :
        /\ refreshing[t] = "pending" <=> InFlight(t, "refresh")
        /\ refreshing[t] = "pending" <=> \E r \in Request : req[r].at = "waiting" /\ req[r].tab = t

\* A sign-in is under way as long as its call is, from the prompt on; connected tabs
\* show a player, or nobody yet.
ShowingInv ==
    \A t \in Tab :
        /\ status[t] = "authenticating" <=> auth[t]["verify"].at # "none"
        /\ auth[t]["verify"].at # "none" => auth[t]["verify"].player \in Player
        /\ \A k \in AuthKind : auth[t][k].at = "signing" => k = "verify"
        /\ shown[t] # Nobody => status[t] = "connected"

CallsInv == RequestsInv /\ SharingInv /\ ShowingInv

\* What an answer says, and what it leaves behind when there is none.
AnswersInv ==
    /\ \A t \in Tab, k \in AuthKind : auth[t][k].at = "answered" =>
        /\ auth[t][k].got \in {Lost, Broken} =>
              (IF k = "logout" THEN "logoutLost" ELSE "lost") \in met
        /\ k = "verify" /\ auth[t][k].got > 0 =>
              sessions[auth[t][k].got].player = auth[t][k].player
        /\ k = "logout" => auth[t][k].got <= 0
    /\ \A t \in Tab : InFlight(t, "logout") => "signedOut" \in met
    /\ "logoutLost" \in met => "signedOut" \in met

\* The cookie and localStorage are of one session, if both hold one.
CookieInv == stored # 0 /\ cookie # 0 => stored = cookie

\* What has just been issued is not stale.
FreshInv == \A n \in stale : ~JustIssued(n)

\* As long as no calls have crossed, there is one at a time, and no tab is connected
\* while a sign-in or sign-out is in flight.
CrossInv ==
    "crossed" \notin met =>
        /\ \A t, u \in Tab, k, l \in AuthKind :
              InFlight(t, k) /\ InFlight(u, l) => t = u /\ k = l
        /\ \A t \in Tab, k \in {"verify", "logout"} :
              InFlight(t, k) => \A u \in Tab : status[u] # "connected"
        /\ \A t \in Tab : status[t] = "connected" /\ refreshing[t] = "true" => token[t] # 0

\* As long as none was under way at a sign-in or sign-out, requests are of
\* connected tabs.
FinishedInv ==
    "unfinished" \notin met =>
        \A r \in Request : req[r].at \in OpenPoint => status[req[r].tab] = "connected"

IsLive(n) == n > 0 => ~sessions[n].revoked

\* As long as no answer was lost and no calls crossed, the browser's cookie is
\* live when a call is sent with it, and what an answer brings is.  A verify that is
\* refused leaves the cookie as it is.
CalmInv ==
    met \cap {"lost", "logoutLost", "crossed"} = {} =>
        /\ ~theft
        /\ \A t \in Tab, k \in AuthKind :
            /\ auth[t][k].at = "sent" => auth[t][k].cookie = cookie
            /\ auth[t][k].at = "answered" => IsLive(auth[t][k].got)
        /\ (\A t \in Tab, k \in {"refresh", "logout"} : auth[t][k].at # "answered") => IsLive(cookie)

\* And as long as nobody signed out and the cookie has not expired, a refresh
\* succeeds: there is a cookie from the first sign-in on.
QuietInv ==
    met \cap {"lost", "crossed", "signedOut", "expired"} = {} =>
        /\ \A t \in Tab :
            /\ refreshing[t] # "false"
            /\ refreshing[t] = "true" => token[t] # 0
            /\ auth[t]["refresh"].at = "answered" => auth[t]["refresh"].got > 0
        /\ \A r \in Request :
            /\ req[r].at # "unauthorized"
            /\ req[r].at = "401" => req[r].retry
            /\ req[r].at = "sent" /\ ~req[r].retry => req[r].bearer # 0
        /\ cookie = 0 => /\ stored = 0
                         /\ \A t \in Tab : token[t] = 0 /\ status[t] # "connected"
                         /\ \A r \in Request : req[r].at = "none"

\* The sessions the browser may still act with.
InUse(n) ==
    \/ n = cookie \/ n = stored
    \/ \E t \in Tab : status[t] = "connected" /\ token[t] = n
    \/ \E r \in Request : req[r].at \in OpenPoint /\ req[r].bearer = n
    \/ \E t \in Tab : \/ auth[t]["refresh"].at = "sent" /\ auth[t]["refresh"].cookie = n
                      \/ auth[t]["refresh"].at = "answered" /\ auth[t]["refresh"].got = n

\* They are one player's, the one shown.
PlayersInv ==
    met \cap {"crossed", "unfinished"} = {} =>
        /\ \A m, n \in DOMAIN sessions :
              InUse(m) /\ InUse(n) => sessions[m].player = sessions[n].player
        /\ \A t \in Tab, n \in DOMAIN sessions :
              shown[t] # Nobody /\ InUse(n) => sessions[n].player = shown[t]
        /\ \A r \in Request :
              req[r].player # Nobody =>
                  req[r].bearer # 0 /\ sessions[req[r].bearer].player = req[r].player

\* A tab that is disconnected holds no token, and with all of them so nor does
\* localStorage.
OutInv ==
    "unfinished" \notin met =>
        /\ \A t \in Tab : status[t] = "disconnected" /\ ~InFlight(t, "logout") => token[t] = 0
        /\ stored # 0 => \E t \in Tab : status[t] # "disconnected" \/ InFlight(t, "logout")

IInv ==
    /\ TypeOK
    /\ CallsInv
    /\ AnswersInv
    /\ CookieInv
    /\ FreshInv
    /\ CrossInv
    /\ FinishedInv
    /\ CalmInv
    /\ QuietInv
    /\ PlayersInv
    /\ OutInv

---------------------------------------------------------------------------
(* The rows of sessions, and the calls to /auth.                           *)

Row == [player : Player, revoked : BOOLEAN]

\* What the sessions are.
LEMMA SessionsTyped ==
    ASSUME TypeOK
    PROVE  /\ sessions \in Seq(Row)
           /\ Len(sessions) \in Nat
           /\ DOMAIN sessions = 1 .. Len(sessions)
           /\ \A n \in 1 .. Len(sessions) :
                sessions[n] \in Row /\ sessions[n].player \in Player /\ sessions[n].revoked \in BOOLEAN
<1>1. sessions \in Seq(Row)
  BY DEF TypeOK, Row
<1>2. \A n \in 1 .. Len(sessions) : sessions[n] \in Row
  BY <1>1, ElementOfSeq
<1> QED
  BY <1>1, <1>2, LenProperties DEF Row

\* Rows are added, each with the number that is next.
LEMMA NewRow ==
    ASSUME TypeOK, NEW p \in Player
    PROVE  /\ NewSession(p) \in Seq(Row)
           /\ Len(NewSession(p)) = Len(sessions) + 1
           /\ NewSession(p)[Len(sessions) + 1] = [player |-> p, revoked |-> FALSE]
           /\ \A n \in 1 .. Len(sessions) : NewSession(p)[n] = sessions[n]
<1>1. [player |-> p, revoked |-> FALSE] \in Row
  BY DEF Row
<1> QED
  BY <1>1, SessionsTyped, AppendProperties DEF NewSession

\* Revoking changes nothing else.
LEMMA RevokedRows ==
    ASSUME TypeOK, NEW ns
    PROVE  /\ Revoked(ns) \in Seq(Row)
           /\ Len(Revoked(ns)) = Len(sessions)
           /\ \A n \in 1 .. Len(sessions) :
                /\ Revoked(ns)[n].player = sessions[n].player
                /\ Revoked(ns)[n].revoked <=> sessions[n].revoked \/ n \in ns
<1>1. \A n \in 1 .. Len(sessions) :
        /\ Revoked(ns)[n] \in Row
        /\ Revoked(ns)[n].player = sessions[n].player
        /\ Revoked(ns)[n].revoked <=> sessions[n].revoked \/ n \in ns
  BY SessionsTyped DEF Revoked, Row
<1>2. Revoked(ns) \in [1 .. Len(sessions) -> Row]
  BY <1>1, SessionsTyped DEF Revoked
<1>3. Revoked(ns) \in Seq(Row) /\ Len(Revoked(ns)) = Len(sessions)
  BY <1>2, SessionsTyped
<1> QED
  BY <1>1, <1>3

\* A refresh adds its row and revokes the one it was presented.
Rotated(c) == [NewSession(sessions[c].player) EXCEPT ![c].revoked = TRUE]

\* Of a refresh, the row presented is the one that loses its validity.
LEMMA RotatedRows ==
    ASSUME TypeOK, NEW c \in 1 .. Len(sessions)
    PROVE  /\ Rotated(c) \in Seq(Row)
           /\ Len(Rotated(c)) = Len(sessions) + 1
           /\ Rotated(c)[Len(sessions) + 1].player = sessions[c].player
           /\ ~Rotated(c)[Len(sessions) + 1].revoked
           /\ \A n \in 1 .. Len(sessions) :
                /\ Rotated(c)[n].player = sessions[n].player
                /\ Rotated(c)[n].revoked <=> sessions[n].revoked \/ n = c
<1> DEFINE s == NewSession(sessions[c].player)
<1>1. sessions[c].player \in Player /\ Len(sessions) \in Nat
  BY SessionsTyped
<1>2. /\ s \in Seq(Row) /\ Len(s) = Len(sessions) + 1
      /\ s[Len(sessions) + 1] = [player |-> sessions[c].player, revoked |-> FALSE]
      /\ \A n \in 1 .. Len(sessions) : s[n] = sessions[n]
  BY <1>1, NewRow
<1>3. Rotated(c) = [s EXCEPT ![c].revoked = TRUE]
  BY DEF Rotated
<1> HIDE DEF s
<1>4. DOMAIN s = 1 .. Len(sessions) + 1 /\ \A n \in 1 .. Len(sessions) + 1 : s[n] \in Row
  BY <1>1, <1>2, ElementOfSeq, LenProperties
<1>5. Rotated(c) = [n \in 1 .. Len(sessions) + 1 |-> IF n = c THEN [s[c] EXCEPT !.revoked = TRUE] ELSE s[n]]
  BY <1>1, <1>3, <1>4
<1>6. [s[c] EXCEPT !.revoked = TRUE] \in Row /\ [s[c] EXCEPT !.revoked = TRUE].revoked
        /\ [s[c] EXCEPT !.revoked = TRUE].player = s[c].player
  <2>1. ASSUME NEW x \in Row
        PROVE  /\ [x EXCEPT !.revoked = TRUE] \in Row /\ [x EXCEPT !.revoked = TRUE].revoked
               /\ [x EXCEPT !.revoked = TRUE].player = x.player
    BY DEF Row
  <2>2. s[c] \in Row
    BY <1>1, <1>4
  <2> QED
    BY <2>1, <2>2
<1>7. Rotated(c) \in [1 .. Len(sessions) + 1 -> Row]
  BY <1>1, <1>4, <1>5, <1>6
<1>8. Rotated(c) \in Seq(Row) /\ Len(Rotated(c)) = Len(sessions) + 1
  BY <1>1, <1>7
<1>9. Rotated(c)[Len(sessions) + 1] = s[Len(sessions) + 1]
  BY <1>1, <1>5
<1>10. ASSUME NEW n \in 1 .. Len(sessions)
       PROVE  /\ Rotated(c)[n].player = sessions[n].player
              /\ Rotated(c)[n].revoked <=> sessions[n].revoked \/ n = c
  <2>1. n \in 1 .. Len(sessions) + 1 /\ s[n] = sessions[n]
    BY <1>1, <1>2
  <2>2. CASE n = c
    BY <1>5, <1>6, <2>1, <2>2
  <2>3. CASE n # c
    BY <1>5, <2>1, <2>3, SessionsTyped
  <2> QED
    BY <2>2, <2>3
<1> QED
  BY <1>2, <1>8, <1>9, <1>10

\* The sessions' numbers by the length that they have or will have.
AuthCall(len) == [at : {"none", "signing", "sent", "answered"}, cookie : 0 .. len,
                  player : Player \cup {Nobody}, got : {Broken, Lost} \cup (0 .. len)]

RequestRow(len) == [at : {"none", "sent", "401", "waiting", "over", "unauthorized"},
                    tab : Tab \cup {Nobody}, bearer : 0 .. len,
                    player : Player \cup {Nobody}, retry : BOOLEAN]

\* The call of t and k becomes c, and no other call changes.
Becomes(t, k, c) ==
    \A u \in Tab, l \in AuthKind :
        auth'[u][l] = IF u = t /\ l = k THEN c ELSE auth[u][l]

Sent(p) == [at |-> "sent", cookie |-> cookie, player |-> p, got |-> Refused]

Reply(t, k, got) == [at |-> "answered", cookie |-> 0, player |-> auth[t][k].player, got |-> got]

\* The calls are records of known fields.
LEMMA AuthTyped ==
    ASSUME TypeOK
    PROVE  /\ auth \in [Tab -> [AuthKind -> AuthCall(Len(sessions))]]
           /\ \A t \in Tab, k \in AuthKind : auth[t][k] \in AuthCall(Len(sessions))
           /\ req \in [Request -> RequestRow(Len(sessions))]
           /\ \A r \in Request : req[r] \in RequestRow(Len(sessions))
BY DEF TypeOK, Number, AuthCall, RequestRow

\* Writing one call leaves the others.
LEMMA OneCellChanges ==
    ASSUME TypeOK, NEW t \in Tab, NEW k \in AuthKind, NEW c, NEW len \in Nat,
           len >= Len(sessions), c \in AuthCall(len),
           auth' = [auth EXCEPT ![t][k] = c]
    PROVE  /\ auth' \in [Tab -> [AuthKind -> AuthCall(len)]]
           /\ Becomes(t, k, c)
<1>1. \A u \in Tab, l \in AuthKind : auth[u][l] \in AuthCall(len)
  <2>1. AuthCall(Len(sessions)) \subseteq AuthCall(len)
    BY SessionsTyped DEF AuthCall
  <2> QED
    BY <2>1, AuthTyped
<1>2. \A u \in Tab : auth[u] \in [AuthKind -> AuthCall(len)]
  BY <1>1, AuthTyped
<1>3. auth' = [u \in Tab |-> IF u = t THEN [auth[u] EXCEPT ![k] = c] ELSE auth[u]]
  BY AuthTyped
<1>4. \A u \in Tab, l \in AuthKind :
        [auth[u] EXCEPT ![k] = c][l] = IF l = k THEN c ELSE auth[u][l]
  BY <1>2
<1>5. [auth[t] EXCEPT ![k] = c] \in [AuthKind -> AuthCall(len)]
  BY <1>2
<1>6. auth' \in [Tab -> [AuthKind -> AuthCall(len)]]
  BY <1>2, <1>3, <1>5
<1>7. Becomes(t, k, c)
  BY <1>3, <1>4 DEF Becomes
<1> QED
  BY <1>6, <1>7

\* The call of a sign-in that waits for its signature.
PromptCall(p) == [at |-> "signing", cookie |-> 0, player |-> p, got |-> Refused]

\* Its record.
LEMMA PromptForm ==
    ASSUME NEW p
    PROVE  [NoCall EXCEPT !.at = "signing", !.player = p] = PromptCall(p)
<1> DEFINE c == [NoCall EXCEPT !.at = "signing", !.player = p]
<1>1. c \in [at : {"signing"}, cookie : {0}, player : {p}, got : {Refused}]
  BY DEF NoCall
<1> HIDE DEF c
<1>2. c = [at |-> c.at, cookie |-> c.cookie, player |-> c.player, got |-> c.got]
  BY <1>1
<1> QED
  BY <1>1, <1>2 DEF c, PromptCall

\* No other call changes.
Others(t, k) == \A u \in Tab, l \in AuthKind : u # t \/ l # k => auth'[u][l] = auth[u][l]

Sends(t, k, p) ==
    /\ auth'[t][k].at = "sent" /\ auth'[t][k].cookie = cookie
    /\ auth'[t][k].player = p /\ auth'[t][k].got = Refused
    /\ Others(t, k)

Answers(t, k, got) ==
    /\ auth'[t][k].at = "answered" /\ auth'[t][k].got = got
    /\ auth'[t][k].player = auth[t][k].player
    /\ Others(t, k)

Ends(t, k) == auth'[t][k].at = "none" /\ Others(t, k)

\* SendAuth, field by field.
LEMMA CallIsSent ==
    ASSUME TypeOK, NEW t \in Tab, NEW k \in AuthKind, NEW p \in Player \cup {Nobody},
           SendAuth(t, k, p)
    PROVE  /\ auth' \in [Tab -> [AuthKind -> AuthCall(Len(sessions))]]
           /\ Sends(t, k, p)
           /\ met' \subseteq Event /\ met \subseteq met'
           /\ "crossed" \in met' <=> "crossed" \in met \/ Crosses(t, k)
           /\ "signedOut" \in met' <=> "signedOut" \in met \/ k = "logout"
           /\ "unfinished" \in met' <=>
                "unfinished" \in met \/ (k # "refresh" /\ Open(t) # {})
           /\ \A e \in {"lost", "logoutLost", "expired"} : e \in met' <=> e \in met
<1>1. Sent(p) \in AuthCall(Len(sessions))
  BY SessionsTyped DEF Sent, AuthCall, TypeOK, Number, Refused
<1>2. auth' = [auth EXCEPT ![t][k] = Sent(p)]
  BY DEF SendAuth, Sent
<1>3. /\ auth' \in [Tab -> [AuthKind -> AuthCall(Len(sessions))]]
      /\ Becomes(t, k, Sent(p))
  <2>1. Len(sessions) \in Nat /\ Len(sessions) >= Len(sessions)
    BY SessionsTyped
  <2> QED
    BY <1>1, <1>2, <2>1, OneCellChanges
<1>4. Sends(t, k, p)
  BY <1>3 DEF Becomes, Sent, Sends, Others
<1> QED
  BY <1>3, <1>4 DEF SendAuth, TypeOK, Event

\* Answered, field by field.
LEMMA CallIsAnswered ==
    ASSUME TypeOK, NEW t \in Tab, NEW k \in AuthKind, NEW len \in Nat, len >= Len(sessions),
           NEW got \in {Broken, Lost} \cup (0 .. len), Answered(t, k, got)
    PROVE  /\ auth' \in [Tab -> [AuthKind -> AuthCall(len)]]
           /\ Answers(t, k, got)
<1>1. Reply(t, k, got) \in AuthCall(len)
  BY AuthTyped DEF Reply, AuthCall
<1>2. auth' = [auth EXCEPT ![t][k] = [auth[t][k] EXCEPT !.at = "answered", !.got = got, !.cookie = 0]]
  BY AuthTyped DEF Answered
<1>3. [auth[t][k] EXCEPT !.at = "answered", !.got = got, !.cookie = 0] = Reply(t, k, got)
  <2>1. ASSUME NEW x \in AuthCall(Len(sessions))
        PROVE  [x EXCEPT !.at = "answered", !.got = got, !.cookie = 0]
                 = [at |-> "answered", cookie |-> 0, player |-> x.player, got |-> got]
    <3> DEFINE y == [x EXCEPT !.at = "answered", !.got = got, !.cookie = 0]
    <3>1. y \in [at : {"answered"}, cookie : {0}, player : {x.player}, got : {got}]
      BY DEF AuthCall
    <3> HIDE DEF y
    <3>2. y = [at |-> y.at, cookie |-> y.cookie, player |-> y.player, got |-> y.got]
      BY <3>1
    <3> QED
      BY <3>1, <3>2 DEF y
  <2> QED
    BY <2>1, AuthTyped DEF Reply
<1>4. /\ auth' \in [Tab -> [AuthKind -> AuthCall(len)]]
      /\ Becomes(t, k, Reply(t, k, got))
  BY <1>1, <1>2, <1>3, OneCellChanges
<1> QED
  BY <1>4 DEF Becomes, Reply, Answers, Others

\* Over, field by field.
LEMMA CallIsOver ==
    ASSUME TypeOK, NEW t \in Tab, NEW k \in AuthKind, Over(t, k)
    PROVE  /\ auth' \in [Tab -> [AuthKind -> AuthCall(Len(sessions))]]
           /\ Ends(t, k)
<1>1. NoCall \in AuthCall(Len(sessions))
  BY SessionsTyped DEF NoCall, AuthCall, Refused
<1>2. Len(sessions) \in Nat /\ Len(sessions) >= Len(sessions)
  BY SessionsTyped
<1>3. /\ auth' \in [Tab -> [AuthKind -> AuthCall(Len(sessions))]]
      /\ Becomes(t, k, NoCall)
  BY <1>1, <1>2, OneCellChanges DEF Over
<1> QED
  BY <1>3 DEF Becomes, NoCall, Ends, Others

---------------------------------------------------------------------------
(* Types.                                                                  *)

\* What the calls of the page become.
CallIs(at, u, m, p, b) == [at |-> at, tab |-> u, bearer |-> m, player |-> p, retry |-> b]

\* What a request becomes is a request, field by field.
LEMMA RequestForms ==
    ASSUME TypeOK, NEW r \in Request, NEW n \in Number
    PROVE  /\ Replayed(r, n) \in RequestRow(Len(sessions))
           /\ Replayed(r, n).at = "sent" /\ Replayed(r, n).bearer = n /\ ~Replayed(r, n).retry
           /\ Replayed(r, n).tab = req[r].tab /\ Replayed(r, n).player = req[r].player
           /\ \A what \in {"over", "unauthorized"} :
                /\ Back(what) \in RequestRow(Len(sessions)) /\ Back(what).at = what
                /\ Back(what).tab = Nobody /\ Back(what).player = Nobody /\ Back(what).bearer = 0
           /\ \A at \in {"401", "waiting"} :
                LET y == [req[r] EXCEPT !.at = at]
                IN /\ y \in RequestRow(Len(sessions)) /\ y.at = at /\ y.tab = req[r].tab
                   /\ y.bearer = req[r].bearer /\ y.player = req[r].player
                   /\ y.retry = req[r].retry
<1> DEFINE x == req[r]
<1>1. x \in RequestRow(Len(sessions)) /\ n \in 0 .. Len(sessions)
  BY AuthTyped DEF Number
<1> HIDE DEF x
<1>2. /\ x.bearer \in 0 .. Len(sessions) /\ x.tab \in Tab \cup {Nobody}
      /\ x.player \in Player \cup {Nobody} /\ x.retry \in BOOLEAN
  BY <1>1 DEF RequestRow
<1>3. [x EXCEPT !.at = "sent", !.bearer = n, !.retry = FALSE] = CallIs("sent", x.tab, n, x.player, FALSE)
  <2> DEFINE y == [x EXCEPT !.at = "sent", !.bearer = n, !.retry = FALSE]
  <2>1. y \in [at : {"sent"}, tab : {x.tab}, bearer : {n}, player : {x.player}, retry : {FALSE}]
    BY <1>1 DEF RequestRow
  <2> HIDE DEF y
  <2>2. y = CallIs("sent", x.tab, n, x.player, FALSE)
    BY <2>1 DEF CallIs
  <2> QED
    BY <2>2 DEF y
<1>4. ASSUME NEW at
      PROVE  [x EXCEPT !.at = at] = CallIs(at, x.tab, x.bearer, x.player, x.retry)
  <2> DEFINE y == [x EXCEPT !.at = at]
  <2>1. y \in [at : {at}, tab : {x.tab}, bearer : {x.bearer}, player : {x.player}, retry : {x.retry}]
    BY <1>1 DEF RequestRow
  <2> HIDE DEF y
  <2>2. y = CallIs(at, x.tab, x.bearer, x.player, x.retry)
    BY <2>1 DEF CallIs
  <2> QED
    BY <2>2 DEF y
<1>5. ASSUME NEW at
      PROVE  [NoRequest EXCEPT !.at = at] = CallIs(at, Nobody, 0, Nobody, TRUE)
  <2> DEFINE y == [NoRequest EXCEPT !.at = at]
  <2>1. y \in [at : {at}, tab : {Nobody}, bearer : {0}, player : {Nobody}, retry : {TRUE}]
    BY DEF NoRequest
  <2> HIDE DEF y
  <2>2. y = CallIs(at, Nobody, 0, Nobody, TRUE)
    BY <2>1 DEF CallIs
  <2> QED
    BY <2>2 DEF y
<1>7. /\ Replayed(r, n) \in RequestRow(Len(sessions))
      /\ Replayed(r, n).at = "sent" /\ Replayed(r, n).bearer = n /\ ~Replayed(r, n).retry
      /\ Replayed(r, n).tab = req[r].tab /\ Replayed(r, n).player = req[r].player
  <2>1. Replayed(r, n) = CallIs("sent", x.tab, n, x.player, FALSE)
    BY <1>3 DEF Replayed, x
  <2> QED
    BY <1>1, <1>2, <2>1 DEF x, CallIs, RequestRow
<1>8. ASSUME NEW what \in {"over", "unauthorized"}
      PROVE  /\ Back(what) \in RequestRow(Len(sessions)) /\ Back(what).at = what
             /\ Back(what).tab = Nobody /\ Back(what).player = Nobody /\ Back(what).bearer = 0
  <2>1. Back(what) = CallIs(what, Nobody, 0, Nobody, TRUE)
    BY <1>5 DEF Back
  <2>2. 0 \in 0 .. Len(sessions)
    BY SessionsTyped
  <2> QED
    BY <2>1, <2>2 DEF CallIs, RequestRow
<1>9. ASSUME NEW at \in {"401", "waiting"}
      PROVE  LET y == [req[r] EXCEPT !.at = at]
             IN /\ y \in RequestRow(Len(sessions)) /\ y.at = at /\ y.tab = req[r].tab
                /\ y.bearer = req[r].bearer /\ y.player = req[r].player
                /\ y.retry = req[r].retry
  <2>1. [req[r] EXCEPT !.at = at] = CallIs(at, x.tab, x.bearer, x.player, x.retry)
    BY <1>4 DEF x
  <2> QED
    BY <1>2, <2>1 DEF x, CallIs, RequestRow
<1> QED
  BY <1>7, <1>8, <1>9

\* The same call at another point.
At(r, at) == [req[r] EXCEPT !.at = at]

\* A request that is back belongs to nobody.
LEMMA BackForm ==
    ASSUME NEW what
    PROVE  /\ Back(what).at = what /\ Back(what).tab = Nobody
           /\ Back(what).player = Nobody /\ Back(what).bearer = 0
BY DEF Back, NoRequest

\* A replay keeps its tab and its player, and may not be replayed again.
LEMMA ReplayForm ==
    ASSUME TypeOK, NEW r \in Request, NEW n \in Number
    PROVE  /\ Replayed(r, n).at = "sent" /\ Replayed(r, n).bearer = n /\ ~Replayed(r, n).retry
           /\ Replayed(r, n).tab = req[r].tab /\ Replayed(r, n).player = req[r].player
BY RequestForms

\* What a call may carry.
LEMMA CellTyped ==
    ASSUME TypeOK, NEW t \in Tab, NEW k \in AuthKind
    PROVE  /\ auth[t][k].at \in {"none", "signing", "sent", "answered"}
           /\ auth[t][k].cookie \in Number
           /\ auth[t][k].player \in Player \cup {Nobody}
           /\ auth[t][k].got \in {Broken, Lost} \cup Number
           /\ auth[t][k].got <= 0 => auth[t][k].got \in {Refused, Broken, Lost}
           /\ auth[t][k].got > 0 => auth[t][k].got \in 1 .. Len(sessions)
BY AuthTyped, SessionsTyped DEF AuthCall, Number, Broken, Lost, Refused

\* What a tab sends is a session or none.
LEMMA TokenTyped ==
    ASSUME TypeOK, NEW t \in Tab
    PROVE  /\ GetToken(t) \in Number
           /\ \A n \in Number : PlayerOf(n) \in Player \cup {Nobody}
BY SessionsTyped DEF TypeOK, GetToken, PlayerOf, Number

\* Shapes of the states after a step, from those of its parts.
Typed(len) ==
    /\ sessions' \in Seq(Row) /\ Len(sessions') = len
    /\ stale' \subseteq 1 .. len
    /\ theft' \in BOOLEAN
    /\ cookie' \in 0 .. len /\ stored' \in 0 .. len /\ token' \in [Tab -> 0 .. len]
    /\ status' \in [Tab -> {"disconnected", "failed", "authenticating", "connected"}]
    /\ shown' \in [Tab -> Player \cup {Nobody}]
    /\ refreshing' \in [Tab -> {"null", "pending", "true", "false"}]
    /\ auth' \in [Tab -> [AuthKind -> AuthCall(len)]]
    /\ req' \in [Request -> RequestRow(len)]
    /\ played' \in [Request -> 0..2]
    /\ faults' \in 0..MaxFaults
    /\ met' \subseteq Event

\* The type invariant, entry by entry.
LEMMA TypedIsTypeOK ==
    ASSUME NEW len \in Nat, Typed(len)
    PROVE  TypeOK'
BY LenProperties DEF Typed, TypeOK, Number, AuthCall, RequestRow, Row

\* What it says of the state a step starts from.
LEMMA TypedNow ==
    ASSUME TypeOK
    PROVE  /\ Len(sessions) \in Nat /\ sessions \in Seq(Row)
           /\ stale \subseteq 1 .. Len(sessions)
           /\ theft \in BOOLEAN
           /\ cookie \in Number /\ stored \in Number /\ token \in [Tab -> Number]
           /\ status \in [Tab -> {"disconnected", "failed", "authenticating", "connected"}]
           /\ shown \in [Tab -> Player \cup {Nobody}]
           /\ refreshing \in [Tab -> {"null", "pending", "true", "false"}]
           /\ auth \in [Tab -> [AuthKind -> AuthCall(Len(sessions))]]
           /\ req \in [Request -> RequestRow(Len(sessions))]
           /\ played \in [Request -> 0..2]
           /\ faults \in 0..MaxFaults
           /\ met \subseteq Event
           /\ Number = 0 .. Len(sessions)
BY AuthTyped, SessionsTyped DEF TypeOK, Number

\* A request that moves to another point keeps its fields.
LEMMA AtForm ==
    ASSUME TypeOK, NEW r \in Request, NEW at \in {"401", "waiting"}
    PROVE  /\ At(r, at).at = at /\ At(r, at).bearer = req[r].bearer
           /\ At(r, at).retry = req[r].retry
           /\ At(r, at).tab = req[r].tab /\ At(r, at).player = req[r].player
BY RequestForms, TypedNow DEF At

\* The two answers to a signature.
IssueSession(t) ==
    /\ auth[t]["verify"].at = "sent"
    /\ sessions' = NewSession(auth[t]["verify"].player)
    /\ Answered(t, "verify", Len(sessions'))
    /\ UNCHANGED <<stale, theft, played, faults, browser, req, met>>

RefuseVerify(t) ==
    /\ auth[t]["verify"].at = "sent"
    /\ Answered(t, "verify", Refused)
    /\ faults' \in 0 .. MaxFaults
    /\ UNCHANGED <<sessions, stale, theft, played, browser, req, met>>

\* A signature is answered by a session or refused.
LEMMA VerifySplits ==
    ASSUME TypeOK, NEW t \in Tab, ServeVerify(t)
    PROVE  IssueSession(t) \/ RefuseVerify(t)
BY BoundsAreNatural DEF TypeOK, ServeVerify, Fault, IssueSession, RefuseVerify

\* The type invariant is kept.
LEMMA TypeKept ==
    ASSUME TypeOK, CallsInv, [Next]_vars
    PROVE  TypeOK'
<1> DEFINE N == Len(sessions)
<1> USE TypedNow
<1>1. ASSUME NEW t \in Tab, NEW p \in Player, Connect(t, p)
      PROVE  Typed(N)
  <2>1. PromptCall(p) \in AuthCall(N) /\ N >= N
    BY SessionsTyped DEF PromptCall, AuthCall, Refused
  <2>2. auth' \in [Tab -> [AuthKind -> AuthCall(N)]]
    BY <1>1, <2>1, PromptForm, OneCellChanges DEF Connect, AuthKind
  <2> QED
    BY <1>1, <2>2, TokenTyped DEF Connect, CacheToken, Typed, server, Event
<1>2. ASSUME NEW t \in Tab, SignedIn(t) \/ NotSignedIn(t)
      PROVE  Typed(N)
  <2>1. auth' \in [Tab -> [AuthKind -> AuthCall(N)]]
    BY <1>2, CallIsOver DEF SignedIn, NotSignedIn, AuthKind
  <2>2. CASE SignedIn(t)
    BY <2>1, <2>2, CellTyped DEF SignedIn, SetToken, AuthKind, Typed, server
  <2>3. CASE NotSignedIn(t)
    BY <2>1, <2>3 DEF NotSignedIn, Typed, server
  <2> QED
    BY <1>2, <2>2, <2>3
<1>3. ASSUME NEW t \in Tab, Disconnect(t)
      PROVE  Typed(N)
  BY <1>3, CallIsSent, TokenTyped DEF Disconnect, SendAuth, CacheToken, AuthKind, Typed, server
<1>4. ASSUME NEW t \in Tab, SignedOut(t)
      PROVE  Typed(N)
  BY <1>4, CallIsOver DEF SignedOut, SetToken, AuthKind, Typed, server
<1>5. ASSUME NEW t \in Tab, Reload(t)
      PROVE  Typed(N)
  <2>1. req' \in [Request -> RequestRow(N)]
    BY <1>5, RequestForms, AuthTyped DEF Reload
  <2>2. auth' \in [Tab -> [AuthKind -> AuthCall(N)]]
    BY <1>5, CallIsOver DEF Reload, AuthKind
  <2> QED
    BY <1>5, <2>1, <2>2 DEF Reload, Typed, server, Event
<1>6. ASSUME NEW t \in Tab, RefreshSucceeds(t) \/ RefreshRefused(t) \/ RefreshLost(t)
      PROVE  Typed(N)
  <2> DEFINE got == auth[t]["refresh"].got
  <2>1. PICK ok \in {"true", "false"}, n \in Number : Settle(t, ok, n)
    BY <1>6, CellTyped DEF RefreshSucceeds, RefreshRefused, RefreshLost, AuthKind
  <2>2. req' \in [Request -> RequestRow(N)]
    BY <2>1, RequestForms, AuthTyped DEF Settle
  <2>3. auth' \in [Tab -> [AuthKind -> AuthCall(N)]]
    BY <2>1, CallIsOver DEF Settle, AuthKind
  <2>4. cookie' \in Number /\ stored' \in Number /\ token' \in [Tab -> Number]
    BY <1>6, CellTyped DEF RefreshSucceeds, RefreshRefused, RefreshLost, SetToken, AuthKind
  <2> QED
    BY <2>1, <2>2, <2>3, <2>4 DEF Settle, Typed, server
<1>7. ASSUME NEW t \in Tab, Forget(t)
      PROVE  Typed(N)
  BY <1>7 DEF Forget, Typed, server, calls
<1>8. ASSUME NEW t \in Tab, NEW r \in Request, Send(t, r)
      PROVE  Typed(N)
  BY <1>8, TokenTyped DEF Send, CacheToken, Typed, server, RequestRow
<1>9. ASSUME NEW r \in Request, ReturnUnauthorized(r) \/ TryRefresh(r) \/ ShareRefresh(r)
      PROVE  Typed(N)
  <2>1. CASE ReturnUnauthorized(r)
    <3>1. req' \in [Request -> RequestRow(N)]
      BY <2>1, RequestForms DEF ReturnUnauthorized
    <3> QED
      BY <2>1, <3>1 DEF ReturnUnauthorized, Typed, server, browser
  <2>2. CASE TryRefresh(r)
    <3>1. req' \in [Request -> RequestRow(N)]
      BY <2>2, RequestForms DEF TryRefresh
    <3>2. PICK t \in {req[r].tab} : SendAuth(t, "refresh", Nobody) /\ refreshing' = [refreshing EXCEPT ![t] = "pending"]
      BY <2>2 DEF TryRefresh
    <3>3. req[r].tab \in Tab
      BY <2>2 DEF TryRefresh, CallsInv, RequestsInv, OpenPoint
    <3>4. token' \in [Tab -> Number]
      BY <3>2, <3>3, TokenTyped DEF SendAuth, CacheToken
    <3> QED
      BY <2>2, <3>1, <3>2, <3>3, <3>4, CallIsSent DEF TryRefresh, Typed, server, AuthKind
  <2>3. CASE ShareRefresh(r)
    <3>1. req[r].tab \in Tab
      BY <2>3 DEF ShareRefresh, CallsInv, RequestsInv, OpenPoint
    <3>2. req' \in [Request -> RequestRow(N)]
      BY <2>3, <3>1, RequestForms, TokenTyped DEF ShareRefresh
    <3>3. token' \in [Tab -> Number]
      BY <2>3, <3>1, TokenTyped DEF ShareRefresh, CacheToken
    <3> QED
      BY <2>3, <3>2, <3>3 DEF ShareRefresh, Typed, server
  <2> QED
    BY <1>9, <2>1, <2>2, <2>3
<1>10. ASSUME NEW t \in Tab, IssueSession(t)
      PROVE  Typed(N + 1)
  <2>1. auth[t]["verify"].player \in Player
    BY <1>10 DEF IssueSession, CallsInv, ShowingInv
  <2>2. sessions' \in Seq(Row) /\ Len(sessions') = N + 1
    BY <1>10, <2>1, NewRow DEF IssueSession
  <2>3. Answered(t, "verify", N + 1)
    BY <1>10, <2>2 DEF IssueSession
  <2> DEFINE M == N + 1
  <2>4. M \in Nat /\ M >= N /\ M \in {Broken, Lost} \cup (0 .. M) /\ 0 .. N \subseteq 0 .. M
        /\ 1 .. N \subseteq 1 .. M
    OBVIOUS
  <2>5. auth' \in [Tab -> [AuthKind -> AuthCall(M)]]
    BY <2>3, <2>4, CallIsAnswered DEF AuthKind
  <2>6. RequestRow(N) \subseteq RequestRow(M)
    BY <2>4 DEF RequestRow
  <2> HIDE DEF M
  <2>7. Typed(M)
    BY <1>10, <2>2, <2>4, <2>5, <2>6 DEF IssueSession, Typed, browser, M
  <2> QED
    BY <2>7 DEF M
<1>17. ASSUME NEW t \in Tab, RefuseVerify(t)
      PROVE  Typed(N)
  <2>r. Refused \in {Broken, Lost} \cup (0 .. N) /\ N >= N
    BY DEF Refused
  <2>1. auth' \in [Tab -> [AuthKind -> AuthCall(N)]]
    BY <1>17, <2>r, CallIsAnswered DEF AuthKind, RefuseVerify
  <2> QED
    BY <1>17, <2>1 DEF RefuseVerify, Typed, browser
<1>18. ASSUME NEW t \in Tab, NotSigned(t) \/ Sign(t)
      PROVE  Typed(N)
  <2>1. CASE NotSigned(t)
    <3>1. auth' \in [Tab -> [AuthKind -> AuthCall(N)]]
      BY <2>1, CallIsOver DEF NotSigned, AuthKind
    <3>2. faults' \in 0 .. MaxFaults
      BY <2>1, BoundsAreNatural DEF NotSigned, Fault
    <3>3. status' \in [Tab -> {"disconnected", "failed", "authenticating", "connected"}]
      BY <2>1 DEF NotSigned
    <3>4. UNCHANGED <<sessions, stale, theft, played, cookie, stored, token, shown, refreshing,
                      req, met>>
      BY <2>1 DEF NotSigned
    <3> QED
      BY <3>1, <3>2, <3>3, <3>4 DEF Typed
  <2>2. CASE Sign(t)
    <3>1. SendAuth(t, "verify", auth[t]["verify"].player) /\ "verify" \in AuthKind
      BY <2>2 DEF Sign, AuthKind
    <3>2. /\ auth' \in [Tab -> [AuthKind -> AuthCall(N)]] /\ met' \subseteq Event
          /\ token' \in [Tab -> Number]
      BY <3>1, CallIsSent, CellTyped, TokenTyped DEF SendAuth, CacheToken
    <3> QED
      BY <2>2, <3>2 DEF Sign, Typed, server
  <2> QED
    BY <1>18, <2>1, <2>2
<1>11. ASSUME NEW t \in Tab, ServeRefresh(t)
      PROVE  Typed(N) \/ Typed(N + 1)
  <2> DEFINE c == auth[t]["refresh"].cookie
  <2>r. Refused \in {Broken, Lost} \cup (0 .. N) /\ N >= N
    BY DEF Refused
  <2>0. c \in 0 .. N
    BY CellTyped DEF AuthKind
  <2>1. CASE c = 0
    <3>1. Answered(t, "refresh", Refused) /\ sessions' = sessions /\ theft' = theft
      BY <1>11, <2>1 DEF ServeRefresh
    <3>2. auth' \in [Tab -> [AuthKind -> AuthCall(N)]]
      BY <3>1, <2>r, CallIsAnswered DEF AuthKind
    <3> QED
      BY <1>11, <3>1, <3>2 DEF ServeRefresh, Typed, browser
  <2>2. CASE c # 0 /\ ~sessions[c].revoked
    <3> DEFINE M == N + 1
    <3>1. c \in 1 .. N
      BY <2>0, <2>2
    <3>2. sessions' = Rotated(c) /\ Answered(t, "refresh", Len(sessions')) /\ theft' = theft
      BY <1>11, <2>2 DEF ServeRefresh, Rotated
    <3>3. sessions' \in Seq(Row) /\ Len(sessions') = M
      BY <3>1, <3>2, RotatedRows
    <3>4. M \in Nat /\ M >= N /\ M \in {Broken, Lost} \cup (0 .. M) /\ 0 .. N \subseteq 0 .. M
          /\ 1 .. N \subseteq 1 .. M
      OBVIOUS
    <3>5. auth' \in [Tab -> [AuthKind -> AuthCall(M)]]
      BY <3>2, <3>3, <3>4, CallIsAnswered DEF AuthKind
    <3>6. RequestRow(N) \subseteq RequestRow(M)
      BY <3>4 DEF RequestRow
    <3> HIDE DEF M
    <3>7. Typed(M)
      BY <1>11, <3>2, <3>3, <3>4, <3>5, <3>6 DEF ServeRefresh, Typed, browser
    <3> QED
      BY <3>7 DEF M
  <2>3. CASE c # 0 /\ sessions[c].revoked
    <3>1. /\ Answered(t, "refresh", Refused) /\ theft' = TRUE
          /\ \E ns : sessions' = Revoked(ns)
      BY <1>11, <2>3 DEF ServeRefresh
    <3>2. auth' \in [Tab -> [AuthKind -> AuthCall(N)]]
      BY <3>1, <2>r, CallIsAnswered DEF AuthKind
    <3>3. sessions' \in Seq(Row) /\ Len(sessions') = N
      BY <3>1, RevokedRows
    <3> QED
      BY <1>11, <3>1, <3>2, <3>3 DEF ServeRefresh, Typed, browser
  <2> QED
    BY <2>1, <2>2, <2>3
<1>12. ASSUME NEW t \in Tab, ServeLogout(t)
      PROVE  Typed(N)
  <2>r. Refused \in {Broken, Lost} \cup (0 .. N) /\ N >= N
    BY DEF Refused
  <2>1. auth' \in [Tab -> [AuthKind -> AuthCall(N)]]
    BY <1>12, <2>r, CallIsAnswered DEF AuthKind, ServeLogout
  <2>2. sessions' \in Seq(Row) /\ Len(sessions') = N
    BY <1>12, RevokedRows DEF ServeLogout
  <2> QED
    BY <1>12, <2>1, <2>2 DEF ServeLogout, Typed, browser
<1>13. ASSUME NEW t \in Tab, NEW k \in AuthKind, AuthFails(t, k)
      PROVE  Typed(N)
  <2>1. Answered(t, k, Lost) \/ Answered(t, k, Broken)
    BY <1>13 DEF AuthFails
  <2>l. N \in Nat /\ N >= N /\ {Lost, Broken} \subseteq {Broken, Lost} \cup (0 .. N)
    OBVIOUS
  <2>2. auth' \in [Tab -> [AuthKind -> AuthCall(N)]]
    BY <2>l, <2>1, CallIsAnswered
  <2> QED
    BY <1>13, <2>2, BoundsAreNatural DEF AuthFails, Fault, Typed, browser, Event
<1>14. ASSUME NEW r \in Request, ServeRequest(r) \/ RefuseRequest(r) \/ RequestLost(r)
      PROVE  Typed(N)
  <2>1. req' \in [Request -> RequestRow(N)]
    <3>1. /\ Back("over") \in RequestRow(N) /\ [req[r] EXCEPT !.at = "401"] \in RequestRow(N)
          /\ req \in [Request -> RequestRow(N)]
      BY AuthTyped, RequestForms, TypedNow
    <3>2. \/ req' = [req EXCEPT ![r] = Back("over")]
          \/ req' = [req EXCEPT ![r].at = "401"]
      BY <1>14 DEF ServeRequest, RefuseRequest, RequestLost
    <3> QED
      BY <3>1, <3>2
  <2>2. played[r] = 0 /\ played[r] + 1 \in 0..2
    BY <1>14 DEF ServeRequest, RefuseRequest, RequestLost, CallsInv, RequestsInv, OpenPoint
  <2>3. played' \in [Request -> 0..2]
    BY <1>14, <2>2 DEF ServeRequest, RefuseRequest, RequestLost
  <2>4. req[r].bearer \in Number
    BY AuthTyped DEF RequestRow
  <2>5. stale' \subseteq 1 .. N
    BY <1>14, <2>4 DEF ServeRequest, RefuseRequest, RequestLost
  <2>6. faults' \in 0 .. MaxFaults
    BY <1>14, BoundsAreNatural DEF ServeRequest, RefuseRequest, RequestLost, Fault
  <2> QED
    BY <1>14, <2>1, <2>3, <2>5, <2>6
    DEF ServeRequest, RefuseRequest, RequestLost, Typed, browser
<1>15. ASSUME ExpireCookie
      PROVE  Typed(N)
  BY <1>15, BoundsAreNatural DEF ExpireCookie, Fault, Typed, calls, Event
<1>16. ASSUME UNCHANGED vars
      PROVE  Typed(N)
  BY <1>16 DEF vars, Typed, server, browser, calls
<1>19. Typed(N) \/ Typed(N + 1)
  BY <1>1, <1>2, <1>3, <1>4, <1>5, <1>6, <1>7, <1>8, <1>9, <1>10, <1>11, <1>12, <1>13,
     <1>14, <1>15, <1>16, <1>17, <1>18, VerifySplits DEF Next, InBrowser, AtServer
<1> QED
  BY <1>19, TypedIsTypeOK

---------------------------------------------------------------------------
(* Requests, refreshes and sign-ins.                                       *)

\* A request that was carried out is never sent again: what is replayed was
\* refused.
LEMMA RequestsKept ==
    ASSUME TypeOK, RequestsInv, [Next]_vars
    PROVE  RequestsInv'
<1> DEFINE Good(x, n) ==
       /\ x.at \in OpenPoint => x.tab \in Tab
       /\ x.at = "none" => x.tab = Nobody
       /\ x.at \notin OpenPoint => x.player = Nobody
       /\ x.at \in {"none"} \cup OpenPoint => n = 0
       /\ n <= 1
<1>0. \A r \in Request : Good(req[r], played[r])
  BY DEF RequestsInv
<1>1. ASSUME \A q \in Request : Good(req'[q], played'[q])
      PROVE  RequestsInv'
  BY <1>1 DEF RequestsInv
<1>2. ASSUME req' = req, played' = played
      PROVE  RequestsInv'
  BY <1>2 DEF RequestsInv
<1>3. ASSUME NEW what \in {"over", "unauthorized"}, NEW n \in {0, 1}
      PROVE  Good(Back(what), n)
  BY BackForm DEF OpenPoint
<1>4. ASSUME NEW r \in Request, req[r].at \in OpenPoint, NEW n \in Number
      PROVE  Good(Replayed(r, n), 0) /\ played[r] = 0
  BY <1>0, <1>4, ReplayForm DEF OpenPoint
<1>5. ASSUME NEW r \in Request, req[r].at \in OpenPoint, NEW at \in {"401", "waiting"}
      PROVE  Good(At(r, at), 0) /\ played[r] = 0
  BY <1>0, <1>5, AtForm DEF OpenPoint
<1>6. \A r \in Request : played[r] \in {0, 1} /\ (req[r].at \in OpenPoint => played[r] = 0)
  BY <1>0, TypedNow
<1> HIDE DEF Good
<1>7. ASSUME NEW t \in Tab, Reload(t)
      PROVE  RequestsInv'
  <2>1. /\ played' = played
        /\ \A q \in Request : req'[q] = req[q] \/ req'[q] = Back("over")
    BY <1>7 DEF Reload, server
  <2> QED
    BY <1>0, <1>1, <1>3, <1>6, <2>1
<1>8. ASSUME NEW t \in Tab, RefreshSucceeds(t) \/ RefreshRefused(t) \/ RefreshLost(t)
      PROVE  RequestsInv'
  <2>1. PICK n \in Number :
          /\ played' = played
          /\ \A q \in Request : \/ req'[q] = req[q] \/ req'[q] = Back("unauthorized")
                                \/ req[q].at = "waiting" /\ req'[q] = Replayed(q, n)
    BY <1>8, CellTyped, TypedNow
    DEF RefreshSucceeds, RefreshRefused, RefreshLost, Settle, AuthKind, server, Waiting
  <2>2. ASSUME NEW q \in Request, req[q].at = "waiting"
        PROVE  Good(Replayed(q, n), played[q])
    BY <1>4, <2>2 DEF OpenPoint
  <2> QED
    BY <1>0, <1>1, <1>3, <1>6, <2>1, <2>2
<1>9. ASSUME NEW t \in Tab, NEW r \in Request, Send(t, r)
      PROVE  RequestsInv'
  <2> DEFINE x == [at |-> "sent", tab |-> t, bearer |-> GetToken(t),
                   player |-> PlayerOf(GetToken(t)), retry |-> TRUE]
  <2>1. played' = played /\ played[r] = 0 /\ req' = [req EXCEPT ![r] = x]
    BY <1>0, <1>9 DEF Send, server, Good
  <2>2. Good(x, 0)
    BY DEF Good, OpenPoint
  <2> HIDE DEF x
  <2> QED
    BY <1>0, <1>1, <2>1, <2>2, TypedNow
<1>10. ASSUME NEW r \in Request, req[r].at \in OpenPoint, NEW x, played' = played,
              req' = [req EXCEPT ![r] = x], Good(x, 0)
       PROVE  RequestsInv'
  BY <1>0, <1>1, <1>6, <1>10, TypedNow
<1>11. ASSUME NEW r \in Request, ReturnUnauthorized(r) \/ TryRefresh(r) \/ ShareRefresh(r)
      PROVE  RequestsInv'
  <2>1. req[r].at = "401" /\ req[r].at \in OpenPoint /\ played' = played
    BY <1>11 DEF ReturnUnauthorized, TryRefresh, ShareRefresh, OpenPoint, server
  <2>2. req[r].tab \in Tab
    BY <1>0, <2>1 DEF Good
  <2>3. PICK x : /\ req' = [req EXCEPT ![r] = x]
                 /\ x \in {Back("unauthorized"), Replayed(r, GetToken(req[r].tab)), At(r, "waiting")}
    BY <1>11 DEF ReturnUnauthorized, TryRefresh, ShareRefresh, At
  <2>4. Good(x, 0)
    BY <1>3, <1>4, <1>5, <2>1, <2>2, <2>3, TokenTyped
  <2> QED
    BY <1>10, <2>1, <2>3, <2>4
<1>12. ASSUME NEW r \in Request, ServeRequest(r) \/ RequestLost(r)
      PROVE  RequestsInv'
  <2>1. /\ req[r].at \in OpenPoint /\ req' = [req EXCEPT ![r] = Back("over")]
        /\ played' = played \/ played' = [played EXCEPT ![r] = @ + 1]
    BY <1>12 DEF ServeRequest, RequestLost, OpenPoint
  <2>2. played'[r] \in {0, 1} /\ \A q \in Request \ {r} : played'[q] = played[q]
    BY <1>6, <2>1, TypedNow
  <2> QED
    BY <1>0, <1>1, <1>3, <2>1, <2>2, TypedNow
<1>13. ASSUME NEW r \in Request, RefuseRequest(r)
      PROVE  RequestsInv'
  <2>1. /\ req[r].at \in OpenPoint /\ req' = [req EXCEPT ![r] = At(r, "401")]
        /\ played' = played
    BY <1>13 DEF RefuseRequest, OpenPoint, At
  <2> QED
    BY <1>5, <1>10, <2>1
<1> QED
  BY <1>2, <1>7, <1>8, <1>9, <1>11, <1>12, <1>13
  DEF Next, InBrowser, AtServer, vars, Connect, NotSigned, Sign, SignedIn, NotSignedIn,
      Disconnect, SignedOut, Forget, ServeVerify, ServeRefresh, ServeLogout, AuthFails,
      ExpireCookie, server, calls

---------------------------------------------------------------------------
(* What each step changes, entry by entry.                                 *)

\* g is f but for its value at t.
Sets(g, f, t, v) == \A u \in Tab : g[u] = IF u = t THEN v ELSE f[u]

Moves(r, x) == \A q \in Request : req'[q] = IF q = r THEN x ELSE req[q]

\* What a call sent by t puts on record.
Marks(t, k) ==
    /\ "crossed" \in met' <=> "crossed" \in met \/ Crosses(t, k)
    /\ "signedOut" \in met' <=> "signedOut" \in met \/ k = "logout"
    /\ "unfinished" \in met' <=> "unfinished" \in met \/ (k # "refresh" /\ Open(t) # {})
    /\ \A e \in {"lost", "logoutLost", "expired"} : e \in met' <=> e \in met

\* A tab may have kept what it found in localStorage; what it would send is the same.
Caches(t) == \A u \in Tab : \/ token'[u] = token[u]
                            \/ u = t /\ token[u] = 0 /\ token'[u] = stored

\* No call in flight changes, and none is sent or answered.
FlightsStay ==
    \A u \in Tab, l \in AuthKind : InFlight(u, l) \/ InFlight(u, l)' => auth'[u][l] = auth[u][l]

\* What is kept in memory is what was sent before.
LEMMA CachedIsTheSame ==
    ASSUME TypeOK, NEW t \in Tab, Caches(t), stored' = stored
    PROVE  \A u \in Tab : GetToken(u)' = GetToken(u)
BY DEF Caches, GetToken

\* The other way round.
LEMMA KeptIsCached ==
    ASSUME TypeOK, NEW t \in Tab, CacheToken(t)
    PROVE  Caches(t)
BY TypedNow DEF CacheToken, Caches, GetToken

\* The steps of the sign-in and sign-out.
LEMMA ConnectStep ==
    ASSUME TypeOK, ShowingInv, NEW t \in Tab, NEW p \in Player, Connect(t, p)
    PROVE  /\ status[t] # "authenticating" /\ shown[t] = Nobody
           /\ auth[t]["verify"].at = "none"
           /\ auth'[t]["verify"].at = "signing" /\ auth'[t]["verify"].player = p
           /\ Others(t, "verify") /\ FlightsStay
           /\ "unfinished" \in met' <=> "unfinished" \in met \/ Open(t) # {}
           /\ \A e \in Event \ {"unfinished"} : e \in met' <=> e \in met
           /\ Sets(status', status, t, "authenticating") /\ Caches(t)
           /\ sessions' = sessions /\ stale' = stale /\ theft' = theft
           /\ played' = played /\ faults' = faults /\ cookie' = cookie
           /\ stored' = stored /\ shown' = shown
           /\ refreshing' = refreshing /\ req' = req
<1>1. /\ PromptCall(p) \in AuthCall(Len(sessions))
      /\ Len(sessions) \in Nat /\ Len(sessions) >= Len(sessions)
  BY SessionsTyped DEF PromptCall, AuthCall, Refused
<1>2. auth' = [auth EXCEPT ![t]["verify"] = PromptCall(p)]
  BY PromptForm DEF Connect
<1>3. Becomes(t, "verify", PromptCall(p))
  BY <1>1, <1>2, OneCellChanges DEF AuthKind
<1>4. auth'[t]["verify"].at = "signing" /\ auth'[t]["verify"].player = p /\ Others(t, "verify")
  BY <1>3 DEF Becomes, PromptCall, Others, AuthKind
<1>5. status[t] # "authenticating" /\ auth[t]["verify"].at = "none"
  BY DEF Connect, ShowingInv
<1>6. FlightsStay
  BY <1>4, <1>5 DEF FlightsStay, InFlight, Others
<1> QED
  BY <1>4, <1>5, <1>6, KeptIsCached, TypedNow DEF Connect, Sets, server, Event

LEMMA NotSignedStep ==
    ASSUME TypeOK, NEW t \in Tab, NotSigned(t)
    PROVE  /\ auth[t]["verify"].at = "signing"
           /\ Ends(t, "verify") /\ FlightsStay
           /\ Sets(status', status, t, "failed")
           /\ sessions' = sessions /\ stale' = stale /\ theft' = theft
           /\ played' = played /\ cookie' = cookie
           /\ stored' = stored /\ token' = token /\ shown' = shown
           /\ refreshing' = refreshing /\ req' = req /\ met' = met
<1>1. auth[t]["verify"].at = "signing" /\ Ends(t, "verify")
  BY CallIsOver DEF NotSigned, AuthKind
<1>2. FlightsStay
  BY <1>1 DEF FlightsStay, InFlight, Ends, Others
<1> QED
  BY <1>1, <1>2, TypedNow DEF NotSigned, Sets

LEMMA SignStep ==
    ASSUME TypeOK, ShowingInv, NEW t \in Tab, Sign(t)
    PROVE  /\ auth[t]["verify"].at = "signing" /\ status[t] = "authenticating"
           /\ Sends(t, "verify", auth[t]["verify"].player) /\ Marks(t, "verify")
           /\ Caches(t)
           /\ sessions' = sessions /\ stale' = stale /\ theft' = theft
           /\ played' = played /\ faults' = faults /\ cookie' = cookie
           /\ stored' = stored /\ status' = status /\ shown' = shown
           /\ refreshing' = refreshing /\ req' = req
<1>1. auth[t]["verify"].at = "signing" /\ status[t] = "authenticating"
  BY DEF Sign, ShowingInv
<1>2. auth[t]["verify"].player \in Player \cup {Nobody} /\ "verify" \in AuthKind
  BY CellTyped DEF AuthKind
<1>3. SendAuth(t, "verify", auth[t]["verify"].player)
  BY DEF Sign
<1>4. Sends(t, "verify", auth[t]["verify"].player) /\ Marks(t, "verify")
  BY <1>2, <1>3, CallIsSent DEF Marks
<1>5. Caches(t)
  BY <1>3, KeptIsCached DEF SendAuth
<1> QED
  BY <1>1, <1>4, <1>5 DEF Sign, server

LEMMA SignedInStep ==
    ASSUME TypeOK, NEW t \in Tab, SignedIn(t)
    PROVE  /\ auth[t]["verify"].at = "answered" /\ auth[t]["verify"].got > 0
           /\ cookie' = auth[t]["verify"].got /\ stored' = auth[t]["verify"].got
           /\ Sets(token', token, t, auth[t]["verify"].got)
           /\ Ends(t, "verify")
           /\ Sets(status', status, t, "connected")
           /\ Sets(shown', shown, t, auth[t]["verify"].player)
           /\ sessions' = sessions /\ stale' = stale /\ theft' = theft
           /\ played' = played /\ faults' = faults /\ refreshing' = refreshing
           /\ req' = req /\ met' = met
BY CallIsOver, TypedNow DEF SignedIn, SetToken, AuthKind, Sets, server

LEMMA NotSignedInStep ==
    ASSUME TypeOK, NEW t \in Tab, NotSignedIn(t)
    PROVE  /\ auth[t]["verify"].at = "answered" /\ auth[t]["verify"].got \in {Refused, Broken, Lost}
           /\ Ends(t, "verify")
           /\ Sets(status', status, t, "failed")
           /\ sessions' = sessions /\ stale' = stale /\ theft' = theft
           /\ played' = played /\ faults' = faults /\ cookie' = cookie
           /\ stored' = stored /\ token' = token /\ shown' = shown
           /\ refreshing' = refreshing /\ req' = req /\ met' = met
BY CallIsOver, CellTyped, TypedNow DEF NotSignedIn, AuthKind, Sets, server

LEMMA DisconnectStep ==
    ASSUME TypeOK, NEW t \in Tab, Disconnect(t)
    PROVE  /\ status[t] = "connected" /\ ~InFlight(t, "logout")
           /\ Sends(t, "logout", Nobody) /\ Marks(t, "logout")
           /\ Sets(status', status, t, "disconnected")
           /\ Sets(shown', shown, t, Nobody)
           /\ sessions' = sessions /\ stale' = stale /\ theft' = theft
           /\ played' = played /\ faults' = faults /\ cookie' = cookie
           /\ stored' = stored /\ Caches(t) /\ refreshing' = refreshing
           /\ req' = req
<1>1. SendAuth(t, "logout", Nobody) /\ "logout" \in AuthKind
  BY DEF Disconnect, AuthKind
<1>2. Sends(t, "logout", Nobody) /\ Marks(t, "logout")
  BY <1>1, CallIsSent DEF Marks
<1>3. Caches(t)
  BY <1>1, KeptIsCached DEF SendAuth
<1> QED
  BY <1>2, <1>3, TypedNow DEF Disconnect, Sets, server

LEMMA SignedOutStep ==
    ASSUME TypeOK, NEW t \in Tab, SignedOut(t)
    PROVE  /\ auth[t]["logout"].at = "answered"
           /\ cookie' = IF auth[t]["logout"].got = Refused THEN 0 ELSE cookie
           /\ stored' = 0 /\ Sets(token', token, t, 0)
           /\ Ends(t, "logout")
           /\ sessions' = sessions /\ stale' = stale /\ theft' = theft
           /\ played' = played /\ faults' = faults /\ status' = status
           /\ shown' = shown /\ refreshing' = refreshing /\ req' = req /\ met' = met
BY CallIsOver, TypedNow DEF SignedOut, SetToken, AuthKind, Sets, server

LEMMA ReloadStep ==
    ASSUME TypeOK, NEW t \in Tab, Reload(t)
    PROVE  /\ \A k \in AuthKind : ~InFlight(t, k)
           /\ Sets(token', token, t, stored)
           /\ Sets(status', status, t, IF stored # 0 THEN "connected" ELSE "disconnected")
           /\ Sets(shown', shown, t, Nobody) /\ Sets(refreshing', refreshing, t, "null")
           /\ \A q \in Request : req'[q] = IF req[q].tab = t /\ req[q].at \notin {"over", "unauthorized"}
                                  THEN Back("over") ELSE req[q]
           /\ "crossed" \in met' <=> "crossed" \in met \/ Crosses(t, "refresh")
           /\ \A e \in Event \ {"crossed"} : e \in met' <=> e \in met
           /\ sessions' = sessions /\ stale' = stale /\ theft' = theft
           /\ played' = played /\ faults' = faults /\ cookie' = cookie
           /\ stored' = stored /\ Ends(t, "verify") /\ FlightsStay
<1>1. Ends(t, "verify") /\ \A k \in AuthKind : ~InFlight(t, k)
  BY CallIsOver DEF Reload, AuthKind
<1>2. FlightsStay
  BY <1>1 DEF FlightsStay, InFlight, Ends, Others
<1> QED
  BY <1>1, <1>2, TypedNow DEF Reload, Open, Sets, server, Event

\* The three ways a refresh ends, and the timer after it.
LEMMA RefreshSucceedsStep ==
    ASSUME TypeOK, NEW t \in Tab, RefreshSucceeds(t)
    PROVE  /\ auth[t]["refresh"].got > 0
           /\ cookie' = auth[t]["refresh"].got /\ stored' = auth[t]["refresh"].got
           /\ Sets(token', token, t, auth[t]["refresh"].got)
           /\ auth[t]["refresh"].at = "answered"
           /\ Ends(t, "refresh")
           /\ Sets(refreshing', refreshing, t, "true")
           /\ \A q \in Request : req'[q] = IF req[q].tab = t /\ req[q].at = "waiting"
                                  THEN Replayed(q, auth[t]["refresh"].got) ELSE req[q]
           /\ sessions' = sessions /\ stale' = stale /\ theft' = theft
           /\ played' = played /\ faults' = faults /\ status' = status
           /\ shown' = shown /\ met' = met
BY CallIsOver, TypedNow
DEF RefreshSucceeds, Settle, Waiting, Open, SetToken, AuthKind, Sets, server

LEMMA RefreshRefusedStep ==
    ASSUME TypeOK, NEW t \in Tab, RefreshRefused(t)
    PROVE  /\ auth[t]["refresh"].got \in {Refused, Broken}
           /\ cookie' = IF auth[t]["refresh"].got = Refused THEN 0 ELSE cookie
           /\ stored' = 0 /\ Sets(token', token, t, 0)
           /\ auth[t]["refresh"].at = "answered"
           /\ Ends(t, "refresh")
           /\ Sets(refreshing', refreshing, t, "false")
           /\ \A q \in Request : req'[q] = IF req[q].tab = t /\ req[q].at = "waiting"
                                  THEN Back("unauthorized") ELSE req[q]
           /\ sessions' = sessions /\ stale' = stale /\ theft' = theft
           /\ played' = played /\ faults' = faults /\ status' = status
           /\ shown' = shown /\ met' = met
BY CallIsOver, TypedNow
DEF RefreshRefused, Settle, Waiting, Open, SetToken, AuthKind, Sets, server

LEMMA RefreshLostStep ==
    ASSUME TypeOK, NEW t \in Tab, RefreshLost(t)
    PROVE  /\ auth[t]["refresh"].got = Lost
           /\ auth[t]["refresh"].at = "answered"
           /\ Ends(t, "refresh")
           /\ Sets(refreshing', refreshing, t, "false")
           /\ \A q \in Request : req'[q] = IF req[q].tab = t /\ req[q].at = "waiting"
                                  THEN Back("unauthorized") ELSE req[q]
           /\ sessions' = sessions /\ stale' = stale /\ theft' = theft
           /\ played' = played /\ faults' = faults /\ cookie' = cookie
           /\ stored' = stored /\ token' = token /\ status' = status
           /\ shown' = shown /\ met' = met
BY CallIsOver, TypedNow DEF RefreshLost, Settle, Waiting, Open, SetToken, AuthKind, Sets, server

LEMMA ForgetStep ==
    ASSUME TypeOK, NEW t \in Tab, Forget(t)
    PROVE  /\ refreshing[t] \in {"true", "false"} /\ Sets(refreshing', refreshing, t, "null")
           /\ sessions' = sessions /\ stale' = stale /\ theft' = theft
           /\ played' = played /\ faults' = faults /\ cookie' = cookie
           /\ stored' = stored /\ token' = token /\ status' = status
           /\ shown' = shown /\ auth' = auth /\ req' = req /\ met' = met
BY TypedNow DEF Forget, Sets, server, calls

\* The requests of a tab.
LEMMA SendStep ==
    ASSUME TypeOK, NEW t \in Tab, NEW r \in Request, Send(t, r)
    PROVE  /\ status[t] = "connected" /\ req[r].at = "none"
           /\ Sets(token', token, t, GetToken(t)) /\ GetToken(t) \in Number
           /\ req'[r].at = "sent" /\ req'[r].tab = t /\ req'[r].bearer = GetToken(t) /\ req'[r].retry
           /\ req'[r].player = PlayerOf(GetToken(t))
           /\ \A q \in Request : q # r => req'[q] = req[q]
           /\ sessions' = sessions /\ stale' = stale /\ theft' = theft
           /\ played' = played /\ faults' = faults /\ cookie' = cookie
           /\ stored' = stored /\ status' = status /\ shown' = shown
           /\ refreshing' = refreshing /\ auth' = auth /\ met' = met
BY TypedNow, TokenTyped DEF Send, CacheToken, Sets, server

LEMMA ReturnStep ==
    ASSUME TypeOK, NEW r \in Request, ReturnUnauthorized(r)
    PROVE  /\ req[r].at = "401" /\ (~req[r].retry \/ refreshing[req[r].tab] = "false")
           /\ Moves(r, Back("unauthorized"))
           /\ sessions' = sessions /\ stale' = stale /\ theft' = theft
           /\ played' = played /\ faults' = faults /\ cookie' = cookie
           /\ stored' = stored /\ token' = token /\ status' = status
           /\ shown' = shown /\ refreshing' = refreshing /\ auth' = auth
           /\ met' = met
BY TypedNow DEF ReturnUnauthorized, Moves, server, browser

LEMMA TryRefreshStep ==
    ASSUME TypeOK, RequestsInv, NEW r \in Request, TryRefresh(r)
    PROVE  /\ req[r].tab \in Tab /\ req[r].at = "401" /\ req[r].retry /\ refreshing[req[r].tab] = "null"
           /\ Sets(refreshing', refreshing, req[r].tab, "pending")
           /\ Sends(req[r].tab, "refresh", Nobody) /\ Marks(req[r].tab, "refresh")
           /\ Moves(r, At(r, "waiting"))
           /\ sessions' = sessions /\ stale' = stale /\ theft' = theft
           /\ played' = played /\ faults' = faults /\ cookie' = cookie
           /\ stored' = stored /\ Caches(req[r].tab) /\ status' = status
           /\ shown' = shown
<1>1. req[r].tab \in Tab
  BY DEF TryRefresh, RequestsInv, OpenPoint
<1>2. PICK t \in Tab : /\ t = req[r].tab /\ SendAuth(t, "refresh", Nobody)
                      /\ refreshing' = [refreshing EXCEPT ![t] = "pending"]
  BY <1>1 DEF TryRefresh
<1>3. Sends(t, "refresh", Nobody) /\ Marks(t, "refresh")
  BY <1>2, CallIsSent DEF Marks, AuthKind
<1>4. Caches(t)
  BY <1>2, KeptIsCached DEF SendAuth
<1>5. Sets(refreshing', refreshing, t, "pending")
  BY <1>2, TypedNow DEF Sets
<1> QED
  BY <1>1, <1>2, <1>3, <1>4, <1>5, TypedNow DEF TryRefresh, Moves, At, server

LEMMA ShareRefreshStep ==
    ASSUME TypeOK, RequestsInv, NEW r \in Request, ShareRefresh(r)
    PROVE  /\ req[r].tab \in Tab /\ req[r].at = "401" /\ req[r].retry
           /\ refreshing[req[r].tab] \in {"pending", "true"} /\ GetToken(req[r].tab) \in Number
           /\ refreshing[req[r].tab] = "true" => Moves(r, Replayed(r, GetToken(req[r].tab)))
           /\ refreshing[req[r].tab] # "true" => Moves(r, At(r, "waiting"))
           /\ sessions' = sessions /\ stale' = stale /\ theft' = theft
           /\ played' = played /\ faults' = faults /\ cookie' = cookie
           /\ stored' = stored /\ Caches(req[r].tab) /\ status' = status
           /\ shown' = shown /\ refreshing' = refreshing /\ auth' = auth
           /\ met' = met
<1>1. req[r].tab \in Tab
  BY DEF ShareRefresh, RequestsInv, OpenPoint
<1>2. Caches(req[r].tab)
  BY <1>1, KeptIsCached DEF ShareRefresh, Caches
<1> QED
  BY <1>1, <1>2, TokenTyped, TypedNow DEF ShareRefresh, Moves, At, server

\* A refusal: the calls of a sign-in end there.
LEMMA RefuseVerifyStep ==
    ASSUME TypeOK, NEW t \in Tab, RefuseVerify(t)
    PROVE  /\ auth[t]["verify"].at = "sent"
           /\ Answers(t, "verify", Refused)
           /\ sessions' = sessions /\ stale' = stale /\ theft' = theft
           /\ played' = played /\ cookie' = cookie /\ stored' = stored
           /\ token' = token /\ status' = status /\ shown' = shown
           /\ refreshing' = refreshing /\ req' = req /\ met' = met
<1>1. Refused \in {Broken, Lost} \cup (0 .. Len(sessions)) /\ Len(sessions) >= Len(sessions)
        /\ Len(sessions) \in Nat
  BY SessionsTyped DEF Refused
<1>2. Answers(t, "verify", Refused)
  BY <1>1, CallIsAnswered DEF RefuseVerify, AuthKind
<1> QED
  BY <1>2 DEF RefuseVerify, browser

\* The server's side of the calls to /auth.
LEMMA ServeVerifyStep ==
    ASSUME TypeOK, ShowingInv, NEW t \in Tab, IssueSession(t)
    PROVE  /\ auth[t]["verify"].at = "sent" /\ auth[t]["verify"].player \in Player
           /\ Len(sessions') = Len(sessions) + 1
           /\ sessions'[Len(sessions) + 1].player = auth[t]["verify"].player
           /\ ~sessions'[Len(sessions) + 1].revoked
           /\ \A n \in 1 .. Len(sessions) : sessions'[n] = sessions[n]
           /\ Answers(t, "verify", Len(sessions) + 1)
           /\ stale' = stale /\ theft' = theft /\ played' = played
           /\ faults' = faults /\ cookie' = cookie /\ stored' = stored
           /\ token' = token /\ status' = status /\ shown' = shown
           /\ refreshing' = refreshing /\ req' = req /\ met' = met
<1> DEFINE M == Len(sessions) + 1
<1>1. auth[t]["verify"].at = "sent" /\ auth[t]["verify"].player \in Player
  BY DEF IssueSession, ShowingInv
<1>2. sessions' = NewSession(auth[t]["verify"].player)
  BY DEF IssueSession
<1>3. Len(sessions') = M
  BY <1>1, <1>2, NewRow
<1>4. Answered(t, "verify", M)
  BY <1>3 DEF IssueSession
<1>5. M \in Nat /\ M >= Len(sessions) /\ M \in {Broken, Lost} \cup (0 .. M)
  BY SessionsTyped
<1>6. Answers(t, "verify", M)
  BY <1>4, <1>5, CallIsAnswered DEF AuthKind
<1>7. sessions'[M] = [player |-> auth[t]["verify"].player, revoked |-> FALSE]
  BY <1>1, <1>2, NewRow
<1>8. \A n \in 1 .. Len(sessions) : sessions'[n] = sessions[n]
  BY <1>1, <1>2, NewRow
<1>9. sessions'[M].player = auth[t]["verify"].player /\ ~sessions'[M].revoked
  BY <1>7
<1> QED
  BY <1>1, <1>2, <1>3, <1>6, <1>8, <1>9 DEF IssueSession, browser

LEMMA ServeRefreshStep ==
    ASSUME TypeOK, NEW t \in Tab, ServeRefresh(t)
    PROVE  /\ auth[t]["refresh"].at = "sent" /\ auth[t]["refresh"].cookie \in 0 .. Len(sessions)
           /\ \A n \in 1 .. Len(sessions) : sessions'[n].player = sessions[n].player
           /\ LET c == auth[t]["refresh"].cookie
              IN \/ /\ c = 0 \/ sessions[c].revoked
                    /\ Len(sessions') = Len(sessions)
                    /\ \A n \in 1 .. Len(sessions) : c = 0 => sessions'[n] = sessions[n]
                    /\ theft' \in BOOLEAN /\ (theft' <=> theft \/ c # 0)
                    /\ Answers(t, "refresh", Refused)
                 \/ /\ c # 0 /\ ~sessions[c].revoked
                    /\ Len(sessions') = Len(sessions) + 1
                    /\ sessions'[Len(sessions) + 1].player = sessions[c].player
                    /\ ~sessions'[Len(sessions) + 1].revoked
                    /\ theft' = theft
                    /\ Answers(t, "refresh", Len(sessions) + 1)
           /\ stale' = stale /\ played' = played /\ faults' = faults
           /\ cookie' = cookie /\ stored' = stored /\ token' = token
           /\ status' = status /\ shown' = shown /\ refreshing' = refreshing
           /\ req' = req /\ met' = met
<1> DEFINE c == auth[t]["refresh"].cookie
          M == Len(sessions) + 1
<1>1. c \in 0 .. Len(sessions) /\ theft \in BOOLEAN
  BY CellTyped, TypedNow DEF AuthKind
<1>2. Refused \in {Broken, Lost} \cup (0 .. Len(sessions)) /\ Len(sessions) >= Len(sessions)
        /\ Len(sessions) \in Nat
  BY SessionsTyped DEF Refused
<1>3. CASE c = 0 \/ sessions[c].revoked
  <2>1. Answered(t, "refresh", Refused) /\ theft' = (theft \/ c # 0)
        /\ IF c = 0 THEN sessions' = sessions ELSE \E ns : sessions' = Revoked(ns)
    BY <1>1, <1>3 DEF ServeRefresh
  <2>2. Answers(t, "refresh", Refused)
    BY <1>2, <2>1, CallIsAnswered DEF AuthKind
  <2> QED
    BY <1>1, <1>3, <2>1, <2>2, RevokedRows DEF ServeRefresh, browser
<1>4. CASE c # 0 /\ ~sessions[c].revoked
  <2>1. c \in 1 .. Len(sessions)
    BY <1>1, <1>2, <1>4
  <2>2. sessions' = Rotated(c) /\ Answered(t, "refresh", Len(sessions')) /\ theft' = theft
    BY <1>4 DEF ServeRefresh, Rotated
  <2>3. Len(sessions') = M
    BY <2>1, <2>2, RotatedRows
  <2>4. M \in Nat /\ M >= Len(sessions) /\ M \in {Broken, Lost} \cup (0 .. M)
    BY <1>2
  <2>5. Answers(t, "refresh", M)
    BY <2>2, <2>3, <2>4, CallIsAnswered DEF AuthKind
  <2>6. /\ sessions'[M].player = sessions[c].player /\ ~sessions'[M].revoked
        /\ \A n \in 1 .. Len(sessions) : sessions'[n].player = sessions[n].player
    <3>1. /\ Rotated(c)[M].player = sessions[c].player /\ ~Rotated(c)[M].revoked
          /\ \A n \in 1 .. Len(sessions) : Rotated(c)[n].player = sessions[n].player
      <4> HIDE DEF c
      <4> QED
        BY <2>1, RotatedRows
    <3> HIDE DEF c, M
    <3> QED
      BY <2>2, <3>1
  <2>7. auth[t]["refresh"].at = "sent"
        /\ UNCHANGED <<stale, played, faults, browser, req, met>>
    BY DEF ServeRefresh
  <2> HIDE DEF c, M
  <2>8. stale' = stale /\ played' = played /\ faults' = faults /\ cookie' = cookie
        /\ stored' = stored /\ token' = token /\ status' = status /\ shown' = shown
        /\ refreshing' = refreshing /\ req' = req /\ met' = met
    BY <2>7 DEF browser
  <2> QED
    BY <1>1, <1>4, <2>2, <2>3, <2>5, <2>6, <2>7, <2>8 DEF c, M
<1> QED
  BY <1>3, <1>4

LEMMA ServeLogoutStep ==
    ASSUME TypeOK, NEW t \in Tab, ServeLogout(t)
    PROVE  /\ auth[t]["logout"].at = "sent" /\ auth[t]["logout"].cookie \in 0 .. Len(sessions)
           /\ Len(sessions') = Len(sessions)
           /\ \A n \in 1 .. Len(sessions) :
                /\ sessions'[n].player = sessions[n].player
                /\ sessions'[n].revoked <=> sessions[n].revoked \/ n = auth[t]["logout"].cookie
           /\ Answers(t, "logout", Refused)
           /\ stale' = stale /\ theft' = theft /\ played' = played
           /\ faults' = faults /\ cookie' = cookie /\ stored' = stored
           /\ token' = token /\ status' = status /\ shown' = shown
           /\ refreshing' = refreshing /\ req' = req /\ met' = met
<1>1. Refused \in {Broken, Lost} \cup (0 .. Len(sessions)) /\ Len(sessions) >= Len(sessions)
        /\ Len(sessions) \in Nat
  BY SessionsTyped DEF Refused
<1>2. Answered(t, "logout", Refused) /\ sessions' = Revoked({auth[t]["logout"].cookie})
  BY DEF ServeLogout
<1>3. Answers(t, "logout", Refused)
  BY <1>1, <1>2, CallIsAnswered DEF AuthKind
<1>4. auth[t]["logout"].cookie \in 0 .. Len(sessions)
  BY CellTyped, TypedNow DEF AuthKind
<1> QED
  BY <1>2, <1>3, <1>4, RevokedRows DEF ServeLogout, browser

LEMMA AuthFailsStep ==
    ASSUME TypeOK, NEW t \in Tab, NEW k \in AuthKind, AuthFails(t, k)
    PROVE  /\ auth[t][k].at \in {"sent", "answered"}
           /\ Answers(t, k, Lost) \/ Answers(t, k, Broken)
           /\ "logoutLost" \in met' <=> "logoutLost" \in met \/ k = "logout"
           /\ "lost" \in met' <=> "lost" \in met \/ k # "logout"
           /\ \A e \in Event \ {"lost", "logoutLost"} : e \in met' <=> e \in met
           /\ sessions' = sessions /\ stale' = stale /\ theft' = theft
           /\ played' = played /\ cookie' = cookie /\ stored' = stored
           /\ token' = token /\ status' = status /\ shown' = shown
           /\ refreshing' = refreshing /\ req' = req
<1>1. Answered(t, k, Lost) \/ Answered(t, k, Broken)
  BY DEF AuthFails
<1>2. Len(sessions) \in Nat /\ Len(sessions) >= Len(sessions)
  BY SessionsTyped
<1>3. Answers(t, k, Lost) \/ Answers(t, k, Broken)
  BY <1>1, <1>2, CallIsAnswered
<1> QED
  BY <1>3 DEF AuthFails, browser, Event

\* The server's side of a request.
LEMMA ServeRequestStep ==
    ASSUME TypeOK, NEW r \in Request, ServeRequest(r) \/ RequestLost(r)
    PROVE  /\ req[r].at = "sent" /\ Moves(r, Back("over"))
           /\ sessions' = sessions /\ stale' = stale /\ theft' = theft
           /\ cookie' = cookie /\ stored' = stored /\ token' = token
           /\ status' = status /\ shown' = shown /\ refreshing' = refreshing
           /\ auth' = auth /\ met' = met
BY TypedNow DEF ServeRequest, RequestLost, Moves, browser

LEMMA RefuseStep ==
    ASSUME TypeOK, NEW r \in Request, RefuseRequest(r)
    PROVE  /\ req[r].at = "sent" /\ Moves(r, At(r, "401"))
           /\ Valid(r) => ~JustIssued(req[r].bearer)
           /\ stale' = stale \cup ({req[r].bearer} \ {0})
           /\ sessions' = sessions /\ theft' = theft /\ played' = played
           /\ faults' = faults /\ cookie' = cookie /\ stored' = stored
           /\ token' = token /\ status' = status /\ shown' = shown
           /\ refreshing' = refreshing /\ auth' = auth /\ met' = met
BY TypedNow DEF RefuseRequest, Moves, At, browser

\* The clock.
LEMMA ExpireStep ==
    ASSUME ExpireCookie
    PROVE  /\ \A t \in Tab, k \in AuthKind : ~InFlight(t, k)
           /\ cookie # 0 /\ cookie' = 0
           /\ met' = met \cup {"expired"}
           /\ sessions' = sessions /\ stale' = stale /\ theft' = theft
           /\ played' = played /\ stored' = stored
           /\ token' = token /\ status' = status /\ shown' = shown
           /\ refreshing' = refreshing /\ auth' = auth /\ req' = req
BY DEF ExpireCookie, calls

\* And the steps of others.
LEMMA StutterStep ==
    ASSUME UNCHANGED vars
    PROVE  /\ sessions' = sessions /\ stale' = stale /\ theft' = theft
           /\ played' = played /\ faults' = faults /\ cookie' = cookie
           /\ stored' = stored /\ token' = token /\ status' = status
           /\ shown' = shown /\ refreshing' = refreshing /\ auth' = auth
           /\ req' = req /\ met' = met
BY DEF vars, server, browser, calls

\* A sign-in is under way as long as its call is.
LEMMA ShowingKept ==
    ASSUME TypeOK, RequestsInv, ShowingInv, [Next]_vars
    PROVE  ShowingInv'
<1>1. ASSUME NEW t \in Tab, NEW p \in Player, Connect(t, p)
      PROVE  ShowingInv'
  BY <1>1, ConnectStep, TypedNow
  DEF ShowingInv, Sets, InFlight, Sends, Answers, Ends, Others, AuthKind
<1>2. ASSUME NEW t \in Tab, SignedIn(t)
      PROVE  ShowingInv'
  BY <1>2, SignedInStep, TypedNow
  DEF ShowingInv, Sets, InFlight, Sends, Answers, Ends, Others, AuthKind
<1>3. ASSUME NEW t \in Tab, NotSignedIn(t)
      PROVE  ShowingInv'
  <2>1. shown[t] = Nobody
    BY <1>3, NotSignedInStep DEF ShowingInv
  <2>2. Ends(t, "verify") /\ Sets(status', status, t, "failed") /\ shown' = shown
    BY <1>3, NotSignedInStep
  <2> QED
    BY <2>1, <2>2 DEF ShowingInv, Sets, InFlight, Sends, Answers, Ends, Others, AuthKind
<1>4. ASSUME NEW t \in Tab, Disconnect(t)
      PROVE  ShowingInv'
  BY <1>4, DisconnectStep, TypedNow
  DEF ShowingInv, Sets, InFlight, Sends, Answers, Ends, Others, AuthKind
<1>5. ASSUME NEW t \in Tab, SignedOut(t)
      PROVE  ShowingInv'
  <2>1. auth'[t]["logout"].at = "none" /\ Others(t, "logout") /\ status' = status /\ shown' = shown
    BY <1>5, SignedOutStep DEF Ends
  <2> QED
    BY <2>1 DEF ShowingInv, Others, AuthKind
<1>6. ASSUME NEW t \in Tab, Reload(t)
      PROVE  ShowingInv'
  BY <1>6, ReloadStep, TypedNow
  DEF ShowingInv, Sets, InFlight, Sends, Answers, Ends, Others, AuthKind
<1>7. ASSUME NEW t \in Tab, RefreshSucceeds(t)
      PROVE  ShowingInv'
  <2>1. auth'[t]["refresh"].at = "none" /\ Others(t, "refresh") /\ status' = status /\ shown' = shown
    BY <1>7, RefreshSucceedsStep DEF Ends
  <2> QED
    BY <2>1 DEF ShowingInv, Others, AuthKind
<1>8. ASSUME NEW t \in Tab, RefreshRefused(t)
      PROVE  ShowingInv'
  <2>1. auth'[t]["refresh"].at = "none" /\ Others(t, "refresh") /\ status' = status /\ shown' = shown
    BY <1>8, RefreshRefusedStep DEF Ends
  <2> QED
    BY <2>1 DEF ShowingInv, Others, AuthKind
<1>9. ASSUME NEW t \in Tab, RefreshLost(t)
      PROVE  ShowingInv'
  <2>1. auth'[t]["refresh"].at = "none" /\ Others(t, "refresh") /\ status' = status /\ shown' = shown
    BY <1>9, RefreshLostStep DEF Ends
  <2> QED
    BY <2>1 DEF ShowingInv, Others, AuthKind
<1>10. ASSUME NEW t \in Tab, Forget(t)
      PROVE  ShowingInv'
  BY <1>10, ForgetStep, TypedNow
  DEF ShowingInv, Sets, InFlight, Sends, Answers, Ends, Others, AuthKind
<1>11. ASSUME NEW t \in Tab, NEW r \in Request, Send(t, r)
      PROVE  ShowingInv'
  BY <1>11, SendStep, TypedNow
  DEF ShowingInv, Sets, InFlight, Sends, Answers, Ends, Others, AuthKind
<1>12. ASSUME NEW r \in Request, ReturnUnauthorized(r)
      PROVE  ShowingInv'
  BY <1>12, ReturnStep, TypedNow
  DEF ShowingInv, Sets, InFlight, Sends, Answers, Ends, Others, AuthKind
<1>13. ASSUME NEW r \in Request, TryRefresh(r)
      PROVE  ShowingInv'
  <2>1. PICK t \in Tab : auth'[t]["refresh"].at = "sent" /\ Others(t, "refresh")
    BY <1>13, TryRefreshStep DEF Sends
  <2>2. status' = status /\ shown' = shown
    BY <1>13, TryRefreshStep
  <2> QED
    BY <2>1, <2>2 DEF ShowingInv, Others, AuthKind
<1>14. ASSUME NEW r \in Request, ShareRefresh(r)
      PROVE  ShowingInv'
  BY <1>14, ShareRefreshStep, TypedNow
  DEF ShowingInv, Sets, InFlight, Sends, Answers, Ends, Others, AuthKind
<1>15. ASSUME NEW t \in Tab, IssueSession(t)
      PROVE  ShowingInv'
  <2>1. /\ auth[t]["verify"].at = "sent" /\ auth[t]["verify"].player \in Player
        /\ \E n : Answers(t, "verify", n)
        /\ status' = status /\ shown' = shown
    BY <1>15, ServeVerifyStep
  <2> QED
    BY <2>1 DEF ShowingInv, InFlight, Sends, Answers, Ends, Others, AuthKind
<1>16. ASSUME NEW t \in Tab, ServeRefresh(t)
      PROVE  ShowingInv'
  <2>1. auth'[t]["refresh"].at = "answered" /\ Others(t, "refresh") /\ status' = status /\ shown' = shown
    BY <1>16, ServeRefreshStep DEF Answers
  <2> QED
    BY <2>1 DEF ShowingInv, Others, AuthKind
<1>17. ASSUME NEW t \in Tab, ServeLogout(t)
      PROVE  ShowingInv'
  <2>1. auth'[t]["logout"].at = "answered" /\ Others(t, "logout") /\ status' = status /\ shown' = shown
    BY <1>17, ServeLogoutStep DEF Answers
  <2> QED
    BY <2>1 DEF ShowingInv, Others, AuthKind
<1>18. ASSUME NEW t \in Tab, NEW k \in AuthKind, AuthFails(t, k)
      PROVE  ShowingInv'
  <2>1. /\ auth[t][k].at # "none"
        /\ \E n : Answers(t, k, n)
        /\ status' = status /\ shown' = shown
    BY <1>18, AuthFailsStep
  <2> QED
    BY <2>1 DEF ShowingInv, InFlight, Sends, Answers, Ends, Others, AuthKind
<1>19. ASSUME NEW r \in Request, ServeRequest(r) \/ RequestLost(r)
      PROVE  ShowingInv'
  BY <1>19, ServeRequestStep, TypedNow
  DEF ShowingInv, Sets, InFlight, Sends, Answers, Ends, Others, AuthKind
<1>20. ASSUME NEW r \in Request, RefuseRequest(r)
      PROVE  ShowingInv'
  BY <1>20, RefuseStep, TypedNow
  DEF ShowingInv, Sets, InFlight, Sends, Answers, Ends, Others, AuthKind
<1>21. ASSUME ExpireCookie
      PROVE  ShowingInv'
  BY <1>21, ExpireStep, TypedNow
  DEF ShowingInv, Sets, InFlight, Sends, Answers, Ends, Others, AuthKind
<1>22. ASSUME UNCHANGED vars
      PROVE  ShowingInv'
  BY <1>22, StutterStep, TypedNow
  DEF ShowingInv, Sets, InFlight, Sends, Answers, Ends, Others, AuthKind
<1>23. ASSUME NEW t \in Tab, Sign(t)
      PROVE  ShowingInv'
  <2>1. /\ auth[t]["verify"].at = "signing" /\ auth'[t]["verify"].at = "sent"
        /\ auth'[t]["verify"].player = auth[t]["verify"].player /\ Others(t, "verify")
        /\ status' = status /\ shown' = shown
    BY <1>23, SignStep DEF Sends
  <2> QED
    BY <2>1 DEF ShowingInv, Others, AuthKind
<1>24. ASSUME NEW t \in Tab, NotSigned(t)
      PROVE  ShowingInv'
  <2>1. shown[t] = Nobody
    BY <1>24, NotSignedStep DEF ShowingInv
  <2>2. Ends(t, "verify") /\ Sets(status', status, t, "failed") /\ shown' = shown
    BY <1>24, NotSignedStep
  <2> QED
    BY <2>1, <2>2 DEF ShowingInv, Sets, InFlight, Sends, Answers, Ends, Others, AuthKind
<1>25. ASSUME NEW t \in Tab, RefuseVerify(t)
      PROVE  ShowingInv'
  <2>1. /\ auth[t]["verify"].at = "sent" /\ auth'[t]["verify"].at = "answered"
        /\ auth'[t]["verify"].player = auth[t]["verify"].player /\ Others(t, "verify")
        /\ status' = status /\ shown' = shown
    BY <1>25, RefuseVerifyStep DEF Answers
  <2> QED
    BY <2>1 DEF ShowingInv, Others, AuthKind
<1> QED
  BY <1>1, <1>2, <1>3, <1>4, <1>5, <1>6, <1>7, <1>8, <1>9, <1>10, <1>11,
     <1>12, <1>13, <1>14, <1>15, <1>16, <1>17, <1>18, <1>19, <1>20, <1>21, <1>22,
     <1>23, <1>24, <1>25, VerifySplits
  DEF Next, InBrowser, AtServer

\* The shared refresh is pending exactly while its call and its waiters are
\* there.
LEMMA SharingKept ==
    ASSUME TypeOK, RequestsInv, ShowingInv, SharingInv, [Next]_vars
    PROVE  SharingInv'
<1> DEFINE SameFlights == \A u \in Tab : InFlight(u, "refresh")' <=> InFlight(u, "refresh")
          SameWaiters == \A q \in Request :
              /\ req'[q].at = "waiting" <=> req[q].at = "waiting"
              /\ req[q].at = "waiting" => req'[q].tab = req[q].tab
<1>a. ASSUME refreshing' = refreshing, SameFlights, SameWaiters
      PROVE  SharingInv'
  BY <1>a DEF SharingInv
<1>b. ASSUME NEW t \in Tab, Ends(t, "refresh"),
             \A u \in Tab : u # t => refreshing'[u] = refreshing[u], refreshing'[t] # "pending",
             \A q \in Request : IF req[q].tab = t /\ req[q].at = "waiting"
                               THEN req'[q].at # "waiting" ELSE req'[q] = req[q]
      PROVE  SharingInv'
  <2>1. ASSUME NEW u \in Tab, u # t
        PROVE  (\E q \in Request : req'[q].at = "waiting" /\ req'[q].tab = u) <=>
                  \E q \in Request : req[q].at = "waiting" /\ req[q].tab = u
    BY <1>b, <2>1
  <2>2. ~\E q \in Request : req'[q].at = "waiting" /\ req'[q].tab = t
    BY <1>b
  <2> QED
    BY <1>b, <2>1, <2>2 DEF SharingInv, InFlight, Ends, Others, AuthKind
<1>1. ASSUME NEW t \in Tab, NEW p \in Player, Connect(t, p)
      PROVE  SharingInv'
  <2>1. SameFlights
    BY <1>1, ConnectStep DEF InFlight, Sends, Answers, Ends, Others, AuthKind
  <2> QED
    BY <1>1, ConnectStep, <1>a, <2>1
<1>2. ASSUME NEW t \in Tab, SignedIn(t)
      PROVE  SharingInv'
  <2>1. SameFlights
    BY <1>2, SignedInStep DEF InFlight, Sends, Answers, Ends, Others, AuthKind
  <2> QED
    BY <1>2, SignedInStep, <1>a, <2>1
<1>3. ASSUME NEW t \in Tab, NotSignedIn(t)
      PROVE  SharingInv'
  <2>1. SameFlights
    BY <1>3, NotSignedInStep DEF InFlight, Sends, Answers, Ends, Others, AuthKind
  <2> QED
    BY <1>3, NotSignedInStep, <1>a, <2>1
<1>4. ASSUME NEW t \in Tab, Disconnect(t)
      PROVE  SharingInv'
  <2>1. SameFlights
    BY <1>4, DisconnectStep DEF InFlight, Sends, Answers, Ends, Others, AuthKind
  <2> QED
    BY <1>4, DisconnectStep, <1>a, <2>1
<1>5. ASSUME NEW t \in Tab, SignedOut(t)
      PROVE  SharingInv'
  <2>1. SameFlights
    BY <1>5, SignedOutStep DEF InFlight, Sends, Answers, Ends, Others, AuthKind
  <2> QED
    BY <1>5, SignedOutStep, <1>a, <2>1
<1>6. ASSUME NEW t \in Tab, Reload(t)
      PROVE  SharingInv'
  <2>1. /\ SameFlights /\ ~InFlight(t, "refresh")
        /\ \A u \in Tab : refreshing'[u] = IF u = t THEN "null" ELSE refreshing[u]
    BY <1>6, ReloadStep DEF Sets, FlightsStay, InFlight, AuthKind
  <2>2. \A q \in Request : /\ req'[q].at = "waiting" => req'[q] = req[q]
                           /\ req[q].at = "waiting" /\ req[q].tab # t => req'[q] = req[q]
                           /\ req[q].at = "waiting" /\ req[q].tab = t => req'[q].at = "over"
    BY <1>6, ReloadStep, BackForm
  <2> QED
    BY <2>1, <2>2 DEF SharingInv
<1>7. ASSUME NEW t \in Tab, RefreshSucceeds(t)
      PROVE  SharingInv'
  <2>1. /\ auth[t]["refresh"].got \in Number /\ Ends(t, "refresh")
        /\ Sets(refreshing', refreshing, t, "true")
        /\ \A q \in Request : req'[q] = IF req[q].tab = t /\ req[q].at = "waiting"
                                        THEN Replayed(q, auth[t]["refresh"].got) ELSE req[q]
    BY <1>7, RefreshSucceedsStep, CellTyped, TypedNow DEF AuthKind
  <2>2. \A q \in Request : IF req[q].tab = t /\ req[q].at = "waiting"
                             THEN req'[q].at # "waiting" ELSE req'[q] = req[q]
    BY <2>1, ReplayForm
  <2> QED
    BY <1>b, <2>1, <2>2 DEF Sets
<1>8. ASSUME NEW t \in Tab, RefreshRefused(t)
      PROVE  SharingInv'
  <2>1. /\ Ends(t, "refresh") /\ Sets(refreshing', refreshing, t, "false")
        /\ \A q \in Request : IF req[q].tab = t /\ req[q].at = "waiting"
                               THEN req'[q].at # "waiting" ELSE req'[q] = req[q]
    BY <1>8, RefreshRefusedStep, BackForm
  <2> QED
    BY <1>b, <2>1 DEF Sets
<1>9. ASSUME NEW t \in Tab, RefreshLost(t)
      PROVE  SharingInv'
  <2>1. /\ Ends(t, "refresh") /\ Sets(refreshing', refreshing, t, "false")
        /\ \A q \in Request : IF req[q].tab = t /\ req[q].at = "waiting"
                               THEN req'[q].at # "waiting" ELSE req'[q] = req[q]
    BY <1>9, RefreshLostStep, BackForm
  <2> QED
    BY <1>b, <2>1 DEF Sets
<1>10. ASSUME NEW t \in Tab, Forget(t)
      PROVE  SharingInv'
  <2>1. refreshing[t] \in {"true", "false"} /\ auth' = auth /\ req' = req
        /\ \A u \in Tab : refreshing'[u] = IF u = t THEN "null" ELSE refreshing[u]
    BY <1>10, ForgetStep DEF Sets
  <2> QED
    BY <2>1 DEF SharingInv, InFlight
<1>11. ASSUME NEW t \in Tab, NEW r \in Request, Send(t, r)
      PROVE  SharingInv'
  <2>1. SameWaiters
    BY <1>11, SendStep, BackForm, ReplayForm, AtForm DEF Moves
  <2>2. SameFlights
    BY <1>11, SendStep DEF InFlight
  <2> QED
    BY <1>11, SendStep, <1>a, <2>1, <2>2
<1>12. ASSUME NEW r \in Request, ReturnUnauthorized(r)
      PROVE  SharingInv'
  <2>1. SameWaiters
    BY <1>12, ReturnStep, BackForm, ReplayForm, AtForm DEF Moves
  <2>2. SameFlights
    BY <1>12, ReturnStep DEF InFlight
  <2> QED
    BY <1>12, ReturnStep, <1>a, <2>1, <2>2
<1>13. ASSUME NEW r \in Request, TryRefresh(r)
      PROVE  SharingInv'
  <2> DEFINE t == req[r].tab
  <2>1. /\ t \in Tab /\ Sets(refreshing', refreshing, t, "pending") /\ Sends(t, "refresh", Nobody)
        /\ refreshing[t] = "null" /\ Moves(r, At(r, "waiting"))
    BY <1>13, TryRefreshStep
  <2>2. /\ req'[r].at = "waiting" /\ req'[r].tab = t
        /\ \A q \in Request : q # r => req'[q] = req[q]
    BY <2>1, AtForm DEF Moves
  <2>4. \A q \in Request : req'[q].at = "waiting" /\ req'[q].tab # t => req'[q] = req[q]
    BY <2>2
  <2>5. \A q \in Request : req[q].at = "waiting" /\ req[q].tab # t => req'[q] = req[q]
    BY <2>2
  <2> HIDE DEF t
  <2>3. ASSUME NEW u \in Tab, u # t
        PROVE  (\E q \in Request : req'[q].at = "waiting" /\ req'[q].tab = u) <=>
                  \E q \in Request : req[q].at = "waiting" /\ req[q].tab = u
    BY <2>3, <2>4, <2>5
  <2> QED
    BY <2>1, <2>2, <2>3 DEF SharingInv, Sets, InFlight, Sends, Answers, Ends, Others, AuthKind
<1>14. ASSUME NEW r \in Request, ShareRefresh(r)
      PROVE  SharingInv'
  <2> DEFINE t == req[r].tab
  <2>1. /\ t \in Tab /\ req[r].at = "401" /\ refreshing' = refreshing /\ auth' = auth
        /\ GetToken(t) \in Number /\ refreshing[t] \in {"pending", "true"}
        /\ refreshing[t] = "true" => Moves(r, Replayed(r, GetToken(t)))
        /\ refreshing[t] # "true" => Moves(r, At(r, "waiting"))
    BY <1>14, ShareRefreshStep
  <2>2. /\ req'[r].at = "waiting" <=> refreshing[t] = "pending"
        /\ req'[r].tab = t
        /\ \A q \in Request : q # r => req'[q] = req[q]
    BY <2>1, AtForm, ReplayForm DEF Moves
  <2> HIDE DEF t
  <2>3. ASSUME NEW u \in Tab
        PROVE  (\E q \in Request : req'[q].at = "waiting" /\ req'[q].tab = u) <=>
                  \E q \in Request : req[q].at = "waiting" /\ req[q].tab = u
    <3>1. req[r].tab = t
      BY DEF t
    <3> QED
      BY <2>1, <2>2, <2>3, <3>1 DEF SharingInv
  <2> QED
    BY <2>1, <2>3 DEF SharingInv, InFlight
<1>15. ASSUME NEW t \in Tab, IssueSession(t)
      PROVE  SharingInv'
  <2>1. SameFlights
    BY <1>15, ServeVerifyStep DEF InFlight, Sends, Answers, Ends, Others, AuthKind
  <2> QED
    BY <1>15, ServeVerifyStep, <1>a, <2>1
<1>16. ASSUME NEW t \in Tab, ServeRefresh(t)
      PROVE  SharingInv'
  <2>1. SameFlights
    BY <1>16, ServeRefreshStep DEF InFlight, Sends, Answers, Ends, Others, AuthKind
  <2> QED
    BY <1>16, ServeRefreshStep, <1>a, <2>1
<1>17. ASSUME NEW t \in Tab, ServeLogout(t)
      PROVE  SharingInv'
  <2>1. SameFlights
    BY <1>17, ServeLogoutStep DEF InFlight, Sends, Answers, Ends, Others, AuthKind
  <2> QED
    BY <1>17, ServeLogoutStep, <1>a, <2>1
<1>18. ASSUME NEW t \in Tab, NEW k \in AuthKind, AuthFails(t, k)
      PROVE  SharingInv'
  <2>1. SameFlights
    BY <1>18, AuthFailsStep DEF InFlight, Sends, Answers, Ends, Others, AuthKind
  <2> QED
    BY <1>18, AuthFailsStep, <1>a, <2>1
<1>19. ASSUME NEW r \in Request, ServeRequest(r) \/ RequestLost(r)
      PROVE  SharingInv'
  <2>1. SameWaiters
    BY <1>19, ServeRequestStep, BackForm, ReplayForm, AtForm DEF Moves
  <2>2. SameFlights
    BY <1>19, ServeRequestStep DEF InFlight
  <2> QED
    BY <1>19, ServeRequestStep, <1>a, <2>1, <2>2
<1>20. ASSUME NEW r \in Request, RefuseRequest(r)
      PROVE  SharingInv'
  <2>1. SameWaiters
    BY <1>20, RefuseStep, BackForm, ReplayForm, AtForm DEF Moves
  <2>2. SameFlights
    BY <1>20, RefuseStep DEF InFlight
  <2> QED
    BY <1>20, RefuseStep, <1>a, <2>1, <2>2
<1>21. ASSUME ExpireCookie
      PROVE  SharingInv'
  <2>1. SameFlights
    BY <1>21, ExpireStep DEF InFlight, Sends, Answers, Ends, Others, AuthKind
  <2> QED
    BY <1>21, ExpireStep, <1>a, <2>1
<1>22. ASSUME UNCHANGED vars
      PROVE  SharingInv'
  <2>1. SameFlights
    BY <1>22, StutterStep DEF InFlight, Sends, Answers, Ends, Others, AuthKind
  <2> QED
    BY <1>22, StutterStep, <1>a, <2>1
<1>23. ASSUME NEW t \in Tab, Sign(t)
      PROVE  SharingInv'
  <2>1. SameFlights
    BY <1>23, SignStep DEF InFlight, Sends, Answers, Ends, Others, AuthKind
  <2> QED
    BY <1>23, SignStep, <1>a, <2>1
<1>24. ASSUME NEW t \in Tab, NotSigned(t)
      PROVE  SharingInv'
  <2>1. SameFlights
    BY <1>24, NotSignedStep DEF InFlight, Sends, Answers, Ends, Others, AuthKind
  <2> QED
    BY <1>24, NotSignedStep, <1>a, <2>1
<1>25. ASSUME NEW t \in Tab, RefuseVerify(t)
      PROVE  SharingInv'
  <2>1. SameFlights
    BY <1>25, RefuseVerifyStep DEF InFlight, Sends, Answers, Ends, Others, AuthKind
  <2> QED
    BY <1>25, RefuseVerifyStep, <1>a, <2>1
<1> QED
  BY <1>1, <1>2, <1>3, <1>4, <1>5, <1>6, <1>7, <1>8, <1>9, <1>10, <1>11,
     <1>12, <1>13, <1>14, <1>15, <1>16, <1>17, <1>18, <1>19, <1>20, <1>21, <1>22,
     <1>23, <1>24, <1>25, VerifySplits
  DEF Next, InBrowser, AtServer

\* A failed answer is on record, and a sign-in's session is of the player who
\* signed.
LEMMA AnswersKept ==
    ASSUME TypeOK, RequestsInv, ShowingInv, AnswersInv, [Next]_vars
    PROVE  AnswersInv'
<1>a. ASSUME met' = met, Len(sessions) \in Nat,
             \A n \in 1 .. Len(sessions) : sessions'[n].player = sessions[n].player,
             NEW t \in Tab, NEW k \in AuthKind, NEW got \in Nat, Answers(t, k, got),
             auth[t][k].at = "sent",
             k = "verify" /\ got # Refused => sessions'[got].player = auth[t][k].player,
             k # "logout"
      PROVE  AnswersInv'
  <2>1. ASSUME NEW u \in Tab, NEW l \in AuthKind, auth'[u][l].at = "answered"
        PROVE  /\ auth'[u][l].got \in {Lost, Broken} =>
                     (IF l = "logout" THEN "logoutLost" ELSE "lost") \in met'
               /\ l = "verify" /\ auth'[u][l].got > 0 =>
                     sessions'[auth'[u][l].got].player = auth'[u][l].player
               /\ l = "logout" => auth'[u][l].got <= 0
    <3>1. CASE u = t /\ l = k
      <4>1. auth'[u][l].got = got /\ auth'[u][l].player = auth[t][k].player
              /\ l # "logout" /\ got \notin {Lost, Broken}
        <5>1. got \notin {Lost, Broken}
          BY <1>a DEF Lost, Broken
        <5>2. auth'[t][k].got = got /\ auth'[t][k].player = auth[t][k].player
          BY <1>a DEF Answers
        <5>3. k # "logout" /\ u = t /\ l = k
          BY <1>a, <3>1
        <5> QED
          BY <5>1, <5>2, <5>3
      <4>2. auth'[u][l].got \in {Lost, Broken} =>
               (IF l = "logout" THEN "logoutLost" ELSE "lost") \in met'
        BY <4>1
      <4>3. l = "verify" /\ auth'[u][l].got > 0 =>
               sessions'[auth'[u][l].got].player = auth'[u][l].player
        BY <1>a, <3>1, <4>1 DEF Refused
      <4>4. l = "logout" => auth'[u][l].got <= 0
        BY <4>1
      <4> QED
        BY <4>2, <4>3, <4>4
    <3>2. CASE ~(u = t /\ l = k)
      <4>1. auth'[u][l] = auth[u][l]
        BY <1>a, <3>2 DEF Answers, Others
      <4> QED
        BY <1>a, <2>1, <4>1, CellTyped DEF AnswersInv
    <3> QED
      BY <3>1, <3>2
  <2> QED
    BY <1>a, <2>1 DEF AnswersInv, InFlight, Answers, Others, AuthKind
<1>1. ASSUME NEW t \in Tab, NEW p \in Player, Connect(t, p)
      PROVE  AnswersInv'
  BY <1>1, ConnectStep, CellTyped
  DEF AnswersInv, Marks, Event, Refused, Lost, Broken, InFlight, Sends, Answers, Ends,
      Others, AuthKind
<1>2. ASSUME NEW t \in Tab, SignedIn(t)
      PROVE  AnswersInv'
  BY <1>2, SignedInStep, CellTyped
  DEF AnswersInv, Marks, Event, Refused, Lost, Broken, InFlight, Sends, Answers, Ends,
      Others, AuthKind
<1>3. ASSUME NEW t \in Tab, NotSignedIn(t)
      PROVE  AnswersInv'
  BY <1>3, NotSignedInStep, CellTyped
  DEF AnswersInv, Marks, Event, Refused, Lost, Broken, InFlight, Sends, Answers, Ends,
      Others, AuthKind
<1>4. ASSUME NEW t \in Tab, Disconnect(t)
      PROVE  AnswersInv'
  BY <1>4, DisconnectStep, CellTyped
  DEF AnswersInv, Marks, Event, Refused, Lost, Broken, InFlight, Sends, Answers, Ends,
      Others, AuthKind
<1>5. ASSUME NEW t \in Tab, SignedOut(t)
      PROVE  AnswersInv'
  BY <1>5, SignedOutStep, CellTyped
  DEF AnswersInv, Marks, Event, Refused, Lost, Broken, InFlight, Sends, Answers, Ends,
      Others, AuthKind
<1>6. ASSUME NEW t \in Tab, Reload(t)
      PROVE  AnswersInv'
  BY <1>6, ReloadStep, CellTyped
  DEF AnswersInv, Marks, Event, Refused, Lost, Broken, InFlight, Sends, Answers, Ends,
      Others, AuthKind
<1>7. ASSUME NEW t \in Tab, RefreshSucceeds(t)
      PROVE  AnswersInv'
  BY <1>7, RefreshSucceedsStep
  DEF AnswersInv, InFlight, Ends, Others, AuthKind
<1>8. ASSUME NEW t \in Tab, RefreshRefused(t)
      PROVE  AnswersInv'
  BY <1>8, RefreshRefusedStep, CellTyped
  DEF AnswersInv, Marks, Event, Refused, Lost, Broken, InFlight, Sends, Answers, Ends,
      Others, AuthKind
<1>9. ASSUME NEW t \in Tab, RefreshLost(t)
      PROVE  AnswersInv'
  BY <1>9, RefreshLostStep, CellTyped
  DEF AnswersInv, Marks, Event, Refused, Lost, Broken, InFlight, Sends, Answers, Ends,
      Others, AuthKind
<1>10. ASSUME NEW t \in Tab, Forget(t)
      PROVE  AnswersInv'
  BY <1>10, ForgetStep, CellTyped
  DEF AnswersInv, Marks, Event, Refused, Lost, Broken, InFlight, Sends, Answers, Ends,
      Others, AuthKind
<1>11. ASSUME NEW t \in Tab, NEW r \in Request, Send(t, r)
      PROVE  AnswersInv'
  BY <1>11, SendStep, CellTyped
  DEF AnswersInv, Marks, Event, Refused, Lost, Broken, InFlight, Sends, Answers, Ends,
      Others, AuthKind
<1>12. ASSUME NEW r \in Request, ReturnUnauthorized(r)
      PROVE  AnswersInv'
  BY <1>12, ReturnStep, CellTyped
  DEF AnswersInv, Marks, Event, Refused, Lost, Broken, InFlight, Sends, Answers, Ends,
      Others, AuthKind
<1>13. ASSUME NEW r \in Request, TryRefresh(r)
      PROVE  AnswersInv'
  BY <1>13, TryRefreshStep
  DEF AnswersInv, Marks, Event, InFlight, Sends, Others, AuthKind
<1>14. ASSUME NEW r \in Request, ShareRefresh(r)
      PROVE  AnswersInv'
  BY <1>14, ShareRefreshStep, CellTyped
  DEF AnswersInv, Marks, Event, Refused, Lost, Broken, InFlight, Sends, Answers, Ends,
      Others, AuthKind
<1>15. ASSUME NEW t \in Tab, IssueSession(t)
      PROVE  AnswersInv'
  <2>1. Len(sessions) \in Nat /\ Len(sessions) + 1 # Refused
    BY SessionsTyped DEF Refused
  <2>2. /\ Answers(t, "verify", Len(sessions) + 1) /\ auth[t]["verify"].at = "sent"
        /\ sessions'[Len(sessions) + 1].player = auth[t]["verify"].player
        /\ met' = met
        /\ \A n \in 1 .. Len(sessions) : sessions'[n].player = sessions[n].player
    BY <1>15, ServeVerifyStep
  <2>3. Len(sessions) + 1 \in Nat /\ "verify" \in AuthKind
    BY <2>1 DEF AuthKind
  <2> QED
    BY <1>a, <2>1, <2>2, <2>3
<1>16. ASSUME NEW t \in Tab, ServeRefresh(t)
      PROVE  AnswersInv'
  <2>1. Len(sessions) \in Nat /\ Refused \in Nat
    BY SessionsTyped DEF Refused
  <2>2. PICK got \in {Refused, Len(sessions) + 1} : Answers(t, "refresh", got)
    BY <1>16, ServeRefreshStep
  <2>3. \A n \in 1 .. Len(sessions) : sessions'[n].player = sessions[n].player
    BY <1>16, ServeRefreshStep
  <2> QED
    BY <1>16, ServeRefreshStep, <1>a, <2>1, <2>2, <2>3 DEF AuthKind
<1>17. ASSUME NEW t \in Tab, ServeLogout(t)
      PROVE  AnswersInv'
  <2>1. /\ auth[t]["logout"].at = "sent" /\ met' = met /\ "logout" \in AuthKind
        /\ auth'[t]["logout"].got = Refused /\ Others(t, "logout")
        /\ \A n \in 1 .. Len(sessions) : sessions'[n].player = sessions[n].player
    BY <1>17, ServeLogoutStep DEF Answers, AuthKind
  <2>2. Refused \notin {Lost, Broken} /\ Refused <= 0
    BY DEF Refused, Lost, Broken
  <2> QED
    BY <2>1, <2>2, CellTyped DEF AnswersInv, InFlight, Others
<1>18. ASSUME NEW t \in Tab, NEW k \in AuthKind, AuthFails(t, k)
      PROVE  AnswersInv'
  <2>1. /\ InFlight(t, k) /\ sessions' = sessions
        /\ auth'[t][k].got \in {Lost, Broken} /\ Others(t, k)
        /\ "logoutLost" \in met' <=> "logoutLost" \in met \/ k = "logout"
        /\ "lost" \in met' <=> "lost" \in met \/ k # "logout"
        /\ "signedOut" \in met' <=> "signedOut" \in met
    BY <1>18, AuthFailsStep DEF Answers, InFlight, Event
  <2>2. \A got \in {Lost, Broken} : got < 0 /\ got # Refused
    BY DEF Refused, Lost, Broken
  <2>3. met \subseteq met'
    BY <1>18 DEF AuthFails
  <2>4. ASSUME NEW u \in Tab, NEW l \in AuthKind, auth'[u][l].at = "answered"
        PROVE  /\ auth'[u][l].got \in {Lost, Broken} =>
                     (IF l = "logout" THEN "logoutLost" ELSE "lost") \in met'
               /\ l = "verify" /\ auth'[u][l].got > 0 =>
                     sessions'[auth'[u][l].got].player = auth'[u][l].player
               /\ l = "logout" => auth'[u][l].got <= 0
    <3>1. CASE u = t /\ l = k
      <4>1. auth'[u][l].got < 0 /\ auth'[u][l].got # Refused
        BY <2>1, <2>2, <3>1
      <4>2. (IF l = "logout" THEN "logoutLost" ELSE "lost") \in met'
        BY <2>1, <3>1
      <4>3. ~(auth'[u][l].got > 0) /\ auth'[u][l].got <= 0
        BY <2>1, <3>1 DEF Lost, Broken
      <4> QED
        BY <4>1, <4>2, <4>3
    <3>2. CASE ~(u = t /\ l = k)
      <4>1. auth'[u][l] = auth[u][l]
        BY <2>1, <3>2 DEF Others
      <4> QED
        BY <2>1, <2>3, <2>4, <4>1 DEF AnswersInv
    <3> QED
      BY <3>1, <3>2
  <2>5. \A u \in Tab : InFlight(u, "logout")' => InFlight(u, "logout")
    BY <2>1 DEF InFlight, Others, AuthKind
  <2>6. (\A u \in Tab : InFlight(u, "logout")' => "signedOut" \in met')
        /\ ("logoutLost" \in met' => "signedOut" \in met')
    BY <2>1, <2>5 DEF AnswersInv
  <2> QED
    BY <2>4, <2>6 DEF AnswersInv
<1>19. ASSUME NEW r \in Request, ServeRequest(r) \/ RequestLost(r)
      PROVE  AnswersInv'
  BY <1>19, ServeRequestStep, CellTyped
  DEF AnswersInv, Marks, Event, Refused, Lost, Broken, InFlight, Sends, Answers, Ends,
      Others, AuthKind
<1>20. ASSUME NEW r \in Request, RefuseRequest(r)
      PROVE  AnswersInv'
  BY <1>20, RefuseStep, CellTyped
  DEF AnswersInv, Marks, Event, Refused, Lost, Broken, InFlight, Sends, Answers, Ends,
      Others, AuthKind
<1>21. ASSUME ExpireCookie
      PROVE  AnswersInv'
  BY <1>21, ExpireStep, CellTyped
  DEF AnswersInv, Marks, Event, Refused, Lost, Broken, InFlight, Sends, Answers, Ends,
      Others, AuthKind
<1>22. ASSUME UNCHANGED vars
      PROVE  AnswersInv'
  BY <1>22, StutterStep, CellTyped
  DEF AnswersInv, Marks, Event, Refused, Lost, Broken, InFlight, Sends, Answers, Ends,
      Others, AuthKind
<1>23. ASSUME NEW t \in Tab, Sign(t)
      PROVE  AnswersInv'
  BY <1>23, SignStep, CellTyped
  DEF AnswersInv, Marks, Event, Refused, Lost, Broken, InFlight, Sends, Answers, Ends,
      Others, AuthKind
<1>24. ASSUME NEW t \in Tab, NotSigned(t)
      PROVE  AnswersInv'
  BY <1>24, NotSignedStep, CellTyped
  DEF AnswersInv, Marks, Event, Refused, Lost, Broken, InFlight, Sends, Answers, Ends,
      Others, AuthKind
<1>25. ASSUME NEW t \in Tab, RefuseVerify(t)
      PROVE  AnswersInv'
  <2>1. Len(sessions) \in Nat /\ Refused \in Nat /\ "verify" \in AuthKind
    BY SessionsTyped DEF Refused, AuthKind
  <2>2. Answers(t, "verify", Refused) /\ auth[t]["verify"].at = "sent"
        /\ met' = met /\ sessions' = sessions
    BY <1>25, RefuseVerifyStep
  <2> QED
    BY <1>a, <2>1, <2>2
<1> QED
  BY <1>1, <1>2, <1>3, <1>4, <1>5, <1>6, <1>7, <1>8, <1>9, <1>10, <1>11,
     <1>12, <1>13, <1>14, <1>15, <1>16, <1>17, <1>18, <1>19, <1>20, <1>21, <1>22,
     <1>23, <1>24, <1>25, VerifySplits
  DEF Next, InBrowser, AtServer

\* The cookie and localStorage are written together or cleared.
LEMMA CookieKept ==
    ASSUME TypeOK, RequestsInv, ShowingInv, CookieInv, [Next]_vars
    PROVE  CookieInv'
<1>1. ASSUME NEW t \in Tab, NEW p \in Player, Connect(t, p)
      PROVE  CookieInv'
  BY <1>1, ConnectStep DEF CookieInv
<1>2. ASSUME NEW t \in Tab, SignedIn(t)
      PROVE  CookieInv'
  BY <1>2, SignedInStep DEF CookieInv
<1>3. ASSUME NEW t \in Tab, NotSignedIn(t)
      PROVE  CookieInv'
  BY <1>3, NotSignedInStep DEF CookieInv
<1>4. ASSUME NEW t \in Tab, Disconnect(t)
      PROVE  CookieInv'
  BY <1>4, DisconnectStep DEF CookieInv
<1>5. ASSUME NEW t \in Tab, SignedOut(t)
      PROVE  CookieInv'
  BY <1>5, SignedOutStep DEF CookieInv
<1>6. ASSUME NEW t \in Tab, Reload(t)
      PROVE  CookieInv'
  BY <1>6, ReloadStep DEF CookieInv
<1>7. ASSUME NEW t \in Tab, RefreshSucceeds(t)
      PROVE  CookieInv'
  BY <1>7, RefreshSucceedsStep DEF CookieInv
<1>8. ASSUME NEW t \in Tab, RefreshRefused(t)
      PROVE  CookieInv'
  BY <1>8, RefreshRefusedStep DEF CookieInv
<1>9. ASSUME NEW t \in Tab, RefreshLost(t)
      PROVE  CookieInv'
  BY <1>9, RefreshLostStep DEF CookieInv
<1>10. ASSUME NEW t \in Tab, Forget(t)
      PROVE  CookieInv'
  BY <1>10, ForgetStep DEF CookieInv
<1>11. ASSUME NEW t \in Tab, NEW r \in Request, Send(t, r)
      PROVE  CookieInv'
  BY <1>11, SendStep DEF CookieInv
<1>12. ASSUME NEW r \in Request, ReturnUnauthorized(r)
      PROVE  CookieInv'
  BY <1>12, ReturnStep DEF CookieInv
<1>13. ASSUME NEW r \in Request, TryRefresh(r)
      PROVE  CookieInv'
  BY <1>13, TryRefreshStep DEF CookieInv
<1>14. ASSUME NEW r \in Request, ShareRefresh(r)
      PROVE  CookieInv'
  BY <1>14, ShareRefreshStep DEF CookieInv
<1>15. ASSUME NEW t \in Tab, IssueSession(t)
      PROVE  CookieInv'
  BY <1>15, ServeVerifyStep DEF CookieInv
<1>16. ASSUME NEW t \in Tab, ServeRefresh(t)
      PROVE  CookieInv'
  BY <1>16, ServeRefreshStep DEF CookieInv
<1>17. ASSUME NEW t \in Tab, ServeLogout(t)
      PROVE  CookieInv'
  BY <1>17, ServeLogoutStep DEF CookieInv
<1>18. ASSUME NEW t \in Tab, NEW k \in AuthKind, AuthFails(t, k)
      PROVE  CookieInv'
  BY <1>18, AuthFailsStep DEF CookieInv
<1>19. ASSUME NEW r \in Request, ServeRequest(r) \/ RequestLost(r)
      PROVE  CookieInv'
  BY <1>19, ServeRequestStep DEF CookieInv
<1>20. ASSUME NEW r \in Request, RefuseRequest(r)
      PROVE  CookieInv'
  BY <1>20, RefuseStep DEF CookieInv
<1>21. ASSUME ExpireCookie
      PROVE  CookieInv'
  BY <1>21, ExpireStep DEF CookieInv
<1>22. ASSUME UNCHANGED vars
      PROVE  CookieInv'
  BY <1>22, StutterStep DEF CookieInv
<1>23. ASSUME NEW t \in Tab, Sign(t)
      PROVE  CookieInv'
  BY <1>23, SignStep DEF CookieInv
<1>24. ASSUME NEW t \in Tab, NotSigned(t)
      PROVE  CookieInv'
  BY <1>24, NotSignedStep DEF CookieInv
<1>25. ASSUME NEW t \in Tab, RefuseVerify(t)
      PROVE  CookieInv'
  BY <1>25, RefuseVerifyStep DEF CookieInv
<1> QED
  BY <1>1, <1>2, <1>3, <1>4, <1>5, <1>6, <1>7, <1>8, <1>9, <1>10, <1>11,
     <1>12, <1>13, <1>14, <1>15, <1>16, <1>17, <1>18, <1>19, <1>20, <1>21, <1>22,
     <1>23, <1>24, <1>25, VerifySplits
  DEF Next, InBrowser, AtServer

\* The guard never finds a token stale that was issued for the call that
\* carries it.
LEMMA FreshKept ==
    ASSUME TypeOK, RequestsInv, ShowingInv, FreshInv, [Next]_vars
    PROVE  FreshInv'
<1> DEFINE SharedOk == \A n \in stale, u \in Tab :
                          refreshing'[u] = "true" /\ GetToken(u)' = n => JustIssued(n)
          AnswerOk == \A n \in stale, u \in Tab, l \in AuthKind :
                          auth'[u][l].at = "answered" /\ auth'[u][l].got = n => JustIssued(n)
          ReplayOk == \A n \in stale, q \in Request :
                          req'[q].at = "sent" /\ ~req'[q].retry /\ req'[q].bearer = n => JustIssued(n)
<1>a. ASSUME stale' = stale, SharedOk, AnswerOk, ReplayOk
      PROVE  FreshInv'
  BY <1>a DEF FreshInv, JustIssued
<1>b. ASSUME \A u \in Tab : refreshing'[u] = "true" => refreshing[u] = "true", token' = token, stored' = stored
      PROVE  SharedOk
  BY <1>b DEF JustIssued, GetToken
<1>c. ASSUME NEW t \in Tab, NEW k \in AuthKind, NEW p, Ends(t, k) \/ Sends(t, k, p)
      PROVE  AnswerOk
  BY <1>c DEF JustIssued, Ends, Sends, Others
<1>d. auth' = auth => AnswerOk
  BY DEF JustIssued
<1>e. req' = req => ReplayOk
  BY DEF JustIssued
<1>f. \A n \in stale : n \in 1 .. Len(sessions) /\ n # 0 /\ n > 0 /\ Len(sessions) \in Nat
  BY TypedNow
<1>g. ASSUME NEW t \in Tab, NEW k \in AuthKind, NEW got, Answers(t, k, got), got \notin stale
      PROVE  AnswerOk
  BY <1>g DEF JustIssued, Answers, Others
<1>h. ASSUME NEW r \in Request, NEW x, Moves(r, x),
             x.at = "sent" /\ ~x.retry => (x.bearer \in stale => JustIssued(x.bearer))
      PROVE  ReplayOk
  BY <1>h DEF JustIssued, Moves
<1>i. ASSUME NEW t \in Tab, Caches(t), stored' = stored,
             \A u \in Tab : refreshing'[u] = "true" => refreshing[u] = "true"
      PROVE  SharedOk
  BY <1>i, CachedIsTheSame DEF JustIssued
<1>j. FlightsStay => AnswerOk
  BY DEF JustIssued, FlightsStay, InFlight
<1> HIDE DEF SharedOk, AnswerOk, ReplayOk
<1>1. ASSUME NEW t \in Tab, NEW p \in Player, Connect(t, p)
      PROVE  FreshInv'
  BY <1>1, ConnectStep, <1>a, <1>e, <1>i, <1>j
<1>2. ASSUME NEW t \in Tab, SignedIn(t)
      PROVE  FreshInv'
  <2>1. ASSUME NEW n \in stale, NEW u \in Tab, refreshing'[u] = "true", GetToken(u)' = n
        PROVE  JustIssued(n)
    BY <1>2, <2>1, <1>f, SignedInStep DEF Sets, GetToken, JustIssued, AuthKind
  <2>2. SharedOk
    BY <2>1 DEF SharedOk
  <2> QED
    BY <1>2, SignedInStep, <1>a, <1>c, <1>e, <2>2 DEF AuthKind
<1>3. ASSUME NEW t \in Tab, NotSignedIn(t)
      PROVE  FreshInv'
  BY <1>3, NotSignedInStep, <1>a, <1>b, <1>c, <1>e DEF AuthKind
<1>4. ASSUME NEW t \in Tab, Disconnect(t)
      PROVE  FreshInv'
  BY <1>4, DisconnectStep, <1>a, <1>c, <1>e, <1>i DEF AuthKind
<1>5. ASSUME NEW t \in Tab, SignedOut(t)
      PROVE  FreshInv'
  <2>1. ASSUME NEW n \in stale, NEW u \in Tab, refreshing'[u] = "true", GetToken(u)' = n
        PROVE  JustIssued(n)
    BY <1>5, <2>1, <1>f, SignedOutStep DEF Sets, GetToken, JustIssued
  <2>2. SharedOk
    BY <2>1 DEF SharedOk
  <2> QED
    BY <1>5, SignedOutStep, <1>a, <1>c, <1>e, <2>2 DEF AuthKind
<1>6. ASSUME NEW t \in Tab, Reload(t)
      PROVE  FreshInv'
  <2>1. ASSUME NEW n \in stale, NEW u \in Tab, refreshing'[u] = "true", GetToken(u)' = n
        PROVE  JustIssued(n)
    BY <1>6, <2>1, <1>f, ReloadStep DEF Sets, GetToken, JustIssued
  <2>2. SharedOk
    BY <2>1 DEF SharedOk
  <2>3. ReplayOk
    BY <1>6, ReloadStep, BackForm DEF ReplayOk, JustIssued
  <2> QED
    BY <1>6, ReloadStep, <1>a, <1>j, <2>2, <2>3
<1>7. ASSUME NEW t \in Tab, RefreshSucceeds(t)
      PROVE  FreshInv'
  <2>1. auth[t]["refresh"].got \in Number /\ JustIssued(auth[t]["refresh"].got)
    BY <1>7, RefreshSucceedsStep, CellTyped DEF JustIssued, AuthKind, Number
  <2>2. ASSUME NEW n \in stale, NEW u \in Tab, refreshing'[u] = "true", GetToken(u)' = n
        PROVE  JustIssued(n)
    <3>1. CASE u = t
      BY <1>7, <2>1, <2>2, <3>1, RefreshSucceedsStep DEF Sets, GetToken
    <3>2. CASE u # t
      <4>1. refreshing[u] = "true" /\ token'[u] = token[u] /\ stored' = auth[t]["refresh"].got
        BY <1>7, <2>2, <3>2, RefreshSucceedsStep DEF Sets
      <4> QED
        BY <2>1, <2>2, <4>1 DEF GetToken, JustIssued
    <3> QED
      BY <3>1, <3>2
  <2>3. SharedOk
    BY <2>2 DEF SharedOk
  <2>4. \A q \in Request : \/ req'[q] = req[q]
                          \/ req'[q] = Replayed(q, auth[t]["refresh"].got)
    BY <1>7, RefreshSucceedsStep
  <2>5. ReplayOk
    <3> SUFFICES ASSUME NEW n \in stale, NEW q \in Request, req'[q].at = "sent",
                        ~req'[q].retry, req'[q].bearer = n
                 PROVE  JustIssued(n)
      BY DEF ReplayOk
    <3>1. CASE req'[q] = req[q]
      BY <3>1 DEF JustIssued
    <3>2. CASE req'[q] = Replayed(q, auth[t]["refresh"].got)
      BY <2>1, <3>2, ReplayForm
    <3> QED
      BY <2>4, <3>1, <3>2
  <2> QED
    BY <1>7, RefreshSucceedsStep, <1>a, <1>c, <2>3, <2>5 DEF AuthKind
<1>8. ASSUME NEW t \in Tab, RefreshRefused(t)
      PROVE  FreshInv'
  <2>1. ASSUME NEW n \in stale, NEW u \in Tab, refreshing'[u] = "true", GetToken(u)' = n
        PROVE  JustIssued(n)
    BY <1>8, <2>1, <1>f, RefreshRefusedStep DEF Sets, GetToken, JustIssued
  <2>2. SharedOk
    BY <2>1 DEF SharedOk
  <2>3. ReplayOk
    BY <1>8, RefreshRefusedStep, BackForm DEF ReplayOk, JustIssued
  <2> QED
    BY <1>8, RefreshRefusedStep, <1>a, <1>c, <2>2, <2>3 DEF AuthKind
<1>9. ASSUME NEW t \in Tab, RefreshLost(t)
      PROVE  FreshInv'
  <2>1. ReplayOk
    BY <1>9, RefreshLostStep, BackForm DEF ReplayOk, JustIssued
  <2>2. SharedOk
    BY <1>9, RefreshLostStep, <1>b DEF Sets
  <2> QED
    BY <1>9, RefreshLostStep, <1>a, <1>c, <2>1, <2>2 DEF AuthKind
<1>10. ASSUME NEW t \in Tab, Forget(t)
      PROVE  FreshInv'
  <2>1. SharedOk
    BY <1>10, ForgetStep, <1>b DEF Sets
  <2> QED
    BY <1>10, ForgetStep, <1>a, <1>d, <1>e, <2>1
<1>11. ASSUME NEW t \in Tab, NEW r \in Request, Send(t, r)
      PROVE  FreshInv'
  <2>1. ASSUME NEW u \in Tab
        PROVE  GetToken(u)' = GetToken(u)
    BY <1>11, SendStep DEF Sets, GetToken
  <2>2. SharedOk
    BY <1>11, SendStep, <2>1 DEF SharedOk, JustIssued
  <2>3. ReplayOk
    BY <1>11, SendStep DEF ReplayOk, JustIssued
  <2> QED
    BY <1>11, SendStep, <1>a, <1>d, <2>2, <2>3
<1>12. ASSUME NEW r \in Request, ReturnUnauthorized(r)
      PROVE  FreshInv'
  BY <1>12, ReturnStep, BackForm, <1>a, <1>b, <1>d, <1>h
<1>13. ASSUME NEW r \in Request, TryRefresh(r)
      PROVE  FreshInv'
  <2>1. PICK t \in Tab : t = req[r].tab
    BY <1>13, TryRefreshStep
  <2>2. Caches(t) /\ Sets(refreshing', refreshing, t, "pending") /\ Sends(t, "refresh", Nobody)
    BY <1>13, <2>1, TryRefreshStep
  <2>3. stale' = stale /\ stored' = stored /\ Moves(r, At(r, "waiting"))
    BY <1>13, TryRefreshStep
  <2>4. SharedOk
    BY <2>2, <2>3, <1>i DEF Sets
  <2>5. AnswerOk
    BY <2>2, <1>c DEF AuthKind
  <2>6. ReplayOk
    BY <1>h, <2>3, AtForm
  <2> QED
    BY <1>a, <2>3, <2>4, <2>5, <2>6
<1>14. ASSUME NEW r \in Request, ShareRefresh(r)
      PROVE  FreshInv'
  <2>1. PICK n \in Number : n = GetToken(req[r].tab)
    BY <1>14, ShareRefreshStep
  <2>2. /\ stale' = stale /\ stored' = stored /\ refreshing' = refreshing /\ auth' = auth
        /\ Caches(req[r].tab) /\ req[r].tab \in Tab
    BY <1>14, ShareRefreshStep
  <2>3. SharedOk /\ AnswerOk
    BY <2>2, <1>d, <1>i
  <2>4. CASE refreshing[req[r].tab] = "true"
    <3>1. JustIssued(n) /\ Moves(r, Replayed(r, n))
      BY <1>14, ShareRefreshStep, <2>1, <2>4 DEF JustIssued
    <3>2. ReplayOk
      BY <3>1, <1>h, ReplayForm
    <3> QED
      BY <1>a, <2>2, <2>3, <3>2
  <2>5. CASE refreshing[req[r].tab] # "true"
    <3>1. ReplayOk
      BY <1>14, ShareRefreshStep, AtForm, <1>h, <2>5
    <3> QED
      BY <1>a, <2>2, <2>3, <3>1
  <2> QED
    BY <2>4, <2>5
<1>15. ASSUME NEW t \in Tab, IssueSession(t)
      PROVE  FreshInv'
  <2>1. Len(sessions) + 1 \notin stale
    BY <1>f, TypedNow
  <2>2. AnswerOk
    BY <1>15, ServeVerifyStep, <1>g, <2>1 DEF AuthKind
  <2> QED
    BY <1>15, ServeVerifyStep, <1>a, <1>b, <1>e, <2>2
<1>16. ASSUME NEW t \in Tab, ServeRefresh(t)
      PROVE  FreshInv'
  <2>1. Len(sessions) + 1 \notin stale /\ Refused \notin stale
    BY <1>f, TypedNow DEF Refused
  <2>2. AnswerOk
    BY <1>16, ServeRefreshStep, <1>g, <2>1 DEF AuthKind
  <2> QED
    BY <1>16, ServeRefreshStep, <1>a, <1>b, <1>e, <2>2
<1>17. ASSUME NEW t \in Tab, ServeLogout(t)
      PROVE  FreshInv'
  <2>1. Refused \notin stale
    BY <1>f, TypedNow DEF Refused
  <2>2. AnswerOk
    BY <1>17, ServeLogoutStep, <1>g, <2>1 DEF AuthKind
  <2> QED
    BY <1>17, ServeLogoutStep, <1>a, <1>b, <1>e, <2>2
<1>18. ASSUME NEW t \in Tab, NEW k \in AuthKind, AuthFails(t, k)
      PROVE  FreshInv'
  <2>1. Lost \notin stale /\ Broken \notin stale
    BY <1>f, TypedNow DEF Lost, Broken
  <2>2. AnswerOk
    BY <1>18, AuthFailsStep, <1>g, <2>1
  <2> QED
    BY <1>18, AuthFailsStep, <1>a, <1>b, <1>e, <2>2
<1>19. ASSUME NEW r \in Request, ServeRequest(r) \/ RequestLost(r)
      PROVE  FreshInv'
  BY <1>19, ServeRequestStep, BackForm, <1>a, <1>b, <1>d, <1>h
<1>20. ASSUME NEW r \in Request, RefuseRequest(r)
      PROVE  FreshInv'
  <2> DEFINE b == req[r].bearer
  <2>1. ASSUME NEW n, JustIssued(n)'
        PROVE  JustIssued(n)
    BY <1>20, <2>1, RefuseStep, AtForm DEF JustIssued, GetToken, Moves
  <2>2. b \in stale' => b \in stale \/ ~JustIssued(b)
    BY <1>20, RefuseStep DEF Valid
  <2>3. ASSUME NEW n \in stale'
        PROVE  ~JustIssued(n)
    BY <1>20, <2>2, <2>3, RefuseStep DEF FreshInv
  <2> QED
    BY <2>1, <2>3 DEF FreshInv
<1>21. ASSUME ExpireCookie
      PROVE  FreshInv'
  BY <1>21, ExpireStep, <1>a, <1>b, <1>d, <1>e
<1>22. ASSUME UNCHANGED vars
      PROVE  FreshInv'
  BY <1>22, StutterStep, <1>a, <1>b, <1>d, <1>e
<1>23. ASSUME NEW t \in Tab, Sign(t)
      PROVE  FreshInv'
  BY <1>23, SignStep, <1>a, <1>c, <1>e, <1>i DEF AuthKind
<1>24. ASSUME NEW t \in Tab, NotSigned(t)
      PROVE  FreshInv'
  BY <1>24, NotSignedStep, <1>a, <1>b, <1>c, <1>e DEF AuthKind
<1>25. ASSUME NEW t \in Tab, RefuseVerify(t)
      PROVE  FreshInv'
  <2>1. Refused \notin stale
    BY <1>f DEF Refused
  <2>2. AnswerOk
    BY <1>25, RefuseVerifyStep, <1>g, <2>1 DEF AuthKind
  <2> QED
    BY <1>25, RefuseVerifyStep, <1>a, <1>b, <1>e, <2>2
<1> QED
  BY <1>1, <1>2, <1>3, <1>4, <1>5, <1>6, <1>7, <1>8, <1>9, <1>10, <1>11,
     <1>12, <1>13, <1>14, <1>15, <1>16, <1>17, <1>18, <1>19, <1>20, <1>21, <1>22,
     <1>23, <1>24, <1>25, VerifySplits
  DEF Next, InBrowser, AtServer

\* As long as no calls crossed there is one call at a time.
LEMMA CrossKept ==
    ASSUME TypeOK, RequestsInv, ShowingInv, CrossInv, [Next]_vars
    PROVE  CrossInv'
<1> DEFINE Alone == \A u, v \in Tab, l, m \in AuthKind :
                       InFlight(u, l)' /\ InFlight(v, m)' => u = v /\ l = m
          NoneIn == \A u \in Tab, l \in {"verify", "logout"} :
                       InFlight(u, l)' => \A v \in Tab : status'[v] # "connected"
          SharersHold == \A u \in Tab :
                       status'[u] = "connected" /\ refreshing'[u] = "true" => token'[u] # 0
          NoNewFlight == \A u \in Tab, l \in AuthKind : InFlight(u, l)' => InFlight(u, l)
<1>a. ASSUME "crossed" \notin met' => "crossed" \notin met /\ Alone /\ NoneIn /\ SharersHold
      PROVE  CrossInv'
  BY <1>a DEF CrossInv
<1>b. ASSUME NEW t \in Tab, NEW k \in AuthKind, NEW p, Ends(t, k)
      PROVE  NoNewFlight /\ ~InFlight(t, k)'
  BY <1>b DEF InFlight, Ends, Others
<1>c. ASSUME NEW t \in Tab, NEW k \in AuthKind, NEW p, Answers(t, k, p), InFlight(t, k)
      PROVE  NoNewFlight
  BY <1>c DEF InFlight, Answers, Others
<1>d. auth' = auth => NoNewFlight
  BY DEF InFlight
<1>e. NoNewFlight /\ "crossed" \notin met => Alone
  BY DEF CrossInv
<1>f. NoNewFlight /\ "crossed" \notin met /\ status' = status => NoneIn
  BY DEF CrossInv, AuthKind
<1>g. ASSUME NEW t \in Tab, NEW k \in AuthKind, NEW p, Sends(t, k, p), ~Crosses(t, k)
      PROVE  \A u \in Tab, l \in AuthKind : InFlight(u, l)' => u = t /\ l = k
  BY <1>g DEF Crosses, InFlight, Sends, Others
<1>h. "crossed" \notin met /\ refreshing' = refreshing /\ status' = status /\ token' = token => SharersHold
  BY DEF CrossInv
<1>i. ASSUME NEW t \in Tab, NEW k \in AuthKind, "crossed" \notin met, InFlight(t, k)
      PROVE  \A u \in Tab, l \in AuthKind : InFlight(u, l) => u = t /\ l = k
  BY <1>i DEF CrossInv
<1>j. ASSUME NEW t \in Tab, NEW k \in AuthKind, "crossed" \notin met, InFlight(t, k), Ends(t, k)
      PROVE  \A u \in Tab, l \in AuthKind : ~InFlight(u, l)'
  BY <1>b, <1>i, <1>j
<1>k. (\A u \in Tab, l \in AuthKind : ~InFlight(u, l)') => Alone /\ NoneIn
  BY DEF AuthKind
<1>l. FlightsStay => NoNewFlight
  BY DEF FlightsStay, InFlight
<1>m. ASSUME NEW t \in Tab, Caches(t), "crossed" \notin met, stored' = stored,
             \A u \in Tab : /\ refreshing'[u] = "true" => refreshing[u] = "true"
                            /\ status'[u] = "connected" => status[u] = "connected"
      PROVE  SharersHold
  BY <1>m DEF CrossInv, Caches
<1> HIDE DEF Alone, NoneIn, NoNewFlight
<1>1. ASSUME NEW t \in Tab, NEW p \in Player, Connect(t, p)
      PROVE  CrossInv'
  <2> SUFFICES ASSUME "crossed" \notin met
               PROVE  Alone /\ NoneIn /\ SharersHold
    BY <1>1, ConnectStep, <1>a DEF Event
  <2>1. NoNewFlight
    BY <1>1, ConnectStep, <1>l
  <2>2. \A u \in Tab : status'[u] = "connected" => status[u] = "connected"
    BY <1>1, ConnectStep DEF Sets
  <2>3. NoneIn
    BY <2>1, <2>2 DEF NoneIn, NoNewFlight, CrossInv, AuthKind
  <2>4. SharersHold
    BY <1>1, ConnectStep, <1>m, <2>2
  <2> QED
    BY <1>e, <2>1, <2>3, <2>4
<1>2. ASSUME NEW t \in Tab, SignedIn(t)
      PROVE  CrossInv'
  <2> SUFFICES ASSUME "crossed" \notin met
               PROVE  Alone /\ NoneIn /\ SharersHold
    BY <1>2, SignedInStep, <1>a
  <2>1. Alone /\ NoneIn
    BY <1>2, SignedInStep, <1>j, <1>k DEF InFlight, AuthKind
  <2>2. SharersHold
    BY <1>2, SignedInStep DEF CrossInv, Sets
  <2> QED
    BY <2>1, <2>2
<1>3. ASSUME NEW t \in Tab, NotSignedIn(t)
      PROVE  CrossInv'
  <2> SUFFICES ASSUME "crossed" \notin met
               PROVE  Alone /\ NoneIn /\ SharersHold
    BY <1>3, NotSignedInStep, <1>a
  <2>1. Alone /\ NoneIn
    BY <1>3, NotSignedInStep, <1>j, <1>k DEF InFlight, AuthKind
  <2>2. SharersHold
    BY <1>3, NotSignedInStep DEF CrossInv, Sets
  <2> QED
    BY <2>1, <2>2
<1>4. ASSUME NEW t \in Tab, Disconnect(t)
      PROVE  CrossInv'
  <2> SUFFICES ASSUME "crossed" \notin met, ~Crosses(t, "logout")
               PROVE  Alone /\ NoneIn /\ SharersHold
    BY <1>4, DisconnectStep, <1>a DEF Marks
  <2>1. \A u \in Tab, l \in AuthKind : InFlight(u, l)' => u = t /\ l = "logout"
    BY <1>4, DisconnectStep, <1>g DEF AuthKind
  <2>2. Alone
    BY <2>1 DEF Alone
  <2>3. NoneIn
    <3>1. \A u \in Tab \ {t} : status[u] \in {"disconnected", "failed"}
      BY DEF Crosses
    <3>2. \A u \in Tab : status'[u] # "connected"
      BY <1>4, DisconnectStep, <3>1 DEF Sets
    <3> QED
      BY <3>2 DEF NoneIn
  <2>4. SharersHold
    BY <1>4, DisconnectStep, <1>m DEF Sets
  <2> QED
    BY <2>2, <2>3, <2>4
<1>5. ASSUME NEW t \in Tab, SignedOut(t)
      PROVE  CrossInv'
  <2> SUFFICES ASSUME "crossed" \notin met
               PROVE  Alone /\ NoneIn /\ SharersHold
    BY <1>5, SignedOutStep, <1>a
  <2>1. Alone /\ NoneIn
    BY <1>5, SignedOutStep, <1>j, <1>k DEF InFlight, AuthKind
  <2>2. SharersHold
    BY <1>5, SignedOutStep DEF CrossInv, Sets, InFlight
  <2> QED
    BY <2>1, <2>2
<1>6. ASSUME NEW t \in Tab, Reload(t)
      PROVE  CrossInv'
  <2> SUFFICES ASSUME "crossed" \notin met, ~Crosses(t, "refresh")
               PROVE  Alone /\ NoneIn /\ SharersHold
    BY <1>6, ReloadStep, <1>a
  <2>1. \A u \in Tab, l \in AuthKind : ~InFlight(u, l)'
    BY <1>6, ReloadStep, <1>l DEF Crosses, NoNewFlight
  <2>2. SharersHold
    BY <1>6, ReloadStep DEF CrossInv, Sets
  <2> QED
    BY <1>k, <2>1, <2>2
<1>7. ASSUME NEW t \in Tab, RefreshSucceeds(t)
      PROVE  CrossInv'
  <2> SUFFICES ASSUME "crossed" \notin met
               PROVE  Alone /\ NoneIn /\ SharersHold
    BY <1>7, RefreshSucceedsStep, <1>a
  <2>1. Alone /\ NoneIn
    BY <1>7, RefreshSucceedsStep, <1>j, <1>k DEF InFlight, AuthKind
  <2>2. SharersHold
    BY <1>7, RefreshSucceedsStep DEF CrossInv, Sets
  <2> QED
    BY <2>1, <2>2
<1>8. ASSUME NEW t \in Tab, RefreshRefused(t)
      PROVE  CrossInv'
  <2> SUFFICES ASSUME "crossed" \notin met
               PROVE  Alone /\ NoneIn /\ SharersHold
    BY <1>8, RefreshRefusedStep, <1>a
  <2>1. Alone /\ NoneIn
    BY <1>8, RefreshRefusedStep, <1>j, <1>k DEF InFlight, AuthKind
  <2>2. SharersHold
    BY <1>8, RefreshRefusedStep DEF CrossInv, Sets
  <2> QED
    BY <2>1, <2>2
<1>9. ASSUME NEW t \in Tab, RefreshLost(t)
      PROVE  CrossInv'
  <2> SUFFICES ASSUME "crossed" \notin met
               PROVE  Alone /\ NoneIn /\ SharersHold
    BY <1>9, RefreshLostStep, <1>a
  <2>1. Alone /\ NoneIn
    BY <1>9, RefreshLostStep, <1>j, <1>k DEF InFlight, AuthKind
  <2>2. SharersHold
    BY <1>9, RefreshLostStep DEF CrossInv, Sets
  <2> QED
    BY <2>1, <2>2
<1>10. ASSUME NEW t \in Tab, Forget(t)
      PROVE  CrossInv'
  <2>1. "crossed" \notin met => SharersHold
    BY <1>10, ForgetStep DEF CrossInv, Sets
  <2> QED
    BY <1>10, ForgetStep, <1>a, <1>d, <1>e, <1>f, <2>1
<1>11. ASSUME NEW t \in Tab, NEW r \in Request, Send(t, r)
      PROVE  CrossInv'
  <2>1. "crossed" \notin met => SharersHold
    BY <1>11, SendStep DEF CrossInv, Sets, GetToken
  <2> QED
    BY <1>11, SendStep, <1>a, <1>d, <1>e, <1>f, <2>1
<1>12. ASSUME NEW r \in Request, ReturnUnauthorized(r)
      PROVE  CrossInv'
  BY <1>12, ReturnStep, <1>a, <1>d, <1>e, <1>f, <1>h
<1>13. ASSUME NEW r \in Request, TryRefresh(r)
      PROVE  CrossInv'
  <2> DEFINE t == req[r].tab
  <2> SUFFICES ASSUME "crossed" \notin met, ~Crosses(t, "refresh")
               PROVE  Alone /\ NoneIn /\ SharersHold
    BY <1>13, TryRefreshStep, <1>a DEF Marks
  <2>1. \A u \in Tab, l \in AuthKind : InFlight(u, l)' => u = t /\ l = "refresh"
    BY <1>13, TryRefreshStep, <1>g DEF AuthKind
  <2>2. Alone /\ NoneIn
    BY <2>1 DEF Alone, NoneIn, AuthKind
  <2>3. SharersHold
    BY <1>13, TryRefreshStep, <1>m DEF Sets
  <2> QED
    BY <2>2, <2>3
<1>14. ASSUME NEW r \in Request, ShareRefresh(r)
      PROVE  CrossInv'
  <2>1. "crossed" \notin met => SharersHold
    BY <1>14, ShareRefreshStep, <1>m
  <2> QED
    BY <1>14, ShareRefreshStep, <1>a, <1>d, <1>e, <1>f, <2>1
<1>15. ASSUME NEW t \in Tab, IssueSession(t)
      PROVE  CrossInv'
  <2>1. NoNewFlight
    BY <1>15, ServeVerifyStep, <1>c DEF InFlight, AuthKind
  <2> QED
    BY <1>15, ServeVerifyStep, <1>a, <1>e, <1>f, <1>h, <2>1
<1>16. ASSUME NEW t \in Tab, ServeRefresh(t)
      PROVE  CrossInv'
  <2>1. NoNewFlight
    BY <1>16, ServeRefreshStep, <1>c DEF InFlight, AuthKind
  <2> QED
    BY <1>16, ServeRefreshStep, <1>a, <1>e, <1>f, <1>h, <2>1
<1>17. ASSUME NEW t \in Tab, ServeLogout(t)
      PROVE  CrossInv'
  <2>1. NoNewFlight
    BY <1>17, ServeLogoutStep, <1>c DEF InFlight, AuthKind
  <2> QED
    BY <1>17, ServeLogoutStep, <1>a, <1>e, <1>f, <1>h, <2>1
<1>18. ASSUME NEW t \in Tab, NEW k \in AuthKind, AuthFails(t, k)
      PROVE  CrossInv'
  <2>1. NoNewFlight /\ ("crossed" \in met' <=> "crossed" \in met)
    BY <1>18, AuthFailsStep, <1>c DEF InFlight, Event
  <2> QED
    BY <1>18, AuthFailsStep, <1>a, <1>e, <1>f, <1>h, <2>1
<1>19. ASSUME NEW r \in Request, ServeRequest(r) \/ RequestLost(r)
      PROVE  CrossInv'
  BY <1>19, ServeRequestStep, <1>a, <1>d, <1>e, <1>f, <1>h
<1>20. ASSUME NEW r \in Request, RefuseRequest(r)
      PROVE  CrossInv'
  BY <1>20, RefuseStep, <1>a, <1>d, <1>e, <1>f, <1>h
<1>21. ASSUME ExpireCookie
      PROVE  CrossInv'
  <2>1. "crossed" \in met' <=> "crossed" \in met
    BY <1>21, ExpireStep
  <2> QED
    BY <1>21, ExpireStep, <1>a, <1>d, <1>e, <1>f, <1>h, <2>1
<1>22. ASSUME UNCHANGED vars
      PROVE  CrossInv'
  BY <1>22, StutterStep, <1>a, <1>d, <1>e, <1>f, <1>h
<1>23. ASSUME NEW t \in Tab, Sign(t)
      PROVE  CrossInv'
  <2> SUFFICES ASSUME "crossed" \notin met, ~Crosses(t, "verify")
               PROVE  Alone /\ NoneIn /\ SharersHold
    BY <1>23, SignStep, <1>a DEF Marks
  <2>1. \A u \in Tab, l \in AuthKind : InFlight(u, l)' => u = t /\ l = "verify"
    BY <1>23, SignStep, <1>g DEF AuthKind
  <2>2. Alone
    BY <2>1 DEF Alone
  <2>3. NoneIn
    <3>1. \A u \in Tab \ {t} : status[u] \in {"disconnected", "failed"}
      BY DEF Crosses
    <3>2. \A u \in Tab : status'[u] # "connected"
      BY <1>23, SignStep, <3>1
    <3> QED
      BY <3>2 DEF NoneIn
  <2>4. SharersHold
    BY <1>23, SignStep, <1>m
  <2> QED
    BY <2>2, <2>3, <2>4
<1>24. ASSUME NEW t \in Tab, NotSigned(t)
      PROVE  CrossInv'
  <2> SUFFICES ASSUME "crossed" \notin met
               PROVE  Alone /\ NoneIn /\ SharersHold
    BY <1>24, NotSignedStep, <1>a
  <2>1. NoNewFlight
    BY <1>24, NotSignedStep, <1>l
  <2>2. \A u \in Tab : status'[u] = "connected" => status[u] = "connected"
    BY <1>24, NotSignedStep DEF Sets
  <2>3. NoneIn
    BY <2>1, <2>2 DEF NoneIn, NoNewFlight, CrossInv, AuthKind
  <2>4. SharersHold
    BY <1>24, NotSignedStep, <2>2 DEF CrossInv
  <2> QED
    BY <1>e, <2>1, <2>3, <2>4
<1>25. ASSUME NEW t \in Tab, RefuseVerify(t)
      PROVE  CrossInv'
  <2>1. NoNewFlight
    BY <1>25, RefuseVerifyStep, <1>c DEF InFlight, AuthKind
  <2> QED
    BY <1>25, RefuseVerifyStep, <1>a, <1>e, <1>f, <1>h, <2>1
<1> QED
  BY <1>1, <1>2, <1>3, <1>4, <1>5, <1>6, <1>7, <1>8, <1>9, <1>10, <1>11,
     <1>12, <1>13, <1>14, <1>15, <1>16, <1>17, <1>18, <1>19, <1>20, <1>21, <1>22,
     <1>23, <1>24, <1>25, VerifySplits
  DEF Next, InBrowser, AtServer

\* As long as none was under way at a sign-in or sign-out, requests are of
\* connected tabs.
LEMMA FinishedKept ==
    ASSUME TypeOK, RequestsInv, ShowingInv, FinishedInv, [Next]_vars
    PROVE  FinishedInv'
<1>a. ASSUME status' = status, "unfinished" \in met => "unfinished" \in met',
             \A q \in Request : req'[q].at \in OpenPoint =>
                               req[q].at \in OpenPoint /\ req'[q].tab = req[q].tab
      PROVE  FinishedInv'
  BY <1>a DEF FinishedInv
<1>b. ASSUME NEW t \in Tab, req' = req, NEW s, Sets(status', status, t, s),
             s = "connected" \/ ("unfinished" \notin met' =>
                                   \A q \in Request : req[q].at \in OpenPoint => req[q].tab # t),
             "unfinished" \in met => "unfinished" \in met'
      PROVE  FinishedInv'
  BY <1>b DEF FinishedInv, Sets, RequestsInv
<1>c. \A t \in Tab : Open(t) = {} => \A q \in Request : req[q].at \in OpenPoint => req[q].tab # t
  BY DEF Open, OpenPoint
<1>d. ASSUME NEW r \in Request, NEW x, Moves(r, x), x.at \in OpenPoint =>
                 req[r].at \in OpenPoint /\ x.tab = req[r].tab
      PROVE  \A q \in Request : req'[q].at \in OpenPoint =>
                               req[q].at \in OpenPoint /\ req'[q].tab = req[q].tab
  BY <1>d DEF Moves
<1>e. "401" \in OpenPoint /\ "waiting" \in OpenPoint /\ "sent" \in OpenPoint /\ "over" \notin OpenPoint
      /\ "unauthorized" \notin OpenPoint /\ "none" \notin OpenPoint
  BY DEF OpenPoint
<1>1. ASSUME NEW t \in Tab, NEW p \in Player, Connect(t, p)
      PROVE  FinishedInv'
  BY <1>1, ConnectStep, <1>b, <1>c DEF Event
<1>2. ASSUME NEW t \in Tab, SignedIn(t)
      PROVE  FinishedInv'
  BY <1>2, SignedInStep, <1>b
<1>3. ASSUME NEW t \in Tab, NotSignedIn(t)
      PROVE  FinishedInv'
  <2>1. status[t] = "authenticating"
    BY <1>3, NotSignedInStep DEF ShowingInv, InFlight
  <2>2. "unfinished" \notin met' => \A q \in Request : req[q].at \in OpenPoint => req[q].tab # t
    BY <1>3, NotSignedInStep, <2>1 DEF FinishedInv
  <2> QED
    BY <1>3, NotSignedInStep, <1>b, <2>2
<1>4. ASSUME NEW t \in Tab, Disconnect(t)
      PROVE  FinishedInv'
  BY <1>4, DisconnectStep, <1>b, <1>c DEF Marks
<1>5. ASSUME NEW t \in Tab, SignedOut(t)
      PROVE  FinishedInv'
  BY <1>5, SignedOutStep, <1>a
<1>6. ASSUME NEW t \in Tab, Reload(t)
      PROVE  FinishedInv'
  <2>1. ASSUME NEW q \in Request, req'[q].at \in OpenPoint
        PROVE  req'[q] = req[q] /\ req[q].tab # t
    BY <1>6, <2>1, <1>e, ReloadStep, BackForm
  <2>2. "unfinished" \in met' <=> "unfinished" \in met
    BY <1>6, ReloadStep DEF Event
  <2> QED
    BY <1>6, ReloadStep, <2>1, <2>2 DEF FinishedInv, RequestsInv, Sets
<1>7. ASSUME NEW t \in Tab, RefreshSucceeds(t)
      PROVE  FinishedInv'
  <2>1. auth[t]["refresh"].got \in Number
    BY <1>7, RefreshSucceedsStep, CellTyped DEF AuthKind, Number
  <2>2. \A q \in Request : req'[q].at \in OpenPoint => req[q].at \in OpenPoint /\ req'[q].tab = req[q].tab
    BY <1>7, <1>e, <2>1, RefreshSucceedsStep, ReplayForm
  <2> QED
    BY <1>7, RefreshSucceedsStep, <1>a, <2>2
<1>8. ASSUME NEW t \in Tab, RefreshRefused(t)
      PROVE  FinishedInv'
  <2>1. \A q \in Request : req'[q].at \in OpenPoint => req[q].at \in OpenPoint /\ req'[q].tab = req[q].tab
    BY <1>8, <1>e, RefreshRefusedStep, BackForm
  <2> QED
    BY <1>8, RefreshRefusedStep, <1>a, <2>1
<1>9. ASSUME NEW t \in Tab, RefreshLost(t)
      PROVE  FinishedInv'
  <2>1. \A q \in Request : req'[q].at \in OpenPoint => req[q].at \in OpenPoint /\ req'[q].tab = req[q].tab
    BY <1>9, <1>e, RefreshLostStep, BackForm
  <2> QED
    BY <1>9, RefreshLostStep, <1>a, <2>1
<1>10. ASSUME NEW t \in Tab, Forget(t)
      PROVE  FinishedInv'
  BY <1>10, ForgetStep, <1>a
<1>11. ASSUME NEW t \in Tab, NEW r \in Request, Send(t, r)
      PROVE  FinishedInv'
  BY <1>11, SendStep DEF FinishedInv
<1>12. ASSUME NEW r \in Request, ReturnUnauthorized(r)
      PROVE  FinishedInv'
  BY <1>12, ReturnStep, BackForm, <1>a, <1>d, <1>e
<1>13. ASSUME NEW r \in Request, TryRefresh(r)
      PROVE  FinishedInv'
  BY <1>13, TryRefreshStep, AtForm, <1>a, <1>d, <1>e DEF Marks
<1>14. ASSUME NEW r \in Request, ShareRefresh(r)
      PROVE  FinishedInv'
  <2>1. \A q \in Request : req'[q].at \in OpenPoint => req[q].at \in OpenPoint /\ req'[q].tab = req[q].tab
    BY <1>14, ShareRefreshStep, AtForm, ReplayForm, <1>d, <1>e
  <2> QED
    BY <1>14, ShareRefreshStep, <1>a, <2>1
<1>15. ASSUME NEW t \in Tab, IssueSession(t)
      PROVE  FinishedInv'
  BY <1>15, ServeVerifyStep, <1>a
<1>16. ASSUME NEW t \in Tab, ServeRefresh(t)
      PROVE  FinishedInv'
  BY <1>16, ServeRefreshStep, <1>a
<1>17. ASSUME NEW t \in Tab, ServeLogout(t)
      PROVE  FinishedInv'
  BY <1>17, ServeLogoutStep, <1>a
<1>18. ASSUME NEW t \in Tab, NEW k \in AuthKind, AuthFails(t, k)
      PROVE  FinishedInv'
  <2>1. "unfinished" \in met' <=> "unfinished" \in met
    BY <1>18, AuthFailsStep DEF Event
  <2> QED
    BY <1>18, AuthFailsStep, <1>a, <2>1
<1>19. ASSUME NEW r \in Request, ServeRequest(r) \/ RequestLost(r)
      PROVE  FinishedInv'
  BY <1>19, ServeRequestStep, BackForm, <1>a, <1>d, <1>e
<1>20. ASSUME NEW r \in Request, RefuseRequest(r)
      PROVE  FinishedInv'
  BY <1>20, RefuseStep, AtForm, <1>a, <1>d, <1>e
<1>21. ASSUME ExpireCookie
      PROVE  FinishedInv'
  BY <1>21, ExpireStep, <1>a
<1>22. ASSUME UNCHANGED vars
      PROVE  FinishedInv'
  BY <1>22, StutterStep, <1>a
<1>23. ASSUME NEW t \in Tab, Sign(t)
      PROVE  FinishedInv'
  <2>1. status' = status /\ req' = req /\ ("unfinished" \in met => "unfinished" \in met')
    BY <1>23, SignStep DEF Marks
  <2> QED
    BY <1>a, <2>1, <1>c DEF RequestsInv
<1>24. ASSUME NEW t \in Tab, NotSigned(t)
      PROVE  FinishedInv'
  <2>1. status[t] = "authenticating"
    BY <1>24, NotSignedStep DEF ShowingInv, InFlight
  <2>2. "unfinished" \notin met' => \A q \in Request : req[q].at \in OpenPoint => req[q].tab # t
    BY <1>24, NotSignedStep, <2>1 DEF FinishedInv
  <2> QED
    BY <1>24, NotSignedStep, <1>b, <2>2
<1>25. ASSUME NEW t \in Tab, RefuseVerify(t)
      PROVE  FinishedInv'
  BY <1>25, RefuseVerifyStep, <1>a
<1> QED
  BY <1>1, <1>2, <1>3, <1>4, <1>5, <1>6, <1>7, <1>8, <1>9, <1>10, <1>11,
     <1>12, <1>13, <1>14, <1>15, <1>16, <1>17, <1>18, <1>19, <1>20, <1>21, <1>22,
     <1>23, <1>24, <1>25, VerifySplits
  DEF Next, InBrowser, AtServer

\* As long as no answer was lost and no calls crossed, the cookie is live.
LEMMA CalmKept ==
    ASSUME TypeOK, RequestsInv, SharingInv, ShowingInv, AnswersInv,
           CrossInv, CalmInv, [Next]_vars
    PROVE  CalmInv'
<1> DEFINE Calm == met \cap {"lost", "logoutLost", "crossed"} = {}
          Body == /\ ~theft
                  /\ \A u \in Tab, l \in AuthKind :
                       /\ auth[u][l].at = "sent" => auth[u][l].cookie = cookie
                       /\ auth[u][l].at = "answered" => IsLive(auth[u][l].got)
                  /\ (\A u \in Tab, l \in {"refresh", "logout"} : auth[u][l].at # "answered")
                       => IsLive(cookie)
<1>a. ASSUME Calm' => Calm, Calm => Body, Calm' /\ Calm /\ Body => Body'
      PROVE  CalmInv'
  BY <1>a DEF CalmInv
<1>b. Calm => Body
  BY DEF CalmInv
<1>c. ASSUME NEW t \in Tab, NEW k \in AuthKind, Calm, InFlight(t, k)
      PROVE  \A u \in Tab, l \in AuthKind : u # t \/ l # k => ~InFlight(u, l)
  <2>1. "crossed" \notin met
    BY <1>c
  <2> QED
    BY <1>c, <2>1 DEF CrossInv
<1>d. ASSUME sessions' = sessions, theft' = theft, auth' = auth, cookie' = cookie
      PROVE  Body => Body'
  BY <1>d DEF IsLive
<1>e. ASSUME sessions' = sessions, theft' = theft, cookie' = cookie,
             NEW t \in Tab, NEW k \in AuthKind, NEW p, Sends(t, k, p), ~InFlight(t, k)
      PROVE  Body => Body'
  <2> SUFFICES ASSUME Body PROVE Body'
    OBVIOUS
  <2>1. \A u \in Tab, l \in AuthKind :
           /\ auth'[u][l].at = "sent" => auth'[u][l].cookie = cookie'
           /\ auth'[u][l].at = "answered" => auth'[u][l] = auth[u][l]
           /\ auth[u][l].at = "answered" => auth'[u][l].at = "answered"
    BY <1>e DEF Sends, Others, InFlight
  <2>2. (\A u \in Tab, l \in {"refresh", "logout"} : auth'[u][l].at # "answered")
          => (\A u \in Tab, l \in {"refresh", "logout"} : auth[u][l].at # "answered")
    BY <2>1 DEF AuthKind
  <2> QED
    BY <1>e, <2>1, <2>2 DEF IsLive
<1>f. ASSUME sessions' = sessions, theft' = theft, Calm,
             NEW t \in Tab, NEW k \in AuthKind, Ends(t, k), InFlight(t, k), IsLive(cookie')
      PROVE  Body => Body'
  <2>1. \A u \in Tab, l \in AuthKind : auth'[u][l].at \notin {"sent", "answered"}
    BY <1>c, <1>f DEF Ends, Others, InFlight
  <2> QED
    BY <1>f, <2>1 DEF IsLive
<1>g. ASSUME cookie' = cookie, theft' = theft, Calm, NEW got,
             NEW t \in Tab, NEW k \in AuthKind, Answers(t, k, got), InFlight(t, k), IsLive(got)',
             k = "verify" => IsLive(cookie)'
      PROVE  Body => Body'
  <2>1. \A u \in Tab, l \in AuthKind : u # t \/ l # k => auth'[u][l].at \notin {"sent", "answered"}
    BY <1>c, <1>g DEF Answers, Others, InFlight
  <2>2. auth'[t][k].at = "answered" /\ auth'[t][k].got = got
    BY <1>g DEF Answers
  <2>3. k \in {"refresh", "logout"} \/ IsLive(cookie)'
    BY <1>g DEF AuthKind
  <2>4. ~theft => ~theft'
    BY <1>g
  <2>5. \A u \in Tab, l \in AuthKind :
           /\ auth'[u][l].at # "sent"
           /\ auth'[u][l].at = "answered" => auth'[u][l].got = got
    BY <2>1, <2>2
  <2>6. (\A u \in Tab, l \in {"refresh", "logout"} : auth'[u][l].at # "answered") => IsLive(cookie)'
    BY <2>2, <2>3
  <2> QED
    BY <1>g, <2>4, <2>5, <2>6
<1>i. ASSUME sessions' = sessions, theft' = theft, cookie' = cookie, FlightsStay
      PROVE  Body => Body'
  <2>1. \A u \in Tab, l \in AuthKind :
           /\ auth'[u][l].at \in {"sent", "answered"} => auth'[u][l] = auth[u][l]
           /\ auth[u][l].at = "answered" => auth'[u][l].at = "answered"
    BY <1>i DEF FlightsStay, InFlight
  <2>2. (\A u \in Tab, l \in {"refresh", "logout"} : auth'[u][l].at # "answered")
          => (\A u \in Tab, l \in {"refresh", "logout"} : auth[u][l].at # "answered")
    BY <2>1 DEF AuthKind
  <2> QED
    BY <1>i, <2>1, <2>2 DEF IsLive
<1>j. ASSUME NEW t \in Tab, InFlight(t, "verify"), Calm, Body
      PROVE  IsLive(cookie)
  <2>1. "crossed" \notin met /\ "verify" \in AuthKind /\ {"refresh", "logout"} \subseteq AuthKind
    BY <1>j DEF AuthKind
  <2>2. \A u \in Tab, l \in {"refresh", "logout"} : auth[u][l].at # "answered"
    BY <1>c, <1>j, <2>1 DEF InFlight
  <2> QED
    BY <1>j, <2>2
<1>h. ASSUME NEW t \in Tab, NEW k \in AuthKind, Calm, auth[t][k].at = "answered"
      PROVE  /\ auth[t][k].got \notin {Lost, Broken}
             /\ k = "logout" => auth[t][k].got = Refused
  <2>1. auth[t][k].got \notin {Lost, Broken}
    BY <1>h DEF AnswersInv
  <2>3. k = "logout" => auth[t][k].got <= 0
    BY <1>h DEF AnswersInv
  <2> QED
    BY <2>1, <2>3, CellTyped
<1> HIDE DEF Body
<1>1. ASSUME NEW t \in Tab, NEW p \in Player, Connect(t, p)
      PROVE  CalmInv'
  <2>1. Calm' => Calm
    BY <1>1, ConnectStep DEF Event
  <2> QED
    BY <1>1, ConnectStep, <1>a, <1>b, <1>i, <2>1
<1>2. ASSUME NEW t \in Tab, SignedIn(t)
      PROVE  CalmInv'
  <2> SUFFICES ASSUME Calm', Calm, Body
               PROVE  Body'
    BY <1>2, SignedInStep, <1>a, <1>b
  <2>1. "verify" \in AuthKind /\ InFlight(t, "verify") /\ auth[t]["verify"].at = "answered"
    BY <1>2, SignedInStep DEF InFlight, AuthKind
  <2>2. IsLive(cookie')
    BY <1>2, <2>1, SignedInStep DEF Body
  <2> QED
    BY <1>2, SignedInStep, <1>f, <2>1, <2>2
<1>3. ASSUME NEW t \in Tab, NotSignedIn(t)
      PROVE  CalmInv'
  <2> SUFFICES ASSUME Calm', Calm, Body
               PROVE  Body'
    BY <1>3, NotSignedInStep, <1>a, <1>b
  <2>1. "verify" \in AuthKind /\ InFlight(t, "verify")
    BY <1>3, NotSignedInStep DEF AuthKind, InFlight
  <2>2. IsLive(cookie')
    BY <1>3, NotSignedInStep, <1>j, <2>1
  <2> QED
    BY <1>3, NotSignedInStep, <1>f, <2>1, <2>2
<1>4. ASSUME NEW t \in Tab, Disconnect(t)
      PROVE  CalmInv'
  <2>1. Calm' => Calm
    BY <1>4, DisconnectStep DEF Marks
  <2>2. ~InFlight(t, "logout") /\ "logout" \in AuthKind
    BY <1>4, DisconnectStep DEF ShowingInv, AuthKind
  <2> QED
    BY <1>4, DisconnectStep, <1>a, <1>b, <1>e, <2>1, <2>2
<1>5. ASSUME NEW t \in Tab, SignedOut(t)
      PROVE  CalmInv'
  <2> SUFFICES ASSUME Calm', Calm, Body
               PROVE  Body'
    BY <1>5, SignedOutStep, <1>a, <1>b
  <2>1. "logout" \in AuthKind /\ InFlight(t, "logout") /\ auth[t]["logout"].at = "answered"
    BY <1>5, SignedOutStep DEF InFlight, AuthKind
  <2>2. IsLive(cookie')
    BY <1>5, <1>h, <2>1, SignedOutStep DEF IsLive
  <2> QED
    BY <1>5, SignedOutStep, <1>f, <2>1, <2>2
<1>6. ASSUME NEW t \in Tab, Reload(t)
      PROVE  CalmInv'
  <2>1. Calm' => Calm
    BY <1>6, ReloadStep DEF Event
  <2> QED
    BY <1>6, ReloadStep, <1>a, <1>b, <1>i, <2>1
<1>7. ASSUME NEW t \in Tab, RefreshSucceeds(t)
      PROVE  CalmInv'
  <2> SUFFICES ASSUME Calm', Calm, Body
               PROVE  Body'
    BY <1>7, RefreshSucceedsStep, <1>a, <1>b
  <2>1. "refresh" \in AuthKind /\ InFlight(t, "refresh") /\ auth[t]["refresh"].at = "answered"
    BY <1>7, RefreshSucceedsStep DEF InFlight, AuthKind
  <2>2. IsLive(cookie')
    BY <1>7, <2>1, RefreshSucceedsStep DEF Body
  <2> QED
    BY <1>7, RefreshSucceedsStep, <1>f, <2>1, <2>2
<1>8. ASSUME NEW t \in Tab, RefreshRefused(t)
      PROVE  CalmInv'
  <2> SUFFICES ASSUME Calm', Calm, Body
               PROVE  Body'
    BY <1>8, RefreshRefusedStep, <1>a, <1>b
  <2>1. "refresh" \in AuthKind /\ InFlight(t, "refresh") /\ auth[t]["refresh"].at = "answered"
    BY <1>8, RefreshRefusedStep DEF InFlight, AuthKind
  <2>2. IsLive(cookie')
    BY <1>8, <1>h, <2>1, RefreshRefusedStep DEF IsLive
  <2> QED
    BY <1>8, RefreshRefusedStep, <1>f, <2>1, <2>2
<1>9. ASSUME NEW t \in Tab, RefreshLost(t)
      PROVE  CalmInv'
  <2> SUFFICES ASSUME Calm', Calm, Body
               PROVE  Body'
    BY <1>9, RefreshLostStep, <1>a, <1>b
  <2>1. "refresh" \in AuthKind
    BY DEF AuthKind
  <2> QED
    BY <1>9, RefreshLostStep, <1>h, <2>1
<1>10. ASSUME NEW t \in Tab, Forget(t)
      PROVE  CalmInv'
  <2>1. Calm' => Calm
    BY <1>10, ForgetStep DEF Event
  <2> QED
    BY <1>10, ForgetStep, <1>a, <1>b, <1>d, <2>1
<1>11. ASSUME NEW t \in Tab, NEW r \in Request, Send(t, r)
      PROVE  CalmInv'
  <2>1. Calm' => Calm
    BY <1>11, SendStep DEF Event
  <2> QED
    BY <1>11, SendStep, <1>a, <1>b, <1>d, <2>1
<1>12. ASSUME NEW r \in Request, ReturnUnauthorized(r)
      PROVE  CalmInv'
  <2>1. Calm' => Calm
    BY <1>12, ReturnStep DEF Event
  <2> QED
    BY <1>12, ReturnStep, <1>a, <1>b, <1>d, <2>1
<1>13. ASSUME NEW r \in Request, TryRefresh(r)
      PROVE  CalmInv'
  <2>1. Calm' => Calm
    BY <1>13, TryRefreshStep DEF Marks
  <2>2. ~InFlight(req[r].tab, "refresh") /\ "refresh" \in AuthKind
    BY <1>13, TryRefreshStep DEF SharingInv, AuthKind
  <2> QED
    BY <1>13, TryRefreshStep, <1>a, <1>b, <1>e, <2>1, <2>2
<1>14. ASSUME NEW r \in Request, ShareRefresh(r)
      PROVE  CalmInv'
  <2>1. Calm' => Calm
    BY <1>14, ShareRefreshStep DEF Event
  <2> QED
    BY <1>14, ShareRefreshStep, <1>a, <1>b, <1>d, <2>1
<1>15. ASSUME NEW t \in Tab, IssueSession(t)
      PROVE  CalmInv'
  <2> SUFFICES ASSUME Calm', Calm, Body
               PROVE  Body'
    BY <1>15, ServeVerifyStep, <1>a, <1>b
  <2>1. "verify" \in AuthKind /\ InFlight(t, "verify")
    BY <1>15, ServeVerifyStep DEF InFlight, AuthKind
  <2>2. PICK got : got = Len(sessions) + 1
    OBVIOUS
  <2>3. IsLive(got)'
    BY <1>15, ServeVerifyStep, <2>2 DEF IsLive
  <2>4. IsLive(cookie)'
    <3>1. cookie \in 0 .. Len(sessions) /\ IsLive(cookie)
      BY <1>j, <2>1, TypedNow
    <3>2. cookie' = cookie /\ \A n \in 1 .. Len(sessions) : sessions'[n] = sessions[n]
      BY <1>15, ServeVerifyStep
    <3> QED
      BY <3>1, <3>2 DEF IsLive
  <2>5. cookie' = cookie /\ theft' = theft /\ Answers(t, "verify", got)
    BY <1>15, ServeVerifyStep, <2>2
  <2> QED
    BY <1>g, <2>1, <2>3, <2>4, <2>5
<1>16. ASSUME NEW t \in Tab, ServeRefresh(t)
      PROVE  CalmInv'
  <2> SUFFICES ASSUME Calm', Calm, Body
               PROVE  Body'
    BY <1>16, ServeRefreshStep, <1>a, <1>b
  <2> DEFINE c == auth[t]["refresh"].cookie
  <2>1. "refresh" \in AuthKind /\ InFlight(t, "refresh") /\ auth[t]["refresh"].at = "sent"
    BY <1>16, ServeRefreshStep DEF InFlight, AuthKind
  <2>2. c = cookie /\ IsLive(cookie)
    <3>1. \A u \in Tab, l \in AuthKind : auth[u][l].at # "answered"
      BY <1>c, <2>1 DEF InFlight
    <3>2. {"refresh", "logout"} \subseteq AuthKind
      BY DEF AuthKind
    <3> QED
      BY <2>1, <3>1, <3>2 DEF Body
  <2>3. c \in 0 .. Len(sessions) /\ Len(sessions) \in Nat
    BY <1>16, ServeRefreshStep, TypedNow
  <2>4. c = 0 \/ ~sessions[c].revoked
    BY <2>2, <2>3 DEF IsLive
  <2>5. theft' = theft /\ cookie' = cookie
    BY <1>16, ServeRefreshStep, <2>4, TypedNow
  <2>6. PICK got : Answers(t, "refresh", got) /\ IsLive(got)'
    <3>1. CASE c = 0
      BY <1>16, ServeRefreshStep, <3>1 DEF IsLive, Refused
    <3>2. CASE c # 0
      BY <1>16, ServeRefreshStep, <2>4, <3>2 DEF IsLive
    <3> QED
      BY <3>1, <3>2
  <2> QED
    BY <1>g, <2>1, <2>5, <2>6
<1>17. ASSUME NEW t \in Tab, ServeLogout(t)
      PROVE  CalmInv'
  <2> SUFFICES ASSUME Calm', Calm, Body
               PROVE  Body'
    BY <1>17, ServeLogoutStep, <1>a, <1>b
  <2>1. "logout" \in AuthKind /\ InFlight(t, "logout")
    BY <1>17, ServeLogoutStep DEF InFlight, AuthKind
  <2>2. PICK got : got = Refused /\ IsLive(got)'
    BY DEF IsLive, Refused
  <2> QED
    BY <1>17, ServeLogoutStep, <1>g, <2>1, <2>2
<1>18. ASSUME NEW t \in Tab, NEW k \in AuthKind, AuthFails(t, k)
      PROVE  CalmInv'
  <2>1. ~Calm'
    BY <1>18, AuthFailsStep
  <2> QED
    BY <1>a, <1>b, <2>1
<1>19. ASSUME NEW r \in Request, ServeRequest(r) \/ RequestLost(r)
      PROVE  CalmInv'
  <2>1. Calm' => Calm
    BY <1>19, ServeRequestStep DEF Event
  <2> QED
    BY <1>19, ServeRequestStep, <1>a, <1>b, <1>d, <2>1
<1>20. ASSUME NEW r \in Request, RefuseRequest(r)
      PROVE  CalmInv'
  <2>1. Calm' => Calm
    BY <1>20, RefuseStep DEF Event
  <2> QED
    BY <1>20, RefuseStep, <1>a, <1>b, <1>d, <2>1
<1>21. ASSUME ExpireCookie
      PROVE  CalmInv'
  <2> SUFFICES ASSUME Calm', Calm, Body
               PROVE  Body'
    BY <1>21, ExpireStep, <1>a, <1>b
  <2>1. cookie' = 0 /\ \A u \in Tab, l \in AuthKind : auth'[u][l].at \notin {"sent", "answered"}
    BY <1>21, ExpireStep DEF InFlight
  <2> QED
    BY <1>21, ExpireStep, <2>1 DEF Body, IsLive
<1>22. ASSUME UNCHANGED vars
      PROVE  CalmInv'
  <2>1. Calm' => Calm
    BY <1>22, StutterStep DEF Event
  <2> QED
    BY <1>22, StutterStep, <1>a, <1>b, <1>d, <2>1
<1>23. ASSUME NEW t \in Tab, Sign(t)
      PROVE  CalmInv'
  <2>1. Calm' => Calm
    BY <1>23, SignStep DEF Marks
  <2>2. ~InFlight(t, "verify") /\ "verify" \in AuthKind
    BY <1>23, SignStep DEF InFlight, AuthKind
  <2> QED
    BY <1>23, SignStep, <1>a, <1>b, <1>e, <2>1, <2>2
<1>24. ASSUME NEW t \in Tab, NotSigned(t)
      PROVE  CalmInv'
  <2>1. Calm' => Calm
    BY <1>24, NotSignedStep DEF Event
  <2> QED
    BY <1>24, NotSignedStep, <1>a, <1>b, <1>i, <2>1
<1>25. ASSUME NEW t \in Tab, RefuseVerify(t)
      PROVE  CalmInv'
  <2> SUFFICES ASSUME Calm', Calm, Body
               PROVE  Body'
    BY <1>25, RefuseVerifyStep, <1>a, <1>b
  <2>1. "verify" \in AuthKind /\ InFlight(t, "verify")
    BY <1>25, RefuseVerifyStep DEF InFlight, AuthKind
  <2>2. PICK got : got = Refused /\ IsLive(got)'
    BY DEF IsLive, Refused
  <2>3. IsLive(cookie)'
    BY <1>25, RefuseVerifyStep, <1>j, <2>1 DEF IsLive
  <2>4. cookie' = cookie /\ theft' = theft /\ Answers(t, "verify", got)
    BY <1>25, RefuseVerifyStep, <2>2
  <2> QED
    BY <1>g, <2>1, <2>2, <2>3, <2>4
<1> QED
  BY <1>1, <1>2, <1>3, <1>4, <1>5, <1>6, <1>7, <1>8, <1>9, <1>10, <1>11,
     <1>12, <1>13, <1>14, <1>15, <1>16, <1>17, <1>18, <1>19, <1>20, <1>21, <1>22,
     <1>23, <1>24, <1>25, VerifySplits
  DEF Next, InBrowser, AtServer

\* As long as nobody signed out either, a refresh succeeds.
LEMMA QuietKept ==
    ASSUME TypeOK, RequestsInv, SharingInv, ShowingInv, AnswersInv,
           FreshInv, CrossInv, CalmInv, QuietInv, [Next]_vars
    PROVE  QuietInv'
<1> DEFINE Quiet == met \cap {"lost", "crossed", "signedOut", "expired"} = {}
          Refreshing == \A u \in Tab :
                            /\ refreshing[u] # "false"
                            /\ refreshing[u] = "true" => token[u] # 0
          Brought == \A u \in Tab :
                        auth[u]["refresh"].at = "answered" => auth[u]["refresh"].got > 0
          Good(x) == /\ x.at # "unauthorized"
                     /\ x.at = "401" => x.retry
                     /\ x.at = "sent" /\ ~x.retry => x.bearer # 0
          Requests == \A q \in Request : Good(req[q])
          Blank == /\ stored = 0
                   /\ \A u \in Tab : token[u] = 0 /\ status[u] # "connected"
                   /\ \A q \in Request : req[q].at = "none"
          Body == Refreshing /\ Brought /\ Requests /\ (cookie = 0 => Blank)
<1>a. ASSUME Quiet' => Quiet, Quiet' /\ Quiet /\ Body => Body'
      PROVE  QuietInv'
  <2>1. CASE ~Quiet'
    BY <2>1 DEF QuietInv
  <2>2. CASE Quiet'
    <3>1. Body
      BY <1>a, <2>2 DEF QuietInv
    <3>2. Body'
      BY <1>a, <2>2, <3>1
    <3> QED
      BY <3>2 DEF QuietInv
  <2> QED
    BY <2>1, <2>2
<1>b. Quiet => Body /\ "logoutLost" \notin met /\ "crossed" \notin met /\ "lost" \notin met
  BY DEF QuietInv, AnswersInv
<1>c. ASSUME NEW t \in Tab, NEW k \in AuthKind, NEW p, Ends(t, k) \/ Sends(t, k, p) \/ auth' = auth
      PROVE  Brought => Brought'
  BY <1>c DEF Ends, Sends, Others, AuthKind
<1>d. ASSUME NEW t \in Tab, NEW k \in AuthKind, NEW p, Answers(t, k, p), k # "refresh" \/ p > 0
      PROVE  Brought => Brought'
  BY <1>d DEF Answers, Others, AuthKind
<1>e. req' = req => (Requests => Requests')
  OBVIOUS
<1>f. ASSUME NEW r \in Request, NEW x, Moves(r, x), Good(x)
      PROVE  Requests => Requests'
  BY <1>f DEF Moves
<1>g. refreshing' = refreshing /\ token' = token => (Refreshing => Refreshing')
  OBVIOUS
<1>h. ASSUME stored' = stored, token' = token, req' = req,
             \A u \in Tab : status'[u] = "connected" => status[u] = "connected"
      PROVE  Blank => Blank'
  BY <1>h
<1>i. ASSUME stored' = stored, req' = req, NEW t \in Tab, Caches(t),
             \A u \in Tab : status'[u] = "connected" => status[u] = "connected"
      PROVE  Blank => Blank'
  BY <1>i DEF Caches
<1>l. ASSUME NEW t \in Tab, Caches(t), refreshing' = refreshing
      PROVE  Refreshing => Refreshing'
  BY <1>l DEF Caches
<1>m. ASSUME FlightsStay
      PROVE  Brought => Brought'
  BY <1>m DEF FlightsStay, InFlight, AuthKind
<1>j. ASSUME NEW t \in Tab, NEW k \in AuthKind, Quiet, InFlight(t, k)
      PROVE  k # "logout"
  BY <1>j DEF AnswersInv
<1>k. auth' = auth => (Brought => Brought')
  OBVIOUS
<1> HIDE DEF Refreshing, Brought, Requests, Blank, Good
<1>1. ASSUME NEW t \in Tab, NEW p \in Player, Connect(t, p)
      PROVE  QuietInv'
  <2> SUFFICES ASSUME Quiet', Quiet, Body
               PROVE  Body'
    BY <1>1, ConnectStep, <1>a, <1>b DEF Event
  <2>1. Blank => Blank'
    BY <1>1, ConnectStep, <1>i DEF Sets
  <2> QED
    BY <1>1, ConnectStep, <1>m, <1>e, <1>l, <2>1
<1>2. ASSUME NEW t \in Tab, SignedIn(t)
      PROVE  QuietInv'
  <2> SUFFICES ASSUME Quiet', Quiet, Body
               PROVE  Body'
    BY <1>2, SignedInStep, <1>a, <1>b
  <2>1. Refreshing'
    BY <1>2, SignedInStep DEF Refreshing, Sets
  <2> QED
    BY <1>2, SignedInStep, <1>c, <1>e, <2>1 DEF AuthKind
<1>3. ASSUME NEW t \in Tab, NotSignedIn(t)
      PROVE  QuietInv'
  <2> SUFFICES ASSUME Quiet', Quiet, Body
               PROVE  Body'
    BY <1>3, NotSignedInStep, <1>a, <1>b
  <2>1. Blank => Blank'
    BY <1>3, NotSignedInStep, <1>h DEF Sets
  <2> QED
    BY <1>3, NotSignedInStep, <1>c, <1>e, <1>g, <2>1 DEF AuthKind
<1>4. ASSUME NEW t \in Tab, Disconnect(t)
      PROVE  QuietInv'
  <2>1. ~Quiet'
    BY <1>4, DisconnectStep DEF Marks
  <2> QED
    BY <1>a, <2>1
<1>5. ASSUME NEW t \in Tab, SignedOut(t)
      PROVE  QuietInv'
  <2> SUFFICES ASSUME Quiet', Quiet, Body
               PROVE  Body'
    BY <1>5, SignedOutStep, <1>a, <1>b
  <2> QED
    BY <1>5, SignedOutStep, <1>j DEF InFlight, AuthKind
<1>6. ASSUME NEW t \in Tab, Reload(t)
      PROVE  QuietInv'
  <2>1. Quiet' => Quiet
    BY <1>6, ReloadStep DEF Event
  <2> SUFFICES ASSUME Body
               PROVE  Body'
    BY <1>a, <1>b, <2>1
  <2>2. Refreshing'
    BY <1>6, ReloadStep DEF Refreshing, Sets
  <2>3. Requests'
    BY <1>6, ReloadStep, BackForm DEF Requests, Good
  <2>4. Blank => \A q \in Request : req'[q] = req[q]
    BY <1>6, ReloadStep, NobodyIsNoOne DEF Blank, RequestsInv
  <2>5. Blank => Blank'
    BY <1>6, ReloadStep, <2>4 DEF Blank, Sets
  <2> QED
    BY <1>6, ReloadStep, <1>m, <2>2, <2>3, <2>5
<1>7. ASSUME NEW t \in Tab, RefreshSucceeds(t)
      PROVE  QuietInv'
  <2> SUFFICES ASSUME Quiet', Quiet, Body
               PROVE  Body'
    BY <1>7, RefreshSucceedsStep, <1>a, <1>b
  <2>1. auth[t]["refresh"].got \in Number /\ auth[t]["refresh"].got # 0
    BY <1>7, RefreshSucceedsStep, CellTyped DEF AuthKind, Number
  <2>2. Refreshing'
    BY <1>7, RefreshSucceedsStep, <2>1 DEF Refreshing, Sets
  <2>3. \A q \in Request : Good(Replayed(q, auth[t]["refresh"].got))
    BY <2>1, ReplayForm DEF Good
  <2>4. Requests'
    BY <1>7, RefreshSucceedsStep, <2>3 DEF Requests
  <2> QED
    BY <1>7, RefreshSucceedsStep, <1>c, <2>1, <2>2, <2>4 DEF AuthKind
<1>8. ASSUME NEW t \in Tab, RefreshRefused(t)
      PROVE  QuietInv'
  <2> SUFFICES ASSUME Quiet', Quiet, Body
               PROVE  Body'
    BY <1>8, RefreshRefusedStep, <1>a, <1>b
  <2> QED
    BY <1>8, RefreshRefusedStep DEF Brought, Refused, Broken
<1>9. ASSUME NEW t \in Tab, RefreshLost(t)
      PROVE  QuietInv'
  <2> SUFFICES ASSUME Quiet', Quiet, Body
               PROVE  Body'
    BY <1>9, RefreshLostStep, <1>a, <1>b
  <2> QED
    BY <1>9, RefreshLostStep DEF Brought, Lost
<1>10. ASSUME NEW t \in Tab, Forget(t)
      PROVE  QuietInv'
  <2>1. Refreshing => Refreshing'
    BY <1>10, ForgetStep DEF Refreshing, Sets
  <2> QED
    BY <1>10, ForgetStep, <1>a, <1>b, <1>e, <1>h, <1>k, <2>1
<1>11. ASSUME NEW t \in Tab, NEW r \in Request, Send(t, r)
      PROVE  QuietInv'
  <2> SUFFICES ASSUME Quiet', Quiet, Body
               PROVE  Body'
    BY <1>11, SendStep, <1>a, <1>b
  <2>1. cookie # 0
    BY <1>11, SendStep DEF Blank
  <2>2. Refreshing'
    BY <1>11, SendStep DEF Refreshing, Sets, GetToken
  <2>3. Requests'
    BY <1>11, SendStep DEF Requests, Good
  <2> QED
    BY <1>11, SendStep, <1>k, <2>1, <2>2, <2>3
<1>12. ASSUME NEW r \in Request, ReturnUnauthorized(r)
      PROVE  QuietInv'
  <2> SUFFICES ASSUME Quiet', Quiet, Body
               PROVE  Body'
    BY <1>12, ReturnStep, <1>a, <1>b
  <2>1. refreshing[req[r].tab] = "false"
    BY <1>12, ReturnStep DEF Requests, Good
  <2>2. req[r].tab \in Tab
    BY <1>12, ReturnStep DEF RequestsInv, OpenPoint
  <2> QED
    BY <2>1, <2>2 DEF Refreshing
<1>13. ASSUME NEW r \in Request, TryRefresh(r)
      PROVE  QuietInv'
  <2> SUFFICES ASSUME Quiet', Quiet, Body
               PROVE  Body'
    BY <1>13, TryRefreshStep, <1>a, <1>b DEF Marks
  <2>1. cookie # 0
    BY <1>13, TryRefreshStep DEF Blank
  <2>2. Refreshing'
    BY <1>13, TryRefreshStep DEF Refreshing, Sets, Caches
  <2>3. Good(At(r, "waiting"))
    BY AtForm DEF Good
  <2> QED
    BY <1>13, TryRefreshStep, <1>c, <1>f, <2>1, <2>2, <2>3 DEF AuthKind
<1>14. ASSUME NEW r \in Request, ShareRefresh(r)
      PROVE  QuietInv'
  <2> SUFFICES ASSUME Quiet', Quiet, Body
               PROVE  Body'
    BY <1>14, ShareRefreshStep, <1>a, <1>b
  <2>1. cookie # 0
    BY <1>14, ShareRefreshStep DEF Blank
  <2>2. Requests'
    <3>1. CASE refreshing[req[r].tab] = "true"
      <4>1. GetToken(req[r].tab) # 0 /\ GetToken(req[r].tab) \in Number
        BY <1>14, ShareRefreshStep, <3>1 DEF Refreshing, GetToken
      <4>2. Good(Replayed(r, GetToken(req[r].tab)))
        BY <4>1, ReplayForm DEF Good
      <4> QED
        BY <1>14, ShareRefreshStep, <1>f, <3>1, <4>2
    <3>2. CASE refreshing[req[r].tab] # "true"
      <4>1. Good(At(r, "waiting"))
        BY AtForm DEF Good
      <4> QED
        BY <1>14, ShareRefreshStep, <1>f, <3>2, <4>1
    <3> QED
      BY <3>1, <3>2
  <2> QED
    BY <1>14, ShareRefreshStep, <1>l, <1>k, <2>1, <2>2
<1>15. ASSUME NEW t \in Tab, IssueSession(t)
      PROVE  QuietInv'
  <2>1. Brought => Brought'
    BY <1>15, ServeVerifyStep, <1>d DEF AuthKind
  <2> QED
    BY <1>15, ServeVerifyStep, <1>a, <1>b, <1>e, <1>g, <1>h, <2>1
<1>16. ASSUME NEW t \in Tab, ServeRefresh(t)
      PROVE  QuietInv'
  <2> SUFFICES ASSUME Quiet', Quiet, Body
               PROVE  Body'
    BY <1>16, ServeRefreshStep, <1>a, <1>b
  <2> DEFINE c == auth[t]["refresh"].cookie
  <2>1. "refresh" \in AuthKind /\ InFlight(t, "refresh") /\ auth[t]["refresh"].at = "sent"
        /\ met \cap {"lost", "logoutLost", "crossed"} = {}
    BY <1>16, ServeRefreshStep, <1>b DEF InFlight, AuthKind
  <2>2. cookie # 0
    <3>1. \E q \in Request : req[q].at = "waiting"
      BY <2>1 DEF SharingInv
    <3> QED
      BY <3>1 DEF Blank
  <2>3. c = cookie /\ IsLive(cookie)
    <3>1. \A u \in Tab, l \in AuthKind : auth[u][l].at # "answered"
      BY <2>1 DEF CrossInv, InFlight
    <3>2. \A l \in {"refresh", "logout"} : l \in AuthKind
      BY DEF AuthKind
    <3>3. \A u \in Tab, l \in {"refresh", "logout"} : auth[u][l].at # "answered"
      BY <3>1, <3>2
    <3>4. IsLive(cookie)
      BY <2>1, <3>3 DEF CalmInv
    <3>5. c = cookie
      BY <2>1 DEF CalmInv
    <3> QED
      BY <3>4, <3>5
  <2>4. c \in 0 .. Len(sessions) /\ Len(sessions) \in Nat
    BY <1>16, ServeRefreshStep, TypedNow
  <2>5. c # 0 /\ ~sessions[c].revoked
    BY <2>2, <2>3, <2>4 DEF IsLive
  <2>6. Answers(t, "refresh", Len(sessions) + 1)
    BY <1>16, ServeRefreshStep, <2>5
  <2>7. Len(sessions) + 1 > 0
    BY <2>4
  <2>8. Brought => Brought'
    BY <1>d, <2>1, <2>6, <2>7
  <2> QED
    BY <1>16, ServeRefreshStep, <1>e, <1>g, <1>h, <2>8
<1>17. ASSUME NEW t \in Tab, ServeLogout(t)
      PROVE  QuietInv'
  <2> SUFFICES ASSUME Quiet', Quiet, Body
               PROVE  Body'
    BY <1>17, ServeLogoutStep, <1>a, <1>b
  <2> QED
    BY <1>17, ServeLogoutStep, <1>j DEF InFlight, AuthKind
<1>18. ASSUME NEW t \in Tab, NEW k \in AuthKind, AuthFails(t, k)
      PROVE  QuietInv'
  <2> SUFFICES ASSUME Quiet', Quiet, Body
               PROVE  Body'
    BY <1>18, AuthFailsStep, <1>a, <1>b DEF Event
  <2> QED
    BY <1>18, AuthFailsStep, <1>j DEF InFlight
<1>19. ASSUME NEW r \in Request, ServeRequest(r) \/ RequestLost(r)
      PROVE  QuietInv'
  <2> SUFFICES ASSUME Quiet', Quiet, Body
               PROVE  Body'
    BY <1>19, ServeRequestStep, <1>a, <1>b
  <2>1. cookie # 0
    BY <1>19, ServeRequestStep DEF Blank
  <2>2. Good(Back("over"))
    BY BackForm DEF Good
  <2> QED
    BY <1>19, ServeRequestStep, <1>f, <1>g, <1>k, <2>1, <2>2
<1>20. ASSUME NEW r \in Request, RefuseRequest(r)
      PROVE  QuietInv'
  <2> SUFFICES ASSUME Quiet', Quiet, Body
               PROVE  Body'
    BY <1>20, RefuseStep, <1>a, <1>b
  <2>1. cookie # 0
    BY <1>20, RefuseStep DEF Blank
  <2>2. req[r].retry
    <3> SUFFICES ASSUME ~req[r].retry PROVE FALSE
      OBVIOUS
    <3>1. req[r].bearer # 0 /\ JustIssued(req[r].bearer)
      BY <1>20, RefuseStep DEF Requests, Good, JustIssued
    <3> QED
      BY <1>20, RefuseStep, <3>1 DEF Valid, FreshInv
  <2>3. Good(At(r, "401"))
    BY <2>2, AtForm DEF Good
  <2> QED
    BY <1>20, RefuseStep, <1>f, <1>g, <1>k, <2>1, <2>3
<1>21. ASSUME ExpireCookie
      PROVE  QuietInv'
  <2>1. ~Quiet'
    BY <1>21, ExpireStep
  <2> QED
    BY <1>a, <2>1
<1>22. ASSUME UNCHANGED vars
      PROVE  QuietInv'
  BY <1>22, StutterStep, <1>a, <1>b, <1>e, <1>g, <1>h, <1>k
<1>23. ASSUME NEW t \in Tab, Sign(t)
      PROVE  QuietInv'
  <2> SUFFICES ASSUME Quiet', Quiet, Body
               PROVE  Body'
    BY <1>23, SignStep, <1>a, <1>b DEF Marks
  <2>1. Blank => Blank'
    BY <1>23, SignStep, <1>i
  <2> QED
    BY <1>23, SignStep, <1>c, <1>e, <1>l, <2>1 DEF AuthKind
<1>24. ASSUME NEW t \in Tab, NotSigned(t)
      PROVE  QuietInv'
  <2> SUFFICES ASSUME Quiet', Quiet, Body
               PROVE  Body'
    BY <1>24, NotSignedStep, <1>a, <1>b
  <2>1. Blank => Blank'
    BY <1>24, NotSignedStep, <1>h DEF Sets
  <2> QED
    BY <1>24, NotSignedStep, <1>m, <1>e, <1>g, <2>1
<1>25. ASSUME NEW t \in Tab, RefuseVerify(t)
      PROVE  QuietInv'
  <2>1. Brought => Brought'
    BY <1>25, RefuseVerifyStep, <1>d DEF AuthKind
  <2> QED
    BY <1>25, RefuseVerifyStep, <1>a, <1>b, <1>e, <1>g, <1>h, <2>1
<1> QED
  BY <1>1, <1>2, <1>3, <1>4, <1>5, <1>6, <1>7, <1>8, <1>9, <1>10, <1>11,
     <1>12, <1>13, <1>14, <1>15, <1>16, <1>17, <1>18, <1>19, <1>20, <1>21, <1>22,
     <1>23, <1>24, <1>25, VerifySplits
  DEF Next, InBrowser, AtServer

\* The sessions in use stay one player's: a sign-in replaces every one of them.
LEMMA PlayersKept ==
    ASSUME TypeOK, RequestsInv, SharingInv, ShowingInv, AnswersInv,
           CrossInv, FinishedInv, PlayersInv, [Next]_vars
    PROVE  PlayersInv'
<1> DEFINE Straight == met \cap {"crossed", "unfinished"} = {}
          OnePlayer == \A m, n \in DOMAIN sessions :
                          InUse(m) /\ InUse(n) => sessions[m].player = sessions[n].player
          TheOneShown == \A u \in Tab, n \in DOMAIN sessions :
                          shown[u] # Nobody /\ InUse(n) => sessions[n].player = shown[u]
          Right(x) == x.player # Nobody => x.bearer # 0 /\ sessions[x.bearer].player = x.player
          RightBearers == \A q \in Request : Right(req[q])
          SamePlayers == \A n \in DOMAIN sessions :
                          n \in DOMAIN sessions' /\ sessions'[n].player = sessions[n].player
          Shrinks == \A n \in DOMAIN sessions' :
                          InUse(n)' => \E m \in DOMAIN sessions :
                                          InUse(m) /\ sessions'[n].player = sessions[m].player
          SameShown == \A u \in Tab : shown'[u] = shown[u] \/ shown'[u] = Nobody
<1>a. ASSUME Straight' => Straight, Straight' /\ Straight => OnePlayer' /\ TheOneShown' /\ RightBearers'
      PROVE  PlayersInv'
  BY <1>a DEF PlayersInv
<1>b. Straight => /\ OnePlayer /\ TheOneShown /\ RightBearers
                  /\ "crossed" \notin met /\ "unfinished" \notin met
  BY DEF PlayersInv
<1>c. OnePlayer /\ Shrinks => OnePlayer'
  OBVIOUS
<1>d. TheOneShown /\ Shrinks /\ SameShown => TheOneShown'
  OBVIOUS
<1>e. SamePlayers /\ req' = req => (RightBearers => RightBearers')
  BY AuthTyped, SessionsTyped DEF RequestRow
<1>f. sessions' = sessions => (RightBearers /\ (\A q \in Request : req'[q] = req[q] \/ req'[q].player = Nobody)
                                  => RightBearers')
  OBVIOUS
<1>g. DOMAIN sessions = 1 .. Len(sessions) /\ Len(sessions) \in Nat /\ 0 \notin DOMAIN sessions
  BY SessionsTyped
<1>h. sessions' = sessions => SamePlayers
  OBVIOUS
<1>i. ASSUME sessions' = sessions, \A n \in DOMAIN sessions : InUse(n)' => InUse(n)
      PROVE  Shrinks
  BY <1>i
<1>j. ASSUME cookie' \in {cookie, 0}, stored' \in {stored, 0},
             \A u \in Tab : status'[u] = "connected" => status[u] = "connected" /\ token'[u] \in {token[u], stored, 0},
             \A q \in Request : req'[q].at \in OpenPoint =>
                                   req[q].at \in OpenPoint /\ req'[q].bearer = req[q].bearer,
             \A u \in Tab : \/ auth'[u]["refresh"] = auth[u]["refresh"]
                            \/ auth'[u]["refresh"].at \notin {"sent", "answered"}
                            \/ auth'[u]["refresh"].at = "sent" /\ auth'[u]["refresh"].cookie = cookie
                            \/ auth'[u]["refresh"].at = "answered" /\ auth'[u]["refresh"].got <= 0
      PROVE  \A n \in DOMAIN sessions : InUse(n)' => InUse(n)
  BY <1>g, <1>j DEF InUse
<1>k. ASSUME SamePlayers, NEW n \in DOMAIN sessions, n \in DOMAIN sessions', InUse(n)
      PROVE  \E m \in DOMAIN sessions : InUse(m) /\ sessions'[n].player = sessions[m].player
  BY <1>k
<1>l. ASSUME NEW t \in Tab, NEW k \in AuthKind, NEW p,
             Ends(t, k) \/ Sends(t, k, p) \/ (Answers(t, k, p) /\ (k # "refresh" \/ p <= 0))
      PROVE  \A u \in Tab : \/ auth'[u]["refresh"] = auth[u]["refresh"]
                            \/ auth'[u]["refresh"].at \notin {"sent", "answered"}
                            \/ auth'[u]["refresh"].at = "sent" /\ auth'[u]["refresh"].cookie = cookie
                            \/ auth'[u]["refresh"].at = "answered" /\ auth'[u]["refresh"].got <= 0
  BY <1>l DEF Ends, Sends, Answers, Others, AuthKind
<1>q. ASSUME FlightsStay
      PROVE  \A u \in Tab : \/ auth'[u]["refresh"] = auth[u]["refresh"]
                            \/ auth'[u]["refresh"].at \notin {"sent", "answered"}
  BY <1>q DEF FlightsStay, InFlight, AuthKind
<1>m. \A q \in Request : req[q].at \notin OpenPoint => req[q].player = Nobody
  BY DEF RequestsInv
<1>n. "over" \notin OpenPoint /\ "unauthorized" \notin OpenPoint /\ "none" \notin OpenPoint
      /\ "401" \in OpenPoint /\ "waiting" \in OpenPoint /\ "sent" \in OpenPoint
  BY DEF OpenPoint
<1>p. /\ Back("over").player = Nobody /\ Back("over").at \notin OpenPoint
      /\ Back("unauthorized").player = Nobody /\ Back("unauthorized").at \notin OpenPoint
  <2>1. Back("over").player = Nobody /\ Back("over").at = "over"
    BY BackForm
  <2>2. Back("unauthorized").player = Nobody /\ Back("unauthorized").at = "unauthorized"
    BY BackForm
  <2> QED
    BY <1>n, <2>1, <2>2
<1>o. ASSUME NEW n \in Nat, n # 0, InUse(n)
      PROVE  n \in DOMAIN sessions
  <2>1. \/ n \in Number
        \/ \E u \in Tab : n = auth[u]["refresh"].got
    BY <1>o, TypedNow, CellTyped, AuthTyped DEF InUse, RequestRow, AuthKind
  <2>2. CASE n \in Number
    BY <1>g, <1>o, <2>2 DEF Number
  <2>3. CASE \E u \in Tab : n = auth[u]["refresh"].got
    <3>1. PICK u \in Tab : n = auth[u]["refresh"].got
      BY <2>3
    <3>2. n > 0 /\ "refresh" \in AuthKind
      BY <1>o DEF AuthKind
    <3> QED
      BY <1>g, <3>1, <3>2, CellTyped
  <2> QED
    BY <2>1, <2>2, <2>3
<1> HIDE DEF OnePlayer, TheOneShown, RightBearers, Right, SamePlayers, Shrinks, SameShown
<1>1. ASSUME NEW t \in Tab, NEW p \in Player, Connect(t, p)
      PROVE  PlayersInv'
  <2>1. Straight' => Straight
    BY <1>1, ConnectStep DEF Event
  <2>2. \A n \in DOMAIN sessions : InUse(n)' => InUse(n)
    BY <1>1, ConnectStep, <1>j, <1>q DEF Sets, Caches
  <2>3. SameShown
    BY <1>1, ConnectStep DEF SameShown, Sets
  <2> QED
    BY <1>1, ConnectStep, <1>a, <1>b, <1>c, <1>d, <1>e, <1>h, <1>i, <2>1, <2>2, <2>3
<1>2. ASSUME NEW t \in Tab, SignedIn(t)
      PROVE  PlayersInv'
  <2> DEFINE got == auth[t]["verify"].got
  <2> SUFFICES ASSUME Straight
               PROVE  OnePlayer' /\ TheOneShown' /\ RightBearers'
    BY <1>2, SignedInStep, <1>a
  <2>1. /\ InFlight(t, "verify") /\ auth[t]["verify"].at = "answered" /\ got > 0
        /\ got \in DOMAIN sessions /\ "verify" \in AuthKind /\ "refresh" \in AuthKind
    BY <1>2, SignedInStep, CellTyped, <1>g DEF InFlight, AuthKind
  <2>2. sessions[got].player = auth[t]["verify"].player
    BY <2>1 DEF AnswersInv
  <2>3. \A u \in Tab : auth[u]["refresh"].at \notin {"sent", "answered"} /\ status[u] # "connected"
    BY <1>b, <2>1 DEF CrossInv, InFlight
  <2>4. status[t] = "authenticating"
    BY <2>1 DEF ShowingInv
  <2>5. \A q \in Request : req[q].at \notin OpenPoint
    <3> SUFFICES ASSUME NEW q \in Request, req[q].at \in OpenPoint PROVE FALSE
      OBVIOUS
    <3>1. req[q].tab \in Tab /\ status[req[q].tab] = "connected"
      BY <1>b DEF FinishedInv, RequestsInv
    <3> QED
      BY <2>3, <2>4, <3>1
  <2>6. \A u \in Tab : u # t => shown[u] = Nobody
    BY <2>3 DEF ShowingInv
  <2>7. ASSUME NEW n, InUse(n)'
        PROVE  n = got
    BY <1>2, SignedInStep, <2>1, <2>3, <2>5, <2>7 DEF InUse, Sets, Ends, Others
  <2>8. OnePlayer'
    BY <2>7 DEF OnePlayer
  <2>9. TheOneShown'
    BY <1>2, SignedInStep, <2>2, <2>6, <2>7 DEF TheOneShown, Sets
  <2>10. RightBearers'
    BY <1>2, SignedInStep, <1>m, <2>5 DEF RightBearers, Right
  <2> QED
    BY <2>8, <2>9, <2>10
<1>3. ASSUME NEW t \in Tab, NotSignedIn(t)
      PROVE  PlayersInv'
  <2>1. Straight' => Straight
    BY <1>3, NotSignedInStep DEF Event
  <2>2. \A n \in DOMAIN sessions : InUse(n)' => InUse(n)
    BY <1>3, NotSignedInStep, <1>j, <1>l DEF Sets, AuthKind
  <2>3. SameShown
    BY <1>3, NotSignedInStep DEF SameShown, Sets
  <2> QED
    BY <1>3, NotSignedInStep, <1>a, <1>b, <1>c, <1>d, <1>e, <1>h, <1>i, <2>1, <2>2, <2>3
<1>4. ASSUME NEW t \in Tab, Disconnect(t)
      PROVE  PlayersInv'
  <2>1. Straight' => Straight
    BY <1>4, DisconnectStep DEF Marks
  <2>2. \A n \in DOMAIN sessions : InUse(n)' => InUse(n)
    BY <1>4, DisconnectStep, <1>j, <1>l DEF Sets, Caches, AuthKind
  <2>3. SameShown
    BY <1>4, DisconnectStep DEF SameShown, Sets
  <2> QED
    BY <1>4, DisconnectStep, <1>a, <1>b, <1>c, <1>d, <1>e, <1>h, <1>i, <2>1, <2>2, <2>3
<1>5. ASSUME NEW t \in Tab, SignedOut(t)
      PROVE  PlayersInv'
  <2>1. Straight' => Straight
    BY <1>5, SignedOutStep DEF Event
  <2>2. \A n \in DOMAIN sessions : InUse(n)' => InUse(n)
    BY <1>5, SignedOutStep, <1>j, <1>l DEF Sets, AuthKind
  <2>3. SameShown
    BY <1>5, SignedOutStep DEF SameShown, Sets
  <2> QED
    BY <1>5, SignedOutStep, <1>a, <1>b, <1>c, <1>d, <1>e, <1>h, <1>i, <2>1, <2>2, <2>3
<1>6. ASSUME NEW t \in Tab, Reload(t)
      PROVE  PlayersInv'
  <2>1. Straight' => Straight
    BY <1>6, ReloadStep DEF Event
  <2>2. \A q \in Request : req'[q] = req[q] \/ (req'[q].player = Nobody /\ req'[q].at \notin OpenPoint)
    BY <1>6, ReloadStep, <1>p
  <2>3. ASSUME NEW n \in DOMAIN sessions, InUse(n)'
        PROVE  InUse(n)
    <3>1. \A u \in Tab : \/ auth'[u]["refresh"] = auth[u]["refresh"]
                          \/ auth'[u]["refresh"].at \notin {"sent", "answered"}
      BY <1>6, ReloadStep, <1>q
    <3> QED
      BY <1>6, ReloadStep, <2>2, <2>3, <3>1 DEF InUse, Sets
  <2>4. SameShown
    BY <1>6, ReloadStep DEF SameShown, Sets
  <2> QED
    BY <1>6, ReloadStep, <1>a, <1>b, <1>c, <1>d, <1>f, <1>i, <2>1, <2>2, <2>3, <2>4
<1>7. ASSUME NEW t \in Tab, RefreshSucceeds(t)
      PROVE  PlayersInv'
  <2> DEFINE got == auth[t]["refresh"].got
  <2> SUFFICES ASSUME Straight
               PROVE  OnePlayer' /\ TheOneShown' /\ RightBearers'
    BY <1>7, RefreshSucceedsStep, <1>a
  <2>1. got \in Number /\ got # 0 /\ got \in DOMAIN sessions /\ InUse(got)
    BY <1>7, RefreshSucceedsStep, CellTyped, <1>g DEF InUse, AuthKind, Number
  <2>2. \A q \in Request : \/ req'[q] = req[q]
                          \/ /\ req[q].at = "waiting" /\ req'[q].bearer = got
                             /\ req'[q].player = req[q].player
    BY <1>7, RefreshSucceedsStep, ReplayForm, <2>1
  <2>3. ASSUME NEW n \in DOMAIN sessions, InUse(n)'
        PROVE  InUse(n)
    BY <1>7, RefreshSucceedsStep, <1>n, <2>1, <2>2, <2>3 DEF InUse, Sets, Ends, Others, AuthKind
  <2>4. SameShown
    BY <1>7, RefreshSucceedsStep DEF SameShown
  <2>5. ASSUME NEW q \in Request, req[q].at = "waiting", req[q].player # Nobody
        PROVE  sessions[got].player = req[q].player
    <3>1. req[q].bearer # 0 /\ sessions[req[q].bearer].player = req[q].player
      BY <1>b, <2>5 DEF RightBearers, Right
    <3>2. req[q].bearer \in DOMAIN sessions
      BY <1>g, <3>1, AuthTyped DEF RequestRow
    <3>3. InUse(req[q].bearer)
      BY <1>n, <2>5 DEF InUse
    <3> QED
      BY <1>b, <2>1, <3>1, <3>2, <3>3 DEF OnePlayer
  <2>6. RightBearers'
    BY <1>7, RefreshSucceedsStep, <1>b, <2>1, <2>2, <2>5 DEF RightBearers, Right
  <2> QED
    BY <1>7, RefreshSucceedsStep, <1>b, <1>c, <1>d, <1>i, <2>3, <2>4, <2>6
<1>8. ASSUME NEW t \in Tab, RefreshRefused(t)
      PROVE  PlayersInv'
  <2>1. Straight' => Straight
    BY <1>8, RefreshRefusedStep DEF Event
  <2>2. \A q \in Request : req'[q] = req[q] \/ (req'[q].player = Nobody /\ req'[q].at \notin OpenPoint)
    BY <1>8, RefreshRefusedStep, <1>p DEF Moves
  <2>3. \A n \in DOMAIN sessions : InUse(n)' => InUse(n)
    BY <1>8, RefreshRefusedStep, <1>j, <1>l, <2>2 DEF Sets, AuthKind
  <2>4. SameShown
    BY <1>8, RefreshRefusedStep DEF SameShown
  <2> QED
    BY <1>8, RefreshRefusedStep, <1>a, <1>b, <1>c, <1>d, <1>f, <1>i, <2>1, <2>2, <2>3, <2>4
<1>9. ASSUME NEW t \in Tab, RefreshLost(t)
      PROVE  PlayersInv'
  <2>1. Straight' => Straight
    BY <1>9, RefreshLostStep DEF Event
  <2>2. \A q \in Request : req'[q] = req[q] \/ (req'[q].player = Nobody /\ req'[q].at \notin OpenPoint)
    BY <1>9, RefreshLostStep, <1>p DEF Moves
  <2>3. \A n \in DOMAIN sessions : InUse(n)' => InUse(n)
    BY <1>9, RefreshLostStep, <1>j, <1>l, <2>2 DEF Sets, AuthKind
  <2>4. SameShown
    BY <1>9, RefreshLostStep DEF SameShown
  <2> QED
    BY <1>9, RefreshLostStep, <1>a, <1>b, <1>c, <1>d, <1>f, <1>i, <2>1, <2>2, <2>3, <2>4
<1>10. ASSUME NEW t \in Tab, Forget(t)
      PROVE  PlayersInv'
  <2>1. Straight' => Straight
    BY <1>10, ForgetStep DEF Event
  <2>2. \A n \in DOMAIN sessions : InUse(n)' => InUse(n)
    BY <1>10, ForgetStep, <1>j DEF Sets, AuthKind
  <2>3. SameShown
    BY <1>10, ForgetStep DEF SameShown, Sets
  <2> QED
    BY <1>10, ForgetStep, <1>a, <1>b, <1>c, <1>d, <1>e, <1>h, <1>i, <2>1, <2>2, <2>3
<1>11. ASSUME NEW t \in Tab, NEW r \in Request, Send(t, r)
      PROVE  PlayersInv'
  <2>1. Straight' => Straight
    BY <1>11, SendStep DEF Event
  <2>2. ASSUME NEW n \in DOMAIN sessions, n = GetToken(t)
        PROVE  InUse(n)
    BY <1>11, SendStep, <2>2 DEF InUse, GetToken
  <2>3. ASSUME NEW n \in DOMAIN sessions, InUse(n)'
        PROVE  InUse(n)
    BY <1>11, SendStep, <2>2, <2>3 DEF InUse, Sets
  <2>4. SameShown
    BY <1>11, SendStep DEF SameShown
  <2>5. RightBearers => RightBearers'
    BY <1>11, SendStep DEF RightBearers, Right, PlayerOf
  <2> QED
    BY <1>11, SendStep, <1>a, <1>b, <1>c, <1>d, <1>i, <2>1, <2>3, <2>4, <2>5
<1>12. ASSUME NEW r \in Request, ReturnUnauthorized(r)
      PROVE  PlayersInv'
  <2>1. Straight' => Straight
    BY <1>12, ReturnStep DEF Event
  <2>2. \A q \in Request : req'[q] = req[q] \/ (req'[q].player = Nobody /\ req'[q].at \notin OpenPoint)
    BY <1>12, ReturnStep, <1>p DEF Moves
  <2>3. \A n \in DOMAIN sessions : InUse(n)' => InUse(n)
    BY <1>12, ReturnStep, <1>j, <1>l, <2>2 DEF Sets, AuthKind
  <2>4. SameShown
    BY <1>12, ReturnStep DEF SameShown
  <2> QED
    BY <1>12, ReturnStep, <1>a, <1>b, <1>c, <1>d, <1>f, <1>i, <2>1, <2>2, <2>3, <2>4
<1>13. ASSUME NEW r \in Request, TryRefresh(r)
      PROVE  PlayersInv'
  <2>1. Straight' => Straight
    BY <1>13, TryRefreshStep DEF Marks
  <2>2. /\ req'[r].at = "waiting" /\ req'[r].bearer = req[r].bearer /\ req'[r].player = req[r].player
        /\ req[r].at \in OpenPoint
        /\ \A q \in Request : q # r => req'[q] = req[q]
    BY <1>13, TryRefreshStep, AtForm, <1>n DEF Moves
  <2>3. \A n \in DOMAIN sessions : InUse(n)' => InUse(n)
    BY <1>13, TryRefreshStep, <1>j, <1>l, <2>2 DEF AuthKind, Caches
  <2>4. SameShown
    BY <1>13, TryRefreshStep DEF SameShown
  <2>5. RightBearers => RightBearers'
    BY <1>13, TryRefreshStep, <2>2 DEF RightBearers, Right
  <2> QED
    BY <1>13, TryRefreshStep, <1>a, <1>b, <1>c, <1>d, <1>i, <2>1, <2>3, <2>4, <2>5
<1>14. ASSUME NEW r \in Request, ShareRefresh(r)
      PROVE  PlayersInv'
  <2> DEFINE t == req[r].tab
             g == GetToken(t)
  <2> SUFFICES ASSUME Straight
               PROVE  OnePlayer' /\ TheOneShown' /\ RightBearers'
    BY <1>14, ShareRefreshStep, <1>a
  <2>1. t \in Tab /\ req[r].at \in OpenPoint /\ status[t] = "connected" /\ g \in Number
    BY <1>14, ShareRefreshStep, <1>b, <1>n DEF FinishedInv
  <2>2. refreshing[t] = "true" => g # 0 /\ g \in DOMAIN sessions
    BY <1>b, <1>g, <2>1 DEF CrossInv, GetToken, Number
  <2>3. g \in DOMAIN sessions => InUse(g)
    BY <2>1 DEF InUse, GetToken
  <2>4. /\ req'[r].bearer = IF refreshing[t] = "true" THEN g ELSE req[r].bearer
        /\ req'[r].player = req[r].player
        /\ \A q \in Request : q # r => req'[q] = req[q]
    BY <1>14, ShareRefreshStep, AtForm, ReplayForm, <2>1 DEF Moves
  <2> HIDE DEF g, t
  <2>5. ASSUME NEW n \in DOMAIN sessions, InUse(n)'
        PROVE  InUse(n)
    <3>1. \A u \in Tab : token'[u] \in {token[u], stored}
      BY <1>14, ShareRefreshStep DEF Caches
    <3> QED
      BY <1>14, ShareRefreshStep, <2>1, <2>2, <2>3, <2>4, <2>5, <3>1 DEF InUse
  <2>6. SameShown
    BY <1>14, ShareRefreshStep DEF SameShown
  <2>7. req[r].player # Nobody =>
           /\ req[r].bearer # 0 /\ sessions[req[r].bearer].player = req[r].player
           /\ req[r].bearer \in DOMAIN sessions /\ InUse(req[r].bearer)
    BY <1>b, <1>g, <2>1, AuthTyped DEF RightBearers, Right, InUse, RequestRow
  <2>8. req[r].player # Nobody /\ refreshing[t] = "true" => sessions[g].player = req[r].player
    BY <1>b, <2>2, <2>3, <2>7 DEF OnePlayer
  <2>9. RightBearers'
    BY <1>14, ShareRefreshStep, <1>b, <2>2, <2>4, <2>7, <2>8 DEF RightBearers, Right
  <2> QED
    BY <1>14, ShareRefreshStep, <1>b, <1>c, <1>d, <1>i, <2>5, <2>6, <2>9
<1>15. ASSUME NEW t \in Tab, IssueSession(t)
      PROVE  PlayersInv'
  <2> SUFFICES ASSUME Straight
               PROVE  OnePlayer' /\ TheOneShown' /\ RightBearers'
    BY <1>15, ServeVerifyStep, <1>a
  <2>0. DOMAIN sessions' = 1 .. Len(sessions')
    BY LenProperties, TypeKept DEF TypeOK, CallsInv
  <2>1. SamePlayers
    <3>1. Len(sessions') = Len(sessions) + 1
          /\ \A n \in 1 .. Len(sessions) : sessions'[n] = sessions[n]
      BY <1>15, ServeVerifyStep
    <3>2. \A n \in 1 .. Len(sessions) : n \in 1 .. Len(sessions')
      BY <1>g, <3>1
    <3> QED
      BY <1>g, <2>0, <3>1, <3>2 DEF SamePlayers
  <2>2. ASSUME NEW n, InUse(n)'
        PROVE  InUse(n)
    BY <1>15, ServeVerifyStep, <2>2 DEF InUse, Answers, Others, AuthKind
  <2>3. ASSUME NEW n \in DOMAIN sessions', InUse(n)
        PROVE  n \in DOMAIN sessions
    BY <1>g, <1>o, <2>0, <2>3
  <2>4. Shrinks
    BY <1>k, <2>1, <2>2, <2>3 DEF Shrinks
  <2>5. SameShown
    BY <1>15, ServeVerifyStep DEF SameShown
  <2> QED
    BY <1>15, ServeVerifyStep, <1>b, <1>c, <1>d, <1>e, <2>1, <2>4, <2>5
<1>16. ASSUME NEW t \in Tab, ServeRefresh(t)
      PROVE  PlayersInv'
  <2> SUFFICES ASSUME Straight
               PROVE  OnePlayer' /\ TheOneShown' /\ RightBearers'
    BY <1>16, ServeRefreshStep, <1>a
  <2>0. DOMAIN sessions' = 1 .. Len(sessions')
    BY LenProperties, TypeKept DEF TypeOK, CallsInv
  <2> DEFINE c == auth[t]["refresh"].cookie
             M == Len(sessions) + 1
  <2>1. /\ Len(sessions') \in {Len(sessions), M}
        /\ c \in 0 .. Len(sessions) /\ InUse(c)
    BY <1>16, ServeRefreshStep DEF InUse
  <2>2. SamePlayers
    <3>1. \A n \in 1 .. Len(sessions) : sessions'[n].player = sessions[n].player
      BY <1>16, ServeRefreshStep
    <3>2. \A n \in 1 .. Len(sessions) : n \in 1 .. Len(sessions')
      BY <1>g, <2>1
    <3> QED
      BY <1>g, <2>0, <3>1, <3>2 DEF SamePlayers
  <2>3. PICK got : /\ Answers(t, "refresh", got)
                   /\ \/ got = 0
                      \/ /\ got = M /\ c # 0 /\ sessions'[M].player = sessions[c].player
    BY <1>16, ServeRefreshStep DEF Refused
  <2>4. ASSUME NEW n, InUse(n)'
        PROVE  InUse(n) \/ n = got
    <3>1. cookie' = cookie /\ stored' = stored /\ token' = token /\ status' = status /\ req' = req
      BY <1>16, ServeRefreshStep
    <3>2. /\ auth'[t]["refresh"].at = "answered" /\ auth'[t]["refresh"].got = got
          /\ \A u \in Tab : u # t => auth'[u]["refresh"] = auth[u]["refresh"]
      BY <2>3 DEF Answers, Others, AuthKind
    <3> QED
      BY <2>4, <3>1, <3>2 DEF InUse
  <2>5. ASSUME NEW n \in DOMAIN sessions', InUse(n)'
        PROVE  \E m \in DOMAIN sessions : InUse(m) /\ sessions'[n].player = sessions[m].player
    <3>1. n \in Nat /\ n # 0
      <4>1. M \in Nat
        BY <1>g
      <4>2. Len(sessions') \in Nat
        BY <1>g, <2>1, <4>1
      <4>3. n \in 1 .. Len(sessions')
        BY <2>0, <2>5
      <4> QED
        BY <4>2, <4>3
    <3>2. CASE InUse(n)
      BY <1>k, <1>o, <2>2, <2>5, <3>1, <3>2
    <3>3. CASE n = got
      <4>1. n = M /\ c # 0 /\ sessions'[n].player = sessions[c].player
        BY <2>3, <3>1, <3>3
      <4>2. c \in DOMAIN sessions
        BY <1>g, <2>1, <4>1
      <4> QED
        BY <2>1, <4>1, <4>2
    <3> QED
      BY <2>4, <2>5, <3>2, <3>3
  <2>6. Shrinks
    BY <2>5 DEF Shrinks
  <2>7. SameShown
    BY <1>16, ServeRefreshStep DEF SameShown
  <2> QED
    BY <1>16, ServeRefreshStep, <1>b, <1>c, <1>d, <1>e, <2>2, <2>6, <2>7
<1>17. ASSUME NEW t \in Tab, ServeLogout(t)
      PROVE  PlayersInv'
  <2> SUFFICES ASSUME Straight
               PROVE  OnePlayer' /\ TheOneShown' /\ RightBearers'
    BY <1>17, ServeLogoutStep, <1>a
  <2>0. DOMAIN sessions' = 1 .. Len(sessions')
    BY LenProperties, TypeKept DEF TypeOK, CallsInv
  <2>1. SamePlayers
    BY <1>17, ServeLogoutStep, <1>g, <2>0 DEF SamePlayers
  <2>2. ASSUME NEW n, InUse(n)'
        PROVE  InUse(n)
    BY <1>17, ServeLogoutStep, <2>2 DEF InUse, Answers, Others, AuthKind
  <2>3. DOMAIN sessions' = DOMAIN sessions
    BY <1>17, ServeLogoutStep, <1>g, <2>0
  <2>4. Shrinks
    BY <1>k, <2>1, <2>2, <2>3 DEF Shrinks
  <2>5. SameShown
    BY <1>17, ServeLogoutStep DEF SameShown
  <2> QED
    BY <1>17, ServeLogoutStep, <1>b, <1>c, <1>d, <1>e, <2>1, <2>4, <2>5
<1>18. ASSUME NEW t \in Tab, NEW k \in AuthKind, AuthFails(t, k)
      PROVE  PlayersInv'
  <2>1. (Straight' => Straight) /\ Lost <= 0 /\ Broken <= 0
    BY <1>18, AuthFailsStep DEF Event, Lost, Broken
  <2>2. \A n \in DOMAIN sessions : InUse(n)' => InUse(n)
    BY <1>18, AuthFailsStep, <1>j, <1>l, <2>1
  <2>3. SameShown
    BY <1>18, AuthFailsStep DEF SameShown
  <2> QED
    BY <1>18, AuthFailsStep, <1>a, <1>b, <1>c, <1>d, <1>e, <1>h, <1>i, <2>1, <2>2, <2>3
<1>19. ASSUME NEW r \in Request, ServeRequest(r) \/ RequestLost(r)
      PROVE  PlayersInv'
  <2>1. Straight' => Straight
    BY <1>19, ServeRequestStep DEF Event
  <2>2. \A q \in Request : req'[q] = req[q] \/ (req'[q].player = Nobody /\ req'[q].at \notin OpenPoint)
    BY <1>19, ServeRequestStep, <1>p DEF Moves
  <2>3. \A n \in DOMAIN sessions : InUse(n)' => InUse(n)
    BY <1>19, ServeRequestStep, <1>j, <1>l, <2>2 DEF Sets, AuthKind
  <2>4. SameShown
    BY <1>19, ServeRequestStep DEF SameShown
  <2> QED
    BY <1>19, ServeRequestStep, <1>a, <1>b, <1>c, <1>d, <1>f, <1>i, <2>1, <2>2, <2>3, <2>4
<1>20. ASSUME NEW r \in Request, RefuseRequest(r)
      PROVE  PlayersInv'
  <2>1. Straight' => Straight
    BY <1>20, RefuseStep DEF Event
  <2>2. /\ req'[r].at = "401" /\ req'[r].bearer = req[r].bearer /\ req'[r].player = req[r].player
        /\ req[r].at \in OpenPoint
        /\ \A q \in Request : q # r => req'[q] = req[q]
    BY <1>20, RefuseStep, AtForm, <1>n DEF Moves
  <2>3. \A n \in DOMAIN sessions : InUse(n)' => InUse(n)
    BY <1>20, RefuseStep, <1>j, <1>l, <2>2 DEF AuthKind
  <2>4. SameShown
    BY <1>20, RefuseStep DEF SameShown
  <2>5. RightBearers => RightBearers'
    BY <1>20, RefuseStep, <2>2 DEF RightBearers, Right
  <2> QED
    BY <1>20, RefuseStep, <1>a, <1>b, <1>c, <1>d, <1>i, <2>1, <2>3, <2>4, <2>5
<1>21. ASSUME ExpireCookie
      PROVE  PlayersInv'
  <2>1. Straight' => Straight
    BY <1>21, ExpireStep DEF Event
  <2>2. \A n \in DOMAIN sessions : InUse(n)' => InUse(n)
    BY <1>21, ExpireStep, <1>j DEF Sets, AuthKind
  <2>3. SameShown
    BY <1>21, ExpireStep DEF SameShown, Sets
  <2> QED
    BY <1>21, ExpireStep, <1>a, <1>b, <1>c, <1>d, <1>e, <1>h, <1>i, <2>1, <2>2, <2>3
<1>22. ASSUME UNCHANGED vars
      PROVE  PlayersInv'
  <2>1. Straight' => Straight
    BY <1>22, StutterStep DEF Event
  <2>2. \A n \in DOMAIN sessions : InUse(n)' => InUse(n)
    BY <1>22, StutterStep, <1>j DEF Sets, AuthKind
  <2>3. SameShown
    BY <1>22, StutterStep DEF SameShown, Sets
  <2> QED
    BY <1>22, StutterStep, <1>a, <1>b, <1>c, <1>d, <1>e, <1>h, <1>i, <2>1, <2>2, <2>3
<1>23. ASSUME NEW t \in Tab, Sign(t)
      PROVE  PlayersInv'
  <2>1. Straight' => Straight
    BY <1>23, SignStep DEF Marks
  <2>2. \A n \in DOMAIN sessions : InUse(n)' => InUse(n)
    BY <1>23, SignStep, <1>j, <1>l DEF Caches, AuthKind
  <2>3. SameShown
    BY <1>23, SignStep DEF SameShown, Sets
  <2> QED
    BY <1>23, SignStep, <1>a, <1>b, <1>c, <1>d, <1>e, <1>h, <1>i, <2>1, <2>2, <2>3
<1>24. ASSUME NEW t \in Tab, NotSigned(t)
      PROVE  PlayersInv'
  <2>1. Straight' => Straight
    BY <1>24, NotSignedStep DEF Event
  <2>2. \A n \in DOMAIN sessions : InUse(n)' => InUse(n)
    BY <1>24, NotSignedStep, <1>j, <1>l DEF Sets, AuthKind
  <2>3. SameShown
    BY <1>24, NotSignedStep DEF SameShown, Sets
  <2> QED
    BY <1>24, NotSignedStep, <1>a, <1>b, <1>c, <1>d, <1>e, <1>h, <1>i, <2>1, <2>2, <2>3
<1>25. ASSUME NEW t \in Tab, RefuseVerify(t)
      PROVE  PlayersInv'
  <2>1. (Straight' => Straight) /\ Refused <= 0 /\ "verify" \in AuthKind
    BY <1>25, RefuseVerifyStep DEF Refused, AuthKind
  <2>2. \A n \in DOMAIN sessions : InUse(n)' => InUse(n)
    BY <1>25, RefuseVerifyStep, <1>j, <1>l, <2>1
  <2>3. SameShown
    BY <1>25, RefuseVerifyStep DEF SameShown
  <2> QED
    BY <1>25, RefuseVerifyStep, <1>a, <1>b, <1>c, <1>d, <1>e, <1>h, <1>i, <2>1, <2>2, <2>3
<1> QED
  BY <1>1, <1>2, <1>3, <1>4, <1>5, <1>6, <1>7, <1>8, <1>9, <1>10, <1>11,
     <1>12, <1>13, <1>14, <1>15, <1>16, <1>17, <1>18, <1>19, <1>20, <1>21, <1>22,
     <1>23, <1>24, <1>25, VerifySplits
  DEF Next, InBrowser, AtServer

\* A tab out of use holds no token.
LEMMA OutKept ==
    ASSUME TypeOK, RequestsInv, SharingInv, ShowingInv, AnswersInv,
           FinishedInv, OutInv, [Next]_vars
    PROVE  OutInv'
<1> DEFINE Kept == "unfinished" \notin met
          Leaving(u) == status[u] # "disconnected" \/ InFlight(u, "logout")
          OutHoldNone == \A u \in Tab : ~Leaving(u) => token[u] = 0
          SomeoneIn == stored # 0 => \E u \in Tab : Leaving(u)
<1>a. ASSUME Kept' => Kept, Kept' /\ Kept => OutHoldNone' /\ SomeoneIn'
      PROVE  OutInv'
  BY <1>a DEF OutInv
<1>b. Kept => OutHoldNone /\ SomeoneIn
  BY DEF OutInv
<1>c. ASSUME NEW t \in Tab, NEW k \in AuthKind, NEW p,
             \/ (Ends(t, k) \/ Sends(t, k, p)) /\ k # "logout"
             \/ Answers(t, k, p) /\ InFlight(t, k)
      PROVE  \A u \in Tab : InFlight(u, "logout")' <=> InFlight(u, "logout")
  BY <1>c DEF InFlight, Ends, Sends, Answers, Others, AuthKind
<1>d. ASSUME status' = status, token' = token, stored' = stored,
             \A u \in Tab : InFlight(u, "logout")' <=> InFlight(u, "logout")
      PROVE  /\ OutHoldNone => OutHoldNone'
             /\ SomeoneIn => SomeoneIn'
  BY <1>d
<1>e. auth' = auth => \A u \in Tab : InFlight(u, "logout")' <=> InFlight(u, "logout")
  BY DEF InFlight
<1>g. FlightsStay => \A u \in Tab : InFlight(u, "logout")' <=> InFlight(u, "logout")
  BY DEF FlightsStay, InFlight, AuthKind
<1>h. ASSUME NEW t \in Tab, Caches(t), status[t] = "connected",
             status' = status, stored' = stored,
             \A u \in Tab : InFlight(u, "logout")' <=> InFlight(u, "logout")
      PROVE  /\ OutHoldNone => OutHoldNone'
             /\ SomeoneIn => SomeoneIn'
  BY <1>h DEF Caches
<1>f. ASSUME NEW t \in Tab, Leaving(t)', stored' = stored \/ Leaving(t)'
      PROVE  SomeoneIn'
  BY <1>f
<1> HIDE DEF OutHoldNone, SomeoneIn
<1>1. ASSUME NEW t \in Tab, NEW p \in Player, Connect(t, p)
      PROVE  OutInv'
  <2> SUFFICES ASSUME Kept', Kept, OutHoldNone, SomeoneIn
               PROVE  OutHoldNone' /\ SomeoneIn'
    BY <1>1, ConnectStep, <1>a, <1>b
  <2>0. \A u \in Tab : InFlight(u, "logout")' <=> InFlight(u, "logout")
    BY <1>1, ConnectStep, <1>g
  <2>1. OutHoldNone'
    BY <1>1, ConnectStep, <2>0 DEF OutHoldNone, Sets, Caches
  <2>2. SomeoneIn'
    BY <1>1, ConnectStep, <2>0 DEF SomeoneIn, Sets
  <2> QED
    BY <2>1, <2>2
<1>2. ASSUME NEW t \in Tab, SignedIn(t)
      PROVE  OutInv'
  <2> SUFFICES ASSUME Kept', Kept, OutHoldNone, SomeoneIn
               PROVE  OutHoldNone' /\ SomeoneIn'
    BY <1>2, SignedInStep, <1>a, <1>b
  <2>1. OutHoldNone'
    BY <1>2, SignedInStep DEF OutHoldNone, Sets, Ends, Sends, Others, InFlight, AuthKind
  <2>2. SomeoneIn'
    BY <1>2, SignedInStep DEF SomeoneIn, Sets, Ends, Sends, Others, InFlight, AuthKind
  <2> QED
    BY <2>1, <2>2
<1>3. ASSUME NEW t \in Tab, NotSignedIn(t)
      PROVE  OutInv'
  <2> SUFFICES ASSUME Kept', Kept, OutHoldNone, SomeoneIn
               PROVE  OutHoldNone' /\ SomeoneIn'
    BY <1>3, NotSignedInStep, <1>a, <1>b
  <2>0. \A u \in Tab : InFlight(u, "logout")' <=> InFlight(u, "logout")
    BY <1>3, NotSignedInStep, <1>c DEF AuthKind
  <2>1. OutHoldNone'
    BY <1>3, NotSignedInStep, <2>0 DEF OutHoldNone, Sets
  <2>2. SomeoneIn'
    BY <1>3, NotSignedInStep, <2>0 DEF SomeoneIn, Sets
  <2> QED
    BY <2>1, <2>2
<1>4. ASSUME NEW t \in Tab, Disconnect(t)
      PROVE  OutInv'
  <2> SUFFICES ASSUME Kept', Kept, OutHoldNone, SomeoneIn
               PROVE  OutHoldNone' /\ SomeoneIn'
    BY <1>4, DisconnectStep, <1>a, <1>b DEF Marks
  <2>1. OutHoldNone'
    BY <1>4, DisconnectStep DEF OutHoldNone, Sets, Caches, Ends, Sends, Others, InFlight, AuthKind
  <2>2. SomeoneIn'
    BY <1>4, DisconnectStep DEF SomeoneIn, Sets, Ends, Sends, Others, InFlight, AuthKind
  <2> QED
    BY <2>1, <2>2
<1>5. ASSUME NEW t \in Tab, SignedOut(t)
      PROVE  OutInv'
  <2> SUFFICES ASSUME Kept', Kept, OutHoldNone, SomeoneIn
               PROVE  OutHoldNone' /\ SomeoneIn'
    BY <1>5, SignedOutStep, <1>a, <1>b
  <2>1. OutHoldNone'
    BY <1>5, SignedOutStep DEF OutHoldNone, Sets, Ends, Sends, Others, InFlight, AuthKind
  <2>2. SomeoneIn'
    BY <1>5, SignedOutStep DEF SomeoneIn, Sets, Ends, Sends, Others, InFlight, AuthKind
  <2> QED
    BY <2>1, <2>2
<1>6. ASSUME NEW t \in Tab, Reload(t)
      PROVE  OutInv'
  <2> SUFFICES ASSUME Kept', Kept, OutHoldNone, SomeoneIn
               PROVE  OutHoldNone' /\ SomeoneIn'
    BY <1>6, ReloadStep, <1>a, <1>b DEF Event
  <2>0. \A u \in Tab : InFlight(u, "logout")' <=> InFlight(u, "logout")
    BY <1>6, ReloadStep, <1>g
  <2>1. OutHoldNone'
    BY <1>6, ReloadStep, <2>0 DEF OutHoldNone, Sets
  <2>2. SomeoneIn'
    BY <1>6, ReloadStep, <2>0 DEF SomeoneIn, Sets
  <2> QED
    BY <2>1, <2>2
<1>7. ASSUME NEW t \in Tab, RefreshSucceeds(t)
      PROVE  OutInv'
  <2> SUFFICES ASSUME Kept', Kept, OutHoldNone, SomeoneIn
               PROVE  OutHoldNone' /\ SomeoneIn'
    BY <1>7, RefreshSucceedsStep, <1>a, <1>b
  <2>1. status[t] = "connected"
    <3>1. \E q \in Request : req[q].at = "waiting" /\ req[q].tab = t
      BY <1>7, RefreshSucceedsStep DEF SharingInv, InFlight
    <3> QED
      BY <3>1 DEF FinishedInv, OpenPoint
  <2>2. OutHoldNone'
    BY <1>7, RefreshSucceedsStep, <2>1
    DEF OutHoldNone, Sets, Ends, Sends, Others, InFlight, AuthKind
  <2>3. SomeoneIn'
    BY <1>7, RefreshSucceedsStep, <2>1
    DEF SomeoneIn, Sets, Ends, Sends, Others, InFlight, AuthKind
  <2> QED
    BY <2>2, <2>3
<1>8. ASSUME NEW t \in Tab, RefreshRefused(t)
      PROVE  OutInv'
  <2> SUFFICES ASSUME Kept', Kept, OutHoldNone, SomeoneIn
               PROVE  OutHoldNone' /\ SomeoneIn'
    BY <1>8, RefreshRefusedStep, <1>a, <1>b
  <2>1. OutHoldNone'
    BY <1>8, RefreshRefusedStep DEF OutHoldNone, Sets, Ends, Sends, Others, InFlight, AuthKind
  <2>2. SomeoneIn'
    BY <1>8, RefreshRefusedStep DEF SomeoneIn, Sets, Ends, Sends, Others, InFlight, AuthKind
  <2> QED
    BY <2>1, <2>2
<1>9. ASSUME NEW t \in Tab, RefreshLost(t)
      PROVE  OutInv'
  <2>1. Kept' => Kept
    BY <1>9, RefreshLostStep DEF Event
  <2>2. \A u \in Tab : InFlight(u, "logout")' <=> InFlight(u, "logout")
    BY <1>9, RefreshLostStep, <1>c DEF AuthKind
  <2> QED
    BY <1>9, RefreshLostStep, <1>a, <1>b, <1>d, <2>1, <2>2
<1>10. ASSUME NEW t \in Tab, Forget(t)
      PROVE  OutInv'
  <2>1. Kept' => Kept
    BY <1>10, ForgetStep
  <2> QED
    BY <1>10, ForgetStep, <1>a, <1>b, <1>d, <1>e, <2>1
<1>11. ASSUME NEW t \in Tab, NEW r \in Request, Send(t, r)
      PROVE  OutInv'
  <2> SUFFICES ASSUME Kept', Kept, OutHoldNone, SomeoneIn
               PROVE  OutHoldNone' /\ SomeoneIn'
    BY <1>11, SendStep, <1>a, <1>b
  <2>1. OutHoldNone'
    BY <1>11, SendStep DEF OutHoldNone, Sets, Ends, Sends, Others, InFlight, AuthKind
  <2>2. SomeoneIn'
    BY <1>11, SendStep DEF SomeoneIn, Sets, Ends, Sends, Others, InFlight, AuthKind
  <2> QED
    BY <2>1, <2>2
<1>12. ASSUME NEW r \in Request, ReturnUnauthorized(r)
      PROVE  OutInv'
  <2>1. Kept' => Kept
    BY <1>12, ReturnStep
  <2> QED
    BY <1>12, ReturnStep, <1>a, <1>b, <1>d, <1>e, <2>1
<1>13. ASSUME NEW r \in Request, TryRefresh(r)
      PROVE  OutInv'
  <2>1. Kept' => Kept
    BY <1>13, TryRefreshStep DEF Marks
  <2>2. \A u \in Tab : InFlight(u, "logout")' <=> InFlight(u, "logout")
    BY <1>13, TryRefreshStep, <1>c DEF AuthKind
  <2>3. Kept => status[req[r].tab] = "connected"
    BY <1>13, TryRefreshStep DEF FinishedInv, OpenPoint
  <2> QED
    BY <1>13, TryRefreshStep, <1>a, <1>b, <1>h, <2>1, <2>2, <2>3
<1>14. ASSUME NEW r \in Request, ShareRefresh(r)
      PROVE  OutInv'
  <2>1. Kept' => Kept
    BY <1>14, ShareRefreshStep
  <2>2. Kept => status[req[r].tab] = "connected"
    BY <1>14, ShareRefreshStep DEF FinishedInv, OpenPoint
  <2> QED
    BY <1>14, ShareRefreshStep, <1>a, <1>b, <1>h, <1>e, <2>1, <2>2
<1>15. ASSUME NEW t \in Tab, IssueSession(t)
      PROVE  OutInv'
  <2>1. Kept' => Kept
    BY <1>15, ServeVerifyStep DEF Event
  <2>2. \A u \in Tab : InFlight(u, "logout")' <=> InFlight(u, "logout")
    BY <1>15, ServeVerifyStep, <1>c DEF AuthKind, InFlight
  <2> QED
    BY <1>15, ServeVerifyStep, <1>a, <1>b, <1>d, <2>1, <2>2
<1>16. ASSUME NEW t \in Tab, ServeRefresh(t)
      PROVE  OutInv'
  <2>1. Kept' => Kept
    BY <1>16, ServeRefreshStep DEF Event
  <2>2. \A u \in Tab : InFlight(u, "logout")' <=> InFlight(u, "logout")
    BY <1>16, ServeRefreshStep, <1>c DEF AuthKind, InFlight
  <2> QED
    BY <1>16, ServeRefreshStep, <1>a, <1>b, <1>d, <2>1, <2>2
<1>17. ASSUME NEW t \in Tab, ServeLogout(t)
      PROVE  OutInv'
  <2>1. Kept' => Kept
    BY <1>17, ServeLogoutStep DEF Event
  <2>2. \A u \in Tab : InFlight(u, "logout")' <=> InFlight(u, "logout")
    BY <1>17, ServeLogoutStep, <1>c DEF AuthKind, InFlight
  <2> QED
    BY <1>17, ServeLogoutStep, <1>a, <1>b, <1>d, <2>1, <2>2
<1>18. ASSUME NEW t \in Tab, NEW k \in AuthKind, AuthFails(t, k)
      PROVE  OutInv'
  <2>1. Kept' => Kept
    BY <1>18, AuthFailsStep DEF Event
  <2>2. \A u \in Tab : InFlight(u, "logout")' <=> InFlight(u, "logout")
    BY <1>18, AuthFailsStep, <1>c DEF AuthKind, InFlight
  <2> QED
    BY <1>18, AuthFailsStep, <1>a, <1>b, <1>d, <2>1, <2>2
<1>19. ASSUME NEW r \in Request, ServeRequest(r) \/ RequestLost(r)
      PROVE  OutInv'
  <2>1. Kept' => Kept
    BY <1>19, ServeRequestStep
  <2> QED
    BY <1>19, ServeRequestStep, <1>a, <1>b, <1>d, <1>e, <2>1
<1>20. ASSUME NEW r \in Request, RefuseRequest(r)
      PROVE  OutInv'
  <2>1. Kept' => Kept
    BY <1>20, RefuseStep
  <2> QED
    BY <1>20, RefuseStep, <1>a, <1>b, <1>d, <1>e, <2>1
<1>21. ASSUME ExpireCookie
      PROVE  OutInv'
  <2>1. Kept' => Kept
    BY <1>21, ExpireStep
  <2> QED
    BY <1>21, ExpireStep, <1>a, <1>b, <1>d, <1>e, <2>1
<1>22. ASSUME UNCHANGED vars
      PROVE  OutInv'
  <2>1. Kept' => Kept
    BY <1>22, StutterStep
  <2> QED
    BY <1>22, StutterStep, <1>a, <1>b, <1>d, <1>e, <2>1
<1>23. ASSUME NEW t \in Tab, Sign(t)
      PROVE  OutInv'
  <2> SUFFICES ASSUME Kept', Kept, OutHoldNone, SomeoneIn
               PROVE  OutHoldNone' /\ SomeoneIn'
    BY <1>23, SignStep, <1>a, <1>b DEF Marks
  <2>0. \A u \in Tab : InFlight(u, "logout")' <=> InFlight(u, "logout")
    BY <1>23, SignStep, <1>c DEF AuthKind
  <2>1. OutHoldNone'
    BY <1>23, SignStep, <2>0 DEF OutHoldNone, Caches
  <2>2. SomeoneIn'
    BY <1>23, SignStep, <2>0 DEF SomeoneIn
  <2> QED
    BY <2>1, <2>2
<1>24. ASSUME NEW t \in Tab, NotSigned(t)
      PROVE  OutInv'
  <2> SUFFICES ASSUME Kept', Kept, OutHoldNone, SomeoneIn
               PROVE  OutHoldNone' /\ SomeoneIn'
    BY <1>24, NotSignedStep, <1>a, <1>b
  <2>0. \A u \in Tab : InFlight(u, "logout")' <=> InFlight(u, "logout")
    BY <1>24, NotSignedStep, <1>c DEF AuthKind
  <2>1. OutHoldNone'
    BY <1>24, NotSignedStep, <2>0 DEF OutHoldNone, Sets
  <2>2. SomeoneIn'
    BY <1>24, NotSignedStep, <2>0 DEF SomeoneIn, Sets
  <2> QED
    BY <2>1, <2>2
<1>25. ASSUME NEW t \in Tab, RefuseVerify(t)
      PROVE  OutInv'
  <2>1. Kept' => Kept
    BY <1>25, RefuseVerifyStep DEF Event
  <2>2. \A u \in Tab : InFlight(u, "logout")' <=> InFlight(u, "logout")
    BY <1>25, RefuseVerifyStep, <1>c DEF AuthKind, InFlight
  <2> QED
    BY <1>25, RefuseVerifyStep, <1>a, <1>b, <1>d, <2>1, <2>2
<1> QED
  BY <1>1, <1>2, <1>3, <1>4, <1>5, <1>6, <1>7, <1>8, <1>9, <1>10, <1>11,
     <1>12, <1>13, <1>14, <1>15, <1>16, <1>17, <1>18, <1>19, <1>20, <1>21, <1>22,
     <1>23, <1>24, <1>25, VerifySplits
  DEF Next, InBrowser, AtServer

\* The first state satisfies the invariant.
LEMMA InitInv == Init => IInv
<1> SUFFICES ASSUME Init PROVE IInv
  OBVIOUS
<1>1. /\ sessions = <<>> /\ Len(sessions) = 0 /\ DOMAIN sessions = {}
      /\ stale = {} /\ theft = FALSE /\ cookie = 0 /\ stored = 0 /\ met = {}
  BY EmptySeq, LenProperties DEF Init
<1>2. \A t \in Tab : /\ token[t] = 0 /\ status[t] = "disconnected" /\ shown[t] = Nobody
                     /\ refreshing[t] = "null"
                     /\ \A k \in AuthKind : auth[t][k] = NoCall
  BY DEF Init
<1>3. \A r \in Request : req[r] = NoRequest /\ played[r] = 0
  BY DEF Init
<1>4. /\ NoCall.at = "none" /\ NoRequest.at = "none" /\ NoRequest.tab = Nobody
      /\ NoRequest.player = Nobody /\ NoRequest.bearer = 0
  BY DEF NoCall, NoRequest
<1>5. /\ \A t \in Tab : /\ auth[t]["refresh"].at = "none" /\ auth[t]["verify"].at = "none"
                        /\ auth[t]["logout"].at = "none"
      /\ \A t \in Tab, k \in AuthKind : auth[t][k].at = "none"
      /\ \A r \in Request : /\ req[r].at = "none" /\ req[r].tab = Nobody
                            /\ req[r].player = Nobody /\ req[r].bearer = 0
  BY <1>2, <1>3, <1>4 DEF AuthKind
<1>6. TypeOK
  <2>1. Number = {0}
    BY <1>1 DEF Number
  <2>2. sessions \in Seq([player : Player, revoked : BOOLEAN])
    BY <1>1, EmptySeq
  <2>3. NoCall \in [at : {"none", "signing", "sent", "answered"}, cookie : Number,
                    player : Player \cup {Nobody}, got : {Broken, Lost} \cup Number]
    BY <2>1 DEF NoCall, Refused
  <2>4. NoRequest \in [at : {"none", "sent", "401", "waiting", "over", "unauthorized"},
                       tab : Tab \cup {Nobody}, bearer : Number,
                       player : Player \cup {Nobody}, retry : BOOLEAN]
    BY <2>1 DEF NoRequest
  <2>5. /\ auth \in [Tab -> [AuthKind -> [at : {"none", "signing", "sent", "answered"}, cookie : Number,
                             player : Player \cup {Nobody}, got : {Broken, Lost} \cup Number]]]
        /\ req \in [Request -> [at : {"none", "sent", "401", "waiting", "over", "unauthorized"},
                                tab : Tab \cup {Nobody}, bearer : Number,
                                player : Player \cup {Nobody}, retry : BOOLEAN]]
    BY <2>3, <2>4 DEF Init
  <2>6. /\ token \in [Tab -> Number]
        /\ status \in [Tab -> {"disconnected", "failed", "authenticating", "connected"}]
        /\ shown \in [Tab -> Player \cup {Nobody}]
        /\ refreshing \in [Tab -> {"null", "pending", "true", "false"}]
        /\ played \in [Request -> 0..2] /\ faults \in 0..MaxFaults
    BY <2>1, BoundsAreNatural DEF Init
  <2>7. theft \in BOOLEAN
    BY <1>1
  <2>8. stale \subseteq DOMAIN sessions /\ met \subseteq Event
    BY <1>1
  <2>9. cookie \in Number /\ stored \in Number
    BY <1>1, <2>1
  <2> QED
    BY <2>2, <2>5, <2>6, <2>7, <2>8, <2>9 DEF TypeOK
<1>7. RequestsInv
  BY <1>3, <1>5 DEF RequestsInv, OpenPoint
<1>8. SharingInv /\ ShowingInv
  BY <1>2, <1>5 DEF SharingInv, ShowingInv, InFlight
<1>9. AnswersInv
  BY <1>1, <1>5 DEF AnswersInv, InFlight
<1>10. CookieInv /\ FreshInv
  BY <1>1 DEF CookieInv, FreshInv
<1>11. CrossInv /\ FinishedInv
  BY <1>2, <1>5 DEF CrossInv, FinishedInv, InFlight, OpenPoint
<1>12. CalmInv
  BY <1>1, <1>5 DEF CalmInv, IsLive
<1>13. QuietInv
  BY <1>1, <1>2, <1>5 DEF QuietInv
<1>14. PlayersInv
  BY <1>1, <1>5 DEF PlayersInv
<1>15. OutInv
  BY <1>1, <1>2 DEF OutInv
<1> QED
  BY <1>6, <1>7, <1>8, <1>9, <1>10, <1>11, <1>12, <1>13, <1>14, <1>15 DEF IInv, CallsInv

\* Every step keeps it.
LEMMA IInvKept == IInv /\ [Next]_vars => IInv'
BY TypeKept, RequestsKept, SharingKept, ShowingKept, AnswersKept, CookieKept, FreshKept,
   CrossKept, FinishedKept, CalmKept, QuietKept, PlayersKept, OutKept
DEF IInv, CallsInv

\* It implies each of the properties.
LEMMA CallsComeBack == IInv => CallsComeBackOnce
<1> SUFFICES ASSUME IInv PROVE PlayedOnce /\ WaitersAreAwaited
  BY DEF CallsComeBackOnce, IInv
<1>1. PlayedOnce
  BY DEF IInv, CallsInv, RequestsInv, PlayedOnce
<1>2. WaitersAreAwaited
  BY DEF IInv, CallsInv, SharingInv, WaitersAreAwaited, Waiting, Open
<1> QED
  BY <1>1, <1>2

LEMMA NoThief == IInv => HonestBrowserIsNoThief
BY DEF IInv, CalmInv, HonestBrowserIsNoThief

LEMMA Hidden == IInv => ExpiryStaysHidden
BY DEF IInv, QuietInv, ExpiryStaysHidden

\* The token a tab sends next is in use if the tab is connected, and a request's
\* bearer if it still replays.
LEMMA ActsRightly == IInv => ActsForThePlayerShown
<1> SUFFICES ASSUME IInv, met \cap {"crossed", "unfinished"} = {}
             PROVE  /\ \A t \in Tab : shown[t] # Nobody /\ GetToken(t) # 0 =>
                                          PlayerOf(GetToken(t)) = shown[t]
                    /\ \A r \in Request : req[r].player # Nobody =>
                                              PlayerOf(req[r].bearer) = req[r].player
  BY DEF ActsForThePlayerShown
<1>1. TypeOK /\ ShowingInv /\ PlayersInv
  BY DEF IInv, CallsInv
<1>2. ASSUME NEW t \in Tab, shown[t] # Nobody, GetToken(t) # 0
      PROVE  PlayerOf(GetToken(t)) = shown[t]
  <2>1. status[t] = "connected"
    BY <1>1, <1>2 DEF ShowingInv
  <2>2. InUse(GetToken(t))
    BY <2>1 DEF InUse, GetToken
  <2>3. GetToken(t) \in 0 .. Len(sessions)
    BY <1>1, TypedNow DEF GetToken, Number
  <2>4. GetToken(t) \in DOMAIN sessions
    BY <1>1, <1>2, <2>3, SessionsTyped
  <2> QED
    BY <1>1, <1>2, <2>2, <2>4 DEF PlayersInv, PlayerOf
<1>3. ASSUME NEW r \in Request, req[r].player # Nobody
      PROVE  PlayerOf(req[r].bearer) = req[r].player
  BY <1>1, <1>3 DEF PlayersInv, PlayerOf
<1> QED
  BY <1>2, <1>3

LEMMA Shows == IInv => TabsAreWhatTheyShow
<1> SUFFICES ASSUME IInv PROVE SignedOutStaysOut
  BY ActsRightly DEF TabsAreWhatTheyShow
<1> SUFFICES ASSUME "unfinished" \notin met
             PROVE  LET out == {t \in Tab : status[t] = "disconnected" /\ ~InFlight(t, "logout")}
                    IN (\A t \in out : token[t] = 0) /\ (out = Tab => stored = 0)
  BY DEF SignedOutStaysOut
<1>1. /\ \A t \in Tab : status[t] = "disconnected" /\ ~InFlight(t, "logout") => token[t] = 0
      /\ stored # 0 => \E t \in Tab : status[t] # "disconnected" \/ InFlight(t, "logout")
  BY DEF IInv, OutInv
<1> QED
  BY <1>1

---------------------------------------------------------------------------
(* The theorems.                                                           *)

\* The inductive invariant holds of the browser and its server, for any number of
\* tabs, players and requests.
THEOREM Invariance == Spec => []IInv
BY InitInv, IInvKept, PTL DEF Spec

\* Every call of the page comes back and was carried out once at most
\* (authFetch's one retry in api.ts): whoever waits for the shared refresh waits
\* for one that is in flight.
THEOREM CallsReturn == Spec => []CallsComeBackOnce
BY Invariance, CallsComeBack, PTL

\* A browser that lost no answer and crossed no calls never presents a revoked
\* refresh token, so the server's reuse detection (auth.service.ts: refresh)
\* never takes it for a thief.
THEOREM HonestBrowsersPass == Spec => []HonestBrowserIsNoThief
BY Invariance, NoThief, PTL

\* The expiry of an access token never reaches the page, as long as no answer was
\* lost, no calls crossed, nobody signed out and the cookie has not expired.
THEOREM ExpiryIsHidden == Spec => []ExpiryStaysHidden
BY Invariance, Hidden, PTL

\* A tab acts for the player it shows, and one that signed out holds no token
\* (session-provider.tsx, auth.ts: signOut).
THEOREM TabsShowTheTruth == Spec => []TabsAreWhatTheyShow
BY Invariance, Shows, PTL
=============================================================================
