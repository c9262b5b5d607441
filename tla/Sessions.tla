------------------------------ MODULE Sessions ------------------------------
(***************************************************************************)
(* Sign-in, token rotation and sign-out of one customer on one device: the *)
(* tabs of the Angular client (AuthService, TokenStorage, the auth         *)
(* interceptor) against the API (AuthService, AuthRepository,              *)
(* securityService, the auth middleware).                                  *)
(*                                                                         *)
(* The access and the refresh token issued together are one pair, named by *)
(* a number. All tabs of a device share its UserSession row; each keeps    *)
(* its own pair, the refresh token in sessionStorage, the access token in  *)
(* memory. Every database call of the API is a step, as is every answer a  *)
(* tab receives.                                                           *)
(***************************************************************************)
EXTENDS Naturals, FiniteSets

CONSTANTS
    Tabs,       \* tabs of one browser
    NoTab,      \* the sender of a request whose tab has reloaded
    Calls,      \* HTTP requests under way at once
    MaxPairs,   \* token pairs ever issued
    Rows,       \* UserSession rows of this customer and device, numbers
    Budget      \* how often each event happens, and all of them together

Pairs == 1..MaxPairs
Events == {"signIn", "signOut", "reload", "expire", "lose", "delete", "any"}

ASSUME SessionsAssumption ==
    /\ NoTab \notin Tabs
    /\ MaxPairs \in Nat
    /\ Rows \subseteq Nat \ {0}
    /\ IsFiniteSet(Tabs)
    /\ Budget \in [Events -> Nat]

VARIABLES
    account,    \* "none", "active" or "deleted" (isActive false, deletedAt set)
    session,    \* UserSession rows: "none", "open" or "revoked" (revokedAt is set)
    pair,       \* issued pairs: session row, parent, state of the refresh token
    expired,    \* pairs whose access token is past ACCESS_TOKEN_TTL
    tab,        \* AuthService and TokenStorage of each tab
    call,       \* HTTP requests
    cut,        \* tabs that never saw the answer to one of their refreshes
    left        \* what is left of Budget

vars == <<account, session, pair, expired, tab, call, cut, left>>
server == <<account, session, pair>>

Kinds == {"none", "login", "register", "refresh", "get", "me", "meLogin", "meInit", "logout", "delete"}
\* Requests that carry the access token: the others skip the interceptor.
Guarded == {"get", "me", "meLogin", "meInit", "logout", "delete"}
SignIns == {"login", "register"}
Answers == {"ok", "denied", "failed"}

NoCall == [kind |-> "none", tab |-> NoTab, at |-> "idle", pair |-> 0, row |-> 0, again |-> FALSE]
Request(k, t, p) == [NoCall EXCEPT !.kind = k, !.tab = t, !.at = "sent", !.pair = p]
SignedOut == [status |-> "anonymous", access |-> 0, refresh |-> 0]
NoPair == [row |-> 0, parent |-> 0, token |-> "none"]

Places == {"idle", "sent", "unregistered", "found", "admitted", "consumed", "opened", "waiting"} \cup Answers
PairDocs == {NoPair} \cup [row : Rows, parent : Pairs \cup {0}, token : {"active", "revoked", "deleted"}]
TabStates == [status : {"initializing", "authenticated", "anonymous"}, access : Pairs \cup {0}, refresh : Pairs \cup {0}]
CallStates == [kind : Kinds, tab : Tabs \cup {NoTab}, at : Places, pair : Pairs \cup {0}, row : Rows \cup {0}, again : BOOLEAN]

\* Every row, token and request is one the schemas and the code know.
STypeOK ==
    /\ account \in {"none", "active", "deleted"}
    /\ session \in [Rows -> {"none", "open", "revoked"}]
    /\ pair \in [Pairs -> PairDocs]
    /\ expired \subseteq Pairs
    /\ tab \in [Tabs -> TabStates]
    /\ call \in [Calls -> CallStates]
    /\ cut \subseteq Tabs
    /\ left \in [Events -> Nat]

Init ==
    /\ account \in {"none", "active"}
    /\ session = [s \in Rows |-> "none"]
    /\ pair = [p \in Pairs |-> NoPair]
    /\ expired = {}
    /\ tab = [t \in Tabs |-> SignedOut]
    /\ call = [c \in Calls |-> NoCall]
    /\ cut = {}
    /\ left = Budget

Spend(e) ==
    /\ left[e] > 0 /\ left["any"] > 0
    /\ left' = [left EXCEPT ![e] = @ - 1, !["any"] = @ - 1]

Idle == {c \in Calls : call[c].at = "idle"}
Slot == CHOOSE c \in Idle : TRUE
RefreshesOf(t) == {c \in Calls : call[c].kind = "refresh" /\ call[c].tab = t}
\* An ordinary request leaves room for one refresh of every tab.
Room == Cardinality(Idle) > Cardinality({t \in Tabs : RefreshesOf(t) = {}})
Reply(c, answer) == call' = [call EXCEPT ![c].at = answer]
Arrived(c, k) == call[c].kind = k /\ call[c].at = "sent"

-----------------------------------------------------------------------------
(* The API. *)

Issued == {p \in Pairs : pair[p].token # "none"}
\* createTokenPair and createRefreshToken: the next pair, for row s.
IssuePair(c, s, parent) ==
    \E p \in Pairs \ Issued :
        /\ \A q \in Pairs \ Issued : p <= q
        /\ pair' = [pair EXCEPT ![p] = [row |-> s, parent |-> parent, token |-> "active"]]
        /\ call' = [call EXCEPT ![c].at = "ok", ![c].pair = p]

\* login finds the account (a wrong password is a request that changes nothing).
FindAccount(c) ==
    /\ Arrived(c, "login")
    /\ Reply(c, IF account = "active" THEN "admitted" ELSE "denied")
    /\ UNCHANGED <<server, expired, tab, cut, left>>

\* register looks for the email, then creates the account. The email is unique:
\* of two overlapping registrations one create fails.
CheckEmail(c) ==
    /\ Arrived(c, "register")
    /\ Reply(c, IF account = "none" THEN "unregistered" ELSE "denied")
    /\ UNCHANGED <<server, expired, tab, cut, left>>

CreateAccount(c) ==
    /\ call[c].at = "unregistered"
    /\ account' = IF account = "none" THEN "active" ELSE account
    /\ Reply(c, IF account = "none" THEN "admitted" ELSE "denied")
    /\ UNCHANGED <<session, pair, expired, tab, cut, left>>

\* trackSession looks for the row of the device; row 0: there is none yet, so
\* the upsert is going to insert one.
FindRow(c) ==
    /\ call[c].kind \in SignIns /\ call[c].at = "admitted"
    /\ \E s \in Rows \cup {0} :
          /\ IF s = 0 THEN \A r \in Rows : session[r] = "none" ELSE session[s] # "none"
          /\ call' = [call EXCEPT ![c].at = "found", ![c].row = s]
    /\ UNCHANGED <<server, expired, tab, cut, left>>

\* The upsert writes the row it matched, or inserts one. Nothing makes
\* (user, deviceId) unique, so two first sign-ins insert two rows.
TrackSession(c) ==
    /\ call[c].kind \in SignIns /\ call[c].at = "found"
    /\ \E s \in Rows :
          /\ IF call[c].row # 0 THEN s = call[c].row
             ELSE session[s] = "none" /\ \A r \in Rows : session[r] = "none" => s <= r
          /\ session' = [session EXCEPT ![s] = "open"]
          /\ call' = [call EXCEPT ![c].at = "opened", ![c].row = s]
    /\ UNCHANGED <<account, pair, expired, tab, cut, left>>

StartSession(c) ==
    /\ call[c].kind \in SignIns /\ call[c].at = "opened"
    /\ IssuePair(c, call[c].row, 0)
    /\ UNCHANGED <<account, session, expired, tab, cut, left>>

\* Mutant: the filter does not ask for revokedAt: null.
ConsumeAnyRefreshToken(c) ==
    /\ Arrived(c, "refresh")
    /\ IF pair[call[c].pair].token \in {"active", "revoked"}
       THEN pair' = [pair EXCEPT ![call[c].pair].token = "revoked"] /\ Reply(c, "consumed")
       ELSE pair' = pair /\ Reply(c, "denied")
    /\ UNCHANGED <<account, session, expired, tab, cut, left>>

\* consumeRefreshToken: one findOneAndUpdate on the token that is still active.
ConsumeRefreshToken(c) ==
    /\ Arrived(c, "refresh")
    /\ LET p == call[c].pair IN
       IF pair[p].token = "active"
       THEN pair' = [pair EXCEPT ![p].token = "revoked"] /\ Reply(c, "consumed")
       ELSE pair' = pair /\ Reply(c, "denied")
    /\ UNCHANGED <<account, session, expired, tab, cut, left>>

\* refresh goes on: the account, then the session the token belongs to.
CheckSession(c) ==
    /\ call[c].kind = "refresh" /\ call[c].at = "consumed"
    /\ Reply(c, IF account = "active" /\ session[pair[call[c].pair].row] # "revoked" THEN "opened" ELSE "denied")
    /\ UNCHANGED <<server, expired, tab, cut, left>>

Rotate(c) ==
    /\ call[c].kind = "refresh" /\ call[c].at = "opened"
    /\ IssuePair(c, pair[call[c].pair].row, call[c].pair)
    /\ UNCHANGED <<account, session, expired, tab, cut, left>>

\* The auth middleware: the token's time, the account, the token's session.
Authenticate(c) ==
    /\ call[c].kind \in Guarded /\ call[c].at = "sent"
    /\ LET p == call[c].pair IN
       Reply(c, IF p # 0 /\ p \notin expired /\ account = "active" /\ session[pair[p].row] # "revoked"
                THEN "admitted" ELSE "denied")
    /\ UNCHANGED <<server, expired, tab, cut, left>>

Serve(c) ==
    /\ call[c].kind \in {"get", "me", "meLogin", "meInit"} /\ call[c].at = "admitted"
    /\ Reply(c, "ok")
    /\ UNCHANGED <<server, expired, tab, cut, left>>

\* stepUpAuth reads the session again; one that was signed out meanwhile is
\* refused with a 403.
StepUp(c) ==
    /\ call[c].kind = "delete" /\ call[c].at = "admitted"
    /\ Reply(c, IF session[pair[call[c].pair].row] # "revoked" THEN "opened" ELSE "failed")
    /\ UNCHANGED <<server, expired, tab, cut, left>>

DeleteAccount(c) ==
    /\ call[c].kind = "delete" /\ call[c].at = "opened"
    /\ account' = "deleted"
    /\ Reply(c, "ok")
    /\ UNCHANGED <<session, pair, expired, tab, cut, left>>

\* logout deletes the presented refresh token, then revokes the session.
DeleteRefreshToken(c) ==
    /\ call[c].kind = "logout" /\ call[c].at = "admitted"
    /\ pair' = [pair EXCEPT ![call[c].pair].token = "deleted"]
    /\ Reply(c, "found")
    /\ UNCHANGED <<account, session, expired, tab, cut, left>>

RevokeSession(c) ==
    /\ call[c].kind = "logout" /\ call[c].at = "found"
    /\ session' = [session EXCEPT ![pair[call[c].pair].row] = "revoked"]
    /\ Reply(c, "ok")
    /\ UNCHANGED <<account, pair, expired, tab, cut, left>>

ServerStep(c) ==
    \/ FindAccount(c) \/ CheckEmail(c) \/ CreateAccount(c) \/ FindRow(c) \/ TrackSession(c) \/ StartSession(c)
    \/ ConsumeRefreshToken(c) \/ CheckSession(c) \/ Rotate(c)
    \/ Authenticate(c) \/ Serve(c) \/ StepUp(c) \/ DeleteAccount(c)
    \/ DeleteRefreshToken(c) \/ RevokeSession(c)

-----------------------------------------------------------------------------
(* The tabs. *)

Save(t, p) == [tab EXCEPT ![t].access = p, ![t].refresh = p]
ClearSession(t) == [tab EXCEPT ![t] = SignedOut]

\* guestGuard lets signed-out tabs in only; both forms submit once at a time.
Submit(t, k) ==
    /\ tab[t].status = "anonymous"
    /\ \A c \in Calls : call[c].tab = t => call[c].kind \notin SignIns \cup {"meLogin"}
    /\ Room
    /\ Spend("signIn")
    /\ call' = [call EXCEPT ![Slot] = Request(k, t, 0)]
    /\ UNCHANGED <<server, expired, tab, cut>>

Login(t) == Submit(t, "login")
Register(t) == Submit(t, "register")

\* A page asks for data; the profile page asks for the profile again.
Ask(t, k) ==
    /\ tab[t].status = "authenticated"
    /\ Room
    /\ call' = [call EXCEPT ![Slot] = Request(k, t, tab[t].access)]
    /\ UNCHANGED <<server, expired, tab, cut>>

Fetch(t) == \E k \in {"get", "me"} : Ask(t, k) /\ UNCHANGED left

AskDeletion(t) == Ask(t, "delete") /\ Spend("delete")

\* logout() of AuthService, from state s of the calls: the request is sent in
\* the background and the tab is signed out at once.
LogoutFrom(t, s) ==
    /\ tab' = ClearSession(t)
    /\ IF tab[t].refresh # 0 /\ tab[t].access # 0
       THEN call' = [s EXCEPT ![CHOOSE c \in Calls : s[c].at = "idle"] = Request("logout", t, tab[t].access)]
       ELSE call' = s

SignOut(t) ==
    /\ tab[t].status = "authenticated"
    /\ Room
    /\ Spend("signOut")
    /\ LogoutFrom(t, call)
    /\ UNCHANGED <<server, expired, cut>>

\* The tab forgets everything but sessionStorage, and AuthService.init starts
\* over. Requests under way go on in the API; their answers reach nobody.
Reload(t) ==
    /\ Cardinality(Idle) > Cardinality({u \in Tabs \ {t} : RefreshesOf(u) = {}})
    /\ Spend("reload")
    /\ tab' = [tab EXCEPT ![t].access = 0,
                          ![t].status = IF tab[t].refresh = 0 THEN "anonymous" ELSE "initializing"]
    /\ cut' = IF RefreshesOf(t) = {} THEN cut ELSE cut \cup {t}
    /\ LET kept == [c \in Calls |-> IF call[c].tab # t THEN call[c]
                                    ELSE IF call[c].at \in Answers \cup {"waiting"} THEN NoCall
                                    ELSE [call[c] EXCEPT !.tab = NoTab]]
       IN call' = IF tab[t].refresh = 0 THEN kept
                  ELSE [kept EXCEPT ![Slot] = Request("refresh", t, tab[t].refresh)]
    /\ UNCHANGED <<server, expired>>

Answered(c, k) == call[c].tab \in Tabs /\ call[c].kind \in k /\ call[c].at \in Answers
End(c) == call' = [call EXCEPT ![c] = NoCall]

\* login's tap saves the pair, its switchMap asks for the profile.
LoginAnswer(c) ==
    /\ Answered(c, SignIns)
    /\ LET t == call[c].tab p == call[c].pair IN
       IF call[c].at = "ok"
       THEN tab' = Save(t, p) /\ call' = [call EXCEPT ![c] = Request("meLogin", t, p)]
       ELSE tab' = tab /\ End(c)
    /\ UNCHANGED <<server, expired, cut, left>>

\* Mutant: no refreshInFlight$, every 401 starts a refresh of its own.
UnauthorizedAlone(c) ==
    /\ Answered(c, Guarded)
    /\ call[c].at = "denied" /\ ~call[c].again
    /\ LET t == call[c].tab IN
       /\ tab[t].status = "authenticated" /\ tab[t].refresh # 0
       /\ call' = [call EXCEPT ![c].at = "waiting", ![Slot] = Request("refresh", t, tab[t].refresh)]
    /\ UNCHANGED <<server, expired, tab, cut, left>>

\* The interceptor: a first 401 of a signed-in tab joins the refresh under way
\* or starts one; without a refresh token the session is over.
Unauthorized(c) ==
    /\ Answered(c, Guarded)
    /\ call[c].at = "denied" /\ ~call[c].again
    /\ LET t == call[c].tab IN
       /\ tab[t].status = "authenticated"
       /\ IF tab[t].refresh = 0
          THEN tab' = ClearSession(t) /\ End(c)
          ELSE /\ tab' = tab
               /\ IF RefreshesOf(t) # {}
                  THEN call' = [call EXCEPT ![c].at = "waiting"]
                  ELSE /\ Idle # {}
                       /\ call' = [call EXCEPT ![c].at = "waiting",
                                              ![Slot] = Request("refresh", t, tab[t].refresh)]
    /\ UNCHANGED <<server, expired, cut, left>>

\* Mutant: init does not catch a failed refresh.
RefreshAnswerUncaught(c) ==
    /\ Answered(c, {"refresh"})
    /\ LET t == call[c].tab p == call[c].pair IN
       IF call[c].at = "ok"
       THEN tab' = Save(t, p) /\ (IF tab[t].status = "initializing"
                                  THEN call' = [call EXCEPT ![c] = Request("meInit", t, p)] ELSE End(c))
       ELSE tab' = tab /\ End(c)
    /\ UNCHANGED <<server, expired, cut, left>>

\* The answer to a refresh reaches everyone waiting for it: init asks for the
\* profile, requests are sent again once with the new token; after a failure
\* clearSession or sessionExpired ends the session.
RefreshAnswer(c) ==
    /\ Answered(c, {"refresh"})
    /\ LET t == call[c].tab
           p == call[c].pair
           waits(d) == call[d].tab = t /\ call[d].at = "waiting"
           initial == tab[t].status = "initializing"
       IN IF call[c].at = "ok"
          THEN /\ tab' = Save(t, p)
               /\ call' = [d \in Calls |->
                     IF d = c THEN IF initial THEN Request("meInit", t, p) ELSE NoCall
                     ELSE IF waits(d) THEN [Request(call[d].kind, t, p) EXCEPT !.again = TRUE]
                     ELSE call[d]]
          ELSE /\ tab' = IF initial \/ \E d \in Calls : waits(d) THEN ClearSession(t) ELSE tab
               /\ call' = [d \in Calls |-> IF d = c \/ waits(d) THEN NoCall ELSE call[d]]
    /\ UNCHANGED <<server, expired, cut, left>>

\* loadProfile: the answer makes the tab signed in, whoever asked and whenever.
ProfileAnswer(c) ==
    /\ Answered(c, {"me", "meLogin", "meInit"})
    /\ call[c].at = "ok"
    /\ tab' = [tab EXCEPT ![call[c].tab].status = "authenticated"]
    /\ End(c)
    /\ UNCHANGED <<server, expired, cut, left>>

\* Other outcomes. init clears the session when its profile request fails.
OtherAnswer(c) ==
    /\ Answered(c, Guarded)
    /\ call[c].at = "ok" => call[c].kind \in {"get", "logout"}
    /\ call[c].at = "denied" => call[c].again \/ tab[call[c].tab].status # "authenticated"
    /\ tab' = IF call[c].kind = "meInit" THEN ClearSession(call[c].tab) ELSE tab
    /\ End(c)
    /\ UNCHANGED <<server, expired, cut, left>>

\* ProfileComponent.deleteAccount signs the tab out when the account is gone.
DeletionAnswer(c) ==
    /\ Answered(c, {"delete"}) /\ call[c].at = "ok"
    /\ LogoutFrom(call[c].tab, [call EXCEPT ![c] = NoCall])
    /\ UNCHANGED <<server, expired, cut, left>>

ClientStep(c) ==
    \/ LoginAnswer(c) \/ Unauthorized(c) \/ RefreshAnswer(c)
    \/ ProfileAnswer(c) \/ OtherAnswer(c) \/ DeletionAnswer(c)

-----------------------------------------------------------------------------
(* The environment. *)

\* An answer to a tab that reloaded.
Drop(c) ==
    /\ call[c].tab = NoTab /\ call[c].at \in Answers
    /\ End(c)
    /\ UNCHANGED <<server, expired, tab, cut, left>>

\* A request or its answer is lost, or the API answers 500: the tab sees an
\* error that is not a 401.
Lose(c) ==
    /\ call[c].tab \in Tabs /\ call[c].at \in {"sent", "ok"}
    /\ Spend("lose")
    /\ Reply(c, "failed")
    /\ cut' = IF call[c].kind = "refresh" THEN cut \cup {call[c].tab} ELSE cut
    /\ UNCHANGED <<server, expired, tab>>

Expire ==
    /\ Spend("expire")
    /\ \E p \in Issued \ expired : expired' = expired \cup {p}
    /\ UNCHANGED <<server, tab, call, cut>>

Next ==
    \/ \E c \in Calls : ServerStep(c) \/ ClientStep(c) \/ Drop(c) \/ Lose(c)
    \/ \E t \in Tabs : Login(t) \/ Register(t) \/ Fetch(t) \/ AskDeletion(t) \/ SignOut(t) \/ Reload(t)
    \/ Expire

Spec == Init /\ [][Next]_vars

\* Requests that were sent are answered, and answers are delivered.
FairSpec == Spec /\ \A c \in Calls : WF_vars(ServerStep(c) \/ ClientStep(c) \/ Drop(c))

-----------------------------------------------------------------------------
(* Properties. *)

Live == {p \in Pairs : pair[p].token = "active"}
Heirs == [p \in Pairs |-> {q \in Issued : pair[q].parent = p}]
Rotation == INSTANCE TokenRotation WITH Tokens <- Pairs, issued <- Issued, live <- Live, heirs <- Heirs

\* Refresh tokens behave as one-time tokens: each is exchanged for a new pair at
\* most once, also when a reloaded tab presents it again while its first exchange
\* still runs, and none comes back (AuthService.ts:128, AuthRepository.ts:40-43).
ImplementsRotation == Rotation!RSpec

\* As long as nobody signs out or deletes the account and no tab misses the
\* answer to a refresh, no refresh is ever refused: however many requests of a
\* tab meet a 401, and when, they share one exchange of the one-time token
\* (auth.service.ts:72-75).
NeverSignedOutByRefresh ==
    (cut = {} /\ left["signOut"] = Budget["signOut"] /\ account # "deleted") =>
        \A c \in Calls : call[c].kind = "refresh" => call[c].at # "denied"

\* No tab is left waiting: AuthService.init, which blocks the first navigation
\* (app.config.ts:26), ends, and so does every request that waits for a refresh
\* some other request started, however that refresh ends.
Pending(t) == tab[t].status = "initializing" \/ \E c \in Calls : call[c].tab = t /\ call[c].at = "waiting"
TabSettles == \A t \in Tabs : Pending(t) ~> ~Pending(t)
=============================================================================
