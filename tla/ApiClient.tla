----------------------------- MODULE ApiClient -----------------------------
(***************************************************************************)
(* The session of a browser: the API client of the app (lib/api.ts), which *)
(* refreshes the access token when a call is answered 401 and holds back   *)
(* the calls that fail meanwhile, the handlers that issue and rotate       *)
(* refresh tokens (services/auth.go), and the cookies the tabs share.      *)
(*                                                                         *)
(* One number names the pair of tokens a login or a refresh issues. The    *)
(* turns of the JavaScript event loop and the SQL statements are the       *)
(* steps. The client's variables isRefreshing and isRedirecting and the    *)
(* flag _retry of a call keep their names.                                 *)
(***************************************************************************)
EXTENDS Integers, FiniteSets

CONSTANTS
  Calls,         \* API calls that may be under way at once
  Tabs,          \* tabs of the browser
  TabOf,         \* the tab that makes the call
  MaxExpiries,   \* bound: access tokens that expire
  MaxLogins      \* bound: logins

ASSUME TabOfAssumption == TabOf \in [Calls -> Tabs]
ASSUME ClientBoundsAssumption == MaxExpiries \in Nat /\ MaxLogins \in Nat \ {0}

VARIABLES
  issued,    \* the last pair of tokens issued
  logins,    \* how many of them a login issued
  expired,   \* access tokens that have expired
  stored,    \* refresh tokens with a row in table refresh_tokens
  lapsed,    \* refresh tokens past their expires_at
  jar,       \* the cookies: the pair in the browser, or None
  tab,       \* the state of lib/api.ts in every tab
  call       \* how far each call is

vars == <<issued, logins, expired, stored, lapsed, jar, tab, call>>

None == 0   \* no cookie

Idle == [pc |-> "idle", _retry |-> FALSE, token |-> None, new |-> None]
FreshTab == [page |-> "open", isRefreshing |-> FALSE, isRedirecting |-> FALSE]

\* Where a call is while it refreshes: the handler Refresh (sent, found, revoked, signed),
\* its answer (granted, denied, broken), the cookies stored, the toast being loaded.
AtServer == {"refresh", "found", "revoked", "signed"}
Answered == {"granted", "denied", "broken"}
Refreshing == AtServer \cup Answered \cup {"renewed", "toast"}
Settled == {"idle", "ok", "failed", "gone"}

CallsOf(t) == {c \in Calls : TabOf[c] = t}
Open(t) == tab[t].page # "left"

-----------------------------------------------------------------------------
(* Tokens *)

SignTokensOfNobody == /\ UNCHANGED issued
                      /\ stored' = stored \cup {issued + 1}

\* signTokens: the row of the refresh token, and the access token.
SignTokens == /\ issued' = issued + 1
              /\ stored' = stored \cup {issued + 1}

Expire(n) ==
  /\ n \in (1..issued) \ expired /\ Cardinality(expired) < MaxExpiries
  /\ expired' = expired \cup {n}
  /\ UNCHANGED <<issued, logins, stored, lapsed, jar, tab, call>>

\* expires_at of a refresh token passes: its access token has expired long since.
Lapse(n) ==
  /\ n \in (stored \cap expired) \ lapsed
  /\ lapsed' = lapsed \cup {n}
  /\ UNCHANGED <<issued, logins, expired, stored, jar, tab, call>>

\* Login on the web site; the app is loaded anew in the tab.
Login(t) ==
  /\ ~ Open(t) /\ logins < MaxLogins
  /\ \A c \in CallsOf(t) : call[c].pc = "gone"
  /\ SignTokens
  /\ logins' = logins + 1
  /\ jar' = issued + 1
  /\ tab' = [tab EXCEPT ![t] = FreshTab]
  /\ call' = [c \in Calls |-> IF TabOf[c] = t THEN Idle ELSE call[c]]
  /\ UNCHANGED <<expired, lapsed>>

\* The page goes away, and with it the client; a refresh the server works on goes on.
Unload(t) ==
  /\ tab' = [tab EXCEPT ![t].page = "left"]
  /\ call' = [c \in Calls |-> IF TabOf[c] = t /\ call[c].pc \notin AtServer
                                THEN [Idle EXCEPT !.pc = "gone"] ELSE call[c]]

\* Logout: the refresh cookie's path keeps it from this request, which carries no user
\* either, so no row is deleted; the cookies are cleared.
Logout(t) ==
  /\ tab[t].page = "open"
  /\ jar' = None
  /\ Unload(t)
  /\ UNCHANGED <<issued, logins, expired, stored, lapsed>>

-----------------------------------------------------------------------------
(* A call and the interceptor of its response *)

Goto(c, pc) == call' = [call EXCEPT ![c].pc = pc]

Send(c) ==
  /\ call[c].pc \in {"idle", "ok", "failed"} /\ Open(TabOf[c])
  /\ call' = [call EXCEPT ![c] = [Idle EXCEPT !.pc = "sent", !.token = jar]]
  /\ UNCHANGED <<issued, logins, expired, stored, lapsed, jar, tab>>

\* RequireAuth, and the answer of the handler behind it.
Answer(c) ==
  /\ call[c].pc = "sent"
  /\ Goto(c, IF call[c].token \notin {None} \cup expired THEN "ok" ELSE "unauthorized")
  /\ UNCHANGED <<issued, logins, expired, stored, lapsed, jar, tab>>

\* No answer, or an error that is not a 401.
Fail(c) ==
  /\ call[c].pc = "sent"
  /\ Goto(c, "failed")
  /\ UNCHANGED <<issued, logins, expired, stored, lapsed, jar, tab>>

GiveUp(c) ==
  /\ call[c].pc = "unauthorized" /\ call[c]._retry
  /\ Goto(c, "failed")
  /\ UNCHANGED <<issued, logins, expired, stored, lapsed, jar, tab>>

BusyNever(t) == FALSE
Busy(t) == tab[t].isRefreshing

Enqueue(c) ==
  /\ call[c].pc = "unauthorized" /\ ~ call[c]._retry /\ Busy(TabOf[c])
  /\ Goto(c, "queued")
  /\ UNCHANGED <<issued, logins, expired, stored, lapsed, jar, tab>>

StartRefresh(c) ==
  /\ call[c].pc = "unauthorized" /\ ~ call[c]._retry /\ ~ Busy(TabOf[c])
  /\ call' = [call EXCEPT ![c] = [pc |-> "refresh", _retry |-> TRUE, token |-> jar, new |-> None]]
  /\ tab' = [tab EXCEPT ![TabOf[c]].isRefreshing = TRUE]
  /\ UNCHANGED <<issued, logins, expired, stored, lapsed, jar>>

-----------------------------------------------------------------------------
(* RefreshAccessToken, statement by statement *)

\* GetByHash; an expired row is deleted on the way.
Lookup(c) ==
  /\ call[c].pc = "refresh"
  /\ \/ /\ call[c].token \in stored \ lapsed
        /\ Goto(c, "found")
        /\ UNCHANGED stored
     \/ /\ call[c].token \notin stored \ lapsed
        /\ Goto(c, "denied")
        /\ stored' = stored \ {call[c].token}
  /\ UNCHANGED <<issued, logins, expired, lapsed, jar, tab>>

\* Delete: how many rows it deleted is not looked at.
Revoke(c) ==
  /\ call[c].pc = "found"
  /\ stored' = stored \ {call[c].token}
  /\ Goto(c, "revoked")
  /\ UNCHANGED <<issued, logins, expired, lapsed, jar, tab>>

\* GetByID and signTokens.
Sign(c) ==
  /\ call[c].pc = "revoked"
  /\ SignTokens
  /\ call' = [call EXCEPT ![c].pc = "granted", ![c].new = issued + 1]
  /\ UNCHANGED <<logins, expired, lapsed, jar, tab>>

\* A statement or the connection fails: the client sees an error like a refusal.
Break(c) ==
  /\ call[c].pc \in AtServer \cup {"granted"}
  /\ Goto(c, "broken")
  /\ UNCHANGED <<issued, logins, expired, stored, lapsed, jar, tab>>

-----------------------------------------------------------------------------
(* The client again *)

\* The browser stores the cookies of the answer.
SetCookies(c) ==
  /\ call[c].pc = "granted" /\ Open(TabOf[c])
  /\ jar' = call[c].new
  /\ Goto(c, "renewed")
  /\ UNCHANGED <<issued, logins, expired, stored, lapsed, tab>>

Resend(x) == [x EXCEPT !.pc = "sent", !.token = jar, !.new = None]

\* processQueue: what waits in the queue of the tab.
QueueEmpty(t) == {}
Queue(t) == {c \in CallsOf(t) : call[c].pc = "queued"}

\* processQueue(null), the call itself again, and finally.
Refreshed(c) ==
  /\ call[c].pc = "renewed"
  /\ call' = [x \in Calls |-> IF x \in Queue(TabOf[c]) \cup {c} THEN Resend(call[x]) ELSE call[x]]
  /\ tab' = [tab EXCEPT ![TabOf[c]].isRefreshing = FALSE]
  /\ UNCHANGED <<issued, logins, expired, stored, lapsed, jar>>

\* processQueue(error); the first failure of the tab waits for the toast to be loaded.
RefreshFailed(c) ==
  /\ call[c].pc \in {"denied", "broken"} /\ Open(TabOf[c])
  /\ LET t == TabOf[c] IN
       /\ call' = [x \in Calls |->
            IF x \in Queue(t) THEN [call[x] EXCEPT !.pc = "failed"]
            ELSE IF x = c THEN [call[c] EXCEPT !.pc = IF tab[t].isRedirecting THEN "failed" ELSE "toast"]
            ELSE call[x]]
       /\ tab' = [tab EXCEPT ![t].isRedirecting = TRUE, ![t].isRefreshing = ~ tab[t].isRedirecting]
  /\ UNCHANGED <<issued, logins, expired, stored, lapsed, jar>>

\* The toast, the timer of the redirect, and finally.
Toast(c) ==
  /\ call[c].pc = "toast"
  /\ Goto(c, "failed")
  /\ tab' = [tab EXCEPT ![TabOf[c]].page = "leaving", ![TabOf[c]].isRefreshing = FALSE]
  /\ UNCHANGED <<issued, logins, expired, stored, lapsed, jar>>

\* An answer to a page that is gone.
Ignore(c) ==
  /\ call[c].pc \in Answered /\ ~ Open(TabOf[c])
  /\ call' = [call EXCEPT ![c] = [Idle EXCEPT !.pc = "gone"]]
  /\ UNCHANGED <<issued, logins, expired, stored, lapsed, jar, tab>>

Redirect(t) ==
  /\ tab[t].page = "leaving"
  /\ Unload(t)
  /\ UNCHANGED <<issued, logins, expired, stored, lapsed, jar>>

-----------------------------------------------------------------------------
Init ==
  /\ issued = 1 /\ logins = 1
  /\ expired = {} /\ stored = {1} /\ lapsed = {}
  /\ jar = 1
  /\ tab = [t \in Tabs |-> FreshTab]
  /\ call = [c \in Calls |-> Idle]

Interceptor(c) == Send(c) \/ Answer(c) \/ Fail(c) \/ GiveUp(c) \/ Enqueue(c) \/ StartRefresh(c)
RefreshAccessToken(c) == Lookup(c) \/ Revoke(c) \/ Sign(c) \/ Break(c)
Client(c) == SetCookies(c) \/ Refreshed(c) \/ RefreshFailed(c) \/ Toast(c) \/ Ignore(c)

Next ==
  \/ \E c \in Calls : Interceptor(c) \/ RefreshAccessToken(c) \/ Client(c)
  \/ \E t \in Tabs : Login(t) \/ Logout(t) \/ Redirect(t)
  \/ \E n \in 1..issued : Expire(n) \/ Lapse(n)

Spec == Init /\ [][Next]_vars

\* A request is answered or times out, and the event loop does not stop.
Fairness ==
  /\ \A c \in Calls : /\ WF_vars(Answer(c)) /\ WF_vars(GiveUp(c))
                      /\ WF_vars(Enqueue(c) \/ StartRefresh(c))
                      /\ WF_vars(RefreshAccessToken(c)) /\ WF_vars(Client(c))
  /\ \A t \in Tabs : WF_vars(Redirect(t))

FairSpec == Spec /\ Fairness

-----------------------------------------------------------------------------
(* Properties *)

\* Every variable has its type.
TypeOK ==
  LET Token == 0..issued IN
    /\ issued \in Nat /\ logins \in 1..MaxLogins
    /\ expired \subseteq Token \ {None} /\ lapsed \subseteq expired /\ stored \subseteq Token \ {None}
    /\ jar \in Token
    /\ tab \in [Tabs -> [page : {"open", "leaving", "left"}, isRefreshing : BOOLEAN,
                         isRedirecting : BOOLEAN]]
    /\ call \in [Calls -> [pc : Settled \cup Refreshing \cup {"sent", "unauthorized", "queued"},
                           _retry : BOOLEAN, token : Token, new : Token]]

\* isRefreshing is set exactly while one call of the tab refreshes, and no two do: the
\* flag outlives neither a failed refresh nor the wait for the toast.
OneRefreshPerTab ==
  \A t \in Tabs : Open(t) =>
    Cardinality({c \in CallsOf(t) : call[c].pc \in Refreshing})
      = IF tab[t].isRefreshing THEN 1 ELSE 0

\* Every call is answered, fails, or goes away with its page; none stays in the queue.
CallSettles == \A c \in Calls : call[c].pc \notin Settled ~> call[c].pc \in Settled

\* A tab sends its user to the login page for a refusal only when the session is over: the
\* refresh token the browser holds is not one the server would accept.
LogoutOnlyWhenRefused ==
  [][\A c \in Calls : call[c].pc = "denied" /\ call'[c].pc = "toast" => jar \notin stored \ lapsed]_vars
=============================================================================
