-------------------------- MODULE ApiClientProofs --------------------------
(***************************************************************************)
(* What holds of ApiClient for any number of calls, tabs, logins and       *)
(* expiries, and what holds of it in a single tab.                         *)
(***************************************************************************)
EXTENDS ApiClient, FiniteSetTheorems, TLAPS

Pc == Settled \cup Refreshing \cup {"sent", "unauthorized", "queued"}
CallType(n) == [pc : Pc, _retry : BOOLEAN, token : 0..n, new : 0..n]
TabType == [page : {"open", "leaving", "left"}, isRefreshing : BOOLEAN, isRedirecting : BOOLEAN]

\* The type invariant with the type of a call named.
LEMMA TypeOKAs ==
  TypeOK <=> /\ issued \in Nat /\ logins \in 1..MaxLogins
             /\ expired \subseteq (0..issued) \ {None} /\ lapsed \subseteq expired
             /\ stored \subseteq (0..issued) \ {None}
             /\ jar \in 0..issued
             /\ tab \in [Tabs -> TabType]
             /\ call \in [Calls -> CallType(issued)]
  BY DEF TypeOK, TabType, CallType, Pc

-----------------------------------------------------------------------------
(* Types *)

\* A call stays one when a pair of tokens is issued.
LEMMA CallTypeGrows ==
  ASSUME NEW n \in Nat, NEW x \in CallType(n)
  PROVE  x \in CallType(n + 1)
<1>1. x.token \in 0..n + 1 /\ x.new \in 0..n + 1
  BY DEF CallType
<1> QED BY <1>1 DEF CallType

\* What the actions write into a call is a call.
LEMMA CallForms ==
  ASSUME NEW n \in Nat, NEW k \in 0..n, NEW b \in BOOLEAN, NEW p \in Pc
  PROVE  /\ Idle \in CallType(n)
         /\ [Idle EXCEPT !.pc = p] \in CallType(n)
         /\ [Idle EXCEPT !.pc = p, !.token = k] \in CallType(n)
         /\ [pc |-> p, _retry |-> b, token |-> k, new |-> None] \in CallType(n)
         /\ \A x \in CallType(n) : /\ [x EXCEPT !.pc = p] \in CallType(n)
                                   /\ [x EXCEPT !.pc = p, !.new = k] \in CallType(n)
                                   /\ [x EXCEPT !.pc = p, !.token = k, !.new = None] \in CallType(n)
<1>1. None \in 0..n
  BY DEF None
<1>2. "idle" \in Pc
  BY DEF Pc, Settled
<1> QED BY <1>1, <1>2 DEF CallType, Idle

\* The places a call can be in.
LEMMA PcValues ==
  {"idle", "ok", "failed", "gone", "refresh", "found", "revoked", "signed", "granted", "denied",
   "broken", "renewed", "toast", "sent", "unauthorized", "queued"} \subseteq Pc
  BY DEF Pc, Settled, Refreshing, AtServer, Answered

\* A new tab starts with types, and so does everything else.
LEMMA InitType == Init => TypeOK
<1> SUFFICES ASSUME Init PROVE TypeOK
  OBVIOUS
<1>1. Idle \in CallType(1)
  BY DEF Idle, CallType, Pc, Settled, None
<1>2. FreshTab \in TabType
  BY DEF FreshTab, TabType
<1> QED BY <1>1, <1>2, TypeOKAs, ClientBoundsAssumption DEF Init, None

\* Every step keeps the types.
LEMMA StepType == ASSUME TypeOK, [Next]_vars PROVE TypeOK'
<1>t. /\ issued \in Nat /\ logins \in 1..MaxLogins
      /\ expired \subseteq (0..issued) \ {None} /\ lapsed \subseteq expired
      /\ stored \subseteq (0..issued) \ {None}
      /\ jar \in 0..issued
      /\ tab \in [Tabs -> TabType]
      /\ call \in [Calls -> CallType(issued)]
  BY TypeOKAs
<1>q. ASSUME /\ issued' \in Nat /\ logins' \in 1..MaxLogins
             /\ expired' \subseteq (0..issued') \ {None} /\ lapsed' \subseteq expired'
             /\ stored' \subseteq (0..issued') \ {None}
             /\ jar' \in 0..issued'
             /\ tab' \in [Tabs -> TabType]
             /\ call' \in [Calls -> CallType(issued')]
      PROVE  TypeOK'
  BY <1>q DEF TypeOK, TabType, CallType, Pc
<1>g. ASSUME NEW c \in Calls, NEW p \in Pc, Goto(c, p)
      PROVE  call' \in [Calls -> CallType(issued)]
  <2>1. [call[c] EXCEPT !.pc = p] \in CallType(issued)
    BY <1>t, <1>g, CallForms
  <2> QED BY <1>t, <1>g, <2>1 DEF Goto
<1>u. ASSUME NEW t \in Tabs, Unload(t)
      PROVE  tab' \in [Tabs -> TabType] /\ call' \in [Calls -> CallType(issued)]
  <2>1. [Idle EXCEPT !.pc = "gone"] \in CallType(issued)
    BY <1>t, CallForms, PcValues
  <2>2. [tab[t] EXCEPT !.page = "left"] \in TabType
    BY <1>t DEF TabType
  <2> QED BY <1>t, <1>u, <2>1, <2>2 DEF Unload
<1>s. ASSUME SignTokens
      PROVE  /\ issued' = issued + 1 /\ issued' \in Nat
             /\ stored' \subseteq (0..issued') \ {None}
             /\ expired \subseteq (0..issued') \ {None} /\ jar \in 0..issued'
             /\ call \in [Calls -> CallType(issued')]
  <2>1. \A c \in Calls : call[c] \in CallType(issued + 1)
    BY <1>t, CallTypeGrows
  <2> QED BY <1>t, <1>s, <2>1 DEF SignTokens, None
<1>1. ASSUME NEW c \in Calls, Interceptor(c) PROVE TypeOK'
  <2>0. TabOf[c] \in Tabs
    BY TabOfAssumption
  <2>1. CASE Send(c)
    <3>1. [Idle EXCEPT !.pc = "sent", !.token = jar] \in CallType(issued)
      BY <1>t, CallForms, PcValues
    <3>2. call' \in [Calls -> CallType(issued)]
      BY <1>t, <2>1, <3>1 DEF Send
    <3> QED BY <1>t, <1>q, <2>1, <3>2 DEF Send
  <2>2. CASE Answer(c)
    <3>1. call' \in [Calls -> CallType(issued)]
      BY <1>g, <2>2, PcValues DEF Answer
    <3> QED BY <1>t, <1>q, <2>2, <3>1 DEF Answer
  <2>3. CASE Fail(c) \/ GiveUp(c) \/ Enqueue(c)
    <3>1. call' \in [Calls -> CallType(issued)]
      BY <1>g, <2>3, PcValues DEF Fail, GiveUp, Enqueue
    <3> QED BY <1>t, <1>q, <2>3, <3>1 DEF Fail, GiveUp, Enqueue
  <2>4. CASE StartRefresh(c)
    <3>1. [pc |-> "refresh", _retry |-> TRUE, token |-> jar, new |-> None] \in CallType(issued)
      BY <1>t, CallForms, PcValues
    <3>2. call' \in [Calls -> CallType(issued)]
      BY <1>t, <2>4, <3>1 DEF StartRefresh
    <3>3. [tab[TabOf[c]] EXCEPT !.isRefreshing = TRUE] \in TabType
      BY <1>t, <2>0 DEF TabType
    <3>4. tab' \in [Tabs -> TabType]
      BY <1>t, <2>4, <3>3 DEF StartRefresh
    <3> QED BY <1>t, <1>q, <2>4, <3>2, <3>4 DEF StartRefresh
  <2> QED BY <1>1, <2>1, <2>2, <2>3, <2>4 DEF Interceptor
<1>2. ASSUME NEW c \in Calls, RefreshAccessToken(c) PROVE TypeOK'
  <2>1. CASE Lookup(c)
    <3>1. call' \in [Calls -> CallType(issued)]
      BY <1>g, <2>1, PcValues DEF Lookup
    <3> QED BY <1>t, <1>q, <2>1, <3>1 DEF Lookup
  <2>2. CASE Revoke(c)
    <3>1. call' \in [Calls -> CallType(issued)]
      BY <1>g, <2>2, PcValues DEF Revoke
    <3> QED BY <1>t, <1>q, <2>2, <3>1 DEF Revoke
  <2>3. CASE Sign(c)
    <3>1. SignTokens
      BY <2>3 DEF Sign
    <3>2. issued' \in Nat /\ issued + 1 \in 0..issued' /\ call[c] \in CallType(issued')
      BY <1>s, <3>1
    <3>3. [call[c] EXCEPT !.pc = "granted", !.new = issued + 1] \in CallType(issued')
      BY <3>2, CallForms, PcValues
    <3>4. call' \in [Calls -> CallType(issued')]
      BY <1>s, <2>3, <3>1, <3>3 DEF Sign
    <3> QED BY <1>t, <1>q, <1>s, <2>3, <3>1, <3>4 DEF Sign
  <2>4. CASE Break(c)
    <3>1. call' \in [Calls -> CallType(issued)]
      BY <1>g, <2>4, PcValues DEF Break
    <3> QED BY <1>t, <1>q, <2>4, <3>1 DEF Break
  <2> QED BY <1>2, <2>1, <2>2, <2>3, <2>4 DEF RefreshAccessToken
<1>3. ASSUME NEW c \in Calls, Client(c) PROVE TypeOK'
  <2>0. TabOf[c] \in Tabs
    BY TabOfAssumption
  <2>1. CASE SetCookies(c)
    <3>1. call' \in [Calls -> CallType(issued)]
      BY <1>g, <2>1, PcValues DEF SetCookies
    <3>2. jar' \in 0..issued
      BY <1>t, <2>1 DEF SetCookies, CallType
    <3> QED BY <1>t, <1>q, <2>1, <3>1, <3>2 DEF SetCookies
  <2>2. CASE Refreshed(c)
    <3>1. \A x \in Calls : Resend(call[x]) \in CallType(issued)
      BY <1>t, CallForms, PcValues DEF Resend
    <3>2. call' \in [Calls -> CallType(issued)]
      BY <1>t, <2>2, <3>1 DEF Refreshed
    <3>3. [tab[TabOf[c]] EXCEPT !.isRefreshing = FALSE] \in TabType
      BY <1>t, <2>0 DEF TabType
    <3>4. tab' \in [Tabs -> TabType]
      BY <1>t, <2>2, <3>3 DEF Refreshed
    <3> QED BY <1>t, <1>q, <2>2, <3>2, <3>4 DEF Refreshed
  <2>3. CASE RefreshFailed(c)
    <3> DEFINE t == TabOf[c]
               p == IF tab[t].isRedirecting THEN "failed" ELSE "toast"
    <3>1. \A x \in Calls : [call[x] EXCEPT !.pc = "failed"] \in CallType(issued)
      BY <1>t, CallForms, PcValues
    <3>2. p \in Pc
      BY PcValues
    <3>3. [call[c] EXCEPT !.pc = p] \in CallType(issued)
      BY <1>t, <3>2, CallForms
    <3>4. call' \in [Calls -> CallType(issued)]
      BY <1>t, <2>3, <3>1, <3>3 DEF RefreshFailed
    <3>5. [tab[t] EXCEPT !.isRedirecting = TRUE, !.isRefreshing = ~ tab[t].isRedirecting] \in TabType
      BY <1>t, <2>0 DEF TabType
    <3>6. tab' = [tab EXCEPT ![t] = [tab[t] EXCEPT !.isRedirecting = TRUE,
                                                   !.isRefreshing = ~ tab[t].isRedirecting]]
      BY <1>t, <2>0, <2>3 DEF RefreshFailed
    <3>7. tab' \in [Tabs -> TabType]
      BY <1>t, <3>5, <3>6
    <3> QED BY <1>t, <1>q, <2>3, <3>4, <3>7 DEF RefreshFailed
  <2>4. CASE Toast(c)
    <3> DEFINE t == TabOf[c]
    <3>1. call' \in [Calls -> CallType(issued)]
      BY <1>g, <2>4, PcValues DEF Toast
    <3>2. [tab[t] EXCEPT !.page = "leaving", !.isRefreshing = FALSE] \in TabType
      BY <1>t, <2>0 DEF TabType
    <3>3. tab' = [tab EXCEPT ![t] = [tab[t] EXCEPT !.page = "leaving", !.isRefreshing = FALSE]]
      BY <1>t, <2>0, <2>4 DEF Toast
    <3>4. tab' \in [Tabs -> TabType]
      BY <1>t, <3>2, <3>3
    <3> QED BY <1>t, <1>q, <2>4, <3>1, <3>4 DEF Toast
  <2>5. CASE Ignore(c)
    <3>1. [Idle EXCEPT !.pc = "gone"] \in CallType(issued)
      BY <1>t, CallForms, PcValues
    <3>2. call' \in [Calls -> CallType(issued)]
      BY <1>t, <2>5, <3>1 DEF Ignore
    <3> QED BY <1>t, <1>q, <2>5, <3>2 DEF Ignore
  <2> QED BY <1>3, <2>1, <2>2, <2>3, <2>4, <2>5 DEF Client
<1>4. ASSUME NEW t \in Tabs, Login(t) PROVE TypeOK'
  <2>1. SignTokens
    BY <1>4 DEF Login
  <2>2. Idle \in CallType(issued')
    BY <1>s, <2>1, CallForms, PcValues
  <2>3. call' \in [Calls -> CallType(issued')]
    BY <1>4, <1>s, <2>1, <2>2 DEF Login
  <2>4. tab' \in [Tabs -> TabType]
    BY <1>4, <1>t DEF Login, FreshTab, TabType
  <2>5. logins' \in 1..MaxLogins
    BY <1>4, <1>t, ClientBoundsAssumption DEF Login
  <2> QED BY <1>4, <1>t, <1>q, <1>s, <2>1, <2>3, <2>4, <2>5 DEF Login
<1>5. ASSUME NEW t \in Tabs, Logout(t) \/ Redirect(t) PROVE TypeOK'
  <2>1. tab' \in [Tabs -> TabType] /\ call' \in [Calls -> CallType(issued)]
    BY <1>5, <1>u DEF Logout, Redirect
  <2>2. jar' \in 0..issued
    BY <1>5, <1>t DEF Logout, Redirect, None
  <2>3. UNCHANGED <<issued, logins, expired, stored, lapsed>>
    BY <1>5 DEF Logout, Redirect
  <2> QED BY <1>t, <1>q, <2>1, <2>2, <2>3
<1>6. ASSUME NEW n \in 1..issued, Expire(n) \/ Lapse(n) PROVE TypeOK'
  <2>1. CASE Expire(n)
    <3>1. n \in (0..issued) \ {None}
      BY <1>t DEF None
    <3>2. expired' \subseteq (0..issued) \ {None} /\ lapsed' \subseteq expired'
      BY <1>t, <2>1, <3>1 DEF Expire
    <3>3. UNCHANGED <<issued, logins, stored, jar, tab, call>>
      BY <2>1 DEF Expire
    <3> QED BY <1>t, <1>q, <3>2, <3>3
  <2>2. CASE Lapse(n)
    BY <1>t, <1>q, <2>2 DEF Lapse
  <2> QED BY <1>6, <2>1, <2>2
<1>7. ASSUME UNCHANGED vars PROVE TypeOK'
  BY <1>7, <1>t, <1>q DEF vars
<1> QED BY <1>1, <1>2, <1>3, <1>4, <1>5, <1>6, <1>7 DEF Next

\* Every variable has its type, for any number of calls, tabs, logins and expiries.
THEOREM ClientTypeCorrect == Spec => []TypeOK
  BY InitType, StepType, PTL DEF Spec
-----------------------------------------------------------------------------
(* One refresh per tab *)

Renews(c) == call[c].pc \in Refreshing
Flag(t) == tab[t].isRefreshing

\* The property, said of the calls one by one: a call that refreshes has the flag of its
\* tab set and is the only one there, and a flag that is set has its call.
Owned ==
  /\ \A c \in Calls : Open(TabOf[c]) /\ Renews(c) => Flag(TabOf[c])
  /\ \A c, d \in Calls : Open(TabOf[c]) /\ TabOf[c] = TabOf[d] /\ Renews(c) /\ Renews(d) => c = d
  /\ \A t \in Tabs : Open(t) /\ Flag(t) => \E c \in CallsOf(t) : Renews(c)

\* Cookies are stored, and the toast is loaded, in a page that is there.
Heard == \A c \in Calls : call[c].pc \in {"renewed", "toast"} => Open(TabOf[c])

\* What is said call by call is what the property counts.
LEMMA OwnedCounts == ASSUME TypeOK, Owned PROVE OneRefreshPerTab
<1> SUFFICES ASSUME NEW t \in Tabs, Open(t)
             PROVE  Cardinality({c \in CallsOf(t) : Renews(c)}) = IF Flag(t) THEN 1 ELSE 0
  BY DEF OneRefreshPerTab, Renews, Flag
<1> DEFINE S == {c \in CallsOf(t) : Renews(c)}
<1>1. CASE Flag(t)
  <2>1. PICK c \in CallsOf(t) : Renews(c)
    BY <1>1 DEF Owned
  <2>2. \A d \in S : d = c
    BY <2>1 DEF Owned, CallsOf
  <2>3. S = {c}
    BY <2>1, <2>2
  <2> QED BY <1>1, <2>3, FS_Singleton
<1>2. CASE ~ Flag(t)
  <2>1. S = {}
    BY <1>2 DEF Owned, CallsOf
  <2> QED BY <1>2, <2>1, FS_EmptySet
<1>3. Flag(t) \in BOOLEAN
  BY DEF TypeOK, Flag
<1> QED BY <1>1, <1>2, <1>3

\* A step after which the same calls refresh and no tab has changed keeps the property.
LEMMA SameRefreshing ==
  ASSUME Owned, UNCHANGED tab, \A c \in Calls : Renews(c)' <=> Renews(c)
  PROVE  Owned'
  BY TabOfAssumption DEF Owned, Open, Flag, CallsOf

\* In a new tab nothing refreshes.
LEMMA InitOwned == Init => Owned /\ Heard
  BY TabOfAssumption DEF Init, Owned, Heard, Renews, Flag, CallsOf, FreshTab, Idle,
     Refreshing, AtServer, Answered

\* Where a call goes decides whether it refreshes.
LEMMA GotoRenews ==
  ASSUME TypeOK, NEW c \in Calls, NEW p, Goto(c, p), Renews(c) <=> p \in Refreshing
  PROVE  \A x \in Calls : Renews(x)' <=> Renews(x)
<1>1. call' = [call EXCEPT ![c].pc = p] /\ call \in [Calls -> CallType(issued)]
  BY TypeOKAs DEF Goto
<1>2. \A x \in Calls : call'[x].pc = IF x = c THEN p ELSE call[x].pc
  BY <1>1 DEF CallType
<1> QED BY <1>2 DEF Renews

\* Every step keeps it that who is heard has a page.
LEMMA StepHeard == ASSUME TypeOK, Heard, [Next]_vars PROVE Heard'
<1> USE TabOfAssumption
<1> DEFINE P == {"renewed", "toast"}
<1>t. tab \in [Tabs -> TabType] /\ call \in [Calls -> CallType(issued)]
  BY TypeOKAs
<1>q. ASSUME \A t \in Tabs : Open(t) => Open(t)',
             \A c \in Calls : call'[c].pc \in P => call[c].pc \in P \/ Open(TabOf[c])'
      PROVE  Heard'
  BY <1>q DEF Heard
<1>s. ASSUME UNCHANGED tab, NEW c \in Calls, \A x \in Calls \ {c} : call'[x].pc \in P => call[x].pc \in P,
             call'[c].pc \notin P \/ Open(TabOf[c])
      PROVE  Heard'
  BY <1>s, <1>q DEF Open
<1>g. ASSUME UNCHANGED tab, NEW c \in Calls, NEW p, Goto(c, p), p \notin P \/ Open(TabOf[c])
      PROVE  Heard'
  <2>1. \A x \in Calls : call'[x].pc = IF x = c THEN p ELSE call[x].pc
    BY <1>t, <1>g DEF Goto, CallType
  <2> QED BY <1>g, <1>s, <2>1
<1>u. ASSUME NEW t \in Tabs, Unload(t) PROVE Heard'
  <2>1. \A u \in Tabs \ {t} : tab'[u] = tab[u]
    BY <1>t, <1>u DEF Unload
  <2>2. \A c \in Calls : TabOf[c] # t => call'[c] = call[c]
    BY <1>u DEF Unload
  <2>3. \A c \in Calls : TabOf[c] = t => call'[c].pc \notin P
    BY <1>t, <1>u DEF Unload, Idle, AtServer
  <2> QED BY <2>1, <2>2, <2>3 DEF Heard, Open
<1>1. ASSUME NEW c \in Calls, Interceptor(c) PROVE Heard'
  <2>1. CASE Send(c)
    <3>1. call'[c].pc = "sent" /\ \A x \in Calls \ {c} : call'[x] = call[x]
      BY <1>t, <2>1 DEF Send, Idle
    <3> QED BY <1>s, <2>1, <3>1 DEF Send
  <2>2. CASE Answer(c)
    BY <1>g, <2>2 DEF Answer
  <2>3. CASE Fail(c) \/ GiveUp(c) \/ Enqueue(c)
    BY <1>g, <2>3 DEF Fail, GiveUp, Enqueue
  <2>4. CASE StartRefresh(c)
    <3>1. call'[c].pc = "refresh" /\ \A x \in Calls \ {c} : call'[x] = call[x]
      BY <1>t, <2>4 DEF StartRefresh
    <3>2. \A t \in Tabs : Open(t) => Open(t)'
      BY <1>t, <2>4 DEF StartRefresh, Open, TabType
    <3> QED BY <1>q, <3>1, <3>2
  <2> QED BY <1>1, <2>1, <2>2, <2>3, <2>4 DEF Interceptor
<1>2. ASSUME NEW c \in Calls, RefreshAccessToken(c) PROVE Heard'
  <2>1. CASE Lookup(c) \/ Revoke(c) \/ Break(c)
    BY <1>g, <2>1 DEF Lookup, Revoke, Break
  <2>2. CASE Sign(c)
    <3>1. call'[c].pc = "granted" /\ \A x \in Calls \ {c} : call'[x] = call[x]
      BY <1>t, <2>2 DEF Sign, CallType
    <3> QED BY <1>s, <2>2, <3>1 DEF Sign
  <2> QED BY <1>2, <2>1, <2>2 DEF RefreshAccessToken
<1>3. ASSUME NEW c \in Calls, Client(c) PROVE Heard'
  <2>1. CASE SetCookies(c)
    BY <1>g, <2>1 DEF SetCookies
  <2>2. CASE Refreshed(c)
    <3>1. \A x \in Calls : call'[x].pc \in {"sent", call[x].pc}
      BY <1>t, <2>2 DEF Refreshed, Resend, CallType
    <3>2. \A t \in Tabs : Open(t) => Open(t)'
      BY <1>t, <2>2 DEF Refreshed, Open, TabType
    <3> QED BY <1>q, <3>1, <3>2
  <2>3. CASE RefreshFailed(c)
    <3>1. \A x \in Calls \ {c} : call'[x].pc \in {"failed", call[x].pc}
      BY <1>t, <2>3 DEF RefreshFailed, CallType
    <3>2. \A t \in Tabs : Open(t) => Open(t)'
      BY <1>t, <2>3 DEF RefreshFailed, Open, TabType
    <3>3. Open(TabOf[c])
      BY <2>3 DEF RefreshFailed
    <3> QED BY <1>q, <3>1, <3>2, <3>3
  <2>4. CASE Toast(c)
    <3>1. \A x \in Calls : call'[x].pc \in {"failed", call[x].pc}
      BY <1>t, <2>4 DEF Toast, Goto, CallType
    <3>2. \A t \in Tabs : Open(t) => Open(t)'
      BY <1>t, <2>4 DEF Toast, Open, TabType
    <3> QED BY <1>q, <3>1, <3>2
  <2>5. CASE Ignore(c)
    <3>1. call'[c].pc = "gone" /\ \A x \in Calls \ {c} : call'[x] = call[x]
      BY <1>t, <2>5 DEF Ignore, Idle
    <3> QED BY <1>s, <2>5, <3>1 DEF Ignore
  <2> QED BY <1>3, <2>1, <2>2, <2>3, <2>4, <2>5 DEF Client
<1>4. ASSUME NEW t \in Tabs, Login(t) PROVE Heard'
  <2>1. /\ \A c \in Calls : call'[c] = IF TabOf[c] = t THEN Idle ELSE call[c]
        /\ \A u \in Tabs : tab'[u] = IF u = t THEN FreshTab ELSE tab[u]
    BY <1>4, <1>t DEF Login
  <2> QED BY <2>1 DEF Heard, Open, Idle
<1>5. ASSUME NEW t \in Tabs, Logout(t) \/ Redirect(t) PROVE Heard'
  BY <1>5, <1>u DEF Logout, Redirect
<1>6. ASSUME NEW n \in 1..issued, Expire(n) \/ Lapse(n) PROVE Heard'
  BY <1>6 DEF Expire, Lapse, Heard, Open
<1>7. ASSUME UNCHANGED vars PROVE Heard'
  BY <1>7 DEF vars, Heard, Open
<1> QED BY <1>1, <1>2, <1>3, <1>4, <1>5, <1>6, <1>7 DEF Next

\* Every step keeps it: a call starts to refresh only under a flag that is not set, which
\* it sets, and clears the flag when it stops.
LEMMA StepOwned == ASSUME TypeOK, Heard, Owned, [Next]_vars PROVE Owned'
<1> USE TabOfAssumption
<1>t. tab \in [Tabs -> TabType] /\ call \in [Calls -> CallType(issued)]
  BY TypeOKAs
<1>r. /\ \A p \in {"refresh", "found", "revoked", "signed", "granted", "denied", "broken", "renewed",
                  "toast"} : p \in Refreshing
      /\ \A p \in {"idle", "ok", "failed", "gone", "sent", "unauthorized", "queued"} : p \notin Refreshing
  BY DEF Refreshing, AtServer, Answered
<1>u. ASSUME NEW t \in Tabs, Unload(t) PROVE Owned'
  <2>1. ~ Open(t)' /\ \A u \in Tabs \ {t} : tab'[u] = tab[u]
    BY <1>t, <1>u DEF Unload, Open, TabType
  <2>2. \A c \in Calls : TabOf[c] # t => call'[c] = call[c]
    BY <1>u DEF Unload
  <2> QED BY <2>1, <2>2 DEF Owned, Open, Flag, Renews, CallsOf
<1>1. ASSUME NEW c \in Calls, Interceptor(c) PROVE Owned'
  <2>1. CASE Send(c)
    <3>1. call' = [call EXCEPT ![c] = [Idle EXCEPT !.pc = "sent", !.token = jar]] /\ ~ Renews(c)
      BY <1>r, <2>1 DEF Send, Renews
    <3>2. \A x \in Calls : Renews(x)' <=> Renews(x)
      BY <1>t, <1>r, <3>1 DEF Renews, Idle
    <3> QED BY <2>1, <3>2, SameRefreshing DEF Send
  <2>2. CASE Answer(c)
    <3> DEFINE p == IF call[c].token \notin {None} \cup expired THEN "ok" ELSE "unauthorized"
    <3>1. Goto(c, p) /\ ~ Renews(c) /\ p \notin Refreshing
      BY <1>r, <2>2 DEF Answer, Renews
    <3>2. \A x \in Calls : Renews(x)' <=> Renews(x)
      BY <3>1, GotoRenews
    <3> QED BY <2>2, <3>2, SameRefreshing DEF Answer
  <2>3. CASE Fail(c) \/ GiveUp(c)
    <3>1. Goto(c, "failed") /\ ~ Renews(c) /\ UNCHANGED tab
      BY <1>r, <2>3 DEF Fail, GiveUp, Renews
    <3>2. \A x \in Calls : Renews(x)' <=> Renews(x)
      BY <1>r, <3>1, GotoRenews
    <3> QED BY <3>1, <3>2, SameRefreshing
  <2>4. CASE Enqueue(c)
    <3>1. Goto(c, "queued") /\ ~ Renews(c) /\ UNCHANGED tab
      BY <1>r, <2>4 DEF Enqueue, Renews
    <3>2. \A x \in Calls : Renews(x)' <=> Renews(x)
      BY <1>r, <3>1, GotoRenews
    <3> QED BY <3>1, <3>2, SameRefreshing
  <2>5. CASE StartRefresh(c)
    <3>1. /\ call' = [call EXCEPT ![c] = [pc |-> "refresh", _retry |-> TRUE, token |-> jar, new |-> None]]
          /\ tab' = [tab EXCEPT ![TabOf[c]].isRefreshing = TRUE]
          /\ ~ Flag(TabOf[c])
      BY <2>5 DEF StartRefresh, Busy, Flag
    <3>2. \A x \in Calls : x # c => (Renews(x)' <=> Renews(x))
      BY <1>t, <3>1 DEF Renews
    <3>3. Renews(c)'
      BY <1>t, <1>r, <3>1 DEF Renews
    <3>4. /\ Flag(TabOf[c])'
          /\ \A t \in Tabs : /\ Open(t)' <=> Open(t)
                             /\ t # TabOf[c] => (Flag(t)' <=> Flag(t))
      BY <1>t, <3>1 DEF Flag, Open, TabType
    <3> QED BY <3>1, <3>2, <3>3, <3>4 DEF Owned, CallsOf
  <2> QED BY <1>1, <2>1, <2>2, <2>3, <2>4, <2>5 DEF Interceptor
<1>2. ASSUME NEW c \in Calls, RefreshAccessToken(c) PROVE Owned'
  <2>1. CASE Lookup(c)
    <3>1. PICK p \in {"found", "denied"} : Goto(c, p)
      BY <2>1 DEF Lookup
    <3>2. Renews(c) /\ p \in Refreshing
      BY <1>r, <2>1, <3>1 DEF Lookup, Renews
    <3>3. \A x \in Calls : Renews(x)' <=> Renews(x)
      BY <3>1, <3>2, GotoRenews
    <3> QED BY <2>1, <3>3, SameRefreshing DEF Lookup
  <2>2. CASE Revoke(c)
    <3>1. Goto(c, "revoked") /\ Renews(c) /\ UNCHANGED tab
      BY <1>r, <2>2 DEF Revoke, Renews
    <3>2. \A x \in Calls : Renews(x)' <=> Renews(x)
      BY <1>r, <3>1, GotoRenews
    <3> QED BY <3>1, <3>2, SameRefreshing
  <2>3. CASE Sign(c)
    <3>1. call' = [call EXCEPT ![c].pc = "granted", ![c].new = issued + 1] /\ Renews(c)
      BY <1>r, <2>3 DEF Sign, Renews
    <3>2. \A x \in Calls : call'[x].pc = IF x = c THEN "granted" ELSE call[x].pc
      BY <1>t, <3>1 DEF CallType
    <3>3. \A x \in Calls : Renews(x)' <=> Renews(x)
      BY <1>r, <3>1, <3>2 DEF Renews
    <3> QED BY <2>3, <3>3, SameRefreshing DEF Sign
  <2>4. CASE Break(c)
    <3>1. Goto(c, "broken") /\ Renews(c) /\ UNCHANGED tab
      BY <1>r, <2>4 DEF Break, Renews, Refreshing, Answered
    <3>2. \A x \in Calls : Renews(x)' <=> Renews(x)
      BY <1>r, <3>1, GotoRenews
    <3> QED BY <3>1, <3>2, SameRefreshing
  <2> QED BY <1>2, <2>1, <2>2, <2>3, <2>4 DEF RefreshAccessToken
<1>3. ASSUME NEW c \in Calls, Client(c) PROVE Owned'
  <2>1. CASE SetCookies(c)
    <3>1. Goto(c, "renewed") /\ Renews(c) /\ UNCHANGED tab
      BY <1>r, <2>1 DEF SetCookies, Renews
    <3>2. \A x \in Calls : Renews(x)' <=> Renews(x)
      BY <1>r, <3>1, GotoRenews
    <3> QED BY <3>1, <3>2, SameRefreshing
  <2> DEFINE t == TabOf[c]
  <2>s. ASSUME Renews(c), ~ Renews(c)', ~ Flag(t)',
               \A u \in Tabs : /\ Open(u)' => Open(u)
                               /\ u # t => (Flag(u)' <=> Flag(u)),
               \A x \in Calls : x # c => (Renews(x)' <=> Renews(x))
        PROVE  Owned'
    BY <2>s DEF Owned, CallsOf
  <2>2. CASE Refreshed(c)
    <3>1. Renews(c)
      BY <1>r, <2>2 DEF Refreshed, Renews
    <3>2. \A x \in Calls : call'[x].pc = IF x = c \/ (call[x].pc = "queued" /\ TabOf[x] = t)
                                           THEN "sent" ELSE call[x].pc
      BY <1>t, <2>2 DEF Refreshed, Queue, CallsOf, Resend, CallType
    <3>3. ~ Renews(c)' /\ \A x \in Calls : x # c => (Renews(x)' <=> Renews(x))
      BY <1>r, <3>2 DEF Renews
    <3>4. ~ Flag(t)' /\ \A u \in Tabs : (Open(u)' <=> Open(u)) /\ (u # t => (Flag(u)' <=> Flag(u)))
      BY <1>t, <2>2 DEF Refreshed, Flag, Open, TabType
    <3> QED BY <2>s, <3>1, <3>3, <3>4
  <2>3. CASE RefreshFailed(c)
    <3>1. Renews(c) /\ Open(t)
      BY <1>r, <2>3 DEF RefreshFailed, Renews
    <3>2. \A x \in Calls : call'[x].pc =
            IF call[x].pc = "queued" /\ TabOf[x] = t THEN "failed"
            ELSE IF x = c THEN IF tab[t].isRedirecting THEN "failed" ELSE "toast"
            ELSE call[x].pc
      BY <1>t, <2>3 DEF RefreshFailed, Queue, CallsOf, CallType
    <3>3. call[c].pc # "queued"
      BY <2>3 DEF RefreshFailed
    <3>4. \A x \in Calls : x # c => (Renews(x)' <=> Renews(x))
      BY <1>r, <3>2 DEF Renews
    <3>5. \A u \in Tabs : (Open(u)' <=> Open(u)) /\ (u # t => (Flag(u)' <=> Flag(u)))
      BY <1>t, <2>3 DEF RefreshFailed, Flag, Open, TabType
    <3>6. Flag(t)' <=> ~ tab[t].isRedirecting
      BY <1>t, <2>3 DEF RefreshFailed, Flag, TabType
    <3>7. CASE tab[t].isRedirecting
      <4>1. ~ Renews(c)' /\ ~ Flag(t)'
        BY <1>r, <3>2, <3>3, <3>6, <3>7 DEF Renews
      <4> QED BY <2>s, <3>1, <3>4, <3>5, <4>1
    <3>8. CASE ~ tab[t].isRedirecting
      <4>1. Renews(c)' /\ Flag(t)'
        BY <1>r, <3>2, <3>3, <3>6, <3>8 DEF Renews
      <4>2. Flag(t)
        BY <3>1 DEF Owned
      <4> QED BY <3>1, <3>4, <3>5, <4>1, <4>2 DEF Owned, CallsOf
    <3> QED BY <3>7, <3>8
  <2>4. CASE Toast(c)
    <3>1. Renews(c) /\ Goto(c, "failed")
      BY <1>r, <2>4 DEF Toast, Renews
    <3>2. \A x \in Calls : call'[x].pc = IF x = c THEN "failed" ELSE call[x].pc
      BY <1>t, <3>1 DEF Goto, CallType
    <3>3. ~ Renews(c)' /\ \A x \in Calls : x # c => (Renews(x)' <=> Renews(x))
      BY <1>r, <3>2 DEF Renews
    <3>4. tab' = [tab EXCEPT ![t].page = "leaving", ![t].isRefreshing = FALSE]
      BY <2>4 DEF Toast
    <3>5. Open(t)
      BY <2>4 DEF Toast, Heard
    <3>6. /\ ~ Flag(t)'
          /\ \A u \in Tabs : (Open(u)' => Open(u)) /\ (u # t => (Flag(u)' <=> Flag(u)))
      BY <1>t, <3>4, <3>5 DEF Flag, Open, TabType
    <3> QED BY <2>s, <3>1, <3>3, <3>6
  <2>5. CASE Ignore(c)
    <3>1. /\ ~ Open(t) /\ UNCHANGED tab
          /\ \A x \in Calls : x # c => call'[x] = call[x]
      BY <1>t, <2>5 DEF Ignore
    <3> QED BY <3>1 DEF Owned, Open, Flag, Renews, CallsOf
  <2> QED BY <1>3, <2>1, <2>2, <2>3, <2>4, <2>5 DEF Client
<1>4. ASSUME NEW t \in Tabs, Login(t) PROVE Owned'
  <2>1. /\ \A c \in Calls : call'[c] = IF TabOf[c] = t THEN Idle ELSE call[c]
        /\ \A u \in Tabs : tab'[u] = IF u = t THEN FreshTab ELSE tab[u]
    BY <1>4, <1>t DEF Login
  <2>2. ~ Flag(t)' /\ \A c \in CallsOf(t) : ~ Renews(c)'
    BY <1>r, <2>1 DEF Flag, FreshTab, Renews, Idle, CallsOf
  <2> QED BY <2>1, <2>2 DEF Owned, Open, Flag, Renews, CallsOf
<1>5. ASSUME NEW t \in Tabs, Logout(t) \/ Redirect(t) PROVE Owned'
  BY <1>5, <1>u DEF Logout, Redirect
<1>6. ASSUME NEW n \in 1..issued, Expire(n) \/ Lapse(n) PROVE Owned'
  BY <1>6, SameRefreshing DEF Expire, Lapse, Renews
<1>7. ASSUME UNCHANGED vars PROVE Owned'
  BY <1>7, SameRefreshing DEF vars, Renews
<1> QED BY <1>1, <1>2, <1>3, <1>4, <1>5, <1>6, <1>7 DEF Next

\* In every tab the flag isRefreshing is set exactly while one of its calls refreshes, and
\* no two do (lib/api.ts:40-76), for any number of tabs and calls.
THEOREM OneRefreshAtATime == Spec => []OneRefreshPerTab
<1> DEFINE Inv == TypeOK /\ Heard /\ Owned
<1>1. Init => Inv
  BY InitType, InitOwned
<1>2. Inv /\ [Next]_vars => Inv'
  BY StepType, StepHeard, StepOwned
<1>3. Inv => OneRefreshPerTab
  BY OwnedCounts
<1> QED BY <1>1, <1>2, <1>3, PTL DEF Spec

-----------------------------------------------------------------------------
(* One tab: the cookies of a refresh are those it was sent with *)

OneTab == \E t : Tabs = {t}
Waiting(c) == call[c].pc \in AtServer \cup {"granted", "denied"}

\* While the page is there nobody else changes its cookies; a granted pair is later than
\* the one it replaces, and a refused token stays one the server refuses.
Held ==
  \A c \in Calls : /\ Waiting(c) /\ Open(TabOf[c]) => call[c].token = jar
                   /\ call[c].pc = "granted" => call[c].token <= call[c].new
                   /\ call[c].pc = "denied" => call[c].token \notin stored \ lapsed

\* At first no call waits.
LEMMA InitHeld == Init => Held
  BY DEF Init, Held, Waiting, Idle, AtServer

\* Every step of a single tab keeps it.
LEMMA StepHeld ==
  ASSUME OneTab, TypeOK, Heard, Owned, Held, [Next]_vars
  PROVE  Held'
<1> USE TabOfAssumption
<1>t. /\ tab \in [Tabs -> TabType] /\ call \in [Calls -> CallType(issued)]
      /\ issued \in Nat /\ stored \subseteq 0..issued
  BY TypeOKAs
<1>w. \A c \in Calls : Waiting(c) => Renews(c)
  BY DEF Waiting, Renews, Refreshing, Answered
<1> DEFINE Fine(c) == /\ Waiting(c) /\ Open(TabOf[c]) => call[c].token = jar
                      /\ call[c].pc = "granted" => call[c].token <= call[c].new
                      /\ call[c].pc = "denied" => call[c].token \notin stored \ lapsed
\* The others keep theirs: the cookies and tokens stay, and no page comes back.
<1>s. ASSUME NEW c \in Calls, Fine(c)', UNCHANGED jar,
             \A x \in Calls \ {c} : call'[x] = call[x],
             \A t \in Tabs : Open(t)' => Open(t),
             \A n \in 0..issued : n \in stored' \ lapsed' => n \in stored \ lapsed
      PROVE  Held'
  <2>1. ASSUME NEW x \in Calls \ {c} PROVE Fine(x)'
    <3>1. Fine(x) /\ call'[x] = call[x] /\ call[x].token \in 0..issued
      BY <1>t, <1>s DEF Held, CallType
    <3> QED BY <1>s, <3>1 DEF Waiting
  <2> QED BY <1>s, <2>1 DEF Held
<1>c. \A c \in Calls : Fine(c) /\ call[c].token \in 0..issued
  BY <1>t DEF Held, CallType
<1>u. ASSUME NEW t \in Tabs, Unload(t), UNCHANGED <<stored, lapsed>> PROVE Held'
  <2>1. ~ Open(t)' /\ \A c \in Calls : TabOf[c] = t
    BY <1>t, <1>u DEF Unload, Open, TabType, OneTab
  <2>2. \A c \in Calls : call'[c] = call[c] \/ call'[c].pc = "gone"
    BY <1>t, <1>u DEF Unload, Idle
  <2> QED BY <1>u, <2>1, <2>2 DEF Held
<1>1. ASSUME NEW c \in Calls, Interceptor(c) PROVE Held'
  <2>1. CASE Send(c)
    <3>1. call'[c].pc = "sent" /\ \A x \in Calls \ {c} : call'[x] = call[x]
      BY <1>t, <2>1 DEF Send, Idle
    <3> QED BY <1>s, <2>1, <3>1 DEF Send, Open, Waiting, AtServer
  <2>2. CASE Answer(c) \/ Fail(c) \/ GiveUp(c) \/ Enqueue(c)
    <3>1. call'[c].pc \in {"ok", "unauthorized", "failed", "queued"}
      BY <1>t, <2>2 DEF Answer, Fail, GiveUp, Enqueue, Goto, CallType
    <3>2. UNCHANGED <<jar, tab, stored, lapsed>> /\ \A x \in Calls \ {c} : call'[x] = call[x]
      BY <1>t, <2>2 DEF Answer, Fail, GiveUp, Enqueue, Goto
    <3> QED BY <1>s, <3>1, <3>2 DEF Open, Waiting, AtServer
  <2>3. CASE StartRefresh(c)
    <3>1. /\ call'[c].pc = "refresh" /\ call'[c].token = jar
          /\ \A x \in Calls \ {c} : call'[x] = call[x]
          /\ UNCHANGED <<jar, stored, lapsed>>
      BY <1>t, <2>3 DEF StartRefresh
    <3>2. \A t \in Tabs : Open(t)' => Open(t)
      BY <1>t, <2>3 DEF StartRefresh, Open, TabType
    <3> QED BY <1>s, <3>1, <3>2
  <2> QED BY <1>1, <2>1, <2>2, <2>3 DEF Interceptor
<1>2. ASSUME NEW c \in Calls, RefreshAccessToken(c) PROVE Held'
  <2>0. /\ UNCHANGED <<jar, tab, lapsed>>
        /\ \A x \in Calls \ {c} : call'[x] = call[x]
        /\ call'[c].token = call[c].token
        /\ Waiting(c)
    BY <1>t, <1>2
    DEF RefreshAccessToken, Lookup, Revoke, Sign, Break, Goto, CallType, Waiting, AtServer
  <2>1. Open(TabOf[c])' => call'[c].token = jar'
    BY <1>c, <2>0 DEF Open
  <2>2. CASE Lookup(c)
    <3>1. call'[c].pc = "found" \/ (call'[c].pc = "denied" /\ call[c].token \notin stored \ lapsed)
      BY <1>t, <2>2 DEF Lookup, Goto, CallType
    <3>2. stored' \subseteq stored
      BY <2>2 DEF Lookup
    <3> QED BY <1>s, <2>0, <2>1, <3>1, <3>2 DEF Open
  <2>3. CASE Revoke(c)
    <3>1. call'[c].pc = "revoked" /\ stored' \subseteq stored
      BY <1>t, <2>3 DEF Revoke, Goto, CallType
    <3> QED BY <1>s, <2>0, <2>1, <3>1 DEF Open
  <2>4. CASE Sign(c)
    <3>1. call'[c].pc = "granted" /\ call'[c].new = issued + 1 /\ stored' = stored \cup {issued + 1}
      BY <1>t, <2>4 DEF Sign, SignTokens, CallType
    <3>2. call[c].token <= issued + 1 /\ \A n \in 0..issued : n # issued + 1
      BY <1>t, <1>c
    <3> QED BY <1>s, <2>0, <2>1, <3>1, <3>2 DEF Open
  <2>5. CASE Break(c)
    <3>1. call'[c].pc = "broken" /\ stored' = stored
      BY <1>t, <2>5 DEF Break, Goto, CallType
    <3> QED BY <1>s, <2>0, <2>1, <3>1 DEF Open
  <2> QED BY <1>2, <2>2, <2>3, <2>4, <2>5 DEF RefreshAccessToken
<1>3. ASSUME NEW c \in Calls, Client(c) PROVE Held'
  <2> DEFINE t == TabOf[c]
  <2>1. CASE SetCookies(c)
    <3>1. /\ call'[c].pc = "renewed" /\ Open(t) /\ Renews(c)
          /\ \A x \in Calls \ {c} : call'[x] = call[x]
          /\ UNCHANGED <<tab, stored, lapsed>>
      BY <1>t, <2>1 DEF SetCookies, Goto, CallType, Renews, Refreshing, Answered
    <3>2. \A x \in Calls \ {c} : ~ Waiting(x)
      BY <1>w, <3>1 DEF Owned, OneTab
    <3>3. ASSUME NEW x \in Calls PROVE Fine(x)'
      <4>1. CASE x = c
        BY <3>1, <4>1 DEF Waiting, AtServer
      <4>2. CASE x # c
        <5>1. ~ Waiting(x)'
          BY <3>1, <3>2, <4>2 DEF Waiting
        <5> QED BY <5>1 DEF Waiting
      <4> QED BY <4>1, <4>2
    <3> QED BY <3>3 DEF Held
  <2>2. CASE Refreshed(c) \/ RefreshFailed(c) \/ Toast(c) \/ Ignore(c)
    <3>1. UNCHANGED <<jar, stored, lapsed>>
      BY <2>2 DEF Refreshed, RefreshFailed, Toast, Ignore
    <3>2. Open(t)' => Open(t)
      BY <1>t, <2>2 DEF Refreshed, RefreshFailed, Toast, Ignore, Open, TabType, Heard
    <3>3. \A x \in Calls : call'[x] = call[x] \/ call'[x].pc \in {"sent", "failed", "toast", "gone"}
      <4>1. CASE Refreshed(c)
        BY <1>t, <4>1 DEF Refreshed, Resend, CallType
      <4>2. CASE RefreshFailed(c)
        BY <1>t, <4>2 DEF RefreshFailed, CallType
      <4>3. CASE Toast(c)
        BY <1>t, <4>3 DEF Toast, Goto
      <4>4. CASE Ignore(c)
        BY <1>t, <4>4 DEF Ignore, Idle
      <4> QED BY <2>2, <4>1, <4>2, <4>3, <4>4
    <3>4. ASSUME NEW x \in Calls PROVE Fine(x)'
      <4>1. TabOf[x] = t
        BY DEF OneTab
      <4>2. CASE call'[x] = call[x]
        BY <1>c, <3>1, <3>2, <4>1, <4>2 DEF Waiting
      <4>3. CASE call'[x].pc \in {"sent", "failed", "toast", "gone"}
        BY <4>3 DEF Waiting, AtServer
      <4> QED BY <3>3, <4>2, <4>3
    <3> QED BY <3>4 DEF Held
  <2> QED BY <1>3, <2>1, <2>2 DEF Client
<1>4. ASSUME NEW t \in Tabs, Login(t) PROVE Held'
  <2>1. \A c \in Calls : call'[c] = Idle
    BY <1>4, <1>t DEF Login, OneTab
  <2> QED BY <2>1 DEF Held, Waiting, Idle, AtServer
<1>5. ASSUME NEW t \in Tabs, Logout(t) \/ Redirect(t) PROVE Held'
  BY <1>5, <1>u DEF Logout, Redirect
<1>6. ASSUME NEW n \in 1..issued, Expire(n) \/ Lapse(n) PROVE Held'
  BY <1>6 DEF Expire, Lapse, Held, Waiting, Open
<1>7. ASSUME UNCHANGED vars PROVE Held'
  BY <1>7 DEF vars, Held, Waiting, Open
<1> QED BY <1>1, <1>2, <1>3, <1>4, <1>5, <1>6, <1>7 DEF Next

\* Only RefreshFailed turns a refusal into the toast, and then the refused token is the
\* one in the browser.
LEMMA RefusalStep ==
  ASSUME TypeOK, Held, [Next]_vars, NEW c \in Calls, call[c].pc = "denied", call'[c].pc = "toast"
  PROVE  jar \notin stored \ lapsed
<1>t. call \in [Calls -> CallType(issued)]
  BY TypeOKAs
<1>1. \E x \in Calls : RefreshFailed(x)
  <2>1. ASSUME NEW x \in Calls, NEW p, Goto(x, p), p # "toast" PROVE FALSE
    BY <1>t, <2>1 DEF Goto, CallType
  <2>2. ASSUME NEW x \in Calls, Interceptor(x) PROVE FALSE
    <3>1. CASE Send(x) \/ StartRefresh(x)
      BY <1>t, <3>1 DEF Send, StartRefresh, Idle
    <3>2. CASE Answer(x) \/ Fail(x) \/ GiveUp(x) \/ Enqueue(x)
      BY <2>1, <3>2 DEF Answer, Fail, GiveUp, Enqueue
    <3> QED BY <2>2, <3>1, <3>2 DEF Interceptor
  <2>3. ASSUME NEW x \in Calls, RefreshAccessToken(x) PROVE FALSE
    <3>1. CASE Sign(x)
      BY <1>t, <3>1 DEF Sign, CallType
    <3>2. CASE Lookup(x) \/ Revoke(x) \/ Break(x)
      BY <2>1, <3>2 DEF Lookup, Revoke, Break
    <3> QED BY <2>3, <3>1, <3>2 DEF RefreshAccessToken
  <2>4. ASSUME NEW x \in Calls, SetCookies(x) \/ Refreshed(x) \/ Toast(x) \/ Ignore(x) PROVE FALSE
    <3>1. CASE SetCookies(x) \/ Toast(x)
      BY <2>1, <3>1 DEF SetCookies, Toast
    <3>2. CASE Refreshed(x) \/ Ignore(x)
      BY <1>t, <3>2 DEF Refreshed, Ignore, Resend, Idle, CallType
    <3> QED BY <2>4, <3>1, <3>2
  <2>5. ASSUME NEW t \in Tabs, Login(t) \/ Logout(t) \/ Redirect(t) PROVE FALSE
    BY <2>5 DEF Login, Logout, Redirect, Unload, Idle
  <2>6. ASSUME UNCHANGED call PROVE FALSE
    BY <2>6
  <2> QED BY <2>2, <2>3, <2>4, <2>5, <2>6 DEF Next, Client, Expire, Lapse, vars
<1>2. PICK x \in Calls : RefreshFailed(x)
  BY <1>1
<1>3. x = c /\ Open(TabOf[c])
  BY <1>t, <1>2 DEF RefreshFailed, Queue, CallsOf, CallType
<1> QED BY <1>3 DEF Held, Waiting

\* In a browser with one tab of the app, the user is sent to the login page for a refusal
\* only if the server would refuse the token the browser holds.
THEOREM RefusedBeforeLogoutInOneTab == ASSUME OneTab PROVE Spec => LogoutOnlyWhenRefused
<1> DEFINE Inv == TypeOK /\ Heard /\ Owned /\ Held
           Refused == \A c \in Calls : call[c].pc = "denied" /\ call'[c].pc = "toast"
                                         => jar \notin stored \ lapsed
<1>1. Init => Inv
  BY InitType, InitOwned, InitHeld
<1>2. Inv /\ [Next]_vars => Inv'
  BY StepType, StepHeard, StepOwned, StepHeld
<1>3. Inv /\ [Next]_vars => [Refused]_vars
  BY RefusalStep
<1> QED BY <1>1, <1>2, <1>3, PTL DEF Spec, LogoutOnlyWhenRefused
=============================================================================
