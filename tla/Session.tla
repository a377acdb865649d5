------------------------------- MODULE Session -------------------------------
(***************************************************************************)
(* Signing in, and staying in: the tabs of one browser, which share the    *)
(* token pair in localStorage (tokenStorage), and the API's tokens         *)
(* (AuthService).  A call the API denies is held while its tab fetches a   *)
(* new pair, then sent once more (apiClient's response interceptor); the   *)
(* pair refreshed is rotated, and a tab that cannot refresh goes back to   *)
(* the sign-in page.  Pair n is the refresh token n and its access token.  *)
(***************************************************************************)
EXTENDS Integers, FiniteSets

CONSTANTS
    Tabs,        \* the browser's tabs
    Slots,       \* the calls a tab has under way at a time
    Busy,        \* bound: the tabs somebody works in; the others sit open, one call at a time
    MaxExpired,  \* bound: access tokens that run out
    MaxPairs    \* bound: pairs issued before the last thing done there

ASSUME BoundsAssumption == {MaxExpired, MaxPairs} \subseteq Nat /\ IsFiniteSet(Slots) /\ Slots # {}

VARIABLES
    stored,      \* localStorage: the pair it holds, 0 for none
    issued,      \* pairs the API has issued: 1..issued
    live,        \* refresh tokens that are neither revoked nor expired
    fresh,       \* access tokens that have not run out
    tab,         \* AuthProvider's user, the refresh, sign-in and sign-out of each tab
    calls,       \* the calls of each tab
    excused      \* the session has been ended, or an answer about it lost

vars == <<stored, issued, live, fresh, tab, calls, excused>>

NoPair == 0
MeSlot == CHOOSE s \in Slots : TRUE

-----------------------------------------------------------------------------
(* A call holds the pair it was sent with.  `me` calls ask who is signed   *)
(* in, on the page's load or after a sign-in.                              *)

Idle == [phase |-> "idle", op |-> "work", with |-> NoPair, retry |-> FALSE]
Sent(op, pair) == [phase |-> "sent", op |-> op, with |-> pair, retry |-> FALSE]

NoRefresh == [phase |-> "none", uses |-> NoPair, gives |-> NoPair]
Asking(pair) == [NoRefresh EXCEPT !.phase = "sent", !.uses = pair]

Restarted == [user |-> "loading", loaded |-> FALSE, refresh |-> NoRefresh, login |-> NoPair, logout |-> NoPair]

Used(t) == t \in Busy /\ issued < MaxPairs

Init ==
    /\ stored = 1
    /\ issued = 1
    /\ live = {1}
    /\ fresh \in SUBSET {1}
    /\ tab = [t \in Tabs |-> Restarted]
    /\ calls = [t \in Tabs |-> [s \in Slots |-> Idle]]
    /\ excused = FALSE

-----------------------------------------------------------------------------
(* AuthProvider.loadCurrentUser: nobody without a token, else ask who.     *)
Load(t) ==
    /\ tab[t].user = "loading" /\ ~tab[t].loaded
    /\ \/ /\ stored = NoPair
          /\ tab' = [tab EXCEPT ![t].user = "out"]
          /\ UNCHANGED calls
       \/ /\ stored # NoPair
          /\ tab' = [tab EXCEPT ![t].loaded = TRUE]
          /\ calls' = [calls EXCEPT ![t][MeSlot] = Sent("me", stored)]
    /\ UNCHANGED <<stored, issued, live, fresh, excused>>

(* Reloading the page drops everything the tab had under way. *)
Restart(t) ==
    /\ tab' = [tab EXCEPT ![t] = Restarted]
    /\ calls' = [calls EXCEPT ![t] = [s \in Slots |-> Idle]]

Reload(t) ==
    /\ tab[t].user # "loading"
    /\ Used(t)
    /\ excused' = (excused \/ tab[t].refresh.phase # "none")
    /\ Restart(t)
    /\ UNCHANGED <<stored, issued, live, fresh>>

(* A page in use makes calls, each with the token stored when it goes out. *)
Send(t, s) ==
    /\ tab[t].user = "in"
    /\ calls[t][s] = Idle
    /\ s = MeSlot \/ Used(t)
    /\ calls' = [calls EXCEPT ![t][s] = Sent("work", stored)]
    /\ UNCHANGED <<stored, issued, live, fresh, tab, excused>>

-----------------------------------------------------------------------------
Expire(n) ==
    /\ n \in fresh
    /\ Cardinality((1..issued) \ fresh) < MaxExpired
    /\ fresh' = fresh \ {n}
    /\ UNCHANGED <<stored, issued, live, tab, calls, excused>>

(* Every session of the user ended: a password changed, an account logged  *)
(* out everywhere, or the refresh tokens seven days old.                   *)
EndSessions ==
    /\ live # {}
    /\ live' = {}
    /\ excused' = TRUE
    /\ UNCHANGED <<stored, issued, fresh, tab, calls>>

-----------------------------------------------------------------------------
SettledOnSuccess(t, s, ok) ==
    /\ calls' = [calls EXCEPT ![t][s] = Idle]
    /\ tab' = [tab EXCEPT ![t].user = IF calls[t][s].op = "me" /\ ok THEN "in" ELSE @]
    /\ UNCHANGED <<stored, issued, live, fresh, excused>>

(* A call is answered: by what it asked for, if its access token is good - *)
(* whatever became of its refresh token (get_current_user) - or by a 401;  *)
(* or the network gives it up.  loadCurrentUser clears the tokens when it  *)
(* cannot learn who they are of; a sign-in whose `me` fails shows the      *)
(* error and leaves them.                                                  *)
Settled(t, s, ok) ==
    LET me == calls[t][s].op = "me"
    IN  /\ calls' = [calls EXCEPT ![t][s] = Idle]
        /\ tab' = [tab EXCEPT ![t].user = IF ~me THEN @ ELSE IF ok THEN "in" ELSE "out"]
        /\ stored' = IF me /\ ~ok /\ tab[t].user = "loading" THEN NoPair ELSE stored
        /\ UNCHANGED <<issued, live, fresh, excused>>

Answered(t, s) ==
    LET c == calls[t][s]
    IN  /\ c.phase = "sent"
        /\ c.with \in fresh \/ c.retry
        /\ Settled(t, s, c.with \in fresh)

LoseCall(t, s) == calls[t][s].phase = "sent" /\ Settled(t, s, FALSE)

Denied(t, s) == calls[t][s].phase = "sent" /\ calls[t][s].with \notin fresh /\ ~calls[t][s].retry

JoinByItself(t, s) ==
    /\ Denied(t, s)
    /\ stored # NoPair
    /\ calls' = [calls EXCEPT ![t][s] = [@ EXCEPT !.phase = "waiting", !.with = NoPair, !.retry = TRUE]]
    /\ tab' = [tab EXCEPT ![t].refresh = Asking(stored)]
    /\ UNCHANGED <<stored, issued, live, fresh, excused>>

(* The interceptor of a call denied for the first time: join the refresh   *)
(* under way, or begin one, of the pair stored by now.                     *)
Join(t, s) ==
    /\ Denied(t, s)
    /\ tab[t].refresh # NoRefresh \/ stored # NoPair
    /\ calls' = [calls EXCEPT ![t][s] = [@ EXCEPT !.phase = "waiting", !.with = NoPair, !.retry = TRUE]]
    /\ tab' = [tab EXCEPT ![t].refresh = IF @ = NoRefresh THEN Asking(stored) ELSE @]
    /\ excused' = (excused \/ (tab[t].refresh = NoRefresh
                                 /\ \E u \in Tabs : tab[u].refresh # NoRefresh /\ tab[u].refresh.uses = stored))
    /\ UNCHANGED <<stored, issued, live, fresh>>

(* refreshAccessToken throws with no refresh token to send: the tokens are *)
(* cleared and the page goes to /login.                                    *)
NothingToRefresh(t, s) ==
    /\ Denied(t, s)
    /\ tab[t].refresh = NoRefresh /\ stored = NoPair
    /\ Restart(t)
    /\ UNCHANGED <<stored, issued, live, fresh, excused>>

(* AuthService.refresh looks the token up, then revokes it and issues a    *)
(* new pair: two requests with one token may both have looked it up.       *)
LookUp(t) ==
    LET r == tab[t].refresh
    IN  /\ r.phase = "sent"
        /\ tab' = [tab EXCEPT ![t].refresh.phase = IF r.uses \in live THEN "found" ELSE "refused"]
        /\ UNCHANGED <<stored, issued, live, fresh, calls, excused>>

Issue(n) == issued' = n /\ fresh' = fresh \cup {n}

Rotate(t) ==
    LET r == tab[t].refresh
    IN  /\ r.phase = "found"
        /\ Issue(issued + 1)
        /\ live' = (live \ {r.uses}) \cup {issued + 1}
        /\ tab' = [tab EXCEPT ![t].refresh = [r EXCEPT !.phase = "granted", !.gives = issued + 1]]
        /\ UNCHANGED <<stored, calls, excused>>

LoseRefresh(t) ==
    /\ tab[t].refresh.phase \in {"sent", "granted"}
    /\ tab' = [tab EXCEPT ![t].refresh.phase = "refused", ![t].refresh.gives = NoPair]
    /\ live' = live \ {tab[t].refresh.gives}
    /\ excused' = TRUE
    /\ UNCHANGED <<stored, issued, fresh, calls>>

ResumeUnstored(t) ==
    LET r == tab[t].refresh
        again(c) == IF c.phase = "waiting" THEN [c EXCEPT !.phase = "sent", !.with = r.gives] ELSE c
    IN  /\ r.phase = "granted"
        /\ tab' = [tab EXCEPT ![t].refresh = NoRefresh]
        /\ calls' = [calls EXCEPT ![t] = [s \in Slots |-> again(calls[t][s])]]
        /\ UNCHANGED <<stored, issued, live, fresh, excused>>

ResumeFirst(t) ==
    LET r == tab[t].refresh
    IN  /\ r.phase = "granted"
        /\ stored' = r.gives
        /\ tab' = [tab EXCEPT ![t].refresh = NoRefresh]
        /\ calls' = [calls EXCEPT ![t][MeSlot] = IF @.phase = "waiting" THEN [@ EXCEPT !.phase = "sent", !.with = r.gives] ELSE @]
        /\ UNCHANGED <<issued, live, fresh, excused>>

(* The pair is stored, and the calls that waited for it go out again.  All *)
(* of them resume before another answer is looked at: one refresh a tab.   *)
Resume(t) ==
    LET r == tab[t].refresh
        again(c) == IF c.phase = "waiting" THEN [c EXCEPT !.phase = "sent", !.with = r.gives] ELSE c
    IN  /\ r.phase = "granted"
        /\ stored' = r.gives
        /\ tab' = [tab EXCEPT ![t].refresh = NoRefresh]
        /\ calls' = [calls EXCEPT ![t] = [s \in Slots |-> again(calls[t][s])]]
        /\ UNCHANGED <<issued, live, fresh, excused>>

ThrowOut(t) ==
    /\ tab[t].refresh.phase = "refused"
    /\ stored' = NoPair
    /\ Restart(t)
    /\ UNCHANGED <<issued, live, fresh, excused>>

-----------------------------------------------------------------------------
(* Signing in and out. *)

Login(t) ==
    /\ tab[t].user = "out" /\ tab[t].login = NoPair
    /\ calls[t][MeSlot] = Idle
    /\ Used(t)
    /\ Issue(issued + 1)
    /\ live' = live \cup {issued + 1}
    /\ tab' = [tab EXCEPT ![t].login = issued + 1]
    /\ UNCHANGED <<stored, calls, excused>>

LoggedIn(t) ==
    /\ tab[t].login # NoPair
    /\ \/ /\ stored' = tab[t].login
          /\ calls' = [calls EXCEPT ![t][MeSlot] = Sent("me", tab[t].login)]
          /\ excused' = (tab[t].login \notin live \/ \E u \in Tabs : tab[u].refresh # NoRefresh \/ tab[u].logout # NoPair)
       \/ UNCHANGED <<stored, calls, excused>>
    /\ tab' = [tab EXCEPT ![t].login = NoPair]
    /\ UNCHANGED <<issued, live, fresh>>

(* authService.logout revokes the refresh token stored when it is pressed  *)
(* and clears what is stored when it is answered; a lost answer leaves the *)
(* page as it was, without its tokens.                                     *)
Logout(t) ==
    /\ tab[t].user = "in" /\ tab[t].logout = NoPair
    /\ Used(t)
    /\ \/ /\ stored = NoPair
          /\ tab' = [tab EXCEPT ![t].user = "out"]
       \/ /\ stored # NoPair
          /\ tab' = [tab EXCEPT ![t].logout = stored]
    /\ excused' = TRUE
    /\ UNCHANGED <<stored, issued, live, fresh, calls>>

LoggedOut(t) ==
    /\ tab[t].logout # NoPair
    /\ \/ /\ live' = live \ {tab[t].logout}
          /\ tab' = [tab EXCEPT ![t].logout = NoPair, ![t].user = "out"]
       \/ /\ live' \in {live, live \ {tab[t].logout}}
          /\ tab' = [tab EXCEPT ![t].logout = NoPair]
    /\ stored' = NoPair
    /\ UNCHANGED <<issued, fresh, calls, excused>>

-----------------------------------------------------------------------------
Next ==
    \/ \E t \in Tabs :
          \/ Load(t) \/ Reload(t)
          \/ LookUp(t) \/ Rotate(t) \/ LoseRefresh(t) \/ Resume(t) \/ ThrowOut(t)
          \/ Login(t) \/ LoggedIn(t) \/ Logout(t) \/ LoggedOut(t)
          \/ \E s \in Slots :
                Send(t, s) \/ Answered(t, s) \/ LoseCall(t, s) \/ Join(t, s) \/ NothingToRefresh(t, s)
    \/ \E n \in 1..issued : Expire(n)
    \/ EndSessions

(* The API answers, or the network gives the call up, and a tab's handlers *)
(* run; nobody has to press anything, and tokens need not run out.         *)
Fairness ==
    \A t \in Tabs :
        /\ WF_vars(Load(t))
        /\ WF_vars(LookUp(t) \/ Rotate(t) \/ Resume(t) \/ ThrowOut(t))
        /\ \A s \in Slots : WF_vars(Answered(t, s) \/ Join(t, s) \/ NothingToRefresh(t, s))

Spec == Init /\ [][Next]_vars /\ Fairness

-----------------------------------------------------------------------------
(* Properties. *)

CallPhases == {"idle", "sent", "waiting"}
RefreshPhases == {"none", "sent", "found", "granted", "refused"}
Pairs == 0..issued

TypeOK ==
    /\ issued \in Nat \ {0} /\ stored \in Pairs
    /\ live \subseteq 1..issued /\ fresh \subseteq 1..issued
    /\ tab \in [Tabs -> [user : {"loading", "in", "out"}, loaded : BOOLEAN, login : Pairs, logout : Pairs,
                         refresh : [phase : RefreshPhases, uses : Pairs, gives : Pairs]]]
    /\ calls \in [Tabs -> [Slots -> [phase : CallPhases, op : {"me", "work"}, with : Pairs, retry : BOOLEAN]]]
    /\ excused \in BOOLEAN

(* The refresh token the browser keeps is one the API still takes, or its  *)
(* successor is on its way to be stored: tabs that refresh one after       *)
(* another, and late denials that refresh a pair just refreshed, never     *)
(* leave a dead one behind - unless somebody signed out, the sessions were *)
(* ended, an answer was lost, or two tabs refreshed one pair at once.      *)
StoredPairWorks ==
    ~excused /\ stored # NoPair =>
        \/ stored \in live
        \/ \E t \in Tabs : tab[t].refresh.phase = "granted" /\ tab[t].refresh.uses = stored

(* A tab is sent to the sign-in page for a refresh refused only then.      *)
ThrownOutFairly == \A t \in Tabs : tab[t].refresh.phase = "refused" => excused

(* Every call is answered, retried or given up in the end: none is left    *)
(* waiting for a refresh that has come and gone.                           *)
CallsSettle == \A t \in Tabs, s \in Slots : calls[t][s] # Idle ~> calls[t][s] = Idle

(* No page shows its spinner for ever: it learns who is signed in, or that *)
(* nobody is.                                                              *)
LoadingEnds == \A t \in Tabs : tab[t].user = "loading" ~> tab[t].user # "loading"
=============================================================================
