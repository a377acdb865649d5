---------------------------- MODULE SessionProofs ----------------------------
(***************************************************************************)
(* Nobody is thrown out, and the stored pair works, for any number of      *)
(* tabs, calls and pairs - until the session is ended, an answer about it  *)
(* is lost, or two tabs refresh one pair at once (excused).                *)
(*                                                                         *)
(* What the properties say of the stored pair does not carry itself from   *)
(* step to step: a rotation revokes one pair, and must not be that of      *)
(* another tab's refresh, nor one another tab was granted.  The invariant  *)
(* keeps the pairs in hand apart: no two refreshes use one pair, and a     *)
(* pair just granted is nobody else's yet.                                 *)
(***************************************************************************)
EXTENDS Session, TLAPS

Refreshing(t) == tab[t].refresh.phase # "none"

(* A tab that is not refreshing holds no pair of a refresh. *)
RestIsBlank == \A t \in Tabs : ~Refreshing(t) => tab[t].refresh = NoRefresh

NobodyLeaves == \A t \in Tabs : tab[t].logout = NoPair /\ tab[t].refresh.phase # "refused"

(* What a refresh still has to use, or was given, the API takes. *)
InHandIsLive ==
    \A t \in Tabs :
        /\ tab[t].refresh.phase \in {"sent", "found"} => tab[t].refresh.uses \in live
        /\ tab[t].refresh.phase = "granted" => tab[t].refresh.gives \in live

UsesApart == \A t, u \in Tabs : t # u /\ Refreshing(t) /\ Refreshing(u) => tab[t].refresh.uses # tab[u].refresh.uses

GivesApart ==
    \A t \in Tabs : tab[t].refresh.phase = "granted" =>
        /\ tab[t].refresh.gives # stored
        /\ \A u \in Tabs : Refreshing(u) => tab[u].refresh.uses # tab[t].refresh.gives
        /\ \A u \in Tabs \ {t} : tab[u].refresh.phase = "granted" => tab[u].refresh.gives # tab[t].refresh.gives

StoredWorks ==
    stored # NoPair =>
        \/ stored \in live
        \/ \E t \in Tabs : tab[t].refresh.phase = "granted" /\ tab[t].refresh.uses = stored

Apart == NobodyLeaves /\ InHandIsLive /\ UsesApart /\ GivesApart /\ StoredWorks

IInv == RestIsBlank /\ (~excused => Apart)

-----------------------------------------------------------------------------
(* Types. *)

Refreshes == [phase : RefreshPhases, uses : Pairs, gives : Pairs]
TabStates == [user : {"loading", "in", "out"}, loaded : BOOLEAN, login : Pairs, logout : Pairs, refresh : Refreshes]
CallStates == [phase : CallPhases, op : {"me", "work"}, with : Pairs, retry : BOOLEAN]

LEMMA Typed == TypeOK <=> /\ issued \in Nat \ {0} /\ stored \in Pairs
                          /\ live \subseteq 1..issued /\ fresh \subseteq 1..issued
                          /\ tab \in [Tabs -> TabStates]
                          /\ calls \in [Tabs -> [Slots -> CallStates]]
                          /\ excused \in BOOLEAN
BY DEF TypeOK, Refreshes, TabStates, CallStates

(* A pair more is issued at most: what was well typed stays so. *)
LEMMA MorePairs ==
    ASSUME issued \in Nat \ {0}, issued' \in {issued, issued + 1}
    PROVE  /\ issued' \in Nat \ {0}
           /\ Pairs \subseteq Pairs'
           /\ 1..issued \subseteq 1..issued'
           /\ issued' \in Pairs' /\ issued' \in 1..issued'
           /\ NoPair \in Pairs
BY DEF Pairs, NoPair

LEMMA MoreStates ==
    ASSUME issued \in Nat \ {0}, issued' \in {issued, issued + 1}
    PROVE  TabStates \subseteq TabStates' /\ CallStates \subseteq CallStates' /\ Refreshes \subseteq Refreshes'
BY MorePairs DEF TabStates, CallStates, Refreshes

LEMMA Blanks ==
    ASSUME issued \in Nat \ {0}
    PROVE  /\ Restarted \in TabStates /\ NoRefresh \in Refreshes /\ Idle \in CallStates
           /\ \A n \in Pairs : Asking(n) \in Refreshes /\ Sent("me", n) \in CallStates /\ Sent("work", n) \in CallStates
<1>1. NoPair \in Pairs
    BY DEF Pairs, NoPair
<1>2. NoRefresh \in Refreshes
    BY <1>1 DEF NoRefresh, Refreshes, RefreshPhases
<1>3. Restarted \in TabStates
    BY <1>1, <1>2 DEF Restarted, TabStates
<1>4. Idle \in CallStates
    BY <1>1 DEF Idle, CallStates, CallPhases
<1>5. ASSUME NEW n \in Pairs
      PROVE  Asking(n) \in Refreshes /\ Sent("me", n) \in CallStates /\ Sent("work", n) \in CallStates
    BY <1>1 DEF Asking, NoRefresh, Sent, Refreshes, RefreshPhases, CallStates, CallPhases
<1> QED BY <1>2, <1>3, <1>4, <1>5

(* A tab's record, a refresh or a call with a field changed is still one. *)
LEMMA TabFields ==
    ASSUME NEW r \in TabStates
    PROVE  /\ r.user \in {"loading", "in", "out"} /\ r.login \in Pairs /\ r.logout \in Pairs /\ r.refresh \in Refreshes
           /\ \A x \in {"loading", "in", "out"} : [r EXCEPT !.user = x] \in TabStates
           /\ [r EXCEPT !.loaded = TRUE] \in TabStates
           /\ \A n \in Pairs : [r EXCEPT !.login = n] \in TabStates
           /\ \A n \in Pairs : [r EXCEPT !.logout = n] \in TabStates
           /\ \A n \in Pairs : [r EXCEPT !.logout = n, !.user = "out"] \in TabStates
           /\ \A q \in Refreshes : [r EXCEPT !.refresh = q] \in TabStates
BY DEF TabStates

LEMMA RefreshFields ==
    ASSUME NEW q \in Refreshes
    PROVE  /\ q.phase \in RefreshPhases /\ q.uses \in Pairs /\ q.gives \in Pairs
           /\ \A x \in RefreshPhases : [q EXCEPT !.phase = x] \in Refreshes
           /\ \A x \in RefreshPhases, n \in Pairs : [q EXCEPT !.phase = x, !.gives = n] \in Refreshes
BY DEF Refreshes

LEMMA CallFields ==
    ASSUME NEW c \in CallStates
    PROVE  /\ c.with \in Pairs
           /\ \A n \in Pairs : [c EXCEPT !.phase = "sent", !.with = n] \in CallStates
           /\ \A n \in Pairs : [c EXCEPT !.phase = "waiting", !.with = n, !.retry = TRUE] \in CallStates
BY DEF CallStates, CallPhases

LEMMA MeSlotIsOne == MeSlot \in Slots
BY BoundsAssumption DEF MeSlot

LEMMA TypeInit == Init => TypeOK
<1> SUFFICES ASSUME Init PROVE TypeOK
    OBVIOUS
<1>1. issued \in Nat \ {0} /\ issued = 1 /\ stored \in Pairs
    BY DEF Init, Pairs
<1>2. live \subseteq 1..issued /\ fresh \subseteq 1..issued
    BY <1>1 DEF Init
<1>3. tab \in [Tabs -> TabStates] /\ calls \in [Tabs -> [Slots -> CallStates]]
    BY <1>1, Blanks DEF Init
<1>4. excused \in BOOLEAN
    BY DEF Init
<1> QED BY <1>1, <1>2, <1>3, <1>4, Typed

LEMMA TypeNext == TypeOK /\ [Next]_vars => TypeOK'
<1> SUFFICES ASSUME TypeOK, [Next]_vars PROVE TypeOK'
    OBVIOUS
<1>t. /\ issued \in Nat \ {0} /\ stored \in Pairs
      /\ live \subseteq 1..issued /\ fresh \subseteq 1..issued
      /\ tab \in [Tabs -> TabStates]
      /\ calls \in [Tabs -> [Slots -> CallStates]]
      /\ excused \in BOOLEAN
    BY Typed
<1>b. /\ Restarted \in TabStates /\ NoRefresh \in Refreshes /\ Idle \in CallStates
      /\ NoPair \in Pairs
      /\ \A n \in Pairs : Asking(n) \in Refreshes /\ Sent("me", n) \in CallStates /\ Sent("work", n) \in CallStates
    <2>1. NoPair \in Pairs
        BY <1>t DEF Pairs, NoPair
    <2> QED BY <2>1, <1>t, Blanks
<1> DEFINE
    Old == /\ issued' = issued /\ stored' \in Pairs
           /\ live' \subseteq 1..issued /\ fresh' \subseteq 1..issued
           /\ tab' \in [Tabs -> TabStates]
           /\ calls' \in [Tabs -> [Slots -> CallStates]]
           /\ excused' \in BOOLEAN
<1>old. ASSUME Old PROVE TypeOK'
    BY <1>old, <1>t DEF TypeOK, TabStates, CallStates, Refreshes, Pairs
<1>f. ASSUME NEW t \in Tabs
      PROVE  /\ tab[t] \in TabStates /\ tab[t].refresh \in Refreshes /\ tab[t].login \in Pairs
             /\ \A r \in TabStates : [tab EXCEPT ![t] = r] \in [Tabs -> TabStates]
    BY <1>t, TabFields
<1>1. ASSUME NEW t \in Tabs, Load(t) PROVE Old
    <2>1. CASE stored = NoPair
        BY <1>1, <2>1, <1>t, <1>b, <1>f, TabFields DEF Load
    <2>2. CASE stored # NoPair
        <3>1. tab' = [tab EXCEPT ![t] = [tab[t] EXCEPT !.loaded = TRUE]]
            BY <1>1, <2>2 DEF Load
        <3>2. tab' \in [Tabs -> TabStates]
            BY <3>1, <1>f, TabFields
        <3>3. calls' = [calls EXCEPT ![t][MeSlot] = Sent("me", stored)]
            BY <1>1, <2>2 DEF Load
        <3>4. calls' \in [Tabs -> [Slots -> CallStates]]
            BY <3>3, <1>t, <1>b, MeSlotIsOne
        <3> QED BY <1>1, <1>t, <3>2, <3>4 DEF Load
    <2> QED BY <2>1, <2>2
<1>2. ASSUME NEW t \in Tabs, Reload(t) PROVE Old
    BY <1>2, <1>t, <1>b, <1>f, TabFields DEF Reload, Restart
<1>3. ASSUME NEW t \in Tabs, LookUp(t) PROVE Old
    BY <1>3, <1>t, <1>b, <1>f, TabFields, RefreshFields DEF LookUp, RefreshPhases
<1>4. ASSUME NEW t \in Tabs, LoseRefresh(t) PROVE Old
    <2> DEFINE q == [tab[t].refresh EXCEPT !.phase = "refused", !.gives = NoPair]
    <2>1. q \in Refreshes
        BY <1>f, <1>b, RefreshFields DEF RefreshPhases
    <2>2. tab' = [tab EXCEPT ![t] = [tab[t] EXCEPT !.refresh = q]]
        BY <1>4, <1>t DEF LoseRefresh, TabStates, Refreshes
    <2> HIDE DEF q
    <2>3. tab' \in [Tabs -> TabStates]
        BY <2>1, <2>2, <1>f, TabFields
    <2> QED BY <1>4, <1>t, <2>3 DEF LoseRefresh
<1>5. ASSUME NEW t \in Tabs, Resume(t) PROVE Old
    BY <1>5, <1>t, <1>b, <1>f, TabFields, RefreshFields, CallFields DEF Resume
<1>6. ASSUME NEW t \in Tabs, ThrowOut(t) PROVE Old
    BY <1>6, <1>t, <1>b, <1>f, TabFields DEF ThrowOut, Restart
<1>7. ASSUME NEW t \in Tabs, LoggedIn(t) PROVE Old
    <2>1. tab' \in [Tabs -> TabStates]
        BY <1>7, <1>b, <1>f, TabFields DEF LoggedIn
    <2>2. stored' \in Pairs /\ calls' \in [Tabs -> [Slots -> CallStates]]
        BY <1>7, <1>t, <1>b, <1>f, MeSlotIsOne DEF LoggedIn
    <2>3. excused' \in BOOLEAN
        BY <1>7, <1>t DEF LoggedIn
    <2> QED BY <1>7, <1>t, <2>1, <2>2, <2>3 DEF LoggedIn
<1>8. ASSUME NEW t \in Tabs, Logout(t) PROVE Old
    <2>1. CASE tab' = [tab EXCEPT ![t].user = "out"]
        BY <1>8, <2>1, <1>t, <1>f, TabFields DEF Logout
    <2>2. CASE tab' = [tab EXCEPT ![t].logout = stored]
        BY <1>8, <2>2, <1>t, <1>f, TabFields DEF Logout
    <2> QED BY <1>8, <2>1, <2>2 DEF Logout
<1>9. ASSUME NEW t \in Tabs, LoggedOut(t) PROVE Old
    <2> DEFINE r == [tab[t] EXCEPT !.logout = NoPair, !.user = "out"]
    <2>1. r \in TabStates
        BY <1>f, <1>b, TabFields
    <2>2. CASE tab' = [tab EXCEPT ![t].logout = NoPair, ![t].user = "out"]
        <3>1. tab' = [tab EXCEPT ![t] = r]
            BY <2>2, <1>t DEF TabStates
        <3> HIDE DEF r
        <3> QED BY <3>1, <2>1, <1>9, <1>t, <1>b, <1>f DEF LoggedOut
    <2>3. CASE tab' = [tab EXCEPT ![t].logout = NoPair]
        <3>1. tab' \in [Tabs -> TabStates]
            BY <2>3, <1>b, <1>f, TabFields
        <3> QED BY <3>1, <1>9, <1>t, <1>b DEF LoggedOut
    <2> QED BY <1>9, <2>2, <2>3 DEF LoggedOut
<1>10. ASSUME NEW t \in Tabs, NEW s \in Slots, Send(t, s) PROVE Old
    BY <1>10, <1>t, <1>b, <1>f, TabFields DEF Send
<1>11. ASSUME NEW t \in Tabs, NEW s \in Slots, Answered(t, s) PROVE Old
    BY <1>11, <1>t, <1>b, <1>f, TabFields DEF Answered, Settled
<1>12. ASSUME NEW t \in Tabs, NEW s \in Slots, LoseCall(t, s) PROVE Old
    BY <1>12, <1>t, <1>b, <1>f, TabFields DEF LoseCall, Settled
<1>13. ASSUME NEW t \in Tabs, NEW s \in Slots, Join(t, s) PROVE Old
    BY <1>13, <1>t, <1>b, <1>f, TabFields, CallFields DEF Join, Denied
<1>14. ASSUME NEW t \in Tabs, NEW s \in Slots, NothingToRefresh(t, s) PROVE Old
    BY <1>14, <1>t, <1>b, <1>f, TabFields DEF NothingToRefresh, Restart
<1>15. ASSUME NEW n \in 1..issued, Expire(n) PROVE Old
    BY <1>15, <1>t DEF Expire
<1>16. CASE EndSessions
    BY <1>16, <1>t, <1>old DEF EndSessions
<1>17. CASE UNCHANGED vars
    BY <1>17, <1>t, <1>old DEF vars
<1>new. ASSUME /\ issued' = issued + 1 /\ stored' \in Pairs
               /\ live' \subseteq 1..issued' /\ fresh' \subseteq 1..issued'
               /\ tab' \in [Tabs -> TabStates']
               /\ calls' \in [Tabs -> [Slots -> CallStates]]
               /\ excused' \in BOOLEAN
        PROVE  TypeOK'
    <2>1. issued' \in Nat \ {0} /\ stored' \in Pairs' /\ CallStates \subseteq CallStates'
        BY <1>new, <1>t, MorePairs, MoreStates
    <2>2. calls' \in [Tabs -> [Slots -> CallStates']]
        BY <1>new, <2>1
    <2> QED BY <1>new, <2>1, <2>2 DEF TypeOK, TabStates, Refreshes, CallStates
<1>18. ASSUME NEW t \in Tabs, Rotate(t) PROVE TypeOK'
    <2>1. issued' = issued + 1
        BY <1>18 DEF Rotate, Issue
    <2>2. /\ TabStates \subseteq TabStates' /\ 1..issued \subseteq 1..issued'
          /\ Pairs \subseteq Pairs' /\ issued + 1 \in Pairs' /\ issued + 1 \in 1..issued'
        BY <2>1, <1>t, MorePairs, MoreStates
    <2>3. [tab[t].refresh EXCEPT !.phase = "granted", !.gives = issued + 1] \in Refreshes'
        <3>1. tab[t].refresh \in [phase : RefreshPhases, uses : Pairs', gives : Pairs']
            BY <1>f, <2>2 DEF Refreshes
        <3>2. [tab[t].refresh EXCEPT !.phase = "granted", !.gives = issued + 1]
                 \in [phase : RefreshPhases, uses : Pairs', gives : Pairs']
            BY <3>1, <2>2 DEF RefreshPhases
        <3> QED BY <3>2 DEF Refreshes
    <2>4. tab' \in [Tabs -> TabStates']
        <3>1. \A q \in Refreshes' : [tab[t] EXCEPT !.refresh = q] \in TabStates'
            BY <1>f, <2>2 DEF TabStates
        <3>2. tab' = [tab EXCEPT ![t] = [tab[t] EXCEPT !.refresh = [tab[t].refresh EXCEPT !.phase = "granted", !.gives = issued + 1]]]
            BY <1>18 DEF Rotate
        <3> QED BY <3>1, <3>2, <2>2, <2>3, <1>t
    <2> QED BY <1>18, <1>t, <1>new, <2>1, <2>2, <2>4 DEF Rotate, Issue
<1>19. ASSUME NEW t \in Tabs, Login(t) PROVE TypeOK'
    <2>1. issued' = issued + 1
        BY <1>19 DEF Login, Issue
    <2>2. /\ TabStates \subseteq TabStates' /\ 1..issued \subseteq 1..issued'
          /\ Pairs \subseteq Pairs' /\ issued + 1 \in Pairs' /\ issued + 1 \in 1..issued'
        BY <2>1, <1>t, MorePairs, MoreStates
    <2>3. tab' \in [Tabs -> TabStates']
        BY <1>19, <1>t, <2>2 DEF Login, TabStates
    <2> QED BY <1>19, <1>t, <1>new, <2>1, <2>2, <2>3 DEF Login, Issue
<1> HIDE DEF Old
<1> QED BY <1>old, <1>1, <1>2, <1>3, <1>4, <1>5, <1>6, <1>7, <1>8, <1>9, <1>10, <1>11, <1>12, <1>13, <1>14,
          <1>15, <1>16, <1>17, <1>18, <1>19 DEF Next

-----------------------------------------------------------------------------
(* The invariant. *)

SameRefreshes == \A t \in Tabs : tab'[t].refresh = tab[t].refresh

LEMMA RestInit == Init => RestIsBlank
BY DEF Init, RestIsBlank, Restarted, Refreshing

(* Refreshes change when one is asked for, looked up, granted, lost, taken *)
(* up or dropped with its page.                                            *)
LEMMA WhoRefreshes ==
    ASSUME TypeOK, RestIsBlank, [Next]_vars
    PROVE  \/ SameRefreshes
           \/ \E t \in Tabs :
                /\ \A u \in Tabs \ {t} : tab'[u].refresh = tab[u].refresh
                /\ tab'[t].refresh = NoRefresh \/ tab'[t].refresh.phase # "none"
<1>t. tab \in [Tabs -> TabStates]
    BY Typed
<1>rest. RestIsBlank
    OBVIOUS
<1> USE <1>t
<1>1. ASSUME NEW t \in Tabs, Load(t) \/ Login(t) \/ LoggedIn(t) \/ Logout(t) \/ LoggedOut(t) PROVE SameRefreshes
    BY <1>1 DEF Load, Login, LoggedIn, Logout, LoggedOut, SameRefreshes, TabStates
<1>2. ASSUME NEW t \in Tabs, NEW s \in Slots, Send(t, s) \/ Answered(t, s) \/ LoseCall(t, s) PROVE SameRefreshes
    BY <1>2 DEF Send, Answered, LoseCall, Settled, SameRefreshes, TabStates
<1>3. ASSUME NEW t \in Tabs, NEW s \in Slots,
             Reload(t) \/ Resume(t) \/ ThrowOut(t) \/ LookUp(t) \/ Rotate(t) \/ LoseRefresh(t) \/ Join(t, s) \/ NothingToRefresh(t, s)
      PROVE  /\ \A u \in Tabs \ {t} : tab'[u].refresh = tab[u].refresh
             /\ tab'[t].refresh = NoRefresh \/ tab'[t].refresh.phase # "none"
    <2>1. CASE Reload(t) \/ ThrowOut(t) \/ NothingToRefresh(t, s)
        BY <2>1 DEF Reload, ThrowOut, NothingToRefresh, Restart, Restarted
    <2>2. CASE Resume(t)
        BY <2>2 DEF Resume, TabStates
    <2>3. CASE LookUp(t)
        BY <2>3 DEF LookUp, TabStates, Refreshes
    <2>4. CASE Rotate(t)
        BY <2>4 DEF Rotate, TabStates, Refreshes
    <2>5. CASE LoseRefresh(t)
        <3>1. tab' = [tab EXCEPT ![t] = [tab[t] EXCEPT !.refresh = [tab[t].refresh EXCEPT !.phase = "refused", !.gives = NoPair]]]
            BY <2>5 DEF LoseRefresh, TabStates, Refreshes
        <3> QED BY <3>1 DEF TabStates, Refreshes
    <2>6. CASE Join(t, s)
        <3>1. tab' = [tab EXCEPT ![t].refresh = IF @ = NoRefresh THEN Asking(stored) ELSE @]
            BY <2>6 DEF Join
        <3>2. Asking(stored).phase # "none"
            BY DEF Asking, NoRefresh
        <3>3. tab'[t].refresh \in {Asking(stored), tab[t].refresh} /\ \A u \in Tabs \ {t} : tab'[u].refresh = tab[u].refresh
            BY <3>1 DEF TabStates
        <3> QED BY <3>2, <3>3, <1>rest DEF RestIsBlank, Refreshing
    <2> QED BY <1>3, <2>1, <2>2, <2>3, <2>4, <2>5, <2>6
<1>4. ASSUME NEW n \in 1..issued, Expire(n) PROVE SameRefreshes
    BY <1>4 DEF Expire, SameRefreshes
<1>5. CASE EndSessions \/ UNCHANGED vars
    BY <1>5 DEF EndSessions, vars, SameRefreshes
<1> QED BY <1>1, <1>2, <1>3, <1>4, <1>5, BoundsAssumption, MeSlotIsOne DEF Next

LEMMA RestNext == TypeOK /\ RestIsBlank /\ [Next]_vars => RestIsBlank'
BY WhoRefreshes DEF RestIsBlank, SameRefreshes, Refreshing

(* What a step leaves alone when it touches no refresh: the pairs in hand  *)
(* still work, and the stored one is the same, or gone.                    *)
LEMMA Calm ==
    ASSUME TypeOK, Apart, SameRefreshes, live \subseteq live', stored' \in {stored, NoPair},
           \A t \in Tabs : tab'[t].logout = NoPair
    PROVE  Apart'
<1>1. NobodyLeaves' /\ InHandIsLive' /\ UsesApart'
    BY DEF Apart, NobodyLeaves, InHandIsLive, UsesApart, SameRefreshes, Refreshing
<1>2. \A t \in Tabs : tab[t].refresh.phase = "granted" => tab[t].refresh.gives # NoPair
    BY DEF Apart, InHandIsLive, TypeOK, NoPair
<1>3. GivesApart'
    BY <1>2 DEF Apart, GivesApart, SameRefreshes, Refreshing
<1>4. StoredWorks'
    BY DEF Apart, StoredWorks, SameRefreshes
<1> QED BY <1>1, <1>3, <1>4 DEF Apart

LEMMA ApartNext ==
    ASSUME TypeOK, RestIsBlank, ~excused => Apart, [Next]_vars, ~excused'
    PROVE  Apart'
<1>t. /\ issued \in Nat \ {0} /\ stored \in Pairs /\ live \subseteq 1..issued
      /\ tab \in [Tabs -> TabStates]
    BY Typed
<1>r. \A t \in Tabs : tab[t].refresh \in Refreshes /\ tab[t].login \in Pairs
    BY <1>t DEF TabStates
<1>1. ASSUME NEW t \in Tabs, Load(t) \/ Login(t) PROVE Apart'
    <2>1. Apart
        BY <1>1 DEF Load, Login
    <2>2. SameRefreshes /\ \A u \in Tabs : tab'[u].logout = NoPair
        BY <1>1, <1>t, <2>1 DEF Load, Login, SameRefreshes, TabStates, Apart, NobodyLeaves
    <2> QED BY <1>1, <2>1, <2>2, Calm DEF Load, Login
<1>2. ASSUME NEW t \in Tabs, NEW s \in Slots, Send(t, s) \/ Answered(t, s) \/ LoseCall(t, s) PROVE Apart'
    <2>1. Apart
        BY <1>2 DEF Send, Answered, LoseCall, Settled
    <2>2. SameRefreshes /\ \A u \in Tabs : tab'[u].logout = NoPair
        BY <1>2, <1>t, <2>1 DEF Send, Answered, LoseCall, Settled, SameRefreshes, TabStates, Apart, NobodyLeaves
    <2>3. live' = live /\ stored' \in {stored, NoPair}
        BY <1>2 DEF Send, Answered, LoseCall, Settled
    <2> QED BY <2>1, <2>2, <2>3, Calm
<1>3. ASSUME NEW t \in Tabs, NEW s \in Slots, Reload(t) \/ NothingToRefresh(t, s) PROVE Apart'
    <2>1. Apart /\ tab[t].refresh = NoRefresh
        BY <1>3 DEF Reload, NothingToRefresh, RestIsBlank, Refreshing
    <2>2. SameRefreshes /\ \A u \in Tabs : tab'[u].logout = NoPair
        BY <1>3, <1>t, <2>1 DEF Reload, NothingToRefresh, Restart, Restarted, SameRefreshes, Apart, NobodyLeaves
    <2> QED BY <1>3, <2>1, <2>2, Calm DEF Reload, NothingToRefresh
<1>4. ASSUME NEW t \in Tabs, LookUp(t) PROVE Apart'
    <2>1. Apart /\ tab[t].refresh.phase = "sent" /\ tab[t].refresh.uses \in live
        BY <1>4 DEF LookUp, Apart, InHandIsLive
    <2>2. /\ tab'[t].refresh.phase = "found" /\ tab'[t].refresh.uses = tab[t].refresh.uses
          /\ \A u \in Tabs \ {t} : tab'[u].refresh = tab[u].refresh
          /\ \A u \in Tabs : tab'[u].logout = tab[u].logout
        BY <1>4, <1>t, <2>1 DEF LookUp, TabStates, Refreshes
    <2>3. stored' = stored /\ live' = live
        BY <1>4 DEF LookUp
    <2>4. NobodyLeaves' /\ InHandIsLive'
        BY <2>1, <2>2, <2>3 DEF Apart, NobodyLeaves, InHandIsLive
    <2>5. UsesApart' /\ GivesApart'
        BY <2>1, <2>2, <2>3 DEF Apart, UsesApart, GivesApart, Refreshing
    <2>6. StoredWorks'
        BY <2>1, <2>2, <2>3 DEF Apart, StoredWorks
    <2> QED BY <2>4, <2>5, <2>6 DEF Apart
(* A rotation revokes a pair that is no other refresh's, and grants one    *)
(* that nobody has.                                                        *)
<1>5. ASSUME NEW t \in Tabs, Rotate(t) PROVE Apart'
    <2>1. Apart /\ tab[t].refresh.phase = "found"
        BY <1>5 DEF Rotate
    <2>2. /\ tab'[t].refresh.phase = "granted" /\ tab'[t].refresh.uses = tab[t].refresh.uses
          /\ tab'[t].refresh.gives = issued + 1
          /\ \A u \in Tabs \ {t} : tab'[u].refresh = tab[u].refresh
          /\ \A u \in Tabs : tab'[u].logout = tab[u].logout
        BY <1>5, <1>t DEF Rotate, TabStates, Refreshes
    <2>3. stored' = stored /\ live' = (live \ {tab[t].refresh.uses}) \cup {issued + 1}
        BY <1>5 DEF Rotate
    <2>4. /\ stored # issued + 1 /\ issued + 1 \notin live
          /\ \A u \in Tabs : tab[u].refresh.uses # issued + 1 /\ tab[u].refresh.gives # issued + 1
        BY <1>t, <1>r DEF Refreshes, Pairs
    <2>5. NobodyLeaves'
        BY <2>1, <2>2 DEF Apart, NobodyLeaves
    <2>6. InHandIsLive'
        BY <2>1, <2>2, <2>3 DEF Apart, InHandIsLive, UsesApart, GivesApart, Refreshing
    <2>7. UsesApart'
        BY <2>1, <2>2 DEF Apart, UsesApart, Refreshing
    <2>8. GivesApart'
        BY <2>1, <2>2, <2>3, <2>4 DEF Apart, GivesApart, Refreshing
    <2>9. StoredWorks'
        BY <2>1, <2>2, <2>3 DEF Apart, StoredWorks
    <2> QED BY <2>5, <2>6, <2>7, <2>8, <2>9 DEF Apart
<1>6. ASSUME NEW t \in Tabs, Resume(t) PROVE Apart'
    <2>1. Apart /\ tab[t].refresh.phase = "granted"
        BY <1>6 DEF Resume
    <2>2. /\ tab'[t].refresh.phase = "none"
          /\ \A u \in Tabs \ {t} : tab'[u].refresh = tab[u].refresh
          /\ \A u \in Tabs : tab'[u].logout = tab[u].logout
        BY <1>6, <1>t DEF Resume, NoRefresh, TabStates
    <2>3. stored' = tab[t].refresh.gives /\ live' = live /\ tab[t].refresh.gives \in live
        BY <1>6, <2>1 DEF Resume, Apart, InHandIsLive
    <2>4. NobodyLeaves' /\ InHandIsLive' /\ UsesApart'
        BY <2>1, <2>2, <2>3 DEF Apart, NobodyLeaves, InHandIsLive, UsesApart, Refreshing
    <2>5. GivesApart'
        BY <2>1, <2>2, <2>3 DEF Apart, GivesApart, Refreshing
    <2>6. StoredWorks'
        BY <2>3 DEF StoredWorks
    <2> QED BY <2>4, <2>5, <2>6 DEF Apart
(* What a new refresh uses is stored, works, and is no other refresh's.    *)
<1>7. ASSUME NEW t \in Tabs, NEW s \in Slots, Join(t, s) PROVE Apart'
    <2>1. Apart
        BY <1>7 DEF Join
    <2>2. tab' = [tab EXCEPT ![t].refresh = IF @ = NoRefresh THEN Asking(stored) ELSE @] /\ stored' = stored /\ live' = live
        BY <1>7 DEF Join
    <2>3. \A u \in Tabs : tab'[u].logout = NoPair
        BY <2>1, <2>2, <1>t DEF Apart, NobodyLeaves, TabStates
    <2>4. CASE tab[t].refresh # NoRefresh
        BY <2>1, <2>2, <2>3, <2>4, <1>t, Calm DEF SameRefreshes, TabStates
    <2>5. CASE tab[t].refresh = NoRefresh
        <3>1. /\ tab'[t].refresh = Asking(stored)
              /\ \A u \in Tabs \ {t} : tab'[u].refresh = tab[u].refresh
            BY <2>2, <2>5, <1>t DEF TabStates
        <3>2. Asking(stored).phase = "sent" /\ Asking(stored).uses = stored /\ ~Refreshing(t)
            BY <2>5 DEF Asking, NoRefresh, Refreshing
        <3>3. stored # NoPair /\ \A u \in Tabs : Refreshing(u) => tab[u].refresh.uses # stored
            <4>1. stored # NoPair
                BY <1>7, <2>5 DEF Join
            <4>2. ~(tab[t].refresh = NoRefresh /\ \E u \in Tabs : tab[u].refresh # NoRefresh /\ tab[u].refresh.uses = stored)
                BY <1>7, Zenon DEF Join
            <4>3. \A u \in Tabs : Refreshing(u) => tab[u].refresh # NoRefresh
                BY DEF Refreshing, NoRefresh
            <4> QED BY <2>5, <4>1, <4>2, <4>3
        <3>4. stored \in live
            BY <3>3, <2>1 DEF Apart, StoredWorks, Refreshing
        <3>5. NobodyLeaves' /\ InHandIsLive' /\ UsesApart'
            BY <2>1, <2>2, <2>3, <3>1, <3>2, <3>3, <3>4 DEF Apart, NobodyLeaves, InHandIsLive, UsesApart, Refreshing
        <3>6. GivesApart'
            BY <2>1, <2>2, <3>1, <3>2 DEF Apart, GivesApart, Refreshing
        <3>7. StoredWorks'
            BY <2>2, <3>4 DEF StoredWorks
        <3> QED BY <3>5, <3>6, <3>7 DEF Apart
    <2> QED BY <2>4, <2>5
(* A sign-in stores a pair that works, with no refresh under way; one that *)
(* is given up stores nothing.                                             *)
<1>8. ASSUME NEW t \in Tabs, LoggedIn(t) PROVE Apart'
    <2>1. /\ \A u \in Tabs : tab'[u].refresh = tab[u].refresh /\ tab'[u].logout = tab[u].logout
          /\ live' = live
        BY <1>8, <1>t DEF LoggedIn, TabStates
    <2>2. CASE stored' = tab[t].login /\ excused' = (tab[t].login \notin live \/ \E u \in Tabs : tab[u].refresh # NoRefresh \/ tab[u].logout # NoPair)
        <3>0. ~(tab[t].login \notin live \/ \E u \in Tabs : tab[u].refresh # NoRefresh \/ tab[u].logout # NoPair)
            BY <2>2, Zenon
        <3>1. stored' \in live' /\ \A u \in Tabs : tab'[u].refresh = NoRefresh /\ tab'[u].logout = NoPair
            BY <2>1, <2>2, <3>0
        <3> QED BY <3>1 DEF Apart, NobodyLeaves, InHandIsLive, UsesApart, GivesApart, StoredWorks, Refreshing, NoRefresh
    <2>3. CASE stored' = stored /\ excused' = excused
        <3>1. \A u \in Tabs : tab'[u].logout = NoPair
            BY <2>1, <2>3 DEF Apart, NobodyLeaves
        <3> QED BY <2>1, <2>3, <3>1, Calm DEF SameRefreshes
    <2> QED BY <1>8, <2>2, <2>3 DEF LoggedIn
(* The rest ends the session, loses an answer about it, or needs that to   *)
(* have happened.                                                          *)
<1>9. ASSUME NEW t \in Tabs, LoseRefresh(t) \/ Logout(t) PROVE FALSE
    BY <1>9 DEF LoseRefresh, Logout
<1>10. ASSUME NEW t \in Tabs, ThrowOut(t) \/ LoggedOut(t) PROVE FALSE
    BY <1>10 DEF ThrowOut, LoggedOut, Apart, NobodyLeaves
<1>11. ASSUME NEW n \in 1..issued, Expire(n) PROVE Apart'
    BY <1>11, Calm DEF Expire, SameRefreshes, Apart, NobodyLeaves
<1>12. CASE EndSessions
    BY <1>12 DEF EndSessions
<1>13. CASE UNCHANGED vars
    BY <1>13, Calm DEF vars, SameRefreshes, Apart, NobodyLeaves
<1> QED BY <1>1, <1>2, <1>3, <1>4, <1>5, <1>6, <1>7, <1>8, <1>9, <1>10, <1>11, <1>12, <1>13, MeSlotIsOne DEF Next

LEMMA ApartInit == Init => Apart
BY DEF Init, Apart, NobodyLeaves, InHandIsLive, UsesApart, GivesApart, StoredWorks, Refreshing, Restarted, NoRefresh, NoPair

-----------------------------------------------------------------------------
(* Theorems. *)

LEMMA Invariance == Spec => [](TypeOK /\ IInv)
<1>1. Init => TypeOK /\ IInv
    BY TypeInit, RestInit, ApartInit DEF IInv
<1>2. TypeOK /\ IInv /\ [Next]_vars => (TypeOK /\ IInv)'
    BY TypeNext, RestNext, ApartNext DEF IInv
<1> QED BY <1>1, <1>2, PTL DEF Spec

(* Tokens, tabs and calls are well typed.                                  *)
THEOREM SessionTypeCorrect == Spec => []TypeOK
BY Invariance, PTL

(* The refresh token the browser keeps works, or its successor is about to *)
(* be stored, for any number of tabs refreshing in any order.              *)
THEOREM StoredPairStaysGood == Spec => []StoredPairWorks
<1>1. IInv => StoredPairWorks
    BY DEF IInv, Apart, StoredWorks, StoredPairWorks
<1> QED BY <1>1, Invariance, PTL

(* No tab has a refresh refused that the API had not been told to refuse.  *)
THEOREM NobodyThrownOut == Spec => []ThrownOutFairly
<1>1. IInv => ThrownOutFairly
    BY DEF IInv, Apart, NobodyLeaves, ThrownOutFairly
<1> QED BY <1>1, Invariance, PTL
=============================================================================
