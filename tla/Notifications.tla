---------------------------- MODULE Notifications ----------------------------
(***************************************************************************)
(* The bell in the header and the Notifications page (NotificationBell,    *)
(* NotificationsPage), as one user moves between pages: two components     *)
(* that share one cached list and one count of unread, refetch them after  *)
(* their own requests, and go where a notification points when opened.     *)
(* Requests overlap and are lost; notifications arrive, and are read and   *)
(* deleted elsewhere, meanwhile.  The cache is TanStack Query's, as far as *)
(* these two use it.                                                       *)
(***************************************************************************)
EXTENDS Navigation

CONSTANTS
    Users,       \* the users considered: their role, whether held to a section, the codes granted
    PanelSize,   \* how many the bell asks for
    PageSize,    \* how many the page asks for
    MaxNotes,    \* bound: notifications sent
    MaxCalls,    \* bound: requests under way
    Selecting,   \* bound: where notifications are selected, of "bell" and "page"
    Others,      \* bound: notifications also read or deleted elsewhere
    Sent         \* bound: the kinds of notification each user is sent

ASSUME SizesAssumption == PanelSize \in Nat \ {0} /\ PageSize \in Nat /\ PanelSize < PageSize

VARIABLES
    user,        \* who is signed in
    path,        \* the page shown
    notes,       \* the user's notifications as the server holds them, oldest first
    list,        \* the cached list and its fetch
    badge,       \* the cached count of unread
    bell,        \* whether the panel is open, and the panel's selection
    page,        \* the page's selection
    calls,       \* the requests under way, and those answered since the earliest of them
    gone         \* notifications this tab was told are deleted, with the list on show

vars == <<user, path, notes, list, badge, bell, page, calls, gone>>

Ids == 1..MaxNotes

Kept == {id \in DOMAIN notes : notes[id].state # "deleted"}
Unread == {id \in DOMAIN notes : notes[id].state = "unread"}

(* NotificationRepository.list: the newest of those kept.                  *)
Newest(size) == {id \in Kept : Cardinality({other \in Kept : other > id}) < size}

-----------------------------------------------------------------------------
(* The two cached queries.  A fetch answered holds what the server said.   *)

NoFetch == [phase |-> "none", size |-> 0, rows |-> {}]

PageShown == path = "/notifications"
ListShown == bell.open \/ PageShown

(* A fetch nobody started yet, of as many rows as the component asks for.  *)
Fetching(size) == [NoFetch EXCEPT !.phase = "sent", !.size = size]

(* A component mounting: joins the fetch under way, or begins its own.     *)
Joined(size) == [list EXCEPT !.fetch = IF @.phase = "none" THEN Fetching(size) ELSE @]

RefetchedUnlessFetching ==
    IF ~ListShown \/ list.fetch.phase # "none" THEN {list}
    ELSE {[list EXCEPT !.fetch = Fetching(PanelSize)]}

(* invalidateQueries: a list on show is fetched anew, and what was under   *)
(* way is dropped - except a first fetch, which is left to finish.  It is  *)
(* fetched as whichever of the two components drew last would fetch it.    *)
Refetched ==
    IF ~ListShown THEN {list}
    ELSE IF ~list.known /\ list.fetch.phase # "none" THEN {list}
    ELSE {[list EXCEPT !.fetch = Fetching(size)] :
             size \in IF PageShown THEN {PanelSize, PageSize} ELSE {PanelSize}}

ServeList ==
    /\ list.fetch.phase = "sent"
    /\ list' = [list EXCEPT !.fetch.phase = "answered",
                            !.fetch.rows = Newest(list.fetch.size)]
    /\ UNCHANGED <<user, path, notes, badge, bell, page, calls, gone>>

TakeList ==
    /\ list.fetch.phase = "answered"
    /\ list' = [known |-> TRUE, rows |-> list.fetch.rows, failed |-> FALSE, fetch |-> NoFetch]
    /\ UNCHANGED <<user, path, notes, badge, bell, page, calls, gone>>

(* A fetch that fails, its one retry too, leaves what was cached.          *)
FailList ==
    /\ list.fetch.phase # "none"
    /\ list' = [list EXCEPT !.failed = TRUE, !.fetch = NoFetch]
    /\ UNCHANGED <<user, path, notes, badge, bell, page, calls, gone>>

(* The count is asked for every minute and after each request here, and    *)
(* any answer may be lost: it is the server's at some moment or other.     *)
CountUnread ==
    /\ badge # Cardinality(Unread)
    /\ badge' = Cardinality(Unread)
    /\ UNCHANGED <<user, path, notes, list, bell, page, calls, gone>>

-----------------------------------------------------------------------------
(* Moving about.  The page that turns a user away is drawn without the      *)
(* menu and the bell, and offers no way on but "/".                         *)

NoSelection == [on |-> FALSE, picked |-> {}]
NoBell == [open |-> FALSE, selection |-> NoSelection]
InLayout == path # "/unauthorized"

(* The Notifications page mounts with nothing selected, and asks for its   *)
(* list; other pages leave the cached list where it is.                    *)
Goes(to) ==
    /\ path' = Arrive(user, to)
    /\ page' = IF path' = path THEN page ELSE NoSelection

Visit(to) ==
    /\ to = "/" \/ InLayout
    /\ Goes(to)
    /\ list' = IF path' = "/notifications" /\ path' # path THEN Joined(PageSize) ELSE list
    /\ UNCHANGED <<user, notes, badge, bell, calls, gone>>

OpenBell ==
    /\ InLayout /\ ~bell.open
    /\ bell' = [bell EXCEPT !.open = TRUE]
    /\ list' = Joined(PanelSize)
    /\ UNCHANGED <<user, path, notes, badge, page, calls, gone>>

(* Clicking away or Escape: the selection stays for the next time. *)
CloseBell ==
    /\ bell.open
    /\ bell' = [bell EXCEPT !.open = FALSE]
    /\ UNCHANGED <<user, path, notes, list, badge, page, calls, gone>>

(* "View all notifications" *)
ViewAll ==
    /\ bell.open /\ list.rows # {}
    /\ Goes("/notifications")
    /\ bell' = [bell EXCEPT !.open = FALSE]
    /\ list' = IF PageShown THEN list ELSE Joined(PageSize)
    /\ UNCHANGED <<user, notes, badge, calls, gone>>

-----------------------------------------------------------------------------
(* What is asked of the server, from the bell or from the page. *)

Selection(by) == IF by = "bell" THEN bell.selection ELSE page
On(by) == IF by = "bell" THEN bell.open ELSE PageShown /\ list.known

Select(by, selection) ==
    /\ IF by = "bell" THEN bell' = [bell EXCEPT !.selection = selection] /\ UNCHANGED page
                      ELSE page' = selection /\ UNCHANGED bell
    /\ UNCHANGED <<user, path, notes, list, badge, calls, gone>>

StartSelecting(by) ==
    /\ by \in Selecting
    /\ On(by) /\ ~Selection(by).on /\ list.rows # {}
    /\ Select(by, [on |-> TRUE, picked |-> {}])

StopSelecting(by) == On(by) /\ Selection(by).on /\ Select(by, NoSelection)

Toggle(by, id) ==
    LET picked == Selection(by).picked
    IN  /\ On(by) /\ Selection(by).on /\ id \in list.rows
        /\ Select(by, [on |-> TRUE, picked |-> IF id \in picked THEN picked \ {id} ELSE picked \cup {id}])

(* "Select all" reads as ticked once as many are picked as are listed.     *)
AllSelected(by) == list.rows # {} /\ Cardinality(Selection(by).picked) = Cardinality(list.rows)

ToggleAll(by) ==
    /\ On(by) /\ Selection(by).on
    /\ Select(by, [on |-> TRUE, picked |-> IF AllSelected(by) THEN {} ELSE list.rows])

Ask(by, op, ids) ==
    /\ On(by)
    /\ Len(calls) < MaxCalls
    /\ calls' = Append(calls, [by |-> by, op |-> op, ids |-> ids, phase |-> "sent"])
    /\ UNCHANGED <<user, path, notes, list, badge, bell, page, gone>>

(* A row is off only while the latest request of its kind is about it.     *)
Busy(by, op, ids) ==
    \E n \in DOMAIN calls :
        /\ calls[n].by = by /\ calls[n].op = op /\ calls[n].ids = ids /\ calls[n].phase # "done"
        /\ \A m \in n + 1..Len(calls) : calls[m].by # by \/ calls[m].op # op

OpenNote(by, id) ==
    /\ ~Selection(by).on /\ id \in list.rows
    /\ ~Busy(by, "open", {id}) /\ ~Busy(by, "delete", {id})
    /\ Ask(by, "open", {id})

DeleteNote(by, id) ==
    /\ ~Selection(by).on /\ id \in list.rows
    /\ ~Busy(by, "delete", {id})
    /\ Ask(by, "delete", {id})

DeletePicked(by) ==
    /\ Selection(by).on /\ Selection(by).picked # {}
    /\ ~\E n \in DOMAIN calls : calls[n].by = by /\ calls[n].op = "bulk" /\ calls[n].phase # "done"
    /\ Ask(by, "bulk", Selection(by).picked)

(* Which of the rows are drawn as read is left out: the page may ask with  *)
(* none unread, to no effect.                                              *)
MarkAllRead(by) ==
    /\ ~Selection(by).on
    /\ IF by = "bell" THEN badge > 0 ELSE list.rows # {}
    /\ ~\E n \in DOMAIN calls : calls[n].by = by /\ calls[n].op = "readAll" /\ calls[n].phase # "done"
    /\ Ask(by, "readAll", {})

-----------------------------------------------------------------------------
(* The server, NotificationService: a deleted notification is not found,   *)
(* except in a selection, whose others are still deleted.                  *)

Marked(ids, state) == [id \in DOMAIN notes |-> IF id \in ids THEN [notes[id] EXCEPT !.state = state] ELSE notes[id]]

Finish(n) ==
    calls' = IF \A m \in DOMAIN calls \ {n} : calls[m].phase = "done" THEN <<>>
             ELSE [calls EXCEPT ![n] = [@ EXCEPT !.phase = "done", !.ids = {}]]

ServeCall(n) ==
    LET c == calls[n]
    IN  /\ c.phase = "sent"
        /\ c.op \in {"bulk", "readAll"} \/ c.ids \subseteq Kept
        /\ notes' = CASE c.op = "open" -> Marked(c.ids, "read")
                      [] c.op = "readAll" -> Marked(Unread, "read")
                      [] c.op \in {"delete", "bulk"} -> Marked(c.ids, "deleted")
        /\ calls' = [calls EXCEPT ![n].phase = "ok"]
        /\ UNCHANGED <<user, path, list, badge, bell, page, gone>>

(* Not found any more, or lost on its way there or back: nothing refreshes. *)
Refused(n) ==
    /\ calls[n].phase \in {"sent", "ok"}
    /\ Finish(n)
    /\ UNCHANGED <<user, path, notes, list, badge, bell, page, gone>>

(* A report of non-payment goes to whoever may allocate batches; every      *)
(* other notification by something else than a code: the role's section,    *)
(* the lead's owner, who set the follow-up, a user named; with a lead to    *)
(* open or, "plain", with none.                                             *)
Kinds == {"lead", "non_payment", "plain"}

SentTo(kind) == kind = "non_payment" => HasPermission(user, "batch_confirmation.allocate")

Arrives(kind) ==
    /\ Len(notes) < MaxNotes /\ kind \in Sent[user]
    /\ SentTo(kind)
    /\ notes' = Append(notes, [kind |-> kind, state |-> "unread"])
    /\ UNCHANGED <<user, path, list, badge, bell, page, calls, gone>>

(* The user reads or deletes some on another device. *)
Elsewhere(id) ==
    /\ id \in Kept \cap Others
    /\ \E state \in {"read", "deleted"} : notes[id].state # state /\ notes' = Marked({id}, state)
    /\ UNCHANGED <<user, path, list, badge, bell, page, calls, gone>>

-----------------------------------------------------------------------------
(* The answers. *)

DestinationForLeads(note) == "/leads"

(* destinationFor: a non-payment report is a coordinator's work, anything  *)
(* else a lead on the Foundation board.                                    *)
DestinationFor(note) == IF note.kind = "non_payment" THEN "/batch-confirmation" ELSE "/leads"

(* Opening one goes where it points, if to a lead, wherever the user has    *)
(* gone meanwhile.                                                         *)
Opened(n) ==
    LET c == calls[n]
    IN  /\ c.op = "open" /\ c.phase = "ok"
        /\ \E id \in c.ids : IF notes[id].kind = "plain" THEN UNCHANGED <<path, page>> ELSE Goes(DestinationFor(notes[id]))
        /\ bell' = IF path' = "/unauthorized" THEN NoBell ELSE IF c.by = "bell" THEN [bell EXCEPT !.open = FALSE] ELSE bell
        /\ list' \in Refetched
        /\ Finish(n)
        /\ UNCHANGED <<user, notes, badge, gone>>

Changed(n) ==
    LET c == calls[n]
    IN  /\ c.op # "open" /\ c.phase = "ok"
        /\ bell' = IF c.op = "bulk" /\ c.by = "bell" THEN [bell EXCEPT !.selection = NoSelection] ELSE bell
        /\ page' = IF c.op = "bulk" /\ c.by = "page" THEN NoSelection ELSE page
        /\ gone' = IF c.op \in {"delete", "bulk"} /\ ListShown THEN gone \cup c.ids ELSE gone
        /\ list' \in Refetched
        /\ Finish(n)
        /\ UNCHANGED <<user, path, notes, badge>>

-----------------------------------------------------------------------------
Init ==
    /\ user \in Users
    /\ path = Arrive(user, "/")
    /\ notes = <<>>
    /\ list = [known |-> FALSE, rows |-> {}, failed |-> FALSE, fetch |-> NoFetch]
    /\ badge = 0
    /\ bell = NoBell
    /\ page = NoSelection
    /\ calls = <<>>
    /\ gone = {}

Press(by) ==
    \/ StartSelecting(by) \/ StopSelecting(by) \/ ToggleAll(by)
    \/ DeletePicked(by) \/ MarkAllRead(by)
    \/ \E id \in Ids : Toggle(by, id) \/ OpenNote(by, id) \/ DeleteNote(by, id)

Next ==
    \/ \E to \in Offered(user) \cup {"/"} : Visit(to)
    \/ OpenBell \/ CloseBell \/ ViewAll
    \/ \E by \in {"bell", "page"} : Press(by)
    \/ ServeList \/ TakeList \/ FailList
    \/ CountUnread
    \/ \E n \in DOMAIN calls : ServeCall(n) \/ Opened(n) \/ Changed(n) \/ Refused(n)
    \/ \E kind \in Kinds : Arrives(kind)
    \/ \E id \in Ids : Elsewhere(id)

Spec == Init /\ [][Next]_vars

-----------------------------------------------------------------------------
(* Properties. *)

(* The page a notification is about: nothing asks whether the person it is *)
(* sent to may open it.                                                     *)
PageCode(note) == IF note.kind = "non_payment" THEN "batch_confirmation.view" ELSE "leads.view"
Misaddressed(note) == note.kind # "plain" /\ ~HasPermission(user, PageCode(note))

OpensMisaddressed(n) ==
    calls[n].op = "open" /\ calls[n].phase = "ok" /\ \E id \in calls[n].ids : Misaddressed(notes[id])

HasPage == VisibleNavItems(user) # {}

(* Whoever has a page at all starts on one that opens, and the app sends    *)
(* them to no other - by the menu, "/", "View all", a notification opened,  *)
(* its answer late or not - but where they open a notification sent to      *)
(* somebody who may not open the page it is about.                          *)
NeverTurnedAway ==
    /\ HasPage => Opens(user, path)
    /\ [][path' # path /\ HasPage => Opens(user, path)' \/ \E n \in DOMAIN calls : OpensMisaddressed(n)]_vars

(* What was deleted with the list on show does not come back: once the     *)
(* list is settled it has none of it, however fetches, polls and deletions *)
(* crossed.                                                                *)
DeletedStaysGone ==
    ListShown /\ list.fetch.phase = "none" /\ ~list.failed => gone \cap list.rows = {}
=============================================================================
