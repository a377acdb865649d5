-------------------------- MODULE NotificationsProofs --------------------------
(***************************************************************************)
(* Nobody is turned away but by a notification they should not have been    *)
(* sent: for any set of users, whatever their roles, their sections and the *)
(* codes granted to them.  The menu, the landing page, the routes' guards   *)
(* and the destinations of notifications are four lists kept apart in the   *)
(* code; ListsAgree compares them entry by entry.                           *)
(*                                                                          *)
(* And what was deleted stays off the list, for any number of calls under   *)
(* way and whichever of them fail: a notification is deleted from a list    *)
(* that is already known, and a known list is only cut down or read again   *)
(* (GoneInv).                                                               *)
(***************************************************************************)
EXTENDS Notifications, WellFoundedInduction, TLAPS

-----------------------------------------------------------------------------
(* The lists. *)

LEMMA RouteFields ==
    ASSUME NEW code
    PROVE  /\ Route(code, TRUE).code = code /\ Route(code, TRUE).blockScoped = TRUE
           /\ Route(code, FALSE).code = code /\ Route(code, FALSE).blockScoped = FALSE
BY DEF Route

(* What a menu entry's page asks for, the entry asked for.                 *)
Agrees(item) ==
    /\ GuardOf(item.to).code = "" \/ item.codes = {GuardOf(item.to).code}
    /\ GuardOf(item.to).blockScoped = FALSE \/ item.scope = "unscoped"
    /\ item.to \notin DOMAIN Moved \cup {"/unauthorized"}
    /\ item.to = "/" => item = NavItems[1]
    /\ item.to = "/employee" => item.codes = EmployeeCodes

LEMMA MovedPaths ==
    DOMAIN Moved = {"/lead-analytics", "/leads/foundation-form", "/induction-attendance", "/staffs", "/departments",
                    "/roles", "/users"}
BY DEF Moved

LEMMA EntryAgrees ==
    ASSUME NEW to, NEW codes, NEW kept, NEW scope, NEW code, NEW blocked \in BOOLEAN,
           GuardOf(to) = Route(code, blocked), code = "" \/ codes = {code},
           blocked = FALSE \/ scope = "unscoped", to \notin DOMAIN Moved \cup {"/unauthorized"},
           to = "/" => Entry(to, codes, kept, scope) = NavItems[1], to = "/employee" => codes = EmployeeCodes
    PROVE  Agrees(Entry(to, codes, kept, scope))
<1>1. Entry(to, codes, kept, scope).to = to /\ Entry(to, codes, kept, scope).codes = codes
      /\ Entry(to, codes, kept, scope).scope = scope
    BY DEF Entry
<1>2. GuardOf(to).code = code /\ (blocked = FALSE => GuardOf(to).blockScoped = FALSE)
    BY RouteFields
<1> QED BY <1>1, <1>2 DEF Agrees

LEMMA ListsAgree == \A n \in DOMAIN NavItems : Agrees(NavItems[n])
<1>1. Agrees(NavItems[1])
    <2>1. NavItems[1] = Entry("/", {"dashboard.view"}, {}, "unscoped")
        BY DEF NavItems
    <2>2. GuardOf("/") = Route("", FALSE)
        BY DEF GuardOf, AttendancePaths
    <2> QED BY <2>1, <2>2, EntryAgrees, MovedPaths
<1>2. Agrees(NavItems[2])
    <2>1. NavItems[2] = Entry("/statistics", {"lead_analytics.view"}, {"Finance"}, "unscoped")
        BY DEF NavItems
    <2>2. GuardOf("/statistics") = Route("lead_analytics.view", TRUE)
        BY DEF GuardOf, AttendancePaths
    <2> QED BY <2>1, <2>2, EntryAgrees, MovedPaths
<1>3. Agrees(NavItems[3])
    <2>1. NavItems[3] = Entry("/leads", {"leads.view"}, {"Finance"}, "any")
        BY DEF NavItems
    <2>2. GuardOf("/leads") = Route("leads.view", FALSE)
        BY DEF GuardOf, AttendancePaths
    <2> QED BY <2>1, <2>2, EntryAgrees, MovedPaths
<1>4. Agrees(NavItems[4])
    <2>1. NavItems[4] = Entry("/notifications", {"notifications.view"}, {}, "scoped")
        BY DEF NavItems
    <2>2. GuardOf("/notifications") = Route("", FALSE)
        BY DEF GuardOf, AttendancePaths
    <2> QED BY <2>1, <2>2, EntryAgrees, MovedPaths
<1>5. Agrees(NavItems[5])
    <2>1. NavItems[5] = Entry("/leads/form-collection", {"form_collection.view"}, {"Finance"}, "any")
        BY DEF NavItems
    <2>2. GuardOf("/leads/form-collection") = Route("form_collection.view", FALSE)
        BY DEF GuardOf, AttendancePaths
    <2> QED BY <2>1, <2>2, EntryAgrees, MovedPaths
<1>6. Agrees(NavItems[6])
    <2>1. NavItems[6] = Entry("/programs", {"programs.view"}, {"Finance"}, "unscoped")
        BY DEF NavItems
    <2>2. GuardOf("/programs") = Route("programs.view", FALSE)
        BY DEF GuardOf, AttendancePaths
    <2> QED BY <2>1, <2>2, EntryAgrees, MovedPaths
<1>7. Agrees(NavItems[7])
    <2>1. NavItems[7] = Entry("/settings/google-sheets", {"sheet_export.view"}, {"Finance"}, "unscoped")
        BY DEF NavItems
    <2>2. GuardOf("/settings/google-sheets") = Route("sheet_export.view", FALSE)
        BY DEF GuardOf, AttendancePaths
    <2> QED BY <2>1, <2>2, EntryAgrees, MovedPaths
<1>8. Agrees(NavItems[8])
    <2>1. NavItems[8] = Entry("/induction-attendance/terms", {"induction_attendance.view"}, {}, "unscoped")
        BY DEF NavItems
    <2>2. GuardOf("/induction-attendance/terms") = Route("induction_attendance.view", TRUE)
        BY DEF GuardOf, AttendancePaths
    <2> QED BY <2>1, <2>2, EntryAgrees, MovedPaths
<1>9. Agrees(NavItems[9])
    <2>1. NavItems[9] = Entry("/polls", {"induction_attendance.view"}, {}, "any")
        BY DEF NavItems
    <2>2. GuardOf("/polls") = Route("induction_attendance.view", FALSE)
        BY DEF GuardOf, AttendancePaths
    <2> QED BY <2>1, <2>2, EntryAgrees, MovedPaths
<1>10. Agrees(NavItems[10])
    <2>1. NavItems[10] = Entry("/induction-attendance/success-meet", {"induction_attendance.view"}, {}, "unscoped")
        BY DEF NavItems
    <2>2. GuardOf("/induction-attendance/success-meet") = Route("induction_attendance.view", TRUE)
        BY DEF GuardOf, AttendancePaths
    <2> QED BY <2>1, <2>2, EntryAgrees, MovedPaths
<1>11. Agrees(NavItems[11])
    <2>1. NavItems[11] = Entry("/induction-attendance/foundation-class", {"induction_attendance.view"}, {}, "unscoped")
        BY DEF NavItems
    <2>2. GuardOf("/induction-attendance/foundation-class") = Route("induction_attendance.view", TRUE)
        BY DEF GuardOf, AttendancePaths
    <2> QED BY <2>1, <2>2, EntryAgrees, MovedPaths
<1>12. Agrees(NavItems[12])
    <2>1. NavItems[12] = Entry("/batch-confirmation", {"batch_confirmation.view"}, {}, "any")
        BY DEF NavItems
    <2>2. GuardOf("/batch-confirmation") = Route("batch_confirmation.view", FALSE)
        BY DEF GuardOf, AttendancePaths
    <2> QED BY <2>1, <2>2, EntryAgrees, MovedPaths
<1>13. Agrees(NavItems[13])
    <2>1. NavItems[13] = Entry("/whatsapp-links", {"whatsapp_links.view"}, {}, "any")
        BY DEF NavItems
    <2>2. GuardOf("/whatsapp-links") = Route("whatsapp_links.view", FALSE)
        BY DEF GuardOf, AttendancePaths
    <2> QED BY <2>1, <2>2, EntryAgrees, MovedPaths
<1>14. Agrees(NavItems[14])
    <2>1. NavItems[14] = Entry("/student-portal", {"student_portal.view"}, {}, "unscoped")
        BY DEF NavItems
    <2>2. GuardOf("/student-portal") = Route("student_portal.view", TRUE)
        BY DEF GuardOf, AttendancePaths
    <2> QED BY <2>1, <2>2, EntryAgrees, MovedPaths
<1>15. Agrees(NavItems[15])
    <2>1. NavItems[15] = Entry("/payments", {"payments.view"}, {}, "any")
        BY DEF NavItems
    <2>2. GuardOf("/payments") = Route("payments.view", FALSE)
        BY DEF GuardOf, AttendancePaths
    <2> QED BY <2>1, <2>2, EntryAgrees, MovedPaths
<1>16. Agrees(NavItems[16])
    <2>1. NavItems[16] = Entry("/employee", EmployeeCodes, {}, "any")
        BY DEF NavItems
    <2>2. GuardOf("/employee") = Route("", FALSE)
        BY DEF GuardOf, AttendancePaths
    <2> QED BY <2>1, <2>2, EntryAgrees, MovedPaths
<1>17. Agrees(NavItems[17])
    <2>1. NavItems[17] = Entry("/settings", {"settings.view"}, {}, "any")
        BY DEF NavItems
    <2>2. GuardOf("/settings") = Route("settings.view", FALSE)
        BY DEF GuardOf, AttendancePaths
    <2> QED BY <2>1, <2>2, EntryAgrees, MovedPaths
<1>18. DOMAIN NavItems = 1..17
    BY DEF NavItems
<1>19. \A n \in 1..17 : Agrees(NavItems[n])
    <2> SUFFICES ASSUME NEW n \in 1..17 PROVE Agrees(NavItems[n])
        OBVIOUS
    <2>1. n = 1 \/ n = 2 \/ n = 3 \/ n = 4 \/ n = 5 \/ n = 6 \/ n = 7 \/ n = 8 \/ n = 9
          \/ n = 10 \/ n = 11 \/ n = 12 \/ n = 13 \/ n = 14 \/ n = 15 \/ n = 16 \/ n = 17
        OBVIOUS
    <2> QED BY <1>1, <1>2, <1>3, <1>4, <1>5, <1>6, <1>7, <1>8, <1>9, <1>10, <1>11, <1>12, <1>13, <1>14, <1>15,
               <1>16, <1>17, <2>1
<1> QED BY <1>18, <1>19

(* The menu leads nowhere its user is turned away from.                    *)
LEMMA MenuOpens ==
    ASSUME NEW u, NEW n \in VisibleNavItems(u)
    PROVE  Opens(u, NavItems[n].to)
<1> DEFINE item == NavItems[n]
           guard == GuardOf(item.to)
<1>1. IsNavItemVisible(item, u) /\ Agrees(item)
    BY ListsAgree DEF VisibleNavItems
<1> HIDE DEF item
<1>2. guard.code = "" \/ HasPermission(u, guard.code)
    BY <1>1 DEF Agrees, IsNavItemVisible
<1>3. ~(guard.blockScoped /\ u.scoped)
    <2>1. CASE guard.blockScoped = FALSE
        BY <2>1, Zenon
    <2>2. CASE item.scope = "unscoped"
        <3>1. ~u.scoped
            BY <1>1, <2>2, Zenon DEF IsNavItemVisible
        <3> QED BY <3>1, Zenon
    <2> QED BY <1>1, <2>1, <2>2 DEF Agrees
<1>4. Admits(u, item.to)
    BY <1>2, <1>3, Zenon DEF Admits
<1>5. item.to # "/unauthorized" /\ item.to \notin DOMAIN Moved
    BY <1>1 DEF Agrees
<1>6. item.to = "/" => IsNavItemVisible(NavItems[1], u)
    BY <1>1 DEF Agrees
<1>7. item.to = "/employee" => EmployeeTabs(u) # {}
    BY <1>1 DEF Agrees, EmployeeTabs, IsNavItemVisible
<1>8. Opens(u, item.to)
    BY <1>4, <1>5, <1>6, <1>7 DEF Opens, Turn
<1> QED BY <1>8 DEF item

LEMMA LandingOpens ==
    ASSUME NEW u, HasLanding(u)
    PROVE  Opens(u, LandingPath(u))
<1> DEFINE least(n) == n \in Openable(u) /\ \A m \in Openable(u) : n <= m
<1>1. Openable(u) \subseteq Nat /\ Openable(u) # {}
    BY DEF Openable, VisibleNavItems, NavItems, HasLanding
<1>2. \E n \in Openable(u) : \A m \in Openable(u) : ~(<<m, n>> \in OpToRel(<, Nat))
    BY <1>1, NatLessThanWellFounded, WFMin
<1>3. \E n \in Openable(u) : \A m \in Openable(u) : n <= m
    <2>1. PICK n \in Openable(u) : \A m \in Openable(u) : ~(<<m, n>> \in OpToRel(<, Nat))
        BY <1>2
    <2>2. \A m \in Openable(u) : ~(m < n)
        BY <1>1, <2>1 DEF OpToRel
    <2> QED BY <1>1, <2>2
<1>4. PICK n \in Openable(u) : LandingPath(u) = NavItems[n].to
    BY <1>3 DEF LandingPath
<1> QED BY <1>4, MenuOpens DEF Openable

(* An address that opens is where one arrives, and "/" opens or leads on.  *)
LEMMA Arriving ==
    ASSUME NEW u, NEW p, Opens(u, p)
    PROVE  Arrive(u, p) = p
BY DEF Arrive, Opens

LEMMA HomeOpens ==
    ASSUME NEW u, VisibleNavItems(u) # {}
    PROVE  Opens(u, Arrive(u, "/"))
<1>1. CASE \E n \in VisibleNavItems(u) : NavItems[n].to = "/"
    BY <1>1, MenuOpens, Arriving
<1>2. CASE Opens(u, "/")
    BY <1>2, Arriving
<1>3. CASE HasLanding(u) /\ ~Opens(u, "/")
    <2>1. GuardOf("/") = Route("", FALSE)
        BY DEF GuardOf, AttendancePaths
    <2>2. Admits(u, "/")
        BY <2>1, RouteFields, Zenon DEF Admits
    <2>3. Turn(u, "/") = LandingPath(u)
        <3>1. Turn(u, "/") = IF IsNavItemVisible(NavItems[1], u) THEN "/"
                             ELSE IF HasLanding(u) THEN LandingPath(u) ELSE "/unauthorized"
            BY <2>2, MovedPaths DEF Turn
        <3> QED BY <1>3, <3>1 DEF Opens
    <2>4. Opens(u, LandingPath(u))
        BY <1>3, LandingOpens
    <2>5. Arrive(u, "/") = LandingPath(u)
        BY <2>3, <2>4 DEF Arrive, Opens
    <2> QED BY <2>4, <2>5
<1>4. (\E n \in VisibleNavItems(u) : NavItems[n].to = "/") \/ HasLanding(u)
    BY DEF HasLanding, Openable
<1> QED BY <1>1, <1>2, <1>3, <1>4

(* The plain pages a notification, or the bell, leads to. *)
LEMMA PlainOpens ==
    ASSUME NEW u, NEW p \in {"/leads", "/notifications", "/batch-confirmation"}, NEW code,
           GuardOf(p) = Route(code, FALSE), code = "" \/ HasPermission(u, code)
    PROVE  Opens(u, p)
<1>1. Admits(u, p)
    BY RouteFields, Zenon DEF Admits
<1> QED BY <1>1, MovedPaths DEF Opens, Turn

LEMMA DestinationOpens ==
    ASSUME NEW note, note.kind \in Kinds \ {"plain"}, ~Misaddressed(note)
    PROVE  Opens(user, DestinationFor(note))
<1>1. GuardOf("/leads") = Route("leads.view", FALSE)
      /\ GuardOf("/batch-confirmation") = Route("batch_confirmation.view", FALSE)
    BY DEF GuardOf, AttendancePaths
<1>2. CASE note.kind = "lead"
    BY <1>1, <1>2, PlainOpens DEF DestinationFor, Misaddressed, PageCode
<1>3. CASE note.kind = "non_payment"
    BY <1>1, <1>3, PlainOpens DEF DestinationFor, Misaddressed, PageCode
<1> QED BY <1>2, <1>3 DEF Kinds

LEMMA NotificationsOpen == \A u : Opens(u, "/notifications")
<1>1. GuardOf("/notifications") = Route("", FALSE)
    BY DEF GuardOf, AttendancePaths
<1> QED BY <1>1, PlainOpens

LEMMA OfferedOpens ==
    ASSUME NEW u, VisibleNavItems(u) # {}, NEW to \in Offered(u) \cup {"/"}
    PROVE  Opens(u, Arrive(u, to))
<1>1. CASE to = "/"
    BY <1>1, HomeOpens
<1>2. CASE to # "/"
    <2>1. PICK n \in VisibleNavItems(u) : to = NavItems[n].to
        BY <1>2 DEF Offered, BarTabs, Sheet
    <2> QED BY <2>1, MenuOpens, Arriving
<1> QED BY <1>1, <1>2

-----------------------------------------------------------------------------
(* The invariant: types, and that what is listed, or being opened, is one  *)
(* of the notifications sent.                                              *)

NoteRecords == [kind : Kinds, state : {"unread", "read", "deleted"}]
FetchRecords == [phase : {"none", "sent", "answered"}, size : Nat, rows : SUBSET Nat]
ListRecords == [known : BOOLEAN, rows : SUBSET Nat, failed : BOOLEAN, fetch : FetchRecords]
Selections == [on : BOOLEAN, picked : SUBSET Nat]
Bells == [open : BOOLEAN, selection : Selections]
CallRecords ==
    [by : {"bell", "page"}, op : {"open", "delete", "bulk", "readAll"}, ids : SUBSET Nat, phase : {"sent", "ok", "done"}]

NoteTypes == notes \in Seq(NoteRecords)
ListTypes == list \in ListRecords /\ list.rows \subseteq DOMAIN notes /\ list.fetch.rows \subseteq DOMAIN notes
ViewTypes == bell \in Bells /\ page \in Selections
Opening == \A n \in DOMAIN calls : calls[n].op = "open" => calls[n].ids \subseteq DOMAIN notes
CallTypes == calls \in Seq(CallRecords) /\ Opening

IInv == NoteTypes /\ ListTypes /\ ViewTypes /\ CallTypes

LEMMA Started == Init => IInv
<1> SUFFICES ASSUME Init PROVE IInv
    OBVIOUS
<1>1. NoteTypes
    BY DEF Init, NoteTypes
<1>2. ListTypes
    <2>1. NoFetch \in FetchRecords /\ NoFetch.rows = {}
        BY DEF NoFetch, FetchRecords
    <2> QED BY <2>1 DEF Init, ListTypes, ListRecords
<1>3. ViewTypes
    <2>1. NoSelection \in Selections
        BY DEF NoSelection, Selections
    <2> QED BY <2>1 DEF Init, ViewTypes, Bells, NoBell
<1>4. CallTypes
    BY DEF Init, CallTypes, Opening
<1> QED BY <1>1, <1>2, <1>3, <1>4 DEF IInv

(* Notifications are added and change their state, and are never taken off. *)
LEMMA MarkedTyped ==
    ASSUME notes \in Seq(NoteRecords), NEW ids, NEW state \in {"unread", "read", "deleted"}
    PROVE  Marked(ids, state) \in Seq(NoteRecords) /\ DOMAIN Marked(ids, state) = DOMAIN notes
<1>1. \A id \in DOMAIN notes : /\ notes[id] \in NoteRecords
                               /\ [notes[id] EXCEPT !.state = state] \in NoteRecords
                               /\ [notes[id] EXCEPT !.state = state].kind = notes[id].kind
    <2>1. \A note \in NoteRecords : /\ [note EXCEPT !.state = state] \in NoteRecords
                                    /\ [note EXCEPT !.state = state].kind = note.kind
        BY DEF NoteRecords
    <2>2. \A id \in DOMAIN notes : notes[id] \in NoteRecords
        OBVIOUS
    <2> QED BY <2>1, <2>2
<1>2. DOMAIN notes = 1..Len(notes) /\ Len(notes) \in Nat
    OBVIOUS
<1>3. Marked(ids, state) \in [1..Len(notes) -> NoteRecords]
    BY <1>1, <1>2 DEF Marked
<1> QED BY <1>1, <1>2, <1>3 DEF Marked

LEMMA NotesKeep ==
    ASSUME NoteTypes, user' = user,
           \/ notes' = notes
           \/ \E ids : \E state \in {"unread", "read", "deleted"} : notes' = Marked(ids, state)
           \/ \E kind \in Kinds : notes' = Append(notes, [kind |-> kind, state |-> "unread"])
    PROVE  NoteTypes' /\ DOMAIN notes \subseteq DOMAIN notes'
<1>1. CASE notes' = notes
    BY <1>1 DEF NoteTypes
<1>2. ASSUME NEW ids, NEW state \in {"unread", "read", "deleted"}, notes' = Marked(ids, state)
      PROVE  NoteTypes' /\ DOMAIN notes \subseteq DOMAIN notes'
    BY <1>2, MarkedTyped DEF NoteTypes
<1>3. ASSUME NEW kind \in Kinds, notes' = Append(notes, [kind |-> kind, state |-> "unread"])
      PROVE  NoteTypes' /\ DOMAIN notes \subseteq DOMAIN notes'
    <2> DEFINE note == [kind |-> kind, state |-> "unread"]
    <2>1. note \in NoteRecords /\ note.kind = kind
        BY DEF NoteRecords
    <2> HIDE DEF note
    <2>2. /\ notes' \in Seq(NoteRecords) /\ DOMAIN notes' = 1..Len(notes) + 1
          /\ \A id \in 1..Len(notes) + 1 : notes'[id] = IF id <= Len(notes) THEN notes[id] ELSE note
        BY <1>3, <2>1 DEF NoteTypes, note
    <2> QED BY <2>1, <2>2 DEF NoteTypes
<1> QED BY <1>1, <1>2, <1>3

LEMMA NotesNext ==
    ASSUME IInv, Next
    PROVE  user' = user /\ NoteTypes' /\ DOMAIN notes \subseteq DOMAIN notes'
<1> USE DEF IInv
<1>1. CASE \/ \E to \in Offered(user) \cup {"/"} : Visit(to)
           \/ OpenBell \/ CloseBell \/ ViewAll
           \/ \E by \in {"bell", "page"} : Press(by)
           \/ ServeList \/ TakeList \/ FailList \/ CountUnread
           \/ \E n \in DOMAIN calls : Opened(n) \/ Changed(n) \/ Refused(n)
    <2>1. user' = user /\ notes' = notes
        BY <1>1 DEF Visit, OpenBell, CloseBell, ViewAll, Press, StartSelecting, StopSelecting, ToggleAll, Toggle, Select,
                    DeletePicked, MarkAllRead, OpenNote, DeleteNote, Ask, ServeList, TakeList, FailList, CountUnread,
                    Opened, Changed, Refused
    <2> QED BY <2>1, NotesKeep
<1>2. ASSUME NEW n \in DOMAIN calls, ServeCall(n)
      PROVE  user' = user /\ NoteTypes' /\ DOMAIN notes \subseteq DOMAIN notes'
    <2>1. calls[n].op \in {"open", "delete", "bulk", "readAll"}
        <3>1. calls[n] \in CallRecords
            BY DEF CallTypes
        <3> QED BY <3>1 DEF CallRecords
    <2>2. user' = user /\ \E ids : \E state \in {"unread", "read", "deleted"} : notes' = Marked(ids, state)
        BY <1>2, <2>1 DEF ServeCall
    <2> QED BY <2>2, NotesKeep
<1>3. ASSUME NEW kind \in Kinds, Arrives(kind)
      PROVE  user' = user /\ NoteTypes' /\ DOMAIN notes \subseteq DOMAIN notes'
    BY <1>3, NotesKeep DEF Arrives
<1>4. ASSUME NEW id \in Ids, Elsewhere(id)
      PROVE  user' = user /\ NoteTypes' /\ DOMAIN notes \subseteq DOMAIN notes'
    <2>1. user' = user /\ \E ids : \E state \in {"unread", "read", "deleted"} : notes' = Marked(ids, state)
        BY <1>4 DEF Elsewhere
    <2> QED BY <2>1, NotesKeep
<1> QED BY <1>1, <1>2, <1>3, <1>4 DEF Next

(* What is listed is what the server had.                                  *)
LEMMA ListFields ==
    ASSUME NEW l \in ListRecords, NEW f \in FetchRecords
    PROVE  /\ l.rows \in SUBSET Nat /\ l.fetch \in FetchRecords
           /\ [l EXCEPT !.fetch = f] \in ListRecords
           /\ [l EXCEPT !.fetch = f].rows = l.rows /\ [l EXCEPT !.fetch = f].fetch = f
           /\ [l EXCEPT !.failed = TRUE, !.fetch = f] \in ListRecords
           /\ [l EXCEPT !.failed = TRUE, !.fetch = f].rows = l.rows /\ [l EXCEPT !.failed = TRUE, !.fetch = f].fetch = f
BY DEF ListRecords

LEMMA FetchFields ==
    /\ NoFetch \in FetchRecords /\ NoFetch.rows = {}
    /\ \A size \in Nat : Fetching(size) \in FetchRecords /\ Fetching(size).rows = {}
BY DEF NoFetch, Fetching, FetchRecords

LEMMA ListKeeps ==
    ASSUME ListTypes, DOMAIN notes \subseteq DOMAIN notes',
           list' = list \/ \E size \in Nat : list' = [list EXCEPT !.fetch = Fetching(size)]
    PROVE  ListTypes'
<1>1. CASE list' = list
    BY <1>1 DEF ListTypes
<1>2. ASSUME NEW size \in Nat, list' = [list EXCEPT !.fetch = Fetching(size)] PROVE ListTypes'
    <2> DEFINE f == Fetching(size)
    <2>1. f \in FetchRecords /\ f.rows = {} /\ list' = [list EXCEPT !.fetch = f]
        BY <1>2, FetchFields
    <2> HIDE DEF f
    <2>2. list \in ListRecords /\ list.rows \subseteq DOMAIN notes
        BY DEF ListTypes
    <2>3. list' \in ListRecords /\ list'.rows = list.rows /\ list'.fetch = f
        BY <2>1, <2>2, ListFields
    <2>4. list'.rows \subseteq DOMAIN notes' /\ list'.fetch.rows \subseteq DOMAIN notes'
        BY <2>1, <2>2, <2>3
    <2> QED BY <2>3, <2>4 DEF ListTypes
<1> QED BY <1>1, <1>2

LEMMA ListNext ==
    ASSUME IInv, Next, DOMAIN notes \subseteq DOMAIN notes'
    PROVE  ListTypes'
<1>b. ListTypes /\ list \in ListRecords /\ PanelSize \in Nat /\ PageSize \in Nat
    BY SizesAssumption DEF IInv, ListTypes
<1>j. ASSUME NEW size \in Nat, list' = Joined(size) PROVE ListTypes'
    <2>1. CASE list.fetch.phase = "none"
        BY <1>b, <1>j, <2>1, ListKeeps DEF Joined
    <2>2. CASE list.fetch.phase # "none"
        <3>1. list' = [list EXCEPT !.fetch = list.fetch]
            BY <1>j, <2>2 DEF Joined
        <3>2. list' = list
            BY <1>b, <3>1 DEF ListRecords
        <3> QED BY <1>b, <3>2, ListKeeps
    <2> QED BY <2>1, <2>2
<1>r. ASSUME list' \in Refetched PROVE ListTypes'
    <2>1. list' = list \/ \E size \in {PanelSize, PageSize} : list' = [list EXCEPT !.fetch = Fetching(size)]
        BY <1>r DEF Refetched
    <2> QED BY <1>b, <2>1, ListKeeps
<1>1. ASSUME NEW to, Visit(to) PROVE ListTypes'
    BY <1>1, <1>b, <1>j, ListKeeps DEF Visit
<1>2. CASE OpenBell
    BY <1>2, <1>b, <1>j DEF OpenBell
<1>3. CASE ViewAll
    BY <1>3, <1>b, <1>j, ListKeeps DEF ViewAll
<1>4. CASE ServeList
    <2> DEFINE rows == Newest(list.fetch.size)
               f == [list.fetch EXCEPT !.phase = "answered", !.rows = rows]
    <2>1. list' = [list EXCEPT !.fetch = f]
        BY <1>4, <1>b DEF ServeList, ListRecords
    <2>2. rows \subseteq DOMAIN notes /\ DOMAIN notes \subseteq Nat
        BY DEF Newest, Kept, IInv, NoteTypes
    <2>3. list.fetch \in FetchRecords
        BY <1>b DEF ListRecords
    <2> HIDE DEF rows
    <2>4. f \in FetchRecords /\ f.rows = rows
        BY <2>2, <2>3 DEF FetchRecords
    <2> HIDE DEF f
    <2>5. list' \in ListRecords /\ list'.rows = list.rows /\ list'.fetch = f
        BY <1>b, <2>1, <2>4, ListFields
    <2>6. list.rows \subseteq DOMAIN notes
        BY <1>b DEF ListTypes
    <2>7. list'.rows \subseteq DOMAIN notes' /\ list'.fetch.rows \subseteq DOMAIN notes'
        BY <2>2, <2>4, <2>5, <2>6
    <2> QED BY <2>5, <2>7 DEF ListTypes
<1>5. CASE TakeList
    <2>1. list' = [known |-> TRUE, rows |-> list.fetch.rows, failed |-> FALSE, fetch |-> NoFetch]
        BY <1>5 DEF TakeList
    <2>2. list.fetch.rows \in SUBSET Nat
        BY <1>b DEF ListRecords, FetchRecords
    <2> QED BY <1>b, <2>1, <2>2, FetchFields DEF ListTypes, ListRecords
<1>6. CASE FailList
    <2>1. list' = [list EXCEPT !.failed = TRUE, !.fetch = NoFetch]
        BY <1>6 DEF FailList
    <2>2. list' \in ListRecords /\ list'.rows = list.rows /\ list'.fetch = NoFetch
        BY <1>b, <2>1, ListFields, FetchFields
    <2>3. list.rows \subseteq DOMAIN notes
        BY <1>b DEF ListTypes
    <2>4. list'.rows \subseteq DOMAIN notes' /\ list'.fetch.rows \subseteq DOMAIN notes'
        BY <2>2, <2>3, FetchFields
    <2> QED BY <2>2, <2>4 DEF ListTypes
<1>7. ASSUME NEW n \in DOMAIN calls, Opened(n) \/ Changed(n) PROVE ListTypes'
    BY <1>7, <1>r DEF Opened, Changed
<1>8. CASE \/ CloseBell \/ CountUnread
           \/ \E by \in {"bell", "page"} : Press(by)
           \/ \E n \in DOMAIN calls : ServeCall(n) \/ Refused(n)
           \/ \E kind \in Kinds : Arrives(kind)
           \/ \E id \in Ids : Elsewhere(id)
    <2>1. list' = list
        BY <1>8 DEF CloseBell, CountUnread, Press, StartSelecting, StopSelecting, ToggleAll, Toggle, Select, DeletePicked,
                    MarkAllRead, OpenNote, DeleteNote, Ask, ServeCall, Refused, Arrives, Elsewhere
    <2> QED BY <1>b, <2>1, ListKeeps
<1> QED BY <1>1, <1>2, <1>3, <1>4, <1>5, <1>6, <1>7, <1>8 DEF Next

(* The selections, and whether the panel is open. *)
LEMMA BellFields ==
    ASSUME NEW b \in Bells
    PROVE  /\ b.selection \in Selections
           /\ \A open \in BOOLEAN : [b EXCEPT !.open = open] \in Bells
           /\ \A selection \in Selections : [b EXCEPT !.selection = selection] \in Bells
BY DEF Bells

LEMMA SelectionFields ==
    /\ NoSelection \in Selections
    /\ \A s \in Selections : s.picked \in SUBSET Nat
    /\ \A picked \in SUBSET Nat : [on |-> TRUE, picked |-> picked] \in Selections
BY DEF NoSelection, Selections

LEMMA ViewNext ==
    ASSUME IInv, Next
    PROVE  ViewTypes'
<1>b. /\ bell \in Bells /\ page \in Selections /\ list.rows \subseteq Nat
      /\ \A by : Selection(by) \in Selections
    <2>1. bell \in Bells /\ page \in Selections /\ list.rows \subseteq DOMAIN notes /\ DOMAIN notes \subseteq Nat
        BY DEF IInv, ViewTypes, ListTypes, NoteTypes
    <2> QED BY <2>1, BellFields DEF Selection
<1>s. ASSUME NEW by, NEW s \in Selections, Select(by, s) PROVE ViewTypes'
    BY <1>b, <1>s, BellFields DEF Select, ViewTypes
<1>1. ASSUME NEW to, Visit(to) PROVE ViewTypes'
    BY <1>1, <1>b, SelectionFields DEF Visit, Goes, ViewTypes
<1>2. CASE OpenBell \/ CloseBell \/ ViewAll
    <2>1. page' \in Selections
        BY <1>2, <1>b, SelectionFields DEF OpenBell, CloseBell, ViewAll, Goes
    <2>2. \E open \in BOOLEAN : bell' = [bell EXCEPT !.open = open]
        BY <1>2 DEF OpenBell, CloseBell, ViewAll
    <2> QED BY <1>b, <2>1, <2>2, BellFields DEF ViewTypes
<1>3. ASSUME NEW by, StartSelecting(by) \/ StopSelecting(by) PROVE ViewTypes'
    BY <1>3, <1>s, SelectionFields DEF StartSelecting, StopSelecting
<1>4. ASSUME NEW by, ToggleAll(by) PROVE ViewTypes'
    BY <1>4, <1>b, <1>s, SelectionFields DEF ToggleAll
<1>5. ASSUME NEW by, NEW id, Toggle(by, id) PROVE ViewTypes'
    <2>1. PICK picked \in SUBSET Nat : Select(by, [on |-> TRUE, picked |-> picked])
        <3> DEFINE was == Selection(by).picked
                   now == IF id \in was THEN was \ {id} ELSE was \cup {id}
        <3>1. was \in SUBSET Nat /\ id \in Nat
            BY <1>5, <1>b, SelectionFields DEF Toggle
        <3>2. now \in SUBSET Nat
            BY <3>1
        <3>3. Select(by, [on |-> TRUE, picked |-> now])
            BY <1>5 DEF Toggle
        <3> QED BY <3>2, <3>3
    <2> QED BY <2>1, <1>s, SelectionFields
<1>6. ASSUME NEW n \in DOMAIN calls, Opened(n) PROVE ViewTypes'
    <2>1. page' \in Selections
        BY <1>6, <1>b, SelectionFields DEF Opened, Goes
    <2>2. bell' = NoBell \/ bell' = bell \/ bell' = [bell EXCEPT !.open = FALSE]
        BY <1>6 DEF Opened
    <2>3. NoBell \in Bells
        BY SelectionFields DEF NoBell, Bells
    <2> QED BY <1>b, <2>1, <2>2, <2>3, BellFields DEF ViewTypes
<1>7. ASSUME NEW n \in DOMAIN calls, Changed(n) PROVE ViewTypes'
    <2>1. page' \in Selections
        BY <1>7, <1>b, SelectionFields DEF Changed
    <2>2. bell' = bell \/ bell' = [bell EXCEPT !.selection = NoSelection]
        BY <1>7 DEF Changed
    <2> QED BY <1>b, <2>1, <2>2, BellFields, SelectionFields DEF ViewTypes
<1>8. CASE \/ ServeList \/ TakeList \/ FailList \/ CountUnread
           \/ \E by \in {"bell", "page"} : \/ DeletePicked(by) \/ MarkAllRead(by)
                                           \/ \E id \in Ids : OpenNote(by, id) \/ DeleteNote(by, id)
           \/ \E n \in DOMAIN calls : ServeCall(n) \/ Refused(n)
           \/ \E kind \in Kinds : Arrives(kind)
           \/ \E id \in Ids : Elsewhere(id)
    <2>1. bell' = bell /\ page' = page
        BY <1>8 DEF ServeList, TakeList, FailList, CountUnread, DeletePicked, MarkAllRead, OpenNote, DeleteNote, Ask,
                    ServeCall, Refused, Arrives, Elsewhere
    <2> QED BY <1>b, <2>1 DEF ViewTypes
<1> QED BY <1>1, <1>2, <1>3, <1>4, <1>5, <1>6, <1>7, <1>8 DEF Next, Press

LEMMA ExceptSeq ==
    ASSUME NEW S, NEW s \in Seq(S), NEW n \in DOMAIN s, NEW e \in S
    PROVE  /\ [s EXCEPT ![n] = e] \in Seq(S) /\ DOMAIN [s EXCEPT ![n] = e] = DOMAIN s
           /\ \A m \in DOMAIN s : [s EXCEPT ![n] = e][m] = IF m = n THEN e ELSE s[m]
OBVIOUS

(* Only a listed notification is opened. *)
LEMMA CallNext ==
    ASSUME IInv, Next, DOMAIN notes \subseteq DOMAIN notes'
    PROVE  CallTypes'
<1>b. /\ calls \in Seq(CallRecords) /\ Opening
      /\ list.rows \subseteq DOMAIN notes /\ DOMAIN notes \subseteq Nat
      /\ \A by : Selection(by).picked \in SUBSET Nat
    <2>1. bell.selection \in Selections /\ page \in Selections
        BY BellFields DEF IInv, ViewTypes
    <2>2. \A by : Selection(by).picked \in SUBSET Nat
        BY <2>1, SelectionFields DEF Selection
    <2>3. list.rows \subseteq DOMAIN notes /\ DOMAIN notes \subseteq Nat
        BY DEF IInv, ListTypes, NoteTypes
    <2> QED BY <2>2, <2>3 DEF IInv, CallTypes
<1>s. ASSUME calls' = calls PROVE CallTypes'
    BY <1>b, <1>s DEF CallTypes, Opening
<1>a. ASSUME NEW by \in {"bell", "page"}, NEW op \in {"open", "delete", "bulk", "readAll"}, NEW ids \in SUBSET Nat,
             op = "open" => ids \subseteq DOMAIN notes, Ask(by, op, ids)
      PROVE  CallTypes'
    <2> DEFINE c == [by |-> by, op |-> op, ids |-> ids, phase |-> "sent"]
    <2>1. c \in CallRecords /\ c.op = op /\ c.ids = ids
        BY DEF CallRecords
    <2>2. calls' = Append(calls, c)
        BY <1>a DEF Ask
    <2> HIDE DEF c
    <2>3. /\ calls' \in Seq(CallRecords) /\ DOMAIN calls' = 1..Len(calls) + 1
          /\ \A n \in 1..Len(calls) + 1 : calls'[n] = IF n <= Len(calls) THEN calls[n] ELSE c
        BY <1>b, <2>1, <2>2
    <2>4. Opening'
        <3> SUFFICES ASSUME NEW n \in 1..Len(calls) + 1, calls'[n].op = "open"
                     PROVE  calls'[n].ids \subseteq DOMAIN notes'
            BY <2>3 DEF Opening
        <3>1. CASE n \in DOMAIN calls
            <4>1. calls'[n] = calls[n]
                BY <1>b, <2>3, <3>1
            <4> QED BY <1>b, <3>1, <4>1 DEF Opening
        <3>2. CASE n \notin DOMAIN calls
            <4>1. calls'[n] = c
                BY <1>b, <2>3, <3>2
            <4> QED BY <1>a, <2>1, <4>1
        <3> QED BY <3>1, <3>2
    <2> QED BY <2>3, <2>4 DEF CallTypes
<1>e. ASSUME NEW n \in DOMAIN calls, NEW c \in CallRecords, calls' = [calls EXCEPT ![n] = c],
             c.op = "open" => c.ids \subseteq calls[n].ids /\ calls[n].op = "open"
      PROVE  CallTypes'
    <2>1. /\ calls' \in Seq(CallRecords) /\ DOMAIN calls' = DOMAIN calls
          /\ \A m \in DOMAIN calls : calls'[m] = IF m = n THEN c ELSE calls[m]
        BY <1>b, <1>e, ExceptSeq
    <2>2. Opening'
        BY <1>b, <1>e, <2>1 DEF Opening
    <2> QED BY <2>1, <2>2 DEF CallTypes
<1>c. \A n \in DOMAIN calls : calls[n] \in CallRecords
    BY <1>b
<1>f. ASSUME NEW n \in DOMAIN calls, Finish(n) PROVE CallTypes'
    <2>1. CASE calls' = <<>>
        BY <2>1 DEF CallTypes, Opening
    <2>2. CASE calls' # <<>>
        <3> DEFINE c == [calls[n] EXCEPT !.phase = "done", !.ids = {}]
        <3>1. calls' = [calls EXCEPT ![n] = c]
            BY <1>f, <2>2 DEF Finish
        <3>2. c \in CallRecords /\ c.ids = {} /\ c.op = calls[n].op
            BY <1>c DEF CallRecords
        <3> HIDE DEF c
        <3> QED BY <3>1, <3>2, <1>e
    <2> QED BY <2>1, <2>2
<1>1. ASSUME NEW by \in {"bell", "page"}, NEW id \in Ids, OpenNote(by, id) \/ DeleteNote(by, id) PROVE CallTypes'
    <2>1. {id} \subseteq DOMAIN notes /\ {id} \in SUBSET Nat
        BY <1>1, <1>b DEF OpenNote, DeleteNote
    <2> QED BY <1>1, <2>1, <1>a DEF OpenNote, DeleteNote
<1>2. ASSUME NEW by \in {"bell", "page"}, DeletePicked(by) PROVE CallTypes'
    BY <1>2, <1>a, <1>b DEF DeletePicked
<1>3. ASSUME NEW by \in {"bell", "page"}, MarkAllRead(by) PROVE CallTypes'
    BY <1>3, <1>a DEF MarkAllRead
<1>4. ASSUME NEW n \in DOMAIN calls, ServeCall(n) PROVE CallTypes'
    <2> DEFINE c == [calls[n] EXCEPT !.phase = "ok"]
    <2>1. calls' = [calls EXCEPT ![n] = c]
        BY <1>4 DEF ServeCall
    <2>2. c \in CallRecords /\ c.ids = calls[n].ids /\ c.op = calls[n].op
        BY <1>c DEF CallRecords
    <2> HIDE DEF c
    <2> QED BY <2>1, <2>2, <1>e
<1>5. ASSUME NEW n \in DOMAIN calls, Opened(n) \/ Changed(n) \/ Refused(n) PROVE CallTypes'
    BY <1>5, <1>f DEF Opened, Changed, Refused
<1>6. CASE \/ \E to \in Offered(user) \cup {"/"} : Visit(to)
           \/ OpenBell \/ CloseBell \/ ViewAll
           \/ \E by \in {"bell", "page"} : \/ StartSelecting(by) \/ StopSelecting(by) \/ ToggleAll(by)
                                           \/ \E id \in Ids : Toggle(by, id)
           \/ ServeList \/ TakeList \/ FailList \/ CountUnread
           \/ \E kind \in Kinds : Arrives(kind)
           \/ \E id \in Ids : Elsewhere(id)
    <2>1. calls' = calls
        BY <1>6 DEF Visit, OpenBell, CloseBell, ViewAll, StartSelecting, StopSelecting, ToggleAll, Toggle, Select,
                    ServeList, TakeList, FailList, CountUnread, Arrives, Elsewhere
    <2> QED BY <2>1, <1>s
<1> QED BY <1>1, <1>2, <1>3, <1>4, <1>5, <1>6 DEF Next, Press

(* Wherever one goes, the page opens, or a notification led to it that was *)
(* addressed to the wrong user.                                            *)
LEMMA PathNext ==
    ASSUME IInv, Next, HasPage, path' # path
    PROVE  Opens(user, path)' \/ \E n \in DOMAIN calls : OpensMisaddressed(n)
<1> DEFINE Fine == Opens(user, path') \/ \E n \in DOMAIN calls : OpensMisaddressed(n)
<1>a. SUFFICES Fine
    BY NotesNext
<1>b. VisibleNavItems(user) # {}
    BY DEF HasPage
<1>g. ASSUME NEW to, Opens(user, Arrive(user, to)), Goes(to) PROVE Fine
    BY <1>g DEF Goes
<1>1. ASSUME NEW to \in Offered(user) \cup {"/"}, Visit(to) PROVE Fine
    BY <1>1, <1>b, <1>g, OfferedOpens DEF Visit
<1>2. CASE ViewAll
    <2>1. Opens(user, Arrive(user, "/notifications"))
        BY NotificationsOpen, Arriving
    <2> QED BY <1>2, <2>1, <1>g DEF ViewAll
<1>3. ASSUME NEW n \in DOMAIN calls, Opened(n) PROVE Fine
    <2>1. PICK id \in calls[n].ids : notes[id].kind # "plain" /\ Goes(DestinationFor(notes[id]))
        BY <1>3 DEF Opened
    <2>2. calls[n].op = "open" /\ calls[n].phase = "ok" /\ id \in DOMAIN notes
        BY <1>3 DEF Opened, IInv, CallTypes, Opening
    <2>3. notes[id].kind \in Kinds \ {"plain"}
        <3>1. notes[id] \in NoteRecords
            BY <2>2 DEF IInv, NoteTypes
        <3> QED BY <2>1, <3>1 DEF NoteRecords
    <2>4. CASE Misaddressed(notes[id])
        BY <2>2, <2>4 DEF OpensMisaddressed
    <2>5. CASE ~Misaddressed(notes[id])
        <3>1. Opens(user, Arrive(user, DestinationFor(notes[id])))
            BY <2>3, <2>5, DestinationOpens, Arriving
        <3> QED BY <2>1, <3>1, <1>g
    <2> QED BY <2>4, <2>5
<1>4. CASE \/ OpenBell \/ CloseBell
           \/ \E by \in {"bell", "page"} : Press(by)
           \/ ServeList \/ TakeList \/ FailList \/ CountUnread
           \/ \E n \in DOMAIN calls : ServeCall(n) \/ Changed(n) \/ Refused(n)
           \/ \E kind \in Kinds : Arrives(kind)
           \/ \E id \in Ids : Elsewhere(id)
    BY <1>4 DEF OpenBell, CloseBell, Press, StartSelecting, StopSelecting, ToggleAll, Toggle, Select, DeletePicked,
                MarkAllRead, OpenNote, DeleteNote, Ask, ServeList, TakeList, FailList, CountUnread, ServeCall, Changed,
                Refused, Arrives, Elsewhere
<1> HIDE DEF Fine
<1> QED BY <1>1, <1>2, <1>3, <1>4 DEF Next

LEMMA Invariance ==
    IInv /\ [Next]_vars => IInv'
<1>1. ASSUME IInv, Next PROVE IInv'
    <2>1. user' = user /\ NoteTypes' /\ DOMAIN notes \subseteq DOMAIN notes'
        BY <1>1, NotesNext
    <2> QED BY <1>1, <2>1, ListNext, ViewNext, CallNext DEF IInv
<1>2. ASSUME IInv, UNCHANGED vars PROVE IInv'
    BY <1>2 DEF IInv, vars, NoteTypes, ListTypes, ViewTypes, CallTypes, Opening
<1> QED BY <1>1, <1>2

-----------------------------------------------------------------------------
(* What was deleted stays off the list.  A deletion is of what was listed, *)
(* so the list is known, and once it is answered the list is fetched anew: *)
(* whatever was being fetched before is dropped.                           *)

(* What is deleted in calls answered and unanswered.                       *)
Deleting(c) == c.op \in {"delete", "bulk"} /\ c.phase # "done"

PicksListed ==
    /\ list.rows # {} => list.known
    /\ \A picked \in {bell.selection.picked, page.picked} : picked \subseteq DOMAIN notes /\ (picked # {} => list.known)

CallsListed ==
    \A n \in DOMAIN calls : Deleting(calls[n]) =>
        /\ list.known
        /\ calls[n].ids \subseteq DOMAIN notes
        /\ calls[n].phase = "ok" => calls[n].ids \cap Kept = {}

GoneForGood == gone \subseteq DOMAIN notes /\ gone \cap Kept = {}

FetchedWithout ==
    /\ list.fetch.phase = "answered" => gone \cap list.fetch.rows = {}
    /\ list.fetch.phase = "none" /\ ~list.failed => gone \cap list.rows = {}

GoneInv == PicksListed /\ CallsListed /\ GoneForGood /\ FetchedWithout

LEMMA FieldTypes ==
    ASSUME IInv
    PROVE  /\ bell \in Bells /\ bell.selection \in Selections /\ page \in Selections
           /\ list \in ListRecords /\ list.rows \subseteq DOMAIN notes
           /\ calls \in Seq(CallRecords) /\ \A n \in DOMAIN calls : calls[n] \in CallRecords
           /\ \A by : Selection(by) \in Selections
           /\ \A by : Selection(by).picked \subseteq bell.selection.picked \cup page.picked
<1>1. bell \in Bells /\ page \in Selections /\ list \in ListRecords /\ list.rows \subseteq DOMAIN notes
      /\ calls \in Seq(CallRecords)
    BY DEF IInv, ViewTypes, ListTypes, CallTypes
<1>2. bell.selection \in Selections
    BY <1>1, BellFields
<1>3. \A n \in DOMAIN calls : calls[n] \in CallRecords
    BY <1>1
<1> QED BY <1>1, <1>2, <1>3 DEF Selection

(* A notification that is deleted stays so: those kept are fewer, but for  *)
(* the new.                                                                *)
LEMMA MarkedKept ==
    ASSUME IInv, NEW ids, NEW state \in {"read", "deleted"}, state = "read" => ids \subseteq Kept,
           notes' = Marked(ids, state)
    PROVE  Kept' \subseteq Kept /\ (state = "deleted" => ids \cap Kept' = {})
<1>1. \A note \in NoteRecords : [note EXCEPT !.state = state].state = state
    BY DEF NoteRecords
<1>2. \A id \in DOMAIN notes : notes[id] \in NoteRecords
    BY DEF IInv, NoteTypes
<1>3. DOMAIN notes' = DOMAIN notes
    BY DEF Marked
<1>4. \A id \in DOMAIN notes : notes'[id].state = IF id \in ids THEN state ELSE notes[id].state
    BY <1>1, <1>2 DEF Marked
<1> QED BY <1>3, <1>4 DEF Kept

LEMMA KeptNext ==
    ASSUME IInv, Next
    PROVE  Kept' \cap DOMAIN notes \subseteq Kept
<1>1. CASE notes' = notes
    BY <1>1 DEF Kept
<1>2. ASSUME NEW n \in DOMAIN calls, ServeCall(n) PROVE Kept' \cap DOMAIN notes \subseteq Kept
    <2>1. calls[n].op \in {"open", "delete", "bulk", "readAll"}
        BY FieldTypes DEF CallRecords
    <2>2. Unread \subseteq Kept
        BY DEF Unread, Kept
    <2>3. CASE calls[n].op \in {"open", "readAll"}
        <3>1. \E ids : ids \subseteq Kept /\ notes' = Marked(ids, "read")
            BY <1>2, <2>2, <2>3 DEF ServeCall
        <3> QED BY <3>1, MarkedKept
    <2>4. CASE calls[n].op \in {"delete", "bulk"}
        <3>1. notes' = Marked(calls[n].ids, "deleted")
            BY <1>2, <2>4 DEF ServeCall
        <3> QED BY <3>1, MarkedKept
    <2> QED BY <2>1, <2>3, <2>4
<1>3. ASSUME NEW kind \in Kinds, Arrives(kind) PROVE Kept' \cap DOMAIN notes \subseteq Kept
    <2> DEFINE note == [kind |-> kind, state |-> "unread"]
    <2>1. notes' = Append(notes, note) /\ notes \in Seq(NoteRecords) /\ note \in NoteRecords
        BY <1>3 DEF Arrives, IInv, NoteTypes, NoteRecords
    <2> HIDE DEF note
    <2>2. \A id \in DOMAIN notes : notes'[id] = notes[id]
        BY <2>1
    <2> QED BY <2>2 DEF Kept
<1>4. ASSUME NEW id \in Ids, Elsewhere(id) PROVE Kept' \cap DOMAIN notes \subseteq Kept
    <2>1. PICK state \in {"read", "deleted"} : notes' = Marked({id}, state)
        BY <1>4 DEF Elsewhere
    <2>2. {id} \subseteq Kept
        BY <1>4 DEF Elsewhere
    <2> QED BY <2>1, <2>2, MarkedKept
<1>5. CASE \/ \E to \in Offered(user) \cup {"/"} : Visit(to)
           \/ OpenBell \/ CloseBell \/ ViewAll
           \/ \E by \in {"bell", "page"} : Press(by)
           \/ ServeList \/ TakeList \/ FailList \/ CountUnread
           \/ \E n \in DOMAIN calls : Opened(n) \/ Changed(n) \/ Refused(n)
    <2>1. notes' = notes
        BY <1>5 DEF Visit, OpenBell, CloseBell, ViewAll, Press, StartSelecting, StopSelecting, ToggleAll, Toggle, Select,
                    DeletePicked, MarkAllRead, OpenNote, DeleteNote, Ask, ServeList, TakeList, FailList, CountUnread,
                    Opened, Changed, Refused
    <2> QED BY <1>1, <2>1
<1> QED BY <1>2, <1>3, <1>4, <1>5 DEF Next

(* What may happen to the list: nothing, a fetch begun, and a fetch's own  *)
(* steps.                                                                  *)
LEMMA ListMoves ==
    ASSUME IInv, Next
    PROVE  \/ list' = list
           \/ \E size : list' = [list EXCEPT !.fetch = Fetching(size)]
           \/ ServeList \/ TakeList \/ FailList
<1>1. ASSUME NEW size, list' = Joined(size)
      PROVE  list' = list \/ list' = [list EXCEPT !.fetch = Fetching(size)]
    <2>1. [list EXCEPT !.fetch = list.fetch] = list
        BY FieldTypes DEF ListRecords
    <2> QED BY <1>1, <2>1 DEF Joined
<1>2. ASSUME list' \in Refetched
      PROVE  list' = list \/ \E size : list' = [list EXCEPT !.fetch = Fetching(size)]
    BY <1>2 DEF Refetched
<1>3. ASSUME NEW to, Visit(to) PROVE list' = list \/ list' = Joined(PageSize)
    BY <1>3 DEF Visit
<1>4. CASE OpenBell \/ ViewAll
    BY <1>4, <1>1 DEF OpenBell, ViewAll
<1>5. ASSUME NEW n \in DOMAIN calls, Opened(n) \/ Changed(n) PROVE list' \in Refetched
    BY <1>5 DEF Opened, Changed
<1>6. CASE \/ CloseBell \/ CountUnread
           \/ \E by \in {"bell", "page"} : Press(by)
           \/ \E n \in DOMAIN calls : ServeCall(n) \/ Refused(n)
           \/ \E kind \in Kinds : Arrives(kind)
           \/ \E id \in Ids : Elsewhere(id)
    BY <1>6 DEF CloseBell, CountUnread, Press, StartSelecting, StopSelecting, ToggleAll, Toggle, Select, DeletePicked,
                MarkAllRead, OpenNote, DeleteNote, Ask, ServeCall, Refused, Arrives, Elsewhere
<1> QED BY <1>1, <1>2, <1>3, <1>4, <1>5, <1>6 DEF Next

(* A list once known stays known, and no other has rows.                   *)
LEMMA KnownNext ==
    ASSUME IInv, Next, list.rows # {} => list.known
    PROVE  (list.known => list'.known) /\ (list'.rows # {} => list'.known)
<1>1. ASSUME NEW f, list' = [list EXCEPT !.fetch = f] PROVE list'.known = list.known /\ list'.rows = list.rows
    BY <1>1, FieldTypes DEF ListRecords
<1>2. CASE ServeList
    BY <1>2, <1>1, FieldTypes DEF ServeList, ListRecords
<1>3. CASE TakeList
    BY <1>3 DEF TakeList
<1>4. CASE FailList
    BY <1>4, FieldTypes DEF FailList, ListRecords
<1> QED BY <1>1, <1>2, <1>3, <1>4, ListMoves

(* Only what is listed gets picked.                                        *)
LEMMA PicksMove ==
    ASSUME IInv, Next
    PROVE  \A picked \in {bell'.selection.picked, page'.picked} :
               picked \subseteq bell.selection.picked \cup page.picked \cup list.rows
<1> DEFINE all == bell.selection.picked \cup page.picked \cup list.rows
           Within == bell'.selection.picked \subseteq all /\ page'.picked \subseteq all
<1>n. NoSelection.picked = {}
    BY DEF NoSelection
<1>s. ASSUME NEW by, NEW s, s.picked \subseteq all, Select(by, s) PROVE Within
    BY <1>s, FieldTypes DEF Select, Bells
<1>o. ASSUME bell'.selection = bell.selection \/ bell'.selection = NoSelection, page' = page \/ page' = NoSelection
      PROVE  Within
    BY <1>n, <1>o
<1>1. ASSUME NEW to, Visit(to) PROVE Within
    BY <1>1, <1>o DEF Visit, Goes
<1>2. CASE OpenBell \/ CloseBell \/ ViewAll
    BY <1>2, <1>o, FieldTypes DEF OpenBell, CloseBell, ViewAll, Goes, Bells
<1>3. ASSUME NEW by, StartSelecting(by) \/ StopSelecting(by) PROVE Within
    BY <1>3, <1>s, <1>n DEF StartSelecting, StopSelecting
<1>4. ASSUME NEW by, ToggleAll(by) PROVE Within
    <2> DEFINE s == [on |-> TRUE, picked |-> IF AllSelected(by) THEN {} ELSE list.rows]
    <2>1. Select(by, s) /\ s.picked \subseteq all
        BY <1>4 DEF ToggleAll
    <2> HIDE DEF s
    <2> QED BY <2>1, <1>s
<1>5. ASSUME NEW by, NEW id, Toggle(by, id) PROVE Within
    <2> DEFINE was == Selection(by).picked
               s == [on |-> TRUE, picked |-> IF id \in was THEN was \ {id} ELSE was \cup {id}]
    <2>1. Select(by, s) /\ id \in list.rows
        BY <1>5 DEF Toggle
    <2>2. was \subseteq all
        BY FieldTypes
    <2> HIDE DEF was
    <2>3. s.picked \subseteq all
        BY <2>1, <2>2
    <2> HIDE DEF s
    <2> QED BY <2>1, <2>3, <1>s
<1>6. ASSUME NEW n \in DOMAIN calls, Opened(n) \/ Changed(n) PROVE Within
    <2>1. bell'.selection = bell.selection \/ bell'.selection = NoSelection
        <3>1. NoBell.selection = NoSelection
            BY DEF NoBell
        <3> QED BY <1>6, <3>1, FieldTypes DEF Opened, Changed, Bells
    <2>2. page' = page \/ page' = NoSelection
        BY <1>6 DEF Opened, Changed, Goes
    <2> QED BY <2>1, <2>2, <1>o
<1>7. CASE \/ ServeList \/ TakeList \/ FailList \/ CountUnread
           \/ \E by \in {"bell", "page"} : \/ DeletePicked(by) \/ MarkAllRead(by)
                                           \/ \E id \in Ids : OpenNote(by, id) \/ DeleteNote(by, id)
           \/ \E n \in DOMAIN calls : ServeCall(n) \/ Refused(n)
           \/ \E kind \in Kinds : Arrives(kind)
           \/ \E id \in Ids : Elsewhere(id)
    <2>1. bell' = bell /\ page' = page
        BY <1>7 DEF ServeList, TakeList, FailList, CountUnread, DeletePicked, MarkAllRead, OpenNote, DeleteNote, Ask,
                    ServeCall, Refused, Arrives, Elsewhere
    <2> QED BY <2>1, <1>o
<1>8. Within
    BY <1>1, <1>2, <1>3, <1>4, <1>5, <1>6, <1>7 DEF Next, Press
<1> QED BY <1>8

(* A deletion asked for is of what is listed or picked; after that only    *)
(* the server changes it, until it is done.                                *)
LEMMA CallsMove ==
    ASSUME IInv, Next, NEW n \in DOMAIN calls', Deleting(calls'[n])
    PROVE  \/ /\ calls'[n].phase = "sent" /\ calls'[n].ids # {}
              /\ calls'[n].ids \subseteq bell.selection.picked \cup page.picked \cup list.rows
           \/ /\ n \in DOMAIN calls /\ Deleting(calls[n]) /\ calls'[n].ids = calls[n].ids
              /\ calls'[n].phase = calls[n].phase \/ (ServeCall(n) /\ calls[n].op \in {"delete", "bulk"})
<1> DEFINE all == bell.selection.picked \cup page.picked \cup list.rows
           Asked == calls'[n].phase = "sent" /\ calls'[n].ids # {} /\ calls'[n].ids \subseteq all
           Same == /\ n \in DOMAIN calls /\ Deleting(calls[n]) /\ calls'[n].ids = calls[n].ids
                   /\ calls'[n].phase = calls[n].phase \/ (ServeCall(n) /\ calls[n].op \in {"delete", "bulk"})
<1>b. calls \in Seq(CallRecords) /\ \A m \in DOMAIN calls : calls[m] \in CallRecords
    BY FieldTypes
<1>s. ASSUME calls' = calls PROVE Same
    BY <1>s
<1>a. ASSUME NEW by \in {"bell", "page"}, NEW op \in {"open", "delete", "bulk", "readAll"}, NEW ids \in SUBSET Nat,
             op \in {"delete", "bulk"} => ids # {} /\ ids \subseteq all, Ask(by, op, ids)
      PROVE  Asked \/ Same
    <2> DEFINE c == [by |-> by, op |-> op, ids |-> ids, phase |-> "sent"]
    <2>1. c.op = op /\ c.ids = ids /\ c.phase = "sent" /\ c \in CallRecords
        BY DEF CallRecords
    <2>2. calls' = Append(calls, c)
        BY <1>a DEF Ask
    <2> HIDE DEF c
    <2>3. calls'[n] = c \/ (n \in DOMAIN calls /\ calls'[n] = calls[n])
        BY <1>b, <2>1, <2>2
    <2> QED BY <1>a, <2>1, <2>3 DEF Deleting
<1>f. ASSUME NEW m \in DOMAIN calls, Finish(m) PROVE Same
    <2>1. calls' # <<>>
        OBVIOUS
    <2> DEFINE c == [calls[m] EXCEPT !.phase = "done", !.ids = {}]
    <2>2. calls' = [calls EXCEPT ![m] = c] /\ c.phase = "done"
        BY <1>b, <1>f, <2>1 DEF Finish, CallRecords
    <2> HIDE DEF c
    <2>3. n \in DOMAIN calls /\ n # m
        BY <2>2 DEF Deleting
    <2>4. calls'[n] = calls[n]
        BY <2>2, <2>3
    <2> QED BY <2>3, <2>4
<1>1. ASSUME NEW by \in {"bell", "page"}, NEW id \in Ids, OpenNote(by, id) \/ DeleteNote(by, id) PROVE Asked \/ Same
    <2>1. {id} \subseteq all /\ {id} \in SUBSET Nat
        BY <1>1 DEF OpenNote, DeleteNote, Ids
    <2> QED BY <1>1, <2>1, <1>a DEF OpenNote, DeleteNote
<1>2. ASSUME NEW by \in {"bell", "page"}, DeletePicked(by) PROVE Asked \/ Same
    <2>1. Selection(by).picked \in SUBSET Nat /\ Selection(by).picked \subseteq all /\ Selection(by).picked # {}
        BY <1>2, FieldTypes, SelectionFields DEF DeletePicked
    <2> QED BY <1>2, <2>1, <1>a DEF DeletePicked
<1>3. ASSUME NEW by \in {"bell", "page"}, MarkAllRead(by) PROVE Asked \/ Same
    BY <1>3, <1>a DEF MarkAllRead
<1>4. ASSUME NEW m \in DOMAIN calls, ServeCall(m) PROVE Same
    <2> DEFINE c == [calls[m] EXCEPT !.phase = "ok"]
    <2>1. calls' = [calls EXCEPT ![m] = c] /\ calls[m].phase = "sent"
        BY <1>4 DEF ServeCall
    <2>2. c.ids = calls[m].ids /\ c.op = calls[m].op
        BY <1>b DEF CallRecords
    <2> HIDE DEF c
    <2>3. n \in DOMAIN calls
        BY <2>1
    <2>4. CASE n = m
        BY <1>4, <2>1, <2>2, <2>4 DEF Deleting
    <2>5. CASE n # m
        BY <2>1, <2>3, <2>5
    <2> QED BY <2>4, <2>5
<1>5. ASSUME NEW m \in DOMAIN calls, Opened(m) \/ Changed(m) \/ Refused(m) PROVE Same
    BY <1>5, <1>f DEF Opened, Changed, Refused
<1>6. CASE \/ \E to \in Offered(user) \cup {"/"} : Visit(to)
           \/ OpenBell \/ CloseBell \/ ViewAll
           \/ \E by \in {"bell", "page"} : \/ StartSelecting(by) \/ StopSelecting(by) \/ ToggleAll(by)
                                           \/ \E id \in Ids : Toggle(by, id)
           \/ ServeList \/ TakeList \/ FailList \/ CountUnread
           \/ \E kind \in Kinds : Arrives(kind)
           \/ \E id \in Ids : Elsewhere(id)
    <2>1. calls' = calls
        BY <1>6 DEF Visit, OpenBell, CloseBell, ViewAll, StartSelecting, StopSelecting, ToggleAll, Toggle, Select,
                    ServeList, TakeList, FailList, CountUnread, Arrives, Elsewhere
    <2> QED BY <2>1, <1>s
<1>7. Asked \/ Same
    BY <1>1, <1>2, <1>3, <1>4, <1>5, <1>6 DEF Next, Press
<1> QED BY <1>7

(* Only a deletion that the server has made adds to what is gone, and with *)
(* the list on show that list is fetched anew.                             *)
LEMMA GoneMoves ==
    ASSUME IInv, Next
    PROVE  \/ gone' = gone
           \/ \E n \in DOMAIN calls : /\ Changed(n) /\ Deleting(calls[n]) /\ calls[n].phase = "ok" /\ ListShown
                                      /\ gone' = gone \cup calls[n].ids
<1>1. ASSUME NEW n \in DOMAIN calls, Changed(n)
      PROVE  gone' = gone \/ (Deleting(calls[n]) /\ calls[n].phase = "ok" /\ ListShown /\ gone' = gone \cup calls[n].ids)
    BY <1>1 DEF Changed, Deleting
<1>2. CASE \/ \E to \in Offered(user) \cup {"/"} : Visit(to)
           \/ OpenBell \/ CloseBell \/ ViewAll
           \/ \E by \in {"bell", "page"} : Press(by)
           \/ ServeList \/ TakeList \/ FailList \/ CountUnread
           \/ \E n \in DOMAIN calls : ServeCall(n) \/ Opened(n) \/ Refused(n)
           \/ \E kind \in Kinds : Arrives(kind)
           \/ \E id \in Ids : Elsewhere(id)
    BY <1>2 DEF Visit, OpenBell, CloseBell, ViewAll, Press, StartSelecting, StopSelecting, ToggleAll, Toggle, Select,
                DeletePicked, MarkAllRead, OpenNote, DeleteNote, Ask, ServeList, TakeList, FailList, CountUnread, ServeCall,
                Opened, Refused, Arrives, Elsewhere
<1> QED BY <1>1, <1>2 DEF Next

LEMMA FetchPhases ==
    /\ \A size : Fetching(size).phase = "sent"
    /\ NoFetch.phase = "none"
BY DEF Fetching, NoFetch

LEMMA FetchedNext ==
    ASSUME IInv, GoneInv, Next
    PROVE  FetchedWithout'
<1>b. list \in ListRecords /\ list.fetch \in FetchRecords
    BY FieldTypes DEF ListRecords
<1>f. ASSUME NEW size, list' = [list EXCEPT !.fetch = Fetching(size)] PROVE FetchedWithout'
    <2>1. list'.fetch.phase = "sent"
        BY <1>b, <1>f, FetchPhases DEF ListRecords
    <2> QED BY <2>1 DEF FetchedWithout
<1>1. CASE gone' = gone
    <2>1. CASE list' = list
        BY <1>1, <2>1 DEF GoneInv, FetchedWithout
    <2>2. CASE ServeList
        <3> DEFINE rows == Newest(list.fetch.size)
        <3>1. list'.fetch.phase = "answered" /\ list'.fetch.rows = rows
            BY <1>b, <2>2 DEF ServeList, ListRecords, FetchRecords
        <3>2. rows \subseteq Kept
            BY DEF Newest
        <3> HIDE DEF rows
        <3> QED BY <1>1, <3>1, <3>2 DEF GoneInv, GoneForGood, FetchedWithout
    <2>3. CASE TakeList
        BY <1>1, <2>3, FetchPhases DEF TakeList, GoneInv, FetchedWithout
    <2>4. CASE FailList
        <3>1. list'.failed /\ list'.fetch.phase = "none"
            BY <1>b, <2>4, FetchPhases DEF FailList, ListRecords
        <3> QED BY <3>1 DEF FetchedWithout
    <2> QED BY <1>f, <2>1, <2>2, <2>3, <2>4, ListMoves
<1>2. ASSUME NEW n \in DOMAIN calls, Changed(n), Deleting(calls[n]), ListShown PROVE FetchedWithout'
    <2>1. list.known
        BY <1>2 DEF GoneInv, CallsListed
    <2>2. \E size : list' = [list EXCEPT !.fetch = Fetching(size)]
        BY <1>2, <2>1 DEF Changed, Refetched
    <2> QED BY <1>f, <2>2
<1> QED BY <1>1, <1>2, GoneMoves

LEMMA GoneNext ==
    ASSUME IInv, GoneInv, Next
    PROVE  GoneInv'
<1>1. DOMAIN notes \subseteq DOMAIN notes' /\ Kept' \cap DOMAIN notes \subseteq Kept
    BY NotesNext, KeptNext
<1>2. (list.known => list'.known) /\ (list'.rows # {} => list'.known)
    BY KnownNext DEF GoneInv, PicksListed
<1>3. list.rows \subseteq DOMAIN notes
    BY FieldTypes
<1>4. PicksListed'
    <2>1. ASSUME NEW picked \in {bell'.selection.picked, page'.picked}
          PROVE  picked \subseteq DOMAIN notes' /\ (picked # {} => list'.known)
        BY <1>1, <1>2, <1>3, PicksMove DEF GoneInv, PicksListed
    <2> QED BY <1>2, <2>1 DEF PicksListed
<1>5. CallsListed'
    <2> SUFFICES ASSUME NEW n \in DOMAIN calls', Deleting(calls'[n])
                 PROVE  /\ list'.known
                        /\ calls'[n].ids \subseteq DOMAIN notes'
                        /\ calls'[n].phase = "ok" => calls'[n].ids \cap Kept' = {}
        BY DEF CallsListed, Deleting
    <2>1. CASE /\ calls'[n].phase = "sent" /\ calls'[n].ids # {}
               /\ calls'[n].ids \subseteq bell.selection.picked \cup page.picked \cup list.rows
        BY <1>1, <1>2, <1>3, <2>1 DEF GoneInv, PicksListed
    <2>2. CASE /\ n \in DOMAIN calls /\ Deleting(calls[n]) /\ calls'[n].ids = calls[n].ids
               /\ calls'[n].phase = calls[n].phase \/ (ServeCall(n) /\ calls[n].op \in {"delete", "bulk"})
        <3>1. list.known /\ calls[n].ids \subseteq DOMAIN notes /\ (calls[n].phase = "ok" => calls[n].ids \cap Kept = {})
            BY <2>2 DEF GoneInv, CallsListed
        <3>2. CASE calls'[n].phase = calls[n].phase
            BY <1>1, <1>2, <2>2, <3>1, <3>2
        <3>3. CASE ServeCall(n) /\ calls[n].op \in {"delete", "bulk"}
            <4>1. notes' = Marked(calls[n].ids, "deleted")
                BY <3>3 DEF ServeCall
            <4>2. calls[n].ids \cap Kept' = {}
                BY <4>1, MarkedKept
            <4> QED BY <1>1, <1>2, <2>2, <3>1, <4>2
        <3> QED BY <2>2, <3>2, <3>3
    <2> QED BY <2>1, <2>2, CallsMove
<1>6. GoneForGood'
    <2>1. CASE gone' = gone
        BY <1>1, <2>1 DEF GoneInv, GoneForGood
    <2>2. ASSUME NEW n \in DOMAIN calls, Deleting(calls[n]), calls[n].phase = "ok", gone' = gone \cup calls[n].ids
          PROVE  GoneForGood'
        <3>1. calls[n].ids \subseteq DOMAIN notes /\ calls[n].ids \cap Kept = {}
            BY <2>2 DEF GoneInv, CallsListed
        <3> QED BY <1>1, <2>2, <3>1 DEF GoneInv, GoneForGood
    <2> QED BY <2>1, <2>2, GoneMoves
<1>7. FetchedWithout'
    BY FetchedNext
<1> QED BY <1>4, <1>5, <1>6, <1>7 DEF GoneInv

LEMMA GoneStarted == Init => GoneInv
BY DEF Init, GoneInv, PicksListed, CallsListed, GoneForGood, FetchedWithout, NoBell, NoSelection, NoFetch

LEMMA GoneInvariance == IInv /\ GoneInv /\ [Next]_vars => GoneInv'
<1>1. ASSUME IInv, GoneInv, UNCHANGED vars PROVE GoneInv'
    <2>1. /\ notes' = notes /\ list' = list /\ bell' = bell /\ page' = page /\ calls' = calls /\ gone' = gone
        BY <1>1 DEF vars
    <2>2. Kept' = Kept
        BY <2>1 DEF Kept
    <2> QED BY <1>1, <2>1, <2>2 DEF GoneInv, PicksListed, CallsListed, GoneForGood, FetchedWithout, Deleting
<1> QED BY <1>1, GoneNext

-----------------------------------------------------------------------------
(* The theorems. *)

(* Whatever the users' roles, sections and codes, and whoever is sent what: *)
(* a user with any page at all starts on one that opens, and the menu, "/", *)
(* the bell and every notification lead to no other, but for a notification *)
(* about a page its user may not open (AppRoutes, navigation.js,            *)
(* notificationRouting.js, NotificationBell, NotificationsPage).            *)
THEOREM NobodyTurnedAway == Spec => NeverTurnedAway
<1>1. Init => (HasPage => Opens(user, path))
    BY HomeOpens DEF Init, HasPage
<1>2. IInv /\ [Next]_vars =>
          [path' # path /\ HasPage => Opens(user, path)' \/ \E n \in DOMAIN calls : OpensMisaddressed(n)]_vars
    BY PathNext
<1> QED BY <1>1, <1>2, Started, Invariance, PTL DEF Spec, NeverTurnedAway

(* However fetches, polls, lost answers and deletions of any number cross, *)
(* what was deleted with the list on show does not come back: a list that  *)
(* is settled has none of it (NotificationBell and NotificationsPage       *)
(* refetch after each of their own requests).                              *)
THEOREM NothingComesBack == Spec => []DeletedStaysGone
<1>1. GoneInv => DeletedStaysGone
    BY DEF GoneInv, FetchedWithout, DeletedStaysGone
<1>2. Init => IInv /\ GoneInv
    BY Started, GoneStarted
<1>3. IInv /\ GoneInv /\ [Next]_vars => (IInv /\ GoneInv)'
    BY Invariance, GoneInvariance
<1> QED BY <1>1, <1>2, <1>3, PTL DEF Spec
=============================================================================
