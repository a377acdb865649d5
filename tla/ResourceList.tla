----------------------------- MODULE ResourceList -----------------------------
(***************************************************************************)
(* A page of records and its popups (ResourceListPage, which every list of *)
(* users, staff, roles, departments, programs, courses and the like is one *)
(* of), as one user sees it while others work on the same record: a cached *)
(* list, a cached copy of the whole record that the forms start from, and  *)
(* saves and deletions that are answered when they are answered.           *)
(* What a record holds is two things: `main', which the list shows, and    *)
(* `side', which on the programs page is the price in the form's settings. *)
(***************************************************************************)
EXTENDS Integers, FiniteSets

CONSTANTS
    Pages,     \* the pages considered
    MaxValues, \* bound: different things typed or set by others
    MaxOpens,  \* bound: popups opened
    MaxCalls,  \* bound: saves and deletions sent
    MaxTurns,  \* bound: tabs turned to, records deleted, staff moved and leads filed by others
    MaxFaults, \* bound: requests that fail or whose answer is lost
    MaxMissing \* bound: permissions of the page's that the user lacks

VARIABLES
    page,    \* the page open
    grants,  \* the permissions the user has
    record,  \* the record, at the server
    tab,     \* the tab shown: "active" or "deleted"
    list,    \* the list's cache: whether it has been loaded, and the record in it
    detail,  \* the cache the forms start from
    listing, \* whether the list is being fetched
    reading, \* the fetch of the detail under way
    popup,   \* the popup open, and the form in it
    calls,   \* saves and deletions under way
    count,   \* what has been done so far
    mine,    \* what the user last saved of each part, 0 where others changed it since
    doubt    \* whether the cache was left behind: by a failure, a popup closed early, answers that crossed

vars == <<page, grants, record, tab, list, detail, listing, reading, popup, calls, count, mine, doubt>>

Parts == {"main", "side"}
Spend(what, bound) == count[what] < bound /\ count' = [count EXCEPT ![what] = @ + 1]

-----------------------------------------------------------------------------
(* The pages.  create, edit and remove: the permission each needs ("any":  *)
(* none; "nobody": not offered).  form: what the edit form starts from.    *)

Screen(create, edit, remove, form) == [create |-> create, edit |-> edit, remove |-> remove, form |-> form]
CreateOnly(create) == Screen(create, "nobody", "nobody", "none")

UsersPage == Screen("users.create", "users.update", "users.delete", "fetched")
StaffsPage == Screen("users.create", "users.update", "nobody", "fetched")
RolesPage == Screen("roles.create", "roles.update", "roles.delete", "row")
DepartmentsPage == Screen("departments.create", "departments.update", "departments.delete", "fetched_or_row")
ProgramsPage == Screen("programs.create", "programs.update", "programs.delete", "row_and_settings")
CoursesPage == CreateOnly("courses.create")
BatchesPage == CreateOnly("batches.create")
TutorsPage == CreateOnly("tutors.create")
StudentsPage == CreateOnly("students.create")
CompaniesPage == CreateOnly("placements.create")
PlacementsPage == CreateOnly("placements.create")
TicketsPage == CreateOnly("tickets.create")
AdmissionsPage == CreateOnly("admissions.create")

Screens == [users |-> UsersPage, staffs |-> StaffsPage, roles |-> RolesPage, departments |-> DepartmentsPage,
            programs |-> ProgramsPage, courses |-> CoursesPage, batches |-> BatchesPage, tutors |-> TutorsPage,
            students |-> StudentsPage, companies |-> CompaniesPage, placements |-> PlacementsPage,
            tickets |-> TicketsPage, admissions |-> AdmissionsPage]

PriceCode == "form_collection.configure"
Codes(p) ==
    ({Screens[p].create, Screens[p].edit, Screens[p].remove} \ {"nobody"}) \cup
        (IF p = "programs" THEN {PriceCode} ELSE {})

ASSUME PagesAssumption == Pages \subseteq DOMAIN Screens

(* The edit form has a query of its own: not the roles', made from the row.*)
FormFetches == Screens[page].form \in {"fetched", "fetched_or_row"}
(* Its cached copy is under the page's own key, except on the staffs page: *)
(* there the form reads the users'.                                        *)
SharesDetail == FormFetches /\ page # "staffs"
(* On the programs page it is the form's settings, which the page loads.   *)
FormHasSettings == page = "programs"
KeepsDeleted == page \in {"users", "roles"}

(* What the tooltips say: a system role is locked, one's own account and a *)
(* department with staff in it cannot be deleted.                          *)
Locked(r) == page = "roles" /\ r.fixed

(* A row locked for editing is locked for deletion, and no other. *)
DeleteLockedAlike(r) == Locked(r)

DeleteLocked(r) ==
    \/ Locked(r)
    \/ (page = "users" /\ r.fixed)
    \/ (page = "departments" /\ r.held)

(* What the API says: the permission each route asks for, "any" for none.  *)
Api(create, edit, delete) == [create |-> create, edit |-> edit, delete |-> delete]
UserRoutes == Api("users.create", "users.update", "users.delete")
RoleRoutes == Api("roles.create", "roles.update", "roles.delete")
DepartmentRoutes == Api("departments.create", "departments.update", "departments.delete")
ProgramRoutes == Api("programs.create", "programs.update", "programs.delete")
CreateRoutes ==
    [courses |-> "courses.create", batches |-> "batches.create", tutors |-> "tutors.create",
     students |-> "students.create", companies |-> "placements.create", placements |-> "placements.create",
     tickets |-> "any", admissions |-> "admissions.create"]

Needs(op) ==
    CASE page \in {"users", "staffs"} -> UserRoutes[op]
      [] page = "roles" -> RoleRoutes[op]
      [] page = "departments" -> DepartmentRoutes[op]
      [] page = "programs" -> ProgramRoutes[op]
      [] OTHER -> CreateRoutes[page]

Refuses(op) ==
    \/ Needs(op) # "any" /\ Needs(op) \notin grants
    \/ op # "create" /\ ~record.there
    \/ page = "roles" /\ op # "create" /\ record.fixed
    \/ page \in {"departments", "programs"} /\ op = "delete" /\ record.held

Offered(op) ==
    LET code == CASE op = "create" -> Screens[page].create
                  [] op = "edit" -> Screens[page].edit
                  [] op = "delete" -> Screens[page].remove
    IN  /\ code # "nobody" /\ code \in grants
        /\ tab = "active"

-----------------------------------------------------------------------------
(* Caches. *)

NoRow == [there |-> FALSE, gone |-> FALSE, main |-> 0, side |-> 0, held |-> FALSE, fixed |-> FALSE]
NoFetch == [phase |-> "none", row |-> NoRow]
Started == [phase |-> "sent", row |-> NoRow]
Empty == [have |-> FALSE, row |-> NoRow]
Loaded(row) == [have |-> TRUE, row |-> row]

(* refetching what is in the cache cancels the fetch under way; what was   *)
(* never loaded is being loaded, and the fetch under way will do.          *)
Refetched(cache, fetch) == IF cache.have \/ fetch.phase = "none" THEN Started ELSE fetch
Joined(fetch) == IF fetch.phase = "none" THEN Started ELSE fetch

Quiet == ~listing /\ reading = NoFetch /\ calls = {}

InTab == IF tab = "active" THEN record.there ELSE record.gone
(* The list is served and shown in one step: a save that a list fetched    *)
(* earlier does not show yet is answered later, and refetches it.          *)
TakeList ==
    /\ listing
    /\ list' = Loaded(IF InTab THEN record ELSE NoRow) /\ listing' = FALSE
    /\ UNCHANGED <<page, grants, record, tab, detail, reading, popup, calls, count, mine, doubt>>

(* The table shows the error and no rows. *)
FailList ==
    /\ listing /\ Spend("faults", MaxFaults)
    /\ list' = Loaded(NoRow) /\ listing' = FALSE
    /\ UNCHANGED <<page, grants, record, tab, detail, reading, popup, calls, mine, doubt>>

ServeDetail ==
    /\ reading.phase = "sent" /\ (record.there \/ FormHasSettings)
    /\ reading' = [phase |-> "answered", row |-> record]
    /\ UNCHANGED <<page, grants, record, tab, list, detail, listing, popup, calls, count, mine, doubt>>

-----------------------------------------------------------------------------
(* Popups. *)

NoForm == [seeded |-> FALSE, main |-> 0, side |-> 0, typed |-> {}]
NoPopup == [kind |-> "none", id |-> 0, row |-> NoRow, form |-> NoForm, sure |-> FALSE]
Opened(kind, row, form) == [kind |-> kind, id |-> count.opens + 1, row |-> row, form |-> form, sure |-> Quiet /\ ~doubt]
BlankForm == [NoForm EXCEPT !.seeded = TRUE]
From(main, side) == [seeded |-> TRUE, main |-> main, side |-> side, typed |-> {}]

(* The form appears as soon as there is something to start it from, cached *)
(* or fetched, and is not started again.                                   *)
FormOver(row) ==
    CASE FormHasSettings -> From(row.main, detail.row.side)
      [] FormFetches -> IF detail.have THEN From(detail.row.main, detail.row.side) ELSE NoForm
      [] OTHER -> From(row.main, row.side)

OpenCreate ==
    /\ popup = NoPopup /\ Offered("create") /\ ~record.there /\ ~record.gone
    /\ \A c \in calls : c.op # "create"
    /\ FormHasSettings => detail.have
    /\ Spend("opens", MaxOpens)
    /\ popup' = Opened("create", NoRow, BlankForm)
    /\ UNCHANGED <<page, grants, record, tab, list, detail, listing, reading, calls, mine, doubt>>

Row == list.row
OnScreen == popup = NoPopup /\ (Row.there \/ Row.gone) /\ (FormHasSettings => detail.have)

(* Viewing matters where the popup and the form share a cached copy. *)
OpenView ==
    /\ OnScreen /\ SharesDetail /\ Spend("opens", MaxOpens)
    /\ popup' = Opened("view", Row, NoForm)
    /\ reading' = Joined(reading)
    /\ UNCHANGED <<page, grants, record, tab, list, detail, listing, calls, mine, doubt>>

OpenEdit ==
    /\ OnScreen /\ Offered("edit") /\ ~Locked(Row) /\ Spend("opens", MaxOpens)
    /\ popup' = Opened("edit", Row, FormOver(Row))
    /\ reading' = IF FormFetches \/ FormHasSettings THEN Joined(reading) ELSE reading
    /\ UNCHANGED <<page, grants, record, tab, list, detail, listing, calls, mine, doubt>>

OpenDelete ==
    /\ OnScreen /\ Offered("delete") /\ ~DeleteLocked(Row) /\ Spend("opens", MaxOpens)
    /\ popup' = Opened("delete", Row, NoForm)
    /\ UNCHANGED <<page, grants, record, tab, list, detail, listing, reading, calls, mine, doubt>>

Close ==
    /\ popup # NoPopup
    /\ popup' = NoPopup
    /\ UNCHANGED <<page, grants, record, tab, list, detail, listing, reading, calls, count, mine, doubt>>

(* Each tab is a page of its own.  What the cache has of a tab seen before *)
(* is left out.                                                            *)
SwitchTab(to) ==
    /\ KeepsDeleted /\ to # tab /\ Spend("turns", MaxTurns)
    /\ tab' = to /\ popup' = NoPopup /\ list' = Empty /\ listing' = TRUE
    /\ UNCHANGED <<page, grants, record, detail, reading, calls, mine, doubt>>

(* A fetched detail starts the form that waits for it.  The programs form  *)
(* is reset whenever the settings come back different.                     *)
TakeDetail ==
    LET got == reading.row
        waits == popup.kind = "edit" /\ ~popup.form.seeded
        again == popup.kind = "edit" /\ FormHasSettings /\ got.side # detail.row.side
    IN  /\ reading.phase = "answered"
        /\ detail' = Loaded(got) /\ reading' = NoFetch
        /\ popup' = CASE waits /\ FormFetches -> [popup EXCEPT !.form = From(got.main, got.side)]
                      [] again -> [popup EXCEPT !.form = From(popup.row.main, got.side)]
                      [] OTHER -> popup
        /\ UNCHANGED <<page, grants, record, tab, list, listing, calls, count, mine, doubt>>

(* Without the record the department form starts from the row, and the     *)
(* user form gives way to the error.                                       *)
FailDetail ==
    /\ reading.phase # "none" /\ Spend("faults", MaxFaults)
    /\ reading' = NoFetch /\ doubt' = TRUE
    /\ popup' = CASE popup.kind = "edit" /\ Screens[page].form = "fetched" -> [popup EXCEPT !.form = NoForm]
                  [] popup.kind = "edit" /\ FormFetches /\ ~popup.form.seeded -> [popup EXCEPT !.form = From(popup.row.main, popup.row.side)]
                  [] OTHER -> popup
    /\ UNCHANGED <<page, grants, record, tab, list, detail, listing, calls, mine>>

-----------------------------------------------------------------------------
(* Working in them. *)

(* A new program is filed under prices there are; who may not set them *)
(* sees them only.                                                     *)
CanType(part) == part = "side" /\ FormHasSettings => PriceCode \in grants /\ popup.kind = "edit"

(* A field typed over, a box ticked, a designation or a document picked.   *)
Typed(form, part, value) == [form EXCEPT ![part] = value, !.typed = @ \cup {part}]

Type(part) ==
    /\ popup.form.seeded /\ CanType(part) /\ Spend("values", MaxValues)
    /\ popup' = [popup EXCEPT !.form = Typed(@, part, count.values + 1)]
    /\ UNCHANGED <<page, grants, record, tab, list, detail, listing, reading, calls, mine, doubt>>

Pending == \E c \in calls : c.popup = popup.id

(* What locks and refusals go by. *)
Standing(r) == [there |-> r.there, held |-> r.held]

(* Calls under way together may be served in either order. *)
Sent(op) ==
    {[c EXCEPT !.sure = FALSE] : c \in calls} \cup
        {[op |-> op, popup |-> popup.id, tab |-> tab, form |-> popup.form, sure |-> popup.sure /\ calls = {},
          seen |-> Standing(popup.row), found |-> Standing(NoRow), phase |-> "sent"]}

Save ==
    /\ popup.kind \in {"create", "edit"} /\ popup.form.seeded /\ ~Pending
    /\ Spend("calls", MaxCalls)
    /\ calls' = Sent(popup.kind)
    /\ UNCHANGED <<page, grants, record, tab, list, detail, listing, reading, popup, mine, doubt>>

ConfirmDelete ==
    /\ popup.kind = "delete" /\ ~Pending
    /\ Spend("calls", MaxCalls)
    /\ calls' = Sent("delete")
    /\ UNCHANGED <<page, grants, record, tab, list, detail, listing, reading, popup, mine, doubt>>

-----------------------------------------------------------------------------
(* What becomes of a call. *)

Reached(c, phase) == calls' = (calls \ {c}) \cup {[c EXCEPT !.phase = phase]}

(* What the user typed is theirs; a form started in doubt may put anything *)
(* back, and then nothing is claimed of what it put back.                  *)
Claim(c, part) ==
    IF part \in c.form.typed THEN c.form[part]
    ELSE IF c.sure \/ c.form[part] = record[part] THEN mine[part] ELSE 0

(* Saved again after an answer was lost, it is one more record. *)
Create(c) ==
    /\ IF record.there \/ record.gone
       THEN UNCHANGED <<record, mine>>
       ELSE /\ record' = [record EXCEPT !.there = TRUE, !.main = c.form.main,
                                       !.side = IF FormHasSettings THEN @ ELSE c.form.side]
            /\ mine' = [part \in Parts |-> IF part \in c.form.typed THEN c.form[part] ELSE mine[part]]
    /\ Reached(c, "done")

(* toPayload: the whole form is sent, whatever was typed of it. *)
Payload == IF FormHasSettings THEN {"main"} ELSE Parts

(* A program is saved first, then its price, by whoever may set it. *)
Edit(c) ==
    /\ record' = [record EXCEPT !.main = c.form.main, !.side = IF "side" \in Payload THEN c.form.side ELSE @]
    /\ mine' = [part \in Parts |-> IF part \in Payload THEN Claim(c, part) ELSE mine[part]]
    /\ Reached(c, IF FormHasSettings /\ PriceCode \in grants THEN "half_done" ELSE "done")

Delete(c) ==
    /\ record' = [record EXCEPT !.there = FALSE, !.gone = TRUE]
    /\ Reached(c, "done") /\ UNCHANGED mine

ServeCall(c) ==
    /\ c.phase = "sent" /\ ~Refuses(c.op)
    /\ CASE c.op = "create" -> Create(c) [] c.op = "edit" -> Edit(c) [] c.op = "delete" -> Delete(c)
    /\ UNCHANGED <<page, grants, tab, list, detail, listing, reading, popup, count, doubt>>

ServePrice(c) ==
    /\ c.phase = "half_done"
    /\ record' = [record EXCEPT !.side = c.form.side]
    /\ mine' = [mine EXCEPT !.side = Claim(c, "side")]
    /\ Reached(c, "done")
    /\ UNCHANGED <<page, grants, tab, list, detail, listing, reading, popup, count, doubt>>

Refused(c) ==
    /\ c.phase = "sent" /\ Refuses(c.op)
    /\ calls' = (calls \ {c}) \cup {[c EXCEPT !.phase = "refused", !.found = Standing(record)]}
    /\ UNCHANGED <<page, grants, record, tab, list, detail, listing, reading, popup, count, mine, doubt>>

(* The popup shows the refusal; nothing is refetched. *)
ShowRefusal(c) ==
    /\ c.phase = "refused"
    /\ calls' = calls \ {c}
    /\ UNCHANGED <<page, grants, record, tab, list, detail, listing, reading, popup, count, mine, doubt>>

(* No answer comes.  Nothing is refetched either, though part of it, or    *)
(* all of it, may have been saved.                                         *)
Failed(c) ==
    /\ c.phase # "refused" /\ Spend("faults", MaxFaults)
    /\ calls' = calls \ {c}
    /\ popup' = [popup EXCEPT !.sure = FALSE] /\ doubt' = TRUE
    /\ UNCHANGED <<page, grants, record, tab, list, detail, listing, reading, mine>>

(* Only the list is refetched after a save. *)
InvalidatedNot == FALSE

(* invalidate: the lists of the page, and the record if a popup shows it.  *)
Invalidated == SharesDetail /\ popup.kind \in {"view", "edit"}

(* An answer closes whichever popup of its kind is open by now. *)
Answered(c) ==
    /\ c.phase = "done"
    /\ calls' = calls \ {c}
    /\ listing' = TRUE
    /\ reading' = IF Invalidated THEN Refetched(detail, reading) ELSE reading
    /\ detail' = IF FormHasSettings /\ c.op = "edit" /\ PriceCode \in grants THEN [detail EXCEPT !.row.side = c.form.side] ELSE detail
    /\ doubt' = (doubt \/ (FormFetches /\ popup.id # c.popup) \/ (FormHasSettings /\ (reading # NoFetch \/ calls # {c})))
    /\ popup' = IF popup.kind = c.op /\ tab = c.tab THEN NoPopup ELSE popup
    /\ UNCHANGED <<page, grants, record, tab, list, count, mine>>

-----------------------------------------------------------------------------
(* Everybody else. *)

OthersSave(part) ==
    /\ record.there /\ Spend("values", MaxValues)
    /\ record' = [record EXCEPT ![part] = count.values + 1]
    /\ mine' = [mine EXCEPT ![part] = 0]
    /\ UNCHANGED <<page, grants, tab, list, detail, listing, reading, popup, calls, doubt>>

(* Staff move into a department or out of it; leads choose a program. *)
OthersHold ==
    /\ page \in {"departments", "programs"} /\ Spend("turns", MaxTurns)
    /\ record' = [record EXCEPT !.held = ~@]
    /\ UNCHANGED <<page, grants, tab, list, detail, listing, reading, popup, calls, mine, doubt>>

OthersDelete ==
    /\ record.there /\ ~(page \in {"departments", "programs"} /\ record.held) /\ ~(page = "roles" /\ record.fixed)
    /\ Screens[page].form # "none" /\ Spend("turns", MaxTurns)
    /\ record' = [record EXCEPT !.there = FALSE, !.gone = TRUE]
    /\ UNCHANGED <<page, grants, tab, list, detail, listing, reading, popup, calls, mine, doubt>>

-----------------------------------------------------------------------------
Init ==
    /\ page \in Pages
    /\ grants \in SUBSET Codes(page) /\ Cardinality(Codes(page) \ grants) <= MaxMissing
    /\ \E there, fixed \in BOOLEAN :
        /\ fixed => page \in {"users", "roles"} /\ there
        /\ there => Screens[page].form # "none"
        /\ record = [NoRow EXCEPT !.there = there, !.fixed = fixed]
    /\ tab = "active"
    /\ list = Empty /\ listing = TRUE
    /\ detail = Empty /\ reading = IF FormHasSettings THEN Started ELSE NoFetch
    /\ popup = NoPopup /\ calls = {}
    /\ count = [values |-> 0, opens |-> 0, calls |-> 0, turns |-> 0, faults |-> 0]
    /\ mine = [part \in Parts |-> 0] /\ doubt = FALSE

Next ==
    \/ TakeList \/ FailList
    \/ ServeDetail \/ TakeDetail \/ FailDetail
    \/ OpenCreate \/ OpenView \/ OpenEdit \/ OpenDelete \/ Close
    \/ \E to \in {"active", "deleted"} : SwitchTab(to)
    \/ \E part \in Parts : Type(part) \/ OthersSave(part)
    \/ Save \/ ConfirmDelete
    \/ \E c \in calls : ServeCall(c) \/ ServePrice(c) \/ Refused(c) \/ ShowRefusal(c) \/ Failed(c) \/ Answered(c)
    \/ OthersHold \/ OthersDelete

Spec == Init /\ [][Next]_vars

-----------------------------------------------------------------------------
(* What the user changed stays changed until they or somebody else change  *)
(* it again: a later save of theirs, of something else on the same form,   *)
(* does not bring back what was there before, unless the form was opened   *)
(* with work still under way, or after a failure, or after a popup was     *)
(* closed on its save, or a program's save was answered with other work    *)
(* under way.                                                              *)
OwnEditsStand == \A part \in Parts : mine[part] # 0 => record[part] = mine[part]

(* Nobody is let into an edit or a deletion only to be refused it: what    *)
(* the API would refuse, the page does not offer, unless the record has    *)
(* changed since it was listed.  (Not so of a program that leads chose.)   *)
LockedInTime ==
    \A c \in calls :
        c.phase = "refused" =>
            \/ c.seen # c.found
            \/ page = "programs" /\ c.op = "delete"
=============================================================================
