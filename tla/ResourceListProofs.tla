-------------------------- MODULE ResourceListProofs --------------------------
(***************************************************************************)
(* On the list pages: what the user saved stands, and nothing is offered   *)
(* to be refused; for any number of popups, saves, failures and changes    *)
(* by others.                                                              *)
(*                                                                         *)
(* A form sends back everything it was started from, so what was saved     *)
(* stands only if no form starts from something older.  The invariant      *)
(* follows what was saved to wherever a form may start from it: a cache no *)
(* fetch of which is under way (FreshCaches), the form of a popup opened   *)
(* with nothing under way (FreshPopup), a save sent from it (FreshCall).   *)
(***************************************************************************)
EXTENDS ResourceList, TLAPS

Records == [there : BOOLEAN, gone : BOOLEAN, main : Nat, side : Nat, held : BOOLEAN, fixed : BOOLEAN]
Forms == [seeded : BOOLEAN, main : Nat, side : Nat, typed : SUBSET Parts]
Caches == [have : BOOLEAN, row : Records]
Fetches == [phase : {"none", "sent", "answered"}, row : Records]
Popups == [kind : {"none", "create", "view", "edit", "delete"}, id : Nat, row : Records, form : Forms, sure : BOOLEAN]
Standings == [there : BOOLEAN, held : BOOLEAN]
Calls == [op : {"create", "edit", "delete"}, popup : Nat, tab : {"active", "deleted"}, form : Forms, sure : BOOLEAN,
          seen : Standings, found : Standings, phase : {"sent", "half_done", "done", "refused"}]
Counts == [{"values", "opens", "calls", "turns", "faults"} -> Nat]

Types ==
    /\ record \in Records /\ tab \in {"active", "deleted"}
    /\ list \in Caches /\ detail \in Caches /\ listing \in BOOLEAN /\ reading \in Fetches
    /\ popup \in Popups /\ calls \subseteq Calls
    /\ count \in Counts /\ mine \in [Parts -> Nat] /\ doubt \in BOOLEAN

Known(r) == r.there \/ r.gone
Keeps(row, part) == mine[part] # 0 => row[part] = mine[part]
KeepsAll(row) == \A part \in Parts : Keeps(row, part)
KeepsForm(form) == \A part \in Parts \ form.typed : Keeps(form, part)
Landed(c) == c.op = "edit" /\ c.phase \in {"half_done", "done"}
Settled == \A c \in calls : ~Landed(c)
Copied == IF FormHasSettings THEN {"side"} ELSE Parts
Allowed == {op \in {"create", "edit", "delete"} : Needs(op) = "any" \/ Needs(op) \in grants}

(* Before there is a record nothing is known of one. *)
Begun ==
    /\ ~Known(record) =>
        /\ \A part \in Parts : mine[part] = 0
        /\ ~Known(list.row)
        /\ popup.kind \in {"none", "create"}
        /\ \A c \in calls : c.op = "create"
    /\ ~FormHasSettings /\ (~FormFetches \/ ~Known(record)) => ~detail.have /\ reading = NoFetch
    /\ FormHasSettings /\ PriceCode \notin grants => mine["side"] = 0

(* A call is known by its popup; one that is sure is the only one. *)
CallNumbered(c) ==
    /\ c.popup \in 1..count.opens
    /\ c.popup = popup.id => popup.kind = c.op /\ tab = c.tab
    /\ c.phase = "half_done" => c.op = "edit" /\ FormHasSettings /\ PriceCode \in grants
    /\ c.sure => calls = {c}
    /\ popup.sure => c.popup = popup.id
    /\ c.op = "edit" /\ FormFetches /\ ~doubt => detail.have
    /\ FormHasSettings /\ (c.op = "create" \/ PriceCode \notin grants) => "side" \notin c.form.typed

Numbered ==
    /\ popup.id \in IF popup.kind = "none" THEN {0} ELSE 1..count.opens
    /\ FormHasSettings /\ (popup.kind # "edit" \/ PriceCode \notin grants) => "side" \notin popup.form.typed
    /\ popup.kind = "edit" /\ popup.form.seeded /\ FormFetches /\ ~doubt => detail.have
    /\ \A c \in calls : CallNumbered(c)

FreshCaches ==
    /\ ~listing /\ ~doubt /\ Settled /\ Known(list.row) => KeepsAll(list.row)
    /\ reading.phase = "none" /\ ~doubt /\ Settled /\ detail.have => \A part \in Copied : Keeps(detail.row, part)
    /\ reading.phase = "answered" /\ (~doubt \/ popup.sure) /\ Settled => \A part \in Copied : Keeps(reading.row, part)

FreshPopup ==
    popup.kind = "edit" /\ popup.sure /\ Settled =>
        /\ KeepsAll(popup.row)
        /\ popup.form.seeded => KeepsForm(popup.form)

FreshCall(c) ==
    c.op = "edit" =>
        /\ c.sure /\ c.phase = "sent" => KeepsForm(c.form)
        /\ c.sure /\ c.phase = "half_done" /\ "side" \notin c.form.typed => Keeps(c.form, "side")
        /\ FormHasSettings /\ PriceCode \in grants /\ ~doubt /\ c.phase = "done" /\ (\A d \in calls : Landed(d) => d = c) =>
               Keeps(c.form, "side")

Fresh ==
    page # "staffs" => OwnEditsStand /\ FreshCaches /\ FreshPopup /\ (\A c \in calls : FreshCall(c))

(* What was offered was allowed by the row it was offered on. *)
OfferedCall(c) ==
    /\ c.op \in Allowed
    /\ c.op # "create" => c.seen.there /\ ~Locked(record)
    /\ c.op = "delete" /\ page = "departments" => ~c.seen.held

Offers ==
    /\ \A r \in {list.row, popup.row} : Known(r) => r.fixed = record.fixed
    /\ tab = "active" /\ Known(list.row) => list.row.there
    /\ popup.kind \in {"create", "edit", "delete"} => popup.kind \in Allowed
    /\ popup.kind \in {"edit", "delete"} => popup.row.there /\ ~Locked(popup.row)
    /\ popup.kind = "delete" => ~DeleteLocked(popup.row)
    /\ \A c \in calls : OfferedCall(c)
    /\ LockedInTime

IInv == page \in DOMAIN Screens /\ Types /\ Begun /\ Numbered /\ Fresh /\ Offers

-----------------------------------------------------------------------------
LEMMA TheSamePage ==
    ASSUME UNCHANGED <<page, grants>>
    PROVE  /\ FormFetches' <=> FormFetches
           /\ FormHasSettings' <=> FormHasSettings
           /\ SharesDetail' <=> SharesDetail
           /\ Copied' = Copied
           /\ Allowed' = Allowed
           /\ \A r : (Locked(r)' <=> Locked(r)) /\ (DeleteLocked(r)' <=> DeleteLocked(r))
<1>1. FormFetches' <=> FormFetches
    BY DEF FormFetches
<1>2. FormHasSettings' <=> FormHasSettings
    BY DEF FormHasSettings
<1>3. \A op : Needs(op)' = Needs(op)
    BY DEF Needs
<1>4. Allowed' = Allowed
    BY <1>3 DEF Allowed
<1>5. \A r : (Locked(r)' <=> Locked(r)) /\ (DeleteLocked(r)' <=> DeleteLocked(r))
    BY DEF Locked, DeleteLocked
<1>6. Copied' = Copied
    BY <1>2 DEF Copied
<1>7. SharesDetail' <=> SharesDetail
    BY <1>1 DEF SharesDetail
<1> QED BY <1>1, <1>2, <1>3, <1>4, <1>5, <1>6, <1>7

CreatePages == {"courses", "batches", "tutors", "students", "companies", "placements", "tickets", "admissions"}

LEMMA EachScreen ==
    /\ DOMAIN Screens = {"users", "staffs", "roles", "departments", "programs"} \cup CreatePages
    /\ Screens["users"] = UsersPage /\ Screens["staffs"] = StaffsPage /\ Screens["roles"] = RolesPage
    /\ Screens["departments"] = DepartmentsPage /\ Screens["programs"] = ProgramsPage
    /\ \A p \in CreatePages :
           /\ Screens[p].edit = "nobody" /\ Screens[p].remove = "nobody" /\ Screens[p].form = "none"
           /\ CreateRoutes[p] \in {Screens[p].create, "any"}
<1>1. DOMAIN Screens = {"users", "staffs", "roles", "departments", "programs"} \cup CreatePages
    BY DEF Screens, CreatePages
<1>2. Screens["users"] = UsersPage /\ Screens["staffs"] = StaffsPage /\ Screens["roles"] = RolesPage
    BY DEF Screens
<1>3. Screens["departments"] = DepartmentsPage /\ Screens["programs"] = ProgramsPage
    BY DEF Screens
<1>4. /\ Screens["courses"] = CoursesPage /\ Screens["batches"] = BatchesPage /\ Screens["tutors"] = TutorsPage
      /\ Screens["students"] = StudentsPage /\ Screens["companies"] = CompaniesPage
      /\ Screens["placements"] = PlacementsPage /\ Screens["tickets"] = TicketsPage
      /\ Screens["admissions"] = AdmissionsPage
    BY DEF Screens
<1>5. \A p \in CreatePages :
           /\ Screens[p].edit = "nobody" /\ Screens[p].remove = "nobody" /\ Screens[p].form = "none"
           /\ CreateRoutes[p] \in {Screens[p].create, "any"}
    BY <1>4 DEF CreatePages, CreateOnly, Screen, CoursesPage, BatchesPage, TutorsPage, StudentsPage, CompaniesPage,
        PlacementsPage, TicketsPage, AdmissionsPage, CreateRoutes
<1> QED BY <1>1, <1>2, <1>3, <1>5

LEMMA OfferedAllowed ==
    ASSUME page \in DOMAIN Screens, NEW op \in {"create", "edit", "delete"}, Offered(op)
    PROVE  op \in Allowed /\ tab = "active"
<1>1. tab = "active"
    BY DEF Offered
<1>2. CASE page \in CreatePages
    <2>1. Needs(op) = CreateRoutes[page]
        BY <1>2 DEF Needs, CreatePages
    <2> QED BY <1>1, <1>2, <2>1, EachScreen DEF Offered, Allowed
<1>3. CASE page = "users"
    BY <1>1, <1>3, EachScreen DEF Offered, Allowed, Needs, UsersPage, Screen, UserRoutes, Api
<1>4. CASE page = "staffs"
    BY <1>1, <1>4, EachScreen DEF Offered, Allowed, Needs, StaffsPage, Screen, UserRoutes, Api
<1>5. CASE page = "roles"
    BY <1>1, <1>5, EachScreen DEF Offered, Allowed, Needs, RolesPage, Screen, RoleRoutes, Api
<1>6. CASE page = "departments"
    BY <1>1, <1>6, EachScreen DEF Offered, Allowed, Needs, DepartmentsPage, Screen, DepartmentRoutes, Api
<1>7. CASE page = "programs"
    BY <1>1, <1>7, EachScreen DEF Offered, Allowed, Needs, ProgramsPage, Screen, ProgramRoutes, Api
<1> QED BY <1>2, <1>3, <1>4, <1>5, <1>6, <1>7, EachScreen

(* What is at hand of each kind. *)
LEMMA Blanks ==
    /\ NoRow \in Records /\ ~Known(NoRow)
    /\ NoForm \in Forms /\ ~NoForm.seeded /\ NoForm.typed = {}
    /\ BlankForm \in Forms /\ BlankForm.typed = {}
    /\ NoPopup \in Popups /\ NoPopup.kind = "none" /\ NoPopup.id = 0 /\ ~NoPopup.sure /\ NoPopup.form = NoForm /\ NoPopup.row = NoRow
    /\ NoFetch \in Fetches /\ NoFetch.phase = "none"
    /\ Started \in Fetches /\ Started.phase = "sent"
    /\ Empty \in Caches /\ ~Empty.have /\ Empty.row = NoRow
<1>1. NoRow \in Records /\ ~Known(NoRow)
    BY DEF NoRow, Records, Known
<1>2. NoForm \in Forms /\ ~NoForm.seeded /\ NoForm.typed = {}
    BY DEF NoForm, Forms
<1>3. BlankForm \in Forms /\ BlankForm.typed = {}
    BY DEF BlankForm, NoForm, Forms
<1>4. NoPopup \in Popups /\ NoPopup.kind = "none" /\ NoPopup.id = 0 /\ ~NoPopup.sure /\ NoPopup.form = NoForm /\ NoPopup.row = NoRow
    BY <1>1, <1>2 DEF NoPopup, Popups
<1>5. NoFetch \in Fetches /\ NoFetch.phase = "none" /\ Started \in Fetches /\ Started.phase = "sent"
    BY <1>1 DEF NoFetch, Started, Fetches
<1>6. Empty \in Caches /\ ~Empty.have /\ Empty.row = NoRow
    BY <1>1 DEF Empty, Caches
<1> QED BY <1>1, <1>2, <1>3, <1>4, <1>5, <1>6

LEMMA LoadedRow == \A r \in Records : Loaded(r) \in Caches /\ Loaded(r).have /\ Loaded(r).row = r
BY DEF Loaded, Caches

LEMMA SeededForm ==
    ASSUME NEW m \in Nat, NEW s \in Nat
    PROVE  From(m, s) \in Forms /\ From(m, s).seeded /\ From(m, s).typed = {} /\ From(m, s).main = m /\ From(m, s).side = s
BY DEF From, Forms

LEMMA StandingOf == \A r \in Records : Standing(r) \in Standings /\ Standing(r).there = r.there /\ Standing(r).held = r.held
BY DEF Standing, Standings, Records

LEMMA ProgramsDoNotFetch == FormHasSettings => ~FormFetches
BY EachScreen DEF FormHasSettings, FormFetches, ProgramsPage, Screen

-----------------------------------------------------------------------------
(* Types. *)

LEMMA CountsUp ==
    ASSUME Types, NEW what \in {"values", "opens", "calls", "turns", "faults"}, NEW bound, Spend(what, bound)
    PROVE  /\ count' \in Counts
           /\ count'.opens = IF what = "opens" THEN count.opens + 1 ELSE count.opens
BY DEF Types, Counts, Spend

LEMMA FetchTypes ==
    ASSUME Types, TakeList \/ FailList \/ ServeDetail \/ TakeDetail \/ FailDetail
    PROVE  Types'
<1>1. CASE TakeList
    BY <1>1, Blanks, LoadedRow DEF TakeList, Types
<1>2. CASE FailList
    BY <1>2, CountsUp, Blanks, LoadedRow DEF FailList, Types
<1>3. CASE ServeDetail
    BY <1>3 DEF ServeDetail, Types, Fetches
<1>4. CASE TakeDetail
    <2>1. reading.row \in Records /\ popup.row \in Records
        BY DEF Types, Fetches, Popups
    <2>2. /\ From(reading.row.main, reading.row.side) \in Forms /\ From(popup.row.main, reading.row.side) \in Forms
        BY <2>1, SeededForm DEF Records
    <2>3. popup' \in Popups
        BY <1>4, <2>2 DEF TakeDetail, Types, Popups
    <2> QED BY <1>4, <2>1, <2>3, Blanks, LoadedRow DEF TakeDetail, Types
<1>5. CASE FailDetail
    <2>1. popup.row \in Records
        BY DEF Types, Popups
    <2>2. From(popup.row.main, popup.row.side) \in Forms /\ NoForm \in Forms
        BY <2>1, SeededForm, Blanks DEF Records
    <2>3. popup' \in Popups
        BY <1>5, <2>2 DEF FailDetail, Types, Popups
    <2> QED BY <1>5, <2>3, CountsUp, Blanks DEF FailDetail, Types
<1> QED BY <1>1, <1>2, <1>3, <1>4, <1>5

LEMMA PopupTypes ==
    ASSUME Types, OpenCreate \/ OpenView \/ OpenEdit \/ OpenDelete \/ Close \/ \E to \in {"active", "deleted"} : SwitchTab(to)
    PROVE  Types'
<1>1. list.row \in Records /\ detail.row \in Records /\ count.opens + 1 \in Nat
    BY DEF Types, Caches, Counts
<1>2. FormOver(list.row) \in Forms
    <2>1. From(list.row.main, detail.row.side) \in Forms /\ From(list.row.main, list.row.side) \in Forms
          /\ From(detail.row.main, detail.row.side) \in Forms
        BY <1>1, SeededForm DEF Records
    <2> QED BY <2>1, Blanks DEF FormOver
<1>3. \A kind \in {"create", "view", "edit", "delete"}, row \in Records, form \in Forms : Opened(kind, row, form) \in Popups
    BY <1>1 DEF Opened, Popups, Types, Quiet
<1>4. Joined(reading) \in Fetches
    BY Blanks DEF Joined, Types
<1>5. CASE OpenCreate
    BY <1>3, <1>5, CountsUp, Blanks DEF OpenCreate, Types
<1>6. CASE OpenView
    BY <1>1, <1>3, <1>4, <1>6, CountsUp, Blanks DEF OpenView, Types, Row
<1>7. CASE OpenEdit
    BY <1>1, <1>2, <1>3, <1>4, <1>7, CountsUp DEF OpenEdit, Types, Row
<1>8. CASE OpenDelete
    BY <1>1, <1>3, <1>8, CountsUp, Blanks DEF OpenDelete, Types, Row
<1>9. CASE Close
    BY <1>9, Blanks DEF Close, Types
<1>10. CASE \E to \in {"active", "deleted"} : SwitchTab(to)
    BY <1>10, CountsUp, Blanks DEF SwitchTab, Types
<1> QED BY <1>5, <1>6, <1>7, <1>8, <1>9, <1>10

NewCall(op) ==
    [op |-> op, popup |-> popup.id, tab |-> tab, form |-> popup.form, sure |-> popup.sure /\ calls = {},
     seen |-> Standing(popup.row), found |-> Standing(NoRow), phase |-> "sent"]
Unsure(c) == [c EXCEPT !.sure = FALSE]

LEMMA UnsureCall ==
    ASSUME NEW c \in Calls
    PROVE  /\ Unsure(c) \in Calls /\ ~Unsure(c).sure
           /\ Unsure(c).op = c.op /\ Unsure(c).popup = c.popup /\ Unsure(c).tab = c.tab /\ Unsure(c).form = c.form
           /\ Unsure(c).seen = c.seen /\ Unsure(c).found = c.found /\ Unsure(c).phase = c.phase
BY DEF Unsure, Calls

LEMMA SentCalls ==
    ASSUME Types, NEW op \in {"create", "edit", "delete"}
    PROVE  /\ Sent(op) = {Unsure(c) : c \in calls} \cup {NewCall(op)}
           /\ NewCall(op) \in Calls
           /\ Sent(op) \subseteq Calls
<1>1. Sent(op) = {Unsure(c) : c \in calls} \cup {NewCall(op)}
    BY DEF Sent, Unsure, NewCall
<1>2. Standing(popup.row) \in Standings /\ Standing(NoRow) \in Standings
    BY StandingOf, Blanks DEF Types, Popups
<1>3. popup.id \in Nat /\ popup.form \in Forms /\ tab \in {"active", "deleted"} /\ (popup.sure /\ calls = {}) \in BOOLEAN
    BY DEF Types, Popups
<1>4. NewCall(op) \in Calls
    BY <1>2, <1>3 DEF NewCall, Calls
<1>5. \A c \in calls : Unsure(c) \in Calls
    BY UnsureCall DEF Types
<1> QED BY <1>1, <1>4, <1>5

LEMMA WorkTypes ==
    ASSUME Types, (\E part \in Parts : Type(part) \/ OthersSave(part)) \/ OthersHold \/ OthersDelete \/ Save \/ ConfirmDelete
    PROVE  Types'
<1>1. CASE \E part \in Parts : Type(part)
    <2> PICK part \in Parts : Type(part)
        BY <1>1
    <2>1. count.values + 1 \in Nat
        BY DEF Types, Counts
    <2>2. Typed(popup.form, part, count.values + 1) \in Forms
        BY <2>1 DEF Typed, Types, Popups, Forms, Parts
    <2>3. popup' \in Popups
        BY <2>2 DEF Type, Types, Popups
    <2> QED BY <2>3, CountsUp DEF Type, Types
<1>2. CASE \E part \in Parts : OthersSave(part)
    <2> PICK part \in Parts : OthersSave(part)
        BY <1>2
    <2>1. count.values + 1 \in Nat
        BY DEF Types, Counts
    <2>2. record' \in Records
        BY <2>1 DEF OthersSave, Types, Records, Parts
    <2>3. mine' \in [Parts -> Nat]
        BY DEF OthersSave, Types
    <2> QED BY <2>2, <2>3, CountsUp DEF OthersSave, Types
<1>3. CASE OthersHold
    <2>1. record' \in Records
        BY <1>3 DEF OthersHold, Types, Records
    <2> QED BY <1>3, <2>1, CountsUp DEF OthersHold, Types
<1>4. CASE OthersDelete
    <2>1. record' \in Records
        BY <1>4 DEF OthersDelete, Types, Records
    <2> QED BY <1>4, <2>1, CountsUp DEF OthersDelete, Types
<1>5. \A op \in {"create", "edit", "delete"} : Sent(op) \subseteq Calls
    BY SentCalls
<1>6. CASE Save
    BY <1>5, <1>6, CountsUp DEF Save, Types
<1>7. CASE ConfirmDelete
    BY <1>5, <1>7, CountsUp DEF ConfirmDelete, Types
<1> QED BY <1>1, <1>2, <1>3, <1>4, <1>6, <1>7

LEMMA CallTypes ==
    ASSUME Types, NEW c \in calls, ServeCall(c) \/ ServePrice(c) \/ Refused(c) \/ ShowRefusal(c) \/ Failed(c) \/ Answered(c)
    PROVE  Types'
<1>1. c \in Calls /\ c.form \in Forms /\ c.form.main \in Nat /\ c.form.side \in Nat
    BY DEF Types, Calls, Forms
<1>2. \A phase \in {"sent", "half_done", "done", "refused"} :
          Reached(c, phase) => calls' \subseteq Calls
    BY <1>1 DEF Reached, Types, Calls
<1>3. \A part \in Parts : Claim(c, part) \in Nat
    BY <1>1 DEF Claim, Types, Parts
<1>4. CASE ServeCall(c)
    <2>1. CASE Create(c)
        <3>1. record' \in Records
            BY <1>1, <2>1 DEF Create, Types, Records
        <3>2. mine' \in [Parts -> Nat]
            BY <1>1, <2>1 DEF Create, Types, Parts
        <3> QED BY <1>2, <1>4, <2>1, <3>1, <3>2 DEF ServeCall, Create, Types
    <2>2. CASE Edit(c)
        <3>1. record' \in Records
            BY <1>1, <2>2 DEF Edit, Types, Records
        <3>2. mine' \in [Parts -> Nat]
            BY <1>3, <2>2 DEF Edit, Types
        <3> QED BY <1>2, <1>4, <2>2, <3>1, <3>2 DEF ServeCall, Edit, Types
    <2>3. CASE Delete(c)
        <3>1. record' \in Records
            BY <2>3 DEF Delete, Types, Records
        <3> QED BY <1>2, <1>4, <2>3, <3>1 DEF ServeCall, Delete, Types
    <2> QED BY <1>1, <1>4, <2>1, <2>2, <2>3 DEF ServeCall, Calls
<1>5. CASE ServePrice(c)
    <2>1. record' \in Records
        BY <1>1, <1>5 DEF ServePrice, Types, Records
    <2>2. mine' \in [Parts -> Nat]
        BY <1>3, <1>5 DEF ServePrice, Types, Parts
    <2> QED BY <1>2, <1>5, <2>1, <2>2 DEF ServePrice, Types
<1>6. CASE Refused(c)
    <2>1. Standing(record) \in Standings
        BY StandingOf DEF Types
    <2>2. [c EXCEPT !.phase = "refused", !.found = Standing(record)] \in Calls
        BY <1>1, <2>1 DEF Calls
    <2> QED BY <1>6, <2>2 DEF Refused, Types
<1>7. CASE ShowRefusal(c)
    BY <1>7 DEF ShowRefusal, Types
<1>8. CASE Failed(c)
    <2>1. popup' \in Popups
        BY <1>8 DEF Failed, Types, Popups
    <2> QED BY <1>8, <2>1, CountsUp DEF Failed, Types
<1>9. CASE Answered(c)
    <2>1. reading' \in Fetches
        BY <1>9, Blanks DEF Answered, Refetched, Types
    <2>2. detail' \in Caches
        BY <1>1, <1>9 DEF Answered, Types, Caches, Records
    <2>3. popup' \in Popups
        BY <1>9, Blanks DEF Answered, Types
    <2>4. doubt' \in BOOLEAN
        BY <1>9 DEF Answered, Types
    <2> QED BY <1>9, <2>1, <2>2, <2>3, <2>4 DEF Answered, Types
<1> QED BY <1>4, <1>5, <1>6, <1>7, <1>8, <1>9

-----------------------------------------------------------------------------
(* What is offered. *)

LEMMA ListOffers ==
    ASSUME IInv, Types', TakeList \/ FailList \/ ServeDetail \/ TakeDetail \/ FailDetail
    PROVE  Offers'
<1>1. UNCHANGED <<page, grants, record, tab, calls>>
    BY DEF TakeList, FailList, ServeDetail, TakeDetail, FailDetail
<1>2. list' = list \/ ~Known(list'.row) \/ (list'.row = record /\ (tab = "active" => record.there))
    BY Blanks, LoadedRow DEF TakeList, FailList, ServeDetail, TakeDetail, FailDetail, InTab, IInv, Types
<1>3. popup'.kind = popup.kind /\ popup'.row = popup.row
    BY DEF TakeList, FailList, ServeDetail, TakeDetail, FailDetail, IInv, Types, Popups
<1>4. Allowed' = Allowed
    BY <1>1, TheSamePage
<1> QED BY <1>1, <1>2, <1>3, <1>4 DEF IInv, Offers, OfferedCall, LockedInTime, Locked, DeleteLocked, Known

LEMMA PopupOffers ==
    ASSUME IInv, Types', OpenCreate \/ OpenView \/ OpenEdit \/ OpenDelete \/ Close \/ \E to \in {"active", "deleted"} : SwitchTab(to)
    PROVE  Offers'
<1>1. UNCHANGED <<page, grants, record, calls>>
    BY DEF OpenCreate, OpenView, OpenEdit, OpenDelete, Close, SwitchTab
<1>2. (UNCHANGED <<tab, list>>) \/ ~Known(list'.row)
    BY Blanks DEF OpenCreate, OpenView, OpenEdit, OpenDelete, Close, SwitchTab
<1>3. popup'.row = list.row \/ ~Known(popup'.row)
    BY Blanks DEF OpenCreate, OpenView, OpenEdit, OpenDelete, Close, SwitchTab, Opened, Row
<1>4. popup'.kind \in {"create", "edit", "delete"} => popup'.kind \in Allowed
    BY OfferedAllowed, Blanks DEF OpenCreate, OpenView, OpenEdit, OpenDelete, Close, SwitchTab, Opened, IInv
<1>5. popup'.kind \in {"edit", "delete"} => popup'.row.there /\ ~Locked(popup'.row)
    BY OfferedAllowed, Blanks DEF OpenCreate, OpenView, OpenEdit, OpenDelete, Close, SwitchTab, Opened, OnScreen, Row,
        IInv, Offers, Known, DeleteLocked
<1>6. popup'.kind = "delete" => ~DeleteLocked(popup'.row)
    BY Blanks DEF OpenCreate, OpenView, OpenEdit, OpenDelete, Close, SwitchTab, Opened, Row
<1>7. Allowed' = Allowed
    BY <1>1, TheSamePage
<1> QED BY <1>1, <1>2, <1>3, <1>4, <1>5, <1>6, <1>7
    DEF IInv, Offers, OfferedCall, LockedInTime, Locked, DeleteLocked, Known

LEMMA WorkOffers ==
    ASSUME IInv, Types', (\E part \in Parts : Type(part) \/ OthersSave(part)) \/ OthersHold \/ OthersDelete \/ Save \/ ConfirmDelete
    PROVE  Offers'
<1>1. UNCHANGED <<page, grants, tab, list>> /\ record'.fixed = record.fixed
    BY DEF Type, OthersSave, OthersHold, OthersDelete, Save, ConfirmDelete, IInv, Types, Records, Parts
<1>2. popup'.kind = popup.kind /\ popup'.row = popup.row
    BY DEF Type, OthersSave, OthersHold, OthersDelete, Save, ConfirmDelete, IInv, Types, Popups
<1>3. Allowed' = Allowed
    BY <1>1, TheSamePage
<1>4. calls' = calls \/ \E op \in {"create", "edit", "delete"} : popup.kind = op /\ calls' = Sent(op)
    BY DEF Type, OthersSave, OthersHold, OthersDelete, Save, ConfirmDelete
<1>5. ASSUME NEW d \in calls'
      PROVE  OfferedCall(d)' /\ (d.phase = "refused" => d.seen # d.found \/ (page = "programs" /\ d.op = "delete"))
    <2>1. CASE d \in calls
        BY <1>1, <1>3, <2>1 DEF IInv, Offers, OfferedCall, LockedInTime, Locked
    <2>2. CASE \E c \in calls : d = Unsure(c)
        <3> PICK c \in calls : d = Unsure(c)
            BY <2>2
        <3>1. c \in Calls
            BY DEF IInv, Types
        <3> QED BY <1>1, <1>3, <3>1, UnsureCall DEF IInv, Offers, OfferedCall, LockedInTime, Locked
    <2>3. CASE \E op \in {"create", "edit", "delete"} : popup.kind = op /\ d = NewCall(op)
        <3> PICK op \in {"create", "edit", "delete"} : popup.kind = op /\ d = NewCall(op)
            BY <2>3
        <3>1. d.op = op /\ d.seen = Standing(popup.row) /\ d.phase = "sent"
            BY DEF NewCall
        <3>2. Standing(popup.row).there = popup.row.there /\ Standing(popup.row).held = popup.row.held
            BY StandingOf DEF IInv, Types, Popups
        <3> QED BY <1>1, <1>3, <3>1, <3>2 DEF IInv, Offers, OfferedCall, Locked, DeleteLocked, Known
    <2> QED BY <1>4, <2>1, <2>2, <2>3, SentCalls DEF IInv
<1> QED BY <1>1, <1>2, <1>3, <1>5 DEF IInv, Offers, LockedInTime, Locked, DeleteLocked, Known

LEMMA CallSteps ==
    ASSUME Types, NEW c \in calls, ServeCall(c) \/ ServePrice(c) \/ Refused(c) \/ ShowRefusal(c) \/ Failed(c) \/ Answered(c)
    PROVE  /\ UNCHANGED <<page, grants, tab, list>> /\ record'.fixed = record.fixed
           /\ \/ calls' = calls \ {c}
              \/ \E phase \in {"half_done", "done"} : c.phase # "refused" /\ Reached(c, phase)
              \/ Refused(c)
           /\ popup' = NoPopup \/ popup' = popup \/ popup' = [popup EXCEPT !.sure = FALSE]
<1> c \in Calls /\ c.op \in {"create", "edit", "delete"} /\ record \in Records
    BY DEF Types, Calls
<1>1. CASE ServeCall(c)
    <2>1. CASE Create(c)
        BY <1>1, <2>1 DEF ServeCall, Create, Records
    <2>2. CASE Edit(c)
        BY <1>1, <2>2 DEF ServeCall, Edit, Records
    <2>3. CASE Delete(c)
        BY <1>1, <2>3 DEF ServeCall, Delete, Records
    <2> QED BY <1>1, <2>1, <2>2, <2>3 DEF ServeCall
<1>2. CASE ServePrice(c)
    BY <1>2 DEF ServePrice, Records
<1>3. CASE Refused(c)
    BY <1>3 DEF Refused
<1>4. CASE ShowRefusal(c)
    BY <1>4 DEF ShowRefusal
<1>5. CASE Failed(c)
    BY <1>5 DEF Failed
<1>6. CASE Answered(c)
    BY <1>6 DEF Answered
<1> QED BY <1>1, <1>2, <1>3, <1>4, <1>5, <1>6

(* Of the calls one at most moves, in its phase alone. *)
Moved(c, d) ==
    /\ d \in Calls /\ calls' = (calls \ {c}) \cup {d}
    /\ d.op = c.op /\ d.popup = c.popup /\ d.tab = c.tab /\ d.form = c.form /\ d.sure = c.sure /\ d.seen = c.seen
    /\ \/ d.phase \in {"half_done", "done"} /\ (ServeCall(c) \/ ServePrice(c))
       \/ d.phase = "refused" /\ Refused(c)

LEMMA CallMoves ==
    ASSUME Types, NEW c \in calls, ServeCall(c) \/ ServePrice(c) \/ Refused(c) \/ ShowRefusal(c) \/ Failed(c) \/ Answered(c)
    PROVE  \A d \in calls' : d \in calls \/ Moved(c, d)
<1>1. c \in Calls
    BY DEF Types
<1>2. CASE calls' = calls \ {c}
    BY <1>2
<1>3. CASE Refused(c)
    <2> DEFINE d == [c EXCEPT !.phase = "refused", !.found = Standing(record)]
    <2>1. Standing(record) \in Standings
        BY StandingOf DEF Types
    <2>2. d \in Calls /\ d.op = c.op /\ d.popup = c.popup /\ d.tab = c.tab /\ d.form = c.form /\ d.sure = c.sure
          /\ d.seen = c.seen /\ d.phase = "refused"
        BY <1>1, <2>1 DEF Calls
    <2>3. calls' = (calls \ {c}) \cup {d}
        BY <1>3 DEF Refused
    <2> QED BY <1>3, <2>2, <2>3 DEF Moved
<1>4. ASSUME NEW phase \in {"half_done", "done"}, Reached(c, phase), ServeCall(c) \/ ServePrice(c)
      PROVE  \A d \in calls' : d \in calls \/ Moved(c, d)
    <2> DEFINE d == [c EXCEPT !.phase = phase]
    <2>1. d \in Calls /\ d.op = c.op /\ d.popup = c.popup /\ d.tab = c.tab /\ d.form = c.form /\ d.sure = c.sure
          /\ d.seen = c.seen /\ d.phase = phase
        BY <1>1 DEF Calls
    <2>2. calls' = (calls \ {c}) \cup {d}
        BY <1>4 DEF Reached
    <2> QED BY <1>4, <2>1, <2>2 DEF Moved
<1>5. CASE ServeCall(c)
    BY <1>1, <1>4, <1>5 DEF ServeCall, Create, Edit, Delete, Calls
<1>6. CASE ServePrice(c)
    BY <1>4, <1>6 DEF ServePrice
<1> QED BY <1>2, <1>3, <1>5, <1>6 DEF ShowRefusal, Failed, Answered

LEMMA CallOffers ==
    ASSUME IInv, Types', NEW c \in calls, ServeCall(c) \/ ServePrice(c) \/ Refused(c) \/ ShowRefusal(c) \/ Failed(c) \/ Answered(c)
    PROVE  Offers'
<1>1. UNCHANGED <<page, grants, tab, list>> /\ record'.fixed = record.fixed
    BY CallSteps DEF IInv
<1>2. (popup'.kind = popup.kind /\ popup'.row = popup.row) \/ popup' = NoPopup
    BY CallSteps DEF IInv, Types, Popups
<1>3. Allowed' = Allowed
    BY <1>1, TheSamePage
<1>4. c \in Calls
    BY DEF IInv, Types
<1>5. ASSUME NEW d \in calls'
      PROVE  OfferedCall(d)' /\ (d.phase = "refused" => d.seen # d.found \/ (page = "programs" /\ d.op = "delete"))
    <2>1. CASE d \in calls
        BY <1>1, <1>3, <2>1 DEF IInv, Offers, OfferedCall, LockedInTime, Locked
    <2>2. CASE \E phase \in {"half_done", "done"} : d = [c EXCEPT !.phase = phase]
        <3>1. d.op = c.op /\ d.seen = c.seen /\ d.phase # "refused"
            BY <1>4, <2>2 DEF Calls
        <3> QED BY <1>1, <1>3, <3>1 DEF IInv, Offers, OfferedCall, Locked
    <2>3. CASE Refused(c) /\ d = [c EXCEPT !.phase = "refused", !.found = Standing(record)]
        <3>1. d.op = c.op /\ d.seen = c.seen /\ d.found = Standing(record)
            BY <1>4, <2>3 DEF Calls
        <3>2. Standing(record).there = record.there /\ Standing(record).held = record.held
            BY StandingOf DEF IInv, Types
        <3>3. c.op \in Allowed /\ (c.op # "create" => c.seen.there /\ ~Locked(record))
              /\ (c.op = "delete" /\ page = "departments" => ~c.seen.held)
            BY DEF IInv, Offers, OfferedCall
        <3>4. c.seen # Standing(record) \/ (page = "programs" /\ c.op = "delete")
            BY <2>3, <3>2, <3>3 DEF Refused, Refuses, Allowed, Locked
        <3> QED BY <1>1, <1>3, <3>1, <3>3, <3>4 DEF OfferedCall, Locked
    <2> QED BY CallSteps, <2>1, <2>2, <2>3 DEF IInv, Refused, Reached
<1> QED BY <1>1, <1>2, <1>3, <1>5, Blanks DEF IInv, Offers, LockedInTime, Locked, DeleteLocked, Known

-----------------------------------------------------------------------------
(* Before there is a record. *)

LEMMA ListBegun ==
    ASSUME IInv, Types', TakeList \/ FailList \/ ServeDetail \/ TakeDetail \/ FailDetail
    PROVE  Begun'
<1>1. UNCHANGED <<page, grants, record, calls, mine>>
    BY DEF TakeList, FailList, ServeDetail, TakeDetail, FailDetail
<1>2. Known(record) \/ list' = list \/ ~Known(list'.row)
    BY Blanks, LoadedRow DEF TakeList, FailList, ServeDetail, TakeDetail, FailDetail, IInv, Types
<1>3. popup'.kind = popup.kind
    BY DEF TakeList, FailList, ServeDetail, TakeDetail, FailDetail, IInv, Types, Popups
<1>4. (~FormFetches' \/ ~Known(record)) /\ ~FormHasSettings => ~detail'.have /\ reading' = NoFetch
    BY <1>1, TheSamePage, Blanks DEF TakeList, FailList, ServeDetail, TakeDetail, FailDetail, IInv, Begun, Known
<1> QED BY <1>1, <1>2, <1>3, <1>4, TheSamePage DEF IInv, Begun, Known

LEMMA PopupBegun ==
    ASSUME IInv, Types', OpenCreate \/ OpenView \/ OpenEdit \/ OpenDelete \/ Close \/ \E to \in {"active", "deleted"} : SwitchTab(to)
    PROVE  Begun'
<1>1. UNCHANGED <<page, grants, record, calls, mine, detail>>
    BY DEF OpenCreate, OpenView, OpenEdit, OpenDelete, Close, SwitchTab
<1>2. list' = list \/ ~Known(list'.row)
    BY Blanks DEF OpenCreate, OpenView, OpenEdit, OpenDelete, Close, SwitchTab
<1>3. popup'.kind \in {"none", "create"} \/ Known(list.row)
    BY Blanks DEF OpenCreate, OpenView, OpenEdit, OpenDelete, Close, SwitchTab, OnScreen, Row, Opened, Known
<1>4. reading' = reading \/ FormHasSettings \/ (FormFetches /\ Known(list.row))
    BY DEF OpenCreate, OpenView, OpenEdit, OpenDelete, Close, SwitchTab, OnScreen, Row, Known, SharesDetail
<1> QED BY <1>1, <1>2, <1>3, <1>4, TheSamePage DEF IInv, Begun, Known

LEMMA WorkBegun ==
    ASSUME IInv, Types', (\E part \in Parts : Type(part) \/ OthersSave(part)) \/ OthersHold \/ OthersDelete \/ Save \/ ConfirmDelete
    PROVE  Begun'
<1>1. UNCHANGED <<page, grants, list, detail, reading>>
    BY DEF Type, OthersSave, OthersHold, OthersDelete, Save, ConfirmDelete
<1>2. popup'.kind = popup.kind
    BY DEF Type, OthersSave, OthersHold, OthersDelete, Save, ConfirmDelete, IInv, Types, Popups
<1>3. Known(record) => Known(record')
    BY DEF Type, OthersSave, OthersHold, OthersDelete, Save, ConfirmDelete, IInv, Types, Records, Known, Parts
<1>4. mine' = mine \/ (Known(record) /\ \A part \in Parts : mine'[part] \in {0, mine[part]})
    BY DEF Type, OthersSave, OthersHold, OthersDelete, Save, ConfirmDelete, IInv, Types, Known
<1>5. ASSUME ~Known(record), NEW d \in calls'
      PROVE  d.op = "create"
    <2>1. calls \subseteq Calls /\ \A c \in calls : c.op = "create"
        BY <1>5 DEF IInv, Types, Begun
    <2>2. calls' = calls \/ (popup.kind = "create" /\ calls' = Sent("create"))
        BY <1>5 DEF Type, OthersSave, OthersHold, OthersDelete, Save, ConfirmDelete, IInv, Begun
    <2>3. NewCall("create").op = "create"
        BY DEF NewCall
    <2> QED BY <1>5, <2>1, <2>2, <2>3, SentCalls, UnsureCall DEF IInv
<1> QED BY <1>1, <1>2, <1>3, <1>4, <1>5, TheSamePage DEF IInv, Begun, Known, Parts

LEMMA CallBegun ==
    ASSUME IInv, Types', NEW c \in calls, ServeCall(c) \/ ServePrice(c) \/ Refused(c) \/ ShowRefusal(c) \/ Failed(c) \/ Answered(c)
    PROVE  Begun'
<1>1. UNCHANGED <<page, grants, list>>
    BY CallSteps DEF IInv
<1>2. c \in Calls /\ record \in Records
    BY DEF IInv, Types
<1>3. popup'.kind \in {"none", popup.kind}
    BY CallSteps, Blanks DEF IInv, Types, Popups
<1>4. (Known(record) => Known(record')) /\ (~Known(record') => mine' = mine)
    <2>1. Known(record) \/ (c.op = "create" /\ c.phase # "half_done")
        BY DEF IInv, Begun, Numbered, CallNumbered
    <2>2. CASE ServeCall(c)
        <3>1. CASE c.op = "create"
            BY <1>2, <2>2, <3>1 DEF ServeCall, Create, Records, Known
        <3>2. CASE c.op = "edit"
            BY <1>2, <2>1, <2>2, <3>2 DEF ServeCall, Edit, Records, Known
        <3>3. CASE c.op = "delete"
            BY <1>2, <2>2, <3>3 DEF ServeCall, Delete, Records, Known
        <3> QED BY <1>2, <3>1, <3>2, <3>3 DEF Calls
    <2>3. CASE ServePrice(c)
        BY <1>2, <2>1, <2>3 DEF ServePrice, Records, Known
    <2>4. CASE UNCHANGED <<record, mine>>
        BY <2>4 DEF Known
    <2> QED BY <2>2, <2>3, <2>4 DEF Refused, ShowRefusal, Failed, Answered
<1>5. ~Known(record) => \A d \in calls' : d.op = "create"
    BY CallMoves DEF IInv, Begun, Moved
<1>6. ~FormHasSettings /\ (~FormFetches \/ ~Known(record')) => ~detail'.have /\ reading' = NoFetch
    <2> SUFFICES ASSUME ~FormHasSettings, ~FormFetches \/ ~Known(record')
                 PROVE  ~detail'.have /\ reading' = NoFetch
        OBVIOUS
    <2>1. ~detail.have /\ reading = NoFetch /\ (FormFetches => popup.kind \in {"none", "create"})
        BY <1>4 DEF IInv, Begun
    <2>2. CASE Answered(c)
        BY <2>1, <2>2 DEF Answered, Invalidated, SharesDetail
    <2>3. CASE UNCHANGED <<detail, reading>>
        BY <2>1, <2>3
    <2> QED BY <2>2, <2>3 DEF ServeCall, ServePrice, Refused, ShowRefusal, Failed
<1>7. FormHasSettings /\ PriceCode \notin grants => mine'["side"] = 0
    <2> SUFFICES ASSUME FormHasSettings, PriceCode \notin grants
                 PROVE  mine'["side"] = 0
        OBVIOUS
    <2>1. mine["side"] = 0 /\ "side" \notin c.form.typed /\ c.phase # "half_done"
        BY DEF IInv, Begun, Numbered, CallNumbered
    <2>2. CASE ServeCall(c)
        BY <1>2, <2>1, <2>2 DEF ServeCall, Create, Edit, Delete, Payload, Parts, Calls
    <2>3. CASE UNCHANGED mine
        BY <2>1, <2>3
    <2> QED BY <2>1, <2>2, <2>3 DEF ServePrice, Refused, ShowRefusal, Failed, Answered
<1>8. ~Known(record') => ~Known(record) /\ (\A part \in Parts : mine'[part] = 0) /\ popup.kind \in {"none", "create"} /\ ~Known(list.row)
    BY <1>4 DEF IInv, Begun
<1>9. /\ Known(record)' = Known(record') /\ Known(list.row)' = Known(list'.row)
      /\ (FormFetches' <=> FormFetches) /\ (FormHasSettings' <=> FormHasSettings)
    BY <1>1, TheSamePage DEF Known
<1> QED BY <1>1, <1>3, <1>5, <1>6, <1>7, <1>8, <1>9 DEF Begun

-----------------------------------------------------------------------------
(* Which call is of which popup. *)

LEMMA ListNumbered ==
    ASSUME IInv, Types', TakeList \/ FailList \/ ServeDetail \/ TakeDetail \/ FailDetail
    PROVE  Numbered'
<1>1. UNCHANGED <<page, grants, calls, tab>> /\ count'.opens = count.opens
    BY CountsUp DEF TakeList, FailList, ServeDetail, TakeDetail, FailDetail, IInv
<1>2. popup'.kind = popup.kind /\ popup'.id = popup.id /\ popup'.sure = popup.sure
    BY DEF TakeList, FailList, ServeDetail, TakeDetail, FailDetail, IInv, Types, Popups
<1>3. popup'.form = popup.form \/ popup'.form.typed = {}
    <2>1. popup.row \in Records /\ reading.row \in Records
        BY DEF IInv, Types, Popups, Fetches
    <2>2. From(reading.row.main, reading.row.side).typed = {} /\ From(popup.row.main, reading.row.side).typed = {}
          /\ From(popup.row.main, popup.row.side).typed = {}
        BY <2>1, SeededForm DEF Records
    <2> QED BY <2>2, Blanks DEF TakeList, FailList, ServeDetail, TakeDetail, FailDetail, IInv, Types, Popups
<1>4. doubt' \/ (~doubt /\ (detail'.have \/ detail' = detail))
    BY LoadedRow DEF TakeList, FailList, ServeDetail, TakeDetail, FailDetail, IInv, Types, Fetches
<1>5. popup'.kind = "edit" /\ popup'.form.seeded /\ FormFetches /\ ~doubt' => detail'.have
    BY <1>4, LoadedRow DEF TakeList, FailList, ServeDetail, TakeDetail, FailDetail, IInv, Numbered, Types, Fetches
<1>6. FormHasSettings /\ (popup'.kind # "edit" \/ PriceCode \notin grants) => "side" \notin popup'.form.typed
    BY <1>2, <1>3 DEF IInv, Numbered
<1>7. \A d \in calls : CallNumbered(d)'
    BY <1>1, <1>2, <1>4, TheSamePage DEF IInv, Numbered, CallNumbered
<1> QED BY <1>1, <1>2, <1>5, <1>6, <1>7, TheSamePage DEF IInv, Numbered

LEMMA OpenedPopup ==
    ASSUME Types, popup' # NoPopup,
           OpenCreate \/ OpenView \/ OpenEdit \/ OpenDelete \/ Close \/ \E to \in {"active", "deleted"} : SwitchTab(to)
    PROVE  /\ popup'.id = count.opens + 1 /\ count'.opens = count.opens + 1
           /\ popup'.kind # "none" /\ popup'.form.typed = {} /\ (popup'.sure => calls = {} /\ ~doubt)
<1>1. FormOver(list.row).typed = {}
    BY SeededForm, Blanks DEF FormOver, Types, Caches, Records
<1>2. \E kind \in {"create", "view", "edit", "delete"}, row \in {NoRow, list.row}, form \in {BlankForm, NoForm, FormOver(list.row)} :
          popup' = Opened(kind, row, form) /\ Spend("opens", MaxOpens)
    <2>1. OpenCreate \/ OpenView \/ OpenEdit \/ OpenDelete
        BY DEF Close, SwitchTab
    <2>2. OpenCreate => popup' = Opened("create", NoRow, BlankForm) /\ Spend("opens", MaxOpens)
        BY DEF OpenCreate
    <2>3. OpenView => popup' = Opened("view", list.row, NoForm) /\ Spend("opens", MaxOpens)
        BY DEF OpenView, Row
    <2>4. OpenEdit => popup' = Opened("edit", list.row, FormOver(list.row)) /\ Spend("opens", MaxOpens)
        BY DEF OpenEdit, Row
    <2>5. OpenDelete => popup' = Opened("delete", list.row, NoForm) /\ Spend("opens", MaxOpens)
        BY DEF OpenDelete, Row
    <2> QED BY <2>1, <2>2, <2>3, <2>4, <2>5
<1>3. PICK kind \in {"create", "view", "edit", "delete"}, row \in {NoRow, list.row}, form \in {BlankForm, NoForm, FormOver(list.row)} :
          popup' = Opened(kind, row, form) /\ Spend("opens", MaxOpens)
    BY <1>2
<1>4. count'.opens = count.opens + 1
    BY <1>3, CountsUp
<1> QED BY <1>1, <1>3, <1>4, Blanks DEF Opened, Quiet

LEMMA PopupNumbered ==
    ASSUME IInv, Types', OpenCreate \/ OpenView \/ OpenEdit \/ OpenDelete \/ Close \/ \E to \in {"active", "deleted"} : SwitchTab(to)
    PROVE  Numbered'
<1>1. UNCHANGED <<page, grants, calls, detail, doubt>>
    BY DEF OpenCreate, OpenView, OpenEdit, OpenDelete, Close, SwitchTab
<1>2. count.opens \in Nat /\ count'.opens \in {count.opens, count.opens + 1}
    BY CountsUp DEF OpenCreate, OpenView, OpenEdit, OpenDelete, Close, SwitchTab, IInv, Types, Counts
<1>3. CASE popup' = NoPopup
    <2>1. \A d \in calls : CallNumbered(d)'
        BY <1>1, <1>2, <1>3, Blanks, TheSamePage DEF IInv, Numbered, CallNumbered
    <2> QED BY <1>1, <1>2, <1>3, <2>1, Blanks, TheSamePage DEF Numbered
<1>4. CASE popup' # NoPopup
    <2>1. /\ popup'.id = count.opens + 1 /\ count'.opens = count.opens + 1
          /\ popup'.kind # "none" /\ popup'.form.typed = {} /\ (popup'.sure => calls = {})
        BY <1>4, OpenedPopup DEF IInv
    <2>2. popup'.kind = "edit" /\ popup'.form.seeded /\ FormFetches => detail.have
        <3>1. FormFetches /\ FormOver(list.row).seeded => detail.have
            BY Blanks, ProgramsDoNotFetch DEF FormOver
        <3> QED BY <3>1, <1>4 DEF OpenCreate, OpenView, OpenEdit, OpenDelete, Close, SwitchTab, Opened, Row
    <2>3. \A d \in calls : CallNumbered(d)'
        BY <1>1, <1>2, <2>1, TheSamePage DEF IInv, Numbered, CallNumbered
    <2> QED BY <1>1, <1>2, <2>1, <2>2, <2>3, TheSamePage DEF Numbered
<1> QED BY <1>3, <1>4

LEMMA WorkNumbered ==
    ASSUME IInv, Types', (\E part \in Parts : Type(part) \/ OthersSave(part)) \/ OthersHold \/ OthersDelete \/ Save \/ ConfirmDelete
    PROVE  Numbered'
<1>1. UNCHANGED <<page, grants, tab, detail, doubt>> /\ count'.opens = count.opens
    BY CountsUp DEF Type, OthersSave, OthersHold, OthersDelete, Save, ConfirmDelete, IInv
<1>2. popup' = popup \/ \E part \in Parts : Type(part)
    BY DEF OthersSave, OthersHold, OthersDelete, Save, ConfirmDelete
<1>3. popup \in Popups /\ popup.form \in Forms
    BY DEF IInv, Types, Popups
<1>4. ASSUME NEW part \in Parts, Type(part)
      PROVE  /\ popup'.kind = popup.kind /\ popup'.id = popup.id /\ popup'.sure = popup.sure
             /\ popup'.form.seeded = popup.form.seeded /\ popup'.form.typed = popup.form.typed \cup {part}
    <2>1. \A value : LET typed == Typed(popup.form, part, value)
                     IN typed.seeded = popup.form.seeded /\ typed.typed = popup.form.typed \cup {part}
        BY <1>3 DEF Typed, Forms, Parts
    <2>2. popup' = [popup EXCEPT !.form = Typed(popup.form, part, count.values + 1)]
        BY <1>4 DEF Type
    <2> QED BY <1>3, <2>1, <2>2 DEF Popups
<1>5. popup'.kind = popup.kind /\ popup'.id = popup.id /\ popup'.sure = popup.sure /\ popup'.form.seeded = popup.form.seeded
    BY <1>2, <1>4
<1>6. FormHasSettings /\ (popup.kind # "edit" \/ PriceCode \notin grants) => "side" \notin popup'.form.typed
    BY <1>2, <1>4 DEF Type, CanType, IInv, Numbered
<1>7. \A d \in calls' : CallNumbered(d)'
    <2>1. CASE calls' = calls
        BY <1>1, <1>5, <2>1, TheSamePage DEF IInv, Numbered, CallNumbered
    <2>2. CASE \E op \in {"create", "edit", "delete"} : /\ popup.kind = op /\ ~Pending /\ calls' = Sent(op)
                                                      /\ (op = "edit" => popup.form.seeded)
        <3> PICK op \in {"create", "edit", "delete"} : /\ popup.kind = op /\ ~Pending /\ calls' = Sent(op)
                                                      /\ (op = "edit" => popup.form.seeded)
            BY <2>2
        <3>1. calls \subseteq Calls /\ popup.id \in 1..count.opens
            BY DEF IInv, Types, Numbered
        <3>2. ASSUME NEW d \in calls', NEW e \in calls, d = Unsure(e)
              PROVE  CallNumbered(d)'
            BY <1>1, <1>5, <3>1, <3>2, UnsureCall, TheSamePage DEF IInv, Numbered, CallNumbered, Pending
        <3>3. ASSUME NEW d \in calls', d = NewCall(op)
              PROVE  CallNumbered(d)'
            <4>1. d.op = op /\ d.popup = popup.id /\ d.tab = tab /\ d.form = popup.form
                  /\ (d.sure => calls = {}) /\ d.phase = "sent"
                BY <3>3 DEF NewCall
            <4>2. calls = {} => calls' = {d}
                BY <3>3, SentCalls DEF IInv
            <4>3. op = "edit" /\ FormFetches /\ ~doubt => detail.have
                BY DEF IInv, Numbered
            <4>4. FormHasSettings /\ (op = "create" \/ PriceCode \notin grants) => "side" \notin popup.form.typed
                BY DEF IInv, Numbered
            <4> QED BY <1>1, <1>5, <3>1, <4>1, <4>2, <4>3, <4>4, TheSamePage DEF CallNumbered
        <3>4. \A d \in calls' : d = NewCall(op) \/ \E e \in calls : d = Unsure(e)
            BY SentCalls DEF IInv
        <3> QED BY <3>2, <3>3, <3>4
    <2> QED BY <2>1, <2>2 DEF Type, OthersSave, OthersHold, OthersDelete, Save, ConfirmDelete
<1> QED BY <1>1, <1>5, <1>6, <1>7, TheSamePage DEF IInv, Numbered

LEMMA CallsNumbered ==
    ASSUME IInv, Types', NEW c \in calls, ServeCall(c) \/ ServePrice(c) \/ Refused(c) \/ ShowRefusal(c) \/ Failed(c) \/ Answered(c)
    PROVE  Numbered'
<1>1. UNCHANGED <<page, grants, tab, list>> /\ count'.opens = count.opens
    BY CallSteps, CountsUp DEF ServeCall, ServePrice, Refused, ShowRefusal, Failed, Answered, IInv
<1>2. c \in Calls /\ popup \in Popups
    BY DEF IInv, Types
<1>3. (doubt => doubt') /\ detail'.have = detail.have
    BY DEF ServeCall, ServePrice, Refused, ShowRefusal, Failed, Answered, IInv, Types, Caches
<1>4. popup' = NoPopup \/ (/\ popup'.kind = popup.kind /\ popup'.id = popup.id /\ popup'.form = popup.form
                            /\ (popup'.sure => popup.sure))
    BY <1>2, CallSteps DEF IInv, Popups
<1>5. ASSUME NEW d \in calls' PROVE CallNumbered(d)'
    <2>1. PICK e \in calls : /\ d.op = e.op /\ d.popup = e.popup /\ d.tab = e.tab /\ d.form = e.form /\ d.sure = e.sure
                             /\ d = e \/ (d \notin calls /\ e = c /\ Moved(c, d))
        BY CallMoves DEF IInv, Moved
    <2>2. d.phase = "half_done" => d.op = "edit" /\ FormHasSettings /\ PriceCode \in grants
        <3>1. CASE d = e
            BY <3>1 DEF IInv, Numbered, CallNumbered
        <3>2. CASE d \notin calls /\ ServeCall(c)
            <4>1. \A phase : Reached(c, phase) => d = [c EXCEPT !.phase = phase]
                BY <3>2 DEF Reached
            <4>2. \A phase : Reached(c, phase) => d.phase = phase
                BY <1>2, <4>1 DEF Calls
            <4> QED BY <1>2, <2>1, <3>2, <4>2 DEF ServeCall, Create, Edit, Delete, Calls
        <3>3. CASE ServePrice(c) /\ Moved(c, d)
            BY <2>1, <3>3 DEF IInv, Numbered, CallNumbered, ServePrice, Moved
        <3> QED BY <2>1, <3>1, <3>2, <3>3 DEF Moved
    <2>3. d.sure => calls' = {d}
        BY <2>1, CallMoves DEF IInv, Numbered, CallNumbered, Moved
    <2> QED BY <1>1, <1>3, <1>4, <2>1, <2>2, <2>3, TheSamePage, Blanks DEF IInv, Numbered, CallNumbered
<1> QED BY <1>1, <1>3, <1>4, <1>5, TheSamePage, Blanks DEF IInv, Numbered

-----------------------------------------------------------------------------
(* What the user saved is where a form may start from. *)

LEMMA ListFresh ==
    ASSUME IInv, Types', TakeList \/ FailList \/ ServeDetail \/ TakeDetail \/ FailDetail
    PROVE  Fresh'
<1>1. UNCHANGED <<page, grants, record, calls, mine>> /\ (doubt => doubt')
    BY DEF TakeList, FailList, ServeDetail, TakeDetail, FailDetail
<1> SUFFICES ASSUME page # "staffs" PROVE (OwnEditsStand /\ FreshCaches /\ FreshPopup /\ (\A d \in calls : FreshCall(d)))'
    BY <1>1 DEF Fresh
<1>2. OwnEditsStand /\ FreshCaches /\ FreshPopup /\ (\A d \in calls : FreshCall(d))
    BY DEF IInv, Fresh
<1>3. popup \in Popups /\ popup.row \in Records /\ reading.row \in Records
    BY DEF IInv, Types, Popups, Fetches
<1>4. popup'.kind = popup.kind /\ popup'.row = popup.row /\ popup'.sure = popup.sure
    BY <1>3 DEF TakeList, FailList, ServeDetail, TakeDetail, FailDetail, Popups
<1>5. OwnEditsStand'
    BY <1>1, <1>2 DEF OwnEditsStand
<1>6. ~listing' /\ ~doubt' /\ Settled /\ Known(list'.row) => \A part \in Parts : mine[part] # 0 => list'.row[part] = mine[part]
    BY <1>2, Blanks, LoadedRow DEF TakeList, FailList, ServeDetail, TakeDetail, FailDetail, FreshCaches, KeepsAll, Keeps,
        OwnEditsStand, IInv, Types
<1>7. reading'.phase = "none" /\ ~doubt' /\ Settled /\ detail'.have => \A part \in Copied : mine[part] # 0 => detail'.row[part] = mine[part]
    BY <1>2, <1>3, Blanks, LoadedRow DEF TakeList, FailList, ServeDetail, TakeDetail, FailDetail, FreshCaches, KeepsAll, Keeps, Copied, Parts
<1>8. reading'.phase = "answered" /\ (~doubt' \/ popup.sure) /\ Settled => \A part \in Copied : mine[part] # 0 => reading'.row[part] = mine[part]
    BY <1>2, Blanks DEF TakeList, FailList, ServeDetail, TakeDetail, FailDetail, FreshCaches, Keeps, OwnEditsStand, Copied, Parts
<1>9. popup.kind = "edit" /\ popup.sure /\ Settled /\ popup'.form.seeded =>
          \A part \in Parts \ popup'.form.typed : mine[part] # 0 => popup'.form[part] = mine[part]
    <2> SUFFICES ASSUME popup.kind = "edit", popup.sure, Settled, popup'.form.seeded,
                        NEW part \in Parts, part \notin popup'.form.typed, mine[part] # 0
                 PROVE  popup'.form[part] = mine[part]
        OBVIOUS
    <2>1. popup.row[part] = mine[part] /\ (popup.form.seeded /\ part \notin popup.form.typed => popup.form[part] = mine[part])
        BY <1>2 DEF FreshPopup, KeepsAll, KeepsForm, Keeps
    <2>2. CASE popup'.form = popup.form
        BY <2>1, <2>2
    <2>3. CASE TakeDetail /\ FormFetches /\ popup'.form = From(reading.row.main, reading.row.side)
        <3>1. reading.row[part] = mine[part]
            BY <1>2, <2>3, ProgramsDoNotFetch DEF TakeDetail, FreshCaches, Keeps, Copied
        <3> QED BY <1>3, <2>3, <3>1, SeededForm DEF Records, Parts
    <2>4. CASE TakeDetail /\ popup'.form = From(popup.row.main, reading.row.side)
        <3>1. part = "side" => reading.row[part] = mine[part]
            BY <1>2, <2>4 DEF TakeDetail, FreshCaches, Keeps, Copied, Parts
        <3> QED BY <1>3, <2>1, <2>4, <3>1, SeededForm DEF Records, Parts
    <2>5. CASE popup'.form = From(popup.row.main, popup.row.side)
        BY <1>3, <2>1, <2>5, SeededForm DEF Records, Parts
    <2>6. popup'.form # NoForm
        BY Blanks
    <2> QED BY <1>3, <2>2, <2>3, <2>4, <2>5, <2>6 DEF TakeList, FailList, ServeDetail, TakeDetail, FailDetail, Popups
<1>10. Copied' = Copied
    BY <1>1, TheSamePage
<1>11. FreshCaches'
    BY <1>1, <1>4, <1>6, <1>7, <1>8, <1>10 DEF FreshCaches, Settled, KeepsAll, Keeps, Known
<1>12. FreshPopup'
    BY <1>1, <1>2, <1>4, <1>9 DEF FreshPopup, Settled, KeepsAll, KeepsForm, Keeps
<1>13. \A d \in calls : FreshCall(d)'
    BY <1>1, <1>2, TheSamePage DEF FreshCall, KeepsForm, Keeps
<1> QED BY <1>1, <1>5, <1>11, <1>12, <1>13

LEMMA PopupFresh ==
    ASSUME IInv, Types', OpenCreate \/ OpenView \/ OpenEdit \/ OpenDelete \/ Close \/ \E to \in {"active", "deleted"} : SwitchTab(to)
    PROVE  Fresh'
<1>1. UNCHANGED <<page, grants, record, calls, mine, detail, doubt>>
    BY DEF OpenCreate, OpenView, OpenEdit, OpenDelete, Close, SwitchTab
<1> SUFFICES ASSUME page # "staffs" PROVE (OwnEditsStand /\ FreshCaches /\ FreshPopup /\ (\A d \in calls : FreshCall(d)))'
    BY <1>1 DEF Fresh
<1>2. OwnEditsStand /\ FreshCaches /\ FreshPopup /\ (\A d \in calls : FreshCall(d))
    BY DEF IInv, Fresh
<1>3. OwnEditsStand'
    BY <1>1, <1>2 DEF OwnEditsStand
<1>4. (UNCHANGED <<list, listing>>) \/ listing'
    BY DEF OpenCreate, OpenView, OpenEdit, OpenDelete, Close, SwitchTab
<1>5. reading' = reading \/ (reading.phase = "none" /\ reading'.phase = "sent")
    BY Blanks DEF OpenCreate, OpenView, OpenEdit, OpenDelete, Close, SwitchTab, Joined
<1>6. ~doubt /\ Settled /\ reading.phase = "answered" => \A part \in Copied : Keeps(reading.row, part)
    BY <1>2 DEF FreshCaches
<1>7. popup'.sure => ~doubt
    BY Blanks, OpenedPopup DEF IInv
<1>8. popup'.kind = "edit" => OpenEdit
    BY Blanks DEF OpenCreate, OpenView, OpenEdit, OpenDelete, Close, SwitchTab, Opened
<1>9. ASSUME OpenEdit, popup'.sure, Settled
      PROVE  /\ \A part \in Parts : mine[part] # 0 => popup'.row[part] = mine[part]
             /\ popup'.form.seeded => \A part \in Parts : mine[part] # 0 => popup'.form[part] = mine[part]
    <2>1. popup'.row = list.row /\ popup'.form = FormOver(list.row) /\ Quiet /\ ~doubt /\ Known(list.row)
          /\ (FormHasSettings => detail.have)
        BY <1>9 DEF OpenEdit, Opened, Row, OnScreen, Known
    <2>2. \A part \in Parts : mine[part] # 0 => list.row[part] = mine[part]
        BY <1>2, <1>9, <2>1 DEF FreshCaches, Quiet, KeepsAll, Keeps
    <2>3. \A part \in Copied : detail.have /\ mine[part] # 0 => detail.row[part] = mine[part]
        BY <1>2, <1>9, <2>1, Blanks DEF FreshCaches, Quiet, Keeps
    <2>4. list.row \in Records /\ detail.row \in Records
        BY DEF IInv, Types, Caches
    <2>5. ASSUME FormOver(list.row).seeded, NEW part \in Parts, mine[part] # 0
          PROVE  FormOver(list.row)[part] = mine[part]
        <3>1. CASE FormHasSettings
            <4>1. FormOver(list.row) = From(list.row.main, detail.row.side)
                BY <3>1, ProgramsDoNotFetch DEF FormOver
            <4> QED BY <2>1, <2>2, <2>3, <2>4, <2>5, <3>1, <4>1, SeededForm DEF Records, Parts, Copied
        <3>2. CASE FormFetches
            <4>1. detail.have /\ FormOver(list.row) = From(detail.row.main, detail.row.side)
                BY <2>5, <3>2, ProgramsDoNotFetch, Blanks DEF FormOver
            <4> QED BY <2>3, <2>4, <2>5, <3>2, <4>1, SeededForm, ProgramsDoNotFetch DEF Records, Parts, Copied
        <3>3. CASE ~FormHasSettings /\ ~FormFetches
            <4>1. FormOver(list.row) = From(list.row.main, list.row.side)
                BY <3>3 DEF FormOver
            <4> QED BY <2>2, <2>4, <2>5, <4>1, SeededForm DEF Records, Parts
        <3> QED BY <3>1, <3>2, <3>3
    <2> QED BY <2>1, <2>2, <2>5
<1>10. Copied' = Copied
    BY <1>1, TheSamePage
<1>11. FreshCaches'
    <2>1. (~listing /\ ~doubt /\ Settled /\ Known(list.row) => KeepsAll(list.row))'
        BY <1>1, <1>2, <1>4 DEF FreshCaches, Settled, KeepsAll, Keeps, Known
    <2>2. (reading.phase = "none" /\ ~doubt /\ Settled /\ detail.have => \A part \in Copied : Keeps(detail.row, part))'
        BY <1>1, <1>2, <1>5, <1>10 DEF FreshCaches, Settled, Keeps
    <2>3. (reading.phase = "answered" /\ (~doubt \/ popup.sure) /\ Settled => \A part \in Copied : Keeps(reading.row, part))'
        BY <1>1, <1>5, <1>6, <1>7, <1>10 DEF Settled, Keeps
    <2> QED BY <2>1, <2>2, <2>3 DEF FreshCaches
<1>12. FreshPopup'
    BY <1>1, <1>8, <1>9 DEF FreshPopup, Settled, KeepsAll, KeepsForm, Keeps
<1>13. \A d \in calls : FreshCall(d)'
    BY <1>1, <1>2, TheSamePage DEF FreshCall, KeepsForm, Keeps
<1> QED BY <1>1, <1>3, <1>11, <1>12, <1>13

LEMMA WorkFresh ==
    ASSUME IInv, Types', (\E part \in Parts : Type(part) \/ OthersSave(part)) \/ OthersHold \/ OthersDelete \/ Save \/ ConfirmDelete
    PROVE  Fresh'
<1>1. UNCHANGED <<page, grants, list, listing, detail, reading, doubt>>
    BY DEF Type, OthersSave, OthersHold, OthersDelete, Save, ConfirmDelete
<1> SUFFICES ASSUME page # "staffs" PROVE (OwnEditsStand /\ FreshCaches /\ FreshPopup)' /\ \A d \in calls' : FreshCall(d)'
    BY <1>1 DEF Fresh
<1>2. OwnEditsStand /\ FreshCaches /\ FreshPopup /\ (\A d \in calls : FreshCall(d))
    BY DEF IInv, Fresh
<1>3. popup \in Popups /\ popup.form \in Forms /\ record \in Records /\ calls \subseteq Calls /\ mine \in [Parts -> Nat]
    BY DEF IInv, Types, Popups
<1>4. \A part \in Parts : mine'[part] = mine[part] \/ mine'[part] = 0
    BY <1>3 DEF Type, OthersSave, OthersHold, OthersDelete, Save, ConfirmDelete
<1>5. \A part \in Parts : mine'[part] # 0 => record'[part] = record[part]
    BY <1>3 DEF Type, OthersSave, OthersHold, OthersDelete, Save, ConfirmDelete, Records, Parts
<1>6. Settled' = Settled
    <2>1. calls' = calls \/ \E op \in {"create", "edit", "delete"} : calls' = Sent(op)
        BY DEF Type, OthersSave, OthersHold, OthersDelete, Save, ConfirmDelete
    <2>2. \A op : ~Landed(NewCall(op))
        BY DEF Landed, NewCall
    <2>3. \A c \in calls : Landed(Unsure(c)) <=> Landed(c)
        BY <1>3, UnsureCall DEF Landed
    <2> QED BY <2>1, <2>2, <2>3, SentCalls DEF IInv, Settled
<1>7. popup' = popup \/ (/\ popup'.kind = popup.kind /\ popup'.row = popup.row /\ popup'.sure = popup.sure
                         /\ popup'.form.seeded = popup.form.seeded /\ popup.form.typed \subseteq popup'.form.typed
                         /\ \A part \in Parts \ popup'.form.typed : popup'.form[part] = popup.form[part])
    <2>1. CASE \E part \in Parts : Type(part)
        <3> PICK part \in Parts : Type(part)
            BY <2>1
        <3> DEFINE form == Typed(popup.form, part, count.values + 1)
        <3>1. form.seeded = popup.form.seeded /\ form.typed = popup.form.typed \cup {part}
              /\ \A p \in Parts \ {part} : form[p] = popup.form[p]
            BY <1>3 DEF Typed, Forms, Parts
        <3>2. popup' = [popup EXCEPT !.form = form]
            BY DEF Type
        <3> HIDE DEF form
        <3> QED BY <1>3, <3>1, <3>2 DEF Popups
    <2>2. CASE popup' = popup
        BY <2>2
    <2> QED BY <2>1, <2>2 DEF OthersSave, OthersHold, OthersDelete, Save, ConfirmDelete
<1>10. Copied' = Copied
    BY <1>1, TheSamePage
<1>11. OwnEditsStand'
    BY <1>2, <1>4, <1>5 DEF OwnEditsStand
<1>12. FreshCaches'
    <2>1. (~listing /\ ~doubt /\ Settled /\ Known(list.row) => KeepsAll(list.row))'
        BY <1>1, <1>2, <1>4, <1>6 DEF FreshCaches, KeepsAll, Keeps, Known
    <2>2. (reading.phase = "none" /\ ~doubt /\ Settled /\ detail.have => \A part \in Copied : Keeps(detail.row, part))'
        BY <1>1, <1>2, <1>4, <1>6, <1>10 DEF FreshCaches, Keeps, Copied, Parts
    <2>3. (reading.phase = "answered" /\ (~doubt \/ popup.sure) /\ Settled => \A part \in Copied : Keeps(reading.row, part))'
        BY <1>1, <1>2, <1>4, <1>6, <1>7, <1>10 DEF FreshCaches, Keeps, Copied, Parts
    <2> QED BY <2>1, <2>2, <2>3 DEF FreshCaches
<1>13. FreshPopup'
    BY <1>2, <1>4, <1>6, <1>7 DEF FreshPopup, KeepsAll, KeepsForm, Keeps
<1>14. ASSUME NEW d \in calls' PROVE FreshCall(d)'
    <2>1. CASE calls' = calls
        BY <1>1, <1>2, <1>4, <2>1, TheSamePage DEF FreshCall, KeepsForm, Keeps, Parts
    <2>2. CASE \E op \in {"create", "edit", "delete"} : calls' = Sent(op) /\ popup.kind = op /\ (op = "edit" => popup.form.seeded)
        <3> PICK op \in {"create", "edit", "delete"} : calls' = Sent(op) /\ popup.kind = op /\ (op = "edit" => popup.form.seeded)
            BY <2>2
        <3>1. CASE d = NewCall(op)
            <4>1. d.op = op /\ d.form = popup.form /\ d.phase = "sent" /\ (d.sure => popup.sure /\ calls = {})
                BY <3>1 DEF NewCall
            <4> QED BY <1>2, <1>4, <4>1 DEF FreshCall, FreshPopup, Settled, KeepsForm, Keeps
        <3>2. CASE \E e \in calls : d = Unsure(e)
            <4> PICK e \in calls : d = Unsure(e)
                BY <3>2
            <4>1. d.op = e.op /\ d.form = e.form /\ d.phase = e.phase /\ ~d.sure /\ d.popup = e.popup
                BY <1>3, UnsureCall
            <4>2. ASSUME \A f \in calls' : Landed(f) => f = d
                  PROVE  \A f \in calls : Landed(f) => f = e
                <5> SUFFICES ASSUME NEW f \in calls, Landed(f), f # e PROVE FALSE
                    OBVIOUS
                <5>1. Unsure(f) \in calls' /\ Landed(Unsure(f))
                    BY <1>3, UnsureCall, SentCalls DEF Landed, IInv
                <5>2. Unsure(f) = Unsure(e)
                    BY <3>2, <4>2, <5>1
                <5>3. ~f.sure /\ ~e.sure
                    BY DEF IInv, Numbered, CallNumbered
                <5>4. Unsure(f) = f /\ Unsure(e) = e
                    BY <1>3, <5>3 DEF Unsure, Calls
                <5> QED BY <5>2, <5>4
            <4> QED BY <1>1, <1>2, <1>4, <4>1, <4>2, TheSamePage DEF FreshCall, Keeps, Parts
        <3> QED BY <3>1, <3>2, SentCalls DEF IInv
    <2> QED BY <2>1, <2>2 DEF Type, OthersSave, OthersHold, OthersDelete, Save, ConfirmDelete
<1> QED BY <1>11, <1>12, <1>13, <1>14

LEMMA EditLands ==
    ASSUME IInv, Types', NEW c \in calls, (ServeCall(c) /\ c.op = "edit") \/ ServePrice(c)
    PROVE  /\ page # "staffs" => OwnEditsStand'
           /\ page # "staffs" => \A d \in calls' : FreshCall(d)'
           /\ ~Settled'
<1>1. UNCHANGED <<page, grants>>
    BY CallSteps DEF IInv
<1>2. c \in Calls /\ calls \subseteq Calls /\ record \in Records /\ mine \in [Parts -> Nat]
    BY DEF IInv, Types
<1>3. c.op = "edit" /\ (ServePrice(c) => c.phase = "half_done" /\ FormHasSettings /\ PriceCode \in grants)
    BY DEF ServePrice, IInv, Numbered, CallNumbered
<1>4. PICK phase \in {"half_done", "done"} :
          /\ Reached(c, phase)
          /\ ServeCall(c) => (phase = "half_done" <=> FormHasSettings /\ PriceCode \in grants)
          /\ ServePrice(c) => phase = "done"
    BY <1>3 DEF ServeCall, ServePrice, Edit
<1> DEFINE moved == [c EXCEPT !.phase = phase]
<1>5. moved.op = "edit" /\ moved.form = c.form /\ moved.sure = c.sure /\ moved.phase = phase
      /\ calls' = (calls \ {c}) \cup {moved}
    BY <1>2, <1>3, <1>4 DEF Calls, Reached
<1> HIDE DEF moved
<1>6. ~Settled'
    BY <1>5 DEF Settled, Landed
<1> SUFFICES ASSUME page # "staffs" PROVE OwnEditsStand' /\ \A d \in calls' : FreshCall(d)'
    BY <1>6
<1>7. OwnEditsStand /\ \A d \in calls : FreshCall(d)
    BY DEF IInv, Fresh
<1>8. \A part \in Parts : Claim(c, part) # 0 /\ (ServeCall(c) \/ part = "side") => c.form[part] = Claim(c, part)
    BY <1>3, <1>7 DEF Claim, OwnEditsStand, FreshCall, KeepsForm, Keeps, ServeCall, ServePrice
<1>9. OwnEditsStand'
    <2>1. CASE ServeCall(c)
        <3>1. record' = [record EXCEPT !.main = c.form.main, !.side = IF "side" \in Payload THEN c.form.side ELSE @]
              /\ mine' = [part \in Parts |-> IF part \in Payload THEN Claim(c, part) ELSE mine[part]]
            BY <1>3, <2>1 DEF ServeCall, Edit
        <3>2. record'["main"] = c.form["main"] /\ record'["side"] = IF "side" \in Payload THEN c.form["side"] ELSE record["side"]
            BY <1>2, <3>1 DEF Records
        <3>3. "main" \in Payload
            BY DEF Payload, Parts
        <3> QED BY <1>7, <1>8, <2>1, <3>1, <3>2, <3>3 DEF OwnEditsStand, Parts
    <2>2. CASE ServePrice(c)
        BY <1>2, <1>7, <1>8, <2>2 DEF ServePrice, OwnEditsStand, Records, Parts
    <2> QED BY <2>1, <2>2
<1>10. ServePrice(c) => (mine'["side"] # 0 => c.form["side"] = mine'["side"])
    BY <1>2, <1>8 DEF ServePrice, Parts
<1>11. ASSUME phase = "half_done", c.sure, "side" \notin c.form.typed
       PROVE  mine'["side"] # 0 => c.form["side"] = mine'["side"]
    <2>1. ServeCall(c) /\ FormHasSettings
        BY <1>4, <1>11
    <2>2. mine'["side"] = mine["side"]
        BY <1>2, <1>3, <2>1 DEF ServeCall, Edit, Payload, Parts
    <2> QED BY <1>3, <1>7, <1>11, <2>1, <2>2 DEF ServeCall, FreshCall, KeepsForm, Keeps, Parts
<1>12. ASSUME NEW d \in calls' PROVE FreshCall(d)'
    <2>1. CASE d = moved
        <3>1. phase = "done" /\ FormHasSettings /\ PriceCode \in grants => ServePrice(c)
            BY <1>4
        <3> QED BY <1>1, <1>5, <1>10, <1>11, <2>1, <3>1, TheSamePage DEF FreshCall, Keeps
    <2>2. CASE d # moved
        <3>1. d \in calls /\ d # c /\ ~d.sure
            BY <1>5, <2>2 DEF IInv, Numbered, CallNumbered
        <3>2. Landed(moved) /\ moved \in calls'
            BY <1>5 DEF Landed
        <3> QED BY <2>2, <3>1, <3>2 DEF FreshCall
    <2> QED BY <2>1, <2>2
<1> QED BY <1>9, <1>12

LEMMA CallFresh ==
    ASSUME IInv, Types', NEW c \in calls, ServeCall(c) \/ ServePrice(c) \/ Refused(c) \/ ShowRefusal(c) \/ Failed(c) \/ Answered(c)
    PROVE  Fresh'
<1>1. UNCHANGED <<page, grants, tab, list>>
    BY CallSteps DEF IInv
<1> SUFFICES ASSUME page # "staffs" PROVE (OwnEditsStand /\ FreshCaches /\ FreshPopup)' /\ \A d \in calls' : FreshCall(d)'
    BY <1>1 DEF Fresh
<1>2. OwnEditsStand /\ FreshCaches /\ FreshPopup /\ (\A d \in calls : FreshCall(d))
    BY DEF IInv, Fresh
<1>3. c \in Calls /\ calls \subseteq Calls /\ popup \in Popups /\ record \in Records
    BY DEF IInv, Types
<1>4. Copied' = Copied
    BY <1>1, TheSamePage
<1>5. CASE (ServeCall(c) /\ c.op = "edit") \/ ServePrice(c)
    BY <1>5, EditLands DEF FreshCaches, FreshPopup
<1>6. CASE Failed(c)
    <2>1. doubt' /\ ~popup'.sure /\ UNCHANGED <<record, mine>>
        BY <1>3, <1>6 DEF Failed, Popups
    <2>2. calls' = calls \ {c}
        BY <1>6 DEF Failed
    <2>3. \A d \in calls' : FreshCall(d)'
        BY <1>2, <2>1, <2>2 DEF FreshCall, KeepsForm, Keeps
    <2> QED BY <1>2, <2>1, <2>3 DEF FreshCaches, FreshPopup, OwnEditsStand
(* Neither an edit nor a failure: what has landed has landed.              *)
<1>7. CASE (ServeCall(c) /\ c.op # "edit") \/ Refused(c) \/ ShowRefusal(c)
    <2>1. ~Landed(c) /\ UNCHANGED <<detail, listing, reading, popup, doubt>>
        BY <1>7 DEF Landed, ServeCall, Refused, ShowRefusal
    <2>2. \A d \in calls' : d \in calls \/ (~Landed(d) /\ (d.op = "edit" => d.phase = "refused"))
        <3>1. ~ServePrice(c) /\ (ServeCall(c) => c.op # "edit")
            BY <1>7 DEF ServeCall, ServePrice, Refused, ShowRefusal
        <3> QED BY <1>7, <3>1, CallMoves DEF IInv, Moved, Landed
    <2>3. \A d \in calls : Landed(d) => d \in calls'
        <3>1. calls \ {c} \subseteq calls'
            BY <1>3, <1>7 DEF ServeCall, Create, Delete, Reached, Refused, ShowRefusal, Calls
        <3> QED BY <2>1, <3>1
    <2>4. Settled' <=> Settled
        BY <2>2, <2>3 DEF Settled
    <2>5. CASE mine' = mine /\ \A part \in Parts : record'[part] = record[part]
        <3>1. OwnEditsStand'
            BY <1>2, <2>5 DEF OwnEditsStand
        <3>2. FreshCaches'
            BY <1>1, <1>2, <1>4, <2>1, <2>4, <2>5 DEF FreshCaches, KeepsAll, Keeps, Known
        <3>3. FreshPopup'
            BY <1>2, <2>1, <2>4, <2>5 DEF FreshPopup, KeepsAll, KeepsForm, Keeps
        <3>4. \A d \in calls' : FreshCall(d)'
            BY <1>1, <1>2, <2>1, <2>2, <2>3, <2>5, TheSamePage DEF FreshCall, KeepsForm, Keeps
        <3> QED BY <3>1, <3>2, <3>3, <3>4
    <2>6. CASE ServeCall(c) /\ c.op = "create" /\ ~Known(record)
        <3>1. /\ \A part \in Parts : mine'[part] = IF part \in c.form.typed THEN c.form[part] ELSE 0
              /\ \A part \in Parts \cap c.form.typed : record'[part] = c.form[part]
            <4>1. Create(c)
                BY <2>6 DEF ServeCall
            <4>2. record' = [record EXCEPT !.there = TRUE, !.main = c.form.main,
                                           !.side = IF FormHasSettings THEN @ ELSE c.form.side]
                  /\ mine' = [part \in Parts |-> IF part \in c.form.typed THEN c.form[part] ELSE mine[part]]
                BY <2>6, <4>1 DEF Create, Known
            <4>3. record'["main"] = c.form["main"] /\ (FormHasSettings \/ record'["side"] = c.form["side"])
                BY <1>3, <4>2 DEF Records
            <4>4. FormHasSettings => "side" \notin c.form.typed
                BY <2>6 DEF IInv, Numbered, CallNumbered
            <4>5. \A part \in Parts : mine[part] = 0
                BY <2>6 DEF IInv, Begun
            <4> QED BY <4>2, <4>3, <4>4, <4>5 DEF Parts
        <3>2. OwnEditsStand'
            BY <3>1 DEF OwnEditsStand
        <3>3. ~Known(list.row) /\ popup.kind # "edit" /\ \A d \in calls' : d.op = "create"
            BY <2>6, CallMoves DEF IInv, Begun, Moved
        <3>4. \A part \in Copied : mine'[part] # 0 => ~detail.have /\ reading = NoFetch
            <4>1. FormHasSettings => "side" \notin c.form.typed
                BY <2>6 DEF IInv, Numbered, CallNumbered
            <4> QED BY <2>6, <3>1, <4>1 DEF IInv, Begun, Copied, Parts
        <3>5. FreshCaches'
            BY <1>1, <1>4, <2>1, <3>3, <3>4, Blanks DEF FreshCaches, Keeps, Known
        <3>6. FreshPopup'
            BY <2>1, <3>3 DEF FreshPopup
        <3>7. \A d \in calls' : FreshCall(d)'
            BY <3>3 DEF FreshCall
        <3> QED BY <3>2, <3>5, <3>6, <3>7
    <2> QED BY <1>3, <1>7, <2>5, <2>6 DEF ServeCall, Create, Delete, Refused, ShowRefusal, Known, Records, Calls, Parts
<1>8. CASE Answered(c)
    <2>1. calls' = calls \ {c} /\ listing' /\ UNCHANGED <<record, mine>> /\ (doubt => doubt') /\ c.phase = "done"
        BY <1>8 DEF Answered
    <2>2. OwnEditsStand'
        BY <1>2, <2>1 DEF OwnEditsStand
    <2>3. popup' = NoPopup \/ (popup' = popup /\ (popup.sure => c.popup = popup.id /\ popup.kind # c.op))
        BY <1>8 DEF Answered, IInv, Numbered, CallNumbered
    <2>4. popup'.sure => popup' = popup /\ FALSE
        BY <2>3, Blanks DEF IInv, Numbered, CallNumbered
    <2>5. FreshPopup'
        BY <2>4 DEF FreshPopup
    <2>6. \A d \in calls' : FreshCall(d)'
        <3>1. ASSUME FormHasSettings, NEW d \in calls' PROVE doubt'
            BY <1>8, <2>1, <3>1 DEF Answered
        <3> QED BY <1>1, <1>2, <2>1, <3>1, TheSamePage DEF FreshCall, KeepsForm, Keeps
    <2>7. ASSUME ~doubt', Settled'
          PROVE  /\ detail'.have /\ reading'.phase = "none" => \A part \in Copied : mine[part] # 0 => detail'.row[part] = mine[part]
                 /\ reading'.phase = "answered" => \A part \in Copied : mine[part] # 0 => reading'.row[part] = mine[part]
        <3>1. CASE c.op # "edit"
            <4>1. detail' = detail /\ (reading' = Started \/ reading' = reading)
                BY <1>8, <3>1 DEF Answered, Refetched
            <4>2. Settled
                BY <2>1, <2>7, <3>1 DEF Settled, Landed
            <4> QED BY <1>2, <2>1, <2>7, <4>1, <4>2, Blanks DEF FreshCaches, Keeps
        <3>2. CASE c.op = "edit" /\ FormHasSettings
            <4>1. calls = {c} /\ reading' = NoFetch /\ ~doubt
                BY <1>8, <2>7, <3>2, ProgramsDoNotFetch DEF Answered, Invalidated, SharesDetail
            <4>2. Copied = {"side"}
                BY <3>2 DEF Copied
            <4>3. CASE PriceCode \in grants
                <5>1. detail'.row.side = c.form.side
                    <6>1. detail' = [detail EXCEPT !.row.side = c.form.side] /\ detail \in Caches
                        BY <1>8, <3>2, <4>3 DEF Answered, IInv, Types
                    <6> QED BY <6>1 DEF Caches, Records
                <5>2. Keeps(c.form, "side")
                    BY <1>2, <2>1, <3>2, <4>1, <4>3 DEF FreshCall
                <5> QED BY <4>1, <4>2, <5>1, <5>2, Blanks DEF Keeps
            <4>4. CASE PriceCode \notin grants
                BY <3>2, <4>1, <4>2, <4>4, Blanks DEF IInv, Begun
            <4> QED BY <4>3, <4>4
        <3>3. CASE c.op = "edit" /\ FormFetches
            <4>1. popup.kind = "edit" /\ detail.have
                BY <1>8, <2>7, <3>3 DEF Answered, IInv, Numbered, CallNumbered
            <4>2. page # "staffs" => reading' = Started
                BY <1>8, <3>3, <4>1 DEF Answered, Invalidated, SharesDetail, Refetched
            <4> QED BY <4>2, Blanks
        <3>4. CASE ~FormHasSettings /\ ~FormFetches
            <4>1. detail' = detail /\ reading' = reading /\ ~detail.have /\ reading = NoFetch
                BY <1>8, <3>4 DEF Answered, Invalidated, SharesDetail, IInv, Begun
            <4> QED BY <4>1, Blanks
        <3> QED BY <3>1, <3>2, <3>3, <3>4
    <2>8. FreshCaches'
        BY <1>4, <2>1, <2>4, <2>7 DEF FreshCaches, Keeps
    <2> QED BY <2>2, <2>5, <2>6, <2>8
<1> QED BY <1>5, <1>6, <1>7, <1>8

-----------------------------------------------------------------------------
LEMMA Initially ==
    ASSUME Init
    PROVE  IInv
<1>1. page \in DOMAIN Screens
    BY PagesAssumption DEF Init
<1>2. record \in Records /\ ~record.gone
    <2> PICK there \in BOOLEAN, fixed \in BOOLEAN : record = [NoRow EXCEPT !.there = there, !.fixed = fixed]
        BY DEF Init
    <2> QED BY DEF NoRow, Records
<1>3. list = Empty /\ detail = Empty /\ popup = NoPopup /\ calls = {} /\ tab = "active" /\ listing /\ doubt = FALSE
      /\ (\A part \in Parts : mine[part] = 0) /\ count.opens = 0
      /\ reading = IF FormHasSettings THEN Started ELSE NoFetch
    BY DEF Init
<1>4. Types
    <2>1. count \in Counts /\ mine \in [Parts -> Nat]
        BY DEF Init, Counts
    <2> QED BY <1>2, <1>3, <2>1, Blanks DEF Types
<1>5. Begun
    BY <1>3, <1>4, Blanks DEF Begun, Known, Types, Parts
<1>6. Numbered
    BY <1>3, Blanks DEF Numbered
<1>7. Fresh
    BY <1>3, Blanks DEF Fresh, OwnEditsStand, FreshCaches, FreshPopup
<1>8. Offers
    BY <1>3, Blanks DEF Offers, LockedInTime
<1> QED BY <1>1, <1>4, <1>5, <1>6, <1>7, <1>8 DEF IInv

LEMMA NextKeeps ==
    ASSUME IInv, [Next]_vars
    PROVE  IInv'
<1>1. CASE TakeList \/ FailList \/ ServeDetail \/ TakeDetail \/ FailDetail
    <2>1. page' = page
        BY <1>1 DEF TakeList, FailList, ServeDetail, TakeDetail, FailDetail
    <2>2. Types'
        BY <1>1, FetchTypes DEF IInv
    <2> QED BY <1>1, <2>1, <2>2, ListBegun, ListNumbered, ListFresh, ListOffers DEF IInv
<1>2. CASE OpenCreate \/ OpenView \/ OpenEdit \/ OpenDelete \/ Close \/ \E to \in {"active", "deleted"} : SwitchTab(to)
    <2>1. page' = page
        BY <1>2 DEF OpenCreate, OpenView, OpenEdit, OpenDelete, Close, SwitchTab
    <2>2. Types'
        BY <1>2, PopupTypes DEF IInv
    <2> QED BY <1>2, <2>1, <2>2, PopupBegun, PopupNumbered, PopupFresh, PopupOffers DEF IInv
<1>3. CASE (\E part \in Parts : Type(part) \/ OthersSave(part)) \/ OthersHold \/ OthersDelete \/ Save \/ ConfirmDelete
    <2>1. page' = page
        BY <1>3 DEF Type, OthersSave, OthersHold, OthersDelete, Save, ConfirmDelete
    <2>2. Types'
        BY <1>3, WorkTypes DEF IInv
    <2> QED BY <1>3, <2>1, <2>2, WorkBegun, WorkNumbered, WorkFresh, WorkOffers DEF IInv
<1>4. CASE \E c \in calls : ServeCall(c) \/ ServePrice(c) \/ Refused(c) \/ ShowRefusal(c) \/ Failed(c) \/ Answered(c)
    <2>1. PICK c \in calls : ServeCall(c) \/ ServePrice(c) \/ Refused(c) \/ ShowRefusal(c) \/ Failed(c) \/ Answered(c)
        BY <1>4
    <2>2. Types' /\ page' = page
        BY <2>1, CallTypes, CallSteps DEF IInv
    <2> QED BY <2>1, <2>2, CallBegun, CallsNumbered, CallFresh, CallOffers DEF IInv
<1>5. CASE UNCHANGED vars
    <2>1. UNCHANGED <<page, grants, record, tab, list, detail, listing, reading, popup, calls, count, mine, doubt>>
        BY <1>5 DEF vars
    <2>2. Types' /\ Begun'
        BY <2>1, TheSamePage DEF IInv, Types, Begun, Known
    <2>3. Numbered'
        BY <2>1, TheSamePage DEF IInv, Numbered, CallNumbered
    <2>4. Fresh'
        BY <2>1, TheSamePage DEF IInv, Fresh, OwnEditsStand, FreshCaches, FreshPopup, FreshCall, Settled, Landed, Keeps,
            KeepsAll, KeepsForm, Known
    <2>5. Offers'
        BY <2>1, TheSamePage DEF IInv, Offers, OfferedCall, LockedInTime, Known
    <2> QED BY <2>1, <2>2, <2>3, <2>4, <2>5 DEF IInv
<1> QED BY <1>1, <1>2, <1>3, <1>4, <1>5 DEF Next

LEMMA Invariance == Spec => []IInv
<1>1. Init => IInv
    BY Initially
<1>2. IInv /\ [Next]_vars => IInv'
    BY NextKeeps
<1> QED BY <1>1, <1>2, PTL DEF Spec

(* However often the record is saved, refused, lost or changed by others,  *)
(* and in whatever order the answers come, nobody is refused what the page *)
(* offered, unless the record changed after it was listed or a program is  *)
(* deleted: the locks and permissions of every page's buttons are the      *)
(* API's.                                                                  *)
THEOREM LockedOut == Spec => []LockedInTime
<1>1. IInv => LockedInTime
    BY DEF IInv, Offers
<1> QED BY <1>1, Invariance, PTL

(* What the user saved is what the server has until they or others change  *)
(* it, on every page whose forms start from a cache that the page's own    *)
(* saves refresh: on all of them but the staffs page, whose form reads the *)
(* users' copy, which nothing refreshes.                                   *)
THEOREM EditsStand == Spec => [](page # "staffs" => OwnEditsStand)
<1>1. IInv => (page # "staffs" => OwnEditsStand)
    BY DEF IInv, Fresh
<1> QED BY <1>1, Invariance, PTL
=============================================================================
