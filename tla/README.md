# HRNAVIN OS: TLA+ models and proofs

HRNAVIN OS (`src/`) is the CRM and student management system of a training
institute: a FastAPI/MongoDB backend (`src/backend/app`), served by four worker
processes (`src/backend/Dockerfile`), and a React frontend (`src/frontend/src`).
This directory holds models of its core logic in TLA+, the TLC runs that check them
on small instances, and TLAPS proofs of what matters most for every size of instance.

Three facts about the program shape every model here.

* **There is no transaction.** Each request is a coroutine of single-document
  reads and writes; between any two of them other requests run, in the same
  process or in another one, and the server may stop.
* **A save writes the whole document as it was read.** `BaseRepository.update`
  (`repositories/base_repository.py:87-94`) sets the changed fields on the object
  in memory and calls `document.save()`. What another request saved since the
  read is lost. Only the few places that call `update_one`/`update_many` with a
  filter are free of this.
* **The frontend works on copies.** A page shows what TanStack Query last fetched,
  seeds its forms from it, and decides from it what to offer. A mutation invalidates
  some of the cached queries when it is answered; fetches, polls and mutations
  overlap, and are served and answered in any order, fail, or lose their answer.

## Inventory

Paths are below `src/backend/app`, or below `src/frontend/src` where they end in
`.js` or `.jsx`.

### Modelled: the backend

**Payment ledger** - `services/payment_ledger.py`, `models/lead.py`, the money
requests of `services/lead_service.py`. State: `Lead.installments`, a list
`[token?] [payment ...] [balance?]` with amounts and a promised date, next to
`payment_plan` and `program_interest`. Operations: assign or switch a plan, move
the course (which may reprice or drop the plan), resubmit the form, record,
correct and delete money, date the balance, convert the old plan slots. Hard: the
fee is not stored, it is read back as the sum of the entries on every change, so
an error anywhere is inherited by everything after it; the old format is
converted by whichever request comes first. Correct when the list keeps the shape
its readers rely on, the sum moves only with the plan, no amount received and no
promised date is lost, and the lead is never charged less than quoted.

**Lead pipeline** - `services/lead_service.py`, the quit and group actions of
`services/batch_confirmation_service.py`, `services/foundation_form_service.py`,
the reset of `services/settings_service.py`. State: one lead's stage, approval,
money, deletion. Operations: some twenty requests, listed below. Hard: they
overlap and overwrite each other, and stages are gated on money that another
request may take off again. Correct when a paid stage always stands on money, a
switch keeps the payments, and the lead is on one of Finance's tabs at a time.

**Batch confirmation** - `services/batch_confirmation_service.py`
(`allocate`, `withdraw`, `confirm_batch`), `services/batch_service.py` (`update`,
`delete`), `models/batch_allocation.py`,
`repositories/batch_allocation_repository.py`. State: batches, seats, students,
admissions. Hard: each request is many database calls, `confirm_batch` a loop of
them that can stop anywhere and is meant to be re-runnable. Correct when a lead
has one live seat, a batch stays within capacity, a confirmed seat has its
student and admission, and a confirmed batch is a locked roster.

**Student enrolment sync** - `services/student_enrollment_service.py`,
`models/student.py`, `services/student_service.py`. State: students, batches
opened for a label, what a running sync has read. Operations: the reconcile run
each time somebody opens the portal, staff edits. Hard: a lock serialises syncs
only within one process; four run; each saves documents it read at its start.
Correct when an undisturbed sync brings students into line with the leads,
a second changes nothing, and the sync does not undo what it must not.

**Induction link** - `services/foundation_form_service.py`,
`services/foundation_group_sync.py`, `services/induction_entry_service.py`, the
lead's edits and deletion in `services/lead_service.py`, `reset_leads` in
`services/settings_service.py`, the number and group backfills of
`database/backfills.py`. State: leads and induction entries, each with a deleted
mark, a normalized number, a class group and a reference to the other. Operations:
submit the form (duplicate check, match by number, late match), create, edit and
delete either, reset, start a process. Hard: the two directions of the link and
the two copies of the group are separate writes, any request may stop between
them, and documents are saved whole. Correct when, after requests that finished one by one,
the directions agree, no entry reads as moved to a lead that is deleted, and a move on one
board has reached the other.

**Induction attendance** - `services/attendance_board_service.py`,
`services/meet_attendance_service.py`, `InductionAttendancePage.jsx`,
`PollFollowUpModal.jsx`. State: an entry's marks (by hand, from a Google Meet call,
from the Foundation board), its poll follow-ups, the linked meetings, and the row
a page shows of it. Operations: mark, follow up, turn to a board or a side of one,
link, sync and unlink a meeting, the background sync. Hard: a mark and a follow-up
save the whole entry as read, the sync and the unlinking write single marks in
steps of their own. Correct when what a user denied stays denied, a call's mark has
its meeting, and a follow-up is of an unselected student.

**Authentication and sessions** - `services/auth_service.py`,
`repositories/refresh_token_repository.py`, `core/dependencies.py`, `apiClient.js`,
`AuthContext.jsx`. State: the stored pair of tokens, which tabs share; each tab's
user, calls and refresh promise; the tokens the API honours. Operations: a call, its
denial, the shared refresh, its two steps at the API (look up, then rotate), sign-in,
sign-out, ending all sessions, a token running out, reloading a page. Hard: calls
denied together share one promise, tabs do not; every answer may be lost. Correct
when the kept token works, nobody is thrown out for nothing, and every call and
every spinner ends.

### Modelled: the frontend

**Lead popup** - `LeadDetailModal.jsx`, `utils/leadPayment.js`. State: its copy of
the lead, the payment cards with their keys and forms, drafts, the open stage
prompt, what shows "Saving...". Operations: record, correct and delete money, assign
a plan, date the balance, move the stage, quit and rejoin. Hard: payments are
addressed by their place in a list that moves, saves overlap, and the popup's own
gates are written apart from the server's. Correct when each card stands for the
payment it shows, the gates let nothing through the server refuses, and no spinner
is left behind.

**Lead boards** - `LeadsPage.jsx`, `InductionLeadsBoard.jsx`,
`usePaginatedQuery.js`. State: view (filters, tab, page), the table's query and the
cards' query. Operations: choose a view, turn a page, edit a row, delete, create a lead
(Foundation).
Hard: fetches join or are dropped, placeholder rows of the former view stay up, an
edit takes a row out of its view, the last row of the last page goes. Correct when
the table settles on a page that has rows, in step with the server, and the cards
with it.

**Row editors** - `LeadRemarksCell.jsx`, `InductionUpdateModal.jsx`,
`QuitReasonModal.jsx` and the cells of both boards. State: a field and its quit
reason at the server, in the row, in the editor. Twelve kinds of cell, each with its
own rules for when it opens, what it resets and when it closes. Correct when what was
saved last stands, and a reason is of the remark it was written about.

**Resource pages and forms** - `ResourceListPage.jsx` and the thirteen pages made of
it with their forms. State: the list's cache, the form's own cached record, the
popup, saves and deletions under way, the user's permissions. Hard: a form overwrites
a whole record it seeded from a cache; what is locked in the client is a second copy
of what the API refuses. Correct when a user's edit is not undone by their own later
one, and nothing is offered only to be refused.

**Menu, routes and notifications** - `constants/navigation.js`, `AppRoutes.jsx`,
`ProtectedRoute.jsx`, `NotificationsPage.jsx`, `NotificationBell.jsx`,
`notificationRouting.js`. State: where the user is, the list and the count of
unread, selections. Hard: four lists of who may go where are kept by hand; the bell
and the page share one cached list and ask for different sizes. Correct when nobody
is sent where they are turned away, and what was deleted stays gone.

### Partly modelled, through the above

**Foundation form** (`services/foundation_form_service.py`, `_pricing.py`,
`_config_service.py`, `_answers.py`): resubmission and what it does to the plan and
the money are actions of `PaymentLedger` and `LeadPipeline`, the match and the link
are `InductionLink`; the answers and the form's configuration are left out.
**Users, roles, departments, batches, courses, programs, tutors, students,
companies, placements, tickets, admissions**: create, read, update and delete of one
document each, as their pages meet the API (`ResourceList`); their own fields are
left out. **Reminders**: a notification arrives in `Notifications`; acknowledging one
is `MoveToFollowUp`. **Settings**: the reset. **Startup backfills**: the ledger
backfill is `ToLedger`, those of numbers and groups are `Boot`; roles, permissions
and approvals are left out.

### Not modelled

* **Student portal and class register** (`student_portal_service.py`,
  `class_attendance_service.py`, `AttendanceRegister.jsx`, `AttendancePage.jsx`): its
  enrolment is `StudentEnrollment`'s. What is left is terms signed while staff edit the
  student, the register's optimistic ticks, and a daily page of local state.
* **Google Sheets** (`lead_sheet_sync_service.py`, `sheet_export_service.py`): I/O
  around a lease of five minutes that a slow run outlives.
* **Payments and invoices** (`payment_service.py`, `invoice_service.py`): an older
  component beside the ledger; each payment is read, added and saved in one request.
* **Reports, dashboards, statistics**: reads and charts. **Storage, audit log,
  deployment**: I/O and configuration.

## Modules

| Module | Models | Uses |
| --- | --- | --- |
| `CollectionShape` | what a change may do to a collection, amounts left out | |
| `PaymentCollection` | the abstract specification: a shape changed one request at a time | `CollectionShape` |
| `Lists` | the entries of a list that match, and what amounts add up to | |
| `PaymentLedger` | the collection with its amounts | refines `PaymentCollection`; `Lists` |
| `LeadPipeline` | one lead, all its requests, overlapping | `CollectionShape` |
| `LeadPopup` | one lead in the popup, its requests and the server's checks | `Lists` |
| `LeadTable` | the paginated table and the cards of both boards | |
| `RowEditor` | one cell edited in place | |
| `BatchConfirmation` | allocate, withdraw, confirm, edit a batch, one database call a step | |
| `StudentEnrollment` | the sync, in several processes | |
| `InductionLink` | a student as entry and as lead, one database call a step | |
| `AttendanceBoard` | one entry's marks, meetings and the page that shows it | |
| `Session` | tabs, the stored pair and the API's tokens | |
| `Navigation` | menu, routes, guards and landing page, as operators | |
| `Notifications` | bell and page, and where a notification leads | `Navigation` |
| `ResourceList` | a list page, its forms and the API behind it | |
| `CollectionProofs` | theorems about `PaymentLedger`, its refinement of `PaymentCollection`, `LeadPipeline` and `LeadPopup` | `PaymentLedger`, `LeadPipeline`, `LeadPopup`, `TLAPS` |
| `InductionProofs` | theorems about `InductionLink` and `AttendanceBoard` | `InductionLink`, `AttendanceBoard`, `TLAPS` |
| `BoardProofs` | theorems about `RowEditor` and `LeadTable` | `RowEditor`, `LeadTable`, `TLAPS` |
| `<M>Proofs` | theorems about `<M>`: `BatchConfirmation`, `StudentEnrollment`, `Session`, `Notifications`, `ResourceList` | `<M>`, `TLAPS` |
| `MC<M>` | the instance of `<M>` TLC checks, where a `.cfg` alone cannot give it | `<M>` |

`CollectionShape` is where the amounts and the interleavings meet. `PaymentLedger`
has the amounts and runs one request at a time; `LeadPipeline` interleaves the
requests and knows a collection only by its shape. `ImplementsCollection` says
that every step of the first is a step the second allows, so the second leaves
out nothing the ledger can do; TLC checks it and `CollectionProofs` proves it.

The components meet in three other places. A lead is in `LeadPipeline` (its requests
against each other), `LeadPopup` (one user's requests against their own copy),
`LeadTable` (many leads against a page of them) and `RowEditor` (one field of it).
`InductionLink` has the pair of a lead and an entry, of which `AttendanceBoard` takes
only whether the lead is there. `Notifications` runs on `Navigation`'s routes.

### How state and actions correspond to the code

**`PaymentLedger`.** `entries` is `Lead.installments`; an entry keeps its kind,
amount, received amount, paid flag and date, and `evidence` stands for the mode
and the proofs that make an unpaid slot's part-payment count. `At` is a list
comprehension with a condition and `Total` a `sum`. `DearestPlan`, the highest fee
on the price list, bounds what is offered to a request as an amount. `quoted` is a
history variable: the fee last priced. `Rebalance`, `ToLedger`, `FeeOf`,
`ReceivedOf`, `Collected` are the functions of the same names; each request is an
action of the name of its method, `record_payment` being `RecordMoney` (a new
entry) and `CorrectMoney` (an index given). Its specification is `LedgerSpec`
(`LedgerInit`, `LedgerNext`), and `assign_plan` and the form sent again are
`AssignPlanTo` and `ResubmitFor`, so that one proof module can extend this module and
`LeadPipeline`. QR accounts, files, modes, remarks and labels are left out.

**`LeadPipeline`.** `lead` is the stored document, `loaded[w]` what the overtaken
request `w` has read. `Load(w)` is the read; each action `A(w)` is the rest of the
request: it computes what to save from the document *read* and replaces the
stored one whole. The request `Now` reads and saves with nothing in between, so
any number of unlucky requests is `Workers` and everything else is `Now`.
`Reset` is the one `update_many`. `paid` is the single amount leads had before
instalments; `wasPaid` is history. Not in the document: the lost reason, dates
(joined, group assigned, promised), `reviewed`, remarks, follow-ups, section and
owner; the requests that change only those are `Touch`.

**`BatchConfirmation`.** `requests[r]` is where request `r` stands and the
documents it holds; an action is one database call with what the code decides on
its result. `Crash` ends a request between any two. Seats are in the order they
were created, which is the order `list_for_batch` sorts by. The tutor, start date
and email checks of the readiness list are taken as given; capacity, minimum and
paid fees are checked. A request keeps the batch as it read it, capacity included, and
`ConfirmSaveBatch` puts that back (`Locked`). `Update` is the Batches page: any status,
whose later values are one, any capacity of `Capacities`, or a deletion. Two are
history: `byHand`, the batches whose status was set there, and `met`, whether two requests
have met (`Apart` says where they must not).

**`StudentEnrollment`.** `syncs[p]` is the sync running in process `p` with the
documents it has read, at the granularity of one read of a collection or one
save; `Crash` ends it between any two. `leads[l]` is what a lead at the stage shows, its batch and its address; the
sync never reads one that is not there. The read of the leads, their labels and
the opening of batches are one step: a batch, once opened, stays. `alone`
remembers whether anything changed while the sync ran and `settled` whether an
undisturbed one has ended since the last change; `by` on a student remembers who
set the status. These three are history. Names, admission dates, tokens and
audit entries are left out.

**`InductionLink`.** `leads` and `entries` are the two collections in the order of
creation, so "most recent" is the greatest id; which of two entries registered
last is left open, as their dates are not kept. `requests[r]` is where request `r`
stands (`at`, named for the call it makes next) and the documents it holds.
`Submit`, `Create`, `EditLead` (`update`, `review`, `assign`, and any other save of
a lead), `EditEntry`, `Delete`, `Reset` and `Boot` are the requests; `Crash` ends one
anywhere. A lead may be created without a number: the import from Google Sheets
does (`google_sheets_service.py:274`). The match key is kept and the phone it was
made from is not, so an edit and a backfill may give any. The scan for missing
numbers over both collections is one step. Section and owner, which a lead
inherits from its entry, are left out, and so are the group's history, batches,
call pages and reasons. `disturbed` remembers that two requests overlapped or that
one stopped with the other half of something unwritten; `apart` holds the leads
whose group differed from their entry's when the two were linked, or filled in at a
restart, until somebody moves one of them. Both are history.

**`LeadPopup`.** `stored` is the server's lead, `view` the popup's React state (`live` is
its copy of the lead, `forms` the entry each saved card was filled from, `saving` the
card that shows the spinner, `prompt` the open stage prompt), `calls` the requests in
the order they were sent. A request is pressed (`Press...`), served, and answered or
lost, each a step of its own; a stage move or a follow-up answered after its popup was closed
closes the one open by then (`StillCloses`). The fee and the amounts are small numbers and the
balance's date is a flag. `disturbed` is history: somebody else moved the payments, or
answers came out of order.

**`LeadTable`.** An entry of the Induction board is called a lead here too. `view` is
what the user asks for, `list` the query of that view with its fetch, `former` that of
the view left last, whose rows stay up as a placeholder; `cards` is the Induction
cards' query, which has a key and a fetch of its own: either may be answered first. A fetch
is sent, served from the leads of that moment, then taken or dropped - unless it is the first
of its key, which an invalidation leaves to finish. What the Foundation cards show is left
out (an edit in a row leaves them as they were), and so is how entries come to the Induction
board, through the public form; leads are created on the Foundation board (`Create`). What
the cache kept of views before the former one is left out. `excused` goes with rows, and
with counts, that somebody else has changed, or that an answer lost or overtaken left behind.

**`RowEditor`.** `stored` is the field and the quit reason beside it, `row` the row
shown, `editor` the menu, box or dialog; `Kinds` says of each kind of cell what its
component does. A request reads its row and saves it in one step. `last` is history:
what was last saved here, and whether anything else has interfered since.

**`AttendanceBoard`.** `entry.marks[b]` is the mark of board `b` with where it came
from; a mark by hand and a follow-up read the entry and save it whole later, by the
user of the page or by others. A sync reads its meeting, writes its mark with the
code's filter (never over one made by hand), and saves the meeting; it may stop between
any two. Unlinking takes the meeting's marks off, then deletes the meeting. One student is enough: no request here writes two entries
that depend on each other. `corrected` and `mixed` are history: the boards on which the
user denied what the data said (until it is marked anew, or a whole save puts an older mark
back), and the meetings whose unlinking was overlapped.

**`Session`.** Pair `n` is the refresh token `n` and its access token. `stored` is
localStorage, which all tabs share; `live` and `fresh` are the tokens the API still
takes. `calls[t][s]` holds the pair a call was sent with and whether it has been
retried. The refresh is `Join` (the interceptor), `LookUp` and `Rotate` (the two
database calls), `Resume` or `ThrowOut` (the promise's handlers). `excused` is history:
a sign-out, ended sessions, a lost answer, or two tabs refreshing one pair.

**`Navigation`, `Notifications`.** A user is a role, a scope and a set of granted codes.
`list` and `badge` are the two cached queries; what the panel and the page each select
is their own. `Arrives` and `Elsewhere` are the outside world: a report of
non-payment is addressed by a code, `batch_confirmation.allocate`, every other notification
by a section, an owner or a name, so anybody may get one, and some lead to no page. `gone` is history: what
this tab was told is deleted, with the list on show.

**`ResourceList`.** One record, its two parts standing for "what was edited now" and
"what was edited before". `list` and `detail` are the caches, with the fetch of each.
`Screens` says of each page which permission each button needs and what its form is
seeded from; `Api` what the routes ask for. `mine` is history, what the user last saved
of each part; `doubt` excuses a failure, a popup closed with its save under way, and a
program's save answered while another, or a fetch of the prices, is.

## Runs

Deadlock is not checked where a bound may stop the model: seats, calls, views and
payments are capped. All twelve runs expect no violation.

| Run | Shows | Bounds |
| --- | --- | --- |
| `payment_ledger` | in any order of requests: the list keeps its shape, fees move only with the plan, nothing is undercharged, money and promised dates survive, and the abstract collection is implemented | 2 programs and 2 plans at fees 2 and 3, one combination not offered; 2 dates; old leads of one or two slots |
| `lead_pipeline` | the gates hold whatever the overlap | 1 overtaken request, any number of others between; 2 payments |
| `lead_popup` | the cards stand for their payments, the popup's gates are as strict as the server's, no spinner is left behind | fee 2, amounts 1 and 2, moves to Token Amount and Lost, 2 requests, 1 change by others, 2 drafts |
| `lead_table` | the table settles on a page that has rows, in step with the server and the Induction cards with it | both boards, a scoped and an unscoped user, 2 leads of which 1 is linked and 1 may be created during the run, pages of 1, 2 views chosen, 2 requests or changes |
| `row_editor` | what was saved last stands, a reason is of its remark | all 12 cells, a remark and two that quit, 2 texts, 2 saves, 1 by others |
| `batch_confirmation` | a confirmed seat is enrolled, through crashes, reruns and edits of the batch; until two requests meet, one live seat per lead, capacity, a locked roster | 2 requests, 2 leads with one address, 1 of them changing, a batch for 1 edited to 2, minimum 1, 2 seats, 2 admissions |
| `student_enrollment` | an undisturbed sync brings students into line, a second one changes nothing, completed stays completed | 2 processes, whose syncs may stop anywhere; 2 leads, each with the one address or with none, and 2 labels; 2 changes by people |
| `induction_link` | both directions of the link agree, a finished delete leaves no entry on neither board, a move reaches the other board, a submission leaves no matching entry behind, through crashes (excused where they leave half of a write undone) and restarts | 1 request at a time, 2 leads, 2 entries, 1 number, 2 groups (symmetric), 1 edit by people |
| `attendance_board` | a denial stands, a call's mark has its meeting, a follow-up is of an unselected student | the polls and the foundation class, 1 meeting, 2 marks or follow-ups, 2 turns, 2 links, syncs or unlinkings |
| `session` | the kept token works, nobody is thrown out but for a named cause, every call and every spinner ends | 2 tabs, one worked in, 2 calls each, 1 access token running out, 2 pairs before the last thing done |
| `notifications` | nobody who has a page is turned away, but by a notification about a page they may not open; deleted notifications stay gone | five users: a section's admin, a coordinator who owns a lead, an accountant, one who may allocate and not see the batches, one with no page; 2 notifications of each user's one or two kinds, the bell asking for 1 and the page for 2; 1 request under way, one notification also handled elsewhere |
| `resource_list` | the user's own edits stand, nothing is offered to be refused | 12 pages, 2 values, 2 popups, 2 requests, 1 change by others, 1 fault, 1 missing permission |

Why the bounds are enough to meet the interesting cases:

* Fees 2 and 3 make a switch to a cheaper plan possible after money beyond its
  fee was taken, and let the rest be paid in one entry or several; two old slots
  give every mix of paid, part-paid and untouched.
* One overtaken request already puts every pair of requests in every order, with
  any number of complete requests in between. More workers are covered by proof.
* Two requests from the popup are two overlapping saves, or a save and the deletion
  that renumbers it; one change by others makes any of them stale. A fee of 2 with
  amounts 1 and 2 leaves a balance or none, and an amount too large.
* Two leads on pages of one are a last page with one row, a page emptied by a deletion,
  an edit or a filter, and a row that returns; two views are one left with its fetch
  under way.
* Two saves of a cell overlap, or one is made from a row the other has not reached yet;
  two remarks that quit let a reason meet the wrong one.
* Two leads compete for the one place of a batch, or make a roster of two when its
  capacity is raised; a second seat lets one of them withdraw and come back; a second
  admission is what a rerun makes. Two requests are a withdrawal beside a confirmation,
  or two allocations that meet or do not. With one address between them the second
  seat finds the first one's student, or is refused when it has been deleted.
* Two processes and two leads, of one person or of two, give the duplicate keys on
  the lead and on the address, the student found by address, and the move from one
  lead to another. With two changes a lead can leave and come back, or leave while
  staff edit its student.
* Two leads and two entries with one number between them are the late match, the
  number registered twice, the lead that takes over the entry of a deleted one, and
  the pair of leads a corrected number makes. Requests do not
  overlap in this run: `LinksAgree`, `OnOneBoard`, `MovesTogether` and
  `SubmissionLinks` are not promised where they do, and `PointsAtARealLead`, which
  is, is proved for any number of them.
* Two steps with a meeting are a sync overtaken by its unlinking, and a link made again;
  the polls have follow-ups and no calls, the foundation class calls and the automatic
  answer. Any number of these is covered by proof.
* Two calls in a tab share its refresh, a call denied late refreshes a fresh pair, a
  second tab comes with the old pair. Invariants hold for any number by proof; only
  the liveness depends on the instance.
* Two notifications with a bell of one and a page of two tell the two sizes apart, and
  one unread from one deleted.
* Two popups and two saves are an edit and a second one seeded before or after the first
  is answered, with one change by others in between.

Larger instances of `LeadPopup`, `LeadTable`, `RowEditor`, `Notifications`,
`AttendanceBoard` and `ResourceList` (one or two more of each bound) were simulated at
random for longer than the runs take, without a violation.

`OneLiveSeatPerLead`, `WithinCapacity` and `RosterLocked` hold until two requests meet
(`met`); after that each of them fails in its own way, as below: a seat, a count or
a status is read, and the write comes later.

`LastSaveStands` speaks of the cells that lock while they save; `OwnEditsStand` leaves
the Staffs page out, and `InductionCardsAgree` the Foundation board and a first count answered late. Of the
three, what is left out is false (below).

### Fairness

Only `Session` states any. `WF(Load)`: a mounted page runs its effect.
`WF(LookUp \/ Rotate \/ Resume \/ ThrowOut)`, for each tab: the API answers a refresh, or
the network gives it up (`LoseRefresh` competes with it), and the promise's handlers run. `WF(Answered \/
Join \/ NothingToRefresh)`, for each call: the same of a call. Nothing is assumed of the
user, of tokens running out or of sessions ending. Under it `CallsSettle` (no call is
left waiting for a refresh that has come and gone) and `LoadingEnds` (no page shows its
spinner for ever) hold. The other modules are checked for safety: a request there is made by a
person, a sync runs when somebody opens the portal, and the code promises nothing.

### Divergences met while modelling

The following are statements of the code's own comments. Each is a definition in its
module, without the exception it names, or with one constant changed, that TLC refutes; no run lists it.

* **Balance after a cheaper plan** (`BalanceIsWhatThePlanLeaves` in `PaymentLedger`).
  `payment_ledger.py:14-15` says the balance is `fee - received`, so the amounts
  always add up to the fee. The fee is read back from the amounts. Once a switch has
  left more received than the plan costs, correcting or deleting a payment leaves a
  balance measured against the old payments.
* **Lost payment on a plan switch** (`SwitchKeepsPayments` in `LeadPipeline`).
  `assign_plan` reads the lead, awaits the form configuration and the program, and saves
  the whole document: a payment recorded in between is gone, against
  `lead_service.py:1314`.
* **Both Finance tabs** (`FinanceTabsDisjoint` in `LeadPipeline`). `update` clears the
  approval when a lead goes back for approval (`lead_service.py:974-980`); `review` takes
  the same body and does not.
* **Admitted twice** (`AdmittedOnce` in `BatchConfirmation`). `confirm_batch` inserts the
  admission before it saves the seat; stopped between the two, its rerun inserts another,
  against `batch_confirmation_service.py:836-837`.
* **Two live seats** (`OneLiveSeatPerLead` once two requests `met`). `allocate` checks
  and inserts in separate calls, and no index backs the rule of
  `models/batch_allocation.py:37`.
* **A full batch takes one more** (`WithinCapacity` once two `met`). The count and the
  insert are separate calls too, so of two requests for the last seat both get one,
  against `tests/test_batch_confirmation.py:226`, which sends one after the other.
* **A drop by hand undone** (`StaffDropStands` in `StudentEnrollment`). `lead_left_at` is
  not cleared when staff set a status, so after a portal drop, a staff reactivation and a
  staff drop, the lead's return makes the student active again, against
  `models/student.py:61-63`. It takes 1 process, 1 lead and 5 changes.
* **Two groups for one student** (`OneGroup` in `InductionLink`). A late match keeps the
  lead's own group (`foundation_form_service.py:226-230`, on purpose) and leaves the
  entry's, so the pair is linked in two classes; `foundation_group_sync.py:1-11` says why
  it should be in one. A restart can do it too: it fills a missing group by each
  collection's own date. `MovesTogether` is the promise that does hold.
* **Sent to a page they cannot open** (`NeverTurnedAway` without `OpensMisaddressed`).
  A coordinator who may allocate batches and not view them is sent the report of
  non-payment (`lead_service.py:1658-1676`) and, opening it, to a 403; so is a user without
  `leads.view` who owns a lead or set its follow-up (`reminder_service.py:93-118`).
  `notificationRouting.js:3-6` chose the destination so as not to "land them on a page they cannot
  open".
* **An edit on the Staffs page undoes the one before it** (`OwnEditsStand` with `"staffs"`
  in `Pages`). Its form reads `['users', 'detail', id]` and its save invalidates
  `['staffs']`: a second edit within the cache's five minutes is seeded from before the
  first and writes it back. `UserFormModal.jsx:497` says "Always the latest: the form is about to overwrite
  whatever it loads", and the form is drawn before the refetch is answered.

Met on the way, and within what the properties excuse:

* `InductionLink`: a delete stopped after it marked the lead and before it released the
  entries (`lead_service.py:1954`) leaves them converted to a lead that is gone; a group move
  stopped between the two sides leaves them apart; requests that overlap may do either.
* `LeadPopup`: TanStack Query calls a mutation's per-call `onSuccess` only for the latest
  call, so of two overlapping saves the first leaves its draft beside the saved payment.
  A save whose answer is lost after it was applied is entered again by a retry. A stage
  move closes the popup with drafts unsaved, and one answered after its popup was closed
  closes whichever popup is open by then (`LeadsPage.jsx:661`, `LeadDetailModal.jsx:1500`). `getEmiPaymentHealth`'s "lost_eligible"
  cannot be reached (`leadPayment.js:124-147`).
* `LeadTable`: a remark's answer patches the row with the lead as it was served
  (`LeadRemarksCell.jsx:211`); edits in a row of the Foundation board leave its cards as they
  were; the first count of a filter, like the first rows of a
  view, is not dropped by an edit, so answered late it shows the number from before it until
  something else is edited (`InductionLeadsBoard.jsx:399`); a deletion's success closes whichever dialog is open by then.
* `RowEditor`: a box or a pending reason closed and reopened with its save under way may
  have two saves served in the other order, and the first one's answer closes the reopened
  editor. A refetch replaces a half-typed quit reason (`QuitReasonModal.jsx:23-28`).
* `ResourceList`: a role's form overwrites what changed since its row was listed; the
  programs' form saves the whole pricing document from its cache, where of two saves the
  one answered last stays, whichever was saved last; deleting a program that leads chose is
  offered and refused.
* `Session`: two tabs with one expired access token send one refresh token, and the
  loser signs both out. A refresh that is answered after a sign-out stores its pair again. A
  lost network at load clears the tokens. A refresh between its two database calls
  outlives "end all sessions" (`auth_service.py:97`, `:131`).
* `AttendanceBoard`: a mark or a follow-up, saved whole, undoes another user's mark; a sync
  overlapping an unlinking leaves marks of a meeting that is gone.

## Proofs

The proofs assume only the `ASSUME`s of the modules: the sets of workers, leads,
batches, emails, tabs, calls, users, meetings and values are arbitrary, as are
capacities and every bound, so the bounds of the runs play no part.

**`CollectionProofs`** proves `LedgerShape`, `NeverUndercharged`,
`FeeMovesOnlyWithPlan`, `PlanKeepsMoney` and `PromiseKept`, and that `PaymentLedger`
implements `PaymentCollection` (`ImplementsCollection`), for any programs, plans,
prices and dates, old slots of any amounts that hold no more than they are for, and
lists of any length.

- *Lists.* What a list adds up to, and which entries of it are picked, are recursive
  functions. What they do to an appended and to a concatenated list follows by induction
  over prefixes: the set of prefixes for which a fact fails would have a least member
  (`WFMin`; the library's induction theorems, which take an operator, are not needed).
- *A collection as two parts.* `Holds(es, ms, rest)`: read by `ToLedger`, the entries
  `es` are the money `ms`, token first, followed by what is due, `rest`, at most one
  balance. `AsLedger` shows that every collection holds some `ms` and `rest`, old plan
  slots included: a slot's money becomes a payment, and since no slot holds more than it
  is for, what is not collected becomes the balance and nothing is lost in the sum.
- *Requests on the two parts.* Each request is then an operation on `ms` with a balance
  computed anew: money appended or put first (`Taken`), replaced (`CorrectedAt`), taken out
  (`Removed`), or left as it is (`PricedAnew`, `BalanceDated`). `RebalancedHolds` says
  once what rebalancing gives: the same money, the fee or the money if that is more,
  and the date unless nothing is due.
- *The invariant.* `LedgerInv` adds to the properties only that a collection is a ledger
  or old slots (`Opened`, `Slotted`), that nothing is on it without a plan, and
  the sum. The refinement is one case a request: each lemma about a request also
  names the change of `CollectionShape` it makes.

Of `LeadPipeline` it proves `TypeOK`, `TokenStageHasToken`,
`PaidStageHasMoney` and `EveryCopySound` for any number of overlapping requests
and of payments. The two gates are not inductive: an overtaken request puts back
a document from the past, so what the stored document satisfies now says nothing
about it. The strengthening is about documents rather than interleavings:
*every* copy, stored or in hand, is `Sound`. Soundness adds to the two gates that a
collection holds entries only under a plan and that a plan nobody has paid against
is owed in full, which is why the code may read its gate off the first entry.
One lemma per request shows that it takes a sound document to sound documents;
one lemma per change of the collection shows what it keeps. The rest is that a
save replaces a document by one of these.

Of `LeadPopup` it proves `RefusedOnlyIfStale`, `SavingIsUnderWay` and
`CardsShowTheirEntries`, for any fee and amounts and any number of requests, drafts and
changes by others. None is inductive. `PopupSound` relates the lead, what is shown and the
calls:

- The copy shown, the copy an answer brings and the revision an open stage prompt was
  worked out from are the lead's or older (`CopyOf`), and a request on its way is one the
  server takes if its base is still the lead's revision (`CallSound`). The popup's checks
  imply the server's on the same lead, press by press (`SaveLetThrough`,
  `StageLetThrough`); any change of the lead makes every base an older one
  (`CallsOutdated`).
- A popup not disturbed has its waiting answers ahead of it by revision (`InOrder`).
  From what is shown to an answer, and from an answer to a later one or to the lead,
  the payments stay the first ones in their order unless a deletion is among the answers
  between, and the token's form unless a recorded token is (`LeadsTo`). The relation
  composes, so a request served adds a last link (`OrderServed`) and the first answer
  taken drops one (`OrderTaken`): taken with the same keys it moves no card
  (`FirstAnswer`), and a deletion takes new keys. What a correction, a recording and a
  removal do to the places of the payments is induction on the list once more
  (`OfKindAlike`, `OfKindConcat`, `SumWithout`).
- The spinner stays for a call that every other step leaves alone: an alteration of a
  call keeps its card unless it deletes (`Kin`).

**`BatchConfirmationProofs`** proves `TypeOK` and `ConfirmedSeatIsEnrolled` for any
number of overlapping allocations, withdrawals, confirmations and updates and any
crashes. The invariant adds what a request in progress may rely on (`Progress`): the seat a
withdrawal holds is one of the seats and had no student when it was read, the
roster of a confirmation is made of seats of its batch, and past each save the
student, then the admission, is there. `Steady` names what no step of another
request can undo - seats are only added, keep their lead and batch, students and
admissions never go back to none - and `OthersKeep` derives from it, once, that a
step of one request keeps every other request's `Progress`.
It also proves `OneLiveSeatPerLead`, `WithinCapacity` and `RosterLocked`, which no
transaction and no index backs, for any number of requests at once, until two of them
meet: that is, while no two allocations for one lead are both past the check of its
seat, no two to one batch both past the count, none is to a batch under confirmation, no
withdrawal is of a seat a confirmation is about to save, and no update is of a batch
that is being allocated to, confirmed or updated (`Apart`). Anything else may overlap,
and stop anywhere. What a request has found out and not yet acted on is `Standing` (no
seat for the lead, a place left, a roster that is all there is), and `Apart` is what
keeps it true until the write. `WithinCapacity` is about what a step adds: a capacity
may be lowered below what is taken. `OneAtATime` shows that requests one at a time never
meet.

**`InductionProofs`** proves of `InductionLink` `TypeOK` and `PointsAtARealLead` for any number of
submissions, edits, deletes, resets and restarts that overlap in any way and stop
anywhere. Since documents are saved whole, what a request holds may come back at any
time; the invariant (`IInv`) says of every link, in a stored document or in a held
one, that it is to a document that exists (`Sound`), and in which places of a request
it holds what. One lemma per request cites one per kind of step (a read, a save
of leads, a save of entries, an insert).
That the two directions *agree* (`LinksAgree`), that a delete that finished leaves no
entry pointing at its lead, on neither board (`OnOneBoard`), that a pair moves together (`MovesTogether`) and that a submission
links what matches (`SubmissionLinks`) is false with overlapping requests, and with one
cut short between its two writes - a delete stopped before it releases its entries strands
them for good (`lead_service.py:1954`). So these are of a system that was not `disturbed`:
requests followed one another and none stopped with half of what it began unwritten. Half-way through a request the two sides do differ. The invariant
(`Undisturbed`) therefore looks ahead: `LeadsToBe`, `EntriesToBe` and `ApartToBe` are what
the collections will hold once the request has written the other half of what it began,
and it is these that are `Linked` and `Together` at every step.

Of `AttendanceBoard` it proves `CorrectionStays`, `MarksHaveMeetings` and
`FollowedUpUnselected` for any meetings, marks, follow-ups, syncs and unlinkings. The
invariant says of the entry that what is denied carries a no by hand (`Denied`), which the
sync's filter passes over; of the entry a request holds, that a follow-up was allowed on
it (`CallsSound`), which is what it saves back; and of a meeting on its way out that its
marks are gone and no sync is still writing one, unless it is `mixed` (`Leaving`).

**`SessionProofs`** proves `TypeOK`, `StoredPairWorks` and `ThrownOutFairly` for any
number of tabs, calls and pairs. That the stored token works is not inductive: the
successor a refresh carries in hand is stored later, and another tab's refresh could
use it up before. The invariant keeps the pairs in hand apart: no two refreshes use
(`UsesApart`) or give (`GivesApart`) one pair, what a refresh gives is live and not
stored yet (`InHandIsLive`), and the stored pair is live or being replaced - all unless
`excused`. Two tabs refreshing one pair set `excused` at the step that makes it so.

**`NotificationsProofs`** proves `NeverTurnedAway` for every set of users, with any
role, scope and codes, and for notifications sent to any of them. The core
is `ListsAgree`, entry by entry: whatever the menu or the landing page
names, the guards open under the same condition. A notification's page asks for one code
(`PageCode`), which its user may lack (`Misaddressed`); no other step takes a user anywhere else.
It also proves `DeletedStaysGone` for any number of notifications and of requests, fetches and
polls that cross. `GoneInv` says that what is picked, and what is being deleted, comes from a list
that is known; that what has gone is no longer kept on the server; and that an answer on its way
to a list, and a list with no fetch under way that has not failed, have none of it. A known list is fetched anew
after every deletion, which is what makes the last part inductive.

**`BoardProofs`** proves `ReasonForItsRemark` and `LastSaveStands` for any values,
texts and number of saves. A pair of value and reason moves from the server through a
fetch to the row, from the row into the dialog, and from there into a request; `Honest`
says of each of these places what the property says of the first. `Single` says that a
cell that locks has one request at most, and `Lasts` carries what was saved last through
request, server, fetch and row.
It also proves `NoEmptyPage`, `InStep` and `InductionCardsAgree` for any leads, page size and
number of views, edits and requests. The rows of a table come from a fetch, and for a moment from
the fetch of the view before it, so `TableInv` says of both queries what they may bring
(`AnswerSound`): a page of *some* set of leads, and of the leads as they are when nothing
has overtaken it. `RowsSound` says the same of the rows shown. Both except the changes the server has made
and the table has not been told of (`Landing`): every one of these ends in a new fetch, which is why
the exception goes again. The cards' fetch is followed in the same way (`CountSound`), apart from the table's.
That a page within the total has a row is counting (`Ranks`): every number
of leads below the total comes before exactly one of them.

**`StudentEnrollmentProofs`** proves `TypeOK` (one student to a lead and to an address,
deleted ones counted) and `CompletedStaysCompleted` for any processes, leads, batches,
addresses and changes, with syncs that overlap and stop anywhere. Every save writes a
document read earlier, so the invariant is about the documents in hand (`Held`): each is
of a student that still has that address and names an open batch, and who is in hand as
a leaver was active or on hold. `Grown` names what no step undoes - nobody is unmade, no
address changes, no batch closes - and `StillHeld` derives from it that others keep what
is held. That two students do not share a lead rests on the check each save makes, the
unique index; `Stays` is what every step, of a sync or of staff, leaves behind.
It also proves `InLineWithLeads` and `SyncedOnceIsEnough`. `Undisturbed` says of a sync that nobody
else's write has met that what it has in hand is what is on record but for its own writes, and
that the leads it is through with are in line (`Knows`, place by place of the sync); a
student it moves from one lead to another of the same person leaves neither out of line.
In line, each place has nothing to write, so the second sync ends as it began.

**`ResourceListProofs`** proves `LockedInTime` on all thirteen pages, and `OwnEditsStand` on
all but the Staffs page, for any permissions, popups, requests, failures and changes by others.
A form sends back all it was started from, and what was saved last is in several places at once:
`Fresh` says which of them a form may still start from. A cache counts with no fetch of it under
way, no edit saved but unanswered (`Settled`), and no `doubt`; a form or a save counts if its
popup was opened with nothing under way and no other save was sent since (`sure`). `Numbered` ties a
call to the popup it came from, so that its answer closes that one and refreshes the copy the
form reads; `Begun` is the time before there is a record. `Offers` compares two lists kept by
hand: for each page, the permission and lock of a button are those of its route. Attempting this
proof corrected the model twice: what the department's form starts from when its fetch fails, and
the crossing answers of two saves of a program, which the run's bounds are one popup too small to reach.

Only model-checked: `Session`'s liveness (`CallsSettle`, `LoadingEnds`), which like every
property under fairness is beyond the provers.

## Plan

1. Core: the ledger, the pipeline, the seats, the sync, the induction link, and
   their theorems (done).
2. Sessions with liveness, attendance, the boards, the popup, the cells, the list pages,
   the menu and the notifications, with the theorems of five of them (done).
3. Left to model: the portal's terms signature and register, the lease of the sheet
   export, invoices against concurrent payments, the remaining backfills.
4. Theorems of every property the runs check, the refinement included, but for the two
   that need fairness (done).
