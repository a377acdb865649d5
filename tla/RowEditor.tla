------------------------------ MODULE RowEditor -------------------------------
(***************************************************************************)
(* A cell of a board's row that is edited in place.  The boards have a     *)
(* dozen kinds, and they differ in what a save under way locks.            *)
(* Other staff save the same field meanwhile, and the table is fetched     *)
(* anew.  A request reads its row and saves it in one step here.           *)
(***************************************************************************)
EXTENDS Integers

CONSTANTS
    Cells,       \* the kinds of cell considered
    Values,      \* what may be picked or typed
    Quits,       \* the call remarks that say the candidate quit
    Texts,       \* the reasons that may be typed
    MaxSaves,    \* bound: saves sent
    MaxOthers    \* bound: saves of other staff

None == "none"
Keep == "keep"

Editor(looks, does) == [looks |-> looks, does |-> does]

(* The kinds of cell: a menu, a box, a dialog, or nothing to open.         *)
(*   "waits"   a save under way locks it                                   *)
(*   "resets"  opening it forgets the save under way                       *)
(*   "skips"   what is there already is not saved again                    *)
(*   "clears"  it offers to clear the field                                *)
(*   "asks"    it is about why a candidate quit                            *)
InlineSelect == Editor("menu", {"waits", "skips", "clears"})
CourseCell == InlineSelect
GroupCell == InlineSelect
CategoryCell == InlineSelect
CallRemarkCell == Editor("menu", InlineSelect.does \cup {"asks"})
PaymentPlanCell == Editor("menu", {"waits", "skips"})
BadgeCell == Editor("menu", {"clears"})
WhatsAppCell == Editor("none", {"waits", "skips", "clears"})
BatchCell == Editor("box", {"resets", "clears"})
ScheduleCell == Editor("box", {"resets", "clears"})
RecordingCell == Editor("box", {"resets", "clears"})
PendingReasonCell == Editor("dialog", {"waits", "resets", "skips", "clears"})
QuitReasonCell == Editor("dialog", {"waits", "asks"})

Kinds == [course |-> CourseCell, group |-> GroupCell, category |-> CategoryCell, remark |-> CallRemarkCell,
          plan |-> PaymentPlanCell, badge |-> BadgeCell, whatsapp |-> WhatsAppCell, batch |-> BatchCell,
          schedule |-> ScheduleCell, recording |-> RecordingCell, pending |-> PendingReasonCell, quit |-> QuitReasonCell]

ASSUME CellsAssumption == Cells \subseteq DOMAIN Kinds
ASSUME ValuesAssumption == {None, Keep} \cap (Values \cup Texts) = {} /\ Quits \subseteq Values

VARIABLES
    cell,        \* the kind of cell
    stored,      \* the field as the server holds it, and the quit reason beside it
    row,         \* the row as the table shows it
    fetch,       \* the table's fetch: none, under way, or answered with a row
    editor,      \* the cell's menu, box, popup or dialog
    saves,       \* the requests under way
    watched,     \* the request the cell's mutation shows, 0 after a reset
    count,       \* saves sent, and saves of others
    last         \* what was last saved here, while nothing else has interfered

vars == <<cell, stored, row, fetch, editor, saves, watched, count, last>>

NoReason == [text |-> None, about |-> None]
KeepReason == [text |-> Keep, about |-> Keep]
Closed == [open |-> FALSE, asking |-> None, draft |-> None, reason |-> NoReason]
NoFetch == [phase |-> "none", row |-> [value |-> None, reason |-> NoReason]]

Is(look) == Kinds[cell].looks = look
Does(what) == what \in Kinds[cell].does

(* mutation.isPending: of the request it was started with last, unless the *)
(* mutation was reset since.                                               *)
Busy == \E s \in saves : s.n = watched

-----------------------------------------------------------------------------
(* Opening and closing. *)

(* The reason the dialog starts with. *)
DefaultAlways(asking, at) == at.reason

Default(asking, at) == IF cell = "quit" \/ asking = at.value THEN at.reason ELSE NoReason

MayOpenAnyTime == ~Is("none")

(* A menu's trigger is disabled while its save is under way. *)
MayOpen == ~Is("none") /\ (Is("menu") /\ Does("waits") => ~Busy)

Open ==
    /\ MayOpen /\ ~editor.open /\ editor.asking = None
    /\ editor' = [Closed EXCEPT !.open = TRUE, !.draft = row.value, !.reason = IF cell = "quit" THEN row.reason ELSE NoReason]
    /\ watched' = IF Does("resets") THEN 0 ELSE watched
    /\ UNCHANGED <<cell, stored, row, fetch, saves, count, last>>

(* Escape or a click beside it, also while its save is under way. *)
Close ==
    /\ editor # Closed
    /\ editor' = Closed
    /\ UNCHANGED <<cell, stored, row, fetch, saves, watched, count, last>>

Type(value) ==
    /\ editor.open /\ Does("resets")
    /\ editor' = [editor EXCEPT !.draft = value]
    /\ UNCHANGED <<cell, stored, row, fetch, saves, watched, count, last>>

(* The dialog says which remark it asks about. *)
TypeReason(text) ==
    /\ IF cell = "quit" THEN editor.open ELSE editor.asking # None
    /\ editor' = [editor EXCEPT !.reason = IF text = None THEN NoReason
                                           ELSE [text |-> text, about |-> IF cell = "quit" THEN row.value ELSE editor.asking]]
    /\ UNCHANGED <<cell, stored, row, fetch, saves, watched, count, last>>

-----------------------------------------------------------------------------
(* Saving. *)

Send(value, reason) ==
    LET n == count.saves + 1
    IN  /\ n <= MaxSaves
        /\ count' = [count EXCEPT !.saves = n]
        /\ saves' = saves \cup {[n |-> n, value |-> value, reason |-> reason, phase |-> "sent"]}
        /\ watched' = n
        /\ last' = [value |-> value, reason |-> reason, stands |-> TRUE]
        /\ UNCHANGED <<cell, stored, row, fetch>>

(* Not every field can be cleared: a plan cannot. *)
Offered == Values \cup IF Does("clears") THEN {None} ELSE {}

(* choose: the value there is already is not saved again. *)
PickSame ==
    /\ editor.open /\ Is("menu") /\ Does("skips") /\ row.value \in Offered
    /\ editor' = Closed
    /\ UNCHANGED <<cell, stored, row, fetch, saves, watched, count, last>>

Pick(value) ==
    /\ editor.open /\ Is("menu") /\ Does("skips") /\ value \in Offered \ {row.value}
    /\ ~(Does("asks") /\ value \in Quits)
    /\ editor' = Closed
    /\ Send(value, KeepReason)

(* Nothing is saved before the reason is given. *)
PickQuit(value) ==
    /\ editor.open /\ Is("menu") /\ Does("asks") /\ value \in Quits \ {row.value}
    /\ editor' = [Closed EXCEPT !.asking = value, !.reason = Default(value, row)]
    /\ UNCHANGED <<cell, stored, row, fetch, saves, watched, count, last>>

(* The dropdowns of a Foundation lead close and save whatever is picked.   *)
PickBadge(value) ==
    /\ editor.open /\ Is("menu") /\ ~Does("skips") /\ value \in Offered
    /\ editor' = Closed
    /\ Send(value, KeepReason)

(* The box shows what it saves, and stays disabled until it is answered. *)
Tick(value) ==
    /\ Is("none") /\ ~Busy /\ value \in Offered \ {row.value}
    /\ UNCHANGED editor
    /\ Send(value, KeepReason)

(* Enter saves a box or a popup again while it is being saved; a dialog    *)
(* does not.                                                               *)
MaySave == Does("waits") => ~Busy

SaveDraft ==
    /\ editor.open /\ MaySave
    /\ Does("resets") /\ (Does("skips") => editor.draft # row.value)
    /\ UNCHANGED editor
    /\ Send(editor.draft, KeepReason)

SaveReason ==
    /\ IF cell = "quit" THEN editor.open ELSE editor.asking # None
    /\ MaySave /\ editor.reason.text # None
    /\ UNCHANGED editor
    /\ Send(IF cell = "quit" THEN Keep ELSE editor.asking, editor.reason)

-----------------------------------------------------------------------------
(* The server. *)

(* _resolve_quit_reason: asked of the entry as it will be; a remark moved  *)
(* off quit takes the reason with it.                                      *)
Updated(at, value, reason) ==
    [value |-> IF value = Keep THEN at.value ELSE value, reason |-> IF reason = KeepReason THEN at.reason ELSE reason]

Resolved(at, value, reason) ==
    LET entry == Updated(at, value, reason)
    IN  IF Does("asks") /\ entry.value \notin Quits THEN [entry EXCEPT !.reason = NoReason] ELSE entry

ServeSave(s) ==
    LET saved == Resolved(stored, s.value, s.reason)
    IN  /\ s.phase = "sent"
        /\ (Does("asks") /\ saved.value \in Quits) => saved.reason # NoReason
        /\ stored' = saved
        /\ saves' = (saves \ {s}) \cup {[s EXCEPT !.phase = "ok"]}
        /\ UNCHANGED <<cell, row, fetch, editor, watched, count, last>>

(* Refused, or lost on its way there or back.  The editor stays, with the  *)
(* failure beside it.                                                      *)
Refused(s) ==
    /\ saves' = saves \ {s}
    /\ last' = [last EXCEPT !.stands = FALSE]
    /\ UNCHANGED <<cell, stored, row, fetch, editor, watched, count>>

(* onSuccess: whichever editor is open by now is closed, and the row is    *)
(* fetched anew.                                                           *)
Saved(s) ==
    /\ s.phase = "ok"
    /\ saves' = saves \ {s}
    /\ editor' = IF ~Is("menu") \/ editor.asking # None THEN Closed ELSE editor
    /\ fetch' = [NoFetch EXCEPT !.phase = "sent"]
    /\ UNCHANGED <<cell, stored, row, watched, count, last>>

(* Somebody else saves the field, from a board of their own. *)
OthersSave(value, text) ==
    LET reason == IF Does("asks") /\ value \in Quits THEN [text |-> text, about |-> value] ELSE NoReason
    IN  /\ count.others < MaxOthers
        /\ count' = [count EXCEPT !.others = @ + 1]
        /\ stored' = [value |-> value, reason |-> reason]
        /\ last' = [last EXCEPT !.stands = FALSE]
        /\ UNCHANGED <<cell, row, fetch, editor, saves, watched>>

-----------------------------------------------------------------------------
(* The table behind it: another cell's save has it fetched as well. *)

Refetch ==
    /\ fetch.phase = "none"
    /\ fetch' = [NoFetch EXCEPT !.phase = "sent"]
    /\ UNCHANGED <<cell, stored, row, editor, saves, watched, count, last>>

ServeFetch ==
    /\ fetch.phase = "sent"
    /\ fetch' = [phase |-> "answered", row |-> stored]
    /\ UNCHANGED <<cell, stored, row, editor, saves, watched, count, last>>

(* QuitReasonModal's effect: a default that changed under the open dialog  *)
(* replaces what was typed.                                                *)
TakeFetch ==
    LET asked == (cell = "quit" /\ editor.open) \/ editor.asking # None
        changed == Default(editor.asking, row).text # Default(editor.asking, fetch.row).text
    IN  /\ fetch.phase = "answered"
        /\ row' = fetch.row
        /\ fetch' = NoFetch
        /\ editor' = IF asked /\ changed THEN [editor EXCEPT !.reason = Default(editor.asking, fetch.row)] ELSE editor
        /\ UNCHANGED <<cell, stored, saves, watched, count, last>>

-----------------------------------------------------------------------------
(* An entry may have quit before a reason was asked for. *)
Init ==
    /\ cell \in Cells
    /\ \E value \in Values \cup {None}, text \in Texts \cup {None} :
           /\ stored = [value |-> value, reason |-> IF text = None THEN NoReason ELSE [text |-> text, about |-> value]]
           /\ text # None => Does("asks") /\ value \in Quits
           /\ cell = "quit" => value \in Quits
    /\ row = stored /\ fetch = NoFetch
    /\ editor = Closed /\ saves = {} /\ watched = 0
    /\ count = [saves |-> 0, others |-> 0]
    /\ last = [value |-> Keep, reason |-> KeepReason, stands |-> FALSE]

Next ==
    \/ Open \/ Close \/ PickSame \/ SaveDraft \/ SaveReason
    \/ \E value \in Values \cup {None} : Pick(value) \/ PickQuit(value) \/ PickBadge(value) \/ Tick(value) \/ Type(value)
    \/ \E text \in Texts \cup {None} : TypeReason(text)
    \/ \E s \in saves : ServeSave(s) \/ Refused(s) \/ Saved(s)
    \/ \E value \in Values \cup {None}, text \in Texts : OthersSave(value, text)
    \/ Refetch \/ ServeFetch \/ TakeFetch

Spec == Init /\ [][Next]_vars

-----------------------------------------------------------------------------
(* Properties. *)

(* Cells that never have two saves on their way, which might be served in  *)
(* the other order.  A box and the pending reason may: reopened while a    *)
(* save is under way, their mutation is reset and shows no save.           *)
OneAtATime == Does("waits") /\ ~Does("resets")

(* What was saved last in such a cell is what is stored, and what the row  *)
(* shows once the table is fetched - unless somebody else saved the field  *)
(* since, or a save failed.  A reason for quitting is dropped, though, when*)
(* others took the remark back before.                                     *)
LastSaveStands ==
    last.stands /\ OneAtATime /\ saves = {} =>
        /\ last.value \in {stored.value, Keep}
        /\ last.reason \in {stored.reason, KeepReason} \/ stored.value \notin Quits
        /\ fetch.phase = "none" => row = stored

(* A reason is stored for a remark that says quit only, and the remark's   *)
(* cell stores it for the remark it was written about: neither one typed   *)
(* for another remark nor the one the row carried is taken for it,         *)
(* whatever others save while the dialog is open.                          *)
ReasonForItsRemark ==
    stored.reason # NoReason =>
        /\ stored.value \in Quits
        /\ cell = "remark" => stored.reason.about = stored.value
=============================================================================
