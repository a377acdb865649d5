---------------------------- MODULE AttendanceBoard ----------------------------
(***************************************************************************)
(* One student on the induction attendance boards: what is marked of them  *)
(* by hand, what the Google Meet audit log says, and what is taken from    *)
(* the Foundation board.  Staff mark and follow up (InductionAttendancePage*)
(* and PollFollowUpModal, attendance_board_service), link, sync and unlink *)
(* meetings (MeetSyncModal, meet_attendance_service), and a background     *)
(* loop syncs them as well.  A mark and a follow-up read the whole entry   *)
(* and save it whole later; the sync and unlinking write single marks.     *)
(***************************************************************************)
EXTENDS Integers

CONSTANTS
    Boards,      \* the boards considered: "terms", "polls", "success_meet", "foundation_class"
    MeetingOf,   \* the board of each meeting that may be linked
    Sides,       \* bound: the sides of a board turned to
    OthersMarks, \* bound: what others mark
    MaxCalls,    \* bound: marks and follow-ups sent, by the user and by others
    MaxTurns,    \* bound: boards and sides turned to, and popups opened
    MaxMeets     \* bound: meetings linked, synced and unlinked

NoValue == "none"
Meetings == DOMAIN MeetingOf
MeetMarkers == {"success_meet", "foundation_class"}

ASSUME MeetingAssumption == \A s \in Meetings : MeetingOf[s] \in Boards \cap MeetMarkers
ASSUME SidesAssumption == Sides \subseteq {"all", "yes", "no", "elsewhere"} /\ OthersMarks \subseteq {"yes", "no", NoValue}
ASSUME NoMeetingAssumption == NoValue \notin Meetings

VARIABLES
    entry,       \* the induction entry: its marks, how often it was followed up, its Foundation link
    linked,      \* the meetings linked
    logged,      \* the meetings whose audit log has the student long enough in the call
    page,        \* the board open, the side of it shown, and the follow-up popup
    row,         \* the student's row on it: the entry as last fetched, or none
    asked,       \* whether it is being fetched
    calls,       \* marks and follow-ups under way
    syncs,       \* syncs under way
    unlinks,     \* unlinkings under way
    count,       \* what was sent so far
    corrected,   \* the boards on which the user took back what the data said
    mixed        \* the meetings synced, or entries saved over, while they were unlinked

boardVars == <<entry, linked, logged, page, row, asked, calls, syncs, unlinks, count, corrected, mixed>>

NoMark == [marked |-> NoValue, origin |-> NoValue, meeting |-> NoValue]
ByHand(marked) == IF marked = NoValue THEN NoMark ELSE [NoMark EXCEPT !.marked = marked, !.origin = "manual"]
ByMeet(s) == [marked |-> "yes", origin |-> "meet", meeting |-> s]

Spend(what, bound) == count[what] < bound /\ count' = [count EXCEPT ![what] = @ + 1]

-----------------------------------------------------------------------------
(* What the board says of an entry. *)

(* _plain_mark and _foundation_mark: a student nobody marked has attended  *)
(* the foundation class if there is a Foundation lead to prove it.         *)
FromFoundation(e, board) == board = "foundation_class" /\ e.foundation

Answer(e, board) ==
    LET mark == e.marks[board]
    IN  CASE mark.marked # NoValue -> [marked |-> mark.marked = "yes", source |-> mark.origin]
          [] OTHER -> [marked |-> FromFoundation(e, board), source |-> IF FromFoundation(e, board) THEN "auto" ELSE NoValue]

(* Marker.query, for each side of a board.  "to call" is the part of the   *)
(* polls' other side that nobody has followed up, "elsewhere" is another   *)
(* section, batch or group, or a search for somebody else.                 *)
OnSide(e, board, side) ==
    CASE side = "all" -> TRUE
      [] side = "yes" -> Answer(e, board).marked
      [] side = "no" -> ~Answer(e, board).marked
      [] side = "to call" -> ~Answer(e, board).marked /\ e.followUps = 0
      [] side = "elsewhere" -> FALSE

NoRow == [there |-> FALSE]
RowOf(e, board, side) == IF OnSide(e, board, side) THEN [there |-> TRUE, entry |-> e] ELSE NoRow

Marking == \E c \in calls : c.page = page.visit /\ c.op = "mark"
FollowingUp == \E c \in calls : c.page = page.visit /\ c.op = "follow up" /\ c.popup = page.popup

-----------------------------------------------------------------------------
(* Moving about. *)

(* Each board is a page of its own (AppRoutes gives it a key): turning to  *)
(* another leaves requests behind that still run.  What the cache has of a *)
(* board seen before is left out.                                          *)
Turn(board) ==
    /\ board # page.board /\ Spend("turns", MaxTurns)
    /\ page' = [board |-> board, side |-> "all", popup |-> 0, visit |-> page.visit + 1]
    /\ row' = NoRow /\ asked' = TRUE
    /\ UNCHANGED <<entry, linked, logged, calls, syncs, unlinks, corrected, mixed>>

(* The cards above the table.  The rows stay up until the side's own come. *)
SelectSide(side) ==
    /\ side # page.side /\ Spend("turns", MaxTurns)
    /\ page' = [page EXCEPT !.side = side]
    /\ asked' = TRUE
    /\ UNCHANGED <<entry, linked, logged, row, calls, syncs, unlinks, corrected, mixed>>

(* The toolbar's filters and its search, and its Clear with the next side. *)
FilterAway ==
    /\ "elsewhere" \in Sides /\ page.side # "elsewhere" /\ Spend("turns", MaxTurns)
    /\ page' = [page EXCEPT !.side = "elsewhere"]
    /\ asked' = TRUE
    /\ UNCHANGED <<entry, linked, logged, row, calls, syncs, unlinks, corrected, mixed>>

SelectFollowUps ==
    /\ page.board = "polls" /\ page.side = "no" /\ Spend("turns", MaxTurns)
    /\ page' = [page EXCEPT !.side = "to call"]
    /\ asked' = TRUE
    /\ UNCHANGED <<entry, linked, logged, row, calls, syncs, unlinks, corrected, mixed>>

-----------------------------------------------------------------------------
(* Marking. *)

Call(who, op, board, marked, visit, popup, undoes) ==
    [who |-> who, op |-> op, board |-> board, marked |-> marked, phase |-> "sent", entry |-> NoRow,
     page |-> visit, popup |-> popup, undoes |-> undoes]

(* The button takes a tick made by hand back to nothing, whichever the     *)
(* answer of the data.                                                     *)
NextMarkClearing(answer) == IF answer.marked THEN NoValue ELSE "yes"

(* One button: it ticks, it takes back a tick made by hand, and it denies  *)
(* what the Foundation link or a call says.                                *)
NextMark(answer) ==
    IF ~answer.marked THEN "yes" ELSE IF answer.source \in {"auto", "meet"} THEN "no" ELSE NoValue

PressMark ==
    LET answer == Answer(row.entry, page.board)
    IN  /\ row.there /\ ~Marking
        /\ Spend("calls", MaxCalls)
        /\ calls' = calls \cup {Call("me", "mark", page.board, NextMark(answer), page.visit, 0,
                                     answer.marked /\ answer.source # "manual")}
        /\ UNCHANGED <<entry, linked, logged, page, row, asked, syncs, unlinks, corrected, mixed>>

(* A student not selected in the poll may be rung up and asked why. *)
OpenFollowUp ==
    /\ page.board = "polls" /\ page.popup = 0 /\ row.there /\ ~Answer(row.entry, "polls").marked
    /\ Spend("turns", MaxTurns)
    /\ page' = [page EXCEPT !.popup = count.turns + 1]
    /\ UNCHANGED <<entry, linked, logged, row, asked, calls, syncs, unlinks, corrected, mixed>>

CloseFollowUp ==
    /\ page.popup # 0
    /\ page' = [page EXCEPT !.popup = 0]
    /\ UNCHANGED <<entry, linked, logged, row, asked, calls, syncs, unlinks, count, corrected, mixed>>

SaveFollowUp ==
    /\ page.popup # 0 /\ ~FollowingUp
    /\ Spend("calls", MaxCalls)
    /\ calls' = calls \cup {Call("me", "follow up", "polls", NoValue, page.visit, page.popup, FALSE)}
    /\ UNCHANGED <<entry, linked, logged, page, row, asked, syncs, unlinks, corrected, mixed>>

(* Somebody else marks or follows up, from a board of their own, or        *)
(* clears a mark (the API takes any of the three).                         *)
OthersCall(op, board, marked) ==
    /\ op = "follow up" => board = "polls" /\ marked = NoValue
    /\ Spend("calls", MaxCalls)
    /\ calls' = calls \cup {Call("others", op, board, marked, 0, 0, FALSE)}
    /\ UNCHANGED <<entry, linked, logged, page, row, asked, syncs, unlinks, corrected, mixed>>

MayFollowUpAnyway(e) == TRUE

(* add_poll_follow_up, of the entry it read. *)
MayFollowUp(e) == ~Answer(e, "polls").marked

Written(c) ==
    IF c.op = "mark" THEN [c.entry EXCEPT !.marks[c.board] = ByHand(c.marked)]
    ELSE [c.entry EXCEPT !.followUps = @ + 1]

ReadEntry(c) ==
    /\ c.phase = "sent"
    /\ c.op = "follow up" => MayFollowUp(entry)
    /\ calls' = (calls \ {c}) \cup {[c EXCEPT !.phase = "read", !.entry = entry]}
    /\ UNCHANGED <<entry, linked, logged, page, row, asked, syncs, unlinks, count, corrected, mixed>>

(* The whole document is saved as it was read, with the one change.  So a  *)
(* mark of another board, or one the sync wrote meanwhile, is undone; who  *)
(* corrected it is not to blame.                                           *)
SaveWhole(c) ==
    LET rewritten == {b \in Boards : c.entry.marks[b] # entry.marks[b]}
    IN  /\ c.phase = "read"
        /\ entry' = Written(c)
        /\ calls' = (calls \ {c}) \cup {[c EXCEPT !.phase = "ok", !.entry = NoRow, !.marked = NoValue, !.undoes = FALSE]}
        /\ corrected' = (corrected \ (rewritten \cup IF c.op = "mark" THEN {c.board} ELSE {}))
                            \cup IF c.undoes THEN {c.board} ELSE {}
        /\ mixed' = mixed \cup {s \in (Meetings \ linked) \cup unlinks : \E b \in rewritten : c.entry.marks[b].meeting = s}
        /\ UNCHANGED <<linked, logged, page, row, asked, syncs, unlinks, count>>

(* Deleted meanwhile, in another section, already selected, or lost on its *)
(* way there or back: a toast, or a message in the popup.                  *)
Refused(c) ==
    /\ calls' = calls \ {c}
    /\ UNCHANGED <<entry, linked, logged, page, row, asked, syncs, unlinks, count, corrected, mixed>>

(* onSuccess also runs for a page that was left: its queries are the same  *)
(* keys, and what the page open shows of them is fetched anew.  A saved    *)
(* follow-up closes the popup of its page, also one opened since.          *)
Answered(c) ==
    /\ c.phase = "ok"
    /\ calls' = calls \ {c}
    /\ asked' = (asked \/ c.who = "me")
    /\ page' = IF c.op = "follow up" /\ c.page = page.visit THEN [page EXCEPT !.popup = 0] ELSE page
    /\ UNCHANGED <<entry, linked, logged, row, syncs, unlinks, count, corrected, mixed>>

(* Read and shown in one step; until then the row stays what it was. *)
Fetched ==
    /\ asked
    /\ row' = RowOf(entry, page.board, page.side) /\ asked' = FALSE
    /\ UNCHANGED <<entry, linked, logged, page, calls, syncs, unlinks, count, corrected, mixed>>

-----------------------------------------------------------------------------
(* Meetings. *)

(* Google writes its log some time after the call. *)
LogArrives(s) ==
    /\ s \notin logged
    /\ logged' = logged \cup {s}
    /\ UNCHANGED <<entry, linked, page, row, asked, calls, syncs, unlinks, count, corrected, mixed>>

(* link_meet_session: linked and synced straight away. *)
LinkMeeting(s) ==
    /\ s \notin linked /\ s \notin mixed /\ Spend("meets", MaxMeets)
    /\ linked' = linked \cup {s}
    /\ syncs' = syncs \cup {[meeting |-> s, phase |-> "reading"]}
    /\ UNCHANGED <<entry, logged, page, row, asked, calls, unlinks, corrected, mixed>>

(* "Sync now", or the background loop: the meeting as it was read then.    *)
StartSync(s) ==
    /\ s \in linked /\ Spend("meets", MaxMeets)
    /\ syncs' = syncs \cup {[meeting |-> s, phase |-> "reading"]}
    /\ mixed' = IF s \in unlinks THEN mixed \cup {s} ELSE mixed
    /\ UNCHANGED <<entry, linked, logged, page, row, asked, calls, unlinks, corrected>>

(* _meet_may_write: nobody has answered, or the answer is a call's. *)
MeetMayWrite(mark) == mark.marked = NoValue \/ mark.origin = "meet"

(* apply: an update of the one mark, with the condition in its filter. *)
Apply(y) ==
    LET board == MeetingOf[y.meeting]
        writes == y.meeting \in logged /\ MeetMayWrite(entry.marks[board])
    IN  /\ y.phase = "reading"
        /\ entry' = IF writes THEN [entry EXCEPT !.marks[board] = ByMeet(y.meeting)] ELSE entry
        /\ syncs' = (syncs \ {y}) \cup {[y EXCEPT !.phase = "applied"]}
        /\ UNCHANGED <<linked, logged, page, row, asked, calls, unlinks, count, corrected, mixed>>

(* The counts, or the failure of the audit log, are saved on the meeting:  *)
(* Document.save inserts what is no longer there.  The page that pressed   *)
(* the button has its rows fetched anew, the loop tells nobody.            *)
EndSync(y) ==
    /\ syncs' = syncs \ {y}
    /\ linked' = linked \cup {y.meeting}
    /\ asked' \in {asked, asked \/ (y.phase = "applied" /\ page.board = MeetingOf[y.meeting])}
    /\ UNCHANGED <<entry, logged, page, row, calls, unlinks, count, corrected, mixed>>

(* The process stops half-way. *)
DropSync(y) ==
    /\ syncs' = syncs \ {y}
    /\ UNCHANGED <<entry, linked, logged, page, row, asked, calls, unlinks, count, corrected, mixed>>

UnmarkedOnBoard(marks, s) == marks

(* unlink, first: the marks this meeting wrote, and no others. *)
Unmarked(marks, s) == [b \in Boards |-> IF marks[b].origin = "meet" /\ marks[b].meeting = s THEN NoMark ELSE marks[b]]

PressUnlink(s) ==
    /\ s \in linked \ unlinks /\ Spend("meets", MaxMeets)
    /\ unlinks' = unlinks \cup {s}
    /\ entry' = [entry EXCEPT !.marks = Unmarked(@, s)]
    /\ mixed' = IF \E y \in syncs : y.meeting = s THEN mixed \cup {s} ELSE mixed
    /\ UNCHANGED <<linked, logged, page, row, asked, calls, syncs, corrected>>

(* Then the meeting itself. *)
Unlink(s) ==
    /\ s \in unlinks
    /\ unlinks' = unlinks \ {s}
    /\ linked' = linked \ {s}
    /\ asked' \in {asked, asked \/ page.board = MeetingOf[s]}
    /\ UNCHANGED <<entry, logged, page, row, calls, syncs, count, corrected, mixed>>

-----------------------------------------------------------------------------
BoardInit ==
    /\ \E foundation \in BOOLEAN :
           entry = [marks |-> [b \in Boards |-> NoMark], followUps |-> 0, foundation |-> foundation]
    /\ linked \in SUBSET Meetings /\ logged = {}
    /\ \E board \in Boards : page = [board |-> board, side |-> "all", popup |-> 0, visit |-> 1]
    /\ row = NoRow /\ asked = TRUE
    /\ calls = {} /\ syncs = {} /\ unlinks = {}
    /\ count = [calls |-> 0, meets |-> 0, turns |-> 0]
    /\ corrected = {} /\ mixed = {}

BoardNext ==
    \/ \E board \in Boards : Turn(board)
    \/ \E side \in Sides \ {"elsewhere"} : SelectSide(side)
    \/ FilterAway \/ SelectFollowUps \/ PressMark \/ OpenFollowUp \/ CloseFollowUp \/ SaveFollowUp
    \/ \E board \in Boards, marked \in OthersMarks : OthersCall("mark", board, marked)
    \/ "polls" \in Boards /\ OthersCall("follow up", "polls", NoValue)
    \/ \E c \in calls : ReadEntry(c) \/ SaveWhole(c) \/ Refused(c) \/ Answered(c)
    \/ Fetched
    \/ \E s \in Meetings : LogArrives(s) \/ LinkMeeting(s) \/ StartSync(s) \/ PressUnlink(s) \/ Unlink(s)
    \/ \E y \in syncs : Apply(y) \/ EndSync(y) \/ DropSync(y)

BoardSpec == BoardInit /\ [][BoardNext]_boardVars

-----------------------------------------------------------------------------
(* Properties. *)

(* What the user denied - a student said to have come, by the Foundation   *)
(* link or by a call - is denied until it is marked anew, whatever is      *)
(* linked, synced and unlinked afterwards.                                 *)
CorrectionStays == \A b \in corrected : Answer(entry, b) = [marked |-> FALSE, source |-> "manual"]

(* A call's mark is of a meeting that is linked: unlinking leaves no       *)
(* attendance behind that nobody can take away - unless the meeting was    *)
(* being synced, or the entry saved whole, meanwhile.                      *)
MarksHaveMeetings ==
    \A b \in Boards : entry.marks[b].origin = "meet" => entry.marks[b].meeting \in linked \cup mixed

(* A follow-up is recorded of a student who is not selected in the poll,   *)
(* also when somebody selects them while it is being written down.         *)
FollowedUpUnselected ==
    [][\A c \in calls : c.op = "follow up" /\ SaveWhole(c) => ~Answer(entry', "polls").marked]_boardVars
=============================================================================
