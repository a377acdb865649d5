------------------------------ MODULE BoardProofs ------------------------------
(***************************************************************************)
(* The boards of the client: the cells of their rows (RowEditor), and the  *)
(* table the rows are in (LeadTable).                                      *)
(*                                                                         *)
(* Cells: what was saved last in a cell stands, and a quit reason is of    *)
(* its remark, for any values, remarks and reasons, and any number of      *)
(* saves.  The reason a dialog starts with comes from the row, the row     *)
(* from a fetch, and the fetch from what was stored: the invariant says    *)
(* the same of each of them (Honest), and of what is typed and on its way. *)
(*                                                                         *)
(* Tables: a table at rest is the server's page of its view, and not an    *)
(* empty one when anything matches, for any leads, any page size and any   *)
(* number of views and requests.  What it shows comes from a fetch, which  *)
(* may be of the view before: the invariant (TableInv) follows the answers *)
(* of the view shown and of the one left to the rows (AnswerSound,         *)
(* RowsSound), past the changes made meanwhile that the table has not been *)
(* told of (Landing).                                                      *)
(***************************************************************************)
EXTENDS RowEditor, LeadTable, FiniteSetTheorems, TLAPS

-----------------------------------------------------------------------------
(* The cells. *)

Reasons == {NoReason} \cup [text : Texts, about : Values \cup {None}]
Rows == [value : Values \cup {None}, reason : Reasons]
Editors == [open : BOOLEAN, asking : Quits \cup {None}, draft : Values \cup {None}, reason : Reasons]
Fetches == [phase : {"none", "sent", "answered"}, row : Rows]
Saves == [n : Nat, value : Values \cup {None, Keep}, reason : Reasons \cup {KeepReason}, phase : {"sent", "ok"}]
Outcomes == [value : Values \cup {None, Keep}, reason : Reasons \cup {KeepReason}, stands : BOOLEAN]

Typed ==
    /\ cell \in DOMAIN Kinds
    /\ stored \in Rows /\ row \in Rows /\ fetch \in Fetches
    /\ editor \in Editors
    /\ saves \subseteq Saves /\ watched \in Nat
    /\ count.saves \in Nat
    /\ last \in Outcomes

(* A reason belongs to a remark that says quit, and in the remark's cell   *)
(* to that very one: as stored, as shown, and as fetched.                  *)
Honest(at) ==
    at.reason # NoReason =>
        /\ Does("asks") /\ at.value \in Quits
        /\ cell = "remark" => at.reason.about = at.value

(* What is typed, and what is on its way, is about the remark it will be   *)
(* saved with.                                                             *)
Asking ==
    /\ editor.asking # None => cell = "remark" /\ ~editor.open
    /\ editor.asking # None /\ editor.reason # NoReason => editor.reason.about = editor.asking

Sound(s) ==
    /\ s.reason # KeepReason => Does("asks")
    /\ cell = "remark" =>
           /\ s.value # Keep
           /\ s.reason = KeepReason => s.value \notin Quits
           /\ s.reason # KeepReason => s.reason.about = s.value

(* One save at a time, in the cells that wait; and what the last one did.  *)
Single ==
    OneAtATime =>
        /\ \A s \in saves : s.n = watched
        /\ \A s, t \in saves : s = t
        /\ Is("menu") /\ editor.open => saves = {}

Lasts ==
    OneAtATime /\ last.stands =>
        /\ \A s \in saves : s.value = last.value /\ s.reason = last.reason
        /\ (\A s \in saves : s.phase = "ok") =>
               /\ last.value \in {stored.value, Keep}
               /\ last.reason \in {stored.reason, KeepReason} \/ stored.value \notin Quits
        /\ saves = {} /\ fetch.phase = "none" => row = stored
        /\ saves = {} /\ fetch.phase = "answered" => fetch.row = stored

IInv ==
    /\ Typed /\ Honest(stored) /\ Honest(row) /\ Honest(fetch.row)
    /\ Asking /\ (\A s \in saves : Sound(s)) /\ Single /\ Lasts

-----------------------------------------------------------------------------
(* The kinds of cell. *)

LEMMA KindFacts ==
    ASSUME cell \in DOMAIN Kinds
    PROVE  /\ Does("asks") <=> cell \in {"remark", "quit"}
           /\ cell = "remark" => Is("menu") /\ ~Is("dialog")
           /\ cell = "quit" => ~Is("menu")
           /\ Does("asks") => ~Does("resets")
           /\ Is("menu") /\ OneAtATime => Does("skips")
           /\ OneAtATime <=> Does("waits") /\ ~Does("resets")
<1>1. CASE cell = "course"
    BY <1>1 DEF Kinds, CourseCell, InlineSelect, Editor, Is, Does, OneAtATime
<1>2. CASE cell = "group"
    BY <1>2 DEF Kinds, GroupCell, InlineSelect, Editor, Is, Does, OneAtATime
<1>3. CASE cell = "category"
    BY <1>3 DEF Kinds, CategoryCell, InlineSelect, Editor, Is, Does, OneAtATime
<1>4. CASE cell = "remark"
    BY <1>4 DEF Kinds, CallRemarkCell, InlineSelect, Editor, Is, Does, OneAtATime
<1>5. CASE cell = "plan"
    BY <1>5 DEF Kinds, PaymentPlanCell, Editor, Is, Does, OneAtATime
<1>6. CASE cell = "badge"
    BY <1>6 DEF Kinds, BadgeCell, Editor, Is, Does, OneAtATime
<1>7. CASE cell = "whatsapp"
    BY <1>7 DEF Kinds, WhatsAppCell, Editor, Is, Does, OneAtATime
<1>8. CASE cell = "batch"
    BY <1>8 DEF Kinds, BatchCell, Editor, Is, Does, OneAtATime
<1>9. CASE cell = "schedule"
    BY <1>9 DEF Kinds, ScheduleCell, Editor, Is, Does, OneAtATime
<1>10. CASE cell = "recording"
    BY <1>10 DEF Kinds, RecordingCell, Editor, Is, Does, OneAtATime
<1>11. CASE cell = "pending"
    BY <1>11 DEF Kinds, PendingReasonCell, Editor, Is, Does, OneAtATime
<1>12. CASE cell = "quit"
    BY <1>12 DEF Kinds, QuitReasonCell, Editor, Is, Does, OneAtATime
<1> QED BY <1>1, <1>2, <1>3, <1>4, <1>5, <1>6, <1>7, <1>8, <1>9, <1>10, <1>11, <1>12 DEF Kinds

LEMMA SameCell ==
    ASSUME cell' = cell
    PROVE  /\ \A what : Does(what)' <=> Does(what)
           /\ \A look : Is(look)' <=> Is(look)
           /\ OneAtATime' <=> OneAtATime
BY DEF Does, Is, OneAtATime

LEMMA Texting ==
    /\ None \notin Values /\ Keep \notin Values /\ None \notin Texts /\ Keep \notin Texts /\ None # Keep
    /\ Quits \subseteq Values /\ None \notin Quits
    /\ NoReason \in Reasons /\ KeepReason \notin Reasons
    /\ \A text \in Texts, about \in Values \cup {None} :
           LET r == [text |-> text, about |-> about]
           IN  r \in Reasons /\ r # NoReason /\ r.about = about
<1>1. /\ None \notin Values /\ Keep \notin Values /\ None \notin Texts /\ Keep \notin Texts /\ None # Keep
      /\ Quits \subseteq Values /\ None \notin Quits
    BY ValuesAssumption DEF None, Keep
<1>2. KeepReason.text = Keep /\ NoReason.text = None
    BY DEF KeepReason, NoReason
<1>3. \A r \in Reasons : r.text \in Texts \cup {None}
    BY <1>2 DEF Reasons
<1> QED BY <1>1, <1>2, <1>3 DEF Reasons

LEMMA EditorFields ==
    /\ Closed \in Editors /\ Closed.asking = None /\ ~Closed.open /\ Closed.reason = NoReason
    /\ \A e \in Editors : e.asking \in Quits \cup {None} /\ e.reason \in Reasons /\ e.draft \in Values \cup {None}
<1>1. Closed \in Editors /\ Closed.asking = None /\ Closed.reason = NoReason
    BY Texting DEF Closed, Editors
<1>2. ~Closed.open
    BY Zenon DEF Closed
<1>3. \A e \in Editors : e.asking \in Quits \cup {None} /\ e.reason \in Reasons /\ e.draft \in Values \cup {None}
    BY DEF Editors
<1> QED BY <1>1, <1>2, <1>3

LEMMA Opened ==
    ASSUME NEW v \in Values \cup {None}, NEW r \in Reasons, NEW e,
           e = [Closed EXCEPT !.open = TRUE, !.draft = v, !.reason = r]
    PROVE  e \in Editors /\ e.asking = None /\ e.open
BY EditorFields DEF Editors

LEMMA AskingAbout ==
    ASSUME NEW q \in Quits, NEW r \in Reasons, NEW e,
           e = [open |-> FALSE, asking |-> q, draft |-> None, reason |-> r]
    PROVE  e \in Editors /\ e.asking = q /\ ~e.open /\ e.reason = r
<1>1. e \in Editors /\ e.asking = q /\ e.reason = r
    BY DEF Editors
<1>2. ~e.open
    BY Zenon
<1> QED BY <1>1, <1>2

LEMMA Typing ==
    ASSUME NEW d \in Editors, NEW e, NEW v \in Values \cup {None}, e = [d EXCEPT !.draft = v]
    PROVE  e \in Editors /\ e.asking = d.asking /\ e.open = d.open /\ e.reason = d.reason
BY DEF Editors

LEMMA Reasoning ==
    ASSUME NEW d \in Editors, NEW e, NEW r \in Reasons, e = [d EXCEPT !.reason = r]
    PROVE  e \in Editors /\ e.asking = d.asking /\ e.open = d.open /\ e.reason = r
BY DEF Editors

LEMMA FetchFields ==
    /\ NoFetch \in Fetches /\ NoFetch.phase = "none" /\ NoFetch.row.reason = NoReason
    /\ [NoFetch EXCEPT !.phase = "sent"] \in Fetches /\ [NoFetch EXCEPT !.phase = "sent"].phase = "sent"
    /\ [NoFetch EXCEPT !.phase = "sent"].row.reason = NoReason
    /\ \A r \in Rows : [phase |-> "answered", row |-> r] \in Fetches
BY Texting DEF NoFetch, Fetches, Rows

LEMMA Fallen ==
    ASSUME NEW d \in Outcomes, NEW e, e = [d EXCEPT !.stands = FALSE]
    PROVE  e \in Outcomes /\ ~e.stands
<1>1. e \in Outcomes
    BY DEF Outcomes
<1>2. DOMAIN d = {"value", "reason", "stands"}
    BY DEF Outcomes
<1>3. ~e.stands
    BY <1>2, Zenon
<1> QED BY <1>1, <1>3

-----------------------------------------------------------------------------
(* The invariant. *)

LEMMA Started == Init => IInv
<1> SUFFICES ASSUME Init PROVE IInv
    OBVIOUS
<1>1. cell \in DOMAIN Kinds
    BY CellsAssumption DEF Init
<1>2. PICK value \in Values \cup {None}, text \in Texts \cup {None} :
          /\ stored = [value |-> value, reason |-> IF text = None THEN NoReason ELSE [text |-> text, about |-> value]]
          /\ text # None => Does("asks") /\ value \in Quits
    BY DEF Init
<1>3. stored \in Rows /\ Honest(stored)
    <2>1. CASE text = None
        BY <1>2, <2>1, Texting DEF Rows, Honest
    <2>2. CASE text # None
        BY <1>2, <2>2, Texting DEF Rows, Honest
    <2> QED BY <2>1, <2>2
<1>8. last \in Outcomes
    BY Texting DEF Init, Outcomes
<1>4. Typed /\ Honest(row) /\ Honest(fetch.row)
    BY <1>1, <1>3, <1>8, EditorFields, FetchFields DEF Init, Typed, Honest
<1>5. Asking
    BY EditorFields DEF Init, Asking
<1>6. Single /\ Lasts
    BY DEF Init, Single, Lasts
<1>7. \A s \in saves : Sound(s)
    BY DEF Init
<1> QED BY <1>3, <1>4, <1>5, <1>6, <1>7 DEF IInv

(* Opening, closing and typing. *)
LEMMA EditorMoves ==
    ASSUME IInv, UNCHANGED <<cell, stored, row, fetch, saves, count, last>>,
           watched' = watched \/ (Does("resets") /\ watched' = 0),
           editor' \in Editors, Asking',
           OneAtATime /\ Is("menu") /\ editor'.open => saves = {}
    PROVE  IInv'
<1>1. Typed'
    BY DEF IInv, Typed
<1>2. Single'
    BY KindFacts, SameCell DEF IInv, Typed, Single
<1>3. Lasts'
    BY SameCell DEF IInv, Lasts
<1>4. Honest(stored)' /\ Honest(row)' /\ Honest(fetch.row)' /\ \A s \in saves' : Sound(s)'
    BY SameCell DEF IInv, Honest, Sound
<1> QED BY <1>1, <1>2, <1>3, <1>4 DEF IInv

(* A save: in a cell that waits, it is alone. *)
LEMMA Sending ==
    ASSUME IInv, NEW value \in Values \cup {None, Keep}, NEW reason \in Reasons \cup {KeepReason}, Send(value, reason),
           reason # KeepReason => Does("asks"),
           cell = "remark" => /\ value # Keep
                              /\ reason = KeepReason => value \notin Quits
                              /\ reason # KeepReason => reason.about = value,
           OneAtATime => saves = {},
           editor' \in Editors, Asking', OneAtATime /\ Is("menu") => ~editor'.open
    PROVE  IInv'
<1> DEFINE n == count.saves + 1
           s == [n |-> n, value |-> value, reason |-> reason, phase |-> "sent"]
<1>1. /\ saves' = saves \cup {s} /\ watched' = n /\ count' = [count EXCEPT !.saves = n]
      /\ last' = [value |-> value, reason |-> reason, stands |-> TRUE]
      /\ UNCHANGED <<cell, stored, row, fetch>>
    BY DEF Send
<1>2. count.saves \in Nat /\ n \in Nat
    BY DEF IInv, Typed
<1>3. s \in Saves /\ s.n = n /\ s.value = value /\ s.reason = reason /\ s.phase # "ok"
    BY <1>2 DEF Saves
<1>4. count'.saves \in Nat
    BY <1>1, <1>2 DEF Send
<1> HIDE DEF s, n
<1>a. last' \in Outcomes
    BY <1>1 DEF Outcomes
<1>5. Typed'
    BY <1>1, <1>2, <1>3, <1>4, <1>a DEF IInv, Typed
<1>6. Single'
    BY <1>1, <1>3, SameCell DEF Single
<1>7. last'.value = value /\ last'.reason = reason
    BY <1>1
<1>8. Lasts'
    BY <1>1, <1>3, <1>7, SameCell DEF Lasts
<1>9. Honest(stored)' /\ Honest(row)' /\ Honest(fetch.row)' /\ \A t \in saves' : Sound(t)'
    BY <1>1, <1>3, SameCell DEF IInv, Honest, Sound
<1> QED BY <1>5, <1>6, <1>8, <1>9 DEF IInv

LEMMA DefaultHonest ==
    ASSUME NEW asking \in Quits \cup {None}, NEW at \in Rows, Honest(at), cell = "remark" \/ asking = None
    PROVE  /\ Default(asking, at) \in Reasons
           /\ asking # None /\ Default(asking, at) # NoReason => Default(asking, at).about = asking
<1>1. at.reason \in Reasons /\ NoReason \in Reasons
    BY Texting DEF Rows
<1> QED BY <1>1 DEF Default, Honest

LEMMA EditorsKeep ==
    ASSUME IInv, \/ Open \/ Close \/ PickSame
                 \/ \E value \in Values \cup {None} : PickQuit(value) \/ Type(value)
                 \/ \E text \in Texts \cup {None} : TypeReason(text)
    PROVE  IInv'
<1>b. /\ cell \in DOMAIN Kinds /\ row \in Rows /\ editor \in Editors /\ watched \in Nat
      /\ row.value \in Values \cup {None} /\ row.reason \in Reasons
      /\ Honest(row) /\ Asking /\ Single
    BY DEF IInv, Typed, Rows
<1>0. NoReason \in Reasons
    BY Texting
<1>1. CASE Open
    <2> DEFINE r == IF cell = "quit" THEN row.reason ELSE NoReason
    <2>1. /\ editor' = [Closed EXCEPT !.open = TRUE, !.draft = row.value, !.reason = r]
          /\ watched' = watched \/ (Does("resets") /\ watched' = 0)
          /\ UNCHANGED <<cell, stored, row, fetch, saves, count, last>>
        BY <1>1 DEF Open
    <2>2. r \in Reasons
        BY <1>b, <1>0
    <2> HIDE DEF r
    <2>3. editor' \in Editors /\ editor'.asking = None
        BY <1>b, <2>1, <2>2, Opened
    <2>4. OneAtATime /\ Is("menu") => saves = {}
        BY <1>1, <1>b, KindFacts DEF Open, MayOpen, Busy, Single
    <2>5. Asking'
        BY <2>3 DEF Asking
    <2> QED BY <2>1, <2>3, <2>4, <2>5, EditorMoves
<1>2. CASE Close \/ PickSame
    <2>1. editor' = Closed /\ UNCHANGED <<cell, stored, row, fetch, saves, watched, count, last>>
        BY <1>2 DEF Close, PickSame
    <2>2. Asking'
        BY <2>1, EditorFields DEF Asking
    <2> QED BY <2>1, <2>2, EditorFields, EditorMoves
<1>3. ASSUME NEW value \in Values \cup {None}, PickQuit(value) PROVE IInv'
    <2> DEFINE r == Default(value, row)
    <2>1. /\ editor' = [Closed EXCEPT !.asking = value, !.reason = r] /\ value \in Quits
          /\ Is("menu") /\ Does("asks")
          /\ UNCHANGED <<cell, stored, row, fetch, saves, watched, count, last>>
        BY <1>3 DEF PickQuit
    <2>2. cell = "remark"
        BY <1>b, <2>1, KindFacts
    <2>3. r \in Reasons /\ (r # NoReason => r.about = value)
        BY <1>b, <2>1, <2>2, DefaultHonest, Texting
    <2> HIDE DEF r
    <2>4. editor' \in Editors /\ editor'.asking = value /\ ~editor'.open /\ editor'.reason = r
        <3>1. editor' = [open |-> FALSE, asking |-> value, draft |-> None, reason |-> r]
            BY <2>1 DEF Closed
        <3> QED BY <2>1, <2>3, <3>1, AskingAbout
    <2>5. Asking'
        BY <2>1, <2>2, <2>3, <2>4 DEF Asking
    <2> QED BY <2>1, <2>4, <2>5, EditorMoves
<1>4. ASSUME NEW value \in Values \cup {None}, Type(value) PROVE IInv'
    <2>1. /\ editor' = [editor EXCEPT !.draft = value] /\ Does("resets")
          /\ UNCHANGED <<cell, stored, row, fetch, saves, watched, count, last>>
        BY <1>4 DEF Type
    <2>2. /\ editor' \in Editors /\ editor'.asking = editor.asking /\ editor'.open = editor.open
          /\ editor'.reason = editor.reason
        BY <1>b, <2>1, Typing
    <2>3. Asking'
        BY <1>b, <2>1, <2>2 DEF Asking
    <2>4. ~OneAtATime
        BY <1>b, <2>1, KindFacts
    <2> QED BY <2>1, <2>2, <2>3, <2>4, EditorMoves
<1>5. ASSUME NEW text \in Texts \cup {None}, TypeReason(text) PROVE IInv'
    <2> DEFINE about == IF cell = "quit" THEN row.value ELSE editor.asking
               r == IF text = None THEN NoReason ELSE [text |-> text, about |-> about]
    <2>1. /\ editor' = [editor EXCEPT !.reason = r]
          /\ UNCHANGED <<cell, stored, row, fetch, saves, watched, count, last>>
        BY <1>5 DEF TypeReason
    <2>2. about \in Values \cup {None}
        BY <1>b, EditorFields, Texting
    <2> HIDE DEF about
    <2>3. r \in Reasons /\ (r # NoReason => r.about = about)
        BY <2>2, Texting
    <2> HIDE DEF r
    <2>4. /\ editor' \in Editors /\ editor'.asking = editor.asking /\ editor'.open = editor.open /\ editor'.reason = r
        BY <1>b, <2>1, <2>3, Reasoning
    <2>5. editor.asking # None => about = editor.asking
        BY <1>b DEF about, Asking
    <2>6. Asking'
        BY <1>b, <2>1, <2>3, <2>4, <2>5 DEF Asking
    <2> QED BY <1>b, <2>1, <2>4, <2>6, EditorMoves DEF Single
<1> QED BY <1>1, <1>2, <1>3, <1>4, <1>5

LEMMA SendsKeep ==
    ASSUME IInv, \/ SaveDraft \/ SaveReason
                 \/ \E value \in Values \cup {None} : Pick(value) \/ PickBadge(value) \/ Tick(value)
    PROVE  IInv'
<1>b. /\ cell \in DOMAIN Kinds /\ editor \in Editors /\ Asking /\ Single
      /\ editor.draft \in Values \cup {None} /\ editor.asking \in Quits \cup {None} /\ editor.reason \in Reasons
    BY EditorFields DEF IInv, Typed
<1>i. OneAtATime /\ ~Busy => saves = {}
    BY <1>b DEF Single, Busy
<1>c. editor' = Closed => editor' \in Editors /\ ~editor'.open /\ Asking'
    BY EditorFields DEF Asking
<1>u. editor' = editor /\ cell' = cell => editor' \in Editors /\ Asking'
    BY <1>b DEF Asking
<1>1. ASSUME NEW value \in Values \cup {None}, Pick(value) PROVE IInv'
    <2>1. editor.open /\ Is("menu") /\ editor' = Closed /\ Send(value, KeepReason)
        BY <1>1 DEF Pick
    <2>2. cell = "remark" => value # Keep /\ value \notin Quits
        BY <1>1, <1>b, KindFacts, Texting DEF Pick
    <2>3. OneAtATime => saves = {}
        BY <1>b, <2>1 DEF Single
    <2> QED BY <1>c, <2>1, <2>2, <2>3, Sending
<1>2. ASSUME NEW value \in Values \cup {None}, PickBadge(value) PROVE IInv'
    <2>1. Is("menu") /\ ~Does("skips") /\ editor' = Closed /\ Send(value, KeepReason)
        BY <1>2 DEF PickBadge
    <2>2. ~OneAtATime
        BY <1>b, <2>1, KindFacts
    <2>3. cell # "remark"
        BY <2>1 DEF Does, Kinds, CallRemarkCell, InlineSelect, Editor
    <2> QED BY <1>c, <2>1, <2>2, <2>3, Sending
<1>3. ASSUME NEW value \in Values \cup {None}, Tick(value) PROVE IInv'
    <2>1. Is("none") /\ ~Busy /\ editor' = editor /\ Send(value, KeepReason)
        BY <1>3 DEF Tick
    <2>2. ~Is("menu") /\ cell # "remark"
        BY <1>b, <2>1, KindFacts DEF Is
    <2>3. cell' = cell
        BY <2>1 DEF Send
    <2> QED BY <1>i, <1>u, <2>1, <2>2, <2>3, Sending
<1>4. CASE SaveDraft
    <2>1. editor.open /\ Does("resets") /\ editor' = editor /\ Send(editor.draft, KeepReason)
        BY <1>4 DEF SaveDraft
    <2>2. ~OneAtATime /\ cell # "remark"
        BY <1>b, <2>1, KindFacts
    <2>3. cell' = cell
        BY <2>1 DEF Send
    <2> QED BY <1>b, <1>u, <2>1, <2>2, <2>3, Sending
<1>5. CASE SaveReason
    <2> DEFINE value == IF cell = "quit" THEN Keep ELSE editor.asking
    <2>1. /\ IF cell = "quit" THEN editor.open ELSE editor.asking # None
          /\ Does("waits") => ~Busy
          /\ editor.reason.text # None /\ editor' = editor /\ Send(value, editor.reason)
        BY <1>5 DEF SaveReason, MaySave
    <2>2. cell \in {"quit", "remark"}
        BY <1>b, <2>1 DEF Asking
    <2>3. Does("asks") /\ cell' = cell
        BY <1>b, <2>1, <2>2, KindFacts DEF Send
    <2>4. editor.reason # NoReason /\ editor.reason # KeepReason
        BY <1>b, <2>1, Texting DEF NoReason
    <2>5. value \in Values \cup {None, Keep}
        BY <1>b, Texting
    <2>6. cell = "remark" => value # Keep /\ editor.reason.about = value
        BY <1>b, <2>1, <2>4, Texting DEF Asking
    <2>7. OneAtATime => saves = {}
        BY <1>b, <1>i, <2>1, KindFacts
    <2>8. Is("menu") => ~editor'.open
        BY <1>b, <2>1, <2>2, KindFacts DEF Asking
    <2> HIDE DEF value
    <2> QED BY <1>b, <1>u, <2>1, <2>3, <2>4, <2>5, <2>6, <2>7, <2>8, Sending
<1> QED BY <1>1, <1>2, <1>3, <1>4, <1>5

(* What the server stores of a sound save is honest, and in a cell that    *)
(* waits it is what was saved.                                             *)
LEMMA ResolvedHonest ==
    ASSUME IInv, NEW s \in saves
    PROVE  LET saved == Resolved(stored, s.value, s.reason)
           IN  /\ saved \in Rows /\ Honest(saved)
               /\ s.value \in {saved.value, Keep}
               /\ s.reason \in {saved.reason, KeepReason} \/ saved.value \notin Quits
<1> DEFINE v == IF s.value = Keep THEN stored.value ELSE s.value
           r == IF s.reason = KeepReason THEN stored.reason ELSE s.reason
           saved == Resolved(stored, s.value, s.reason)
<1>b. /\ s \in Saves /\ Sound(s) /\ stored \in Rows /\ Honest(stored) /\ cell \in DOMAIN Kinds
    BY DEF IInv, Typed
<1>1. /\ s.value \in Values \cup {None, Keep} /\ s.reason \in Reasons \cup {KeepReason}
      /\ stored.value \in Values \cup {None} /\ stored.reason \in Reasons
    BY <1>b DEF Saves, Rows
<1>2. v \in Values \cup {None} /\ r \in Reasons /\ NoReason \in Reasons
    BY <1>1, Texting
<1>3. Updated(stored, s.value, s.reason) = [value |-> v, reason |-> r]
    BY DEF Updated
<1>4. CASE Does("asks") /\ v \notin Quits
    <2>1. saved = [value |-> v, reason |-> NoReason]
        BY <1>3, <1>4 DEF Resolved
    <2> HIDE DEF v, r, saved
    <2>2. saved \in Rows /\ saved.value = v /\ Honest(saved)
        BY <1>2, <2>1 DEF Rows, Honest
    <2> QED BY <1>4, <2>2 DEF saved, v
<1>5. CASE ~(Does("asks") /\ v \notin Quits)
    <2>1. saved = [value |-> v, reason |-> r]
        BY <1>3, <1>5 DEF Resolved
    <2>2. saved \in Rows /\ saved.value = v /\ saved.reason = r
        BY <1>2, <2>1 DEF Rows
    <2>3. r # NoReason => Does("asks")
        BY <1>b DEF Sound, Honest
    <2>4. r # NoReason /\ cell = "remark" => r.about = v
        BY <1>b, <1>5, <2>3 DEF Sound, Honest
    <2>5. Honest(saved)
        BY <1>5, <2>2, <2>3, <2>4 DEF Honest
    <2> QED BY <2>2, <2>5
<1> QED BY <1>4, <1>5

LEMMA ServerKeeps ==
    ASSUME IInv, \/ \E s \in saves : ServeSave(s) \/ Refused(s) \/ Saved(s)
                 \/ \E value \in Values \cup {None}, text \in Texts : OthersSave(value, text)
    PROVE  IInv'
<1>b. /\ Typed /\ Honest(stored) /\ Honest(row) /\ Honest(fetch.row) /\ Asking
      /\ (\A s \in saves : Sound(s)) /\ Single /\ Lasts /\ cell \in DOMAIN Kinds
    BY DEF IInv, Typed
<1>1. ASSUME NEW s \in saves, ServeSave(s) PROVE IInv'
    <2> DEFINE saved == Resolved(stored, s.value, s.reason)
               t == [s EXCEPT !.phase = "ok"]
    <2>1. /\ stored' = saved /\ saves' = (saves \ {s}) \cup {t}
          /\ UNCHANGED <<cell, row, fetch, editor, watched, count, last>>
        BY <1>1 DEF ServeSave
    <2>2. /\ saved \in Rows /\ Honest(saved) /\ s.value \in {saved.value, Keep}
          /\ s.reason \in {saved.reason, KeepReason} \/ saved.value \notin Quits
        BY ResolvedHonest
    <2>3. t \in Saves /\ t.n = s.n /\ t.value = s.value /\ t.reason = s.reason
        BY <1>b DEF Typed, Saves
    <2> HIDE DEF saved, t
    <2>4. Typed'
        BY <1>b, <2>1, <2>2, <2>3 DEF Typed
    <2>5. Honest(stored)' /\ Honest(row)' /\ Honest(fetch.row)' /\ Asking'
        BY <1>b, <2>1, <2>2, SameCell DEF Honest, Asking
    <2>6. \A x \in saves' : Sound(x)'
        BY <1>b, <2>1, <2>3, SameCell DEF Sound
    <2>7. Single'
        BY <1>b, <2>1, <2>3, SameCell DEF Single
    <2>8. Lasts'
        BY <1>b, <2>1, <2>2, <2>3, SameCell DEF Single, Lasts
    <2> QED BY <2>4, <2>5, <2>6, <2>7, <2>8 DEF IInv
<1>2. ASSUME NEW s \in saves, Refused(s) PROVE IInv'
    <2>1. /\ saves' = saves \ {s} /\ last' = [last EXCEPT !.stands = FALSE]
          /\ UNCHANGED <<cell, stored, row, fetch, editor, watched, count>>
        BY <1>2 DEF Refused
    <2>2. last' \in Outcomes /\ ~last'.stands
        BY <1>b, <2>1, Fallen DEF Typed
    <2>3. Typed'
        BY <1>b, <2>1, <2>2 DEF Typed
    <2>4. Honest(stored)' /\ Honest(row)' /\ Honest(fetch.row)' /\ Asking' /\ \A x \in saves' : Sound(x)'
        BY <1>b, <2>1, SameCell DEF Honest, Asking, Sound
    <2>5. Single'
        BY <1>b, <2>1, SameCell DEF Single
    <2>6. Lasts'
        BY <2>2 DEF Lasts
    <2> QED BY <2>3, <2>4, <2>5, <2>6 DEF IInv
<1>3. ASSUME NEW s \in saves, Saved(s) PROVE IInv'
    <2>1. /\ saves' = saves \ {s} /\ s.phase = "ok" /\ fetch' = [NoFetch EXCEPT !.phase = "sent"]
          /\ editor' = Closed \/ editor' = editor
          /\ UNCHANGED <<cell, stored, row, watched, count, last>>
        BY <1>3 DEF Saved
    <2>2. fetch' \in Fetches /\ fetch'.phase = "sent" /\ fetch'.row.reason = NoReason
        BY <2>1, FetchFields
    <2>3. Typed'
        BY <1>b, <2>1, <2>2, EditorFields DEF Typed
    <2>4. Honest(stored)' /\ Honest(row)' /\ Honest(fetch.row)' /\ \A x \in saves' : Sound(x)'
        BY <1>b, <2>1, <2>2, SameCell DEF Honest, Sound
    <2>5. Asking'
        BY <1>b, <2>1, EditorFields DEF Asking
    <2>6. Single'
        BY <1>b, <2>1, SameCell, EditorFields DEF Single
    <2>7. Lasts'
        BY <1>b, <2>1, <2>2, SameCell DEF Single, Lasts
    <2> QED BY <2>3, <2>4, <2>5, <2>6, <2>7 DEF IInv
<1>4. ASSUME NEW value \in Values \cup {None}, NEW text \in Texts, OthersSave(value, text) PROVE IInv'
    <2> DEFINE reason == IF Does("asks") /\ value \in Quits THEN [text |-> text, about |-> value] ELSE NoReason
    <2>1. /\ stored' = [value |-> value, reason |-> reason] /\ count' = [count EXCEPT !.others = @ + 1]
          /\ last' = [last EXCEPT !.stands = FALSE]
          /\ UNCHANGED <<cell, row, fetch, editor, saves, watched>>
        BY <1>4 DEF OthersSave
    <2>2. /\ reason \in Reasons
          /\ reason # NoReason => Does("asks") /\ value \in Quits /\ reason.about = value
        BY Texting
    <2> HIDE DEF reason
    <2>3. stored' \in Rows /\ stored'.value = value /\ stored'.reason = reason
        BY <2>1, <2>2 DEF Rows
    <2>4. last' \in Outcomes /\ ~last'.stands
        BY <1>b, <2>1, Fallen DEF Typed
    <2>5. count'.saves = count.saves
        BY <2>1
    <2>6. Typed'
        BY <1>b, <2>1, <2>3, <2>4, <2>5 DEF Typed
    <2>7. Honest(stored)'
        BY <2>1, <2>2, <2>3, SameCell DEF Honest
    <2>8. Honest(row)' /\ Honest(fetch.row)' /\ Asking' /\ Single' /\ \A x \in saves' : Sound(x)'
        BY <1>b, <2>1, SameCell DEF Honest, Asking, Sound, Single
    <2>9. Lasts'
        BY <2>4 DEF Lasts
    <2> QED BY <2>6, <2>7, <2>8, <2>9 DEF IInv
<1> QED BY <1>1, <1>2, <1>3, <1>4

LEMMA FetchKeeps ==
    ASSUME IInv, Refetch \/ ServeFetch \/ TakeFetch
    PROVE  IInv'
<1>b. /\ Typed /\ Honest(stored) /\ Honest(row) /\ Honest(fetch.row) /\ Asking
      /\ (\A s \in saves : Sound(s)) /\ Single /\ Lasts
    BY DEF IInv
<1>1. CASE Refetch
    <2>1. /\ fetch' = [NoFetch EXCEPT !.phase = "sent"]
          /\ UNCHANGED <<cell, stored, row, editor, saves, watched, count, last>>
        BY <1>1 DEF Refetch
    <2>2. fetch' \in Fetches /\ fetch'.phase = "sent" /\ fetch'.row.reason = NoReason
        BY <2>1, FetchFields
    <2> QED BY <1>b, <2>1, <2>2, SameCell DEF IInv, Typed, Honest, Asking, Sound, Single, Lasts
<1>2. CASE ServeFetch
    <2>1. /\ fetch' = [phase |-> "answered", row |-> stored]
          /\ UNCHANGED <<cell, stored, row, editor, saves, watched, count, last>>
        BY <1>2 DEF ServeFetch
    <2>2. fetch' \in Fetches /\ fetch'.phase = "answered" /\ fetch'.row = stored
        BY <1>b, <2>1, FetchFields DEF Typed
    <2> QED BY <1>b, <2>1, <2>2, SameCell DEF IInv, Typed, Honest, Asking, Sound, Single, Lasts
<1>3. CASE TakeFetch
    <2> DEFINE r == Default(editor.asking, fetch.row)
    <2>1. /\ fetch.phase = "answered" /\ row' = fetch.row /\ fetch' = NoFetch
          /\ editor' = [editor EXCEPT !.reason = r] \/ editor' = editor
          /\ UNCHANGED <<cell, stored, saves, watched, count, last>>
        BY <1>3 DEF TakeFetch
    <2>2. editor.asking \in Quits \cup {None} /\ fetch.row \in Rows /\ editor \in Editors
        BY <1>b, EditorFields DEF Typed, Fetches
    <2>3. r \in Reasons /\ (editor.asking # None /\ r # NoReason => r.about = editor.asking)
        BY <1>b, <2>2, DefaultHonest DEF Asking
    <2> HIDE DEF r
    <2>4. /\ editor' \in Editors /\ editor'.asking = editor.asking /\ editor'.open = editor.open
          /\ editor'.reason \in {r, editor.reason}
        BY <2>1, <2>2, <2>3, Reasoning
    <2>5. Asking'
        BY <1>b, <2>1, <2>3, <2>4 DEF Asking
    <2>6. Typed'
        BY <1>b, <2>1, <2>2, <2>4, FetchFields DEF Typed
    <2>7. Honest(stored)' /\ Honest(row)' /\ Honest(fetch.row)' /\ \A s \in saves' : Sound(s)'
        BY <1>b, <2>1, FetchFields, SameCell DEF Honest, Sound
    <2>8. Single'
        BY <1>b, <2>1, <2>4, SameCell DEF Single
    <2>9. Lasts'
        BY <1>b, <2>1, FetchFields, SameCell DEF Lasts
    <2> QED BY <2>5, <2>6, <2>7, <2>8, <2>9 DEF IInv
<1> QED BY <1>1, <1>2, <1>3

LEMMA Inductive == IInv /\ [Next]_vars => IInv'
<1> SUFFICES ASSUME IInv, [Next]_vars PROVE IInv'
    OBVIOUS
<1>1. CASE UNCHANGED vars
    BY <1>1, SameCell DEF vars, IInv, Typed, Honest, Asking, Sound, Single, Lasts
<1>2. CASE Next
    BY <1>2, EditorsKeep, SendsKeep, ServerKeeps, FetchKeeps DEF Next
<1> QED BY <1>1, <1>2

-----------------------------------------------------------------------------
(* The theorems. *)

(* A stored reason is of a remark that says quit, in the remark's cell of  *)
(* that remark, whatever is typed, refetched or saved by others while the  *)
(* dialog is open (CallRemarkCell.jsx, _resolve_quit_reason).              *)
THEOREM ReasonBelongs == Spec => []ReasonForItsRemark
<1>1. IInv => ReasonForItsRemark
    BY DEF IInv, Honest, ReasonForItsRemark
<1> QED BY <1>1, Started, Inductive, PTL DEF Spec

(* In the cells that lock themselves while they save, the last save is     *)
(* what is stored, and what is shown once fetched (the boards' cells).     *)
THEOREM LastSaveStaysPut == Spec => []LastSaveStands
<1>1. IInv => LastSaveStands
    BY DEF IInv, Lasts, LastSaveStands
<1> QED BY <1>1, Started, Inductive, PTL DEF Spec

-----------------------------------------------------------------------------
(* The tables: the values their state is of. *)

FieldValues == Marks \cup {"none", "new_lead", "pending", "moved", "lost", "quit"}
LeadValues == [there : BOOLEAN, stage : FieldValues, mark : FieldValues]
RowValues == UNION {[S -> LeadValues] : S \in SUBSET Ids}
Views == [section : Menu(SectionChoices), stage : Menu(StageChoices) \cup {"none", "pending"}, lost : BOOLEAN,
          mark : Menu(MarkChoices), page : Nat]
Answers == [phase : {"none", "sent", "answered"}, rows : RowValues, total : Nat, behind : BOOLEAN]
Lists == [known : BOOLEAN, failed : BOOLEAN, rows : RowValues, total : Nat, fetch : Answers, excused : BOOLEAN]
CardFetches == [phase : {"none", "sent", "answered"}, counted : [Ids -> LeadValues], behind : BOOLEAN]
CardCounts == [known : BOOLEAN, counted : [Ids -> LeadValues], excused : BOOLEAN, fetch : CardFetches]
CallNames == {"mark", "stage", "remark", "delete", "create"}
TableCalls == [op : CallNames, id : Ids, value : FieldValues, phase : {"sent", "ok"},
               answer : LeadValues]

TableTypes ==
    /\ leads \in [Ids -> LeadValues]
    /\ view \in Views /\ view.page > 0 /\ list \in Lists
    /\ former \in [view : Views, list : Lists]
    /\ cards \in CardCounts /\ calls \subseteq TableCalls

(* Rows that are the page of some set of leads, and those of the leads     *)
(* held.                                                                   *)
APage(rows, total, v) ==
    \E matching \in SUBSET Ids : DOMAIN rows = OnPage(v, matching) /\ total = Cardinality(matching)

Current(rows, total, v, held) == rows = PageRows(v, held) /\ total = Cardinality(Matching(v, held))

(* A fetch brings a page of its view, and of the leads as they are unless  *)
(* it was overtaken.                                                       *)
AnswerSound(f, v, held) ==
    f.phase = "answered" =>
        /\ APage(f.rows, f.total, v)
        /\ ~f.behind => Current(f.rows, f.total, v, held)

(* A change of the user's that is made, and that the tables are not told   *)
(* of yet.                                                                 *)
Landing == \E c \in calls : c.phase = "ok" /\ c.op # "remark"

RowsSound ==
    list.fetch.phase = "none" /\ ~list.failed =>
        /\ APage(list.rows, list.total, view) /\ view.page <= Pages(list.total)
        /\ ~list.excused /\ ~Landing => Current(list.rows, list.total, view, leads)

(* The cards have a fetch of their own, of all the leads.                  *)
CountSound(f, held) == f.phase = "answered" /\ ~f.behind => f.counted = held

CardsSound ==
    board = "induction" =>
        /\ ~view.lost
        /\ CountSound(cards.fetch, leads)
        /\ cards.fetch.phase = "none" /\ ~cards.excused /\ ~Landing => cards.counted = leads

TableInv ==
    /\ TableTypes
    /\ AnswerSound(list.fetch, view, leads) /\ AnswerSound(former.list.fetch, former.view, leads)
    /\ RowsSound /\ CardsSound

-----------------------------------------------------------------------------
(* Pages: how many leads come before one on the table says which page it   *)
(* is on, and every number of leads below the total comes before some one. *)

LEMMA FiniteIds == IsFiniteSet(Ids) /\ Ids \subseteq Nat
BY IdsAssumption

LEMMA Ranks ==
    ASSUME NEW S \in SUBSET Ids, NEW k \in Nat, k < Cardinality(S)
    PROVE  \E id \in S : Cardinality({other \in S : other > id}) = k
<1> DEFINE above(id) == {other \in S : other > id}
           n == Cardinality(S)
           rank == [id \in S |-> Cardinality(above(id))]
<1>1. IsFiniteSet(S) /\ n \in Nat /\ S \subseteq Nat
    BY FiniteIds, FS_Subset, FS_CardinalityType
<1>2. \A id \in S : above(id) \in SUBSET S /\ IsFiniteSet(above(id)) /\ Cardinality(above(id)) \in Nat
    BY <1>1, FS_Subset, FS_CardinalityType
<1>3. ASSUME NEW id \in S PROVE rank[id] \in 0..(n - 1)
    <2>1. IsFiniteSet(S \ {id}) /\ Cardinality(S \ {id}) = n - 1
        BY <1>1, FS_RemoveElement
    <2>2. above(id) \subseteq S \ {id}
        BY <1>1
    <2>3. Cardinality(above(id)) <= n - 1
        BY <2>1, <2>2, FS_Subset
    <2> QED BY <1>1, <1>2, <2>3
<1>4. ASSUME NEW x \in S, NEW y \in S, x < y PROVE rank[y] < rank[x]
    <2>1. above(y) \cup {y} \subseteq above(x) /\ y \notin above(y)
        <3>1. x \in Nat /\ y \in Nat /\ ~(y > y) /\ y > x
            BY <1>1, <1>4
        <3>2. ASSUME NEW z \in above(y) PROVE z \in above(x)
            <4>1. z \in S /\ z \in Nat /\ z > y
                BY <1>1
            <4> QED BY <3>1, <4>1
        <3> QED BY <3>1, <3>2
    <2>2. Cardinality(above(y) \cup {y}) = Cardinality(above(y)) + 1
        BY <1>2, <2>1, FS_AddElement
    <2>3. Cardinality(above(y) \cup {y}) <= Cardinality(above(x))
        BY <1>2, <2>1, FS_Subset
    <2>4. rank[x] = Cardinality(above(x)) /\ rank[y] = Cardinality(above(y))
        OBVIOUS
    <2> HIDE DEF rank, above
    <2> QED BY <1>2, <2>2, <2>3, <2>4
<1> DEFINE Ranked == 0..(n - 1)
<1>5. rank \in [S -> Ranked]
    BY <1>3
<1>6. IsFiniteSet(Ranked) /\ Cardinality(Ranked) = n
    <2>1. 0 \in Int /\ n - 1 \in Int
        BY <1>1
    <2>2. IsFiniteSet(Ranked) /\ Cardinality(Ranked) = IF 0 > n - 1 THEN 0 ELSE n - 1 - 0 + 1
        BY <2>1, FS_Interval
    <2> HIDE DEF n
    <2> QED BY <1>1, <2>2
<1>7. rank \in Injection(S, Ranked)
    <2> HIDE DEF rank
    <2>1. ASSUME NEW x \in S, NEW y \in S, rank[x] = rank[y] PROVE x = y
        <3>1. rank[x] \in Int /\ rank[y] \in Int /\ x \in Nat /\ y \in Nat
            BY <1>1, <1>3
        <3>2. ~(x < y) /\ ~(y < x)
            BY <1>4, <2>1, <3>1
        <3> QED BY <3>1, <3>2
    <2> HIDE DEF Ranked
    <2> QED BY <1>5, <2>1 DEF Injection, IsInjective
<1>8. rank \in Surjection(S, Ranked)
    BY <1>6, <1>7, FS_Injection
<1>9. k \in Ranked
    BY <1>1
<1>10. \E id \in S : rank[id] = k
    BY <1>8, <1>9 DEF Surjection
<1> QED BY <1>10

LEMMA Dividing ==
    ASSUME NEW a \in Nat, NEW b \in Nat \ {0}
    PROVE  /\ a \div b \in Nat
           /\ \A q \in Nat : (a \div b) = q <=> (b * q <= a /\ a < b * (q + 1))
OBVIOUS

LEMMA PagesPositive == \A total \in Nat : Pages(total) \in Nat \ {0}
<1> SUFFICES ASSUME NEW total \in Nat, total > 0 PROVE Pages(total) \in Nat \ {0}
    BY DEF Pages
<1>1. total + PageSize - 1 \in Nat /\ PageSize <= total + PageSize - 1
    BY PageAssumption
<1>2. Pages(total) = (total + PageSize - 1) \div PageSize
    BY DEF Pages
<1>3. Pages(total) \in Nat
    BY <1>1, <1>2, Dividing, PageAssumption
<1>4. Pages(total) # 0
    <2> SUFFICES ASSUME Pages(total) = 0 PROVE FALSE
        OBVIOUS
    <2>1. total + PageSize - 1 < PageSize * (0 + 1)
        BY <1>1, <1>2, Dividing, PageAssumption
    <2> QED BY <1>1, <2>1, PageAssumption
<1> QED BY <1>3, <1>4

LEMMA PagesHaveRows ==
    ASSUME NEW v, NEW matching \in SUBSET Ids, v.page \in Nat \ {0}, Cardinality(matching) > 0,
           v.page <= Pages(Cardinality(matching))
    PROVE  OnPage(v, matching) # {}
<1> DEFINE n == Cardinality(matching)
           b == PageSize
           k == b * (v.page - 1)
<1>1. n \in Nat /\ b \in Nat \ {0} /\ n + b - 1 \in Nat
    <2>1. IsFiniteSet(matching)
        BY FiniteIds, FS_Subset
    <2>2. n \in Nat
        BY <2>1, FS_CardinalityType
    <2> QED BY <2>2, PageAssumption
<1>2. b * Pages(n) <= n + b - 1
    <2>1. Pages(n) = (n + b - 1) \div b /\ Pages(n) \in Nat
        BY <1>1, PagesPositive DEF Pages
    <2> HIDE DEF b, n
    <2> QED BY <1>1, <2>1, Dividing
<1>3. b * v.page <= b * Pages(n) /\ b * v.page \in Nat /\ b * Pages(n) \in Nat
    BY <1>1, PagesPositive
<1>4. k \in Nat /\ k = b * v.page - b
    BY <1>1
<1>5. k < n
    BY <1>1, <1>2, <1>3, <1>4
<1>6. PICK id \in matching : Cardinality({other \in matching : other > id}) = k
    BY <1>1, <1>4, <1>5, Ranks
<1>7. k \div b = v.page - 1
    <2>1. v.page - 1 \in Nat /\ b * (v.page - 1) <= k /\ k < b * ((v.page - 1) + 1)
        BY <1>1, <1>4
    <2> HIDE DEF k, b
    <2> QED BY <1>1, <1>4, <2>1, Dividing
<1> QED BY <1>6, <1>7 DEF OnPage

-----------------------------------------------------------------------------
(* What is done to a table's query, field by field. *)

LEMMA Blank ==
    /\ NoRows \in RowValues
    /\ NotFetching \in Answers /\ NotFetching.phase = "none"
    /\ Fetching \in Answers /\ Fetching.phase = "sent"
    /\ NoList \in Lists /\ NoList.fetch = NotFetching /\ NoList.total = 0 /\ ~NoList.known
<1>1. NoRows \in RowValues
    <2>1. NoRows \in [{} -> LeadValues] /\ {} \in SUBSET Ids
        BY DEF NoRows
    <2> QED BY <2>1 DEF RowValues
<1>2. NotFetching \in Answers /\ NotFetching.phase = "none"
    BY <1>1 DEF NotFetching, Answers
<1>3. Fetching \in Answers /\ Fetching.phase = "sent"
    BY <1>2 DEF Fetching, Answers
<1>4. NoList \in Lists /\ NoList.fetch = NotFetching /\ NoList.total = 0 /\ ~NoList.known
    BY <1>1, <1>2 DEF NoList, Lists
<1> QED BY <1>1, <1>2, <1>3, <1>4

LEMMA TakenList ==
    ASSUME NEW l \in Lists
    PROVE  /\ Taken(l) \in Lists /\ Taken(l).fetch = NotFetching /\ ~Taken(l).failed /\ Taken(l).known
           /\ Taken(l).rows = l.fetch.rows /\ Taken(l).total = l.fetch.total /\ Taken(l).excused = l.fetch.behind
<1>1. l.fetch.total \in Nat /\ l.fetch.behind \in BOOLEAN /\ l.fetch.rows \in RowValues
    BY DEF Lists, Answers
<1> QED BY <1>1, Blank DEF Taken, Lists

LEMMA NumbersOf ==
    ASSUME NEW l \in Lists
    PROVE  /\ Numbers(l) \in Lists /\ Numbers(l).fetch = l.fetch /\ Numbers(l).total = l.total
           /\ Numbers(l).known = l.known
BY Blank DEF Numbers, Lists

LEMMA RefetchingList ==
    ASSUME NEW l \in Lists
    PROVE  /\ Refetching(l) \in Lists /\ Refetching(l).fetch = Fetching /\ Refetching(l).total = l.total
           /\ Refetching(l).known = l.known
BY Blank DEF Refetching, Lists

LEMMA BehindList ==
    ASSUME NEW l \in Lists
    PROVE  /\ Behind(l) \in Lists
           /\ Behind(l).rows = l.rows /\ Behind(l).total = l.total /\ Behind(l).failed = l.failed
           /\ Behind(l).excused = l.excused /\ Behind(l).known = l.known
           /\ Behind(l).fetch.phase = l.fetch.phase /\ Behind(l).fetch.rows = l.fetch.rows
           /\ Behind(l).fetch.total = l.fetch.total
           /\ l.fetch.phase = "answered" => Behind(l).fetch.behind
<1>1. l.fetch \in Answers
    BY DEF Lists
<1> QED BY <1>1 DEF Behind, Lists, Answers

LEMMA UntoldList ==
    ASSUME NEW l \in Lists
    PROVE  /\ Untold(l) \in Lists /\ Untold(l).rows = l.rows /\ Untold(l).total = l.total
           /\ Untold(l).failed = l.failed /\ Untold(l).fetch = l.fetch
           /\ l.fetch.phase = "none" => Untold(l).excused
BY DEF Untold, Lists

LEMMA PatchedList ==
    ASSUME NEW l \in Lists, NEW c \in TableCalls
    PROVE  /\ Patched(l, c) \in Lists /\ Patched(l, c).total = l.total /\ Patched(l, c).failed = l.failed
           /\ Patched(l, c).fetch = l.fetch
           /\ Patched(l, c).rows = [id \in DOMAIN l.rows |-> IF id = c.id THEN c.answer ELSE l.rows[id]]
           /\ Patched(l, c).excused = (l.excused \/ c.answer # leads[c.id])
<1> DEFINE rows == [id \in DOMAIN l.rows |-> IF id = c.id THEN c.answer ELSE l.rows[id]]
<1>1. rows \in RowValues
    <2>1. l.rows \in RowValues /\ c.answer \in LeadValues
        BY DEF Lists, TableCalls
    <2>2. PICK S \in SUBSET Ids : l.rows \in [S -> LeadValues]
        BY <2>1 DEF RowValues
    <2>3. rows \in [S -> LeadValues]
        BY <2>1, <2>2
    <2> QED BY <2>3 DEF RowValues
<1>2. Patched(l, c) = [l EXCEPT !.rows = rows, !.excused = @ \/ c.answer # leads[c.id]]
    BY DEF Patched
<1> HIDE DEF rows
<1>3. /\ Patched(l, c) \in Lists /\ Patched(l, c).total = l.total /\ Patched(l, c).failed = l.failed
      /\ Patched(l, c).fetch = l.fetch /\ Patched(l, c).rows = rows
      /\ Patched(l, c).excused = (l.excused \/ c.answer # leads[c.id])
    BY <1>1, <1>2 DEF Lists
<1> QED BY <1>3 DEF rows

(* A refetch, told of a change: a first fetch goes on as it was. *)
LEMMA RefetchedList ==
    ASSUME list \in Lists
    PROVE  /\ NoExcuse(Refetched) \in Lists /\ NoExcuse(Refetched).fetch \in {list.fetch, Fetching}
           /\ NoExcuse(Refetched).fetch.phase # "none"
<1>1. list.fetch \in Answers
    BY DEF Lists
<1>2. CASE ~list.known /\ list.fetch.phase # "none"
    <2>1. [list.fetch EXCEPT !.behind = @ /\ ~list.known] = list.fetch
        BY <1>1, <1>2 DEF Answers
    <2>2. NoExcuse(list) = list
        BY <1>1, <2>1 DEF NoExcuse, Lists
    <2> QED BY <1>2, <2>2 DEF Refetched
<1>3. CASE ~(~list.known /\ list.fetch.phase # "none")
    <2> DEFINE l == Refetching(list)
    <2>1. Refetched = l /\ l \in Lists /\ l.fetch = Fetching
        BY <1>3, RefetchingList DEF Refetched
    <2> HIDE DEF l
    <2>2. [l.fetch EXCEPT !.behind = @ /\ ~list.known] = Fetching
        <3>1. Fetching.behind = FALSE
            BY DEF Fetching, NotFetching
        <3> QED BY <2>1, <3>1, Blank DEF Answers
    <2>3. NoExcuse(l) = l
        BY <1>1, <2>1, <2>2 DEF NoExcuse, Lists
    <2> QED BY <2>1, <2>3, Blank
<1> QED BY <1>2, <1>3

(* A view turned to shows what the cache has of it, or is fetched. *)
LEMMA ShownList ==
    ASSUME NEW l \in Lists, NEW v, former \in [view : Views, list : Lists]
    PROVE  /\ Shown(l, v) \in Lists /\ Shown(l, v).fetch.phase # "none"
           /\ \/ Shown(l, v).fetch = Fetching
              \/ former.view = v /\ Shown(l, v).fetch = former.list.fetch
<1> DEFINE found == IF former.view = v THEN former.list ELSE NoList
           total == IF found.known THEN found.total ELSE l.total
           rows == [found EXCEPT !.rows = l.rows, !.total = IF found.known THEN @ ELSE l.total]
<1>1. found \in Lists
    BY Blank
<1>2. total \in Nat /\ l.rows \in RowValues
    BY <1>1 DEF Lists
<1>3. rows = [found EXCEPT !.rows = l.rows, !.total = total]
    OBVIOUS
<1>4. Shown(l, v) = IF rows.fetch.phase = "none" THEN Refetching(rows) ELSE rows
    BY DEF Shown
<1>5. found.fetch = NotFetching \/ (former.view = v /\ found.fetch = former.list.fetch)
    BY Blank
<1> HIDE DEF found, total, rows
<1>6. rows \in Lists /\ rows.fetch = found.fetch
    BY <1>1, <1>2, <1>3 DEF Lists
<1>7. CASE rows.fetch.phase = "none"
    BY <1>4, <1>6, <1>7, RefetchingList, Blank
<1>8. CASE rows.fetch.phase # "none"
    BY <1>4, <1>5, <1>6, <1>8, Blank
<1> QED BY <1>7, <1>8

LEMMA LastPageView ==
    ASSUME NEW l \in Lists, NEW v \in Views, v.page > 0, former \in [view : Views, list : Lists]
    PROVE  /\ LastPage(l, v) \in Views /\ LastPage(l, v).page > 0
           /\ LastPage(l, v).lost = v.lost
<1>1. Shown(l, v).total \in Nat
    BY ShownList DEF Lists
<1>2. Pages(Shown(l, v).total) \in Nat \ {0}
    BY <1>1, PagesPositive
<1> QED BY <1>2 DEF LastPage, Views

-----------------------------------------------------------------------------
(* What rests on the board and the section only. *)
LEMMA SameBoard ==
    ASSUME UNCHANGED <<board, scope>>
    PROVE  /\ \A v, held : PageRows(v, held)' = PageRows(v, held)
           /\ \A v, held : Matching(v, held)' = Matching(v, held)
           /\ \A rows, total, v, held : Current(rows, total, v, held)' = Current(rows, total, v, held)
           /\ \A f, v, held : AnswerSound(f, v, held)' = AnswerSound(f, v, held)
<1>1. \A v, held : Matching(v, held)' = Matching(v, held)
    BY DEF Matching, Narrowed, Section, Left
<1>2. \A v, held : PageRows(v, held)' = PageRows(v, held)
    BY <1>1 DEF PageRows
<1>3. \A rows, total, v, held : Current(rows, total, v, held)' = Current(rows, total, v, held)
    BY <1>1, <1>2 DEF Current
<1>4. \A f, v, held : AnswerSound(f, v, held)' = AnswerSound(f, v, held)
    BY <1>3 DEF AnswerSound
<1> QED BY <1>1, <1>2, <1>3, <1>4

LEMMA NothingAnswered ==
    ASSUME NEW f, f.phase # "answered"
    PROVE  \A v, held : AnswerSound(f, v, held)
BY DEF AnswerSound

(* The rows the server gives for a view are a page of it. *)
LEMMA ServedPage ==
    ASSUME NEW v
    PROVE  /\ APage(PageRows(v, leads), Cardinality(Matching(v, leads)), v)
           /\ Current(PageRows(v, leads), Cardinality(Matching(v, leads)), v, leads)
           /\ Cardinality(Matching(v, leads)) \in Nat
<1>1. Matching(v, leads) \in SUBSET Ids
    BY DEF Matching, Narrowed
<1>2. DOMAIN PageRows(v, leads) = OnPage(v, Matching(v, leads))
    BY DEF PageRows
<1>3. IsFiniteSet(Matching(v, leads))
    BY <1>1, FiniteIds, FS_Subset
<1> QED BY <1>1, <1>2, <1>3, FS_CardinalityType DEF APage, Current

LEMMA ServedRows ==
    ASSUME leads \in [Ids -> LeadValues], NEW v
    PROVE  PageRows(v, leads) \in RowValues
<1>1. OnPage(v, Matching(v, leads)) \in SUBSET Ids
    BY DEF OnPage, Matching, Narrowed
<1>2. PageRows(v, leads) \in [OnPage(v, Matching(v, leads)) -> LeadValues]
    BY <1>1 DEF PageRows
<1> QED BY <1>1, <1>2 DEF RowValues

(* While the leads stand, a turn to another view keeps the tables sound.   *)
LEMMA Turned ==
    ASSUME TableInv, NEW l \in Lists, NEW v \in Views, v.page > 0, AnswerSound(l.fetch, view, leads), Turn(l, v),
           UNCHANGED <<board, scope, leads>>
    PROVE  /\ view' = v /\ list' \in Lists /\ former' \in [view : Views, list : Lists]
           /\ list'.fetch.phase # "none"
           /\ AnswerSound(list.fetch, view, leads)' /\ AnswerSound(former.list.fetch, former.view, leads)'
<1>1. /\ view' = v /\ list' = Shown(l, v) /\ former' = [view |-> view, list |-> Numbers(l)]
      /\ view \in Views /\ former \in [view : Views, list : Lists]
    BY DEF Turn, TableInv, TableTypes
<1>2. Numbers(l) \in Lists /\ Numbers(l).fetch = l.fetch
    BY NumbersOf
<1>3. /\ list' \in Lists /\ list'.fetch.phase # "none"
      /\ list'.fetch = Fetching \/ (former.view = v /\ list'.fetch = former.list.fetch)
    BY <1>1, ShownList
<1>4. AnswerSound(list'.fetch, v, leads)
    BY <1>3, NothingAnswered, Blank DEF TableInv
<1>5. AnswerSound(former'.list.fetch, former'.view, leads)
    BY <1>1, <1>2
<1>6. former' \in [view : Views, list : Lists]
    BY <1>1, <1>2
<1> QED BY <1>1, <1>3, <1>4, <1>5, <1>6, SameBoard

(* The cards' fetch, and what is done to it. *)
LEMMA BlankCards ==
    /\ NoLead \in LeadValues /\ NoLeads \in [Ids -> LeadValues]
    /\ NotCounting \in CardFetches /\ NotCounting.phase = "none"
    /\ Counting \in CardFetches /\ Counting.phase = "sent"
    /\ NoCards \in CardCounts
<1>1. NoLead \in LeadValues
    BY DEF NoLead, LeadValues, FieldValues
<1>2. NoLeads \in [Ids -> LeadValues]
    BY <1>1 DEF NoLeads
<1>3. NotCounting \in CardFetches /\ NotCounting.phase = "none"
    BY <1>2 DEF NotCounting, CardFetches
<1>4. Counting \in CardFetches /\ Counting.phase = "sent"
    BY <1>3 DEF Counting, CardFetches
<1>5. NoCards \in CardCounts
    BY <1>2, <1>3 DEF NoCards, CardCounts
<1> QED BY <1>1, <1>2, <1>3, <1>4, <1>5

LEMMA CachedCounts ==
    ASSUME NEW c \in CachedCards
    PROVE  c \in CardCounts /\ c.fetch.phase # "none" /\ (c.fetch.phase = "answered" => c.fetch.behind)
<1> DEFINE late == [NotCounting EXCEPT !.phase = "answered", !.behind = TRUE]
<1>1. late \in CardFetches /\ late.phase = "answered" /\ late.behind
    BY BlankCards DEF CardFetches
<1>2. c \in [known : BOOLEAN, counted : {NoLeads}, excused : {FALSE}, fetch : {Counting, late}]
    BY DEF CachedCards
<1> HIDE DEF late
<1>3. c.fetch \in {Counting, late} /\ c \in CardCounts
    BY <1>1, <1>2, BlankCards DEF CardCounts
<1> QED BY <1>1, <1>3, BlankCards

LEMMA CountedCards ==
    ASSUME NEW c \in CardCounts
    PROVE  /\ Counted(c) \in CardCounts /\ Counted(c).fetch = NotCounting
           /\ Counted(c).counted = c.fetch.counted /\ Counted(c).excused = c.fetch.behind
BY BlankCards DEF Counted, CardCounts, CardFetches

LEMMA RecountingCards ==
    ASSUME NEW c \in CardCounts
    PROVE  Recounting(c) \in CardCounts /\ Recounting(c).fetch = Counting
BY BlankCards DEF Recounting, CardCounts

LEMMA BehindCounts ==
    ASSUME NEW c \in CardCounts
    PROVE  /\ BehindCards(c) \in CardCounts
           /\ BehindCards(c).counted = c.counted /\ BehindCards(c).excused = c.excused
           /\ BehindCards(c).fetch.phase = c.fetch.phase
           /\ BehindCards(c).fetch.phase = "answered" => BehindCards(c).fetch.behind
<1>1. c.fetch \in CardFetches
    BY DEF CardCounts
<1>2. PastCount(c.fetch) \in CardFetches /\ PastCount(c.fetch).phase = c.fetch.phase
      /\ (PastCount(c.fetch).phase = "answered" => PastCount(c.fetch).behind)
    BY <1>1, BlankCards DEF PastCount, CardFetches
<1>3. BehindCards(c) = [c EXCEPT !.fetch = PastCount(c.fetch)]
    BY DEF BehindCards
<1> QED BY <1>2, <1>3 DEF CardCounts

LEMMA UnsureCards ==
    ASSUME NEW c \in CardCounts
    PROVE  /\ Unsure(c) \in CardCounts /\ Unsure(c).fetch = c.fetch
           /\ board = "induction" /\ c.fetch.phase = "none" => Unsure(c).excused
BY BlankCards DEF Unsure, CardCounts

(* With the calls and the cards as they were, what is left is the view.    *)
LEMMA Browsed ==
    ASSUME TableInv, NEW v \in Views, v.page > 0, Browse(v), board = "induction" => ~v.lost
    PROVE  TableInv'
<1>1. UNCHANGED <<board, scope, leads, calls>> /\ Show(v)
    BY DEF Browse
<1>2. TableTypes
    BY DEF TableInv
<1>3. Landing' = Landing
    BY <1>1 DEF Landing
<1>4. cards' \in CardCounts
      /\ \/ cards' = cards
         \/ cards'.fetch.phase # "none" /\ (cards'.fetch.phase = "answered" => cards'.fetch.behind)
    <2>1. cards' = cards \/ cards' \in CachedCards
        BY DEF Browse
    <2> QED BY <1>2, <2>1, CachedCounts DEF TableTypes
<1> DEFINE next == LastPage(list, v)
<1>5. next \in Views /\ next.page > 0 /\ next.lost = v.lost
    BY <1>2, LastPageView DEF TableTypes
<1>6. CASE next = view
    <2>1. UNCHANGED <<view, list, former>>
        BY <1>1, <1>6 DEF Show
    <2>2. TableTypes'
        BY <1>1, <1>2, <1>4, <2>1 DEF TableTypes
    <2>3. AnswerSound(list.fetch, view, leads)' /\ AnswerSound(former.list.fetch, former.view, leads)'
        BY <1>1, <2>1, SameBoard DEF TableInv
    <2>4. RowsSound'
        BY <1>1, <1>3, <2>1, SameBoard DEF TableInv, RowsSound
    <2>5. CardsSound'
        BY <1>1, <1>3, <1>4, <2>1 DEF TableInv, CardsSound, CountSound
    <2> QED BY <2>2, <2>3, <2>4, <2>5 DEF TableInv
<1>7. CASE next # view
    <2>1. Turn(list, next)
        BY <1>1, <1>7 DEF Show
    <2>2. /\ view' = next /\ list' \in Lists /\ former' \in [view : Views, list : Lists]
          /\ list'.fetch.phase # "none"
          /\ AnswerSound(list.fetch, view, leads)' /\ AnswerSound(former.list.fetch, former.view, leads)'
        BY <1>1, <1>2, <1>5, <2>1, Turned DEF TableInv, TableTypes
    <2>3. TableTypes'
        BY <1>1, <1>2, <1>4, <1>5, <2>2 DEF TableTypes
    <2>4. RowsSound'
        BY <2>2 DEF RowsSound
    <2>5. CardsSound'
        BY <1>1, <1>3, <1>4, <1>5, <2>2 DEF TableInv, CardsSound, CountSound
    <2> QED BY <2>2, <2>3, <2>4, <2>5 DEF TableInv
<1> QED BY <1>6, <1>7

(* Every filter, card and pager is a Browse. *)
LEMMA Choosing ==
    ASSUME TableInv, NEW v \in Views, Chosen(v), board = "induction" => ~v.lost
    PROVE  TableInv'
<1> DEFINE w == [v EXCEPT !.page = IF board = "foundation" \/ [v EXCEPT !.page = view.page] # view THEN 1 ELSE view.page]
<1>1. view.page \in Nat \ {0}
    BY DEF TableInv, TableTypes, Views
<1>2. w \in Views /\ w.page > 0 /\ w.lost = v.lost
    BY <1>1 DEF Views
<1>3. Browse(w)
    BY DEF Chosen
<1> HIDE DEF w
<1> QED BY <1>2, <1>3, Browsed

LEMMA LookingSound ==
    ASSUME TableInv,
           \/ \E section \in Menu(SectionChoices) : SelectSection(section) \/ FilterSection(section)
           \/ SelectLost
           \/ \E stage \in Menu(StageChoices \cap Tabs) : FilterStage(stage)
           \/ \E tab \in StageChoices \cap Tabs : SelectTab(tab)
           \/ \E mark \in Menu(MarkChoices) : FoundationFilter(mark) \/ InductionFilter(mark)
           \/ \E page \in 1..Cardinality(Ids) : TurnPage(page)
    PROVE  TableInv'
<1>1. view \in Views /\ (board = "induction" => ~view.lost)
    BY DEF TableInv, TableTypes, CardsSound
<1>2. \A options : "any" \in Menu(options) /\ options \subseteq Menu(options)
    BY DEF Menu
<1>3. ASSUME NEW section \in Menu(SectionChoices), SelectSection(section) PROVE TableInv'
    <2>1. [view EXCEPT !.section = section, !.lost = FALSE] \in Views
          /\ ~[view EXCEPT !.section = section, !.lost = FALSE].lost
        BY <1>1 DEF Views
    <2> QED BY <1>3, <2>1, Choosing DEF SelectSection
<1>4. ASSUME NEW section \in Menu(SectionChoices), FilterSection(section) PROVE TableInv'
    <2>1. [view EXCEPT !.section = section] \in Views /\ [view EXCEPT !.section = section].lost = view.lost
        BY <1>1 DEF Views
    <2> QED BY <1>1, <1>4, <2>1, Choosing DEF FilterSection
<1>5. CASE SelectLost
    <2>1. [view EXCEPT !.section = AnySection, !.stage = AnyStage, !.lost = TRUE] \in Views
        BY <1>1, <1>2 DEF Views, AnySection, AnyStage
    <2> QED BY <1>5, <2>1, Choosing DEF SelectLost
<1>6. ASSUME NEW stage \in Menu(StageChoices \cap Tabs), FilterStage(stage) PROVE TableInv'
    <2>1. stage \in Menu(StageChoices)
        BY DEF Menu
    <2>2. [view EXCEPT !.stage = stage] \in Views
        BY <1>1, <2>1 DEF Views
    <2>3. board # "induction"
        BY <1>6 DEF FilterStage
    <2> QED BY <1>6, <2>2, <2>3, Choosing DEF FilterStage
<1>7. ASSUME NEW tab \in StageChoices \cap Tabs, SelectTab(tab) PROVE TableInv'
    <2>1. [view EXCEPT !.stage = tab] \in Views /\ [view EXCEPT !.stage = tab].lost = view.lost
        BY <1>1, <1>2 DEF Views
    <2> QED BY <1>1, <1>7, <2>1, Choosing DEF SelectTab
<1>8. ASSUME NEW mark \in Menu(MarkChoices), FoundationFilter(mark) \/ InductionFilter(mark) PROVE TableInv'
    <2>1. [view EXCEPT !.mark = mark] \in Views /\ [view EXCEPT !.mark = mark].lost = view.lost
        BY <1>1 DEF Views
    <2> QED BY <1>1, <1>8, <2>1, Choosing DEF FoundationFilter, InductionFilter
<1>9. ASSUME NEW page \in 1..Cardinality(Ids), TurnPage(page) PROVE TableInv'
    <2>1. page \in Nat /\ page > 0
        <3>1. Cardinality(Ids) \in Nat
            BY FiniteIds, FS_CardinalityType
        <3> QED BY <3>1
    <2>2. /\ [view EXCEPT !.page = page] \in Views /\ [view EXCEPT !.page = page].page = page
          /\ [view EXCEPT !.page = page].lost = view.lost
        BY <1>1, <2>1 DEF Views
    <2> QED BY <1>1, <1>9, <2>1, <2>2, Browsed DEF TurnPage
<1> QED BY <1>3, <1>4, <1>5, <1>6, <1>7, <1>8, <1>9

-----------------------------------------------------------------------------
(* Fetches. *)

LEMMA CountingSound ==
    ASSUME TableInv, ServeCards \/ TakeCards \/ FailCards
    PROVE  TableInv'
<1>1. /\ TableTypes /\ leads \in [Ids -> LeadValues] /\ cards \in CardCounts
      /\ UNCHANGED <<board, scope, leads, view, list, former, calls>>
    BY DEF TableInv, TableTypes, ServeCards, TakeCards, FailCards
<1>2. cards' \in CardCounts /\ (board = "induction" => CardsSound')
    <2>1. CASE ServeCards
        <3> DEFINE f == [phase |-> "answered", counted |-> leads, behind |-> FALSE]
        <3>1. f \in CardFetches /\ f.phase = "answered" /\ f.counted = leads
            BY <1>1 DEF CardFetches
        <3>2. cards' = [cards EXCEPT !.fetch = f]
            BY <2>1 DEF ServeCards
        <3> HIDE DEF f
        <3>3. cards' \in CardCounts /\ cards'.fetch = f
            BY <1>1, <3>1, <3>2 DEF CardCounts
        <3> QED BY <1>1, <3>1, <3>3 DEF TableInv, CardsSound, CountSound
    <2>2. CASE TakeCards
        <3>1. cards' = Counted(cards) /\ cards.fetch.phase = "answered"
            BY <2>2 DEF TakeCards
        <3>2. /\ cards' \in CardCounts /\ cards'.fetch = NotCounting
              /\ cards'.counted = cards.fetch.counted /\ cards'.excused = cards.fetch.behind
            BY <1>1, <3>1, CountedCards
        <3> QED BY <1>1, <3>1, <3>2, BlankCards DEF TableInv, CardsSound, CountSound
    <2>3. CASE FailCards
        <3>1. cards' = [cards EXCEPT !.fetch = NotCounting, !.counted = NoLeads, !.excused = TRUE]
            BY <2>3 DEF FailCards
        <3>2. cards' \in CardCounts /\ cards'.fetch = NotCounting /\ cards'.excused
            BY <1>1, <3>1, BlankCards DEF CardCounts
        <3> QED BY <1>1, <3>2, BlankCards DEF TableInv, CardsSound, CountSound
    <2> QED BY <2>1, <2>2, <2>3
<1>3. TableTypes'
    BY <1>1, <1>2 DEF TableTypes
<1>4. RowsSound' /\ AnswerSound(list.fetch, view, leads)' /\ AnswerSound(former.list.fetch, former.view, leads)'
    BY <1>1, SameBoard DEF TableInv, RowsSound, Landing
<1>5. CardsSound'
    BY <1>1, <1>2 DEF CardsSound
<1> QED BY <1>3, <1>4, <1>5 DEF TableInv

LEMMA ServeListSound ==
    ASSUME TableInv, ServeList
    PROVE  TableInv'
<1> DEFINE answer == [phase |-> "answered", rows |-> PageRows(view, leads),
                      total |-> Cardinality(Matching(view, leads)), behind |-> FALSE]
<1>1. /\ TableTypes /\ leads \in [Ids -> LeadValues] /\ UNCHANGED <<board, scope, leads, view, former, cards, calls>>
      /\ list' = [list EXCEPT !.fetch = answer]
    BY DEF TableInv, TableTypes, ServeList
<1>2. answer \in Answers
    BY <1>1, ServedPage, ServedRows DEF Answers
<1>3. AnswerSound(answer, view, leads) /\ answer.phase = "answered"
    BY ServedPage DEF AnswerSound
<1> HIDE DEF answer
<1>4. list' \in Lists /\ list'.fetch = answer
    BY <1>1, <1>2 DEF TableTypes, Lists
<1>5. TableTypes'
    BY <1>1, <1>4 DEF TableTypes
<1>6. AnswerSound(list.fetch, view, leads)' /\ AnswerSound(former.list.fetch, former.view, leads)'
    BY <1>1, <1>3, <1>4, SameBoard DEF TableInv
<1>7. RowsSound'
    BY <1>3, <1>4 DEF RowsSound
<1>8. CardsSound'
    BY <1>1 DEF TableInv, CardsSound, Landing
<1> QED BY <1>5, <1>6, <1>7, <1>8 DEF TableInv

LEMMA TakeListSound ==
    ASSUME TableInv, TakeList
    PROVE  TableInv'
<1> DEFINE taken == Taken(list)
<1>1. /\ TableTypes /\ list \in Lists /\ view \in Views /\ view.page > 0
      /\ UNCHANGED <<board, scope, leads, cards, calls>> /\ list.fetch.phase = "answered"
    BY DEF TableInv, TableTypes, TakeList
<1>2. /\ taken \in Lists /\ taken.fetch = NotFetching /\ taken.rows = list.fetch.rows /\ taken.total = list.fetch.total
      /\ taken.excused = list.fetch.behind
    BY <1>1, TakenList
<1>3. CASE view.page <= Pages(taken.total)
    <2>1. list' = taken /\ UNCHANGED <<view, former>>
        BY <1>3 DEF TakeList, Stay
    <2> HIDE DEF taken
    <2>2. TableTypes'
        BY <1>1, <1>2, <2>1 DEF TableTypes
    <2>3. AnswerSound(list.fetch, view, leads)' /\ AnswerSound(former.list.fetch, former.view, leads)'
        BY <1>1, <1>2, <2>1, NothingAnswered, Blank, SameBoard DEF TableInv
    <2>4. RowsSound'
        <3>1. APage(taken.rows, taken.total, view) /\ (~taken.excused => Current(taken.rows, taken.total, view, leads))
            BY <1>1, <1>2 DEF TableInv, AnswerSound
        <3> QED BY <1>1, <1>3, <2>1, <3>1, SameBoard DEF RowsSound
    <2>5. CardsSound'
        BY <1>1, <2>1 DEF TableInv, CardsSound, Landing
    <2> QED BY <2>2, <2>3, <2>4, <2>5 DEF TableInv
<1>4. CASE ~(view.page <= Pages(taken.total))
    <2> DEFINE final == [view EXCEPT !.page = Pages(taken.total)]
    <2>1. Turn(taken, final)
        BY <1>4 DEF TakeList, Stay
    <2>2. final \in Views /\ final.page > 0 /\ final.lost = view.lost
        <3>1. Pages(taken.total) \in Nat \ {0}
            BY <1>2, PagesPositive DEF Lists
        <3> QED BY <1>1, <3>1 DEF Views
    <2>3. AnswerSound(taken.fetch, view, leads)
        BY <1>2, NothingAnswered, Blank
    <2> HIDE DEF taken, final
    <2>4. /\ view' = final /\ list' \in Lists /\ former' \in [view : Views, list : Lists]
          /\ list'.fetch.phase # "none"
          /\ AnswerSound(list.fetch, view, leads)' /\ AnswerSound(former.list.fetch, former.view, leads)'
        BY <1>1, <1>2, <2>1, <2>2, <2>3, Turned
    <2>5. TableTypes'
        BY <1>1, <2>2, <2>4 DEF TableTypes
    <2>6. RowsSound'
        BY <2>4 DEF RowsSound
    <2>7. CardsSound'
        BY <1>1, <2>2, <2>4 DEF TableInv, CardsSound, Landing
    <2> QED BY <2>4, <2>5, <2>6, <2>7 DEF TableInv
<1> QED BY <1>3, <1>4

LEMMA FailListSound ==
    ASSUME TableInv, FailList
    PROVE  TableInv'
<1>1. /\ TableTypes /\ list \in Lists /\ UNCHANGED <<board, scope, leads, view, former, cards, calls>>
      /\ list' = [NoList EXCEPT !.known = list.known, !.failed = TRUE, !.total = IF list.known THEN list.total ELSE 0]
    BY DEF TableInv, TableTypes, FailList
<1>2. list' \in Lists /\ list'.failed /\ list'.fetch = NotFetching
    BY <1>1, Blank DEF Lists
<1>3. TableTypes'
    BY <1>1, <1>2 DEF TableTypes
<1>4. AnswerSound(list.fetch, view, leads)' /\ AnswerSound(former.list.fetch, former.view, leads)'
    BY <1>1, <1>2, NothingAnswered, Blank, SameBoard DEF TableInv
<1>5. RowsSound'
    BY <1>2 DEF RowsSound
<1>6. CardsSound'
    BY <1>1 DEF TableInv, CardsSound, Landing
<1> QED BY <1>3, <1>4, <1>5, <1>6 DEF TableInv

(* What happens to the view that was left. *)
LEMMA FormerSound ==
    ASSUME TableInv, UNCHANGED <<board, scope, leads, view, list, cards, calls>>,
           former' \in [view : Views, list : Lists], former'.list.fetch = NotFetching
    PROVE  TableInv'
<1>1. TableTypes'
    BY DEF TableInv, TableTypes
<1>2. AnswerSound(list.fetch, view, leads)' /\ AnswerSound(former.list.fetch, former.view, leads)'
    BY NothingAnswered, Blank, SameBoard DEF TableInv
<1>3. RowsSound'
    BY SameBoard DEF TableInv, RowsSound, Landing
<1>4. CardsSound'
    BY DEF TableInv, CardsSound, Landing
<1> QED BY <1>1, <1>2, <1>3, <1>4 DEF TableInv

LEMMA FormerSettlesSound ==
    ASSUME TableInv, FormerSettles
    PROVE  TableInv'
<1> DEFINE v == former.view
           answer == [NotFetching EXCEPT !.rows = PageRows(v, leads), !.total = Cardinality(Matching(v, leads))]
           settled == IF former.list.fetch.phase = "sent" THEN [former.list EXCEPT !.fetch = answer] ELSE former.list
<1>1. /\ former \in [view : Views, list : Lists] /\ leads \in [Ids -> LeadValues]
      /\ UNCHANGED <<board, scope, leads, view, list, cards, calls>>
    BY DEF TableInv, TableTypes, FormerSettles
<1>2. former' = [former EXCEPT !.list = Numbers(Taken(settled))]
    BY DEF FormerSettles
<1>3. answer \in Answers
    BY <1>1, ServedPage, ServedRows, Blank DEF Answers
<1>4. settled \in Lists
    BY <1>1, <1>3 DEF Lists
<1> HIDE DEF settled
<1>5. Numbers(Taken(settled)) \in Lists /\ Numbers(Taken(settled)).fetch = NotFetching
    BY <1>4, TakenList, NumbersOf
<1> QED BY <1>1, <1>2, <1>5, FormerSound

LEMMA CollectedSound ==
    ASSUME TableInv, Collected
    PROVE  TableInv'
<1>1. NoView \in Views
    BY DEF NoView, Views, AnySection, AnyMark, Menu
<1>2. NoFormer \in [view : Views, list : Lists] /\ NoFormer.list.fetch = NotFetching
    BY <1>1, Blank DEF NoFormer
<1> QED BY <1>2, FormerSound DEF Collected

-----------------------------------------------------------------------------
(* Changes, the user's own and those of others. *)

LEMMA SendSound ==
    ASSUME TableInv, NEW op \in CallNames, NEW id \in Ids, NEW value \in FieldValues,
           SendCall(op, id, value)
    PROVE  TableInv'
<1> DEFINE c == [op |-> op, id |-> id, value |-> value, phase |-> "sent", answer |-> NoLead]
<1>1. /\ TableTypes /\ UNCHANGED <<board, scope, leads, view, list, former, cards>> /\ calls' = calls \cup {c}
    BY DEF TableInv, SendCall
<1>2. c \in TableCalls /\ c.phase = "sent"
    BY BlankCards DEF TableCalls
<1> HIDE DEF c
<1>3. TableTypes'
    BY <1>1, <1>2 DEF TableTypes
<1>4. Landing' = Landing
    BY <1>1, <1>2 DEF Landing
<1>5. AnswerSound(list.fetch, view, leads)' /\ AnswerSound(former.list.fetch, former.view, leads)' /\ RowsSound'
    BY <1>1, <1>4, SameBoard DEF TableInv, RowsSound
<1>6. CardsSound'
    BY <1>1, <1>4 DEF TableInv, CardsSound
<1> QED BY <1>3, <1>5, <1>6 DEF TableInv

LEMMA EditingSound ==
    ASSUME TableInv, NEW id \in Ids, Create(id) \/ Delete(id) \/ \E op \in {"mark", "stage", "remark"} : Edit(op, id)
    PROVE  TableInv'
<1>1. CASE Delete(id)
    BY <1>1, SendSound DEF Delete, FieldValues, CallNames
<1>2. ASSUME NEW op \in {"mark", "stage", "remark"}, Edit(op, id) PROVE TableInv'
    <2>1. PICK value \in NewValues(op, id) : SendCall(op, id, value)
        BY <1>2 DEF Edit
    <2>2. value \in FieldValues
        BY <2>1 DEF NewValues, FieldValues, Worked, Left
    <2> QED BY <2>1, <2>2, SendSound DEF CallNames
<1>3. CASE Create(id)
    <2>1. PICK mark \in StartMarks : SendCall("create", id, mark)
        BY <1>3 DEF Create
    <2>2. mark \in FieldValues
        BY MarksAssumption DEF FieldValues
    <2> QED BY <2>1, <2>2, SendSound DEF CallNames
<1> QED BY <1>1, <1>2, <1>3

(* Leads that change overtake the answers given before. *)
LEMMA Overtaken ==
    ASSUME TableInv, NEW l \in Lists, NEW v, AnswerSound(l.fetch, v, leads)
    PROVE  \A held : AnswerSound(Behind(l).fetch, v, held)
BY BehindList DEF AnswerSound

LEMMA ServeCallSound ==
    ASSUME TableInv, NEW c \in calls, ServeCall(c)
    PROVE  TableInv'
<1> DEFINE lead == CASE c.op = "mark" -> [leads[c.id] EXCEPT !.mark = c.value]
                     [] c.op = "stage" -> [leads[c.id] EXCEPT !.stage = c.value]
                     [] c.op = "remark" -> leads[c.id]
                     [] c.op = "delete" -> NoLead
                     [] c.op = "create" -> [there |-> TRUE, stage |-> "new_lead", mark |-> c.value]
           done == [c EXCEPT !.phase = "ok", !.value = "none", !.answer = IF c.op = "remark" THEN lead ELSE NoLead]
<1>1. /\ TableTypes /\ c \in TableCalls /\ c.id \in Ids /\ c.op \in CallNames
      /\ leads \in [Ids -> LeadValues] /\ list \in Lists /\ former \in [view : Views, list : Lists]
      /\ c.value \in FieldValues /\ former.list \in Lists /\ cards \in CardCounts
    BY DEF TableInv, TableTypes, TableCalls
<1>2. lead \in LeadValues /\ NoLead \in LeadValues
    <2>1. leads[c.id] \in LeadValues
        BY <1>1
    <2>2. NoLead \in LeadValues
        BY BlankCards
    <2>3. [leads[c.id] EXCEPT !.mark = c.value] \in LeadValues /\ [leads[c.id] EXCEPT !.stage = c.value] \in LeadValues
        BY <1>1, <2>1 DEF LeadValues
    <2>4. [there |-> TRUE, stage |-> "new_lead", mark |-> c.value] \in LeadValues
        BY <1>1 DEF LeadValues, FieldValues
    <2> QED BY <1>1, <2>1, <2>2, <2>3, <2>4 DEF CallNames
<1>3. /\ c.phase = "sent" /\ leads' = [leads EXCEPT ![c.id] = lead] /\ calls' = (calls \ {c}) \cup {done}
      /\ list' = (IF lead = leads[c.id] THEN list ELSE Behind(list))
      /\ former' = (IF lead = leads[c.id] THEN former ELSE [former EXCEPT !.list = Behind(@)])
      /\ cards' = (IF lead = leads[c.id] THEN cards ELSE BehindCards(cards))
      /\ UNCHANGED <<board, scope, view>>
    BY DEF ServeCall
<1>4. c.op = "remark" => lead = leads[c.id]
    OBVIOUS
<1>5. done \in TableCalls /\ done.op = c.op /\ done.phase = "ok"
    <2>1. (IF c.op = "remark" THEN lead ELSE NoLead) \in LeadValues
        BY <1>2
    <2> HIDE DEF lead
    <2> QED BY <1>1, <2>1 DEF TableCalls, FieldValues
<1> HIDE DEF lead, done
<1>6. TableTypes'
    <2>1. leads' \in [Ids -> LeadValues]
        BY <1>1, <1>2, <1>3
    <2>2. list' \in Lists /\ former' \in [view : Views, list : Lists] /\ cards' \in CardCounts
        BY <1>1, <1>3, BehindList, BehindCounts
    <2> QED BY <1>1, <1>3, <1>5, <2>1, <2>2 DEF TableTypes
<1>7. c.op # "remark" => Landing'
    BY <1>3, <1>5 DEF Landing
<1>8. Landing => Landing'
    <2> SUFFICES ASSUME NEW d \in calls, d.phase = "ok", d.op # "remark" PROVE Landing'
        BY DEF Landing
    <2>1. d \in calls'
        BY <1>3
    <2> QED BY <2>1 DEF Landing
<1>9. CASE lead = leads[c.id]
    <2>1. leads' = leads /\ list' = list /\ former' = former /\ cards' = cards
        BY <1>1, <1>3, <1>9
    <2>2. AnswerSound(list.fetch, view, leads)' /\ AnswerSound(former.list.fetch, former.view, leads)'
        <3>1. AnswerSound(list'.fetch, view', leads') /\ AnswerSound(former'.list.fetch, former'.view, leads')
            BY <1>3, <2>1 DEF TableInv
        <3> QED BY <1>3, <3>1, SameBoard
    <2>3. RowsSound'
        BY <1>3, <1>8, <2>1, SameBoard DEF TableInv, RowsSound
    <2>4. CardsSound'
        BY <1>3, <1>8, <2>1 DEF TableInv, CardsSound
    <2> QED BY <1>6, <2>2, <2>3, <2>4 DEF TableInv
<1>10. CASE lead # leads[c.id]
    <2>1. list' = Behind(list) /\ former' = [former EXCEPT !.list = Behind(@)] /\ cards' = BehindCards(cards) /\ Landing'
        BY <1>3, <1>4, <1>7, <1>10
    <2>2. former'.list = Behind(former.list) /\ former'.view = former.view
        BY <1>1, <2>1
    <2>3. AnswerSound(list'.fetch, view', leads') /\ AnswerSound(former'.list.fetch, former'.view, leads')
        BY <1>1, <1>3, <2>1, <2>2, Overtaken DEF TableInv
    <2>4. AnswerSound(list.fetch, view, leads)' /\ AnswerSound(former.list.fetch, former.view, leads)'
        BY <1>3, <2>3, SameBoard
    <2>5. RowsSound'
        BY <1>1, <1>3, <2>1, BehindList DEF TableInv, RowsSound
    <2>6. CardsSound'
        BY <1>1, <1>3, <2>1, BehindCounts DEF TableInv, CardsSound, CountSound
    <2> QED BY <1>6, <2>4, <2>5, <2>6 DEF TableInv
<1> QED BY <1>9, <1>10

LEMMA OthersChangeSound ==
    ASSUME TableInv, NEW id \in Ids, OthersChange(id)
    PROVE  TableInv'
<1>1. /\ TableTypes /\ leads \in [Ids -> LeadValues] /\ list \in Lists /\ former \in [view : Views, list : Lists]
      /\ former.list \in Lists /\ cards \in CardCounts
    BY DEF TableInv, TableTypes
<1>2. PICK lead \in [there : {TRUE}, stage : {Worked(id), Left}, mark : Marks] \cup {NoLead} :
          leads' = [leads EXCEPT ![id] = lead]
    BY DEF OthersChange
<1>3. lead \in LeadValues
    BY <1>1, <1>2, BlankCards DEF LeadValues, FieldValues, Worked, Left
<1>4. /\ list' = Untold(Behind(list)) /\ former' = [former EXCEPT !.list = Behind(@)]
      /\ cards' = Unsure(BehindCards(cards))
      /\ UNCHANGED <<board, scope, view, calls>>
    BY DEF OthersChange
<1>5. /\ list' \in Lists /\ former' \in [view : Views, list : Lists] /\ cards' \in CardCounts
      /\ former'.list = Behind(former.list) /\ former'.view = former.view /\ list'.fetch = Behind(list).fetch
    BY <1>1, <1>4, BehindList, UntoldList, BehindCounts, UnsureCards
<1>6. TableTypes'
    BY <1>1, <1>2, <1>3, <1>4, <1>5 DEF TableTypes
<1>7. AnswerSound(list.fetch, view, leads)' /\ AnswerSound(former.list.fetch, former.view, leads)'
    <2>1. AnswerSound(list'.fetch, view', leads') /\ AnswerSound(former'.list.fetch, former'.view, leads')
        BY <1>1, <1>4, <1>5, Overtaken DEF TableInv
    <2> QED BY <1>4, <2>1, SameBoard
<1>8. RowsSound'
    <2>1. /\ list'.rows = list.rows /\ list'.total = list.total /\ list'.failed = list.failed
          /\ list'.fetch.phase = list.fetch.phase /\ (list.fetch.phase = "none" => list'.excused)
        BY <1>1, <1>4, BehindList, UntoldList
    <2> QED BY <1>4, <2>1 DEF TableInv, RowsSound
<1>9. CardsSound'
    BY <1>1, <1>4, BehindCounts, UnsureCards DEF TableInv, CardsSound, CountSound
<1> QED BY <1>6, <1>7, <1>8, <1>9 DEF TableInv

LEMMA CallFailsSound ==
    ASSUME TableInv, NEW c \in calls, CallFails(c)
    PROVE  TableInv'
<1>1. /\ TableTypes /\ list \in Lists /\ cards \in CardCounts /\ c \in TableCalls
      /\ UNCHANGED <<board, scope, leads, view, former>> /\ calls' = calls \ {c}
    BY DEF TableInv, TableTypes, CallFails
<1>2. CASE c.phase # "ok"
    <2>1. UNCHANGED <<list, cards>>
        BY <1>2 DEF CallFails
    <2>2. TableTypes'
        BY <1>1, <2>1 DEF TableTypes
    <2>3. Landing' = Landing
        BY <1>1, <1>2 DEF Landing
    <2> QED BY <1>1, <2>1, <2>2, <2>3, SameBoard DEF TableInv, RowsSound, CardsSound
<1>3. CASE c.phase = "ok"
    <2>1. list' = Untold(list) /\ cards' = Unsure(cards)
        BY <1>3 DEF CallFails
    <2>2. TableTypes'
        BY <1>1, <2>1, UntoldList, UnsureCards DEF TableTypes
    <2>3. AnswerSound(list.fetch, view, leads)' /\ AnswerSound(former.list.fetch, former.view, leads)'
        BY <1>1, <2>1, UntoldList, SameBoard DEF TableInv
    <2>4. RowsSound'
        BY <1>1, <2>1, UntoldList DEF TableInv, RowsSound
    <2>5. CardsSound'
        BY <1>1, <2>1, UnsureCards DEF TableInv, CardsSound, CountSound
    <2> QED BY <2>2, <2>3, <2>4, <2>5 DEF TableInv
<1> QED BY <1>2, <1>3

LEMMA AnsweredSound ==
    ASSUME TableInv, NEW c \in calls, Answered(c)
    PROVE  TableInv'
<1>1. /\ TableTypes /\ cards \in CardCounts /\ list \in Lists /\ leads \in [Ids -> LeadValues] /\ list' = NoExcuse(Refetched)
      /\ cards' = (IF CardsTold(c.op) THEN CardsRefetched ELSE cards)
      /\ UNCHANGED <<board, scope, leads, view, former>> /\ calls' = calls \ {c}
    BY DEF TableInv, TableTypes, Answered
<1>2. list' \in Lists /\ list'.fetch \in {list.fetch, Fetching} /\ list'.fetch.phase # "none"
    BY <1>1, RefetchedList
<1>3. /\ cards' \in CardCounts
      /\ board = "induction" => cards'.fetch.phase # "none" /\ cards'.fetch \in {cards.fetch, Counting}
    BY <1>1, RecountingCards, BlankCards DEF CardsTold, CardsRefetched
<1>4. TableTypes'
    BY <1>1, <1>2, <1>3 DEF TableTypes
<1>5. AnswerSound(list.fetch, view, leads)' /\ AnswerSound(former.list.fetch, former.view, leads)'
    BY <1>1, <1>2, NothingAnswered, Blank, SameBoard DEF TableInv
<1>6. RowsSound'
    BY <1>2 DEF RowsSound
<1>7. CardsSound'
    BY <1>1, <1>3, BlankCards DEF TableInv, CardsSound, CountSound
<1> QED BY <1>4, <1>5, <1>6, <1>7 DEF TableInv

(* The answered lead in its row: the row is what it was, unless the lead   *)
(* has changed since, which excuses the table.                             *)
LEMMA RemarkAnsweredSound ==
    ASSUME TableInv, NEW c \in calls, RemarkAnswered(c)
    PROVE  TableInv'
<1>1. /\ TableTypes /\ list \in Lists /\ c \in TableCalls /\ c.op = "remark" /\ list' = Patched(list, c)
      /\ UNCHANGED <<board, scope, leads, view, former, cards>> /\ calls' = calls \ {c}
    BY DEF TableInv, TableTypes, RemarkAnswered
<1> DEFINE rows == [id \in DOMAIN list.rows |-> IF id = c.id THEN c.answer ELSE list.rows[id]]
<1>2. /\ list' \in Lists /\ list'.total = list.total /\ list'.failed = list.failed /\ list'.fetch = list.fetch
      /\ list'.rows = rows /\ list'.excused = (list.excused \/ c.answer # leads[c.id])
    BY <1>1, PatchedList
<1>3. TableTypes'
    BY <1>1, <1>2 DEF TableTypes
<1>4. Landing' = Landing
    BY <1>1 DEF Landing
<1>5. AnswerSound(list.fetch, view, leads)' /\ AnswerSound(former.list.fetch, former.view, leads)'
    BY <1>1, <1>2, SameBoard DEF TableInv
<1>6. RowsSound'
    <2> SUFFICES ASSUME list.fetch.phase = "none", ~list.failed
                 PROVE  /\ APage(rows, list.total, view) /\ view.page <= Pages(list.total)
                        /\ ~list'.excused /\ ~Landing => Current(rows, list.total, view, leads)
        BY <1>1, <1>2, <1>4, SameBoard DEF RowsSound
    <2>1. APage(list.rows, list.total, view) /\ view.page <= Pages(list.total)
          /\ (~list.excused /\ ~Landing => Current(list.rows, list.total, view, leads))
        BY DEF TableInv, RowsSound
    <2>2. APage(rows, list.total, view)
        BY <2>1 DEF APage
    <2>3. ASSUME ~list'.excused, ~Landing PROVE Current(rows, list.total, view, leads)
        <3>1. ~list.excused /\ c.answer = leads[c.id]
            BY <1>2, <2>3
        <3>2. list.rows = PageRows(view, leads) /\ list.total = Cardinality(Matching(view, leads))
            BY <2>1, <2>3, <3>1 DEF Current
        <3>3. \A id \in DOMAIN list.rows : list.rows[id] = leads[id]
            BY <3>2 DEF PageRows
        <3>4. rows = [id \in DOMAIN list.rows |-> list.rows[id]]
            BY <3>1, <3>3
        <3>5. list.rows = [id \in DOMAIN list.rows |-> list.rows[id]]
            BY <3>2 DEF PageRows
        <3> QED BY <3>2, <3>4, <3>5 DEF Current
    <2> QED BY <2>1, <2>2, <2>3
<1>7. CardsSound'
    BY <1>1, <1>4 DEF TableInv, CardsSound
<1> QED BY <1>3, <1>5, <1>6, <1>7 DEF TableInv

-----------------------------------------------------------------------------
LEMMA TableInitSound == TableInit => TableInv
<1> SUFFICES ASSUME TableInit PROVE TableInv
    OBVIOUS
<1>1. leads \in [Ids -> LeadValues]
    <2>1. NotYet \in LeadValues
        BY BlankCards DEF NotYet, LeadValues, FieldValues
    <2> QED BY <2>1, MarksAssumption DEF TableInit, LeadValues, FieldValues
<1>2. view \in Views /\ view.page > 0 /\ ~view.lost
    <2>1. FoundationView \in Views /\ FoundationView.page = 1 /\ ~FoundationView.lost
        BY DEF FoundationView, Views, AnySection, AnyStage, AnyMark, Menu
    <2>2. InductionView \in Views /\ InductionView.page = 1 /\ ~InductionView.lost
        BY <2>1 DEF InductionView, Views
    <2> QED BY <2>1, <2>2 DEF TableInit
<1>3. list \in Lists /\ list.fetch = Fetching
    BY Blank DEF TableInit, Lists
<1>4. former \in [view : Views, list : Lists] /\ former.list.fetch = NotFetching
    <2>1. NoView \in Views
        BY DEF NoView, Views, AnySection, AnyMark, Menu
    <2> QED BY <2>1, Blank DEF TableInit, NoFormer
<1>5. cards \in CardCounts /\ (board = "induction" => cards.fetch.phase = "sent")
    BY BlankCards DEF TableInit, CardCounts
<1>6. TableTypes
    BY <1>1, <1>2, <1>3, <1>4, <1>5 DEF TableInit, TableTypes
<1> QED BY <1>2, <1>3, <1>4, <1>5, <1>6, NothingAnswered, Blank DEF TableInv, RowsSound, CardsSound, CountSound

LEMMA TableStepSound == TableInv /\ [TableNext]_tableVars => TableInv'
<1> SUFFICES ASSUME TableInv, [TableNext]_tableVars PROVE TableInv'
    OBVIOUS
<1>1. CASE UNCHANGED tableVars
    BY <1>1, SameBoard DEF tableVars, TableInv, TableTypes, RowsSound, CardsSound, Landing
<1>2. CASE TableNext
    BY <1>2, LookingSound, ServeListSound, TakeListSound, FailListSound, FormerSettlesSound, CollectedSound, CountingSound,
       EditingSound, OthersChangeSound, ServeCallSound, AnsweredSound, RemarkAnsweredSound, CallFailsSound DEF TableNext
<1> QED BY <1>1, <1>2

THEOREM TableInvariance == TableSpec => []TableInv
BY TableInitSound, TableStepSound, PTL DEF TableSpec

-----------------------------------------------------------------------------
(* However pages are turned, filters set, rows edited and deleted and      *)
(* fetches dropped, the table (usePaginatedQuery) never settles on a page  *)
(* without rows while the total says that something matches: for any       *)
(* leads, page size and number of requests.                                *)
THEOREM PagesAreNotEmpty == TableSpec => []NoEmptyPage
<1>1. TableInv => NoEmptyPage
    <2> SUFFICES ASSUME TableInv, AtRest, list.total > 0 PROVE DOMAIN list.rows # {}
        BY DEF NoEmptyPage
    <2>1. APage(list.rows, list.total, view) /\ view.page <= Pages(list.total) /\ view.page \in Nat \ {0}
        BY DEF TableInv, RowsSound, AtRest, TableTypes, Views
    <2>2. PICK matching \in SUBSET Ids : DOMAIN list.rows = OnPage(view, matching) /\ list.total = Cardinality(matching)
        BY <2>1 DEF APage
    <2> QED BY <2>1, <2>2, PagesHaveRows
<1> QED BY <1>1, TableInvariance, PTL

(* A table at rest is the server's page of the view asked for, unless      *)
(* somebody else changed a lead or an answer was lost or overtaken.        *)
THEOREM TableKeepsInStep == TableSpec => []InStep
<1>1. TableInv => InStep
    BY DEF TableInv, RowsSound, InStep, AtRest, Landing, Current
<1> QED BY <1>1, TableInvariance, PTL

(* The Induction board's lit card counts what its table matched, once the  *)
(* table's query and the cards' own are both settled, and neither is       *)
(* excused: whichever was answered first, and however they were dropped    *)
(* and sent again by the edits and deletions between.                      *)
THEOREM InductionCardsCount == TableSpec => []InductionCardsAgree
<1>1. TableInv => InductionCardsAgree
    <2> SUFFICES ASSUME TableInv, AtRest, ~list.excused, CardsAtRest
                 PROVE  Cardinality(LitCard(view)) = list.total
        BY DEF InductionCardsAgree
    <2>1. cards.counted = leads /\ ~view.lost
        BY DEF TableInv, CardsSound, CardsAtRest, AtRest, Landing
    <2>2. LitCard(view) = Narrowed(leads, Section(view), view.stage, view.mark)
        BY <2>1 DEF LitCard
    <2>3. Matching(view, leads) = Narrowed(leads, Section(view), view.stage, view.mark)
        BY <2>1 DEF Matching
    <2>4. list.total = Cardinality(Matching(view, leads))
        BY DEF TableInv, RowsSound, AtRest, Landing, Current
    <2> QED BY <2>2, <2>3, <2>4
<1> QED BY <1>1, TableInvariance, PTL
=============================================================================
