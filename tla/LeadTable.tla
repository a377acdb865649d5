------------------------------ MODULE LeadTable ------------------------------
(***************************************************************************)
(* The table of the Foundation and of the Induction board: one page of a   *)
(* filtered list (usePaginatedQuery) under cards that count it and pick    *)
(* what it shows (FoundationLeadsBoard, InductionLeadsBoard).  Rows are    *)
(* edited in place and deleted; requests and fetches overlap, fail and     *)
(* lose their answers, and other staff change the leads meanwhile.  An     *)
(* entry of the Induction board is a lead here too.  The cache is TanStack *)
(* Query's, as far as the boards use it.                                   *)
(***************************************************************************)
EXTENDS Integers, FiniteSets

CONSTANTS
    Boards,      \* the boards considered: "foundation", "induction"
    Scopes,      \* the sections users are held to, AnySection for who is not
    SectionOf,   \* the section of each lead, by its number: newer leads have higher ones
    Linked,      \* the entries that have moved to Foundation
    Marks,       \* values of the field that is edited in its cell and filtered by
    PageSize,    \* rows to a page
    CanCreate,   \* whether the user may create leads
    CanDelete,   \* whether the user may delete leads
    SectionChoices, \* bound: the sections chosen, on a card or in the filter
    StageChoices, \* bound: the stages filtered by, and the tabs chosen
    MarkChoices, \* bound: the marks filtered by
    StartMarks,  \* bound: the marks leads have at first
    Edited,      \* bound: leads edited in their row
    Later,       \* bound: leads that may be created only now, on the Foundation board
    Others,      \* bound: leads other staff also change
    MaxViews,    \* bound: times the user turns to another view
    MaxCalls     \* bound: requests sent, and changes others make

AnySection == "any"
AnyStage == "any"
AnyMark == "any"
Ids == DOMAIN SectionOf
Sections == {SectionOf[id] : id \in Ids}

ASSUME IdsAssumption == Ids \subseteq Nat \ {0} /\ IsFiniteSet(Ids) /\ Linked \subseteq Ids
ASSUME PageAssumption == PageSize \in Nat \ {0}
ASSUME MarksAssumption == StartMarks \subseteq Marks
ASSUME ScopeAssumption == Scopes \subseteq Sections \cup {AnySection} /\ AnySection \notin Sections /\ AnyMark \notin Marks

VARIABLES
    board,       \* the board shown
    scope,       \* the user's scoped_section
    leads,       \* the leads as the server holds them
    view,        \* what the user asks the table for
    list,        \* the table's query
    former,      \* the query of the view left last
    cards,       \* the cards' query
    calls,       \* the requests under way
    counts       \* how often views were chosen, and leads changed

tableVars == <<board, scope, leads, view, list, former, cards, calls, counts>>

Count(what, bound) == counts[what] < bound /\ counts' = [counts EXCEPT ![what] = @ + 1]

-----------------------------------------------------------------------------
(* Leads and what narrows them.  A lead still worked on is a new lead, or  *)
(* pending or moved on the Induction board; one that quit is under Lost or *)
(* Quit.                                                                   *)

Worked(id) == IF board = "foundation" THEN "new_lead" ELSE IF id \in Linked THEN "moved" ELSE "pending"
Left == IF board = "foundation" THEN "lost" ELSE "quit"
Tabs == IF board = "foundation" THEN {"new_lead", "lost"} ELSE {"pending", "moved", "quit"}

NoLead == [there |-> FALSE, stage |-> "none", mark |-> "none"]
NotYet == [NoLead EXCEPT !.stage = "new_lead"]

Narrowed(held, section, stage, mark) ==
    {id \in Ids : /\ held[id].there
                  /\ section \in {AnySection, SectionOf[id]}
                  /\ stage \in {AnyStage, held[id].stage}
                  /\ mark \in {AnyMark, held[id].mark}}

(* effectiveSectionFilter: a Section Admin's own section always wins. *)
Section(v) == IF scope = AnySection THEN v.section ELSE scope

(* tableFilters; on the Quit Students tab the stage is Lost. *)
Matching(v, held) == Narrowed(held, Section(v), IF v.lost THEN Left ELSE v.stage, v.mark)

(* The rows of the page asked for, newest first. *)
OnPage(v, matching) ==
    {id \in matching : (Cardinality({other \in matching : other > id}) \div PageSize) + 1 = v.page}

PageRows(v, held) == [id \in OnPage(v, Matching(v, held)) |-> held[id]]

Pages(total) == IF total = 0 THEN 1 ELSE (total + PageSize - 1) \div PageSize

-----------------------------------------------------------------------------
(* The table's query.  `known` says the rows are this view's own, not the  *)
(* ones of the view before it, kept up meanwhile.  `excused` goes with     *)
(* rows somebody else has changed since, or that this tab was never told   *)
(* of; `behind`, with an answer given before such a change.                *)

NoRows == [id \in {} |-> NoLead]
NotFetching == [phase |-> "none", rows |-> NoRows, total |-> 0, behind |-> FALSE]
Fetching == [NotFetching EXCEPT !.phase = "sent"]
NoList == [known |-> FALSE, failed |-> FALSE, rows |-> NoRows, total |-> 0, fetch |-> NotFetching, excused |-> FALSE]

Taken(l) ==
    [known |-> TRUE, failed |-> FALSE, rows |-> l.fetch.rows, total |-> l.fetch.total, fetch |-> NotFetching,
     excused |-> l.fetch.behind]

(* Of a view that was left, its fetch and its numbers are kept here; the   *)
(* rows the cache has of it would be seen for a moment on the way back.    *)
Numbers(l) == [l EXCEPT !.rows = NoRows, !.failed = FALSE, !.excused = FALSE]

(* A fetch of the view left goes on, and into its cache. *)
FormerSettles ==
    LET v == former.view
        answer == [NotFetching EXCEPT !.rows = PageRows(v, leads), !.total = Cardinality(Matching(v, leads))]
    IN  /\ former.list.fetch.phase # "none"
        /\ former' = [former EXCEPT !.list = Numbers(Taken(IF @.fetch.phase = "sent" THEN [@ EXCEPT !.fetch = answer] ELSE @))]
        /\ UNCHANGED <<board, scope, leads, view, list, cards, calls, counts>>

Refetching(l) == [l EXCEPT !.fetch = Fetching, !.excused = FALSE]

(* What another view of the table shows at first: what the cache has of it *)
(* - the view left last is all that is kept here - or else the rows shown  *)
(* so far, until there are some of its own.                                *)
Shown(l, v) ==
    LET found == IF former.view = v THEN former.list ELSE NoList
        rows == [found EXCEPT !.rows = l.rows, !.total = IF found.known THEN @ ELSE l.total]
    IN  IF rows.fetch.phase = "none" THEN Refetching(rows) ELSE rows

(* A page past the last the numbers at hand have gives way to the last.    *)
LastPage(l, v) == [v EXCEPT !.page = IF @ > Pages(Shown(l, v).total) THEN Pages(Shown(l, v).total) ELSE @]

Turn(l, v) ==
    /\ view' = v
    /\ list' = Shown(l, v)
    /\ former' = [view |-> view, list |-> Numbers(l)]

Show(v) ==
    LET next == LastPage(list, v)
    IN  IF next = view THEN UNCHANGED <<view, list, former>> ELSE Turn(list, next)

StayWherever(taken) == list' = taken /\ UNCHANGED <<view, former>>

(* Rows answered, of a page that may be gone by now. *)
Stay(taken) ==
    IF view.page <= Pages(taken.total) THEN list' = taken /\ UNCHANGED <<view, former>>
    ELSE Turn(taken, [view EXCEPT !.page = Pages(taken.total)])

TakeList ==
    /\ list.fetch.phase = "answered"
    /\ Stay(Taken(list))
    /\ UNCHANGED <<board, scope, leads, cards, calls, counts>>

(* The query's one retry fails too: an error stands where the rows were,   *)
(* until a fetch is answered.                                              *)
FailList ==
    /\ list.fetch.phase # "none"
    /\ list' = [NoList EXCEPT !.known = list.known, !.failed = TRUE, !.total = IF list.known THEN list.total ELSE 0]
    /\ UNCHANGED <<board, scope, leads, view, former, cards, calls, counts>>

(* Five minutes after it was left, a view is out of the cache. *)
NoView == [section |-> AnySection, stage |-> "none", lost |-> FALSE, mark |-> AnyMark, page |-> 0]
NoFormer == [view |-> NoView, list |-> NoList]

Collected ==
    /\ former # NoFormer /\ former.list.fetch.phase = "none"
    /\ former' = NoFormer
    /\ UNCHANGED <<board, scope, leads, view, list, cards, calls, counts>>

RefetchedUnlessFetching == IF list.fetch.phase # "none" THEN list ELSE Refetching(list)

(* invalidateQueries: the view shown is fetched anew, whatever was under   *)
(* way is dropped - except a view's first fetch, which is left to finish.  *)
Refetched == IF ~list.known /\ list.fetch.phase # "none" THEN list ELSE Refetching(list)

-----------------------------------------------------------------------------
(* The Induction board's cards.  Their query holds what it counted, so     *)
(* that any card's number can be read off it; what they show while it is   *)
(* asked for anew, or that somebody has changed since, is left out.  So    *)
(* are the Foundation board's cards: a cell's edit leaves them as they     *)
(* were, and nothing is promised of them.                                  *)

(* activeFilters: the status is not sent, the cards count all three tabs.  *)
CardsKey(v) == [section |-> Section(v), mark |-> v.mark]

(* The card of the tab that is open. *)
LitCard(v) == Narrowed(cards.counted, Section(v), v.stage, v.mark)

NoLeads == [id \in Ids |-> NoLead]
NotCounting == [phase |-> "none", counted |-> NoLeads, behind |-> FALSE]
Counting == [NotCounting EXCEPT !.phase = "sent"]
NoCards == [known |-> FALSE, counted |-> NoLeads, excused |-> FALSE, fetch |-> NotCounting]

Recounting(c) == [c EXCEPT !.fetch = Counting, !.counted = NoLeads, !.excused = FALSE]

(* What the cache has of another key, which may have been seen before:     *)
(* nothing, or counts that are asked for anew; or a fetch still under way, *)
(* perhaps answered and overtaken, which is joined.                        *)
CachedCards ==
    [known : BOOLEAN, counted : {NoLeads}, excused : {FALSE},
     fetch : {Counting, [NotCounting EXCEPT !.phase = "answered", !.behind = TRUE]}]

(* The cards' query and the table's go with the filters, each with its own.*)
Browse(v) ==
    /\ Show(v)
    /\ IF board = "foundation" \/ CardsKey(view') = CardsKey(view) THEN UNCHANGED cards ELSE cards' \in CachedCards
    /\ IF view' = view THEN UNCHANGED counts ELSE Count("views", MaxViews)
    /\ UNCHANGED <<board, scope, leads, calls>>

(* A change goes past a count already made ... *)
PastCount(f) == IF f.phase = "answered" THEN [f EXCEPT !.counted = NoLeads, !.behind = TRUE] ELSE f
BehindCards(c) == [c EXCEPT !.fetch = PastCount(@)]

(* ... and past one that nobody will ask for anew. *)
Unsure(c) == IF board = "induction" /\ c.fetch.phase = "none" THEN [c EXCEPT !.counted = NoLeads, !.excused = TRUE] ELSE c

ServeList ==
    /\ list.fetch.phase = "sent"
    /\ list' = [list EXCEPT !.fetch = [phase |-> "answered", rows |-> PageRows(view, leads),
                                       total |-> Cardinality(Matching(view, leads)), behind |-> FALSE]]
    /\ UNCHANGED <<board, scope, leads, view, former, cards, calls, counts>>

ServeCards ==
    /\ cards.fetch.phase = "sent"
    /\ cards' = [cards EXCEPT !.fetch = [phase |-> "answered", counted |-> leads, behind |-> FALSE]]
    /\ UNCHANGED <<board, scope, leads, view, list, former, calls, counts>>

Counted(c) == [c EXCEPT !.known = TRUE, !.counted = c.fetch.counted, !.excused = c.fetch.behind, !.fetch = NotCounting]

TakeCards ==
    /\ cards.fetch.phase = "answered"
    /\ cards' = Counted(cards)
    /\ UNCHANGED <<board, scope, leads, view, list, former, calls, counts>>

FailCards ==
    /\ cards.fetch.phase # "none"
    /\ cards' = [cards EXCEPT !.fetch = NotCounting, !.counted = NoLeads, !.excused = TRUE]
    /\ UNCHANGED <<board, scope, leads, view, list, former, calls, counts>>

-----------------------------------------------------------------------------
(* Choosing what to see.  Every filter starts its view on page 1; the      *)
(* Foundation board's controls do even when they choose what is chosen.    *)

Chosen(v) ==
    Browse([v EXCEPT !.page = IF board = "foundation" \/ [v EXCEPT !.page = view.page] # view THEN 1 ELSE view.page])

(* A section's card: leaves the Quit Students tab, as the toolbar's        *)
(* Section filter does not.                                                *)
SelectSection(section) ==
    /\ board = "foundation" /\ scope = AnySection
    /\ Chosen([view EXCEPT !.section = section, !.lost = FALSE])

FilterSection(section) ==
    /\ scope = AnySection
    /\ Chosen([view EXCEPT !.section = section])

SelectLost ==
    /\ board = "foundation" /\ scope = AnySection
    /\ Chosen([view EXCEPT !.section = AnySection, !.stage = AnyStage, !.lost = TRUE])

(* The toolbar's Stage filter, and a Section Admin's cards. *)
FilterStage(stage) ==
    /\ board = "foundation" /\ ~view.lost
    /\ Chosen([view EXCEPT !.stage = stage])

SelectTab(tab) ==
    /\ board = "induction"
    /\ Chosen([view EXCEPT !.stage = tab])

(* A filter's menu: its options, and "All", which clears it. *)
Menu(options) == options \cup {"any"}

(* The other filters of either toolbar, the search box, the dates. *)
FoundationFilter(mark) == board = "foundation" /\ Chosen([view EXCEPT !.mark = mark])
InductionFilter(mark) == board = "induction" /\ Chosen([view EXCEPT !.mark = mark])

TurnPage(page) ==
    /\ page \in 1..Pages(list.total) /\ page \in {view.page - 1, view.page + 1}
    /\ Browse([view EXCEPT !.page = page])

-----------------------------------------------------------------------------
(* Changing a row.  What a row offers goes with the board and the tab.     *)

OnRow(id) == id \in DOMAIN list.rows

(* A cell, the remarks' calendar on the Foundation board, and the stage: a *)
(* lead's popup there, the call remark's cell on the Induction board.      *)
(* Leads are created on the Foundation board alone.                        *)
FoundationCells == {"mark"}
FoundationPopups == {"stage", "remark"}
InductionCells == {"mark", "stage"}
FoundationActions == IF CanDelete THEN {"delete"} ELSE {}
InductionActions == IF CanDelete THEN {"delete"} ELSE {}

CreateAction == IF CanCreate THEN {"create"} ELSE {}

RowOffers ==
    IF board = "foundation" THEN FoundationCells \cup FoundationPopups \cup FoundationActions \cup CreateAction
    ELSE InductionCells \cup InductionActions

NewValues(op, id) ==
    CASE op = "mark" -> Marks \ {list.rows[id].mark}
      [] op = "stage" -> {Worked(id), Left} \ {list.rows[id].stage}
      [] OTHER -> {"none"}

SendCall(op, id, value) ==
    /\ op \in RowOffers
    /\ Count("changes", MaxCalls)
    /\ \A c \in calls : c.id # id \/ c.op # op
    /\ calls' = calls \cup {[op |-> op, id |-> id, value |-> value, phase |-> "sent", answer |-> NoLead]}
    /\ UNCHANGED <<board, scope, leads, view, list, former, cards>>

(* CreateLeadModal, one at a time; a Section Admin's lead is of their      *)
(* section.                                                                *)
Create(id) ==
    /\ id \in Later /\ leads[id] = NotYet /\ scope \in {AnySection, SectionOf[id]}
    /\ \A c \in calls : c.op # "create"
    /\ \E mark \in StartMarks : SendCall("create", id, mark)

Edit(op, id) ==
    /\ id \in Edited /\ OnRow(id) /\ \E value \in NewValues(op, id) : SendCall(op, id, value)

(* The dialog names its lead, and may stay open while the table moves on.  *)
Delete(id) ==
    /\ \A c \in calls : c.op # "delete"
    /\ SendCall("delete", id, "none")

-----------------------------------------------------------------------------
(* The server. *)

(* A change goes past an answer already given. *)
Behind(l) == [l EXCEPT !.fetch.behind = @ \/ l.fetch.phase = "answered"]

(* Rows nobody will fetch anew. *)
Untold(l) == [l EXCEPT !.excused = l.fetch.phase = "none"]

ServeCall(c) ==
    LET lead == CASE c.op = "mark" -> [leads[c.id] EXCEPT !.mark = c.value]
                  [] c.op = "stage" -> [leads[c.id] EXCEPT !.stage = c.value]
                  [] c.op = "remark" -> leads[c.id]
                  [] c.op = "delete" -> NoLead
                  [] c.op = "create" -> [there |-> TRUE, stage |-> "new_lead", mark |-> c.value]
    IN  /\ c.phase = "sent" /\ (leads[c.id].there \/ c.op = "create")
        /\ leads' = [leads EXCEPT ![c.id] = lead]
        /\ calls' = (calls \ {c}) \cup {[c EXCEPT !.phase = "ok", !.value = "none", !.answer = IF c.op = "remark" THEN lead ELSE NoLead]}
        /\ list' = IF lead = leads[c.id] THEN list ELSE Behind(list)
        /\ former' = IF lead = leads[c.id] THEN former ELSE [former EXCEPT !.list = Behind(@)]
        /\ cards' = IF lead = leads[c.id] THEN cards ELSE BehindCards(cards)
        /\ UNCHANGED <<board, scope, view, counts>>

(* Not found any more, or lost on its way there or back. *)
CallFails(c) ==
    /\ calls' = calls \ {c}
    /\ list' = IF c.phase = "ok" THEN Untold(list) ELSE list
    /\ cards' = IF c.phase = "ok" THEN Unsure(cards) ELSE cards
    /\ UNCHANGED <<board, scope, leads, view, former, counts>>

(* Other staff edit, quit, take back or delete a lead. *)
OthersChange(id) ==
    /\ id \in Others /\ leads[id].there
    /\ Count("changes", MaxCalls)
    /\ \E lead \in [there : {TRUE}, stage : {Worked(id), Left}, mark : Marks] \cup {NoLead} :
           lead # leads[id] /\ leads' = [leads EXCEPT ![id] = lead]
    /\ list' = Untold(Behind(list))
    /\ former' = [former EXCEPT !.list = Behind(@)]
    /\ cards' = Unsure(BehindCards(cards))
    /\ UNCHANGED <<board, scope, view, calls>>

-----------------------------------------------------------------------------
(* The answers. *)

(* The cards' key begins with the list's, and is fetched anew with it.     *)
CardsRefetched ==
    IF ~cards.known /\ cards.fetch.phase # "none" THEN cards ELSE Recounting(cards)

CardsToldOnDelete(op) == board = "induction" /\ op = "delete"

CardsTold(op) == board = "induction"

(* Told of a change, only a view's first fetch may still bring the rows of *)
(* before it.                                                              *)
NoExcuse(l) == [l EXCEPT !.fetch.behind = @ /\ ~list.known]

Answered(c) ==
    /\ c.phase = "ok" /\ c.op # "remark"
    /\ calls' = calls \ {c}
    /\ list' = NoExcuse(Refetched)
    /\ cards' = IF CardsTold(c.op) THEN CardsRefetched ELSE cards
    /\ UNCHANGED <<board, scope, leads, view, former, counts>>

(* LeadRemarksCell.applyLead: the row becomes the lead as answered, and    *)
(* nothing is fetched.                                                     *)
Patched(l, c) == [l EXCEPT !.rows = [id \in DOMAIN @ |-> IF id = c.id THEN c.answer ELSE @[id]],
                           !.excused = @ \/ c.answer # leads[c.id]]

RemarkAnswered(c) ==
    /\ c.phase = "ok" /\ c.op = "remark"
    /\ calls' = calls \ {c}
    /\ list' = Patched(list, c)
    /\ UNCHANGED <<board, scope, leads, view, former, cards, counts>>

-----------------------------------------------------------------------------
(* Nothing is filtered at first; the Induction board opens on its pending. *)
FoundationView == [section |-> AnySection, stage |-> AnyStage, lost |-> FALSE, mark |-> AnyMark, page |-> 1]
InductionView == [FoundationView EXCEPT !.stage = "pending"]

TableInit ==
    /\ board \in Boards /\ scope \in Scopes
    /\ leads \in [Ids -> [there : {TRUE}, stage : {"new_lead", "pending", "moved"}, mark : StartMarks] \cup {NotYet}]
    /\ \A id \in Ids : leads[id].stage = Worked(id) /\ (leads[id] = NotYet => board = "foundation" /\ id \in Later)
    /\ view = IF board = "foundation" THEN FoundationView ELSE InductionView
    /\ list = [NoList EXCEPT !.fetch = Fetching]
    /\ former = NoFormer
    /\ cards = IF board = "induction" THEN [NoCards EXCEPT !.fetch = Counting] ELSE NoCards
    /\ calls = {}
    /\ counts = [views |-> 0, changes |-> 0]

TableNext ==
    \/ \E section \in Menu(SectionChoices) : SelectSection(section) \/ FilterSection(section)
    \/ SelectLost
    \/ \E stage \in Menu(StageChoices \cap Tabs) : FilterStage(stage)
    \/ \E tab \in StageChoices \cap Tabs : SelectTab(tab)
    \/ \E mark \in Menu(MarkChoices) : FoundationFilter(mark) \/ InductionFilter(mark)
    \/ \E page \in 1..Cardinality(Ids) : TurnPage(page)
    \/ ServeList \/ TakeList \/ FailList
    \/ FormerSettles \/ Collected
    \/ ServeCards \/ TakeCards \/ FailCards
    \/ \E id \in Ids : Create(id) \/ Delete(id) \/ OthersChange(id) \/ \E op \in {"mark", "stage", "remark"} : Edit(op, id)
    \/ \E c \in calls : ServeCall(c) \/ Answered(c) \/ RemarkAnswered(c) \/ CallFails(c)

TableSpec == TableInit /\ [][TableNext]_tableVars

-----------------------------------------------------------------------------
(* Properties. *)

AtRest == list.fetch.phase = "none" /\ ~list.failed /\ calls = {}

(* The table settles on a page that has rows whenever anything matches: no *)
(* "Showing 21-1 of 1" after the last row of the last page is deleted, a   *)
(* filter is set on page 2, or an edit takes a row out of its own view.    *)
NoEmptyPage == AtRest /\ list.total > 0 => DOMAIN list.rows # {}

(* Once it is settled the table is the server's page of the view asked     *)
(* for, however views, fetches and the user's own edits and deletions      *)
(* crossed - unless somebody else changed a lead, or an answer was lost or *)
(* overtaken.                                                              *)
InStep == AtRest /\ ~list.excused => list.rows = PageRows(view, leads) /\ list.total = Cardinality(Matching(view, leads))

CardsAtRest == board = "induction" /\ cards.fetch.phase = "none" /\ ~cards.excused

(* The Induction board's lit card says how many rows the table matched,    *)
(* once the two queries are settled, each fetched and answered for itself. *)
(* Excused are the same as for the table: a count that others have gone    *)
(* past, or answered late and never asked for anew.                        *)
InductionCardsAgree ==
    AtRest /\ ~list.excused /\ CardsAtRest => Cardinality(LitCard(view)) = list.total
=============================================================================
