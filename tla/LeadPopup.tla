------------------------------ MODULE LeadPopup ------------------------------
(***************************************************************************)
(* The lead popup of the Foundation board (LeadDetailModal.jsx), open on a *)
(* lead other staff change meanwhile.  The popup works from the copy of    *)
(* the lead it last received and addresses payments by their place in it;  *)
(* its requests overlap, are answered in any order, fail or lose their     *)
(* answer.  The lead on the server is LeadService's, with the fee and the  *)
(* amounts small numbers and the balance's date a flag.                    *)
(***************************************************************************)
EXTENDS Integers, Sequences, SequencesExt, FiniteSets, Lists

CONSTANTS
    Fee,         \* what the lead's payment plan prices
    Figures,     \* the amounts somebody types
    Targets,     \* the stages somebody moves the lead to
    MaxCalls,    \* bound: requests the popup sends in a behaviour
    MaxOthers,   \* bound: the lead's revision up to which others change it
    MaxDrafts    \* bound: unsaved payment cards

ASSUME FeeAssumption == Fee \in Nat \ {0} /\ Figures \subseteq Nat \ {0}
ASSUME BoundsAssumption == {MaxCalls, MaxOthers} \subseteq Nat /\ MaxDrafts \in Nat \ {0}

VARIABLES
    stored,      \* the lead as the server holds it
    view,        \* the popup's React state
    calls        \* the requests sent, in order

popupVars == <<stored, view, calls>>

StageOrder == <<"new_lead", "rnr", "pre_screening", "token_amount", "financial_approval", "batch_confirmation">>
AllStages == ToSet(StageOrder) \cup {"lost"}

ASSUME TargetsAssumption == Targets \subseteq AllStages

-----------------------------------------------------------------------------
(* The lead: its stage, whether it has a plan, money recorded the older    *)
(* way, the token and payments in order, and whether the balance is dated. *)

Installment == [id : Nat, kind : {"token", "payment"}, amount : Nat]
Lead == [stage : AllStages, plan : BOOLEAN, older : BOOLEAN, entries : Seq(Installment), dated : BOOLEAN, rev : Nat]

Received(l) == Total([i \in DOMAIN l.entries |-> l.entries[i].amount])
LeftToPay(l) == IF l.plan THEN Fee - Received(l) ELSE 0
Owing(l) == LeftToPay(l) > 0
TokenEntries(l) == OfKind(l.entries, "token")
PaymentEntries(l) == OfKind(l.entries, "payment")
OldestFirst(es) == OfKind(es, "token") \o OfKind(es, "payment")

TokenPaid(l) == TokenEntries(l) # <<>>
HasFirstPayment(l) == IF l.plan THEN l.entries # <<>> ELSE l.older

Reversal(from, to) ==
    \E i, j \in DOMAIN StageOrder : StageOrder[i] = to /\ StageOrder[j] = from /\ i < j

-----------------------------------------------------------------------------
(* The popup.  `forms` holds, for each saved payment's card, the entry its   *)
(* form was filled from when the card was mounted, and `tokenForm` the     *)
(* same of the token's card; `base` is the revision the open stage prompt  *)
(* was worked out from.                                                    *)

NoKey == [sort |-> "none", n |-> 0]
TokenKey == [sort |-> "token", n |-> 0]
PaymentKey(n) == [sort |-> "payment", n |-> n]
DraftKey(d) == [sort |-> "draft", n |-> d]
Keys == {NoKey, TokenKey} \cup {PaymentKey(n) : n \in 1..MaxCalls + MaxOthers + 3} \cup {DraftKey(d) : d \in 0..MaxDrafts}

NoForm == 0
NoPrompt == [to |-> "none", why |-> FALSE, base |-> 0]

FormsFor(l) == [n \in DOMAIN PaymentEntries(l) |-> PaymentEntries(l)[n].id]
TokenFormFor(l) == IF TokenPaid(l) THEN TokenEntries(l)[1].id ELSE NoForm
DraftsFor(l) == IF PaymentEntries(l) = <<>> THEN {0} ELSE {}

(* The payment section is drawn on the Overview tab of a lead that has not *)
(* quit; mounted anew, it starts its drafts and forms from its lead.       *)
SectionShown(l, tab) == tab = "overview" /\ l.stage # "lost"

Mounted(v) ==
    [v EXCEPT !.drafts = DraftsFor(v.live), !.forms = FormsFor(v.live), !.tokenForm = TokenFormFor(v.live)]

OpenOn(l) ==
    Mounted([open |-> TRUE, tab |-> "overview", live |-> l, drafts |-> {}, next |-> 1, forms |-> <<>>,
             tokenForm |-> NoForm, saving |-> NoKey, prompt |-> NoPrompt, disturbed |-> FALSE])

NoLead == [stage |-> "lost", plan |-> FALSE, older |-> FALSE, entries |-> <<>>, dated |-> FALSE, rev |-> 0]
Closed == [OpenOn(NoLead) EXCEPT !.open = FALSE]

(* setLiveLead with the same card keys: a card still in the list keeps the *)
(* form it was mounted with, one past the end of the old list is new.      *)
(* The token's card goes when there is neither a token nor a place for one.*)
TokenCardShown(l) == TokenPaid(l) \/ (Owing(l) /\ PaymentEntries(l) = <<>>)

SameKeys(v, l) ==
    LET kept == [n \in DOMAIN PaymentEntries(l) |-> IF n \in DOMAIN v.forms THEN v.forms[n] ELSE PaymentEntries(l)[n].id]
        token == IF TokenCardShown(v.live) /\ TokenCardShown(l) THEN v.tokenForm ELSE TokenFormFor(l)
        next == [v EXCEPT !.live = l, !.forms = kept, !.tokenForm = token]
    IN  IF SectionShown(v.live, v.tab) = SectionShown(l, v.tab) THEN next ELSE Mounted(next)

(* The same with new keys for the saved cards: paymentDeletions counted up.*)
NewKeysForDraftsOnly(v, l) == SameKeys(v, l)

NewKeys(v, l) == [SameKeys(v, l) EXCEPT !.forms = FormsFor(l), !.tokenForm = TokenFormFor(l)]

(* PaymentCollectionSection's cards: the token's, the saved payments', and *)
(* the drafts' while anything is owed.                                     *)
SavedCards(v) ==
    {PaymentKey(n) : n \in DOMAIN PaymentEntries(v.live)} \cup (IF TokenPaid(v.live) THEN {TokenKey} ELSE {})
NewCards(v) ==
    (IF Owing(v.live) THEN {DraftKey(d) : d \in v.drafts} ELSE {})
        \cup (IF TokenCardShown(v.live) /\ ~TokenPaid(v.live) THEN {TokenKey} ELSE {})

Kind(card) == IF card.sort = "token" THEN "token" ELSE "payment"

(* A card's place in the installments list, what requests address it by.   *)
Place(l, card) == IF card.sort = "token" THEN 1 ELSE card.n + Len(TokenEntries(l))

-----------------------------------------------------------------------------
(* Requests.  `heard` goes once the popup that sent it has closed; `takes` *)
(* is the draft a save takes away.  What only the server reads of a        *)
(* request goes once it has been answered: Answered.  The answer to a      *)
(* stage move or a follow-up closes the popup whichever it is: with its    *)
(* own popup gone, the one open by then (StillCloses).                     *)

Request(op) ==
    [heard |-> TRUE, op |-> op, phase |-> "sent", card |-> NoKey, place |-> 0, kind |-> "payment", amount |-> 0,
     dated |-> FALSE, to |-> "none", reason |-> FALSE, takes |-> {},
     base |-> view.live.rev, answer |-> NoLead]

Finished == [heard |-> FALSE, op |-> "none", phase |-> "done", card |-> NoKey, place |-> 0, kind |-> "payment",
             amount |-> 0, dated |-> FALSE, to |-> "none", reason |-> FALSE, takes |-> {},
             base |-> 0, answer |-> NoLead]

StillCloses == [Finished EXCEPT !.phase = "closes"]
Closing(c) == c.op \in {"stage", "followup"}

Answered(c, phase, answer) ==
    IF c.heard THEN [Finished EXCEPT !.heard = TRUE, !.op = c.op, !.phase = phase, !.card = c.card, !.kind = c.kind,
                                     !.takes = c.takes, !.answer = answer]
    ELSE IF phase = "ok" /\ Closing(c) THEN StillCloses
    ELSE Finished

Pending(op) == \E n \in DOMAIN calls : calls[n].heard /\ calls[n].op = op

SendAfter(earlier, request) ==
    /\ Len(calls) < MaxCalls
    /\ calls' = Append(earlier, request)
    /\ UNCHANGED stored

Send(request) == SendAfter(calls, request)

(* Of two saves under way the later takes over the mutation's observer,    *)
(* and a section that unmounts gives it up: the earlier save's own         *)
(* onSuccess, which takes its draft away, is never called.                 *)
TakingNothing == [n \in DOMAIN calls |-> IF calls[n].heard THEN [calls[n] EXCEPT !.takes = {}] ELSE calls[n]]

Shown == view.open /\ SectionShown(view.live, view.tab)

-----------------------------------------------------------------------------
(* What the member of staff does. *)

Open ==
    /\ ~view.open
    /\ view' = OpenOn(stored)
    /\ UNCHANGED <<stored, calls>>

(* The popup has closed: its mutations' answers change it no more, but the *)
(* onSuccess of a stage move or a follow-up is still to come.              *)
Left(c) ==
    CASE c.phase = "sent" -> [c EXCEPT !.heard = FALSE]
      [] c.phase = "ok" /\ Closing(c) -> StillCloses
      [] OTHER -> Finished

Orphaned == [n \in DOMAIN calls |-> IF calls[n].heard THEN Left(calls[n]) ELSE calls[n]]

Close ==
    /\ view.open
    /\ view' = Closed
    /\ calls' = Orphaned
    /\ UNCHANGED stored

(* Leaving the Overview tab unmounts the payment section: the drafts go,   *)
(* and a save that was to take its draft away has nothing left to take.    *)
SwitchTab ==
    /\ view.open
    /\ view' = Mounted([view EXCEPT !.tab = IF @ = "overview" THEN "other" ELSE "overview"])
    /\ calls' = TakingNothing
    /\ UNCHANGED stored

AddDraft ==
    /\ Shown /\ Owing(view.live)
    /\ view.next < MaxDrafts
    /\ view' = [view EXCEPT !.drafts = @ \cup {view.next}, !.next = @ + 1]
    /\ UNCHANGED <<stored, calls>>

RemoveDraft(d) ==
    /\ Shown
    /\ DraftKey(d) \in NewCards(view)
    /\ Cardinality((NewCards(view) \cup SavedCards(view)) \ {TokenKey}) > 1
    /\ view' = [view EXCEPT !.drafts = @ \ {d}]
    /\ UNCHANGED <<stored, calls>>

(* PaymentCard.handleSave and PaymentCollectionSection.save: the checks a  *)
(* save passes before it is sent, the balance's date asked for when some   *)
(* is left and none is promised.  An amount, a mode and the proof, which   *)
(* the form always asks for, are filled in.                                *)
HeldBy(l, card) == IF card.sort = "draft" \/ (card = TokenKey /\ ~TokenPaid(l)) THEN 0 ELSE l.entries[Place(l, card)].amount

Remaining(card, amount) == LeftToPay(view.live) + HeldBy(view.live, card) - amount

SaveChecked(card, amount) == Remaining(card, amount) >= 0
AsksDate(card, amount) == Remaining(card, amount) > 0 /\ ~view.live.dated

PressSave(card, amount) ==
    LET isNew == card \in NewCards(view)
    IN  /\ Shown /\ view.live.plan
        /\ card \in NewCards(view) \cup SavedCards(view)
        /\ view.saving # card
        /\ SaveChecked(card, amount)
        /\ view' = [view EXCEPT !.saving = card]
        /\ SendAfter(TakingNothing, [Request(IF isNew THEN "record" ELSE "correct") EXCEPT
                   !.card = card, !.kind = Kind(card), !.amount = amount,
                   !.takes = IF card.sort = "draft" THEN {card.n} ELSE {},
                   !.place = IF isNew THEN 0 ELSE Place(view.live, card),
                   !.dated = AsksDate(card, amount)])

(* An administrator's Delete, confirmed with a reason; only the card of    *)
(* the latest deletion has its button off while that is under way.         *)
Deletes(c, card) == c.heard /\ c.op = "delete" /\ c.card = card

PressDelete(card) ==
    LET forgotten == [n \in DOMAIN calls |-> IF calls[n].op = "delete" THEN [calls[n] EXCEPT !.card = NoKey] ELSE calls[n]]
    IN  /\ Shown
        /\ card \in SavedCards(view)
        /\ ~\E n \in DOMAIN calls : Deletes(calls[n], card)
        /\ SendAfter(forgotten, [Request("delete") EXCEPT !.card = card, !.place = Place(view.live, card)])
        /\ UNCHANGED view

(* BalancePanel: the next payment date set or cleared. *)
PressSaveBalance ==
    /\ Shown /\ Owing(view.live)
    /\ ~Pending("balance")
    /\ Send([Request("balance") EXCEPT !.dated = ~view.live.dated])
    /\ UNCHANGED view

(* PlanAssignmentForm, on a lead without a plan. *)
PressAssignPlan ==
    /\ Shown /\ ~view.live.plan
    /\ ~Pending("plan")
    /\ Send(Request("plan"))
    /\ UNCHANGED view

(* RejoinPanel, on a lead that has quit, with a course chosen. *)
PressRejoin ==
    /\ view.open /\ view.tab = "overview" /\ view.live.stage = "lost"
    /\ ~Pending("rejoin")
    /\ Send(Request("rejoin"))
    /\ UNCHANGED view

(* FollowUpTab: a day for the next call, and a remark. *)
PressFollowUp ==
    /\ view.open /\ view.tab = "other"
    /\ ~Pending("followup")
    /\ Send(Request("followup"))
    /\ UNCHANGED view

BlockedWithoutToken(l, to) ==
    /\ l.stage # to
    /\ to \in {"financial_approval", "batch_confirmation"} /\ ~HasFirstPayment(l)

(* stageBlockReason *)
Blocked(l, to) ==
    /\ l.stage # to
    /\ \/ to = "token_amount" /\ ~TokenPaid(l)
       \/ to \in {"financial_approval", "batch_confirmation"} /\ ~HasFirstPayment(l)

StageAsksWhy(l, to) == to = "lost" \/ Reversal(l.stage, to)
StageAsksWhen(l, to) == to = "pre_screening" /\ l.stage # "pre_screening"

(* selectStage: the move is sent at once, or a prompt asks why or when.    *)
SelectStage(to) ==
    /\ view.open /\ view.tab = "overview"
    /\ ~Pending("stage")
    /\ ~Blocked(view.live, to)
    /\ \/ /\ StageAsksWhy(view.live, to) \/ StageAsksWhen(view.live, to)
          /\ view' = [view EXCEPT !.prompt = [to |-> to, why |-> StageAsksWhy(view.live, to), base |-> view.live.rev]]
          /\ UNCHANGED <<stored, calls>>
       \/ /\ ~StageAsksWhy(view.live, to) /\ ~StageAsksWhen(view.live, to)
          /\ Send([Request("stage") EXCEPT !.to = to])
          /\ UNCHANGED view

CancelStage ==
    /\ view.open /\ view.prompt # NoPrompt
    /\ view' = [view EXCEPT !.prompt = NoPrompt]
    /\ UNCHANGED <<stored, calls>>

(* confirmPendingStage, once the reason and the time asked for are given.  *)
ConfirmStage ==
    LET prompt == view.prompt
    IN  /\ view.open /\ prompt # NoPrompt
        /\ ~Pending("stage")
        /\ Send([Request("stage") EXCEPT !.to = prompt.to, !.reason = prompt.why, !.base = prompt.base])
        /\ UNCHANGED view

-----------------------------------------------------------------------------
(* What the server makes of a request: LeadService, one call at a time.    *)

Paid == {"token_amount", "financial_approval", "batch_confirmation"}

AcceptsMoney(l, c) ==
    LET others == IF c.op = "correct" THEN Received(l) - l.entries[c.place].amount ELSE Received(l)
    IN  /\ others + c.amount <= Fee
        /\ others + c.amount < Fee => c.dated \/ (l.dated /\ Owing(l))

Accepts(l, c) ==
    \/ /\ c.op = "record"
       /\ l.plan
       /\ c.kind = "token" => ~TokenPaid(l)
       /\ AcceptsMoney(l, c)
    \/ /\ c.op = "correct"
       /\ l.plan
       /\ c.place \in DOMAIN l.entries
       /\ AcceptsMoney(l, c)
    \/ /\ c.op = "delete"
       /\ c.place \in DOMAIN l.entries
       /\ ~(l.stage = "token_amount" /\ l.entries[c.place].kind = "token")
       /\ l.stage \in Paid => Len(l.entries) > 1
    \/ c.op = "balance" /\ Owing(l)
    \/ c.op \in {"plan", "followup"}
    \/ c.op = "rejoin" /\ l.stage = "lost"
    \/ /\ c.op = "stage"
       /\ \/ l.stage = c.to
          \/ /\ c.to = "token_amount" => TokenPaid(l)
             /\ c.to \in Paid \ {"token_amount"} => HasFirstPayment(l)
             /\ c.to = "lost" \/ Reversal(l.stage, c.to) => c.reason

Recorded(l, c) ==
    LET ledger == IF c.op = "record"
                   THEN OldestFirst(Append(l.entries, [id |-> l.rev + 3, kind |-> c.kind, amount |-> c.amount]))
                   ELSE [l.entries EXCEPT ![c.place].amount = c.amount]
        after == [l EXCEPT !.entries = ledger]
        toToken == c.op = "record" /\ c.kind = "token" /\ l.stage \in {"new_lead", "rnr", "pre_screening"}
    IN  [after EXCEPT !.dated = Owing(after) /\ (c.dated \/ @),
                      !.stage = IF toToken THEN "token_amount" ELSE @]

LeadAfter(l, c) ==
    LET done == CASE c.op \in {"record", "correct"} -> Recorded(l, c)
                  [] c.op = "delete" -> [l EXCEPT !.entries = RemoveAt(@, c.place), !.dated = @ /\ Owing(l)]
                  [] c.op = "balance" -> [l EXCEPT !.dated = c.dated]
                  [] c.op = "plan" -> [l EXCEPT !.plan = TRUE]
                  [] c.op = "followup" -> l
                  [] c.op = "rejoin" -> [l EXCEPT !.stage = "new_lead"]
                  [] c.op = "stage" -> [l EXCEPT !.stage = c.to]
    IN  [done EXCEPT !.rev = l.rev + 1]

(* A payment deleted or a token recorded by somebody else is one a popup's *)
(* cards do not know of, and so is its own when the answer is lost.        *)
MovesCards(c) == c.op = "delete" \/ (c.op = "record" /\ c.kind = "token")

Disturbed(c) == [view EXCEPT !.disturbed = @ \/ (view.open /\ ~c.heard /\ MovesCards(c))]

Serve(n) ==
    LET c == calls[n]
        after == LeadAfter(stored, c)
    IN  /\ n \in DOMAIN calls
        /\ c.phase = "sent"
        /\ \/ /\ Accepts(stored, c)
              /\ stored' = after
              /\ calls' = [calls EXCEPT ![n] = Answered(@, "ok", after)]
              /\ view' = Disturbed(c)
           \/ /\ ~Accepts(stored, c)
              /\ calls' = [calls EXCEPT ![n] = Answered(@, "failed", NoLead)]
              /\ UNCHANGED <<stored, view>>

(* Another member of staff, through a popup of their own: any request the  *)
(* server takes, as many as MaxOthers allows.                              *)
Unheard(op) == [Finished EXCEPT !.op = op, !.phase = "sent", !.reason = TRUE]

OthersRequests ==
    {[Unheard("record") EXCEPT !.kind = p.kind, !.amount = p.amount, !.dated = p.dated] :
        p \in [kind : {"token", "payment"}, amount : Figures, dated : BOOLEAN]}
    \cup {[Unheard("correct") EXCEPT !.place = p.place, !.amount = p.amount, !.dated = TRUE] :
        p \in [place : 1..Fee, amount : Figures]}
    \cup {[Unheard("delete") EXCEPT !.place = i] : i \in 1..Fee}
    \cup {[Unheard("balance") EXCEPT !.dated = d] : d \in BOOLEAN}
    \cup {[Unheard("stage") EXCEPT !.to = to] : to \in Targets}
    \cup {Unheard("plan"), Unheard("rejoin")}

OtherStaff ==
    /\ stored.rev < MaxOthers
    /\ \E c \in OthersRequests :
          /\ Accepts(stored, c)
          /\ stored' = LeadAfter(stored, c)
          /\ view' = Disturbed(c)
    /\ UNCHANGED calls

(* The network fails: the request never arrives, or its answer does not.   *)
Fail(n) ==
    LET c == calls[n]
    IN  /\ n \in DOMAIN calls
        /\ c.heard
        /\ c.phase \in {"sent", "ok"}
        /\ calls' = [calls EXCEPT ![n] = Answered(@, "failed", NoLead)]
        /\ view' = [view EXCEPT !.disturbed = @ \/ (c.phase = "ok" /\ MovesCards(c))]
        /\ UNCHANGED stored

-----------------------------------------------------------------------------
(* The answers, as the mutations' callbacks take them. *)

Overtakes(n) ==
    \E m \in DOMAIN calls :
        calls[m].phase = "ok" /\ calls[m].answer.rev < calls[n].answer.rev

DeliverSaveAnyCard(n) ==
    LET c == calls[n]
        next == IF c.phase = "ok"
                THEN [SameKeys(view, c.answer) EXCEPT !.drafts = @ \ c.takes,
                                                   !.tokenForm = IF c.card = TokenKey THEN TokenFormFor(c.answer) ELSE @,
                                                   !.disturbed = @ \/ Overtakes(n)]
                ELSE view
    IN  /\ c.op \in {"record", "correct"}
        /\ view' = [next EXCEPT !.saving = IF c.phase = "ok" THEN NoKey ELSE @]

(* paymentMutation: onSuccess, then the draft's own onSuccess, which only  *)
(* the latest save still has, and onSettled.                               *)
DeliverSave(n) ==
    LET c == calls[n]
        next == IF c.phase = "ok"
                THEN [SameKeys(view, c.answer) EXCEPT !.drafts = @ \ c.takes,
                                                   !.tokenForm = IF c.card = TokenKey THEN TokenFormFor(c.answer) ELSE @,
                                                   !.disturbed = @ \/ Overtakes(n)]
                ELSE view
    IN  /\ c.op \in {"record", "correct"}
        /\ view' = [next EXCEPT !.saving = NoKey]

(* deletePaymentMutation: the lead and the cards' new keys together. *)
DeliverDelete(n) ==
    LET c == calls[n]
    IN  /\ c.op = "delete"
        /\ view' = IF c.phase = "ok"
                           THEN [NewKeys(view, c.answer) EXCEPT !.disturbed = @ \/ Overtakes(n)] ELSE view

(* balanceMutation, planMutation and rejoinMutation *)
DeliverLead(n) ==
    LET c == calls[n]
    IN  /\ c.op \in {"balance", "plan", "rejoin"}
        /\ view' = IF c.phase = "ok"
                           THEN [SameKeys(view, c.answer) EXCEPT !.disturbed = @ \/ Overtakes(n)] ELSE view

Deliver(n) ==
    /\ n \in DOMAIN calls
    /\ calls[n].heard
    /\ calls[n].phase \in {"ok", "failed"}
    /\ DeliverSave(n) \/ DeliverDelete(n) \/ DeliverLead(n)
    /\ calls' = LET unmounted == SectionShown(view.live, view.tab) # SectionShown(view'.live, view.tab)
            IN  [(IF unmounted THEN TakingNothing ELSE calls) EXCEPT ![n] = Finished]
    /\ UNCHANGED stored

(* stageMutation and followUpMutation close the popup once they succeed:   *)
(* their onSuccess calls the board's onClose, which closes whichever popup *)
(* is open by then, their own or one opened after it.                      *)
DeliverClosing(n) ==
    LET c == calls[n]
    IN  /\ n \in DOMAIN calls
        /\ \/ /\ c.phase = "closes" \/ (c.heard /\ Closing(c) /\ c.phase = "ok")
              /\ view' = Closed
              /\ calls' = [Orphaned EXCEPT ![n] = Finished]
           \/ /\ c.heard /\ Closing(c) /\ c.phase = "failed"
              /\ calls' = [calls EXCEPT ![n] = Finished]
              /\ UNCHANGED view
        /\ UNCHANGED stored

-----------------------------------------------------------------------------
(* Initial states: a lead as the pipeline leaves it (the token and payment *)
(* behind a paid stage, a date on a balance something was paid of), nobody *)
(* looking at it yet.                                                      *)
InitialEntries ==
    LET money(id, kind) == [id |-> id, kind |-> kind, amount |-> 1]
    IN  {<<>>, <<money(1, "token")>>, <<money(1, "payment"), money(2, "payment")>>}

PopupInit ==
    /\ stored \in [stage : {"rnr", "financial_approval", "lost"}, plan : BOOLEAN, older : BOOLEAN,
                 entries : InitialEntries, dated : BOOLEAN, rev : {0}]
    /\ ~stored.plan => stored.entries = <<>>
    /\ stored.plan => ~stored.older
    /\ stored.dated <=> Owing(stored) /\ stored.entries # <<>>
    /\ stored.stage = "lost" => stored.plan /\ TokenPaid(stored)
    /\ stored.stage = "financial_approval" => HasFirstPayment(stored)
    /\ view = Closed
    /\ calls = <<>>

Press ==
    \/ \E card \in Keys, amount \in Figures : PressSave(card, amount)
    \/ \E card \in Keys : PressDelete(card)
    \/ PressSaveBalance
    \/ PressAssignPlan
    \/ PressRejoin
    \/ PressFollowUp
    \/ ConfirmStage

Look ==
    \/ Open
    \/ Close
    \/ SwitchTab
    \/ AddDraft
    \/ \E d \in 0..MaxDrafts : RemoveDraft(d)
    \/ \E to \in Targets : SelectStage(to)
    \/ CancelStage

Answer(n) == Deliver(n) \/ DeliverClosing(n)

PopupNext ==
    \/ Press
    \/ Look
    \/ OtherStaff
    \/ \E n \in 1..MaxCalls : Serve(n) \/ Fail(n) \/ Answer(n)

PopupSpec == PopupInit /\ [][PopupNext]_popupVars

-----------------------------------------------------------------------------
(* Properties. *)

(* What the popup lets through, the server takes: a save, a plan, a date, a *)
(* rejoin or a stage move is refused only when the lead has changed since  *)
(* the copy it was worked out from - never because the popup's own checks  *)
(* (the stage gates, the reasons asked, the amount left, the balance's     *)
(* date) are laxer than LeadService's.                                     *)
RefusedOnlyIfStale ==
    \A n \in DOMAIN calls :
        calls[n].phase = "sent" /\ calls[n].base = stored.rev /\ calls[n].op # "delete" => Accepts(stored, calls[n])

(* A saved payment's card holds the figures of the payment it stands for,  *)
(* so a correction rewrites the one it shows: kept as long as nobody else  *)
(* moves the lead's payments and answers come in the order they were made. *)
FormsFollow ==
    view.forms = FormsFor(view.live) /\ (TokenPaid(view.live) => view.tokenForm = TokenFormFor(view.live))

CardsShowTheirEntries ==
    view.open /\ ~view.disturbed => FormsFollow

(* A "Saving..." is never left behind: the card that shows it is one whose *)
(* save is still under way, whatever was sent, answered, refused or lost   *)
(* meanwhile, and however the lead's cards have moved.                     *)
SavesCard(c, card) == c.heard /\ c.op \in {"record", "correct"} /\ c.card = card

SavingIsUnderWay ==
    view.saving # NoKey => \E n \in DOMAIN calls : SavesCard(calls[n], view.saving)
=============================================================================
