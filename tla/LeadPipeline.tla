---------------------------- MODULE LeadPipeline ----------------------------
(***************************************************************************)
(* One lead document moving through the Foundation pipeline, and the       *)
(* requests that move it: LeadService, the HR and WhatsApp actions of      *)
(* BatchConfirmationService, and the public form sent again.               *)
(*                                                                         *)
(* A request reads the lead, awaits, and saves the whole document it read  *)
(* with its own change in it (BaseRepository.update, Document.save): what  *)
(* another request saved in between is overwritten.  A worker is a request *)
(* that another may overtake, between its Load and its save; the one named *)
(* Now reads and saves with nothing in between.  Operators with a past     *)
(* participle for a name map the document a request read to the documents  *)
(* it may save; an empty set is a refusal.                                 *)
(***************************************************************************)
EXTENDS CollectionShape

CONSTANTS
    Workers,      \* requests that may be overtaken
    Now,          \* the request that is not
    None,         \* no document in hand
    MaxPayments   \* payments on one lead, beside its token: a bound

Stages == {"new_lead", "rnr", "pre_screening", "token_amount",
           "financial_approval", "batch_confirmation", "lost"}

(* The document.  paid is paid_amount > 0, the single amount from before   *)
(* there were installments, and wasPaid remembers that it ever was: a      *)
(* history field the code does not have.  approved is finance_approved_at. *)
Leads == [status : Stages, col : Collections, paid : BOOLEAN, wasPaid : BOOLEAN,
          approved : BOOLEAN, deleted : BOOLEAN]

ASSUME NowAssumption == Now \notin Workers
ASSUME NoneAssumption == None \notin Leads
ASSUME MaxPaymentsAssumption == MaxPayments \in Nat

VARIABLES
    lead,         \* the stored document
    loaded        \* what each worker has read and not yet saved

vars == <<lead, loaded>>

-----------------------------------------------------------------------------
(* The stage rules of LeadService. *)

PaidStages == {"token_amount", "financial_approval", "batch_confirmation"}
MoneyStages == PaidStages \ {"token_amount"}
BeforeToken == {"new_lead", "rnr", "pre_screening"}

(* _require_first_payment: the first installment if there is any, else the *)
(* single amount.                                                          *)
FirstPaymentRecorded(d) ==
    IF HasMoney(d.col) \/ d.col.due THEN HasMoney(d.col) ELSE d.paid

(* _validate_stage_transition *)
MayEnterPaid(d, stage) ==
    \/ d.status = stage
    \/ stage \in PaidStages => HasMoney(d.col) \/ d.paid

MayEnter(d, stage) ==
    \/ d.status = stage
    \/ /\ stage = "token_amount" => d.col.token
       /\ stage \in MoneyStages => FirstPaymentRecorded(d)

WithPaid(d, paid) == [d EXCEPT !.paid = paid, !.wasPaid = @ \/ paid]

-----------------------------------------------------------------------------
(* What each request saves. *)

(* LeadService.update, and set_hr_stage through it: any stage the rules    *)
(* allow (a move to Quit or back comes with its reason), the single amount *)
(* written or cleared, and the course with the fees that follow it.  A     *)
(* lead back for approval is not approved any more.                        *)
Edited(d, stage, paid, col) ==
    [WithPaid(d, paid) EXCEPT !.status = stage, !.col = col,
        !.approved = @ /\ (stage = "financial_approval" => d.status = stage)]

Updated(d) ==
    {Edited(d, stage, paid, col) :
        stage \in {s \in Stages : MayEnter(d, s)},
        paid \in BOOLEAN,
        col \in {d.col} \cup Priced(d.col) \cup Unpriced(d.col)}

(* LeadService.review *)
Reviewed(d) ==
    {[WithPaid(d, paid) EXCEPT !.status = stage] :
        stage \in {s \in Stages : MayEnter(d, s)}, paid \in BOOLEAN}

(* LeadService.update_payment_info *)
PaymentInfoUpdated(d) == {WithPaid(d, paid) : paid \in BOOLEAN}

(* LeadService.assign_plan *)
PlanAssigned(d) == {[d EXCEPT !.col = col] : col \in Priced(d.col)}

(* FoundationFormService._merge_resubmission *)
Resubmitted(d) == {[d EXCEPT !.col = col] : col \in {d.col} \cup Rebuilt(d.col)}

(* LeadService.record_payment.  A new token moves the lead to its stage,   *)
(* but not back to it, and not out of Quit.                                *)
TokenRecorded(d) ==
    {[d EXCEPT !.col = col, !.status = IF @ \in BeforeToken THEN "token_amount" ELSE @] :
        col \in TokenTaken(d.col)}

PaymentRecorded(d) ==
    {[d EXCEPT !.col = col] : col \in PaymentTaken(d.col) \cup Corrected(d.col)}

(* LeadService.delete_payment: not the token from under Token Amount, nor  *)
(* the last money from under a paid stage.                                 *)
EntryDeletedFreely(d) ==
    {[d EXCEPT !.col = col] : col \in TokenRemoved(d.col) \cup PaymentRemoved(d.col)}

EntryDeleted(d) ==
    {[d EXCEPT !.col = col] :
        col \in {c \in TokenRemoved(d.col) \cup PaymentRemoved(d.col) :
                    /\ d.status = "token_amount" => c.token
                    /\ d.status \in PaidStages => HasMoney(c)}}

(* LeadService.approve_payment *)
PaymentApproved(d) ==
    {e \in {[d EXCEPT !.status = "batch_confirmation", !.approved = TRUE]} :
        d.status = "financial_approval" /\ MayEnter(d, "batch_confirmation")}

(* LeadService.mark_lost_nonpayment, BatchConfirmationService.             *)
(* remove_from_group                                                       *)
Quit(d) == {[d EXCEPT !.status = "lost"]}

(* LeadService.rejoin *)
Rejoined(d) == {e \in {[d EXCEPT !.status = "new_lead"]} : d.status = "lost"}

(* LeadService.move_to_follow_up, when a section admin opens a payment     *)
(* reminder.                                                               *)
FollowedUp(d) ==
    {e \in {[d EXCEPT !.status = "pre_screening"]} :
        d.status \notin {"pre_screening", "token_amount", "lost"}}

(* Requests that save the document with none of these fields changed:      *)
(* remarks, assign, the balance's date, non-payment reported, HR's mark,   *)
(* the batch number, the WhatsApp steps, a class group mirrored from the   *)
(* induction entry.                                                        *)
Touched(d) == {d}

(* LeadService.delete *)
Deleted(d) == {[d EXCEPT !.deleted = TRUE]}

-----------------------------------------------------------------------------
(* Reading and saving. *)

Requests == Workers \cup {Now}

(* BaseRepository.get_by_id hides a deleted document. *)
Load(w) ==
    /\ loaded[w] = None
    /\ ~lead.deleted
    /\ loaded' = [loaded EXCEPT ![w] = lead]
    /\ UNCHANGED lead

InHand(w) == IF w = Now THEN lead ELSE loaded[w]

(* The document a request that has got this far may go on with. *)
Holding(w) == IF w = Now THEN ~lead.deleted ELSE loaded[w] # None

Save(w, documents) ==
    /\ lead' \in documents
    /\ loaded' = IF w = Now THEN loaded ELSE [loaded EXCEPT ![w] = None]

(* A request that ends without saving: refused, or nothing to do. *)
Drop(w) ==
    /\ loaded[w] # None
    /\ loaded' = [loaded EXCEPT ![w] = None]
    /\ UNCHANGED lead

-----------------------------------------------------------------------------
(* The requests. *)

Update(w) == Holding(w) /\ Save(w, Updated(InHand(w)))
Review(w) == Holding(w) /\ Save(w, Reviewed(InHand(w)))
UpdatePaymentInfo(w) == Holding(w) /\ Save(w, PaymentInfoUpdated(InHand(w)))
AssignPlan(w) == Holding(w) /\ Save(w, PlanAssigned(InHand(w)))
Resubmit(w) == Holding(w) /\ Save(w, Resubmitted(InHand(w)))
RecordToken(w) == Holding(w) /\ Save(w, TokenRecorded(InHand(w)))

RecordPayment(w) ==
    /\ Holding(w)
    /\ InHand(w).col.payments < MaxPayments
    /\ Save(w, PaymentRecorded(InHand(w)))

DeleteEntry(w) == Holding(w) /\ Save(w, EntryDeleted(InHand(w)))
ApprovePayment(w) == Holding(w) /\ Save(w, PaymentApproved(InHand(w)))
MarkLost(w) == Holding(w) /\ Save(w, Quit(InHand(w)))
Rejoin(w) == Holding(w) /\ Save(w, Rejoined(InHand(w)))
MoveToFollowUp(w) == Holding(w) /\ Save(w, FollowedUp(InHand(w)))
Touch(w) == Holding(w) /\ Save(w, Touched(InHand(w)))
Delete(w) == Holding(w) /\ Save(w, Deleted(InHand(w)))

(* SettingsService' reset of the Foundation leads: one update in the       *)
(* database, with no document read.                                        *)
Reset ==
    /\ lead' = [lead EXCEPT !.deleted = TRUE]
    /\ UNCHANGED loaded

-----------------------------------------------------------------------------
(* A lead is keyed in, imported, or sent through the form: New Lead, with  *)
(* or without a plan, and nothing recorded.                                *)
Opening == {NoCollection} \cup Rebuilt(NoCollection)

Init ==
    /\ lead \in [status : {"new_lead"}, col : Opening, paid : {FALSE}, wasPaid : {FALSE},
                 approved : {FALSE}, deleted : {FALSE}]
    /\ loaded = [w \in Workers |-> None]

MoneyRequest(w) ==
    \/ AssignPlan(w)
    \/ UpdatePaymentInfo(w)
    \/ Resubmit(w)
    \/ RecordToken(w)
    \/ RecordPayment(w)
    \/ DeleteEntry(w)

StageRequest(w) ==
    \/ Update(w)
    \/ Review(w)
    \/ ApprovePayment(w)
    \/ MarkLost(w)
    \/ Rejoin(w)
    \/ MoveToFollowUp(w)
    \/ Touch(w)
    \/ Delete(w)

Next ==
    \/ \E w \in Workers : Load(w) \/ Drop(w)
    \/ \E w \in Requests : MoneyRequest(w) \/ StageRequest(w)
    \/ Reset

Spec == Init /\ [][Next]_vars

-----------------------------------------------------------------------------
(* Properties. *)

TypeOK ==
    /\ lead \in Leads
    /\ loaded \in [Workers -> Leads \cup {None}]

(* What every document satisfies, whoever holds a copy of it: the stage    *)
(* stands on the money its gate asked for.                                 *)
TokenBacked(d) == d.status = "token_amount" => d.col.token
MoneyBacked(d) == d.status \in MoneyStages /\ ~d.wasPaid => HasMoney(d.col)

(* A collection holds entries only under a plan, and a plan nobody has     *)
(* paid against is owed in full: why the gates can be read off the first   *)
(* entry (record_payment, _follow_course_to_program).                      *)
Planned(c) ==
    /\ ~c.plan => c = NoCollection
    /\ c.plan /\ ~c.due => HasMoney(c)

Sound(d) ==
    /\ TokenBacked(d)
    /\ MoneyBacked(d)
    /\ Planned(d.col)
    /\ d.paid => d.wasPaid

(* Token Amount means the token is on record: no order of stage moves,     *)
(* recordings, deletions, plan switches and overlapping saves leaves a     *)
(* lead in it without one (_validate_stage_transition, delete_payment).    *)
TokenStageHasToken == TokenBacked(lead)

(* A lead whose single amount was never written is in Financial Approval   *)
(* or Batch Confirmation only while its collection holds money             *)
(* (_require_first_payment, delete_payment, _follow_course_to_program).    *)
PaidStageHasMoney == MoneyBacked(lead)

(* The stored document and every copy a request still means to save are    *)
(* sound, so an overtaken save puts back a sound document, if an old one.  *)
EveryCopySound ==
    /\ Sound(lead)
    /\ \A w \in Workers : loaded[w] # None => Sound(loaded[w])

(* LeadService.update (lead_service.py:974-976): a lead is never on both   *)
(* of Finance's tabs at once, Income Approvals and Approved Students.      *)
FinanceTabsDisjoint == ~(lead.status = "financial_approval" /\ lead.approved)

(* LeadService.assign_plan (lead_service.py:1314-1315): a switch keeps     *)
(* every payment already recorded.                                         *)
SwitchKeepsPayments ==
    [][\A w \in Requests : AssignPlan(w) =>
            /\ lead'.col.payments >= lead.col.payments
            /\ lead.col.token => lead'.col.token]_vars
=============================================================================
