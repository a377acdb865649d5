---------------------------- MODULE PaymentLedger ----------------------------
(***************************************************************************)
(* One lead's payment collection with its amounts: the free-form list of   *)
(* app/services/payment_ledger.py ([token?] [payment ...] [balance?]), the *)
(* plan slots it replaced, and the requests of LeadService that change it. *)
(* A request runs without another one in between; LeadPipeline has the     *)
(* interleavings.                                                          *)
(***************************************************************************)
EXTENDS Integers, Sequences, SequencesExt, FiniteSets, Lists

CONSTANTS
    Programs,     \* the live programs, Program.value
    Plans,        \* the payment plans, PaymentPlanOption
    Price,        \* [Programs -> [Plans -> fee]], 0 where the plan is not offered
    DearestPlan,  \* the highest fee of the price list
    Dates,        \* the days a balance can be promised for, a set of numbers
    NotSet        \* None

ASSUME PriceAssumption ==
    DearestPlan \in Nat /\ Price \in [Programs -> [Plans -> 0..DearestPlan]]
ASSUME DatesAssumption == Dates \subseteq Nat \ {0}
ASSUME NotSetAssumption == NotSet \notin Programs \cup Plans

VARIABLES
    program,      \* Lead.program_interest
    plan,         \* Lead.payment_plan
    entries,      \* Lead.installments
    quoted        \* history: the fee the collection was last priced at

ledgerVars == <<program, plan, entries, quoted>>

NoDate == 0
ReceivedKinds == {"token", "payment"}

-----------------------------------------------------------------------------
(* Entries.  A received_amount of None is 0; `evidence` stands for the mode *)
(* and the proofs that make an unpaid slot's part-payment count.            *)

Entry == [kind : {"slot", "token", "payment", "balance"}, amount : Nat, received : Nat,
          paid : BOOLEAN, evidence : BOOLEAN, date : Dates \cup {NoDate}]

Money(kind, amount) ==
    [kind |-> kind, amount |-> amount, received |-> amount, paid |-> TRUE, evidence |-> TRUE, date |-> NoDate]

BalanceDue(amount, date) ==
    [kind |-> "balance", amount |-> amount, received |-> 0, paid |-> FALSE, evidence |-> FALSE, date |-> date]

Collected(e) ==
    IF e.paid THEN (IF e.received > 0 THEN e.received ELSE e.amount)
    ELSE IF e.evidence THEN e.received ELSE 0

ReceivedEntries(es) == At(es, {i \in DOMAIN es : es[i].kind \in ReceivedKinds})

FeeOf(es) == Total([i \in DOMAIN es |-> es[i].amount])

CollectedFrom(es) == Total([i \in DOMAIN es |-> Collected(es[i])])

ReceivedOf(es) == CollectedFrom(ReceivedEntries(es))

BalanceDate(es) == IF OfKind(es, "balance") = <<>> THEN NoDate ELSE OfKind(es, "balance")[1].date

RebalanceUndated(es, fee) ==
    LET ledger == OfKind(es, "token") \o OfKind(es, "payment")
        due == fee - ReceivedOf(ledger)
    IN  IF due > 0 THEN Append(ledger, BalanceDue(due, NoDate)) ELSE ledger

RebalanceAsRecorded(es, fee) ==
    LET ledger == ReceivedEntries(es)
        due == fee - ReceivedOf(ledger)
    IN  IF due > 0 THEN Append(ledger, BalanceDue(due, BalanceDate(es))) ELSE ledger

Rebalance(es, fee) ==
    LET token == OfKind(es, "token")
        ledger == (IF token = <<>> THEN <<>> ELSE <<token[1]>>) \o OfKind(es, "payment")
        due == fee - ReceivedOf(ledger)
    IN  IF due > 0 THEN Append(ledger, BalanceDue(due, BalanceDate(es))) ELSE ledger

OpeningLedger(fee) == Rebalance(<<>>, fee)

EarliestPromise(es) ==
    LET promised == {es[i].date : i \in {j \in DOMAIN es : ~es[j].paid /\ es[j].date # NoDate}}
    IN  IF promised = {} THEN NoDate ELSE CHOOSE d \in promised : \A other \in promised : d <= other

(* The old plan slots as a free-form ledger: the money on them becomes     *)
(* payments, whatever they still had owing becomes the balance.            *)
ToLedger(es) ==
    IF \A i \in DOMAIN es : es[i].kind # "slot" THEN es
    ELSE LET held == At(es, {i \in DOMAIN es : Collected(es[i]) > 0})
             payments == [i \in DOMAIN held |-> Money("payment", Collected(held[i]))]
         IN  Rebalance(Append(payments, BalanceDue(0, EarliestPromise(es))), FeeOf(es))

-----------------------------------------------------------------------------
(* Initial states: a lead keyed in or sent through the form, with or       *)
(* without a plan, or one saved before the collection was free-form.       *)

CONSTANT LegacySlots   \* the slots an old plan could hold, a set of entries

ASSUME SlotsAssumption ==
    \A s \in LegacySlots : s \in Entry /\ s.kind = "slot" /\ s.received <= s.amount

Offered(p, q) == Price[p][q] > 0

LedgerInit ==
    \/ /\ program \in Programs \cup {NotSet}
       /\ plan = NotSet
       /\ entries = <<>>
       /\ quoted = 0
    \/ /\ program \in Programs
       /\ plan \in {q \in Plans : Offered(program, q)}
       /\ quoted = Price[program][plan]
       /\ entries = OpeningLedger(quoted)
    \/ /\ program \in Programs
       /\ plan \in {q \in Plans : Offered(program, q)}
       /\ quoted = Price[program][plan]
       /\ \E first, second \in LegacySlots :
             /\ entries \in {<<first>>, <<first, second>>}
             /\ FeeOf(entries) = quoted

-----------------------------------------------------------------------------
(* Requests. *)

(* LeadService.assign_plan *)
AssignPlanAfresh(p, q) ==
    /\ Offered(p, q)
    /\ program' = p
    /\ plan' = q
    /\ quoted' = Price[p][q]
    /\ entries' = OpeningLedger(Price[p][q])

AssignPlanTo(p, q) ==
    /\ Offered(p, q)
    /\ program' = p
    /\ plan' = q
    /\ quoted' = Price[p][q]
    /\ entries' = Rebalance(ToLedger(entries), Price[p][q])

(* LeadService._follow_course_to_program: the course column is set to the  *)
(* name of program p.                                                      *)
HasCollected(es) == \E i \in DOMAIN es : Collected(es[i]) > 0

FollowCourse(p) ==
    /\ p # program
    /\ program' = p
    /\ \/ plan = NotSet /\ UNCHANGED <<plan, entries, quoted>>
       \/ /\ plan # NotSet /\ Offered(p, plan)
          /\ quoted' = Price[p][plan]
          /\ entries' = Rebalance(ToLedger(entries), Price[p][plan])
          /\ UNCHANGED plan
       \/ /\ plan # NotSet /\ ~Offered(p, plan) /\ ~HasCollected(entries)
          /\ plan' = NotSet
          /\ entries' = <<>>
          /\ quoted' = 0

(* FoundationFormService._merge_resubmission: the public form sent again   *)
(* for program p, with plan q or with none.  The plan is rebuilt unless    *)
(* something was recorded against it; a remark or a half-typed detail,     *)
(* which the entries here do not have, counts as recorded too.             *)
HasRecordedPayment(es) == \E i \in DOMAIN es : es[i].paid \/ es[i].evidence

ResubmitRebuilding(p, q) ==
    /\ q # NotSet => Offered(p, q)
    /\ program' = p
    /\ \/ /\ q # NotSet
          /\ plan' = q
          /\ quoted' = Price[p][q]
          /\ entries' = OpeningLedger(Price[p][q])
       \/ q = NotSet /\ UNCHANGED <<plan, entries, quoted>>

ResubmitFor(p, q) ==
    /\ q # NotSet => Offered(p, q)
    /\ program' = p
    /\ \/ /\ q # NotSet /\ ~HasRecordedPayment(entries)
          /\ plan' = q
          /\ quoted' = Price[p][q]
          /\ entries' = OpeningLedger(Price[p][q])
       \/ /\ q = NotSet \/ entries # <<>>
          /\ UNCHANGED <<plan, entries, quoted>>

(* The tail of record_payment: the ledger rebalanced, the balance's date   *)
(* moved if one was given, and a balance with no date refused.             *)
Settle(ledger, fee, due) ==
    LET settled == Rebalance(ledger, fee)
        last == Len(settled)
        date == IF due # NoDate THEN due ELSE BalanceDate(settled)
    IN  /\ IF OfKind(settled, "balance") = <<>>
           THEN entries' = settled
           ELSE date # NoDate /\ entries' = [settled EXCEPT ![last].date = date]
        /\ UNCHANGED <<program, plan, quoted>>

(* LeadService.record_payment with index None *)
RecordMoney(kind, amount, due) ==
    LET ledger == ToLedger(entries)
        fee == FeeOf(ledger)
    IN  /\ plan # NotSet
        /\ kind = "token" => OfKind(ledger, "token") = <<>>
        /\ ReceivedOf(ledger) + amount <= fee
        /\ Settle(Append(ledger, Money(kind, amount)), fee, due)

(* LeadService.record_payment with the index of an entry already there *)
CorrectMoneyUnchecked(i, amount, due) ==
    LET ledger == ToLedger(entries)
    IN  /\ plan # NotSet
        /\ i \in DOMAIN ledger
        /\ ledger[i].kind \in ReceivedKinds
        /\ Settle([ledger EXCEPT ![i] = Money(@.kind, amount)], FeeOf(ledger), due)

CorrectMoney(i, amount, due) ==
    LET ledger == ToLedger(entries)
        fee == FeeOf(ledger)
    IN  /\ plan # NotSet
        /\ i \in DOMAIN ledger
        /\ ledger[i].kind \in ReceivedKinds
        /\ ReceivedOf(ledger) - Collected(ledger[i]) + amount <= fee
        /\ Settle([ledger EXCEPT ![i] = Money(@.kind, amount)], fee, due)

(* LeadService.delete_payment; the stages it is refused in are in          *)
(* LeadPipeline.                                                           *)
DeleteMoneyFeeAfter(i) ==
    LET ledger == ToLedger(entries)
    IN  /\ i \in DOMAIN ledger
        /\ ledger[i].kind \in ReceivedKinds
        /\ entries' = Rebalance(RemoveAt(ledger, i), FeeOf(RemoveAt(ledger, i)))
        /\ UNCHANGED <<program, plan, quoted>>

DeleteMoney(i) ==
    LET ledger == ToLedger(entries)
    IN  /\ i \in DOMAIN ledger
        /\ ledger[i].kind \in ReceivedKinds
        /\ entries' = Rebalance(RemoveAt(ledger, i), FeeOf(ledger))
        /\ UNCHANGED <<program, plan, quoted>>

(* LeadService.update_balance *)
DateBalance(due) ==
    LET ledger == ToLedger(entries)
    IN  /\ OfKind(ledger, "balance") # <<>>
        /\ entries' = [ledger EXCEPT ![Len(ledger)].date = due]
        /\ UNCHANGED <<program, plan, quoted>>

Amounts == 1..DearestPlan

(* An entry is addressed by its place in the ledger: as many as the        *)
(* smallest amounts can make, and the token, and the balance.              *)
Indexes == 1..DearestPlan + 1

PlanStep ==
    \/ \E p \in Programs, q \in Plans : AssignPlanTo(p, q)
    \/ \E p \in Programs : FollowCourse(p)

FormStep == \E p \in Programs, q \in Plans \cup {NotSet} : ResubmitFor(p, q)

MoneyStep ==
    \/ \E kind \in ReceivedKinds, amount \in Amounts, due \in Dates \cup {NoDate} : RecordMoney(kind, amount, due)
    \/ \E i \in Indexes, amount \in Amounts, due \in Dates \cup {NoDate} : CorrectMoney(i, amount, due)
    \/ \E i \in Indexes : DeleteMoney(i)

DateStep == \E due \in Dates \cup {NoDate} : DateBalance(due)

LedgerNext == PlanStep \/ FormStep \/ MoneyStep \/ DateStep

LedgerSpec == LedgerInit /\ [][LedgerNext]_ledgerVars

-----------------------------------------------------------------------------
(* Properties. *)

(* The document is well typed, and the list is in the order every reader   *)
(* of it relies on: one token at most, first; the balance at most once,    *)
(* last, and for something; no entry of money for nothing.                 *)
LedgerShape ==
    /\ program \in Programs \cup {NotSet}
    /\ plan \in Plans \cup {NotSet}
    /\ entries \in Seq(Entry)
    /\ plan = NotSet => entries = <<>>
    /\ \A i \in DOMAIN entries :
          /\ entries[i].kind = "token" => i = 1
          /\ entries[i].kind = "balance" => i = Len(entries)
          /\ entries[i].kind # "slot" => entries[i].amount > 0
          /\ entries[i].kind = "slot" <=> entries[1].kind = "slot"

(* Recording, correcting, deleting or re-dating money moves it between the *)
(* entries and the balance and never changes what they add up to: what a   *)
(* lead owes in all is decided by its plan alone.                          *)
FeeMovesOnlyWithPlan == [][MoneyStep \/ DateStep => FeeOf(entries') = FeeOf(entries)]_ledgerVars

(* However plans, courses, forms, payments and corrections follow each     *)
(* other, the entries never add up to less than the fee last quoted.       *)
NeverUndercharged == FeeOf(entries) >= quoted

(* The amounts of money on record, in order, old slots included. *)
MoneyOnRecord(es) ==
    LET held == At(es, {i \in DOMAIN es : es[i].kind # "balance" /\ Collected(es[i]) > 0})
    IN  [i \in DOMAIN held |-> Collected(held[i])]

(* Picking or switching a plan, following a course to another price list,  *)
(* sending the form again, or dating the balance keeps every amount        *)
(* received, in its place.                                                 *)
PlanKeepsMoney ==
    [][PlanStep \/ FormStep \/ DateStep => MoneyOnRecord(entries') = MoneyOnRecord(entries)]_ledgerVars

(* The day the rest of the fee was promised for, which the due reminders   *)
(* run off, survives a plan switch, a move to another course and a         *)
(* deletion for as long as anything is still due.                          *)
PromiseKept ==
    [][PlanStep \/ (\E i \in Indexes : DeleteMoney(i))
       => \/ OfKind(entries', "balance") = <<>>
          \/ BalanceDate(entries') = BalanceDate(ToLedger(entries))]_ledgerVars

(* The collection as its shape: what PaymentCollection allows is all that  *)
(* ever happens to it, so a reader that knows only the shape is right.  An *)
(* old slot with money on it is the payment it becomes.                    *)
Shape ==
    [plan |-> plan # NotSet,
     token |-> \E i \in DOMAIN entries : entries[i].kind = "token",
     payments |-> Cardinality({i \in DOMAIN entries : \/ entries[i].kind = "payment"
                                                      \/ entries[i].kind = "slot" /\ Collected(entries[i]) > 0}),
     due |-> \E i \in DOMAIN entries : \/ entries[i].kind = "balance"
                                       \/ entries[i].kind = "slot" /\ CollectedFrom(entries) < FeeOf(entries)]

Collection == INSTANCE PaymentCollection WITH collection <- Shape

ImplementsCollection == Collection!Spec

(* payment_ledger.py:14-15 and PaymentInstallment (models/lead.py): the    *)
(* balance is the plan's fee less what was received.                       *)
BalanceIsWhatThePlanLeaves ==
    \A i \in DOMAIN entries : entries[i].kind = "balance" => entries[i].amount = quoted - ReceivedOf(entries)
=============================================================================
