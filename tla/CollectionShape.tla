--------------------------- MODULE CollectionShape ---------------------------
(***************************************************************************)
(* What the rest of the system can tell apart about a lead's payment       *)
(* collection (Lead.installments, app/services/payment_ledger.py) once the *)
(* rupee amounts are left out: whether a plan prices it, whether a token   *)
(* is on record, how many payments are, and whether something is still     *)
(* due.                                                                    *)
(*                                                                         *)
(* Every operator gives the set of shapes one change to the collection may *)
(* leave behind; it is empty when the change is refused.  Which member it  *)
(* is depends on the amounts, which PaymentLedger has and this module does *)
(* not: PaymentLedger is checked to take only the steps allowed here.      *)
(***************************************************************************)
EXTENDS Integers

Collections == [plan : BOOLEAN, token : BOOLEAN, payments : Nat, due : BOOLEAN]

NoCollection == [plan |-> FALSE, token |-> FALSE, payments |-> 0, due |-> FALSE]

(* received_of(entries) > 0: some entry is money, and no entry is for zero. *)
HasMoney(c) == c.token \/ c.payments > 0

(* A plan picked or switched, or the course moved to another price list:   *)
(* money stays, and only money can leave nothing due.                      *)
Priced(c) ==
    {d \in {[c EXCEPT !.plan = TRUE, !.due = b] : b \in BOOLEAN} : HasMoney(c) \/ d.due}

(* The new course does not offer the plan and nothing is collected yet.    *)
UnpricedKeepingEntries(c) == {d \in {[c EXCEPT !.plan = FALSE]} : c.plan}

Unpriced(c) == {d \in {NoCollection} : c.plan /\ ~HasMoney(c)}

(* The public form sent again with a plan, over a collection nothing was   *)
(* recorded against.                                                       *)
Rebuilt(c) == {d \in {[NoCollection EXCEPT !.plan = TRUE, !.due = TRUE]} : ~HasMoney(c)}

(* Money recorded: only what is still due can be taken. *)
TokenTaken(c) ==
    {d \in {[c EXCEPT !.token = TRUE, !.due = b] : b \in BOOLEAN} : c.plan /\ ~c.token /\ c.due}

PaymentTaken(c) ==
    {d \in {[c EXCEPT !.payments = @ + 1, !.due = b] : b \in BOOLEAN} : c.plan /\ c.due}

(* A correction to an entry already on record. *)
Corrected(c) == {d \in {[c EXCEPT !.due = b] : b \in BOOLEAN} : c.plan /\ HasMoney(c)}

(* An entry taken off again: what it held goes back onto the balance. *)
TokenRemoved(c) == {d \in {[c EXCEPT !.token = FALSE, !.due = TRUE]} : c.token}

PaymentRemoved(c) == {d \in {[c EXCEPT !.payments = @ - 1, !.due = TRUE]} : c.payments > 0}

(* Everything that can happen to a collection in one request. *)
Successors(c) ==
    UNION {Priced(c), Unpriced(c), Rebuilt(c), TokenTaken(c), PaymentTaken(c),
           Corrected(c), TokenRemoved(c), PaymentRemoved(c)}
=============================================================================
