-------------------------- MODULE BatchConfirmation --------------------------
(***************************************************************************)
(* Seats in a batch, and the confirmation that turns them into students    *)
(* (BatchConfirmationService), beside the Batches page, where capacity and *)
(* status are set by hand (BatchService).  There is no transaction: every  *)
(* read and every write below is a step of its own, requests interleave    *)
(* between them, and a server that stops leaves what was written so far.   *)
(***************************************************************************)
EXTENDS Integers, Sequences, FiniteSets

CONSTANTS
    Requests,     \* requests in progress at the same time
    Leads,
    Batches,
    Emails,
    Email,        \* [Leads -> Emails], a lead's email address
    Capacity,     \* [Batches -> Nat], what a batch is created with
    Capacities,   \* bound: the capacities it may be given later
    Edited,       \* bound: the batches edited on the Batches page
    Changing,     \* bound: the leads that change meanwhile
    Minimum,      \* MINIMUM_ALLOCATIONS
    MaxSeats,     \* seats ever given: a bound
    MaxAdmissions, \* admissions of one lead to one batch: a bound
    None

ASSUME NoneAssumption == None \notin Emails
ASSUME EmailAssumption == Email \in [Leads -> Emails]
ASSUME CapacityAssumption == Capacity \in [Batches -> Nat] /\ Capacities \subseteq Nat
ASSUME SubsetsAssumption == Edited \subseteq Batches /\ Changing \subseteq Leads
ASSUME MinimumAssumption == Minimum \in Nat \ {0}
ASSUME BoundsAssumption == MaxSeats \in Nat /\ MaxAdmissions \in Nat

VARIABLES
    leads,        \* Lead: at Batch Confirmation or not, fee paid in full or not, deleted
    batches,      \* Batch: its status and capacity
    seats,        \* the BatchAllocation documents, in the order they were created
    students,     \* whether the student with an email address is there, or soft-deleted
    admissions,   \* how many Admission documents a lead has for a batch
    requests,     \* where each request is, and the documents it has read
    byHand,       \* history: the batches whose status was set on the Batches page
    met           \* history: whether two requests have met (Apart)

vars == <<leads, batches, seats, students, admissions, requests, byHand, met>>

-----------------------------------------------------------------------------

LeadDocs == [ready : BOOLEAN, paid : BOOLEAN, deleted : BOOLEAN]

(* "ongoing" stands for the later states, completed and cancelled, too.  A *)
(* batch that is deleted is not found by any request.                      *)
BatchStatus == {"upcoming", "confirmed", "ongoing", "deleted"}

BatchDocs == [status : BatchStatus, capacity : Nat]

SeatDocs == [lead : Leads, batch : Batches, status : {"allocated", "confirmed", "withdrawn"},
             student : Emails \cup {None}]

SeatIds == 1..MaxSeats

RequestStates ==
    UNION {[at : {"idle"}],
           [at : {"seat_of_lead", "seats_taken", "give_seat"}, lead : Leads, batch : Batches, capacity : Nat],
           [at : {"withdraw"}, id : SeatIds, seat : SeatDocs],
           [at : {"readiness"}, batch : Batches, capacity : Nat],
           [at : {"next_seat"}, batch : Batches, capacity : Nat, roster : SUBSET SeatIds],
           [at : {"save_student", "admission", "save_seat"}, batch : Batches, capacity : Nat,
            roster : SUBSET SeatIds, seat : SeatIds, student : Emails \cup {None}],
           [at : {"update"}, batch : Batches, doc : BatchDocs]}

Live(seat) == seat.status \in {"allocated", "confirmed"}

LiveSeats(b) == {i \in DOMAIN seats : seats[i].batch = b /\ Live(seats[i])}

SeatsOf(l) == {i \in DOMAIN seats : seats[i].lead = l /\ Live(seats[i])}

Idle == [at |-> "idle"]

(* The seats a confirmation has still to save. *)
InHand(r) ==
    CASE requests[r].at = "next_seat" -> requests[r].roster
      [] requests[r].at \in {"save_student", "admission", "save_seat"} -> requests[r].roster \cup {requests[r].seat}
      [] OTHER -> {}

Allocating(r, b) ==
    requests[r].at \in {"seat_of_lead", "seats_taken", "give_seat"} /\ requests[r].batch = b

Confirming(r, b) ==
    /\ requests[r].at \in {"readiness", "next_seat", "save_student", "admission", "save_seat"}
    /\ requests[r].batch = b

Updating(r, b) == requests[r].at = "update" /\ requests[r].batch = b

(* No transaction keeps two requests apart.  They meet when two are past  *)
(* the check of one lead's seat, or past the count of one batch's, when    *)
(* one allocates to a batch that another confirms, withdraws a seat that   *)
(* another is about to save, or updates a batch that another allocates to, *)
(* confirms or updates.                                                    *)
LeadsApart(q, r) ==
    requests[q].at \in {"seats_taken", "give_seat"} /\ requests[r].at \in {"seats_taken", "give_seat"}
        => requests[q].lead # requests[r].lead

CountsApart(q, r) ==
    requests[q].at = "give_seat" /\ requests[r].at = "give_seat" => requests[q].batch # requests[r].batch

RostersApart(q, r) == \A b \in Batches : ~(Allocating(q, b) /\ Confirming(r, b))

WithdrawalsApart(q, r) == requests[q].at = "withdraw" => requests[q].id \notin InHand(r)

UpdatesApart(q, r) ==
    \A b \in Batches : Updating(q, b) => ~(Allocating(r, b) \/ Confirming(r, b) \/ Updating(r, b))

Apart ==
    \A q \in Requests : \A r \in Requests \ {q} :
        /\ LeadsApart(q, r) /\ CountsApart(q, r) /\ RostersApart(q, r)
        /\ WithdrawalsApart(q, r) /\ UpdatesApart(q, r)

Goto(r, state) ==
    /\ requests' = [requests EXCEPT ![r] = state]
    /\ met' = (met \/ ~Apart')

(* A request refused, done or failed: nothing of it is left. *)
End(r) == Goto(r, Idle)

-----------------------------------------------------------------------------
(* allocate: the lead and the batch, then whether the lead holds a seat,   *)
(* then how many seats are taken, against the capacity the batch had when  *)
(* it was read, then the new seat.                                         *)

AllocateBegin(r, l, b) ==
    /\ requests[r] = Idle
    /\ leads[l].ready /\ ~leads[l].deleted
    /\ batches[b].status = "upcoming"
    /\ Goto(r, [at |-> "seat_of_lead", lead |-> l, batch |-> b, capacity |-> batches[b].capacity])
    /\ UNCHANGED <<leads, batches, seats, students, admissions, byHand>>

AllocateCheckSeatSkipped(r) ==
    /\ requests[r].at = "seat_of_lead"
    /\ Goto(r, [requests[r] EXCEPT !.at = "seats_taken"])
    /\ UNCHANGED <<leads, batches, seats, students, admissions, byHand>>

AllocateCheckSeat(r) ==
    /\ requests[r].at = "seat_of_lead"
    /\ IF SeatsOf(requests[r].lead) = {} THEN Goto(r, [requests[r] EXCEPT !.at = "seats_taken"]) ELSE End(r)
    /\ UNCHANGED <<leads, batches, seats, students, admissions, byHand>>

AllocateCheckCapacityLate(r) ==
    /\ requests[r].at = "seats_taken"
    /\ IF Cardinality(LiveSeats(requests[r].batch)) <= requests[r].capacity
       THEN Goto(r, [requests[r] EXCEPT !.at = "give_seat"]) ELSE End(r)
    /\ UNCHANGED <<leads, batches, seats, students, admissions, byHand>>

AllocateCheckCapacity(r) ==
    /\ requests[r].at = "seats_taken"
    /\ IF Cardinality(LiveSeats(requests[r].batch)) < requests[r].capacity
       THEN Goto(r, [requests[r] EXCEPT !.at = "give_seat"]) ELSE End(r)
    /\ UNCHANGED <<leads, batches, seats, students, admissions, byHand>>

AllocateSeat(r) ==
    /\ requests[r].at = "give_seat"
    /\ Len(seats) < MaxSeats
    /\ seats' = Append(seats, [lead |-> requests[r].lead, batch |-> requests[r].batch,
                               status |-> "allocated", student |-> None])
    /\ End(r)
    /\ UNCHANGED <<leads, batches, students, admissions, byHand>>

-----------------------------------------------------------------------------
(* withdraw: the seat as it was read is saved again, withdrawn. *)

WithdrawBegin(r, i) ==
    /\ requests[r] = Idle
    /\ i \in DOMAIN seats
    /\ seats[i].status = "allocated"
    /\ Goto(r, [at |-> "withdraw", id |-> i, seat |-> seats[i]])
    /\ UNCHANGED <<leads, batches, seats, students, admissions, byHand>>

WithdrawSave(r) ==
    /\ requests[r].at = "withdraw"
    /\ seats' = [seats EXCEPT ![requests[r].id] = [requests[r].seat EXCEPT !.status = "withdrawn"]]
    /\ End(r)
    /\ UNCHANGED <<leads, batches, students, admissions, byHand>>

-----------------------------------------------------------------------------
(* confirm_batch *)

ConfirmBegin(r, b) ==
    /\ requests[r] = Idle
    /\ batches[b].status = "upcoming"
    /\ Goto(r, [at |-> "readiness", batch |-> b, capacity |-> batches[b].capacity])
    /\ UNCHANGED <<leads, batches, seats, students, admissions, byHand>>

(* _build_readiness: enough seats and not too many, and the lead of every  *)
(* seat paid in full.  A tutor, a start date ahead and an address on every *)
(* lead are taken as given.                                                *)
Ready(b, capacity) ==
    LET taken == Cardinality(LiveSeats(b))
        rosterLeads == {l \in Leads : ~leads[l].deleted /\ \E i \in LiveSeats(b) : seats[i].lead = l}
    IN  /\ Minimum <= taken /\ taken <= capacity
        /\ Cardinality({l \in rosterLeads : leads[l].paid}) = taken

(* Then the seats that are not confirmed yet, oldest first. *)
ConfirmReadiness(r) ==
    LET b == requests[r].batch
    IN  /\ requests[r].at = "readiness"
        /\ IF Ready(b, requests[r].capacity)
           THEN Goto(r, [at |-> "next_seat", batch |-> b, capacity |-> requests[r].capacity,
                         roster |-> {i \in LiveSeats(b) : seats[i].status = "allocated"}])
           ELSE End(r)
        /\ UNCHANGED <<leads, batches, seats, students, admissions, byHand>>

Oldest(i, ids) == i \in ids /\ \A j \in ids : i <= j

(* The lead is read again, and the student looked up by its email. *)
ConfirmFindStudent(r, i) ==
    LET email == Email[seats[i].lead]
    IN  /\ requests[r].at = "next_seat"
        /\ Oldest(i, requests[r].roster)
        /\ IF leads[seats[i].lead].deleted THEN End(r)
           ELSE Goto(r, [at |-> "save_student", batch |-> requests[r].batch, seat |-> i,
                         capacity |-> requests[r].capacity, roster |-> requests[r].roster \ {i},
                         student |-> IF students[email] = "there" THEN email ELSE None])
        /\ UNCHANGED <<leads, batches, seats, students, admissions, byHand>>

LeadOf(r) == seats[requests[r].seat].lead

(* A student found is saved with the new batch, as it was read; one that   *)
(* was not is inserted, which the unique index refuses when any document,  *)
(* deleted or not, has the email.                                          *)
ConfirmSaveStudent(r) ==
    LET email == Email[LeadOf(r)]
    IN  /\ requests[r].at = "save_student"
        /\ IF requests[r].student = None /\ students[email] # "none"
           THEN End(r) /\ UNCHANGED students
           ELSE /\ students' = [students EXCEPT ![email] = "there"]
                /\ Goto(r, [requests[r] EXCEPT !.at = "admission", !.student = email])
        /\ UNCHANGED <<leads, batches, seats, admissions, byHand>>

ConfirmAdmission(r) ==
    /\ requests[r].at = "admission"
    /\ admissions[<<LeadOf(r), requests[r].batch>>] < MaxAdmissions
    /\ admissions' = [admissions EXCEPT ![<<LeadOf(r), requests[r].batch>>] = @ + 1]
    /\ Goto(r, [requests[r] EXCEPT !.at = "save_seat"])
    /\ UNCHANGED <<leads, batches, seats, students, byHand>>

NextSeat(r) ==
    Goto(r, [at |-> "next_seat", batch |-> requests[r].batch,
             capacity |-> requests[r].capacity, roster |-> requests[r].roster])

ConfirmSaveSeatWithoutStudent(r) ==
    /\ requests[r].at = "save_seat"
    /\ seats' = [seats EXCEPT ![requests[r].seat].status = "confirmed"]
    /\ NextSeat(r)
    /\ UNCHANGED <<leads, batches, students, admissions, byHand>>

ConfirmSaveSeat(r) ==
    /\ requests[r].at = "save_seat"
    /\ seats' = [seats EXCEPT ![requests[r].seat] =
                    [@ EXCEPT !.status = "confirmed", !.student = requests[r].student]]
    /\ NextSeat(r)
    /\ UNCHANGED <<leads, batches, students, admissions, byHand>>

Locked(r) == [status |-> "confirmed", capacity |-> requests[r].capacity]

ConfirmSaveBatchEarly(r) ==
    /\ requests[r].at = "next_seat"
    /\ batches' = [batches EXCEPT ![requests[r].batch] = Locked(r)]
    /\ IF requests[r].roster = {} THEN End(r) ELSE UNCHANGED <<requests, met>>
    /\ UNCHANGED <<leads, seats, students, admissions, byHand>>

(* The batch too is saved whole, with the capacity it had when it was read. *)
ConfirmSaveBatch(r) ==
    /\ requests[r].at = "next_seat" /\ requests[r].roster = {}
    /\ batches' = [batches EXCEPT ![requests[r].batch] = Locked(r)]
    /\ End(r)
    /\ UNCHANGED <<leads, seats, students, admissions, byHand>>

-----------------------------------------------------------------------------
(* BatchService.update and delete: any status and any capacity, whatever   *)
(* the seats, or neither (a name, a tutor); the batch is saved as it was   *)
(* read but for these.                                                     *)

UpdateBegin(r, b) ==
    /\ requests[r] = Idle
    /\ batches[b].status # "deleted"
    /\ Goto(r, [at |-> "update", batch |-> b, doc |-> batches[b]])
    /\ UNCHANGED <<leads, batches, seats, students, admissions, byHand>>

UpdateSave(r) ==
    LET doc == requests[r].doc
    IN  /\ requests[r].at = "update"
        /\ \E status \in BatchStatus, capacity \in Capacities \cup {doc.capacity} :
              /\ batches' = [batches EXCEPT ![requests[r].batch] = [status |-> status, capacity |-> capacity]]
              /\ byHand' = IF status = doc.status THEN byHand ELSE byHand \cup {requests[r].batch}
        /\ End(r)
        /\ UNCHANGED <<leads, seats, students, admissions>>

-----------------------------------------------------------------------------
(* The server stops, or the connection to the database is lost, between    *)
(* two of a request's steps.                                               *)
Crash(r) ==
    /\ requests[r] # Idle
    /\ End(r)
    /\ UNCHANGED <<leads, batches, seats, students, admissions, byHand>>

(* What happens to a lead meanwhile: its fee settled or a payment taken    *)
(* off again, its stage moved, the lead deleted (LeadService).             *)
LeadChanges(l) ==
    /\ ~leads[l].deleted
    /\ \E field \in {"ready", "paid", "deleted"} : leads' = [leads EXCEPT ![l][field] = ~@]
    /\ UNCHANGED <<batches, seats, students, admissions, requests, byHand, met>>

(* StudentService.delete *)
StudentDeleted(email) ==
    /\ students[email] = "there"
    /\ students' = [students EXCEPT ![email] = "deleted"]
    /\ UNCHANGED <<leads, batches, seats, admissions, requests, byHand, met>>

-----------------------------------------------------------------------------

Init ==
    /\ leads \in [Leads -> [ready : {TRUE}, paid : BOOLEAN, deleted : {FALSE}]]
    /\ batches = [b \in Batches |-> [status |-> "upcoming", capacity |-> Capacity[b]]]
    /\ seats = <<>>
    /\ students \in [Emails -> {"none", "there"}]
    /\ admissions = [pair \in Leads \X Batches |-> 0]
    /\ requests = [r \in Requests |-> Idle]
    /\ byHand = {}
    /\ met = FALSE

Allocate(r) ==
    \/ \E l \in Leads, b \in Batches : AllocateBegin(r, l, b)
    \/ AllocateCheckSeat(r)
    \/ AllocateCheckCapacity(r)
    \/ AllocateSeat(r)

Withdraw(r) ==
    \/ \E i \in SeatIds : WithdrawBegin(r, i)
    \/ WithdrawSave(r)

ConfirmStep(r) ==
    \/ ConfirmReadiness(r)
    \/ \E i \in SeatIds : ConfirmFindStudent(r, i)
    \/ ConfirmSaveStudent(r)
    \/ ConfirmAdmission(r)
    \/ ConfirmSaveSeat(r)
    \/ ConfirmSaveBatch(r)

Confirm(r) == (\E b \in Batches : ConfirmBegin(r, b)) \/ ConfirmStep(r)

Update(r) ==
    \/ \E b \in Edited : UpdateBegin(r, b)
    \/ UpdateSave(r)

Next ==
    \/ \E r \in Requests : Allocate(r) \/ Withdraw(r) \/ Confirm(r) \/ Update(r) \/ Crash(r)
    \/ \E l \in Changing : LeadChanges(l)
    \/ \E email \in Emails : StudentDeleted(email)

Spec == Init /\ [][Next]_vars

-----------------------------------------------------------------------------
(* Properties. *)

TypeOK ==
    /\ leads \in [Leads -> LeadDocs]
    /\ batches \in [Batches -> BatchDocs]
    /\ seats \in Seq(SeatDocs) /\ Len(seats) <= MaxSeats
    /\ students \in [Emails -> {"none", "there", "deleted"}]
    /\ admissions \in [Leads \X Batches -> Nat]
    /\ requests \in [Requests -> RequestStates]
    /\ byHand \subseteq Batches
    /\ met \in BOOLEAN

(* "At most one live seat per lead" is "enforced in the service"           *)
(* (models/batch_allocation.py:37): no index backs it, only the order of   *)
(* allocate's reads.  It holds through withdrawals, confirmations, stops   *)
(* and reruns for as long as no two requests have met; two coordinators    *)
(* who allocate one lead at once each find it without a seat.              *)
OneLiveSeatPerLead == ~met => \A l \in Leads : Cardinality(SeatsOf(l)) <= 1

(* The capacity of a batch cannot be exceeded                              *)
(* (tests/test_batch_confirmation.py:226): until two requests meet,        *)
(* whatever step adds to a batch's live seats leaves no more of them than  *)
(* it has.  Lowering the capacity on the Batches page is no such step.     *)
WithinCapacity ==
    [][\A b \in Batches : \/ met'
                         \/ LiveSeats(b)' \subseteq LiveSeats(b)
                         \/ Cardinality(LiveSeats(b)') <= batches[b].capacity]_vars

(* A confirmed seat has its student and an admission, wherever a           *)
(* confirmation stopped; no other seat has a student.                      *)
ConfirmedSeatIsEnrolled ==
    \A i \in DOMAIN seats :
        /\ (seats[i].status = "confirmed") <=> (seats[i].student # None)
        /\ seats[i].status = "confirmed" =>
              /\ students[seats[i].student] # "none"
              /\ admissions[<<seats[i].lead, seats[i].batch>>] > 0

(* A confirmed batch is a locked roster (BatchStatus.CONFIRMED): until two *)
(* requests meet, every seat in it became a student, after however many    *)
(* runs, and it takes no more.  A status set by hand promises nothing of   *)
(* the kind.                                                               *)
RosterLocked ==
    ~met => \A b \in Batches \ byHand :
        batches[b].status = "confirmed" => \A i \in LiveSeats(b) : seats[i].status = "confirmed"

(* confirm_batch (batch_confirmation_service.py:836-838): run again after  *)
(* it stopped half-way, it skips what it did instead of doing it twice.    *)
AdmittedOnce == \A pair \in Leads \X Batches : admissions[pair] <= 1
=============================================================================
