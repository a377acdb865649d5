----------------------- MODULE BatchConfirmationProofs -----------------------
(***************************************************************************)
(* The seats, for any number of requests in progress, wherever any stops.  *)
(*                                                                         *)
(* First what holds however they overlap: a confirmed seat has its student *)
(* and its admission.  Nothing a request relies on is ever taken back: a   *)
(* seat keeps its lead and batch, a student's document stays, if deleted,  *)
(* and admissions only grow in number (Steady).  So what a confirmation    *)
(* has established at each of its steps (Progress) outlives whatever the   *)
(* others do.                                                              *)
(*                                                                         *)
(* Then what holds while they stay Apart: one live seat per lead, no seat  *)
(* beyond the capacity, a locked roster.  What a request has counted or    *)
(* found (Standing) stays true until it writes, because the others that    *)
(* could change it are elsewhere.                                          *)
(***************************************************************************)
EXTENDS BatchConfirmation, SequenceTheorems, FiniteSetTheorems, TLAPS

SeatSteps == {"save_student", "admission", "save_seat"}

(* What request r has established where it is. *)
WithdrawProgress(r) ==
    requests[r].at = "withdraw" =>
        /\ requests[r].id \in DOMAIN seats
        /\ requests[r].seat.student = None
        /\ requests[r].seat.status = "allocated"
        /\ requests[r].seat.lead = seats[requests[r].id].lead
        /\ requests[r].seat.batch = seats[requests[r].id].batch

RosterProgress(r) ==
    requests[r].at \in SeatSteps \cup {"next_seat"} =>
        \A i \in requests[r].roster : i \in DOMAIN seats /\ seats[i].batch = requests[r].batch

SeatProgress(r) ==
    requests[r].at \in SeatSteps =>
        /\ requests[r].seat \in DOMAIN seats
        /\ seats[requests[r].seat].batch = requests[r].batch
        /\ requests[r].student # None => students[requests[r].student] # "none"
        /\ requests[r].at # "save_student" => requests[r].student # None
        /\ requests[r].at = "save_seat" => admissions[<<LeadOf(r), requests[r].batch>>] > 0

Progress(r) == WithdrawProgress(r) /\ RosterProgress(r) /\ SeatProgress(r)

IInv == TypeOK /\ ConfirmedSeatIsEnrolled /\ \A r \in Requests : Progress(r)

Steady ==
    /\ \A i \in DOMAIN seats : /\ i \in DOMAIN seats'
                               /\ seats'[i].lead = seats[i].lead
                               /\ seats'[i].batch = seats[i].batch
    /\ \A e \in Emails : students[e] # "none" => students'[e] # "none"
    /\ \A pair \in Leads \X Batches : admissions'[pair] >= admissions[pair]

-----------------------------------------------------------------------------
(* Facts about the documents. *)

LEMMA SeatTypes ==
    ASSUME TypeOK
    PROVE  /\ Len(seats) \in Nat
           /\ DOMAIN seats = 1..Len(seats)
           /\ DOMAIN seats \subseteq SeatIds
           /\ \A i \in DOMAIN seats : seats[i] \in SeatDocs
BY BoundsAssumption, LenProperties, ElementOfSeq DEF TypeOK, SeatIds

(* The fields of a request, by where it is. *)
LEMMA RequestTypes ==
    ASSUME TypeOK, NEW r \in Requests
    PROVE  /\ requests[r].at \in {"seat_of_lead", "seats_taken", "give_seat"} =>
                  requests[r] \in [at : {"seat_of_lead", "seats_taken", "give_seat"}, lead : Leads, batch : Batches, capacity : Nat]
           /\ requests[r].at = "withdraw" =>
                  requests[r] \in [at : {"withdraw"}, id : SeatIds, seat : SeatDocs]
           /\ requests[r].at = "readiness" => requests[r] \in [at : {"readiness"}, batch : Batches, capacity : Nat]
           /\ requests[r].at = "next_seat" =>
                  requests[r] \in [at : {"next_seat"}, batch : Batches, capacity : Nat, roster : SUBSET SeatIds]
           /\ requests[r].at \in SeatSteps =>
                  requests[r] \in [at : SeatSteps, batch : Batches, capacity : Nat, roster : SUBSET SeatIds,
                                   seat : SeatIds, student : Emails \cup {None}]
           /\ requests[r].at = "update" => requests[r] \in [at : {"update"}, batch : Batches, doc : BatchDocs]
<1>1. requests[r] \in RequestStates
    BY DEF TypeOK
<1> QED BY <1>1 DEF RequestStates, SeatSteps

(* A request that does not move keeps what it has established. *)
LEMMA OthersKeep ==
    ASSUME IInv, TypeOK', Steady, NEW r \in Requests, requests'[r] = requests[r]
    PROVE  Progress(r)'
<1>1. TypeOK /\ Progress(r)
    BY DEF IInv
<1>2. WithdrawProgress(r)'
    BY <1>1 DEF Progress, WithdrawProgress, Steady
<1>3. RosterProgress(r)'
    BY <1>1 DEF Progress, RosterProgress, Steady
<1>4. SeatProgress(r)'
    <2>1. SUFFICES ASSUME requests[r].at \in SeatSteps PROVE SeatProgress(r)'
        BY DEF SeatProgress
    <2>2. /\ requests[r].seat \in DOMAIN seats
          /\ requests[r].batch \in Batches
          /\ requests[r].student \in Emails \cup {None}
        BY <1>1, <2>1, RequestTypes DEF Progress, SeatProgress
    <2>3. seats[requests[r].seat] \in SeatDocs
        BY <1>1, <2>2, SeatTypes
    <2>4. LeadOf(r)' = LeadOf(r) /\ LeadOf(r) \in Leads
        BY <2>2, <2>3 DEF LeadOf, Steady, SeatDocs
    <2>5. <<LeadOf(r), requests[r].batch>> \in Leads \X Batches
        BY <2>2, <2>4
    <2>6. admissions[<<LeadOf(r), requests[r].batch>>] \in Nat
        BY <1>1, <2>5 DEF TypeOK
    <2>7. admissions'[<<LeadOf(r), requests[r].batch>>] >= admissions[<<LeadOf(r), requests[r].batch>>]
        BY <2>5 DEF Steady
    <2>9. admissions'[<<LeadOf(r), requests[r].batch>>] \in Nat
        BY <2>5 DEF TypeOK
    <2>10. requests[r].at = "save_seat" => admissions'[<<LeadOf(r), requests[r].batch>>] > 0
        <3>1. CASE requests[r].at = "save_seat"
            <4>1. admissions[<<LeadOf(r), requests[r].batch>>] > 0
                BY <1>1, <2>1, <3>1 DEF Progress, SeatProgress
            <4> QED BY <4>1, <2>6, <2>7, <2>9
        <3> QED BY <3>1
    <2> QED BY <1>1, <2>1, <2>2, <2>4, <2>10 DEF Progress, SeatProgress, Steady
<1> QED BY <1>2, <1>3, <1>4 DEF Progress

-----------------------------------------------------------------------------
(* What every step has in common. *)

LEMMA GotoTypes ==
    ASSUME TypeOK, NEW r \in Requests, NEW state \in RequestStates, Goto(r, state)
    PROVE  /\ requests' \in [Requests -> RequestStates]
           /\ requests'[r] = state
           /\ \A q \in Requests \ {r} : requests'[q] = requests[q]
BY DEF TypeOK, Goto

LEMMA MetTypes ==
    ASSUME NEW r \in Requests
    PROVE  (End(r) => met' \in BOOLEAN) /\ \A state : Goto(r, state) => met' \in BOOLEAN
BY DEF End, Goto

LEMMA IdleState == Idle \in RequestStates /\ (\A r \in Requests : requests[r] = Idle => Progress(r))
BY DEF Idle, RequestStates, Progress, WithdrawProgress, RosterProgress, SeatProgress, SeatSteps

(* A step of request r that is steady keeps the invariant when it keeps    *)
(* what the seats say, and what r itself has established.                  *)
LEMMA StepKeeps ==
    ASSUME IInv, TypeOK', Steady, ConfirmedSeatIsEnrolled', NEW r \in Requests, Progress(r)',
           \A q \in Requests \ {r} : requests'[q] = requests[q]
    PROVE  IInv'
<1>1. \A q \in Requests : Progress(q)'
    BY OthersKeep
<1> QED BY <1>1 DEF IInv

(* A step that only moves request r along. *)
LEMMA MoveKeeps ==
    ASSUME IInv, NEW r \in Requests, NEW state \in RequestStates, Goto(r, state),
           UNCHANGED <<leads, batches, seats, students, admissions, byHand>>,
           Progress(r)'
    PROVE  IInv'
<1>1. /\ requests' \in [Requests -> RequestStates]
      /\ \A q \in Requests \ {r} : requests'[q] = requests[q]
    BY GotoTypes DEF IInv
<1>2. TypeOK'
    BY <1>1, MetTypes DEF IInv, TypeOK
<1>3. Steady
    BY DEF Steady, IInv, TypeOK
<1>4. ConfirmedSeatIsEnrolled'
    BY DEF IInv, ConfirmedSeatIsEnrolled
<1> QED BY <1>1, <1>2, <1>3, <1>4, StepKeeps

(* A request that ends, with what it wrote. *)
LEMMA EndProgress ==
    ASSUME TypeOK, NEW r \in Requests, End(r)
    PROVE  /\ requests' \in [Requests -> RequestStates]
           /\ Progress(r)'
           /\ \A q \in Requests \ {r} : requests'[q] = requests[q]
<1>1. /\ requests' \in [Requests -> RequestStates]
      /\ requests'[r] = Idle
      /\ \A q \in Requests \ {r} : requests'[q] = requests[q]
    BY IdleState, GotoTypes DEF End
<1>2. Progress(r)'
    BY <1>1 DEF Idle, Progress, WithdrawProgress, RosterProgress, SeatProgress, SeatSteps
<1> QED BY <1>1, <1>2

LEMMA EndKeeps ==
    ASSUME IInv, NEW r \in Requests, End(r), UNCHANGED <<leads, batches, seats, students, admissions, byHand>>
    PROVE  IInv'
<1>1. Progress(r)'
    BY EndProgress DEF IInv
<1> QED BY <1>1, IdleState, MoveKeeps DEF End

-----------------------------------------------------------------------------
(* allocate *)

LEMMA AllocateKeeps == ASSUME IInv, NEW r \in Requests, Allocate(r) PROVE IInv'
<1>1. TypeOK
    BY DEF IInv
<1>2. ASSUME NEW l \in Leads, NEW b \in Batches, AllocateBegin(r, l, b) PROVE IInv'
    <2> DEFINE state == [at |-> "seat_of_lead", lead |-> l, batch |-> b, capacity |-> batches[b].capacity]
    <2>1. state \in RequestStates
        BY <1>1 DEF RequestStates, TypeOK, BatchDocs
    <2>2. Goto(r, state) /\ UNCHANGED <<leads, batches, seats, students, admissions, byHand>>
        BY <1>2 DEF AllocateBegin
    <2>3. requests'[r] = state
        BY <1>1, <2>1, <2>2, GotoTypes
    <2>4. Progress(r)'
        BY <2>3 DEF Progress, WithdrawProgress, RosterProgress, SeatProgress, SeatSteps
    <2> QED BY <2>1, <2>2, <2>4, MoveKeeps
<1>3. ASSUME NEW next \in {"seats_taken", "give_seat"},
             requests[r].at \in {"seat_of_lead", "seats_taken"},
             Goto(r, [requests[r] EXCEPT !.at = next]),
             UNCHANGED <<leads, batches, seats, students, admissions, byHand>>
      PROVE  IInv'
    <2> DEFINE state == [requests[r] EXCEPT !.at = next]
    <2>1. requests[r] \in [at : {"seat_of_lead", "seats_taken", "give_seat"}, lead : Leads, batch : Batches, capacity : Nat]
        BY <1>1, <1>3, RequestTypes
    <2>2. state \in RequestStates /\ state.at = next
        BY <2>1 DEF RequestStates
    <2>3. requests'[r] = state
        BY <1>1, <1>3, <2>2, GotoTypes
    <2>4. Progress(r)'
        BY <2>2, <2>3 DEF Progress, WithdrawProgress, RosterProgress, SeatProgress, SeatSteps
    <2> QED BY <1>3, <2>2, <2>4, MoveKeeps
<1>4. CASE AllocateCheckSeat(r)
    BY <1>3, <1>4, EndKeeps DEF AllocateCheckSeat
<1>5. CASE AllocateCheckCapacity(r)
    BY <1>3, <1>5, EndKeeps DEF AllocateCheckCapacity
<1>6. CASE AllocateSeat(r)
    <2> DEFINE seat == [lead |-> requests[r].lead, batch |-> requests[r].batch,
                        status |-> "allocated", student |-> None]
    <2>1. seats' = Append(seats, seat) /\ Len(seats) < MaxSeats /\ End(r)
          /\ UNCHANGED <<leads, batches, students, admissions, byHand>>
        BY <1>6 DEF AllocateSeat
    <2>2. requests[r].lead \in Leads /\ requests[r].batch \in Batches
        BY <1>1, <1>6, RequestTypes DEF AllocateSeat
    <2>3. seat \in SeatDocs
        BY <2>2 DEF SeatDocs
    <2>4. /\ seats' \in Seq(SeatDocs)
          /\ Len(seats') = Len(seats) + 1
          /\ \A i \in 1..Len(seats) : seats'[i] = seats[i]
          /\ seats'[Len(seats) + 1] = seat
        BY <1>1, <2>1, <2>3, AppendProperties DEF TypeOK
    <2>5. Len(seats) \in Nat /\ DOMAIN seats = 1..Len(seats)
        BY <1>1, SeatTypes
    <2>6. TypeOK'
        BY <1>1, <2>1, <2>4, <2>5, BoundsAssumption, EndProgress, MetTypes DEF TypeOK
    <2>7. DOMAIN seats' = DOMAIN seats \cup {Len(seats) + 1}
        BY <2>4, <2>5, <2>6, SeatTypes
    <2>8. Steady
        BY <1>1, <2>1, <2>4, <2>5, <2>7 DEF Steady, TypeOK
    <2>9. ConfirmedSeatIsEnrolled'
        <3>1. \A i \in DOMAIN seats : seats'[i] = seats[i]
            BY <2>4, <2>5
        <3> QED BY <2>1, <2>4, <2>7, <3>1 DEF IInv, ConfirmedSeatIsEnrolled
    <2> QED BY <1>1, <2>1, <2>6, <2>8, <2>9, EndProgress, StepKeeps
<1> QED BY <1>2, <1>4, <1>5, <1>6 DEF Allocate

-----------------------------------------------------------------------------
(* withdraw *)

(* Saving a seat over itself, with its lead and its batch. *)
LEMMA SeatSaved ==
    ASSUME IInv, NEW id \in DOMAIN seats, NEW doc \in SeatDocs,
           doc.lead = seats[id].lead, doc.batch = seats[id].batch,
           seats' = [seats EXCEPT ![id] = doc], UNCHANGED <<students, admissions>>
    PROVE  /\ seats' \in Seq(SeatDocs) /\ Len(seats') = Len(seats)
           /\ DOMAIN seats' = DOMAIN seats
           /\ \A i \in DOMAIN seats : seats'[i] = IF i = id THEN doc ELSE seats[i]
           /\ Steady
<1>1. TypeOK
    BY DEF IInv
<1>2. DOMAIN seats = 1..Len(seats)
    BY <1>1, SeatTypes
<1>3. /\ seats' \in Seq(SeatDocs)
      /\ Len(seats') = Len(seats)
      /\ \A i \in 1..Len(seats) : seats'[i] = IF i = id THEN doc ELSE seats[i]
    BY <1>1, <1>2, ExceptSeq DEF TypeOK
<1>4. DOMAIN seats' = DOMAIN seats
    OBVIOUS
<1> QED BY <1>1, <1>2, <1>3, <1>4 DEF Steady, TypeOK

LEMMA WithdrawKeeps == ASSUME IInv, NEW r \in Requests, Withdraw(r) PROVE IInv'
<1>1. TypeOK
    BY DEF IInv
<1>2. ASSUME NEW i \in SeatIds, WithdrawBegin(r, i) PROVE IInv'
    <2> DEFINE state == [at |-> "withdraw", id |-> i, seat |-> seats[i]]
    <2>1. /\ i \in DOMAIN seats /\ seats[i].status = "allocated"
          /\ Goto(r, state)
          /\ UNCHANGED <<leads, batches, seats, students, admissions, byHand>>
        BY <1>2 DEF WithdrawBegin
    <2>2. seats[i] \in SeatDocs /\ seats[i].student = None
        BY <1>1, <2>1, SeatTypes DEF IInv, ConfirmedSeatIsEnrolled
    <2>3. state \in RequestStates
        BY <2>2 DEF RequestStates
    <2>4. requests'[r] = state
        BY <1>1, <2>1, <2>3, GotoTypes
    <2>5. Progress(r)'
        BY <2>1, <2>2, <2>4 DEF Progress, WithdrawProgress, RosterProgress, SeatProgress, SeatSteps
    <2> QED BY <2>1, <2>3, <2>5, MoveKeeps
<1>3. CASE WithdrawSave(r)
    <2> DEFINE id == requests[r].id
    <2> DEFINE doc == [requests[r].seat EXCEPT !.status = "withdrawn"]
    <2>1. requests[r].seat \in SeatDocs
        BY <1>1, <1>3, RequestTypes DEF WithdrawSave
    <2>2. WithdrawProgress(r) /\ requests[r].at = "withdraw"
        BY <1>3 DEF IInv, Progress, WithdrawSave
    <2>3. /\ doc \in SeatDocs /\ doc.status = "withdrawn" /\ doc.student = None
          /\ id \in DOMAIN seats /\ doc.lead = seats[id].lead /\ doc.batch = seats[id].batch
        BY <2>1, <2>2 DEF SeatDocs, WithdrawProgress
    <2>4. /\ seats' = [seats EXCEPT ![id] = doc] /\ End(r)
          /\ UNCHANGED <<leads, batches, students, admissions, byHand>>
        BY <1>3 DEF WithdrawSave
    <2>5. /\ seats' \in Seq(SeatDocs) /\ Len(seats') = Len(seats)
          /\ DOMAIN seats' = DOMAIN seats
          /\ \A i \in DOMAIN seats : seats'[i] = IF i = id THEN doc ELSE seats[i]
          /\ Steady
        BY <2>3, <2>4, SeatSaved
    <2>6. TypeOK'
        BY <1>1, <2>4, <2>5, EndProgress, MetTypes DEF TypeOK
    <2>7. ConfirmedSeatIsEnrolled'
        BY <2>3, <2>4, <2>5 DEF IInv, ConfirmedSeatIsEnrolled
    <2> QED BY <1>1, <2>4, <2>5, <2>6, <2>7, EndProgress, StepKeeps
<1> QED BY <1>2, <1>3 DEF Withdraw

-----------------------------------------------------------------------------
(* confirm_batch *)

LEMMA ConfirmReadKeeps ==
    ASSUME IInv, NEW r \in Requests,
           \/ \E b \in Batches : ConfirmBegin(r, b)
           \/ ConfirmReadiness(r)
           \/ \E i \in SeatIds : ConfirmFindStudent(r, i)
    PROVE  IInv'
<1>1. TypeOK
    BY DEF IInv
<1>2. ASSUME NEW b \in Batches, ConfirmBegin(r, b) PROVE IInv'
    <2> DEFINE state == [at |-> "readiness", batch |-> b, capacity |-> batches[b].capacity]
    <2>1. state \in RequestStates
        BY <1>1 DEF RequestStates, TypeOK, BatchDocs
    <2>2. Goto(r, state) /\ UNCHANGED <<leads, batches, seats, students, admissions, byHand>>
        BY <1>2 DEF ConfirmBegin
    <2>3. requests'[r] = state
        BY <1>1, <2>1, <2>2, GotoTypes
    <2>4. Progress(r)'
        BY <2>3 DEF Progress, WithdrawProgress, RosterProgress, SeatProgress, SeatSteps
    <2> QED BY <2>1, <2>2, <2>4, MoveKeeps
<1>3. CASE ConfirmReadiness(r)
    <2> DEFINE b == requests[r].batch
    <2> DEFINE roster == {i \in LiveSeats(b) : seats[i].status = "allocated"}
    <2> DEFINE state == [at |-> "next_seat", batch |-> b, capacity |-> requests[r].capacity, roster |-> roster]
    <2>1. CASE End(r)
        BY <1>3, <2>1, EndKeeps DEF ConfirmReadiness
    <2>2. CASE Goto(r, state)
        <3>1. b \in Batches /\ requests[r].capacity \in Nat /\ roster \in SUBSET SeatIds
            BY <1>1, <1>3, RequestTypes, SeatTypes DEF ConfirmReadiness, LiveSeats
        <3>2. state \in RequestStates
            BY <3>1 DEF RequestStates
        <3>3. requests'[r] = state
            BY <1>1, <2>2, <3>2, GotoTypes
        <3>4. UNCHANGED <<leads, batches, seats, students, admissions, byHand>>
            BY <1>3 DEF ConfirmReadiness
        <3>5. Progress(r)'
            BY <3>3, <3>4 DEF Progress, WithdrawProgress, RosterProgress, SeatProgress, SeatSteps, LiveSeats
        <3> QED BY <2>2, <3>2, <3>4, <3>5, MoveKeeps
    <2> QED BY <1>3, <2>1, <2>2 DEF ConfirmReadiness
<1>4. ASSUME NEW i \in SeatIds, ConfirmFindStudent(r, i) PROVE IInv'
    <2> DEFINE email == Email[seats[i].lead]
    <2> DEFINE state == [at |-> "save_student", batch |-> requests[r].batch, seat |-> i,
                         capacity |-> requests[r].capacity, roster |-> requests[r].roster \ {i},
                         student |-> IF students[email] = "there" THEN email ELSE None]
    <2>1. /\ requests[r].at = "next_seat" /\ i \in requests[r].roster
          /\ End(r) \/ Goto(r, state)
          /\ UNCHANGED <<leads, batches, seats, students, admissions, byHand>>
        BY <1>4 DEF ConfirmFindStudent, Oldest
    <2>2. requests[r].batch \in Batches /\ requests[r].capacity \in Nat /\ requests[r].roster \in SUBSET SeatIds
        BY <1>1, <2>1, RequestTypes
    <2>3. \A j \in requests[r].roster : j \in DOMAIN seats /\ seats[j].batch = requests[r].batch
        BY <2>1 DEF IInv, Progress, RosterProgress
    <2>4. email \in Emails
        <3>1. seats[i].lead \in Leads
            BY <1>1, <2>1, <2>3, SeatTypes DEF SeatDocs
        <3> QED BY <3>1, EmailAssumption
    <2>5. CASE Goto(r, state)
        <3>1. state \in RequestStates
            BY <2>2, <2>4 DEF RequestStates
        <3>2. requests'[r] = state
            BY <1>1, <2>5, <3>1, GotoTypes
        <3>3. WithdrawProgress(r)'
            BY <3>2 DEF WithdrawProgress
        <3>4. RosterProgress(r)'
            BY <2>1, <2>3, <3>2 DEF RosterProgress
        <3>5. SeatProgress(r)'
            BY <2>1, <2>3, <3>2, NoneAssumption DEF SeatProgress
        <3> QED BY <2>1, <2>5, <3>1, <3>3, <3>4, <3>5, MoveKeeps DEF Progress
    <2> QED BY <2>1, <2>5, EndKeeps
<1> QED BY <1>2, <1>3, <1>4

(* What holds of a confirmation at work on a seat. *)
LEMMA AtASeat ==
    ASSUME IInv, NEW r \in Requests, requests[r].at \in SeatSteps
    PROVE  /\ requests[r] \in [at : SeatSteps, batch : Batches, capacity : Nat, roster : SUBSET SeatIds,
                                seat : SeatIds, student : Emails \cup {None}]
           /\ requests[r].seat \in DOMAIN seats
           /\ seats[requests[r].seat] \in SeatDocs
           /\ LeadOf(r) \in Leads
           /\ Email[LeadOf(r)] \in Emails
           /\ RosterProgress(r) /\ SeatProgress(r)
<1>1. TypeOK /\ Progress(r)
    BY DEF IInv
<1>2. requests[r].seat \in DOMAIN seats
    BY <1>1 DEF Progress, SeatProgress
<1>3. LeadOf(r) \in Leads
    BY <1>1, <1>2, SeatTypes DEF LeadOf, SeatDocs
<1> QED BY <1>1, <1>2, <1>3, RequestTypes, SeatTypes, EmailAssumption DEF Progress

LEMMA SaveStudentKeeps == ASSUME IInv, NEW r \in Requests, ConfirmSaveStudent(r) PROVE IInv'
<1> DEFINE email == Email[LeadOf(r)]
<1> DEFINE state == [requests[r] EXCEPT !.at = "admission", !.student = email]
<1>1. /\ TypeOK /\ requests[r].at = "save_student"
      /\ UNCHANGED <<leads, batches, seats, admissions, byHand>>
      /\ \/ End(r) /\ UNCHANGED students
         \/ students' = [students EXCEPT ![email] = "there"] /\ Goto(r, state)
    BY DEF IInv, ConfirmSaveStudent
<1>2. CASE students' = [students EXCEPT ![email] = "there"] /\ Goto(r, state)
    <2>1. /\ requests[r] \in [at : SeatSteps, batch : Batches, capacity : Nat, roster : SUBSET SeatIds,
                               seat : SeatIds, student : Emails \cup {None}]
          /\ email \in Emails
          /\ RosterProgress(r) /\ SeatProgress(r)
        BY <1>1, AtASeat DEF SeatSteps
    <2>2. state \in RequestStates /\ state.at = "admission" /\ state.student = email
          /\ state.batch = requests[r].batch /\ state.roster = requests[r].roster
          /\ state.seat = requests[r].seat
        BY <2>1 DEF RequestStates, SeatSteps
    <2>3. /\ requests' \in [Requests -> RequestStates]
          /\ requests'[r] = state
          /\ \A q \in Requests \ {r} : requests'[q] = requests[q]
        BY <1>1, <1>2, <2>2, GotoTypes
    <2>4. students' \in [Emails -> {"none", "there", "deleted"}] /\ students'[email] = "there"
          /\ \A e \in Emails : students[e] # "none" => students'[e] # "none"
        BY <1>1, <1>2, <2>1 DEF TypeOK
    <2>5. TypeOK'
        BY <1>1, <2>3, <2>4, MetTypes DEF TypeOK
    <2>6. Steady
        BY <1>1, <2>4 DEF Steady, TypeOK
    <2>7. ConfirmedSeatIsEnrolled'
        <3>1. \A i \in DOMAIN seats : seats[i].student \in Emails \cup {None}
            BY <1>1, SeatTypes DEF SeatDocs
        <3> QED BY <1>1, <2>4, <3>1 DEF IInv, ConfirmedSeatIsEnrolled
    <2>8. WithdrawProgress(r)' /\ RosterProgress(r)'
        BY <1>1, <2>1, <2>2, <2>3 DEF WithdrawProgress, RosterProgress, SeatSteps
    <2>9. SeatProgress(r)'
        BY <1>1, <2>1, <2>2, <2>3, <2>4, NoneAssumption DEF SeatProgress, SeatSteps
    <2> QED BY <2>3, <2>5, <2>6, <2>7, <2>8, <2>9, StepKeeps DEF Progress
<1> QED BY <1>1, <1>2, EndKeeps

LEMMA AdmissionKeeps == ASSUME IInv, NEW r \in Requests, ConfirmAdmission(r) PROVE IInv'
<1> DEFINE pair == <<LeadOf(r), requests[r].batch>>
<1> DEFINE state == [requests[r] EXCEPT !.at = "save_seat"]
<1>1. /\ TypeOK /\ requests[r].at = "admission"
      /\ UNCHANGED <<leads, batches, seats, students, byHand>>
      /\ admissions' = [admissions EXCEPT ![pair] = @ + 1] /\ Goto(r, state)
    BY DEF IInv, ConfirmAdmission
<1>2. /\ requests[r] \in [at : SeatSteps, batch : Batches, capacity : Nat, roster : SUBSET SeatIds,
                           seat : SeatIds, student : Emails \cup {None}]
      /\ LeadOf(r) \in Leads
      /\ RosterProgress(r) /\ SeatProgress(r)
    BY <1>1, AtASeat DEF SeatSteps
<1>3. state \in RequestStates /\ state.at = "save_seat" /\ state.student = requests[r].student
      /\ state.batch = requests[r].batch /\ state.roster = requests[r].roster
      /\ state.seat = requests[r].seat
    BY <1>2 DEF RequestStates, SeatSteps
<1>4. /\ requests' \in [Requests -> RequestStates]
      /\ requests'[r] = state
      /\ \A q \in Requests \ {r} : requests'[q] = requests[q]
    BY <1>1, <1>3, GotoTypes
<1>5. pair \in Leads \X Batches /\ admissions \in [Leads \X Batches -> Nat]
    BY <1>1, <1>2 DEF TypeOK
<1>6. admissions' \in [Leads \X Batches -> Nat] /\ admissions'[pair] > 0
      /\ \A p \in Leads \X Batches : admissions'[p] >= admissions[p]
    BY <1>1, <1>5
<1>7. TypeOK'
    BY <1>1, <1>4, <1>6, MetTypes DEF TypeOK
<1>8. Steady
    BY <1>1, <1>6 DEF Steady
<1>9. ConfirmedSeatIsEnrolled'
    <2>1. \A i \in DOMAIN seats : seats[i].lead \in Leads /\ seats[i].batch \in Batches
        BY <1>1, SeatTypes DEF SeatDocs
    <2>2. \A i \in DOMAIN seats : admissions[<<seats[i].lead, seats[i].batch>>] > 0
                                 => admissions'[<<seats[i].lead, seats[i].batch>>] > 0
        BY <1>5, <1>6, <2>1
    <2> QED BY <1>1, <2>2 DEF IInv, ConfirmedSeatIsEnrolled
<1>10. WithdrawProgress(r)' /\ RosterProgress(r)'
    BY <1>1, <1>2, <1>3, <1>4 DEF WithdrawProgress, RosterProgress, SeatSteps
<1>11. SeatProgress(r)'
    <2>1. LeadOf(r)' = LeadOf(r)
        BY <1>1, <1>3, <1>4 DEF LeadOf
    <2> QED BY <1>1, <1>2, <1>3, <1>4, <1>6, <2>1 DEF SeatProgress, SeatSteps
<1> QED BY <1>4, <1>7, <1>8, <1>9, <1>10, <1>11, StepKeeps DEF Progress

LEMMA SaveSeatKeeps == ASSUME IInv, NEW r \in Requests, ConfirmSaveSeat(r) PROVE IInv'
<1> DEFINE id == requests[r].seat
<1> DEFINE doc == [seats[id] EXCEPT !.status = "confirmed", !.student = requests[r].student]
<1> DEFINE state == [at |-> "next_seat", batch |-> requests[r].batch, capacity |-> requests[r].capacity, roster |-> requests[r].roster]
<1>1. /\ TypeOK /\ requests[r].at = "save_seat"
      /\ UNCHANGED <<leads, batches, students, admissions, byHand>>
      /\ Goto(r, state)
    BY DEF IInv, ConfirmSaveSeat, NextSeat
<1>2. /\ requests[r] \in [at : SeatSteps, batch : Batches, capacity : Nat, roster : SUBSET SeatIds,
                           seat : SeatIds, student : Emails \cup {None}]
      /\ id \in DOMAIN seats /\ seats[id] \in SeatDocs
      /\ RosterProgress(r) /\ SeatProgress(r)
    BY <1>1, AtASeat DEF SeatSteps
<1>3. /\ doc \in SeatDocs /\ doc.status = "confirmed" /\ doc.student = requests[r].student
      /\ doc.lead = seats[id].lead /\ doc.batch = seats[id].batch
    BY <1>2 DEF SeatDocs
<1>4. seats' = [seats EXCEPT ![id] = doc]
    BY DEF ConfirmSaveSeat
<1>5. /\ seats' \in Seq(SeatDocs) /\ Len(seats') = Len(seats)
      /\ DOMAIN seats' = DOMAIN seats
      /\ \A i \in DOMAIN seats : seats'[i] = IF i = id THEN doc ELSE seats[i]
      /\ Steady
    BY <1>1, <1>2, <1>3, <1>4, SeatSaved
<1>6. state \in RequestStates
    BY <1>2 DEF RequestStates
<1>7. /\ requests' \in [Requests -> RequestStates]
      /\ requests'[r] = state
      /\ \A q \in Requests \ {r} : requests'[q] = requests[q]
    BY <1>1, <1>6, GotoTypes
<1>8. TypeOK'
    BY <1>1, <1>5, <1>7, MetTypes DEF TypeOK
<1>9. /\ doc.student # None /\ students[doc.student] # "none"
      /\ admissions[<<doc.lead, doc.batch>>] > 0
    BY <1>1, <1>2, <1>3 DEF SeatProgress, SeatSteps, LeadOf
<1>10. ConfirmedSeatIsEnrolled'
    BY <1>1, <1>3, <1>5, <1>9 DEF IInv, ConfirmedSeatIsEnrolled
<1>11. Progress(r)'
    BY <1>1, <1>2, <1>5, <1>7 DEF Progress, WithdrawProgress, RosterProgress, SeatProgress, SeatSteps, Steady
<1> QED BY <1>5, <1>7, <1>8, <1>10, <1>11, StepKeeps

LEMMA SaveBatchKeeps == ASSUME IInv, NEW r \in Requests, ConfirmSaveBatch(r) PROVE IInv'
<1>1. /\ TypeOK /\ requests[r].at = "next_seat" /\ End(r)
      /\ batches' = [batches EXCEPT ![requests[r].batch] = Locked(r)]
      /\ UNCHANGED <<leads, seats, students, admissions, byHand>>
    BY DEF IInv, ConfirmSaveBatch
<1>2. Locked(r) \in BatchDocs
    BY <1>1, RequestTypes DEF Locked, BatchDocs, BatchStatus
<1>4. TypeOK'
    BY <1>1, <1>2, EndProgress, MetTypes DEF TypeOK
<1>3. Steady /\ ConfirmedSeatIsEnrolled'
    BY <1>1 DEF Steady, IInv, TypeOK, ConfirmedSeatIsEnrolled
<1> QED BY <1>1, <1>3, <1>4, EndProgress, StepKeeps

-----------------------------------------------------------------------------
(* The Batches page *)

LEMMA UpdateKeeps == ASSUME IInv, NEW r \in Requests, Update(r) PROVE IInv'
<1>1. TypeOK
    BY DEF IInv
<1>2. ASSUME NEW b \in Batches, UpdateBegin(r, b) PROVE IInv'
    <2> DEFINE state == [at |-> "update", batch |-> b, doc |-> batches[b]]
    <2>1. state \in RequestStates
        BY <1>1 DEF RequestStates, TypeOK
    <2>2. Goto(r, state) /\ UNCHANGED <<leads, batches, seats, students, admissions, byHand>>
        BY <1>2 DEF UpdateBegin
    <2>3. requests'[r] = state
        BY <1>1, <2>1, <2>2, GotoTypes
    <2>4. Progress(r)'
        BY <2>3 DEF Progress, WithdrawProgress, RosterProgress, SeatProgress, SeatSteps
    <2> QED BY <2>1, <2>2, <2>4, MoveKeeps
<1>3. CASE UpdateSave(r)
    <2>1. PICK status \in BatchStatus, capacity \in Capacities \cup {requests[r].doc.capacity} :
             batches' = [batches EXCEPT ![requests[r].batch] = [status |-> status, capacity |-> capacity]]
        BY <1>3 DEF UpdateSave
    <2>2. /\ requests[r].at = "update" /\ End(r)
          /\ byHand' \in {byHand, byHand \cup {requests[r].batch}}
          /\ UNCHANGED <<leads, seats, students, admissions>>
        BY <1>3 DEF UpdateSave
    <2>3. requests[r].batch \in Batches /\ requests[r].doc \in BatchDocs
        BY <1>1, <2>2, RequestTypes
    <2>4. [status |-> status, capacity |-> capacity] \in BatchDocs
        BY <2>3, CapacityAssumption DEF BatchDocs
    <2>5. TypeOK'
        BY <1>1, <2>1, <2>2, <2>3, <2>4, EndProgress, MetTypes DEF TypeOK
    <2>6. Steady /\ ConfirmedSeatIsEnrolled'
        BY <1>1, <2>2 DEF Steady, IInv, TypeOK, ConfirmedSeatIsEnrolled
    <2> QED BY <1>1, <2>2, <2>5, <2>6, EndProgress, StepKeeps
<1> QED BY <1>2, <1>3, SubsetsAssumption DEF Update

-----------------------------------------------------------------------------
(* The people around the requests. *)

LEMMA SurroundingsKeep ==
    ASSUME IInv, UNCHANGED <<seats, admissions, requests, batches, byHand>>, TypeOK',
           \A e \in Emails : students[e] # "none" => students'[e] # "none"
    PROVE  IInv'
<1>1. Steady
    BY DEF Steady, IInv, TypeOK
<1>2. ConfirmedSeatIsEnrolled'
    <2>1. \A i \in DOMAIN seats : seats[i].student \in Emails \cup {None}
        BY SeatTypes DEF IInv, SeatDocs
    <2> QED BY <2>1 DEF IInv, ConfirmedSeatIsEnrolled
<1>3. \A r \in Requests : Progress(r)'
    BY <1>1, OthersKeep
<1> QED BY <1>2, <1>3 DEF IInv

LEMMA LeadChangesKeeps == ASSUME IInv, NEW l \in Leads, LeadChanges(l) PROVE IInv'
<1>1. PICK field \in {"ready", "paid", "deleted"} : leads' = [leads EXCEPT ![l][field] = ~@]
    BY DEF LeadChanges
<1>2. leads[l] \in LeadDocs
    BY DEF IInv, TypeOK
<1>3. [leads[l] EXCEPT ![field] = ~@] \in LeadDocs
    BY <1>2 DEF LeadDocs
<1>4. leads' \in [Leads -> LeadDocs]
    BY <1>1, <1>3 DEF IInv, TypeOK
<1>5. UNCHANGED <<batches, seats, students, admissions, requests, byHand, met>>
    BY DEF LeadChanges
<1>6. TypeOK'
    BY <1>4, <1>5 DEF IInv, TypeOK
<1> QED BY <1>5, <1>6, SurroundingsKeep

LEMMA StudentDeletedKeeps == ASSUME IInv, NEW email \in Emails, StudentDeleted(email) PROVE IInv'
<1>1. /\ students' = [students EXCEPT ![email] = "deleted"]
      /\ UNCHANGED <<leads, batches, seats, admissions, requests, byHand, met>>
    BY DEF StudentDeleted
<1>2. /\ students' \in [Emails -> {"none", "there", "deleted"}]
      /\ \A e \in Emails : students[e] # "none" => students'[e] # "none"
    BY <1>1 DEF IInv, TypeOK
<1>3. TypeOK'
    BY <1>1, <1>2 DEF IInv, TypeOK
<1> QED BY <1>1, <1>2, <1>3, SurroundingsKeep

-----------------------------------------------------------------------------

LEMMA InitEstablishes == Init => IInv
<1> SUFFICES ASSUME Init PROVE IInv
    OBVIOUS
<1>1. TypeOK
    <2>1. seats \in Seq(SeatDocs) /\ Len(seats) = 0
        BY EmptySeq DEF Init
    <2>2. leads \in [Leads -> LeadDocs]
        BY DEF Init, LeadDocs
    <2>3. batches \in [Batches -> BatchDocs] /\ students \in [Emails -> {"none", "there", "deleted"}]
        BY CapacityAssumption DEF Init, BatchDocs, BatchStatus
    <2>4. admissions \in [Leads \X Batches -> Nat]
        BY DEF Init
    <2>5. requests \in [Requests -> RequestStates]
        BY IdleState DEF Init
    <2>6. byHand \subseteq Batches
        BY DEF Init
    <2>7. met \in BOOLEAN
        BY Zenon DEF Init
    <2> QED BY <2>1, <2>2, <2>3, <2>4, <2>5, <2>6, <2>7, BoundsAssumption DEF TypeOK
<1>2. DOMAIN seats = {}
    BY DEF Init
<1>3. \A r \in Requests : Progress(r)
    BY IdleState DEF Init
<1> QED BY <1>1, <1>2, <1>3 DEF IInv, ConfirmedSeatIsEnrolled

LEMMA NextKeeps == IInv /\ [Next]_vars => IInv'
<1> SUFFICES ASSUME IInv, [Next]_vars PROVE IInv'
    OBVIOUS
<1>1. ASSUME NEW r \in Requests, Confirm(r) PROVE IInv'
    BY <1>1, ConfirmReadKeeps, SaveStudentKeeps, AdmissionKeeps, SaveSeatKeeps, SaveBatchKeeps
       DEF Confirm, ConfirmStep
<1>2. ASSUME NEW r \in Requests, Crash(r) PROVE IInv'
    BY <1>2, EndKeeps DEF Crash
<1>3. CASE UNCHANGED vars
    BY <1>3, SurroundingsKeep DEF vars, IInv, TypeOK
<1> QED BY <1>1, <1>2, <1>3, AllocateKeeps, WithdrawKeeps, UpdateKeeps, LeadChangesKeeps, StudentDeletedKeeps,
       SubsetsAssumption DEF Next

(* The inductive invariant: types, confirmed seats, and what every request *)
(* in progress has established.                                            *)
THEOREM Invariance == Spec => []IInv
BY InitEstablishes, NextKeeps, PTL DEF Spec

(* A confirmed seat has its student and an admission, whatever else runs,  *)
(* crashes or is deleted beside the confirmation (confirm_batch).          *)
THEOREM SeatsAreEnrolled == Spec => []ConfirmedSeatIsEnrolled
<1>1. IInv => ConfirmedSeatIsEnrolled
    BY DEF IInv
<1> QED BY <1>1, Invariance, PTL

(* The documents and the requests are always well typed. *)
THEOREM TypeCorrectness == Spec => []TypeOK
<1>1. IInv => TypeOK
    BY DEF IInv
<1> QED BY <1>1, Invariance, PTL

-----------------------------------------------------------------------------
(* Seats, while the requests that would disturb each other do not meet.    *)
(* Standing says what a request has found out and may still rely on.       *)

AllocationStanding(r) ==
    /\ requests[r].at \in {"seats_taken", "give_seat"} => SeatsOf(requests[r].lead) = {}
    /\ requests[r].at = "give_seat" => Cardinality(LiveSeats(requests[r].batch)) < requests[r].capacity
    /\ \A b \in Batches : Allocating(r, b) =>
          batches[b].status = "upcoming" /\ batches[b].capacity = requests[r].capacity

ConfirmationStanding(r) ==
    /\ \A i \in InHand(r) : Live(seats[i])
    /\ requests[r].at \in SeatSteps \cup {"next_seat"} =>
          \A i \in LiveSeats(requests[r].batch) : seats[i].status = "confirmed" \/ i \in InHand(r)

UpdateStanding(r) == \A b \in Batches : Updating(r, b) => requests[r].doc = batches[b]

Standing(r) == AllocationStanding(r) /\ ConfirmationStanding(r) /\ UpdateStanding(r)

OneSeatEach ==
    \A i, j \in DOMAIN seats : Live(seats[i]) /\ Live(seats[j]) /\ seats[i].lead = seats[j].lead => i = j

Rosters ==
    \A b \in Batches \ byHand :
        batches[b].status = "confirmed" => \A i \in LiveSeats(b) : seats[i].status = "confirmed"

SeatInv == OneSeatEach /\ Rosters /\ \A r \in Requests : Standing(r)

LEMMA SomeSeats ==
    ASSUME NEW docs \in Seq(SeatDocs), NEW S \in SUBSET DOMAIN docs
    PROVE  IsFiniteSet(S) /\ Cardinality(S) \in Nat
<1>1. DOMAIN docs = 1..Len(docs) /\ Len(docs) \in Nat
    OBVIOUS
<1>2. IsFiniteSet(1..Len(docs))
    BY <1>1, FS_Interval
<1>3. IsFiniteSet(S)
    BY <1>1, <1>2, FS_Subset
<1> QED BY <1>3, FS_CardinalityType

LEMMA LiveSeatsCounted ==
    ASSUME TypeOK, NEW b \in Batches
    PROVE  Cardinality(LiveSeats(b)) \in Nat
BY SomeSeats DEF LiveSeats, TypeOK

LEMMA LiveSeatsCountedNext ==
    ASSUME TypeOK', NEW b \in Batches
    PROVE  Cardinality(LiveSeats(b)') \in Nat
BY SomeSeats DEF LiveSeats, TypeOK

(* No seat is added and none comes back to life. *)
NoMoreSeats ==
    /\ DOMAIN seats' = DOMAIN seats
    /\ \A i \in DOMAIN seats : /\ seats'[i].lead = seats[i].lead /\ seats'[i].batch = seats[i].batch
                               /\ Live(seats'[i]) => Live(seats[i])
                               /\ Live(seats'[i]) /\ seats[i].status = "confirmed" => seats'[i].status = "confirmed"

LEMMA NoMoreSeatsKeeps ==
    ASSUME TypeOK, TypeOK', NoMoreSeats, OneSeatEach
    PROVE  /\ OneSeatEach'
           /\ \A l : SeatsOf(l)' \subseteq SeatsOf(l)
           /\ \A b : LiveSeats(b)' \subseteq LiveSeats(b)
           /\ \A b \in Batches : Cardinality(LiveSeats(b)') <= Cardinality(LiveSeats(b))
<1>1. OneSeatEach'
    BY DEF NoMoreSeats, OneSeatEach
<1>2. \A b : LiveSeats(b)' \subseteq LiveSeats(b)
    BY DEF NoMoreSeats, LiveSeats
<1>3. \A l : SeatsOf(l)' \subseteq SeatsOf(l)
    BY DEF NoMoreSeats, SeatsOf
<1>4. ASSUME NEW b \in Batches PROVE Cardinality(LiveSeats(b)') <= Cardinality(LiveSeats(b))
    <2>1. IsFiniteSet(LiveSeats(b))
        BY SomeSeats DEF TypeOK, LiveSeats
    <2> QED BY <1>2, <2>1, FS_Subset
<1> QED BY <1>1, <1>2, <1>3, <1>4

(* A request that does not move keeps its standing while no seat is added, *)
(* its seats in hand stay alive and no batch it allocates to, or updates,  *)
(* is saved.                                                               *)
LEMMA StandingKept ==
    ASSUME IInv, IInv', SeatInv, NoMoreSeats, NEW r \in Requests, requests'[r] = requests[r],
           \A b \in Batches : Allocating(r, b) \/ Updating(r, b) => batches'[b] = batches[b],
           \A i \in InHand(r) : Live(seats'[i])
    PROVE  Standing(r)'
<1>1. TypeOK /\ TypeOK' /\ Standing(r) /\ OneSeatEach
    BY DEF IInv, SeatInv
<1>2. InHand(r)' = InHand(r) /\ \A b \in Batches : Allocating(r, b)' = Allocating(r, b)
    BY DEF InHand, Allocating
<1>3. AllocationStanding(r)'
    <2>1. requests[r].at \in {"seats_taken", "give_seat"} => SeatsOf(requests[r].lead)' = {}
        BY <1>1, NoMoreSeatsKeeps DEF Standing, AllocationStanding
    <2>2. ASSUME requests[r].at = "give_seat"
          PROVE  Cardinality(LiveSeats(requests[r].batch)') < requests[r].capacity
        <3>1. requests[r].batch \in Batches /\ requests[r].capacity \in Nat
            BY <1>1, <2>2, RequestTypes
        <3>2. /\ Cardinality(LiveSeats(requests[r].batch)') \in Nat
              /\ Cardinality(LiveSeats(requests[r].batch)) \in Nat
            BY <1>1, <3>1, LiveSeatsCounted, LiveSeatsCountedNext
        <3>3. Cardinality(LiveSeats(requests[r].batch)') <= Cardinality(LiveSeats(requests[r].batch))
            BY <1>1, <3>1, NoMoreSeatsKeeps
        <3>4. Cardinality(LiveSeats(requests[r].batch)) < requests[r].capacity
            BY <1>1, <2>2 DEF Standing, AllocationStanding
        <3> QED BY <3>1, <3>2, <3>3, <3>4
    <2> QED BY <1>1, <1>2, <2>1, <2>2 DEF Standing, AllocationStanding, SeatsOf, LiveSeats
<1>4. ConfirmationStanding(r)'
    <2>1. \A i \in LiveSeats(requests[r].batch)' : i \in LiveSeats(requests[r].batch)
        BY <1>1, NoMoreSeatsKeeps
    <2>2. \A i \in LiveSeats(requests[r].batch)' : Live(seats'[i]) /\ i \in DOMAIN seats
        BY DEF LiveSeats, NoMoreSeats
    <2> QED BY <1>1, <1>2, <2>1, <2>2 DEF Standing, ConfirmationStanding, NoMoreSeats, LiveSeats
<1>5. UpdateStanding(r)'
    BY <1>1 DEF Standing, UpdateStanding, Updating
<1> QED BY <1>3, <1>4, <1>5 DEF Standing

(* A step of request r that adds no seat. *)
LEMMA SeatStepKeeps ==
    ASSUME IInv, IInv', SeatInv, NoMoreSeats, Rosters', NEW r \in Requests, Standing(r)',
           \A q \in Requests \ {r} :
              /\ requests'[q] = requests[q]
              /\ \A b \in Batches : Allocating(q, b) \/ Updating(q, b) => batches'[b] = batches[b]
              /\ \A i \in InHand(q) : Live(seats'[i])
    PROVE  SeatInv'
<1>1. OneSeatEach'
    BY NoMoreSeatsKeeps DEF IInv, SeatInv
<1>2. \A q \in Requests : Standing(q)'
    BY StandingKept
<1> QED BY <1>1, <1>2 DEF SeatInv

(* A step of request r, or of nobody, that writes no seat and no batch. *)
LEMMA ReadStepKeeps ==
    ASSUME IInv, IInv', SeatInv, UNCHANGED <<seats, batches, byHand>>,
           \A q \in Requests : requests'[q] = requests[q] \/ Standing(q)'
    PROVE  SeatInv'
<1>1. NoMoreSeats /\ Rosters' /\ \A q \in Requests : \A i \in InHand(q) : Live(seats'[i])
    BY DEF NoMoreSeats, Rosters, SeatInv, LiveSeats, Standing, ConfirmationStanding
<1>2. OneSeatEach'
    BY <1>1, NoMoreSeatsKeeps DEF IInv, SeatInv
<1>3. \A q \in Requests : Standing(q)'
    BY <1>1, StandingKept
<1> QED BY <1>1, <1>2, <1>3 DEF SeatInv

LEMMA EndStands ==
    ASSUME IInv, NEW r \in Requests, End(r)
    PROVE  Standing(r)' /\ \A q \in Requests \ {r} : requests'[q] = requests[q]
<1>1. requests'[r] = Idle /\ \A q \in Requests \ {r} : requests'[q] = requests[q]
    BY IdleState, GotoTypes DEF End, IInv
<1> QED BY <1>1 DEF Idle, Standing, AllocationStanding, ConfirmationStanding, UpdateStanding, InHand, Allocating, Updating, SeatSteps

LEMMA EndKeepsSeats ==
    ASSUME IInv, IInv', SeatInv, NEW r \in Requests, End(r), UNCHANGED <<seats, batches, byHand>>
    PROVE  SeatInv'
BY EndStands, ReadStepKeeps

(* Where request r goes, in a step that writes no seat and no batch. *)
LEMMA GotoKeepsSeats ==
    ASSUME IInv, IInv', SeatInv, NEW r \in Requests, NEW state, Goto(r, state), UNCHANGED <<seats, batches, byHand>>,
           requests'[r] = state => Standing(r)'
    PROVE  SeatInv'
<1>1. requests'[r] = state /\ \A q \in Requests \ {r} : requests'[q] = requests[q]
    BY DEF Goto, IInv, TypeOK
<1> QED BY <1>1, ReadStepKeeps

-----------------------------------------------------------------------------
(* allocate, apart from others *)

LEMMA AllocateReadsKeepSeats ==
    ASSUME IInv, IInv', SeatInv, NEW r \in Requests,
           \/ \E l \in Leads, b \in Batches : AllocateBegin(r, l, b)
           \/ AllocateCheckSeat(r)
           \/ AllocateCheckCapacity(r)
    PROVE  SeatInv'
<1>1. ASSUME NEW l \in Leads, NEW b \in Batches, AllocateBegin(r, l, b) PROVE SeatInv'
    <2> DEFINE state == [at |-> "seat_of_lead", lead |-> l, batch |-> b, capacity |-> batches[b].capacity]
    <2>1. Goto(r, state) /\ batches[b].status = "upcoming" /\ UNCHANGED <<seats, batches, byHand>>
        BY <1>1 DEF AllocateBegin
    <2>2. requests'[r] = state => Standing(r)'
        BY <2>1 DEF Standing, AllocationStanding, ConfirmationStanding, UpdateStanding, InHand, Allocating, Updating, SeatSteps
    <2> QED BY <2>1, <2>2, GotoKeepsSeats
<1>2. CASE AllocateCheckSeat(r)
    <2> DEFINE state == [requests[r] EXCEPT !.at = "seats_taken"]
    <2>1. requests[r].at = "seat_of_lead" /\ UNCHANGED <<seats, batches, byHand>>
        BY <1>2 DEF AllocateCheckSeat
    <2>2. CASE Goto(r, state) /\ SeatsOf(requests[r].lead) = {}
        <3>1. /\ state.at = "seats_taken" /\ state.lead = requests[r].lead /\ state.batch = requests[r].batch
              /\ state.capacity = requests[r].capacity
              /\ requests[r].batch \in Batches
            BY <2>1, RequestTypes DEF IInv
        <3>2. requests'[r] = state => Standing(r)'
            BY <2>1, <2>2, <3>1 DEF SeatInv, Standing, AllocationStanding, ConfirmationStanding, UpdateStanding, InHand, Allocating, Updating, SeatSteps, SeatsOf
        <3> QED BY <2>1, <2>2, <3>2, GotoKeepsSeats
    <2> QED BY <1>2, <2>1, <2>2, EndKeepsSeats DEF AllocateCheckSeat
<1>3. CASE AllocateCheckCapacity(r)
    <2> DEFINE state == [requests[r] EXCEPT !.at = "give_seat"]
    <2>1. requests[r].at = "seats_taken" /\ UNCHANGED <<seats, batches, byHand>>
        BY <1>3 DEF AllocateCheckCapacity
    <2>2. CASE Goto(r, state) /\ Cardinality(LiveSeats(requests[r].batch)) < requests[r].capacity
        <3>1. /\ state.at = "give_seat" /\ state.lead = requests[r].lead /\ state.batch = requests[r].batch
              /\ state.capacity = requests[r].capacity
              /\ requests[r].batch \in Batches
            BY <2>1, RequestTypes DEF IInv
        <3>2. requests'[r] = state => Standing(r)'
            BY <2>1, <2>2, <3>1 DEF SeatInv, Standing, AllocationStanding, ConfirmationStanding, UpdateStanding, InHand, Allocating, Updating, SeatSteps, SeatsOf, LiveSeats
        <3> QED BY <2>1, <2>2, <3>2, GotoKeepsSeats
    <2> QED BY <1>3, <2>1, <2>2, EndKeepsSeats DEF AllocateCheckCapacity
<1> QED BY <1>1, <1>2, <1>3

(* The new seat: the lead had none, the batch a place left, and nobody is  *)
(* confirming the batch.                                                   *)
LEMMA AllocateSeatKeepsSeats ==
    ASSUME IInv, IInv', SeatInv, Apart, NEW r \in Requests, AllocateSeat(r)
    PROVE  SeatInv'
<1> DEFINE lead == requests[r].lead
           batch == requests[r].batch
           id == Len(seats) + 1
           seat == [lead |-> lead, batch |-> batch, status |-> "allocated", student |-> None]
<1>1. /\ requests[r].at = "give_seat" /\ seats' = Append(seats, seat) /\ End(r)
      /\ UNCHANGED <<batches, byHand>>
    BY DEF AllocateSeat
<1>2. TypeOK /\ TypeOK' /\ Standing(r) /\ lead \in Leads /\ batch \in Batches
    BY <1>1, RequestTypes DEF IInv, SeatInv
<1>3. /\ DOMAIN seats' = DOMAIN seats \cup {id} /\ id \notin DOMAIN seats
      /\ seats'[id] = seat /\ \A i \in DOMAIN seats : seats'[i] = seats[i]
    BY <1>1, <1>2 DEF TypeOK
<1>4. Live(seat) /\ seat.lead = lead /\ seat.batch = batch
    BY DEF Live
<1> HIDE DEF seat, id
<1>5. SeatsOf(lead) = {} /\ batches[batch].status = "upcoming"
    BY <1>1, <1>2 DEF Standing, AllocationStanding, Allocating
<1>6. OneSeatEach'
    BY <1>3, <1>4, <1>5 DEF SeatInv, OneSeatEach, SeatsOf
<1>7. \A b \in Batches : LiveSeats(b)' = IF b = batch THEN LiveSeats(b) \cup {id} ELSE LiveSeats(b)
    BY <1>3, <1>4 DEF LiveSeats
<1>8. \A l \in Leads \ {lead} : SeatsOf(l)' = SeatsOf(l)
    BY <1>3, <1>4 DEF SeatsOf
<1>10. Rosters'
    BY <1>1, <1>3, <1>5, <1>7 DEF SeatInv, Rosters, LiveSeats
<1>11. Standing(r)' /\ \A q \in Requests \ {r} : requests'[q] = requests[q]
    BY <1>1, EndStands
<1>12. ASSUME NEW q \in Requests \ {r} PROVE Standing(q)'
    <2>1. requests'[q] = requests[q] /\ Standing(q) /\ LeadsApart(q, r) /\ CountsApart(q, r) /\ RostersApart(r, q)
        BY <1>11 DEF SeatInv, Apart
    <2>2. InHand(q)' = InHand(q) /\ \A b \in Batches : Allocating(q, b)' = Allocating(q, b)
        BY <2>1 DEF InHand, Allocating
    <2>3. requests[q].at \in {"seats_taken", "give_seat"} => SeatsOf(requests[q].lead)' = {}
        <3>1. requests[q].at \in {"seats_taken", "give_seat"} => requests[q].lead \in Leads \ {lead}
            BY <1>1, <1>2, <2>1, RequestTypes DEF LeadsApart
        <3> QED BY <1>8, <2>1, <3>1 DEF Standing, AllocationStanding
    <2>4. requests[q].at = "give_seat" => LiveSeats(requests[q].batch)' = LiveSeats(requests[q].batch)
        <3>1. requests[q].at = "give_seat" => requests[q].batch \in Batches \ {batch}
            BY <1>1, <1>2, <2>1, RequestTypes DEF CountsApart
        <3> QED BY <1>3, <1>4, <2>1, <3>1 DEF LiveSeats
    <2>5. AllocationStanding(q)'
        <3>1. requests[q].at = "give_seat" => Cardinality(LiveSeats(requests[q].batch)') < requests[q].capacity
            BY <2>1, <2>4 DEF Standing, AllocationStanding
        <3> QED BY <1>1, <2>1, <2>2, <2>3, <3>1 DEF Standing, AllocationStanding, SeatsOf, LiveSeats
    <2>6. \A i \in InHand(q) : i \in DOMAIN seats
        BY <1>2, AtASeat DEF InHand, IInv, Progress, RosterProgress, SeatSteps
    <2>7. ASSUME requests[q].at \in SeatSteps \cup {"next_seat"}
          PROVE  LiveSeats(requests[q].batch)' = LiveSeats(requests[q].batch)
        <3>1. requests[q].batch \in Batches /\ Confirming(q, requests[q].batch)
            BY <1>2, <2>7, RequestTypes DEF Confirming, SeatSteps
        <3>2. Allocating(r, batch)
            BY <1>1 DEF Allocating
        <3>3. requests[q].batch # batch
            BY <1>2, <2>1, <3>1, <3>2 DEF RostersApart
        <3> QED BY <1>3, <1>4, <2>1, <3>3 DEF LiveSeats
    <2>8. ConfirmationStanding(q)'
        <3>1. \A i \in InHand(q) : Live(seats'[i])
            BY <1>3, <2>1, <2>6 DEF Standing, ConfirmationStanding
        <3>2. requests[q].at \in SeatSteps \cup {"next_seat"} =>
                 \A i \in LiveSeats(requests[q].batch)' : seats'[i].status = "confirmed" \/ i \in InHand(q)
            BY <1>3, <2>1, <2>7 DEF Standing, ConfirmationStanding, LiveSeats
        <3> QED BY <2>1, <2>2, <3>1, <3>2 DEF ConfirmationStanding, LiveSeats
    <2>9. UpdateStanding(q)'
        BY <1>1, <2>1 DEF Standing, UpdateStanding, Updating
    <2> QED BY <2>5, <2>8, <2>9 DEF Standing
<1> QED BY <1>6, <1>10, <1>11, <1>12 DEF SeatInv

-----------------------------------------------------------------------------
(* withdraw, apart from others *)

LEMMA WithdrawKeepsSeats ==
    ASSUME IInv, IInv', SeatInv, Apart, NEW r \in Requests, Withdraw(r)
    PROVE  SeatInv'
<1>1. ASSUME NEW i \in SeatIds, WithdrawBegin(r, i) PROVE SeatInv'
    <2> DEFINE state == [at |-> "withdraw", id |-> i, seat |-> seats[i]]
    <2>1. Goto(r, state) /\ UNCHANGED <<seats, batches, byHand>>
        BY <1>1 DEF WithdrawBegin
    <2>2. requests'[r] = state => Standing(r)'
        BY DEF Standing, AllocationStanding, ConfirmationStanding, UpdateStanding, InHand, Allocating, Updating, SeatSteps
    <2> QED BY <2>1, <2>2, GotoKeepsSeats
<1>2. CASE WithdrawSave(r)
    <2> DEFINE id == requests[r].id
               doc == [requests[r].seat EXCEPT !.status = "withdrawn"]
    <2>1. /\ requests[r].at = "withdraw" /\ seats' = [seats EXCEPT ![id] = doc] /\ End(r)
          /\ UNCHANGED <<batches, students, admissions, byHand>>
        BY <1>2 DEF WithdrawSave
    <2>2. TypeOK /\ requests[r].seat \in SeatDocs /\ WithdrawProgress(r)
        BY <2>1, RequestTypes DEF IInv, Progress
    <2>3. /\ doc \in SeatDocs /\ doc.status = "withdrawn" /\ id \in DOMAIN seats
          /\ doc.lead = seats[id].lead /\ doc.batch = seats[id].batch
        BY <2>1, <2>2 DEF SeatDocs, WithdrawProgress
    <2>4. /\ DOMAIN seats' = DOMAIN seats
          /\ \A i \in DOMAIN seats : seats'[i] = IF i = id THEN doc ELSE seats[i]
        BY <2>1, <2>3, SeatSaved
    <2>5. NoMoreSeats /\ Rosters'
        BY <2>1, <2>3, <2>4 DEF NoMoreSeats, Live, SeatInv, Rosters, LiveSeats
    <2>6. Standing(r)' /\ \A q \in Requests \ {r} : requests'[q] = requests[q]
        BY <2>1, EndStands
    <2>7. ASSUME NEW q \in Requests \ {r} PROVE \A i \in InHand(q) : Live(seats'[i])
        <3>1. id \notin InHand(q) /\ Standing(q)
            BY <2>1, <2>7 DEF Apart, WithdrawalsApart, SeatInv
        <3>2. \A i \in InHand(q) : i \in DOMAIN seats
            BY <2>2, AtASeat DEF InHand, IInv, Progress, RosterProgress, SeatSteps
        <3> QED BY <2>4, <3>1, <3>2 DEF Standing, ConfirmationStanding
    <2> QED BY <2>1, <2>5, <2>6, <2>7, SeatStepKeeps
<1> QED BY <1>1, <1>2 DEF Withdraw

-----------------------------------------------------------------------------
(* confirm_batch, apart from others *)

LEMMA ConfirmReadsKeepSeats ==
    ASSUME IInv, IInv', SeatInv, NEW r \in Requests,
           \/ \E b \in Batches : ConfirmBegin(r, b)
           \/ ConfirmReadiness(r)
           \/ \E i \in SeatIds : ConfirmFindStudent(r, i)
    PROVE  SeatInv'
<1>1. ASSUME NEW b \in Batches, ConfirmBegin(r, b) PROVE SeatInv'
    <2> DEFINE state == [at |-> "readiness", batch |-> b, capacity |-> batches[b].capacity]
    <2>1. Goto(r, state) /\ UNCHANGED <<seats, batches, byHand>>
        BY <1>1 DEF ConfirmBegin
    <2>2. requests'[r] = state => Standing(r)'
        BY DEF Standing, AllocationStanding, ConfirmationStanding, UpdateStanding, InHand, Allocating, Updating, SeatSteps
    <2> QED BY <2>1, <2>2, GotoKeepsSeats
<1>2. CASE ConfirmReadiness(r)
    <2> DEFINE b == requests[r].batch
               roster == {i \in LiveSeats(b) : seats[i].status = "allocated"}
               state == [at |-> "next_seat", batch |-> b, capacity |-> requests[r].capacity, roster |-> roster]
    <2>1. UNCHANGED <<seats, batches, byHand>> /\ (End(r) \/ Goto(r, state))
        BY <1>2 DEF ConfirmReadiness
    <2>2. ASSUME requests'[r] = state PROVE Standing(r)'
        <3>1. InHand(r)' = roster /\ requests'[r].batch = b
            BY <2>2 DEF InHand
        <3>2. \A i \in roster : Live(seats[i])
            BY DEF Live
        <3>3. \A i \in LiveSeats(b) : seats[i].status = "confirmed" \/ i \in roster
            BY DEF LiveSeats, Live
        <3>4. AllocationStanding(r)'
            BY <2>2 DEF AllocationStanding, Allocating
        <3>5. ConfirmationStanding(r)'
            BY <2>1, <3>1, <3>2, <3>3 DEF ConfirmationStanding, LiveSeats
        <3> QED BY <2>2, <3>4, <3>5 DEF Standing, UpdateStanding, Updating
    <2> QED BY <2>1, <2>2, GotoKeepsSeats, EndKeepsSeats
<1>3. ASSUME NEW i \in SeatIds, ConfirmFindStudent(r, i) PROVE SeatInv'
    <2> DEFINE email == Email[seats[i].lead]
               state == [at |-> "save_student", batch |-> requests[r].batch, seat |-> i,
                         capacity |-> requests[r].capacity, roster |-> requests[r].roster \ {i},
                         student |-> IF students[email] = "there" THEN email ELSE None]
    <2>1. /\ requests[r].at = "next_seat" /\ i \in requests[r].roster
          /\ End(r) \/ Goto(r, state)
          /\ UNCHANGED <<seats, batches, byHand>>
        BY <1>3 DEF ConfirmFindStudent, Oldest
    <2>2. ASSUME requests'[r] = state PROVE Standing(r)'
        <3>1. InHand(r) = requests[r].roster /\ Standing(r)
            BY <2>1 DEF InHand, SeatInv
        <3>2. InHand(r)' = InHand(r) /\ requests'[r].batch = requests[r].batch
            BY <2>1, <2>2, <3>1 DEF InHand
        <3>3. AllocationStanding(r)'
            BY <2>2 DEF AllocationStanding, Allocating
        <3>4. ConfirmationStanding(r)'
            BY <2>1, <3>1, <3>2 DEF Standing, ConfirmationStanding, LiveSeats
        <3> QED BY <2>2, <3>3, <3>4 DEF Standing, UpdateStanding, Updating
    <2> QED BY <2>1, <2>2, GotoKeepsSeats, EndKeepsSeats
<1> QED BY <1>1, <1>2, <1>3

LEMMA ConfirmWritesKeepSeats ==
    ASSUME IInv, IInv', SeatInv, NEW r \in Requests, ConfirmSaveStudent(r) \/ ConfirmAdmission(r)
    PROVE  SeatInv'
<1>1. ASSUME NEW state, Goto(r, state), UNCHANGED <<seats, batches, byHand>>,
             requests[r].at \in SeatSteps, state.at \in SeatSteps,
             state.batch = requests[r].batch, state.roster = requests[r].roster, state.seat = requests[r].seat
      PROVE  SeatInv'
    <2>1. ASSUME requests'[r] = state PROVE Standing(r)'
        <3>1. InHand(r)' = InHand(r) /\ requests'[r].batch = requests[r].batch
            BY <1>1, <2>1 DEF InHand, SeatSteps
        <3>2. AllocationStanding(r)'
            BY <1>1, <2>1 DEF AllocationStanding, Allocating, SeatSteps
        <3>3. ConfirmationStanding(r)'
            BY <1>1, <3>1 DEF SeatInv, Standing, ConfirmationStanding, LiveSeats
        <3> QED BY <1>1, <2>1, <3>2, <3>3 DEF Standing, UpdateStanding, Updating, SeatSteps
    <2> QED BY <1>1, <2>1, GotoKeepsSeats
<1>2. CASE ConfirmSaveStudent(r)
    <2> DEFINE state == [requests[r] EXCEPT !.at = "admission", !.student = Email[LeadOf(r)]]
    <2>1. requests[r].at = "save_student" /\ (End(r) \/ Goto(r, state)) /\ UNCHANGED <<seats, batches, byHand>>
        BY <1>2 DEF ConfirmSaveStudent
    <2>2. /\ state.at \in SeatSteps /\ requests[r].at \in SeatSteps
          /\ state.batch = requests[r].batch /\ state.roster = requests[r].roster /\ state.seat = requests[r].seat
        BY <2>1, AtASeat DEF SeatSteps
    <2> HIDE DEF state
    <2> QED BY <1>1, <2>1, <2>2, EndKeepsSeats
<1>3. CASE ConfirmAdmission(r)
    <2> DEFINE state == [requests[r] EXCEPT !.at = "save_seat"]
    <2>1. requests[r].at = "admission" /\ Goto(r, state) /\ UNCHANGED <<seats, batches, byHand>>
        BY <1>3 DEF ConfirmAdmission
    <2>2. /\ state.at \in SeatSteps /\ requests[r].at \in SeatSteps
          /\ state.batch = requests[r].batch /\ state.roster = requests[r].roster /\ state.seat = requests[r].seat
        BY <2>1, AtASeat DEF SeatSteps
    <2> HIDE DEF state
    <2> QED BY <1>1, <2>1, <2>2
<1> QED BY <1>2, <1>3

LEMMA SaveSeatKeepsSeats ==
    ASSUME IInv, IInv', SeatInv, NEW r \in Requests, ConfirmSaveSeat(r)
    PROVE  SeatInv'
<1> DEFINE id == requests[r].seat
           doc == [seats[id] EXCEPT !.status = "confirmed", !.student = requests[r].student]
           state == [at |-> "next_seat", batch |-> requests[r].batch, capacity |-> requests[r].capacity, roster |-> requests[r].roster]
<1>1. /\ TypeOK /\ requests[r].at = "save_seat" /\ Goto(r, state)
      /\ seats' = [seats EXCEPT ![id] = doc]
      /\ UNCHANGED <<batches, students, admissions, byHand>>
    BY DEF IInv, ConfirmSaveSeat, NextSeat
<1>2. /\ id \in DOMAIN seats /\ seats[id] \in SeatDocs
      /\ requests[r].student \in Emails \cup {None}
    BY <1>1, AtASeat DEF SeatSteps
<1>3. /\ doc \in SeatDocs /\ doc.status = "confirmed"
      /\ doc.lead = seats[id].lead /\ doc.batch = seats[id].batch
    BY <1>2 DEF SeatDocs
<1>4. /\ DOMAIN seats' = DOMAIN seats
      /\ \A i \in DOMAIN seats : seats'[i] = IF i = id THEN doc ELSE seats[i]
    BY <1>1, <1>2, <1>3, SeatSaved
<1>5. /\ requests'[r] = state
      /\ \A q \in Requests \ {r} : requests'[q] = requests[q]
    BY <1>1 DEF Goto, TypeOK
<1>6. InHand(r) = requests[r].roster \cup {id} /\ Standing(r)
    BY <1>1 DEF InHand, SeatInv
<1>7. Live(seats[id]) /\ Live(doc)
    BY <1>3, <1>6 DEF Standing, ConfirmationStanding, Live
<1> HIDE DEF id, doc
<1>8. NoMoreSeats
    BY <1>3, <1>4, <1>7 DEF NoMoreSeats
<1>9. \A i \in DOMAIN seats : Live(seats[i]) => Live(seats'[i])
    BY <1>4, <1>7
<1>10. Rosters'
    BY <1>1, <1>3, <1>4, <1>8 DEF SeatInv, Rosters, LiveSeats, NoMoreSeats
<1>11. ASSUME NEW q \in Requests PROVE \A i \in InHand(q) : Live(seats'[i])
    <2>1. \A i \in InHand(q) : i \in DOMAIN seats
        BY <1>1, <1>11, AtASeat DEF InHand, IInv, Progress, RosterProgress, SeatSteps
    <2> QED BY <1>9, <2>1 DEF SeatInv, Standing, ConfirmationStanding
<1>12. Standing(r)'
    <2>1. InHand(r)' = requests[r].roster /\ requests'[r].batch = requests[r].batch
        BY <1>5 DEF InHand
    <2>2. AllocationStanding(r)'
        BY <1>5 DEF AllocationStanding, Allocating
    <2>3. \A i \in InHand(r)' : Live(seats'[i])
        BY <1>6, <1>11, <2>1
    <2>4. \A i \in LiveSeats(requests[r].batch)' : seats'[i].status = "confirmed" \/ i \in requests[r].roster
        BY <1>1, <1>3, <1>4, <1>6, <1>8, <2>1 DEF Standing, ConfirmationStanding, LiveSeats, NoMoreSeats, SeatSteps
    <2>5. ConfirmationStanding(r)'
        BY <2>1, <2>3, <2>4 DEF ConfirmationStanding, LiveSeats
    <2> QED BY <1>5, <2>2, <2>5 DEF Standing, UpdateStanding, Updating
<1> QED BY <1>1, <1>5, <1>8, <1>10, <1>11, <1>12, SeatStepKeeps

LEMMA SaveBatchKeepsSeats ==
    ASSUME IInv, IInv', SeatInv, Apart, NEW r \in Requests, ConfirmSaveBatch(r)
    PROVE  SeatInv'
<1>1. /\ TypeOK /\ requests[r].at = "next_seat" /\ requests[r].roster = {} /\ End(r)
      /\ batches' = [batches EXCEPT ![requests[r].batch] = Locked(r)]
      /\ UNCHANGED <<seats, byHand>>
    BY DEF IInv, ConfirmSaveBatch
<1>2. NoMoreSeats
    BY <1>1 DEF NoMoreSeats
<1>3. Rosters'
    <2>1. \A i \in LiveSeats(requests[r].batch) : seats[i].status = "confirmed"
        BY <1>1 DEF SeatInv, Standing, ConfirmationStanding, InHand
    <2>2. \A b \in Batches : batches'[b].status = "confirmed" => batches[b].status = "confirmed" \/ b = requests[r].batch
        BY <1>1 DEF TypeOK
    <2>3. ASSUME NEW b \in Batches \ byHand, batches'[b].status = "confirmed", NEW i \in LiveSeats(b)'
          PROVE  seats'[i].status = "confirmed"
        <3>1. i \in LiveSeats(b)
            BY <1>1, <2>3 DEF LiveSeats
        <3> QED BY <1>1, <2>1, <2>2, <2>3, <3>1 DEF SeatInv, Rosters
    <2> QED BY <1>1, <2>3 DEF Rosters
<1>4. Standing(r)' /\ \A q \in Requests \ {r} : requests'[q] = requests[q]
    BY <1>1, EndStands
<1>5. ASSUME NEW q \in Requests \ {r}, NEW b \in Batches, Allocating(q, b) \/ Updating(q, b) PROVE batches'[b] = batches[b]
    <2>1. requests[r].batch \in Batches /\ Confirming(r, requests[r].batch)
        BY <1>1, RequestTypes DEF Confirming
    <2>2. b # requests[r].batch
        BY <1>5, <2>1 DEF Apart, RostersApart, UpdatesApart
    <2> QED BY <1>1, <2>2 DEF TypeOK
<1> QED BY <1>1, <1>2, <1>3, <1>4, <1>5, SeatStepKeeps DEF SeatInv, Standing, ConfirmationStanding

(* An update, apart from others: the status it does not give is still the  *)
(* one it read.                                                            *)
LEMMA UpdateKeepsSeats ==
    ASSUME IInv, IInv', SeatInv, Apart, NEW r \in Requests, Update(r)
    PROVE  SeatInv'
<1>1. ASSUME NEW b \in Batches, UpdateBegin(r, b) PROVE SeatInv'
    <2> DEFINE state == [at |-> "update", batch |-> b, doc |-> batches[b]]
    <2>1. Goto(r, state) /\ UNCHANGED <<seats, batches, byHand>>
        BY <1>1 DEF UpdateBegin
    <2>2. requests'[r] = state => Standing(r)'
        BY <2>1 DEF Standing, AllocationStanding, ConfirmationStanding, UpdateStanding, InHand, Allocating, Updating, SeatSteps
    <2> QED BY <2>1, <2>2, GotoKeepsSeats
<1>2. CASE UpdateSave(r)
    <2> DEFINE edited == requests[r].batch
               doc == requests[r].doc
    <2>1. PICK status \in BatchStatus, capacity \in Capacities \cup {doc.capacity} :
             /\ batches' = [batches EXCEPT ![edited] = [status |-> status, capacity |-> capacity]]
             /\ byHand' = IF status = doc.status THEN byHand ELSE byHand \cup {edited}
        BY <1>2 DEF UpdateSave
    <2>2. requests[r].at = "update" /\ End(r) /\ UNCHANGED <<leads, seats, students, admissions>>
        BY <1>2 DEF UpdateSave
    <2>3. /\ TypeOK /\ edited \in Batches /\ Updating(r, edited) /\ doc = batches[edited]
        BY <2>2, RequestTypes DEF IInv, Updating, SeatInv, Standing, UpdateStanding
    <2>4. NoMoreSeats
        BY <2>2 DEF NoMoreSeats
    <2>5. Rosters'
        <3>1. \A b \in Batches : b \notin byHand' => b \notin byHand /\ batches'[b].status = batches[b].status
            BY <2>1, <2>3 DEF TypeOK
        <3> QED BY <2>2, <3>1 DEF SeatInv, Rosters, LiveSeats
    <2>6. Standing(r)' /\ \A q \in Requests \ {r} : requests'[q] = requests[q]
        BY <2>2, EndStands
    <2>7. ASSUME NEW q \in Requests \ {r}, NEW b \in Batches, Allocating(q, b) \/ Updating(q, b)
          PROVE  batches'[b] = batches[b]
        <3>1. b # edited
            BY <2>3, <2>7 DEF Apart, UpdatesApart
        <3> QED BY <2>1, <3>1 DEF TypeOK
    <2> QED BY <2>2, <2>4, <2>5, <2>6, <2>7, SeatStepKeeps DEF SeatInv, Standing, ConfirmationStanding
<1> QED BY <1>1, <1>2, SubsetsAssumption DEF Update

-----------------------------------------------------------------------------

LEMMA InitSeats == Init => SeatInv
<1> SUFFICES ASSUME Init PROVE SeatInv
    OBVIOUS
<1>1. DOMAIN seats = {}
    BY DEF Init
<1>2. \A b \in Batches : LiveSeats(b) = {}
    BY <1>1 DEF LiveSeats
<1>4. \A r \in Requests : Standing(r)
    BY DEF Init, Idle, Standing, AllocationStanding, ConfirmationStanding, UpdateStanding, InHand, Allocating, Updating, SeatSteps
<1> QED BY <1>1, <1>2, <1>4 DEF SeatInv, OneSeatEach, Rosters

LEMMA NextKeepsSeats == IInv /\ IInv' /\ SeatInv /\ Apart /\ [Next]_vars => SeatInv'
<1> SUFFICES ASSUME IInv, IInv', SeatInv, Apart, [Next]_vars PROVE SeatInv'
    OBVIOUS
<1>1. ASSUME NEW r \in Requests, Allocate(r) PROVE SeatInv'
    BY <1>1, AllocateReadsKeepSeats, AllocateSeatKeepsSeats DEF Allocate
<1>2. ASSUME NEW r \in Requests, Confirm(r) PROVE SeatInv'
    BY <1>2, ConfirmReadsKeepSeats, ConfirmWritesKeepSeats, SaveSeatKeepsSeats, SaveBatchKeepsSeats
       DEF Confirm, ConfirmStep
<1>3. ASSUME NEW r \in Requests, Crash(r) PROVE SeatInv'
    BY <1>3, EndKeepsSeats DEF Crash
<1>4. CASE UNCHANGED <<seats, batches, requests, byHand>>
    BY <1>4, ReadStepKeeps
<1> QED BY <1>1, <1>2, <1>3, <1>4, WithdrawKeepsSeats, UpdateKeepsSeats DEF Next, vars, LeadChanges, StudentDeleted

(* What the history remembers of the requests' meeting.                   *)
LEMMA Meetings ==
    ASSUME [Next]_vars
    PROVE  met' = (met \/ ~Apart') \/ UNCHANGED <<requests, met>>
<1>1. ASSUME NEW r \in Requests, Allocate(r) \/ Withdraw(r) PROVE met' = (met \/ ~Apart')
    BY <1>1 DEF Allocate, AllocateBegin, AllocateCheckSeat, AllocateCheckCapacity, AllocateSeat,
       Withdraw, WithdrawBegin, WithdrawSave, End, Goto
<1>2. ASSUME NEW r \in Requests, Confirm(r) PROVE met' = (met \/ ~Apart')
    BY <1>2 DEF Confirm, ConfirmStep, ConfirmBegin, ConfirmReadiness, ConfirmFindStudent, ConfirmSaveStudent,
       ConfirmAdmission, ConfirmSaveSeat, ConfirmSaveBatch, NextSeat, End, Goto
<1>3. ASSUME NEW r \in Requests, Update(r) \/ Crash(r) PROVE met' = (met \/ ~Apart')
    BY <1>3 DEF Update, UpdateBegin, UpdateSave, Crash, End, Goto
<1> QED BY <1>1, <1>2, <1>3 DEF Next, vars, LeadChanges, StudentDeleted

(* Until two requests meet they are apart, and the seats as they should be.*)
Unmet == ~met => Apart /\ SeatInv

LEMMA UnmetKeeps == IInv /\ IInv' /\ Unmet /\ [Next]_vars => Unmet'
<1> SUFFICES ASSUME IInv, IInv', Unmet, [Next]_vars, ~met' PROVE Apart' /\ SeatInv'
    BY DEF Unmet
<1>1. met \in BOOLEAN /\ met' \in BOOLEAN
    BY DEF IInv, TypeOK
<1>2. CASE met' = (met \/ ~Apart')
    BY <1>1, <1>2, NextKeepsSeats DEF Unmet
<1>3. CASE UNCHANGED <<requests, met>>
    <2>1. Apart /\ SeatInv
        BY <1>3 DEF Unmet
    <2>2. Apart'
        BY <1>3, <2>1 DEF Apart, LeadsApart, CountsApart, RostersApart, WithdrawalsApart, UpdatesApart,
           InHand, Allocating, Confirming, Updating
    <2> QED BY <2>1, <2>2, NextKeepsSeats
<1> QED BY <1>2, <1>3, Meetings

LEMMA InitUnmet == Init => Unmet
<1>1. Init => Apart
    BY DEF Init, Idle, Apart, LeadsApart, CountsApart, RostersApart, WithdrawalsApart, UpdatesApart,
       InHand, Allocating, Confirming, Updating
<1> QED BY <1>1, InitSeats DEF Unmet

LEMMA SeatInvariance == Spec => []Unmet
BY Invariance, InitUnmet, UnmetKeeps, PTL DEF Spec

(* "At most one live seat per lead" (models/batch_allocation.py:37): true, *)
(* of any number of requests, until two of them meet.                      *)
THEOREM OneSeatPerLead == Spec => []OneLiveSeatPerLead
<1>1. IInv /\ Unmet => OneLiveSeatPerLead
    <2> SUFFICES ASSUME IInv, SeatInv, NEW l \in Leads PROVE Cardinality(SeatsOf(l)) <= 1
        BY DEF OneLiveSeatPerLead, Unmet
    <2>1. \A i, j \in SeatsOf(l) : i = j
        BY DEF SeatInv, OneSeatEach, SeatsOf
    <2>2. CASE SeatsOf(l) = {}
        BY <2>2, FS_EmptySet
    <2>3. ASSUME NEW i \in SeatsOf(l) PROVE Cardinality(SeatsOf(l)) <= 1
        <3>1. SeatsOf(l) = {i}
            BY <2>1
        <3>2. Cardinality({i}) = 1
            BY FS_Singleton
        <3> QED BY <3>1, <3>2
    <2> QED BY <2>2, <2>3
<1> QED BY <1>1, Invariance, SeatInvariance, PTL

(* A step that leaves every seat but possibly one of a batch with room.    *)
LEMMA StepsStayWithin ==
    ASSUME IInv, IInv', SeatInv, Apart, [Next]_vars, NEW b \in Batches
    PROVE  LiveSeats(b)' \subseteq LiveSeats(b) \/ Cardinality(LiveSeats(b)') <= batches[b].capacity
<1>1. TypeOK /\ TypeOK' /\ OneSeatEach
    BY DEF IInv, SeatInv
<1>2. CASE seats' = seats
    BY <1>2 DEF LiveSeats
<1>3. ASSUME NEW r \in Requests, AllocateSeat(r)
      PROVE  LiveSeats(b)' \subseteq LiveSeats(b) \/ Cardinality(LiveSeats(b)') <= batches[b].capacity
    <2> DEFINE seat == [lead |-> requests[r].lead, batch |-> requests[r].batch,
                        status |-> "allocated", student |-> None]
               id == Len(seats) + 1
    <2>1. requests[r].at = "give_seat" /\ seats' = Append(seats, seat)
        BY <1>3 DEF AllocateSeat
    <2>2. /\ requests[r].batch \in Batches /\ requests[r].capacity \in Nat
          /\ Standing(r)
        BY <1>1, <2>1, RequestTypes DEF SeatInv
    <2>3. /\ DOMAIN seats' = DOMAIN seats \cup {id} /\ id \notin DOMAIN seats
          /\ seats'[id] = seat /\ \A i \in DOMAIN seats : seats'[i] = seats[i]
        BY <1>1, <2>1 DEF TypeOK
    <2>4. Live(seat) /\ seat.batch = requests[r].batch
        BY DEF Live
    <2> HIDE DEF seat, id
    <2>5. CASE b # requests[r].batch
        BY <2>3, <2>4, <2>5 DEF LiveSeats
    <2>6. CASE b = requests[r].batch
        <3>1. LiveSeats(b)' = LiveSeats(b) \cup {id} /\ id \notin LiveSeats(b)
            BY <2>3, <2>4, <2>6 DEF LiveSeats
        <3>2. IsFiniteSet(LiveSeats(b)) /\ Cardinality(LiveSeats(b)) \in Nat
            BY <1>1, SomeSeats DEF TypeOK, LiveSeats
        <3>3. Cardinality(LiveSeats(b)') = Cardinality(LiveSeats(b)) + 1
            BY <3>1, <3>2, FS_AddElement
        <3>4. Cardinality(LiveSeats(b)) < requests[r].capacity /\ requests[r].capacity = batches[b].capacity
            BY <2>1, <2>2, <2>6 DEF Standing, AllocationStanding, Allocating
        <3> QED BY <2>2, <3>2, <3>3, <3>4
    <2> QED BY <2>5, <2>6
<1>4. ASSUME NEW r \in Requests, WithdrawSave(r) PROVE LiveSeats(b)' \subseteq LiveSeats(b)
    <2> DEFINE id == requests[r].id
               doc == [requests[r].seat EXCEPT !.status = "withdrawn"]
    <2>1. /\ requests[r].at = "withdraw" /\ seats' = [seats EXCEPT ![id] = doc]
          /\ UNCHANGED <<students, admissions>>
        BY <1>4 DEF WithdrawSave
    <2>2. requests[r].seat \in SeatDocs /\ WithdrawProgress(r)
        BY <1>1, <2>1, RequestTypes DEF IInv, Progress
    <2>3. /\ doc \in SeatDocs /\ doc.status = "withdrawn" /\ id \in DOMAIN seats
          /\ doc.lead = seats[id].lead /\ doc.batch = seats[id].batch
        BY <2>1, <2>2 DEF SeatDocs, WithdrawProgress
    <2>4. /\ DOMAIN seats' = DOMAIN seats
          /\ \A i \in DOMAIN seats : seats'[i] = IF i = id THEN doc ELSE seats[i]
        BY <2>1, <2>3, SeatSaved
    <2> QED BY <2>3, <2>4 DEF LiveSeats, Live
<1>5. ASSUME NEW r \in Requests, ConfirmSaveSeat(r) PROVE LiveSeats(b)' \subseteq LiveSeats(b)
    <2> DEFINE id == requests[r].seat
               doc == [seats[id] EXCEPT !.status = "confirmed", !.student = requests[r].student]
    <2>1. /\ requests[r].at = "save_seat" /\ seats' = [seats EXCEPT ![id] = doc]
          /\ UNCHANGED <<students, admissions>>
        BY <1>5 DEF ConfirmSaveSeat
    <2>2. /\ id \in DOMAIN seats /\ seats[id] \in SeatDocs
          /\ requests[r].student \in Emails \cup {None}
        BY <2>1, AtASeat DEF SeatSteps
    <2>3. /\ doc \in SeatDocs /\ doc.lead = seats[id].lead /\ doc.batch = seats[id].batch
        BY <2>2 DEF SeatDocs
    <2>4. /\ DOMAIN seats' = DOMAIN seats
          /\ \A i \in DOMAIN seats : seats'[i] = IF i = id THEN doc ELSE seats[i]
        BY <2>1, <2>2, <2>3, SeatSaved
    <2>5. Live(seats[id])
        BY <2>1 DEF SeatInv, Standing, ConfirmationStanding, InHand
    <2> HIDE DEF doc, id
    <2> QED BY <2>3, <2>4, <2>5 DEF LiveSeats
<1>6. ASSUME seats' # seats
      PROVE  \E r \in Requests : AllocateSeat(r) \/ WithdrawSave(r) \/ ConfirmSaveSeat(r)
    BY <1>6 DEF Next, vars, Allocate, AllocateBegin, AllocateCheckSeat, AllocateCheckCapacity, Withdraw, WithdrawBegin,
       Confirm, ConfirmStep, ConfirmBegin, ConfirmReadiness, ConfirmFindStudent, ConfirmSaveStudent, ConfirmAdmission,
       ConfirmSaveBatch, Update, UpdateBegin, UpdateSave, Crash, LeadChanges, StudentDeleted
<1> QED BY <1>2, <1>3, <1>4, <1>5, <1>6

(* No seat is given beyond a batch's capacity (allocate, confirm_batch),   *)
(* however that capacity is edited, until two requests meet.               *)
THEOREM SeatsWithinCapacity == Spec => WithinCapacity
<1>1. IInv /\ IInv' /\ Unmet /\ Unmet' /\ [Next]_vars =>
         [\A b \in Batches : \/ met'
                            \/ LiveSeats(b)' \subseteq LiveSeats(b)
                            \/ Cardinality(LiveSeats(b)') <= batches[b].capacity]_vars
    <2> SUFFICES ASSUME IInv, IInv', Unmet, [Next]_vars, NEW b \in Batches, ~met'
                 PROVE  LiveSeats(b)' \subseteq LiveSeats(b) \/ Cardinality(LiveSeats(b)') <= batches[b].capacity
        OBVIOUS
    <2>1. ~met
        BY Meetings DEF IInv, TypeOK
    <2> QED BY <2>1, StepsStayWithin DEF Unmet
<1> QED BY <1>1, Invariance, SeatInvariance, PTL DEF Spec, WithinCapacity

(* Every live seat of a confirmed batch is confirmed (confirm_batch) until *)
(* two requests meet, unless its status was set by hand.                   *)
THEOREM RosterStaysLocked == Spec => []RosterLocked
<1>1. Unmet => RosterLocked
    BY DEF SeatInv, Unmet, RosterLocked, Rosters
<1> QED BY <1>1, SeatInvariance, PTL

(* Requests that run one at a time never meet, wherever they stop: then    *)
(* the three properties hold without a condition.                          *)
THEOREM OneAtATime == (\A q, r \in Requests : q = r) => (Spec => []~met)
<1>1. SUFFICES ASSUME \A q, r \in Requests : q = r PROVE Spec => []~met
    OBVIOUS
<1>2. Apart /\ Apart'
    BY <1>1 DEF Apart
<1>3. Init => ~met
    BY DEF Init
<1>4. ~met /\ [Next]_vars => ~met'
    BY <1>2, Meetings
<1> QED BY <1>3, <1>4, PTL DEF Spec
=============================================================================
