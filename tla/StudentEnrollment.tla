-------------------------- MODULE StudentEnrollment --------------------------
(***************************************************************************)
(* The Student Portal's sync (StudentEnrollmentService): the leads at      *)
(* Batch Confirmation, made into students whenever somebody opens the      *)
(* portal.  A lock lets one sync run in a server process; the processes    *)
(* run beside each other, and beside the people who edit students and      *)
(* move leads.  Every save writes the whole document as it was read.       *)
(***************************************************************************)
EXTENDS Integers, Sequences, FiniteSets, FiniteSetsExt

CONSTANTS
    Processes,    \* the server's worker processes
    Leads,        \* numbered in the order they were created
    Labels,       \* the batches a lead can be shown in, "No batch yet" among them
    Emails,
    MaxChanges,   \* changes people make to leads and students: a bound
    None

ASSUME LeadsAssumption == Leads \subseteq Nat /\ IsFiniteSet(Leads)
ASSUME NoneAssumption == None \notin Leads \cup Labels \cup Emails \cup [label : Labels, email : Emails \cup {None}]
ASSUME ProcessesAssumption == Processes # {} /\ MaxChanges \in Nat

VARIABLES
    leads,        \* None, or what a lead at Batch Confirmation shows: its batch and address
    batches,      \* the labels a batch has been opened for
    students,     \* the Student documents, in the order they were created
    syncs,        \* where each process's sync is, and what it has read
    edit,         \* the student document the Students page is about to save
    changes,      \* how many changes people have made
    settled       \* history: a sync nothing interfered with ended, and nothing changed since

vars == <<leads, batches, students, syncs, edit, changes, settled>>

-----------------------------------------------------------------------------

LeadDocs == [label : Labels, email : Emails \cup {None}]

Status == {"active", "on_hold", "dropped", "completed"}

(* `left' is lead_left_at; `by', history: who set the status last. *)
StudentDocs == [email : Emails \cup {None}, lead : Leads \cup {None}, batch : Labels \cup {None},
                status : Status, left : BOOLEAN, deleted : BOOLEAN, by : {"portal", "staff"}]

Idle == [at |-> "idle"]

Running(p) == syncs[p].at # "idle"

AtStage(p) == syncs[p].atStage

(* The unique indexes of the students, which a deleted one is in as well. *)
LeadTaken(l, i) == l # None /\ \E j \in DOMAIN students \ {i} : students[j].lead = l

EmailTaken(e) == e # None /\ \E j \in DOMAIN students : students[j].email = e

(* What a change does to the syncs under way: they are not alone any more. *)
Disturbed(ps) == [p \in Processes |-> IF p \in ps /\ Running(p) THEN [syncs[p] EXCEPT !.alone = FALSE]
                                      ELSE syncs[p]]

-----------------------------------------------------------------------------
(* _sync, from its first read to its last save. *)

(* The leads at the stage with their labels, and a batch for every label.  *)
StartSync(p) ==
    LET roster == [l \in {l \in Leads : leads[l] # None} |-> leads[l]]
    IN  /\ ~Running(p)
        /\ syncs' = [syncs EXCEPT ![p] = [at |-> "enrolled", alone |-> TRUE,
                                          atStage |-> DOMAIN roster, roster |-> roster]]
        /\ batches' = batches \cup {roster[l].label : l \in DOMAIN roster}
        /\ UNCHANGED <<leads, students, edit, changes, settled>>

(* The students of those leads, deleted ones too. *)
ReadEnrolled(p) ==
    LET enrolled == {i \in DOMAIN students : students[i].lead \in AtStage(p)}
    IN  /\ syncs[p].at = "enrolled"
        /\ syncs' = [syncs EXCEPT ![p] = [at |-> "by_email", alone |-> @.alone,
                                          atStage |-> @.atStage, roster |-> @.roster,
                                          enrolled |-> [i \in enrolled |-> students[i]]]]
        /\ UNCHANGED <<leads, batches, students, edit, changes, settled>>

AddressOf(p, l) == syncs[p].roster[l].email

EnrolledFor(p, l) == {i \in DOMAIN syncs[p].enrolled : syncs[p].enrolled[i].lead = l}

(* The loop over the leads: of what was read, only at_stage outlives it.   *)
GoOn(sync) ==
    IF sync.todo # {} THEN sync ELSE [at |-> "looped", alone |-> sync.alone, atStage |-> sync.atStage]

(* And the students with the address of a lead that is not enrolled yet. *)
ReadByEmail(p) ==
    LET addresses == {AddressOf(p, l) : l \in {l \in AtStage(p) : EnrolledFor(p, l) = {}}} \ {None}
        byEmail == {i \in DOMAIN students : students[i].email \in addresses}
    IN  /\ syncs[p].at = "by_email"
        /\ syncs' = [syncs EXCEPT ![p] =
                        GoOn([at |-> "leads", alone |-> @.alone, atStage |-> @.atStage, roster |-> @.roster,
                              enrolled |-> @.enrolled, byEmail |-> [i \in byEmail |-> students[i]],
                              todo |-> @.atStage])]
        /\ UNCHANGED <<leads, batches, students, edit, changes, settled>>

(* _keep_current *)
KeptInTheirBatch(doc, l, label) ==
    [doc EXCEPT !.lead = l, !.left = FALSE, !.deleted = FALSE]

KeptCurrent(doc, l, label) ==
    LET ownDrop == doc.left /\ doc.status = "dropped"
    IN  [doc EXCEPT !.lead = l, !.batch = label, !.left = FALSE, !.deleted = FALSE,
                    !.status = IF ownDrop THEN "active" ELSE @,
                    !.by = IF ownDrop THEN "portal" ELSE @]

(* A sync that wrote goes on as `state'; the others read something that is *)
(* no longer so, and if it had no right to be writing nothing is settled.  *)
Wrote(p, state) ==
    /\ syncs' = [Disturbed(Processes \ {p}) EXCEPT ![p] = state]
    /\ settled' = (settled /\ syncs[p].alone)

Went(p, state) == syncs' = [syncs EXCEPT ![p] = state] /\ UNCHANGED <<students, settled>>

(* A document is saved unless nothing in it changes, and the unique index  *)
(* on lead_id may refuse it: then the sync fails where it is.              *)
Save(p, i, read, doc, state) ==
    IF doc = read THEN Went(p, state)
    ELSE IF LeadTaken(doc.lead, i) THEN Went(p, Idle)
    ELSE students' = [students EXCEPT ![i] = doc] /\ Wrote(p, state)

NextLead(p) == Min(syncs[p].todo)

OtherFor(p, l) ==
    {i \in DOMAIN syncs[p].byEmail :
        AddressOf(p, l) # None /\ syncs[p].byEmail[i].email = AddressOf(p, l)}

OneLeadDone(p, byEmail) == GoOn([syncs[p] EXCEPT !.todo = @ \ {NextLead(p)}, !.byEmail = byEmail])

InLoop(p) == syncs[p].at = "leads"

(* The lead's student, kept current unless somebody removed it. *)
KeepEnrolled(p) ==
    /\ InLoop(p)
    /\ \E i \in EnrolledFor(p, NextLead(p)) :
          LET doc == syncs[p].enrolled[i]
              kept == KeptCurrent(doc, NextLead(p), syncs[p].roster[NextLead(p)].label)
          IN  Save(p, i, doc, IF doc.deleted THEN doc ELSE kept, OneLeadDone(p, syncs[p].byEmail))
    /\ UNCHANGED <<leads, batches, edit, changes>>

(* No student of the lead's own, but one with its address: left alone when *)
(* it is on another lead at the stage, else taken up.                      *)
TakeUpEvenIfEnrolled(p) ==
    /\ InLoop(p) /\ EnrolledFor(p, NextLead(p)) = {}
    /\ \E i \in OtherFor(p, NextLead(p)) :
          LET doc == syncs[p].byEmail[i]
              kept == KeptCurrent(doc, NextLead(p), syncs[p].roster[NextLead(p)].label)
          IN  Save(p, i, doc, kept, OneLeadDone(p, [syncs[p].byEmail EXCEPT ![i] = kept]))
    /\ UNCHANGED <<leads, batches, edit, changes>>

TakeUp(p) ==
    /\ InLoop(p) /\ EnrolledFor(p, NextLead(p)) = {}
    /\ \E i \in OtherFor(p, NextLead(p)) :
          LET doc == syncs[p].byEmail[i]
              kept == KeptCurrent(doc, NextLead(p), syncs[p].roster[NextLead(p)].label)
          IN  IF doc.lead \in AtStage(p) THEN Went(p, OneLeadDone(p, syncs[p].byEmail))
              ELSE Save(p, i, doc, kept, OneLeadDone(p, [syncs[p].byEmail EXCEPT ![i] = kept]))
    /\ UNCHANGED <<leads, batches, edit, changes>>

(* _enrol: the unique indexes on lead_id and email refuse a student that   *)
(* another process made in the meantime, and the sync goes on without.     *)
Enrol(p) ==
    LET l == NextLead(p)
        new == [email |-> AddressOf(p, l), lead |-> l, batch |-> syncs[p].roster[l].label, status |-> "active",
                left |-> FALSE, deleted |-> FALSE, by |-> "portal"]
        id == Len(students) + 1
    IN  /\ InLoop(p) /\ EnrolledFor(p, l) = {} /\ OtherFor(p, l) = {}
        /\ IF LeadTaken(l, 0) \/ EmailTaken(AddressOf(p, l)) THEN Went(p, OneLeadDone(p, syncs[p].byEmail))
           ELSE /\ students' = Append(students, new)
                /\ Wrote(p, OneLeadDone(p, [i \in DOMAIN syncs[p].byEmail \cup {id} |->
                                                IF i = id THEN new ELSE syncs[p].byEmail[i]]))
        /\ UNCHANGED <<leads, batches, edit, changes>>

(* _drop_leavers *)
ReadLeaversOfAnyStatus(p) ==
    LET leavers == {i \in DOMAIN students : /\ students[i].lead \notin AtStage(p) \cup {None}
                                            /\ ~students[i].deleted
                                            /\ students[i].status # "dropped"}
    IN  /\ syncs[p].at = "looped"
        /\ Went(p, [at |-> "leavers", alone |-> syncs[p].alone, leavers |-> [i \in leavers |-> students[i]]])
        /\ UNCHANGED <<leads, batches, edit, changes>>

ReadLeavers(p) ==
    LET leavers == {i \in DOMAIN students : /\ students[i].lead \notin AtStage(p) \cup {None}
                                            /\ ~students[i].deleted
                                            /\ students[i].status \in {"active", "on_hold"}}
    IN  /\ syncs[p].at = "looped"
        /\ Went(p, [at |-> "leavers", alone |-> syncs[p].alone, leavers |-> [i \in leavers |-> students[i]]])
        /\ UNCHANGED <<leads, batches, edit, changes>>

DropLeaver(p) ==
    /\ syncs[p].at = "leavers"
    /\ \E i \in DOMAIN syncs[p].leavers :
          LET doc == syncs[p].leavers[i]
              dropped == [doc EXCEPT !.status = "dropped", !.left = TRUE, !.by = "portal"]
              rest == [j \in DOMAIN syncs[p].leavers \ {i} |-> syncs[p].leavers[j]]
          IN  Save(p, i, doc, dropped, [syncs[p] EXCEPT !.leavers = rest])
    /\ UNCHANGED <<leads, batches, edit, changes>>

EndSync(p) ==
    /\ syncs[p].at = "leavers" /\ syncs[p].leavers = << >>
    /\ syncs' = [syncs EXCEPT ![p] = Idle]
    /\ settled' = (settled \/ syncs[p].alone)
    /\ UNCHANGED <<leads, batches, students, edit, changes>>

(* The process stops, or the connection to the database is lost. *)
Crash(p) ==
    /\ Running(p)
    /\ Went(p, Idle)
    /\ UNCHANGED <<leads, batches, edit, changes>>

-----------------------------------------------------------------------------
(* What people do meanwhile. *)

Change ==
    /\ changes < MaxChanges
    /\ changes' = changes + 1
    /\ syncs' = Disturbed(Processes)
    /\ settled' = FALSE

(* A lead reaches the stage, or leaves it (moved, lost, deleted), or is    *)
(* given another batch or address.  What a lead that is not there shows,   *)
(* the sync never reads.                                                   *)
LeadMoves(l) ==
    /\ Change
    /\ leads' \in IF leads[l] = None THEN {[leads EXCEPT ![l] = doc] : doc \in LeadDocs}
                 ELSE {[leads EXCEPT ![l] = None]}
                        \cup {[leads EXCEPT ![l].label = label] : label \in Labels \ {leads[l].label}}
                        \cup {[leads EXCEPT ![l].email = email] : email \in (Emails \cup {None}) \ {leads[l].email}}
    /\ UNCHANGED <<batches, students, edit>>

(* StudentService.create *)
StaffCreates(email) ==
    /\ Change
    /\ ~EmailTaken(email)
    /\ students' = Append(students, [email |-> email, lead |-> None, batch |-> None, status |-> "active",
                                     left |-> FALSE, deleted |-> FALSE, by |-> "staff"])
    /\ UNCHANGED <<leads, batches, edit>>

(* StudentService.update and delete: the document is read, and then saved  *)
(* with another status, in another batch, or deleted.                      *)
StaffReads(i) ==
    /\ edit.at = "idle" /\ changes < MaxChanges
    /\ i \in DOMAIN students /\ ~students[i].deleted
    /\ edit' = [at |-> "read", id |-> i, doc |-> students[i]]
    /\ UNCHANGED <<leads, batches, students, syncs, changes, settled>>

StaffSaves ==
    /\ edit.at = "read"
    /\ Change
    /\ ~LeadTaken(edit.doc.lead, edit.id)
    /\ \/ \E status \in Status \ {edit.doc.status} :
             students' = [students EXCEPT ![edit.id] = [edit.doc EXCEPT !.status = status, !.by = "staff"]]
       \/ \E label \in batches \ {edit.doc.batch} :
             students' = [students EXCEPT ![edit.id] = [edit.doc EXCEPT !.batch = label]]
       \/ students' = [students EXCEPT ![edit.id] = [edit.doc EXCEPT !.deleted = TRUE]]
    /\ edit' = Idle
    /\ UNCHANGED <<leads, batches>>

StaffGivesUp ==
    /\ edit.at = "read"
    /\ edit' = Idle
    /\ UNCHANGED <<leads, batches, students, syncs, changes, settled>>

-----------------------------------------------------------------------------

Init ==
    /\ leads \in [Leads -> LeadDocs \cup {None}]
    /\ batches = {}
    /\ students = << >>
    /\ syncs = [p \in Processes |-> Idle]
    /\ edit = Idle
    /\ changes = 0
    /\ settled = FALSE

SyncStep(p) ==
    \/ StartSync(p)
    \/ ReadEnrolled(p)
    \/ ReadByEmail(p)
    \/ KeepEnrolled(p)
    \/ TakeUp(p)
    \/ Enrol(p)
    \/ ReadLeavers(p)
    \/ DropLeaver(p)
    \/ EndSync(p)

Next ==
    \/ \E p \in Processes : SyncStep(p) \/ Crash(p)
    \/ \E l \in Leads : LeadMoves(l)
    \/ \E email \in Emails : StaffCreates(email)
    \/ \E i \in DOMAIN students : StaffReads(i)
    \/ StaffSaves
    \/ StaffGivesUp

Spec == Init /\ [][Next]_vars

-----------------------------------------------------------------------------
(* Properties. *)

(* Unique indexes: one student per lead and per address, deleted or not,   *)
(* and every student's batch has been opened.                              *)
TypeOK ==
    /\ leads \in [Leads -> LeadDocs \cup {None}]
    /\ batches \subseteq Labels
    /\ \A i \in DOMAIN students : students[i] \in StudentDocs /\ students[i].batch \in batches \cup {None}
    /\ \A i, j \in DOMAIN students :
          i # j => /\ students[i].lead = None \/ students[i].lead # students[j].lead
                   /\ students[i].email = None \/ students[i].email # students[j].email
    /\ DOMAIN syncs = Processes
    /\ changes \in 0..MaxChanges /\ settled \in BOOLEAN

(* What a sync brings about (module docstring,                             *)
(* student_enrollment_service.py:3-7): every lead at the stage is a        *)
(* student, its own or its person's, in the batch the lead is shown in;    *)
(* who left is dropped unless completed; nobody back still counts as gone. *)
InLineWithLeads ==
    settled =>
        LET atStage == {l \in Leads : leads[l] # None}
        IN  /\ \A l \in atStage : \E i \in DOMAIN students :
                  \/ students[i].lead = l
                  \/ /\ leads[l].email # None
                     /\ students[i].email = leads[l].email
                     /\ students[i].lead \in atStage
            /\ \A i \in {i \in DOMAIN students : ~students[i].deleted} :
                  IF students[i].lead \in atStage
                  THEN students[i].batch = leads[students[i].lead].label /\ ~students[i].left
                  ELSE students[i].lead = None \/ students[i].status \in {"dropped", "completed"}

(* Once in line, syncing again changes no student: nobody is dropped and   *)
(* taken back, or moved between a person's two leads, at every opening of  *)
(* the portal.  (A sync that began before somebody's change may still      *)
(* write what it read then.)                                               *)
SyncedOnceIsEnough ==
    [][\A p \in Processes :
          settled /\ Running(p) /\ syncs[p].alone => students' = students \/ ~SyncStep(p)]_vars

(* The document a sync is about to save is the one on record. *)
UpToDate(p, i) ==
    CASE syncs[p].at = "leads" -> \A read \in {syncs[p].enrolled, syncs[p].byEmail} :
                                      i \in DOMAIN read => read[i] = students[i]
      [] syncs[p].at = "leavers" -> i \in DOMAIN syncs[p].leavers => syncs[p].leavers[i] = students[i]
      [] OTHER -> TRUE

(* "A completed student stays completed" (student_enrollment_service.py:   *)
(* 201-202), whoever's lead left or came back, unless the sync writes over *)
(* what it never saw.                                                      *)
CompletedStaysCompleted ==
    [][\A p \in Processes, i \in DOMAIN students :
          students[i].status = "completed" /\ UpToDate(p, i)
              => students'[i].status = "completed" \/ ~SyncStep(p)]_vars

(* models/student.py:61-63: lead_left_at "lets the portal undo its own     *)
(* drop if the lead comes back, without undoing one a member of staff made *)
(* by hand".  Only drops the sync has seen are asked about.                *)
StaffDropStands ==
    [][\A p \in Processes, i \in DOMAIN students :
          students[i].status = "dropped" /\ students[i].by = "staff" /\ UpToDate(p, i)
              => students'[i].status = "dropped" \/ ~SyncStep(p)]_vars
=============================================================================
