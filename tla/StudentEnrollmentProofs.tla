------------------------ MODULE StudentEnrollmentProofs ------------------------
(***************************************************************************)
(* A completed student stays completed, a lead and an address have one     *)
(* student each, and a sync that nobody interfered with brings the         *)
(* students in line with the leads, so that the next has nothing to write: *)
(* for any number of processes, leads, labels, addresses and changes, with *)
(* syncs that overlap and stop anywhere.                                   *)
(*                                                                         *)
(* Every save writes a document read earlier, so the first invariant is    *)
(* about the documents each sync, and the Students page, has in hand       *)
(* (Held): they are still of a student with that address, in a batch that  *)
(* is open.  The second (Undisturbed) is about a sync that was left alone: *)
(* what it has in hand is what is on record, but for what it wrote itself, *)
(* and the leads it has seen to are in line (Knows).                       *)
(***************************************************************************)
EXTENDS StudentEnrollment, TLAPS, WellFoundedInduction

Rosters == UNION {[S -> LeadDocs] : S \in SUBSET Leads}
Copies == UNION {[S -> StudentDocs] : S \in SUBSET Nat}

Reading == [at : {"enrolled"}, alone : BOOLEAN, atStage : SUBSET Leads, roster : Rosters]
ByAddress == [at : {"by_email"}, alone : BOOLEAN, atStage : SUBSET Leads, roster : Rosters, enrolled : Copies]
Looping == [at : {"leads"}, alone : BOOLEAN, atStage : SUBSET Leads, roster : Rosters, enrolled : Copies,
            byEmail : Copies, todo : SUBSET Leads]
Looped == [at : {"looped"}, alone : BOOLEAN, atStage : SUBSET Leads]
Leaving == [at : {"leavers"}, alone : BOOLEAN, leavers : Copies]

Syncs == {Idle} \cup Reading \cup ByAddress \cup Looping \cup Looped \cup Leaving
Edits == {Idle} \cup [at : {"read"}, id : Nat, doc : StudentDocs]

-----------------------------------------------------------------------------
(* What is in hand, against the students and the open batches of a moment. *)

Fits(doc, docs, i, opened) ==
    i \in DOMAIN docs /\ doc.email = docs[i].email /\ doc.batch \in opened \cup {None}

AllFit(copies, docs, opened) == \A i \in DOMAIN copies : Fits(copies[i], docs, i, opened)

OpenedFor(s, opened) == s.atStage = DOMAIN s.roster /\ \A l \in DOMAIN s.roster : s.roster[l].label \in opened

Held(s, docs, opened) ==
    /\ s.at \in {"enrolled", "by_email", "leads"} => OpenedFor(s, opened)
    /\ s.at \in {"by_email", "leads"} => AllFit(s.enrolled, docs, opened)
    /\ s.at = "leads" => AllFit(s.byEmail, docs, opened) /\ s.todo \subseteq s.atStage /\ s.todo # {}
    /\ s.at = "leavers" => /\ AllFit(s.leavers, docs, opened)
                           /\ \A i \in DOMAIN s.leavers : s.leavers[i].status \in {"active", "on_hold"}

EditHeld(e, docs, opened) == e.at = "read" => Fits(e.doc, docs, e.id, opened)

Records(docs, opened) == docs \in Seq(StudentDocs) /\ \A i \in DOMAIN docs : docs[i].batch \in opened \cup {None}

OneEach(docs) ==
    \A i, j \in DOMAIN docs :
        i # j => /\ docs[i].lead = None \/ docs[i].lead # docs[j].lead
                 /\ docs[i].email = None \/ docs[i].email # docs[j].email

IInv ==
    /\ leads \in [Leads -> LeadDocs \cup {None}] /\ batches \subseteq Labels
    /\ changes \in 0..MaxChanges /\ settled \in BOOLEAN
    /\ Records(students, batches) /\ OneEach(students)
    /\ syncs \in [Processes -> Syncs] /\ \A p \in Processes : Held(syncs[p], students, batches)
    /\ edit \in Edits /\ EditHeld(edit, students, batches)

(* Nobody is unmade, and no student's address changes. *)
Grown(docs, opened, docs1, opened1) ==
    /\ opened \subseteq opened1
    /\ DOMAIN docs \subseteq DOMAIN docs1
    /\ \A i \in DOMAIN docs : docs1[i].email = docs[i].email

-----------------------------------------------------------------------------
(* Documents in hand stay good while others write. *)

LEMMA Least ==
    ASSUME NEW S \in SUBSET Nat, S # {}
    PROVE  Min(S) \in S
<1> DEFINE less == OpToRel(<, Nat)
<1>1. \A x, y \in Nat : y < x => <<y, x>> \in less
    BY DEF OpToRel
<1>2. IsWellFoundedOn(less, Nat)
    BY NatLessThanWellFounded
<1> HIDE DEF less
<1>3. PICK x \in S : \A y \in S : <<y, x>> \notin less
    BY <1>2, WFMin
<1>4. ASSUME NEW y \in S PROVE x <= y
    <2>1. x \in Nat /\ y \in Nat
        OBVIOUS
    <2>2. ~(y < x)
        BY <1>1, <1>3, <2>1
    <2> QED BY <2>1, <2>2
<1> QED BY <1>4 DEF Min

LEMMA StillFits ==
    ASSUME NEW doc, NEW docs, NEW i, NEW opened, NEW docs1, NEW opened1,
           Grown(docs, opened, docs1, opened1), Fits(doc, docs, i, opened)
    PROVE  Fits(doc, docs1, i, opened1)
BY DEF Fits, Grown

LEMMA StillHeld ==
    ASSUME NEW s, NEW docs, NEW opened, NEW docs1, NEW opened1,
           Grown(docs, opened, docs1, opened1), Held(s, docs, opened)
    PROVE  Held(s, docs1, opened1)
<1>1. ASSUME NEW f, AllFit(f, docs, opened) PROVE AllFit(f, docs1, opened1)
    BY <1>1, StillFits DEF AllFit
<1>2. OpenedFor(s, opened) => OpenedFor(s, opened1)
    BY DEF OpenedFor, Grown
<1> QED BY <1>1, <1>2 DEF Held

(* The sync that others disturb knows as much as before. *)
LEMMA DisturbedHeld ==
    ASSUME NEW s \in Syncs, s.at # "idle", NEW docs, NEW opened, Held(s, docs, opened)
    PROVE  /\ [s EXCEPT !.alone = FALSE] \in Syncs
           /\ Held([s EXCEPT !.alone = FALSE], docs, opened)
<1> DEFINE t == [s EXCEPT !.alone = FALSE]
<1> SUFFICES t \in Syncs /\ Held(t, docs, opened)
    OBVIOUS
<1> HIDE DEF t
<1>1. CASE s \in Reading
    <2>1. t \in Reading /\ t.at = s.at /\ t.atStage = s.atStage /\ t.roster = s.roster
        BY <1>1 DEF t, Reading
    <2>2. t.at = "enrolled"
        BY <2>1 DEF Reading
    <2> QED BY <2>1, <2>2 DEF Held, Syncs, OpenedFor
<1>2. CASE s \in ByAddress
    <2>1. t \in ByAddress /\ t.at = s.at /\ t.atStage = s.atStage /\ t.roster = s.roster /\ t.enrolled = s.enrolled
        BY <1>2 DEF t, ByAddress
    <2>2. t.at = "by_email"
        BY <2>1 DEF ByAddress
    <2> QED BY <2>1, <2>2 DEF Held, Syncs, OpenedFor
<1>3. CASE s \in Looping
    <2>1. /\ t \in Looping /\ t.at = s.at /\ t.atStage = s.atStage /\ t.roster = s.roster
          /\ t.enrolled = s.enrolled /\ t.byEmail = s.byEmail /\ t.todo = s.todo
        BY <1>3 DEF t, Looping
    <2>2. t.at = "leads"
        BY <2>1 DEF Looping
    <2> QED BY <2>1, <2>2 DEF Held, Syncs, OpenedFor
<1>4. CASE s \in Looped
    <2>1. t \in Looped /\ t.at = "looped"
        BY <1>4 DEF t, Looped
    <2> QED BY <2>1 DEF Held, Syncs
<1>5. CASE s \in Leaving
    <2>1. t \in Leaving /\ t.at = s.at /\ t.leavers = s.leavers
        BY <1>5 DEF t, Leaving
    <2>2. t.at = "leavers"
        BY <2>1 DEF Leaving
    <2> QED BY <2>1, <2>2 DEF Held, Syncs
<1>6. s # Idle
    BY DEF Idle
<1> QED BY <1>1, <1>2, <1>3, <1>4, <1>5, <1>6 DEF Syncs

LEMMA IdleHeld == Idle \in Syncs /\ Idle.at = "idle" /\ \A docs, opened : Held(Idle, docs, opened)
BY DEF Syncs, Idle, Held

(* A sync goes on as `state' while the others are disturbed, or not. *)
LEMMA SyncsKeep ==
    ASSUME IInv, Grown(students, batches, students', batches'),
           NEW p \in Processes, NEW state, state \in Syncs, Held(state, students', batches'),
           \/ syncs' = [syncs EXCEPT ![p] = state]
           \/ \E ps : syncs' = [Disturbed(ps) EXCEPT ![p] = state]
    PROVE  syncs' \in [Processes -> Syncs] /\ \A q \in Processes : Held(syncs'[q], students', batches')
<1>1. \A q \in Processes : syncs[q] \in Syncs /\ Held(syncs[q], students', batches')
    BY StillHeld DEF IInv
<1>2. CASE syncs' = [syncs EXCEPT ![p] = state]
    BY <1>1, <1>2 DEF IInv
<1>3. ASSUME NEW ps, syncs' = [Disturbed(ps) EXCEPT ![p] = state]
      PROVE  syncs' \in [Processes -> Syncs] /\ \A q \in Processes : Held(syncs'[q], students', batches')
    <2>1. \A q \in Processes : Disturbed(ps)[q] \in Syncs /\ Held(Disturbed(ps)[q], students', batches')
        BY <1>1, DisturbedHeld DEF Disturbed, Running
    <2>2. Disturbed(ps) = [q \in Processes |-> Disturbed(ps)[q]]
        BY DEF Disturbed
    <2> QED BY <1>3, <2>1, <2>2
<1> QED BY <1>2, <1>3

-----------------------------------------------------------------------------
(* Writing a student. *)

LEMMA Replaced ==
    ASSUME NEW docs, NEW opened, Records(docs, opened), OneEach(docs),
           NEW i \in DOMAIN docs, NEW doc \in StudentDocs, Fits(doc, docs, i, opened),
           doc.lead = None \/ \A j \in DOMAIN docs \ {i} : docs[j].lead # doc.lead,
           NEW docs1, docs1 = [docs EXCEPT ![i] = doc]
    PROVE  Records(docs1, opened) /\ OneEach(docs1) /\ Grown(docs, opened, docs1, opened)
<1>1. docs1 \in Seq(StudentDocs) /\ DOMAIN docs1 = DOMAIN docs
    BY DEF Records
<1>2. docs1[i] = doc /\ \A j \in DOMAIN docs \ {i} : docs1[j] = docs[j]
    BY DEF Records
<1>3. Records(docs1, opened)
    BY <1>1, <1>2 DEF Records, Fits
<1>4. OneEach(docs1)
    BY <1>1, <1>2 DEF OneEach, Fits
<1>5. Grown(docs, opened, docs1, opened)
    BY <1>1, <1>2 DEF Grown, Fits
<1> QED BY <1>3, <1>4, <1>5

LEMMA Appended ==
    ASSUME NEW docs, NEW opened, Records(docs, opened), OneEach(docs),
           NEW doc \in StudentDocs, doc.batch \in opened \cup {None},
           doc.lead = None \/ \A j \in DOMAIN docs : docs[j].lead # doc.lead,
           doc.email = None \/ \A j \in DOMAIN docs : docs[j].email # doc.email,
           NEW docs1, docs1 = Append(docs, doc)
    PROVE  /\ Records(docs1, opened) /\ OneEach(docs1) /\ Grown(docs, opened, docs1, opened)
           /\ Fits(doc, docs1, Len(docs) + 1, opened) /\ Len(docs) + 1 \in Nat
<1> DEFINE id == Len(docs) + 1
<1>1. docs \in Seq(StudentDocs) /\ Len(docs) \in Nat /\ DOMAIN docs = 1..Len(docs)
    BY DEF Records
<1>2. docs1 \in Seq(StudentDocs) /\ DOMAIN docs1 = DOMAIN docs \cup {id} /\ id \notin DOMAIN docs
    BY <1>1
<1>3. docs1[id] = doc /\ \A j \in DOMAIN docs : docs1[j] = docs[j]
    BY <1>1
<1>4. id \in Nat
    BY <1>1
<1> HIDE DEF id
<1>5. Records(docs1, opened)
    BY <1>2, <1>3 DEF Records
<1>6. OneEach(docs1)
    BY <1>2, <1>3 DEF OneEach
<1>7. Grown(docs, opened, docs1, opened)
    BY <1>2, <1>3 DEF Grown
<1>8. Fits(doc, docs1, id, opened)
    BY <1>2, <1>3 DEF Fits
<1> QED BY <1>4, <1>5, <1>6, <1>7, <1>8 DEF id

LEMMA Unchanged ==
    ASSUME NEW docs, NEW opened, NEW opened1, opened \subseteq opened1, Records(docs, opened)
    PROVE  Records(docs, opened1) /\ Grown(docs, opened, docs, opened1)
BY DEF Records, Grown

(* What a sync, or a member of staff, leaves behind. *)
Stays ==
    /\ Records(students', batches') /\ OneEach(students')
    /\ Grown(students, batches, students', batches')
    /\ syncs' \in [Processes -> Syncs] /\ \A q \in Processes : Held(syncs'[q], students', batches')
    /\ settled' \in BOOLEAN

LEMMA WentStays ==
    ASSUME IInv, NEW p \in Processes, NEW state \in Syncs, Held(state, students, batches),
           Went(p, state), batches' = batches
    PROVE  Stays
<1>1. Grown(students, batches, students', batches')
    BY Unchanged DEF IInv, Went
<1>2. Records(students', batches') /\ OneEach(students') /\ settled' \in BOOLEAN
    BY DEF IInv, Went
<1>3. Held(state, students', batches')
    BY <1>1, StillHeld
<1> QED BY <1>1, <1>2, <1>3, SyncsKeep DEF Stays, Went

LEMMA SaveStays ==
    ASSUME IInv, NEW p \in Processes, NEW i, NEW read, NEW doc \in StudentDocs, Fits(doc, students, i, batches),
           NEW state \in Syncs, Held(state, students, batches),
           Save(p, i, read, doc, state), batches' = batches, syncs[p].alone \in BOOLEAN
    PROVE  Stays
<1>1. CASE Went(p, state)
    BY <1>1, WentStays
<1>2. CASE Went(p, Idle)
    BY <1>2, WentStays, IdleHeld
<1>3. CASE ~LeadTaken(doc.lead, i) /\ students' = [students EXCEPT ![i] = doc] /\ Wrote(p, state)
    <2>1. i \in DOMAIN students
        BY DEF Fits
    <2>2. doc.lead = None \/ \A j \in DOMAIN students \ {i} : students[j].lead # doc.lead
        BY <1>3 DEF LeadTaken
    <2>3. /\ Records(students', batches') /\ OneEach(students')
          /\ Grown(students, batches, students', batches')
        BY <1>3, <2>1, <2>2, Replaced DEF IInv
    <2>4. Held(state, students', batches')
        BY <2>3, StillHeld
    <2>5. settled' \in BOOLEAN
        BY <1>3 DEF Wrote, IInv
    <2>6. \E ps : syncs' = [Disturbed(ps) EXCEPT ![p] = state]
        BY <1>3 DEF Wrote
    <2> QED BY <2>3, <2>4, <2>5, <2>6, SyncsKeep DEF Stays
<1> QED BY <1>1, <1>2, <1>3 DEF Save

-----------------------------------------------------------------------------
(* The documents. *)

LEMMA KeptFields ==
    ASSUME NEW doc \in StudentDocs, NEW l \in Leads, NEW label \in Labels
    PROVE  LET kept == KeptCurrent(doc, l, label)
           IN  /\ kept \in StudentDocs /\ kept.email = doc.email /\ kept.batch = label
               /\ doc.status # "dropped" => kept.status = doc.status
BY DEF KeptCurrent, StudentDocs, Status

LEMMA DroppedFields ==
    ASSUME NEW doc \in StudentDocs
    PROVE  LET dropped == [doc EXCEPT !.status = "dropped", !.left = TRUE, !.by = "portal"]
           IN  dropped \in StudentDocs /\ dropped.email = doc.email /\ dropped.batch = doc.batch
BY DEF StudentDocs, Status

LEMMA CopyFields ==
    ASSUME NEW f \in Copies
    PROVE  /\ DOMAIN f \subseteq Nat /\ \A i \in DOMAIN f : f[i] \in StudentDocs
           /\ \A doc \in StudentDocs, i \in DOMAIN f :
                 /\ [f EXCEPT ![i] = doc] \in Copies /\ DOMAIN [f EXCEPT ![i] = doc] = DOMAIN f
                 /\ \A j \in DOMAIN f : [f EXCEPT ![i] = doc][j] = IF j = i THEN doc ELSE f[j]
           /\ \A doc \in StudentDocs, n \in Nat : [j \in DOMAIN f \cup {n} |-> IF j = n THEN doc ELSE f[j]] \in Copies
           /\ \A i \in DOMAIN f : [j \in DOMAIN f \ {i} |-> f[j]] \in Copies
<1>1. PICK S \in SUBSET Nat : f \in [S -> StudentDocs]
    BY DEF Copies
<1>2. \A T \in SUBSET Nat : \A g \in [T -> StudentDocs] : g \in Copies
    BY DEF Copies
<1>3. \A doc \in StudentDocs, i \in S :
          /\ [f EXCEPT ![i] = doc] \in [S -> StudentDocs] /\ DOMAIN [f EXCEPT ![i] = doc] = S
          /\ \A j \in S : [f EXCEPT ![i] = doc][j] = IF j = i THEN doc ELSE f[j]
    BY <1>1
<1>4. ASSUME NEW doc \in StudentDocs, NEW n \in Nat
      PROVE  [j \in S \cup {n} |-> IF j = n THEN doc ELSE f[j]] \in [S \cup {n} -> StudentDocs] /\ S \cup {n} \in SUBSET Nat
    BY <1>1
<1>5. ASSUME NEW i \in S
      PROVE  [j \in S \ {i} |-> f[j]] \in [S \ {i} -> StudentDocs] /\ S \ {i} \in SUBSET Nat
    BY <1>1
<1>6. DOMAIN f = S
    BY <1>1
<1> QED BY <1>1, <1>2, <1>3, <1>4, <1>5, <1>6

LEMMA StudentCopies ==
    ASSUME IInv, NEW S \in SUBSET DOMAIN students
    PROVE  /\ [i \in S |-> students[i]] \in Copies
           /\ AllFit([i \in S |-> students[i]], students, batches)
<1>1. students \in Seq(StudentDocs) /\ DOMAIN students \subseteq Nat /\ \A i \in DOMAIN students : students[i] \in StudentDocs
    BY DEF IInv, Records
<1>2. [i \in S |-> students[i]] \in [S -> StudentDocs] /\ S \in SUBSET Nat
    BY <1>1
<1> QED BY <1>2 DEF Copies, AllFit, Fits, IInv, Records

-----------------------------------------------------------------------------
(* The loop over the leads. *)

LEMMA Kinds ==
    ASSUME NEW s \in Syncs
    PROVE  /\ s.at = "idle" => s = Idle
           /\ s.at = "enrolled" => s \in Reading
           /\ s.at = "by_email" => s \in ByAddress
           /\ s.at = "leads" => s \in Looping
           /\ s.at = "looped" => s \in Looped
           /\ s.at = "leavers" => s \in Leaving
           /\ s.at # "idle" => s.alone \in BOOLEAN
BY DEF Syncs, Idle, Reading, ByAddress, Looping, Looped, Leaving

LEMMA GoesOn ==
    ASSUME NEW s \in Looping, NEW docs, NEW opened,
           OpenedFor(s, opened), AllFit(s.enrolled, docs, opened), AllFit(s.byEmail, docs, opened), s.todo \subseteq s.atStage
    PROVE  GoOn(s) \in Syncs /\ Held(GoOn(s), docs, opened)
<1>1. CASE s.todo # {}
    <2>1. GoOn(s) = s /\ s.at = "leads"
        BY <1>1 DEF GoOn, Looping
    <2> QED BY <1>1, <2>1 DEF Syncs, Held
<1>2. CASE s.todo = {}
    <2> DEFINE t == [at |-> "looped", alone |-> s.alone, atStage |-> s.atStage]
    <2>1. GoOn(s) = t
        BY <1>2 DEF GoOn
    <2>2. t \in Looped /\ t.at = "looped"
        BY DEF Looping, Looped
    <2> HIDE DEF t
    <2> QED BY <2>1, <2>2 DEF Syncs, Held
<1> QED BY <1>1, <1>2

LEMMA LeadDone ==
    ASSUME IInv, NEW p \in Processes, InLoop(p), NEW f \in Copies, NEW docs, NEW opened,
           Grown(students, batches, docs, opened), AllFit(f, docs, opened)
    PROVE  OneLeadDone(p, f) \in Syncs /\ Held(OneLeadDone(p, f), docs, opened)
<1> DEFINE s == syncs[p]
           t == [s EXCEPT !.todo = @ \ {NextLead(p)}, !.byEmail = f]
<1>1. s \in Looping /\ s.at = "leads"
    BY Kinds DEF IInv, InLoop
<1>2. Held(s, docs, opened)
    BY StillHeld DEF IInv
<1>3. OneLeadDone(p, f) = GoOn(t)
    BY DEF OneLeadDone
<1> HIDE DEF s
<1>4. /\ t \in Looping /\ t.atStage = s.atStage /\ t.roster = s.roster /\ t.enrolled = s.enrolled /\ t.byEmail = f
      /\ t.todo = s.todo \ {NextLead(p)}
    BY <1>1 DEF Looping
<1>5. OpenedFor(s, opened) /\ AllFit(s.enrolled, docs, opened) /\ s.todo \subseteq s.atStage
    BY <1>1, <1>2 DEF Held
<1> HIDE DEF t
<1>6. OpenedFor(t, opened) /\ AllFit(t.enrolled, docs, opened) /\ AllFit(t.byEmail, docs, opened) /\ t.todo \subseteq t.atStage
    BY <1>4, <1>5 DEF OpenedFor
<1> QED BY <1>3, <1>4, <1>6, GoesOn

(* What the loop is at: a lead, its label's batch open, its address known. *)
LEMMA AtALead ==
    ASSUME IInv, NEW p \in Processes, InLoop(p)
    PROVE  /\ syncs[p] \in Looping /\ syncs[p].alone \in BOOLEAN
           /\ NextLead(p) \in Leads
           /\ syncs[p].roster[NextLead(p)].label \in batches \cap Labels
           /\ AddressOf(p, NextLead(p)) \in Emails \cup {None}
           /\ syncs[p].enrolled \in Copies /\ AllFit(syncs[p].enrolled, students, batches)
           /\ syncs[p].byEmail \in Copies /\ AllFit(syncs[p].byEmail, students, batches)
<1> DEFINE s == syncs[p]
<1>1. s \in Looping /\ s.at = "leads" /\ Held(s, students, batches)
    BY Kinds DEF IInv, InLoop
<1>2. NextLead(p) = Min(s.todo)
    BY DEF NextLead
<1>3. AddressOf(p, NextLead(p)) = s.roster[NextLead(p)].email
    BY DEF AddressOf
<1> HIDE DEF s
<1>4. s.todo \in SUBSET Leads /\ s.todo # {} /\ s.todo \subseteq DOMAIN s.roster
    BY <1>1 DEF Looping, Held, OpenedFor
<1>5. NextLead(p) \in s.todo
    BY <1>2, <1>4, Least, LeadsAssumption
<1>6. PICK S \in SUBSET Leads : s.roster \in [S -> LeadDocs]
    BY <1>1 DEF Looping, Rosters
<1>7. s.roster[NextLead(p)] \in LeadDocs
    BY <1>4, <1>5, <1>6
<1>8. s.roster[NextLead(p)].label \in batches
    BY <1>1, <1>4, <1>5 DEF Held, OpenedFor
<1>9. s.alone \in BOOLEAN /\ s.enrolled \in Copies /\ s.byEmail \in Copies
    BY <1>1 DEF Looping
<1>10. AllFit(s.enrolled, students, batches) /\ AllFit(s.byEmail, students, batches)
    BY <1>1 DEF Held
<1> QED BY <1>1, <1>3, <1>4, <1>5, <1>7, <1>8, <1>9, <1>10 DEF LeadDocs, s

LEMMA CopyOf ==
    ASSUME NEW f \in Copies, NEW i \in DOMAIN f, NEW docs, NEW opened, AllFit(f, docs, opened)
    PROVE  f[i] \in StudentDocs /\ Fits(f[i], docs, i, opened)
BY CopyFields DEF AllFit

LEMMA KeptFits ==
    ASSUME NEW doc \in StudentDocs, NEW l \in Leads, NEW docs, NEW i, NEW opened, NEW label \in opened \cap Labels,
           Fits(doc, docs, i, opened)
    PROVE  KeptCurrent(doc, l, label) \in StudentDocs /\ Fits(KeptCurrent(doc, l, label), docs, i, opened)
BY KeptFields DEF Fits

LEMMA SameOpen == ASSUME IInv PROVE Grown(students, batches, students, batches)
BY DEF Grown

LEMMA KeepEnrolledStays ==
    ASSUME IInv, NEW p \in Processes, KeepEnrolled(p)
    PROVE  Stays
<1> DEFINE l == NextLead(p)
           label == syncs[p].roster[l].label
           f == syncs[p].enrolled
           state == OneLeadDone(p, syncs[p].byEmail)
<1>1. InLoop(p) /\ batches' = batches
    BY DEF KeepEnrolled
<1>2. PICK i \in DOMAIN f : Save(p, i, f[i], IF f[i].deleted THEN f[i] ELSE KeptCurrent(f[i], l, label), state)
    BY DEF KeepEnrolled, EnrolledFor
<1>3. /\ l \in Leads /\ label \in batches \cap Labels /\ syncs[p].alone \in BOOLEAN
      /\ f \in Copies /\ AllFit(f, students, batches)
    BY <1>1, AtALead
<1>4. state \in Syncs /\ Held(state, students, batches)
    BY <1>1, AtALead, LeadDone, SameOpen
<1> HIDE DEF l, label, f, state
<1>5. f[i] \in StudentDocs /\ Fits(f[i], students, i, batches)
    BY <1>3, CopyOf
<1> DEFINE doc == IF f[i].deleted THEN f[i] ELSE KeptCurrent(f[i], l, label)
<1>6. doc \in StudentDocs /\ Fits(doc, students, i, batches)
    BY <1>3, <1>5, KeptFits
<1> HIDE DEF doc
<1>7. Save(p, i, f[i], doc, state)
    BY <1>2 DEF doc
<1> QED BY <1>1, <1>3, <1>4, <1>6, <1>7, SaveStays

LEMMA TakeUpStays ==
    ASSUME IInv, NEW p \in Processes, TakeUp(p)
    PROVE  Stays
<1> DEFINE l == NextLead(p)
           label == syncs[p].roster[l].label
           f == syncs[p].byEmail
<1>1. InLoop(p) /\ batches' = batches
    BY DEF TakeUp
<1>2. PICK i \in DOMAIN f :
          \/ Went(p, OneLeadDone(p, f))
          \/ Save(p, i, f[i], KeptCurrent(f[i], l, label), OneLeadDone(p, [f EXCEPT ![i] = KeptCurrent(f[i], l, label)]))
    BY DEF TakeUp, OtherFor
<1>3. /\ l \in Leads /\ label \in batches \cap Labels /\ syncs[p].alone \in BOOLEAN
      /\ f \in Copies /\ AllFit(f, students, batches)
    BY <1>1, AtALead
<1> HIDE DEF l, label, f
<1>4. CASE Went(p, OneLeadDone(p, f))
    <2>1. OneLeadDone(p, f) \in Syncs /\ Held(OneLeadDone(p, f), students, batches)
        BY <1>1, <1>3, LeadDone, SameOpen
    <2> QED BY <1>1, <1>4, <2>1, WentStays
<1>5. CASE Save(p, i, f[i], KeptCurrent(f[i], l, label), OneLeadDone(p, [f EXCEPT ![i] = KeptCurrent(f[i], l, label)]))
    <2> DEFINE kept == KeptCurrent(f[i], l, label)
               g == [f EXCEPT ![i] = kept]
    <2>1. f[i] \in StudentDocs /\ Fits(f[i], students, i, batches)
        BY <1>3, CopyOf
    <2>2. kept \in StudentDocs /\ Fits(kept, students, i, batches)
        BY <1>3, <2>1, KeptFits
    <2> HIDE DEF kept
    <2>3. g \in Copies /\ DOMAIN g = DOMAIN f /\ \A j \in DOMAIN f : g[j] = IF j = i THEN kept ELSE f[j]
        BY <1>3, <2>2, CopyFields
    <2> HIDE DEF g
    <2>4. AllFit(g, students, batches)
        BY <1>3, <2>2, <2>3 DEF AllFit
    <2>5. OneLeadDone(p, g) \in Syncs /\ Held(OneLeadDone(p, g), students, batches)
        BY <1>1, <2>3, <2>4, LeadDone, SameOpen
    <2>6. Save(p, i, f[i], kept, OneLeadDone(p, g))
        BY <1>5 DEF g, kept
    <2> QED BY <1>1, <1>3, <2>2, <2>5, <2>6, SaveStays
<1> QED BY <1>2, <1>4, <1>5

LEMMA EnrolStays ==
    ASSUME IInv, NEW p \in Processes, Enrol(p)
    PROVE  Stays
<1> DEFINE l == NextLead(p)
           f == syncs[p].byEmail
           new == [email |-> AddressOf(p, l), lead |-> l, batch |-> syncs[p].roster[l].label, status |-> "active",
                   left |-> FALSE, deleted |-> FALSE, by |-> "portal"]
           id == Len(students) + 1
           g == [i \in DOMAIN f \cup {id} |-> IF i = id THEN new ELSE f[i]]
<1>1. InLoop(p) /\ batches' = batches
    BY DEF Enrol
<1>2. \/ Went(p, OneLeadDone(p, f))
      \/ /\ ~LeadTaken(l, 0) /\ ~EmailTaken(AddressOf(p, l))
         /\ students' = Append(students, new)
         /\ Wrote(p, OneLeadDone(p, g))
    BY DEF Enrol
<1>3. /\ l \in Leads /\ syncs[p].roster[l].label \in batches \cap Labels /\ syncs[p].alone \in BOOLEAN
      /\ AddressOf(p, l) \in Emails \cup {None}
      /\ f \in Copies /\ AllFit(f, students, batches)
    BY <1>1, AtALead
<1>4. /\ new \in StudentDocs /\ new.batch \in batches \cup {None}
      /\ new.lead = l /\ new.email = AddressOf(p, l)
    BY <1>3 DEF StudentDocs, Status
<1> HIDE DEF l, f, new
<1>5. CASE Went(p, OneLeadDone(p, f))
    <2>1. OneLeadDone(p, f) \in Syncs /\ Held(OneLeadDone(p, f), students, batches)
        BY <1>1, <1>3, LeadDone, SameOpen
    <2> QED BY <1>1, <1>5, <2>1, WentStays
<1>6. CASE /\ ~LeadTaken(l, 0) /\ ~EmailTaken(AddressOf(p, l))
           /\ students' = Append(students, new)
           /\ Wrote(p, OneLeadDone(p, g))
    <2>1. 0 \notin DOMAIN students
        BY DEF IInv, Records
    <2>2. new.lead = None \/ \A j \in DOMAIN students : students[j].lead # new.lead
        BY <1>4, <1>6, <2>1 DEF LeadTaken
    <2>3. new.email = None \/ \A j \in DOMAIN students : students[j].email # new.email
        BY <1>4, <1>6 DEF EmailTaken
    <2>4. /\ Records(students', batches) /\ OneEach(students')
          /\ Grown(students, batches, students', batches)
          /\ Fits(new, students', id, batches) /\ id \in Nat
        BY <1>4, <1>6, <2>2, <2>3, Appended DEF IInv
    <2> HIDE DEF id
    <2>5. g \in Copies
        <3>1. \A doc \in StudentDocs, n \in Nat : [j \in DOMAIN f \cup {n} |-> IF j = n THEN doc ELSE f[j]] \in Copies
            BY <1>3, CopyFields
        <3>2. new \in StudentDocs /\ id \in Nat
            BY <1>4, <2>4
        <3> QED BY <3>1, <3>2
    <2>6. AllFit(g, students', batches)
        BY <1>3, <2>4, StillFits DEF AllFit
    <2> HIDE DEF g
    <2>7. OneLeadDone(p, g) \in Syncs /\ Held(OneLeadDone(p, g), students', batches)
        BY <1>1, <2>4, <2>5, <2>6, LeadDone
    <2>8. \E ps : syncs' = [Disturbed(ps) EXCEPT ![p] = OneLeadDone(p, g)]
        BY <1>6 DEF Wrote
    <2>9. settled' \in BOOLEAN
        BY <1>3, <1>6 DEF Wrote, IInv
    <2> QED BY <1>1, <2>4, <2>7, <2>8, <2>9, SyncsKeep DEF Stays
<1> QED BY <1>2, <1>5, <1>6

-----------------------------------------------------------------------------
(* Beginning and ending. *)

(* A step of a sync that writes nothing, and may open batches. *)
LEMMA ReadStays ==
    ASSUME IInv, NEW p \in Processes, NEW state \in Syncs, batches \subseteq batches', Held(state, students, batches'),
           syncs' = [syncs EXCEPT ![p] = state], students' = students, settled' \in BOOLEAN
    PROVE  Stays
<1>1. Records(students', batches') /\ OneEach(students') /\ Grown(students, batches, students', batches')
    BY Unchanged DEF IInv
<1>2. Held(state, students', batches')
    OBVIOUS
<1> QED BY <1>1, <1>2, SyncsKeep DEF Stays

LEMMA StartSyncStays ==
    ASSUME IInv, NEW p \in Processes, StartSync(p)
    PROVE  Stays /\ batches' \subseteq Labels
<1> DEFINE S == {l \in Leads : leads[l] # None}
           roster == [l \in S |-> leads[l]]
           state == [at |-> "enrolled", alone |-> TRUE, atStage |-> DOMAIN roster, roster |-> roster]
<1>1. /\ syncs' = [syncs EXCEPT ![p] = state] /\ students' = students /\ settled' = settled
      /\ batches' = batches \cup {roster[l].label : l \in DOMAIN roster}
    BY DEF StartSync
<1>2. \A l \in S : leads[l] \in LeadDocs
    BY DEF IInv
<1>3. roster \in [S -> LeadDocs] /\ S \in SUBSET Leads
    BY <1>2
<1> HIDE DEF S
<1>4. roster \in Rosters /\ DOMAIN roster = S /\ \A l \in S : roster[l].label \in Labels
    BY <1>3 DEF Rosters, LeadDocs
<1> HIDE DEF roster
<1>5. state \in Reading /\ state.at = "enrolled" /\ state.atStage = DOMAIN roster /\ state.roster = roster
    BY <1>3, <1>4 DEF Reading
<1> HIDE DEF state
<1>6. Held(state, students, batches')
    BY <1>1, <1>5 DEF Held, OpenedFor
<1>7. state \in Syncs /\ batches \subseteq batches' /\ settled' \in BOOLEAN
    BY <1>1, <1>5 DEF Syncs, IInv
<1>8. Stays
    BY <1>1, <1>6, <1>7, ReadStays
<1>9. batches' \subseteq Labels
    BY <1>1, <1>4 DEF IInv
<1> QED BY <1>8, <1>9

LEMMA ReadEnrolledStays ==
    ASSUME IInv, NEW p \in Processes, ReadEnrolled(p)
    PROVE  Stays
<1> DEFINE s == syncs[p]
           S == {i \in DOMAIN students : students[i].lead \in AtStage(p)}
           f == [i \in S |-> students[i]]
           state == [at |-> "by_email", alone |-> s.alone, atStage |-> s.atStage, roster |-> s.roster, enrolled |-> f]
<1>1. /\ s.at = "enrolled" /\ syncs' = [syncs EXCEPT ![p] = state]
      /\ students' = students /\ settled' = settled /\ batches' = batches
    BY DEF ReadEnrolled
<1>2. s \in Reading /\ OpenedFor(s, batches)
    BY <1>1, Kinds DEF IInv, Held
<1>3. f \in Copies /\ AllFit(f, students, batches)
    BY StudentCopies
<1> HIDE DEF s, f
<1>4. state \in ByAddress /\ state.at = "by_email" /\ state.atStage = s.atStage /\ state.roster = s.roster /\ state.enrolled = f
    BY <1>2, <1>3 DEF Reading, ByAddress
<1> HIDE DEF state
<1>5. state \in Syncs /\ Held(state, students, batches)
    BY <1>2, <1>3, <1>4 DEF Syncs, Held, OpenedFor
<1>6. settled' \in BOOLEAN
    BY <1>1 DEF IInv
<1> QED BY <1>1, <1>5, <1>6, ReadStays

LEMMA ReadByEmailStays ==
    ASSUME IInv, NEW p \in Processes, ReadByEmail(p)
    PROVE  Stays
<1> DEFINE s == syncs[p]
<1>1. PICK S \in SUBSET DOMAIN students :
          syncs' = [syncs EXCEPT ![p] =
                       GoOn([at |-> "leads", alone |-> s.alone, atStage |-> s.atStage, roster |-> s.roster,
                             enrolled |-> s.enrolled, byEmail |-> [i \in S |-> students[i]], todo |-> s.atStage])]
    BY DEF ReadByEmail
<1>2. s.at = "by_email" /\ students' = students /\ settled' = settled /\ batches' = batches
    BY DEF ReadByEmail
<1>3. s \in ByAddress /\ OpenedFor(s, batches) /\ AllFit(s.enrolled, students, batches)
    BY <1>2, Kinds DEF IInv, Held
<1> DEFINE f == [i \in S |-> students[i]]
           t == [at |-> "leads", alone |-> s.alone, atStage |-> s.atStage, roster |-> s.roster,
                 enrolled |-> s.enrolled, byEmail |-> f, todo |-> s.atStage]
<1>4. f \in Copies /\ AllFit(f, students, batches)
    BY StudentCopies
<1> HIDE DEF s, f
<1>5. /\ t \in Looping /\ t.atStage = s.atStage /\ t.roster = s.roster /\ t.enrolled = s.enrolled /\ t.byEmail = f
      /\ t.todo = s.atStage
    BY <1>3, <1>4 DEF ByAddress, Looping
<1> HIDE DEF t
<1>6. OpenedFor(t, batches) /\ AllFit(t.enrolled, students, batches) /\ AllFit(t.byEmail, students, batches)
    BY <1>3, <1>4, <1>5 DEF OpenedFor
<1>7. GoOn(t) \in Syncs /\ Held(GoOn(t), students, batches)
    BY <1>5, <1>6, GoesOn
<1>8. syncs' = [syncs EXCEPT ![p] = GoOn(t)]
    BY <1>1 DEF t, f
<1>9. settled' \in BOOLEAN
    BY <1>2 DEF IInv
<1> QED BY <1>2, <1>7, <1>8, <1>9, ReadStays

LEMMA ReadLeaversStays ==
    ASSUME IInv, NEW p \in Processes, ReadLeavers(p)
    PROVE  Stays
<1> DEFINE s == syncs[p]
           S == {i \in DOMAIN students : /\ students[i].lead \notin AtStage(p) \cup {None}
                                         /\ ~students[i].deleted
                                         /\ students[i].status \in {"active", "on_hold"}}
           f == [i \in S |-> students[i]]
           state == [at |-> "leavers", alone |-> s.alone, leavers |-> f]
<1>1. s.at = "looped" /\ Went(p, state) /\ batches' = batches
    BY DEF ReadLeavers
<1>2. s \in Looped
    BY <1>1, Kinds DEF IInv
<1>3. f \in Copies /\ AllFit(f, students, batches)
    BY StudentCopies
<1>4. \A i \in DOMAIN f : f[i].status \in {"active", "on_hold"}
    OBVIOUS
<1> HIDE DEF s, f
<1>5. state \in Leaving /\ state.at = "leavers" /\ state.leavers = f
    BY <1>2, <1>3 DEF Looped, Leaving
<1> HIDE DEF state
<1>6. state \in Syncs /\ Held(state, students, batches)
    BY <1>3, <1>4, <1>5 DEF Syncs, Held
<1> QED BY <1>1, <1>6, WentStays

(* What a sync that drops leavers holds. *)
LEMMA AtALeaver ==
    ASSUME IInv, NEW p \in Processes, syncs[p].at = "leavers"
    PROVE  /\ syncs[p] \in Leaving /\ syncs[p].alone \in BOOLEAN
           /\ syncs[p].leavers \in Copies /\ AllFit(syncs[p].leavers, students, batches)
           /\ \A i \in DOMAIN syncs[p].leavers : syncs[p].leavers[i].status \in {"active", "on_hold"}
<1>1. syncs[p] \in Leaving /\ Held(syncs[p], students, batches)
    BY Kinds DEF IInv
<1> QED BY <1>1 DEF Leaving, Held

LEMMA DropLeaverStays ==
    ASSUME IInv, NEW p \in Processes, DropLeaver(p)
    PROVE  Stays
<1> DEFINE s == syncs[p]
           f == s.leavers
           Dropped(i) == [f[i] EXCEPT !.status = "dropped", !.left = TRUE, !.by = "portal"]
           Rest(i) == [j \in DOMAIN f \ {i} |-> f[j]]
           State(i) == [s EXCEPT !.leavers = Rest(i)]
<1>1. s.at = "leavers" /\ batches' = batches
    BY DEF DropLeaver
<1>2. PICK i \in DOMAIN f : Save(p, i, f[i], Dropped(i), State(i))
    BY DEF DropLeaver
<1>3. /\ s \in Leaving /\ s.alone \in BOOLEAN /\ f \in Copies /\ AllFit(f, students, batches)
      /\ \A j \in DOMAIN f : f[j].status \in {"active", "on_hold"}
    BY <1>1, AtALeaver
<1>4. f[i] \in StudentDocs /\ Fits(f[i], students, i, batches)
    BY <1>3, CopyOf
<1>5. Dropped(i) \in StudentDocs /\ Fits(Dropped(i), students, i, batches)
    BY <1>4, DroppedFields DEF Fits
<1>6. Rest(i) \in Copies
    BY <1>3, CopyFields
<1>a. DOMAIN Rest(i) \subseteq DOMAIN f /\ \A j \in DOMAIN Rest(i) : Rest(i)[j] = f[j]
    OBVIOUS
<1> HIDE DEF s, Rest
<1>7. AllFit(Rest(i), students, batches) /\ \A j \in DOMAIN Rest(i) : Rest(i)[j].status \in {"active", "on_hold"}
    BY <1>3, <1>a DEF AllFit
<1>8. State(i) \in Leaving /\ State(i).at = "leavers" /\ State(i).leavers = Rest(i)
    BY <1>3, <1>6 DEF Leaving
<1> HIDE DEF State
<1>9. State(i) \in Syncs /\ Held(State(i), students, batches)
    BY <1>7, <1>8 DEF Syncs, Held
<1> HIDE DEF Dropped
<1> QED BY <1>1, <1>2, <1>3, <1>5, <1>9, SaveStays DEF s

LEMMA EndsStay ==
    ASSUME IInv, NEW p \in Processes, EndSync(p) \/ Crash(p)
    PROVE  Stays
<1>1. CASE EndSync(p)
    <2>1. settled' \in BOOLEAN
        BY <1>1, AtALeaver DEF EndSync, IInv
    <2>2. syncs' = [syncs EXCEPT ![p] = Idle] /\ students' = students /\ batches' = batches
        BY <1>1 DEF EndSync
    <2> QED BY <2>1, <2>2, IdleHeld, ReadStays
<1>2. CASE Crash(p)
    BY <1>2, IdleHeld, WentStays DEF Crash
<1> QED BY <1>1, <1>2

-----------------------------------------------------------------------------
(* People. *)

(* A change disturbs every sync, and no document in hand. *)
LEMMA DisturbedAll ==
    ASSUME IInv, Grown(students, batches, students', batches'), syncs' = Disturbed(Processes)
    PROVE  syncs' \in [Processes -> Syncs] /\ \A q \in Processes : Held(syncs'[q], students', batches')
<1>1. \A q \in Processes : syncs[q] \in Syncs /\ Held(syncs[q], students', batches')
    BY StillHeld DEF IInv
<1>2. \A q \in Processes : Disturbed(Processes)[q] \in Syncs /\ Held(Disturbed(Processes)[q], students', batches')
    BY <1>1, DisturbedHeld DEF Disturbed, Running
<1>3. Disturbed(Processes) = [q \in Processes |-> Disturbed(Processes)[q]]
    BY DEF Disturbed
<1> QED BY <1>2, <1>3

LEMMA LeadMovesStays ==
    ASSUME IInv, NEW l \in Leads, LeadMoves(l)
    PROVE  Stays /\ leads' \in [Leads -> LeadDocs \cup {None}] /\ changes' \in 0..MaxChanges
<1>1. /\ syncs' = Disturbed(Processes) /\ settled' = FALSE /\ students' = students /\ batches' = batches
      /\ changes < MaxChanges /\ changes' = changes + 1
    BY DEF LeadMoves, Change
<1>2. /\ Records(students', batches') /\ OneEach(students')
      /\ Grown(students, batches, students', batches')
    BY <1>1, Unchanged DEF IInv
<1>3. Stays
    BY <1>1, <1>2, DisturbedAll DEF Stays
<1>4. leads' \in [Leads -> LeadDocs \cup {None}]
    <2>1. CASE leads[l] = None
        BY <2>1 DEF LeadMoves, IInv
    <2>2. CASE leads[l] # None
        <3>1. leads[l] \in LeadDocs
            BY <2>2 DEF IInv
        <3>2. PICK doc \in LeadDocs \cup {None} : leads' = [leads EXCEPT ![l] = doc]
            <4>1. \A label \in Labels : [leads[l] EXCEPT !.label = label] \in LeadDocs
                BY <3>1 DEF LeadDocs
            <4>2. \A email \in Emails \cup {None} : [leads[l] EXCEPT !.email = email] \in LeadDocs
                BY <3>1 DEF LeadDocs
            <4>3. \/ leads' = [leads EXCEPT ![l] = None]
                  \/ \E label \in Labels : leads' = [leads EXCEPT ![l] = [leads[l] EXCEPT !.label = label]]
                  \/ \E email \in Emails \cup {None} : leads' = [leads EXCEPT ![l] = [leads[l] EXCEPT !.email = email]]
                BY <2>2 DEF LeadMoves
            <4> QED BY <4>1, <4>2, <4>3
        <3> QED BY <3>2 DEF IInv
    <2> QED BY <2>1, <2>2
<1>5. changes' \in 0..MaxChanges
    BY <1>1, ProcessesAssumption DEF IInv
<1> QED BY <1>3, <1>4, <1>5

LEMMA StaffCreatesStays ==
    ASSUME IInv, NEW email \in Emails, StaffCreates(email)
    PROVE  Stays /\ changes' \in 0..MaxChanges
<1> DEFINE new == [email |-> email, lead |-> None, batch |-> None, status |-> "active",
                   left |-> FALSE, deleted |-> FALSE, by |-> "staff"]
<1>1. /\ syncs' = Disturbed(Processes) /\ settled' = FALSE /\ batches' = batches
      /\ changes < MaxChanges /\ changes' = changes + 1
      /\ ~EmailTaken(email) /\ students' = Append(students, new)
    BY DEF StaffCreates, Change
<1>2. new \in StudentDocs /\ new.batch = None /\ new.lead = None /\ new.email = email
    BY DEF StudentDocs, Status
<1> HIDE DEF new
<1>3. new.email = None \/ \A j \in DOMAIN students : students[j].email # new.email
    BY <1>1, <1>2 DEF EmailTaken
<1>4. /\ Records(students', batches) /\ OneEach(students')
      /\ Grown(students, batches, students', batches)
    BY <1>1, <1>2, <1>3, Appended DEF IInv
<1>5. changes' \in 0..MaxChanges
    BY <1>1, ProcessesAssumption DEF IInv
<1> QED BY <1>1, <1>4, <1>5, DisturbedAll DEF Stays

LEMMA StaffSavesStays ==
    ASSUME IInv, StaffSaves
    PROVE  Stays /\ changes' \in 0..MaxChanges
<1> DEFINE read == edit.doc
<1>1. /\ syncs' = Disturbed(Processes) /\ settled' = FALSE /\ batches' = batches
      /\ changes < MaxChanges /\ changes' = changes + 1
      /\ edit.at = "read" /\ ~LeadTaken(read.lead, edit.id)
    BY DEF StaffSaves, Change
<1>2. read \in StudentDocs /\ Fits(read, students, edit.id, batches)
    BY <1>1 DEF IInv, Edits, Idle, EditHeld
<1>3. PICK doc \in StudentDocs :
          /\ students' = [students EXCEPT ![edit.id] = doc]
          /\ doc.email = read.email /\ doc.lead = read.lead /\ doc.batch \in batches \cup {None}
    <2>1. \A status \in Status :
             LET doc == [read EXCEPT !.status = status, !.by = "staff"]
             IN  doc \in StudentDocs /\ doc.email = read.email /\ doc.lead = read.lead /\ doc.batch = read.batch
        BY <1>2 DEF StudentDocs
    <2>2. \A label \in batches :
             LET doc == [read EXCEPT !.batch = label]
             IN  doc \in StudentDocs /\ doc.email = read.email /\ doc.lead = read.lead /\ doc.batch = label
        BY <1>2 DEF StudentDocs, IInv
    <2>3. LET doc == [read EXCEPT !.deleted = TRUE]
          IN  doc \in StudentDocs /\ doc.email = read.email /\ doc.lead = read.lead /\ doc.batch = read.batch
        BY <1>2 DEF StudentDocs
    <2>4. read.batch \in batches \cup {None}
        BY <1>2 DEF Fits
    <2>5. CASE \E status \in Status : students' = [students EXCEPT ![edit.id] = [read EXCEPT !.status = status, !.by = "staff"]]
        BY <2>1, <2>4, <2>5
    <2>6. CASE \E label \in batches : students' = [students EXCEPT ![edit.id] = [read EXCEPT !.batch = label]]
        BY <2>2, <2>6
    <2>7. CASE students' = [students EXCEPT ![edit.id] = [read EXCEPT !.deleted = TRUE]]
        BY <2>3, <2>4, <2>7
    <2> QED BY <2>5, <2>6, <2>7 DEF StaffSaves
<1> HIDE DEF read
<1>4. edit.id \in DOMAIN students /\ Fits(doc, students, edit.id, batches)
    BY <1>2, <1>3 DEF Fits
<1>5. doc.lead = None \/ \A j \in DOMAIN students \ {edit.id} : students[j].lead # doc.lead
    BY <1>1, <1>3 DEF LeadTaken
<1>6. /\ Records(students', batches) /\ OneEach(students')
      /\ Grown(students, batches, students', batches)
    BY <1>3, <1>4, <1>5, Replaced DEF IInv
<1>7. changes' \in 0..MaxChanges
    BY <1>1, ProcessesAssumption DEF IInv
<1> QED BY <1>1, <1>6, <1>7, DisturbedAll DEF Stays

-----------------------------------------------------------------------------
(* The invariant. *)

LEMMA SyncStays ==
    ASSUME IInv, NEW p \in Processes, SyncStep(p) \/ Crash(p)
    PROVE  Stays /\ batches' \subseteq Labels /\ UNCHANGED <<leads, edit, changes>>
<1>1. UNCHANGED <<leads, edit, changes>>
    BY DEF SyncStep, StartSync, ReadEnrolled, ReadByEmail, KeepEnrolled, TakeUp, Enrol, ReadLeavers, DropLeaver, EndSync, Crash
<1>2. batches' \subseteq Labels
    <2>1. CASE StartSync(p)
        BY <2>1, StartSyncStays
    <2>2. CASE ~StartSync(p)
        <3>1. batches' = batches
            BY <2>2 DEF SyncStep, ReadEnrolled, ReadByEmail, KeepEnrolled, TakeUp, Enrol, ReadLeavers, DropLeaver, EndSync, Crash
        <3> QED BY <3>1 DEF IInv
    <2> QED BY <2>1, <2>2
<1>3. Stays
    BY StartSyncStays, ReadEnrolledStays, ReadByEmailStays, KeepEnrolledStays, TakeUpStays, EnrolStays, ReadLeaversStays,
       DropLeaverStays, EndsStay DEF SyncStep
<1> QED BY <1>1, <1>2, <1>3

(* The document on the Students page is of a student as much as before. *)
LEMMA EditStays ==
    ASSUME IInv, Grown(students, batches, students', batches'), edit' = edit
    PROVE  edit' \in Edits /\ EditHeld(edit', students', batches')
BY StillFits DEF IInv, EditHeld

LEMMA Started == Init => IInv
<1> SUFFICES ASSUME Init PROVE IInv
    OBVIOUS
<1>1. leads \in [Leads -> LeadDocs \cup {None}] /\ batches \subseteq Labels /\ settled \in BOOLEAN
    BY DEF Init
<1>5. changes \in 0..MaxChanges
    BY ProcessesAssumption DEF Init
<1>2. Records(students, batches) /\ OneEach(students)
    BY DEF Init, Records, OneEach
<1>3. syncs \in [Processes -> Syncs] /\ \A p \in Processes : Held(syncs[p], students, batches)
    BY IdleHeld DEF Init
<1>4. edit \in Edits /\ EditHeld(edit, students, batches)
    BY DEF Init, Edits, EditHeld, Idle
<1> QED BY <1>1, <1>2, <1>3, <1>4, <1>5 DEF IInv

LEMMA Inductive == IInv /\ [Next]_vars => IInv'
<1> SUFFICES ASSUME IInv, [Next]_vars PROVE IInv'
    OBVIOUS
<1>1. ASSUME NEW p \in Processes, SyncStep(p) \/ Crash(p) PROVE IInv'
    <2>1. Stays /\ batches' \subseteq Labels /\ UNCHANGED <<leads, edit, changes>>
        BY <1>1, SyncStays
    <2>2. edit' \in Edits /\ EditHeld(edit', students', batches')
        BY <2>1, EditStays DEF Stays
    <2> QED BY <2>1, <2>2 DEF IInv, Stays
<1>2. ASSUME NEW l \in Leads, LeadMoves(l) PROVE IInv'
    <2>1. Stays /\ leads' \in [Leads -> LeadDocs \cup {None}] /\ changes' \in 0..MaxChanges
        BY <1>2, LeadMovesStays
    <2>2. edit' = edit /\ batches' = batches
        BY <1>2 DEF LeadMoves
    <2>3. edit' \in Edits /\ EditHeld(edit', students', batches')
        BY <2>1, <2>2, EditStays DEF Stays
    <2> QED BY <2>1, <2>2, <2>3 DEF IInv, Stays
<1>3. ASSUME NEW email \in Emails, StaffCreates(email) PROVE IInv'
    <2>1. Stays /\ changes' \in 0..MaxChanges
        BY <1>3, StaffCreatesStays
    <2>2. edit' = edit /\ batches' = batches /\ leads' = leads
        BY <1>3 DEF StaffCreates
    <2>3. edit' \in Edits /\ EditHeld(edit', students', batches')
        BY <2>1, <2>2, EditStays DEF Stays
    <2> QED BY <2>1, <2>2, <2>3 DEF IInv, Stays
<1>4. ASSUME NEW i \in DOMAIN students, StaffReads(i) PROVE IInv'
    <2>1. UNCHANGED <<leads, batches, students, syncs, changes, settled>> /\ edit' = [at |-> "read", id |-> i, doc |-> students[i]]
        BY <1>4 DEF StaffReads
    <2>2. i \in Nat /\ students[i] \in StudentDocs /\ students[i].batch \in batches \cup {None}
        BY DEF IInv, Records
    <2>3. edit' \in Edits /\ EditHeld(edit', students', batches')
        BY <2>1, <2>2 DEF Edits, EditHeld, Fits
    <2> QED BY <2>1, <2>3 DEF IInv
<1>5. CASE StaffSaves
    <2>1. Stays /\ changes' \in 0..MaxChanges
        BY <1>5, StaffSavesStays
    <2>2. edit' = Idle /\ batches' = batches /\ leads' = leads
        BY <1>5 DEF StaffSaves
    <2>3. edit' \in Edits /\ EditHeld(edit', students', batches')
        BY <2>2 DEF Edits, EditHeld, Idle
    <2> QED BY <2>1, <2>2, <2>3 DEF IInv, Stays
<1>6. CASE StaffGivesUp
    <2>1. UNCHANGED <<leads, batches, students, syncs, changes, settled>> /\ edit' = Idle
        BY <1>6 DEF StaffGivesUp
    <2>2. edit' \in Edits /\ EditHeld(edit', students', batches')
        BY <2>1 DEF Edits, EditHeld, Idle
    <2> QED BY <2>1, <2>2 DEF IInv
<1>7. CASE UNCHANGED vars
    BY <1>7 DEF IInv, vars
<1> QED BY <1>1, <1>2, <1>3, <1>4, <1>5, <1>6, <1>7 DEF Next

-----------------------------------------------------------------------------
(* Whatever runs beside what. *)

(* One student to a lead and to an address, deleted ones counted, each in  *)
(* a batch that has been opened (the unique indexes of models/student.py,  *)
(* and what the sync's checks rest on), however syncs and edits overlap.   *)
THEOREM OneStudentEach == Spec => []TypeOK
<1>1. IInv => TypeOK
    <2> SUFFICES ASSUME IInv PROVE TypeOK
        OBVIOUS
    <2>1. \A i \in DOMAIN students : students[i] \in StudentDocs /\ students[i].batch \in batches \cup {None}
        BY DEF IInv, Records
    <2> QED BY <2>1 DEF IInv, TypeOK, OneEach
<1> QED BY <1>1, Started, Inductive, PTL DEF Spec

(* A save that keeps a completed student completed, or is not of that one. *)
LEMMA SaveKeepsStatus ==
    ASSUME IInv, NEW p \in Processes, NEW i, NEW read, NEW doc, NEW state, Save(p, i, read, doc, state),
           NEW j \in DOMAIN students, students[j].status = "completed",
           i = j => doc.status = "completed"
    PROVE  students'[j].status = "completed"
<1>1. students' = students \/ students' = [students EXCEPT ![i] = doc]
    BY DEF Save, Went
<1>2. students \in Seq(StudentDocs)
    BY DEF IInv, Records
<1> QED BY <1>1, <1>2

(* A sync that saves what it has read of a completed student leaves it     *)
(* completed: a lead that comes back undoes the portal's own drop only,    *)
(* and who has left is dropped only from active or on hold                 *)
(* (student_enrollment_service.py:178-202).                                *)
THEOREM CompletedStudentsStay == Spec => CompletedStaysCompleted
<1>1. ASSUME IInv, [Next]_vars, NEW p \in Processes, NEW j \in DOMAIN students,
             students[j].status = "completed", UpToDate(p, j), SyncStep(p)
      PROVE  students'[j].status = "completed"
    <2>1. CASE KeepEnrolled(p)
        <3> DEFINE f == syncs[p].enrolled
                   l == NextLead(p)
                   label == syncs[p].roster[l].label
        <3>1. InLoop(p)
            BY <2>1 DEF KeepEnrolled
        <3>2. PICK i \in DOMAIN f : Save(p, i, f[i], IF f[i].deleted THEN f[i] ELSE KeptCurrent(f[i], l, label),
                                         OneLeadDone(p, syncs[p].byEmail))
            BY <2>1 DEF KeepEnrolled, EnrolledFor
        <3>3. l \in Leads /\ label \in Labels /\ f \in Copies
            BY <1>1, <3>1, AtALead
        <3>4. i = j => f[i] = students[j]
            BY <1>1, <3>1 DEF UpToDate, InLoop
        <3> HIDE DEF f, l, label
        <3>5. f[i] \in StudentDocs
            BY <3>3, CopyFields
        <3>6. i = j => (IF f[i].deleted THEN f[i] ELSE KeptCurrent(f[i], l, label)).status = "completed"
            BY <1>1, <3>3, <3>4, <3>5, KeptFields
        <3> QED BY <1>1, <3>2, <3>6, SaveKeepsStatus
    <2>2. CASE TakeUp(p)
        <3> DEFINE f == syncs[p].byEmail
                   l == NextLead(p)
                   label == syncs[p].roster[l].label
        <3>1. InLoop(p)
            BY <2>2 DEF TakeUp
        <3>2. PICK i \in DOMAIN f :
                  \/ students' = students
                  \/ Save(p, i, f[i], KeptCurrent(f[i], l, label), OneLeadDone(p, [f EXCEPT ![i] = KeptCurrent(f[i], l, label)]))
            BY <2>2 DEF TakeUp, OtherFor, Went
        <3>3. l \in Leads /\ label \in Labels /\ f \in Copies
            BY <1>1, <3>1, AtALead
        <3>4. i = j => f[i] = students[j]
            BY <1>1, <3>1 DEF UpToDate, InLoop
        <3> HIDE DEF f, l, label
        <3>5. f[i] \in StudentDocs
            BY <3>3, CopyFields
        <3>6. i = j => KeptCurrent(f[i], l, label).status = "completed"
            BY <1>1, <3>3, <3>4, <3>5, KeptFields
        <3> QED BY <1>1, <3>2, <3>6, SaveKeepsStatus
    <2>3. CASE DropLeaver(p)
        <3> DEFINE f == syncs[p].leavers
        <3>1. syncs[p].at = "leavers"
            BY <2>3 DEF DropLeaver
        <3>2. PICK i, doc, state : i \in DOMAIN f /\ Save(p, i, f[i], doc, state)
            BY <2>3 DEF DropLeaver
        <3>3. f[i].status \in {"active", "on_hold"}
            BY <1>1, <3>1, <3>2, AtALeaver
        <3>4. i = j => f[i] = students[j]
            BY <1>1, <3>1, <3>2 DEF UpToDate
        <3>5. i # j
            BY <1>1, <3>3, <3>4
        <3> QED BY <1>1, <3>2, <3>5, SaveKeepsStatus
    <2>4. CASE Enrol(p)
        <3>1. students' = students \/ \E new : students' = Append(students, new)
            BY <2>4 DEF Enrol, Went
        <3>2. students \in Seq(StudentDocs)
            BY <1>1 DEF IInv, Records
        <3> QED BY <1>1, <3>1, <3>2
    <2>5. CASE StartSync(p) \/ ReadEnrolled(p) \/ ReadByEmail(p) \/ ReadLeavers(p) \/ EndSync(p)
        BY <1>1, <2>5 DEF StartSync, ReadEnrolled, ReadByEmail, ReadLeavers, EndSync, Went
    <2> QED BY <1>1, <2>1, <2>2, <2>3, <2>4, <2>5 DEF SyncStep
<1>2. IInv /\ [Next]_vars =>
        [\A p \in Processes, i \in DOMAIN students :
            students[i].status = "completed" /\ UpToDate(p, i)
                => students'[i].status = "completed" \/ ~SyncStep(p)]_vars
    BY <1>1
<1> QED BY <1>2, Started, Inductive, PTL DEF Spec, CompletedStaysCompleted

-----------------------------------------------------------------------------
(* What a sync that nothing interfered with knows of the students (docs)   *)
(* and leads (ls) of a moment.                                             *)

AtTheStage(ls) == {l \in Leads : ls[l] # None}

(* Lead l is a student: its own, or its person's. *)
IsAStudent(l, docs, ls) ==
    \E i \in DOMAIN docs :
        \/ docs[i].lead = l
        \/ ls[l].email # None /\ docs[i].email = ls[l].email /\ docs[i].lead \in AtTheStage(ls)

(* A student of a lead at the stage is in its lead's batch, and not gone. *)
InItsBatch(doc, ls) == doc.deleted \/ (doc.batch = ls[doc.lead].label /\ ~doc.left)

Enrolled(S, docs, ls) ==
    /\ \A l \in S : IsAStudent(l, docs, ls)
    /\ \A i \in DOMAIN docs : docs[i].lead \in S => InItsBatch(docs[i], ls)

(* A student whose lead is no longer at the stage, and who was not dropped. *)
Leaves(doc, ls) == doc.lead \notin AtTheStage(ls) \cup {None} /\ ~doc.deleted /\ doc.status \in {"active", "on_hold"}

InLine(docs, ls) == Enrolled(AtTheStage(ls), docs, ls) /\ \A i \in DOMAIN docs : ~Leaves(docs[i], ls)

SameLeads(f, docs) == DOMAIN f \subseteq DOMAIN docs /\ \A i \in DOMAIN f : docs[i].lead = f[i].lead

KnowsLeads(s, ls) == s.atStage = AtTheStage(ls) /\ \A l \in AtTheStage(ls) : s.roster[l] = ls[l]

KnowsEnrolled(s, docs, ls) == SameLeads(s.enrolled, docs) /\ \A i \in DOMAIN s.enrolled : s.enrolled[i].lead \in AtTheStage(ls)

(* The students of the leads in S, as they are. *)
Has(s, S, docs) == \A i \in DOMAIN docs : docs[i].lead \in S => i \in DOMAIN s.enrolled /\ s.enrolled[i] = docs[i]

(* In the loop: the students of the leads to come, every student with the  *)
(* address of one that has none, as it is unless it is of a lead at the    *)
(* stage; and the leads before are enrolled.                               *)
KnowsAddresses(s, docs, ls) ==
    /\ SameLeads(s.byEmail, docs)
    /\ \A i \in DOMAIN s.byEmail : s.byEmail[i].lead \in AtTheStage(ls) \/ s.byEmail[i] = docs[i]
    /\ \A l \in s.todo, i \in DOMAIN docs :
          /\ ls[l].email # None /\ docs[i].email = ls[l].email
          /\ \A j \in DOMAIN docs : docs[j].lead # l
          => i \in DOMAIN s.byEmail

InTheLoop(s, docs, ls) ==
    Has(s, s.todo, docs) /\ KnowsAddresses(s, docs, ls) /\ Enrolled(AtTheStage(ls) \ s.todo, docs, ls)

KnowsLeavers(s, docs, ls) ==
    /\ Enrolled(AtTheStage(ls), docs, ls)
    /\ \A i \in DOMAIN docs : Leaves(docs[i], ls) => i \in DOMAIN s.leavers
    /\ \A i \in DOMAIN s.leavers : i \in DOMAIN docs /\ s.leavers[i] = docs[i] /\ Leaves(docs[i], ls)

Knows(s, docs, ls) ==
    /\ s.at \in {"enrolled", "by_email", "leads"} => KnowsLeads(s, ls)
    /\ s.at \in {"by_email", "leads"} => KnowsEnrolled(s, docs, ls)
    /\ s.at = "by_email" => Has(s, AtTheStage(ls), docs)
    /\ s.at = "leads" => InTheLoop(s, docs, ls)
    /\ s.at = "looped" => s.atStage = AtTheStage(ls) /\ Enrolled(AtTheStage(ls), docs, ls)
    /\ s.at = "leavers" => KnowsLeavers(s, docs, ls)

Clear(s, docs, ls) == s.at # "idle" /\ s.alone => Knows(s, docs, ls)

Undisturbed ==
    /\ \A p \in Processes : Clear(syncs[p], students, leads)
    /\ settled => InLine(students, leads)

-----------------------------------------------------------------------------
(* The loop over the leads. *)

LEMMA LoopKnows ==
    ASSUME NEW s \in Looping, NEW docs, NEW ls,
           KnowsLeads(s, ls), KnowsEnrolled(s, docs, ls), InTheLoop(s, docs, ls)
    PROVE  Knows(GoOn(s), docs, ls)
<1>1. CASE s.todo # {}
    <2>1. GoOn(s) = s /\ s.at = "leads"
        BY <1>1 DEF GoOn, Looping
    <2> QED BY <2>1 DEF Knows
<1>2. CASE s.todo = {}
    <2> DEFINE t == [at |-> "looped", alone |-> s.alone, atStage |-> s.atStage]
    <2>1. GoOn(s) = t
        BY <1>2 DEF GoOn
    <2>2. t.at = "looped" /\ t.atStage = s.atStage
        OBVIOUS
    <2> HIDE DEF t
    <2>3. AtTheStage(ls) \ s.todo = AtTheStage(ls)
        BY <1>2
    <2>4. Enrolled(AtTheStage(ls), docs, ls) /\ t.atStage = AtTheStage(ls)
        BY <2>2, <2>3 DEF InTheLoop, KnowsLeads
    <2> QED BY <2>1, <2>2, <2>4 DEF Knows
<1> QED BY <1>1, <1>2

(* What became of the students while lead l was seen to. *)
SeenTo(l, docs, docs1, ls) ==
    /\ DOMAIN docs \subseteq DOMAIN docs1
    /\ \A j \in DOMAIN docs :
          docs1[j] = docs[j] \/ (docs1[j].lead = l /\ docs1[j].email = docs[j].email
                                 /\ docs[j].lead \notin AtTheStage(ls) \ {l})
    /\ \A j \in DOMAIN docs1 \ DOMAIN docs : docs1[j].lead = l
    /\ IsAStudent(l, docs1, ls)
    /\ \A j \in DOMAIN docs1 : docs1[j].lead = l => InItsBatch(docs1[j], ls)

(* And of those in hand by their address. *)
KeepsUp(f, g, docs, docs1, ls) ==
    /\ DOMAIN f \cup (DOMAIN docs1 \ DOMAIN docs) \subseteq DOMAIN g
    /\ SameLeads(g, docs1)
    /\ \A i \in DOMAIN g : g[i].lead \in AtTheStage(ls) \/ g[i] = docs1[i]

LEMMA SeenToKnows ==
    ASSUME NEW s \in Looping, NEW t \in Looping, NEW l \in s.todo, NEW docs, NEW docs1, NEW ls,
           s.todo \subseteq AtTheStage(ls),
           KnowsLeads(s, ls), KnowsEnrolled(s, docs, ls), InTheLoop(s, docs, ls),
           t.atStage = s.atStage, t.roster = s.roster, t.enrolled = s.enrolled, t.todo = s.todo \ {l},
           SeenTo(l, docs, docs1, ls), KeepsUp(s.byEmail, t.byEmail, docs, docs1, ls)
    PROVE  Knows(GoOn(t), docs1, ls)
<1>1. ASSUME NEW j \in DOMAIN docs1, docs1[j].lead # l
      PROVE  j \in DOMAIN docs /\ docs1[j] = docs[j]
    BY <1>1 DEF SeenTo
<1>2. ASSUME NEW j \in DOMAIN docs, docs[j].lead \in AtTheStage(ls) \ {l}
      PROVE  j \in DOMAIN docs1 /\ docs1[j] = docs[j]
    BY <1>2 DEF SeenTo
<1>a. l \in AtTheStage(ls)
    OBVIOUS
<1>3. KnowsLeads(t, ls)
    BY DEF KnowsLeads
<1>4. KnowsEnrolled(t, docs1, ls)
    <2>1. ASSUME NEW i \in DOMAIN s.enrolled
          PROVE  i \in DOMAIN docs1 /\ docs1[i].lead = s.enrolled[i].lead /\ s.enrolled[i].lead \in AtTheStage(ls)
        <3>1. i \in DOMAIN docs /\ docs[i].lead = s.enrolled[i].lead /\ s.enrolled[i].lead \in AtTheStage(ls)
            BY <2>1 DEF KnowsEnrolled, SameLeads
        <3> QED BY <3>1, <1>2 DEF SeenTo
    <2> QED BY <2>1 DEF KnowsEnrolled, SameLeads
<1>5. Has(t, t.todo, docs1)
    BY <1>1 DEF InTheLoop, Has
<1>6. KnowsAddresses(t, docs1, ls)
    <2>1. ASSUME NEW k \in t.todo, NEW i \in DOMAIN docs1, ls[k].email # None, docs1[i].email = ls[k].email,
                 \A j \in DOMAIN docs1 : docs1[j].lead # k
          PROVE  i \in DOMAIN t.byEmail
        <3>1. CASE i \notin DOMAIN docs
            BY <2>1, <3>1 DEF KeepsUp
        <3>2. CASE i \in DOMAIN docs
            <4>1. k \in s.todo /\ k # l /\ k \in AtTheStage(ls)
                BY <2>1
            <4>2. \A j \in DOMAIN docs : docs[j].lead # k
                BY <2>1, <4>1, <1>2
            <4>3. docs[i].email = ls[k].email
                BY <2>1, <3>2 DEF SeenTo
            <4>4. i \in DOMAIN s.byEmail
                BY <2>1, <3>2, <4>1, <4>2, <4>3 DEF InTheLoop, KnowsAddresses
            <4> QED BY <4>4 DEF KeepsUp
        <3> QED BY <3>1, <3>2
    <2> QED BY <2>1 DEF KnowsAddresses, KeepsUp
<1>7. Enrolled(AtTheStage(ls) \ t.todo, docs1, ls)
    <2>1. ASSUME NEW k \in AtTheStage(ls) \ t.todo PROVE IsAStudent(k, docs1, ls)
        <3>1. CASE k = l
            BY <3>1 DEF SeenTo
        <3>2. CASE k # l
            <4>1. k \in AtTheStage(ls) \ s.todo
                BY <2>1, <3>2
            <4>2. PICK i \in DOMAIN docs :
                      \/ docs[i].lead = k
                      \/ ls[k].email # None /\ docs[i].email = ls[k].email /\ docs[i].lead \in AtTheStage(ls)
                BY <4>1 DEF InTheLoop, Enrolled, IsAStudent
            <4>3. i \in DOMAIN docs1
                BY DEF SeenTo
            <4>4. CASE docs[i].lead = k
                BY <4>4, <3>2, <4>1, <4>3, <1>2 DEF IsAStudent
            <4>5. CASE ls[k].email # None /\ docs[i].email = ls[k].email /\ docs[i].lead \in AtTheStage(ls)
                <5>1. docs1[i].email = ls[k].email /\ docs1[i].lead \in AtTheStage(ls)
                    BY <4>5 DEF SeenTo
                <5> QED BY <4>3, <4>5, <5>1 DEF IsAStudent
            <4> QED BY <4>2, <4>4, <4>5
        <3> QED BY <3>1, <3>2
    <2>2. ASSUME NEW i \in DOMAIN docs1, docs1[i].lead \in AtTheStage(ls) \ t.todo PROVE InItsBatch(docs1[i], ls)
        <3>1. CASE docs1[i].lead = l
            BY <3>1 DEF SeenTo
        <3>2. CASE docs1[i].lead # l
            BY <2>2, <3>2, <1>1 DEF InTheLoop, Enrolled
        <3> QED BY <3>1, <3>2
    <2> QED BY <2>1, <2>2 DEF Enrolled
<1> QED BY <1>3, <1>4, <1>5, <1>6, <1>7, LoopKnows DEF InTheLoop

-----------------------------------------------------------------------------
(* The steps of a sync. *)

(* Where a save leaves the sync and the students. *)
LEMMA SaveLeaves ==
    ASSUME IInv, NEW p \in Processes, NEW i, NEW read, NEW doc, NEW state, Save(p, i, read, doc, state)
    PROVE  \/ doc = read /\ students' = students /\ syncs'[p] = state
           \/ students' = students /\ syncs'[p] = Idle
           \/ doc # read /\ students' = [students EXCEPT ![i] = doc] /\ syncs'[p] = state
<1>1. DOMAIN syncs = Processes /\ \A ps : DOMAIN Disturbed(ps) = Processes
    BY DEF IInv, Disturbed
<1> QED BY <1>1 DEF Save, Went, Wrote

(* The sync is in the loop, and was left alone. *)
LEMMA LoopFacts ==
    ASSUME IInv, Undisturbed, NEW p \in Processes, InLoop(p), syncs[p].alone
    PROVE  LET s == syncs[p]
               l == NextLead(p)
           IN  /\ s \in Looping /\ l \in s.todo /\ l \in AtTheStage(leads) /\ l # None /\ leads[l] \in LeadDocs
               /\ s.todo \subseteq AtTheStage(leads) /\ AtStage(p) = AtTheStage(leads) /\ s.roster[l] = leads[l]
               /\ KnowsLeads(s, leads) /\ KnowsEnrolled(s, students, leads) /\ InTheLoop(s, students, leads)
               /\ s.enrolled \in Copies /\ s.byEmail \in Copies
               /\ AllFit(s.enrolled, students, batches) /\ AllFit(s.byEmail, students, batches)
<1> DEFINE s == syncs[p]
           l == NextLead(p)
<1>1. s \in Looping /\ s.at = "leads" /\ Held(s, students, batches)
    BY Kinds DEF IInv, InLoop
<1>2. NextLead(p) = Min(s.todo) /\ AtStage(p) = s.atStage
    BY DEF NextLead, AtStage
<1>3. Knows(s, students, leads)
    BY <1>1 DEF Undisturbed, Clear
<1>4. s.enrolled \in Copies /\ s.byEmail \in Copies /\ AllFit(s.enrolled, students, batches) /\ AllFit(s.byEmail, students, batches)
    BY AtALead
<1> HIDE DEF s
<1>5. KnowsLeads(s, leads) /\ KnowsEnrolled(s, students, leads) /\ InTheLoop(s, students, leads)
    BY <1>1, <1>3 DEF Knows
<1>6. s.todo \in SUBSET Leads /\ s.todo # {} /\ s.todo \subseteq s.atStage
    BY <1>1 DEF Looping, Held
<1>7. l \in s.todo
    BY <1>2, <1>6, Least, LeadsAssumption
<1>8. s.todo \subseteq AtTheStage(leads) /\ s.atStage = AtTheStage(leads) /\ s.roster[l] = leads[l]
    BY <1>5, <1>6, <1>7 DEF KnowsLeads
<1>9. l \in Leads /\ leads[l] # None
    BY <1>7, <1>8 DEF AtTheStage
<1>10. leads[l] \in LeadDocs /\ l # None
    BY <1>9, NoneAssumption DEF IInv
<1> QED BY <1>1, <1>2, <1>4, <1>5, <1>7, <1>8, <1>10 DEF s

(* The loop goes on to the next lead. *)
LEMMA DoneKnows ==
    ASSUME IInv, Undisturbed, NEW p \in Processes, InLoop(p), syncs[p].alone, NEW f \in Copies, NEW docs1,
           SeenTo(NextLead(p), students, docs1, leads), KeepsUp(syncs[p].byEmail, f, students, docs1, leads)
    PROVE  Knows(OneLeadDone(p, f), docs1, leads)
<1> DEFINE s == syncs[p]
           l == NextLead(p)
           t == [s EXCEPT !.todo = @ \ {l}, !.byEmail = f]
<1>1. /\ s \in Looping /\ l \in s.todo /\ s.todo \subseteq AtTheStage(leads)
      /\ KnowsLeads(s, leads) /\ KnowsEnrolled(s, students, leads) /\ InTheLoop(s, students, leads)
    BY LoopFacts
<1>2. OneLeadDone(p, f) = GoOn(t)
    BY DEF OneLeadDone
<1>3. SeenTo(l, students, docs1, leads) /\ KeepsUp(s.byEmail, f, students, docs1, leads)
    OBVIOUS
<1> HIDE DEF s, l
<1>4. /\ t \in Looping /\ t.atStage = s.atStage /\ t.roster = s.roster /\ t.enrolled = s.enrolled
      /\ t.byEmail = f /\ t.todo = s.todo \ {l}
    BY <1>1 DEF Looping
<1> HIDE DEF t
<1> QED BY <1>1, <1>2, <1>3, <1>4, SeenToKnows

LEMMA KeptBatch ==
    ASSUME NEW doc \in StudentDocs, NEW l \in Leads, NEW label \in Labels
    PROVE  LET kept == KeptCurrent(doc, l, label)
           IN  /\ kept \in StudentDocs /\ kept.lead = l /\ kept.email = doc.email
               /\ kept.batch = label /\ ~kept.left
               /\ doc.lead = l /\ doc.batch = label /\ ~doc.left /\ ~doc.deleted => kept = doc
BY DEF KeptCurrent, StudentDocs, Status

(* The one student of a lead that is enrolled. *)
LEMMA EnrolledStudent ==
    ASSUME IInv, Undisturbed, NEW p \in Processes, InLoop(p), syncs[p].alone, NEW i \in EnrolledFor(p, NextLead(p))
    PROVE  /\ i \in DOMAIN students /\ syncs[p].enrolled[i] = students[i] /\ students[i].lead = NextLead(p)
           /\ students[i] \in StudentDocs
           /\ \A j \in DOMAIN students : students[j].lead = NextLead(p) => j = i
<1>1. i \in DOMAIN syncs[p].enrolled /\ syncs[p].enrolled[i].lead = NextLead(p)
    BY DEF EnrolledFor
<1>2. i \in DOMAIN students /\ students[i].lead = NextLead(p)
    BY <1>1, LoopFacts DEF KnowsEnrolled, SameLeads
<1>3. syncs[p].enrolled[i] = students[i]
    BY <1>2, LoopFacts DEF InTheLoop, Has
<1>4. \A j \in DOMAIN students : students[j].lead = NextLead(p) => j = i
    BY <1>2, LoopFacts DEF IInv, OneEach
<1>5. students[i] \in StudentDocs
    BY <1>2 DEF IInv, Records
<1> QED BY <1>2, <1>3, <1>4, <1>5

LEMMA KeepEnrolledKnows ==
    ASSUME IInv, Undisturbed, NEW p \in Processes, KeepEnrolled(p), syncs[p].alone
    PROVE  Clear(syncs'[p], students', leads) /\ (settled => students' = students)
<1> DEFINE l == NextLead(p)
           label == syncs[p].roster[l].label
           f == syncs[p].byEmail
           state == OneLeadDone(p, f)
<1>1. InLoop(p)
    BY DEF KeepEnrolled
<1>2. PICK i \in EnrolledFor(p, l) :
          Save(p, i, syncs[p].enrolled[i],
               IF syncs[p].enrolled[i].deleted THEN syncs[p].enrolled[i] ELSE KeptCurrent(syncs[p].enrolled[i], l, label), state)
    BY DEF KeepEnrolled
<1> DEFINE read == students[i]
           doc == IF read.deleted THEN read ELSE KeptCurrent(read, l, label)
<1>3. /\ i \in DOMAIN students /\ syncs[p].enrolled[i] = read /\ read.lead = l /\ read \in StudentDocs
      /\ \A j \in DOMAIN students : students[j].lead = l => j = i
    BY <1>1, EnrolledStudent
<1>4. /\ l \in AtTheStage(leads) /\ l \in Leads /\ label = leads[l].label /\ label \in Labels
      /\ f \in Copies /\ KnowsAddresses(syncs[p], students, leads)
    BY <1>1, LoopFacts DEF InTheLoop, AtTheStage, LeadDocs
<1>5. Save(p, i, read, doc, state)
    BY <1>2, <1>3
<1>6. /\ doc.lead = l /\ doc.email = read.email /\ InItsBatch(doc, leads)
      /\ InItsBatch(read, leads) => doc = read
    <2> HIDE DEF l, label, f, read
    <2> DEFINE kept == KeptCurrent(read, l, label)
    <2>1. /\ kept.lead = l /\ kept.email = read.email /\ kept.batch = label /\ ~kept.left
          /\ read.batch = label /\ ~read.left /\ ~read.deleted => kept = read
        BY <1>3, <1>4, KeptBatch
    <2> HIDE DEF kept
    <2>2. doc = IF read.deleted THEN read ELSE kept
        BY DEF kept
    <2> HIDE DEF doc
    <2> QED BY <1>3, <1>4, <2>1, <2>2 DEF InItsBatch
<1>7. ASSUME NEW docs1, \/ docs1 = students /\ doc = read
                        \/ docs1 = [students EXCEPT ![i] = doc]
      PROVE  Knows(state, docs1, leads)
    <2> HIDE DEF l, label, doc, read, f, state
    <2>1. /\ DOMAIN docs1 = DOMAIN students /\ docs1[i] = doc
          /\ \A j \in DOMAIN students \ {i} : docs1[j] = students[j]
        BY <1>3, <1>7 DEF read
    <2>2. SeenTo(l, students, docs1, leads)
        <3>1. IsAStudent(l, docs1, leads)
            BY <1>3, <1>6, <2>1 DEF IsAStudent
        <3> QED BY <1>3, <1>6, <2>1, <3>1 DEF SeenTo, read
    <2>3. KeepsUp(f, f, students, docs1, leads)
        BY <1>3, <1>4, <1>6, <2>1 DEF KeepsUp, KnowsAddresses, SameLeads, f, read
    <2> QED BY <1>1, <1>4, <2>2, <2>3, DoneKnows DEF l, f, state
<1>8. settled => doc = read
    <2>1. settled => InItsBatch(read, leads)
        BY <1>3, <1>4 DEF Undisturbed, InLine, Enrolled
    <2> QED BY <1>6, <2>1
<1> HIDE DEF l, label, doc, read, f, state
<1> QED BY <1>5, <1>7, <1>8, SaveLeaves DEF Clear, Idle

(* Nobody is at the address of a lead that is a student already, but its   *)
(* own students.                                                           *)
LEMMA NotYetAStudent ==
    ASSUME IInv, Undisturbed, NEW p \in Processes, InLoop(p), syncs[p].alone, EnrolledFor(p, NextLead(p)) = {}
    PROVE  /\ \A j \in DOMAIN students : students[j].lead # NextLead(p)
           /\ AddressOf(p, NextLead(p)) = leads[NextLead(p)].email
           /\ \A i \in DOMAIN students :
                 leads[NextLead(p)].email # None /\ students[i].email = leads[NextLead(p)].email
                     => i \in OtherFor(p, NextLead(p))
           /\ \A i \in OtherFor(p, NextLead(p)) :
                 /\ i \in DOMAIN syncs[p].byEmail /\ i \in DOMAIN students
                 /\ syncs[p].byEmail[i].lead = students[i].lead
                 /\ syncs[p].byEmail[i].email = students[i].email
                 /\ leads[NextLead(p)].email # None /\ students[i].email = leads[NextLead(p)].email
                 /\ syncs[p].byEmail[i].lead \in AtTheStage(leads) \/ syncs[p].byEmail[i] = students[i]
                 /\ students[i] \in StudentDocs /\ syncs[p].byEmail[i] \in StudentDocs
<1> DEFINE l == NextLead(p)
           s == syncs[p]
<1>1. /\ l \in s.todo /\ s.roster[l] = leads[l] /\ InTheLoop(s, students, leads)
      /\ s.byEmail \in Copies /\ AllFit(s.byEmail, students, batches)
    BY LoopFacts
<1>2. \A j \in DOMAIN students : students[j].lead # l
    BY <1>1 DEF InTheLoop, Has, EnrolledFor
<1>3. AddressOf(p, l) = leads[l].email
    BY <1>1 DEF AddressOf
<1>4. OtherFor(p, l) = {i \in DOMAIN s.byEmail : leads[l].email # None /\ s.byEmail[i].email = leads[l].email}
    BY <1>3 DEF OtherFor
<1> HIDE DEF l, s
<1>5. \A i \in DOMAIN s.byEmail : /\ i \in DOMAIN students /\ s.byEmail[i].lead = students[i].lead
                                  /\ s.byEmail[i].email = students[i].email
                                  /\ s.byEmail[i].lead \in AtTheStage(leads) \/ s.byEmail[i] = students[i]
    BY <1>1 DEF InTheLoop, KnowsAddresses, SameLeads, AllFit, Fits
<1>6. ASSUME NEW i \in DOMAIN students, leads[l].email # None, students[i].email = leads[l].email
      PROVE  i \in OtherFor(p, l)
    <2>1. i \in DOMAIN s.byEmail
        BY <1>1, <1>2, <1>6 DEF InTheLoop, KnowsAddresses
    <2> QED BY <1>4, <1>5, <1>6, <2>1
<1>7. \A i \in DOMAIN s.byEmail : s.byEmail[i] \in StudentDocs
    BY <1>1, CopyFields
<1>8. \A i \in DOMAIN students : students[i] \in StudentDocs
    BY DEF IInv, Records
<1>9. ASSUME NEW i \in OtherFor(p, l)
      PROVE  /\ i \in DOMAIN s.byEmail /\ i \in DOMAIN students
             /\ s.byEmail[i].lead = students[i].lead
             /\ s.byEmail[i].email = students[i].email
             /\ leads[l].email # None /\ students[i].email = leads[l].email
             /\ s.byEmail[i].lead \in AtTheStage(leads) \/ s.byEmail[i] = students[i]
             /\ students[i] \in StudentDocs /\ s.byEmail[i] \in StudentDocs
    <2>1. i \in DOMAIN s.byEmail /\ leads[l].email # None /\ s.byEmail[i].email = leads[l].email
        BY <1>4
    <2> QED BY <2>1, <1>5, <1>7, <1>8
<1> QED BY <1>2, <1>3, <1>6, <1>9 DEF l, s

(* In line, a lead with no student of its own has its person's, who is of  *)
(* another lead at the stage.                                              *)
LEMMA PersonIsAStudent ==
    ASSUME IInv, Undisturbed, NEW p \in Processes, InLoop(p), syncs[p].alone, EnrolledFor(p, NextLead(p)) = {}, settled
    PROVE  /\ OtherFor(p, NextLead(p)) # {}
           /\ \A i \in OtherFor(p, NextLead(p)) : syncs[p].byEmail[i].lead \in AtTheStage(leads)
<1> DEFINE l == NextLead(p)
<1>1. IsAStudent(l, students, leads)
    BY LoopFacts DEF Undisturbed, InLine, Enrolled
<1>2. PICK k \in DOMAIN students : leads[l].email # None /\ students[k].email = leads[l].email /\ students[k].lead \in AtTheStage(leads)
    BY <1>1, NotYetAStudent DEF IsAStudent
<1>3. k \in OtherFor(p, l)
    BY <1>2, NotYetAStudent
<1>4. ASSUME NEW i \in OtherFor(p, l) PROVE syncs[p].byEmail[i].lead \in AtTheStage(leads)
    <2>1. i \in DOMAIN students /\ students[i].email = leads[l].email /\ syncs[p].byEmail[i].lead = students[i].lead
        BY <1>4, NotYetAStudent
    <2>2. i = k
        BY <1>2, <2>1 DEF IInv, OneEach
    <2> QED BY <1>2, <2>1, <2>2
<1> QED BY <1>3, <1>4

LEMMA TakeUpKnows ==
    ASSUME IInv, Undisturbed, NEW p \in Processes, TakeUp(p), syncs[p].alone
    PROVE  Clear(syncs'[p], students', leads) /\ (settled => students' = students)
<1> DEFINE l == NextLead(p)
           label == syncs[p].roster[l].label
           f == syncs[p].byEmail
<1>1. InLoop(p) /\ EnrolledFor(p, l) = {}
    BY DEF TakeUp
<1>2. PICK i \in OtherFor(p, l) :
          IF f[i].lead \in AtStage(p) THEN Went(p, OneLeadDone(p, f))
          ELSE Save(p, i, f[i], KeptCurrent(f[i], l, label), OneLeadDone(p, [f EXCEPT ![i] = KeptCurrent(f[i], l, label)]))
    BY DEF TakeUp
<1>3. /\ l \in AtTheStage(leads) /\ l \in Leads /\ AtStage(p) = AtTheStage(leads) /\ label = leads[l].label /\ label \in Labels
      /\ f \in Copies /\ KnowsAddresses(syncs[p], students, leads)
    BY <1>1, LoopFacts DEF InTheLoop, AtTheStage, LeadDocs
<1>4. /\ i \in DOMAIN f /\ i \in DOMAIN students /\ f[i].lead = students[i].lead /\ f[i].email = students[i].email
      /\ leads[l].email # None /\ students[i].email = leads[l].email
      /\ f[i].lead \in AtTheStage(leads) \/ f[i] = students[i]
      /\ f[i] \in StudentDocs
      /\ \A j \in DOMAIN students : students[j].lead # l
    BY <1>1, NotYetAStudent
<1>5. settled => f[i].lead \in AtTheStage(leads)
    BY <1>1, PersonIsAStudent
<1> HIDE DEF l, label, f
<1>6. CASE f[i].lead \in AtStage(p)
    <2>1. Went(p, OneLeadDone(p, f))
        BY <1>2, <1>6
    <2>2. SeenTo(l, students, students, leads)
        <3>1. IsAStudent(l, students, leads)
            BY <1>3, <1>4, <1>6 DEF IsAStudent
        <3> QED BY <1>4, <3>1 DEF SeenTo
    <2>3. KeepsUp(f, f, students, students, leads)
        BY <1>3 DEF KeepsUp, KnowsAddresses, f
    <2>4. Knows(OneLeadDone(p, f), students, leads)
        BY <1>1, <1>3, <2>2, <2>3, DoneKnows DEF l, f
    <2> QED BY <2>1, <2>4 DEF Went, Clear, IInv
<1>7. CASE f[i].lead \notin AtStage(p)
    <2> DEFINE kept == KeptCurrent(f[i], l, label)
               g == [f EXCEPT ![i] = kept]
               docs1 == [students EXCEPT ![i] = kept]
    <2>1. Save(p, i, f[i], kept, OneLeadDone(p, g))
        BY <1>2, <1>7
    <2>2. kept \in StudentDocs /\ kept.lead = l /\ kept.email = f[i].email /\ kept.batch = leads[l].label /\ ~kept.left
        BY <1>3, <1>4, KeptBatch
    <2> HIDE DEF kept
    <2>3. kept # f[i] /\ ~settled
        BY <1>3, <1>5, <1>7, <2>2
    <2>4. /\ DOMAIN docs1 = DOMAIN students /\ docs1[i] = kept
          /\ \A j \in DOMAIN students \ {i} : docs1[j] = students[j]
        BY <1>4
    <2>5. g \in Copies /\ DOMAIN g = DOMAIN f /\ \A j \in DOMAIN f : g[j] = IF j = i THEN kept ELSE f[j]
        BY <1>3, <1>4, <2>2, CopyFields
    <2>6. Save(p, i, f[i], kept, OneLeadDone(p, g))
        BY <2>1
    <2> HIDE DEF g, docs1
    <2>7. SeenTo(l, students, docs1, leads)
        <3>1. IsAStudent(l, docs1, leads)
            BY <1>4, <2>2, <2>4 DEF IsAStudent
        <3>2. InItsBatch(kept, leads)
            BY <2>2 DEF InItsBatch
        <3> QED BY <1>3, <1>4, <1>7, <2>2, <2>4, <3>1, <3>2 DEF SeenTo
    <2>8. KeepsUp(f, g, students, docs1, leads)
        <3>1. SameLeads(g, docs1)
            BY <1>3, <1>4, <2>4, <2>5 DEF KnowsAddresses, SameLeads, f
        <3>2. \A j \in DOMAIN g : g[j].lead \in AtTheStage(leads) \/ g[j] = docs1[j]
            BY <1>3, <1>4, <2>4, <2>5 DEF KnowsAddresses, SameLeads, f
        <3> QED BY <2>4, <2>5, <3>1, <3>2 DEF KeepsUp
    <2>9. Knows(OneLeadDone(p, g), docs1, leads)
        BY <1>1, <1>3, <2>5, <2>7, <2>8, DoneKnows DEF l, f
    <2> QED BY <2>3, <2>6, <2>9, SaveLeaves DEF Clear, Idle, docs1
<1> QED BY <1>6, <1>7

LEMMA EnrolKnows ==
    ASSUME IInv, Undisturbed, NEW p \in Processes, Enrol(p), syncs[p].alone
    PROVE  Clear(syncs'[p], students', leads) /\ (settled => students' = students)
<1> DEFINE l == NextLead(p)
           f == syncs[p].byEmail
           new == [email |-> AddressOf(p, l), lead |-> l, batch |-> syncs[p].roster[l].label, status |-> "active",
                   left |-> FALSE, deleted |-> FALSE, by |-> "portal"]
           id == Len(students) + 1
           g == [i \in DOMAIN f \cup {id} |-> IF i = id THEN new ELSE f[i]]
<1>1. InLoop(p) /\ EnrolledFor(p, l) = {} /\ OtherFor(p, l) = {}
    BY DEF Enrol
<1>2. IF LeadTaken(l, 0) \/ EmailTaken(AddressOf(p, l)) THEN Went(p, OneLeadDone(p, f))
      ELSE students' = Append(students, new) /\ Wrote(p, OneLeadDone(p, g))
    BY DEF Enrol
<1>3. /\ l \in AtTheStage(leads) /\ l # None /\ syncs[p].roster[l] = leads[l] /\ leads[l] \in LeadDocs
      /\ f \in Copies /\ KnowsAddresses(syncs[p], students, leads)
    BY <1>1, LoopFacts DEF InTheLoop
<1>4. ~settled
    BY <1>1, PersonIsAStudent
<1>5. ~LeadTaken(l, 0) /\ ~EmailTaken(AddressOf(p, l)) /\ AddressOf(p, l) = leads[l].email
      /\ \A j \in DOMAIN students : students[j].lead # l
    <2>1. /\ \A j \in DOMAIN students : students[j].lead # l
          /\ AddressOf(p, l) = leads[l].email
          /\ \A i \in DOMAIN students : ~(leads[l].email # None /\ students[i].email = leads[l].email)
        BY <1>1, NotYetAStudent
    <2> QED BY <2>1 DEF LeadTaken, EmailTaken
<1>6. new \in StudentDocs /\ new.lead = l /\ new.batch = leads[l].label /\ ~new.left /\ ~new.deleted
    <2>1. l \in Leads
        BY <1>3 DEF AtTheStage
    <2> QED BY <1>3, <1>5, <2>1 DEF StudentDocs, Status, LeadDocs
<1> HIDE DEF l, f, new
<1> DEFINE docs1 == Append(students, new)
<1>7. /\ DOMAIN docs1 = DOMAIN students \cup {id} /\ id \notin DOMAIN students /\ id \in Nat
      /\ docs1[id] = new /\ \A j \in DOMAIN students : docs1[j] = students[j]
    <2>1. students \in Seq(StudentDocs) /\ Len(students) \in Nat /\ DOMAIN students = 1..Len(students)
        BY DEF IInv, Records
    <2> QED BY <2>1
<1>8. students' = docs1 /\ syncs'[p] = OneLeadDone(p, g)
    <2>1. \A ps : DOMAIN Disturbed(ps) = Processes
        BY DEF Disturbed
    <2> QED BY <1>2, <1>5, <2>1 DEF Wrote
<1> HIDE DEF docs1, id
<1>9. /\ g \in Copies /\ DOMAIN g = DOMAIN f \cup {id}
      /\ \A j \in DOMAIN g : g[j] = IF j = id THEN new ELSE f[j]
    <2>1. \A doc \in StudentDocs, n \in Nat : [j \in DOMAIN f \cup {n} |-> IF j = n THEN doc ELSE f[j]] \in Copies
        BY <1>3, CopyFields
    <2> QED BY <1>6, <1>7, <2>1
<1> HIDE DEF g
<1>10. SeenTo(l, students, docs1, leads)
    <2>1. IsAStudent(l, docs1, leads)
        BY <1>6, <1>7 DEF IsAStudent
    <2>2. InItsBatch(new, leads)
        BY <1>6 DEF InItsBatch
    <2> QED BY <1>5, <1>6, <1>7, <2>1, <2>2 DEF SeenTo
<1>11. KeepsUp(f, g, students, docs1, leads)
    <2>1. \A j \in DOMAIN f : j \in DOMAIN students /\ students[j].lead = f[j].lead
                              /\ (f[j].lead \in AtTheStage(leads) \/ f[j] = students[j])
        BY <1>3 DEF KnowsAddresses, SameLeads, f
    <2> QED BY <1>7, <1>9, <2>1 DEF KeepsUp, SameLeads
<1>12. Knows(OneLeadDone(p, g), docs1, leads)
    BY <1>1, <1>9, <1>10, <1>11, DoneKnows DEF l, f
<1> QED BY <1>4, <1>8, <1>12 DEF Clear

LEMMA ReadsKnow ==
    ASSUME IInv, Undisturbed, NEW p \in Processes, StartSync(p) \/ ReadEnrolled(p) \/ ReadByEmail(p)
    PROVE  Clear(syncs'[p], students, leads)
<1>1. CASE StartSync(p)
    <2> DEFINE S == {l \in Leads : leads[l] # None}
               roster == [l \in S |-> leads[l]]
               state == [at |-> "enrolled", alone |-> TRUE, atStage |-> DOMAIN roster, roster |-> roster]
    <2>1. syncs' = [syncs EXCEPT ![p] = state]
        BY <1>1 DEF StartSync
    <2>2. state.at = "enrolled" /\ state.atStage = S /\ \A l \in S : state.roster[l] = leads[l]
        OBVIOUS
    <2> HIDE DEF state, roster
    <2>3. Knows(state, students, leads)
        BY <2>2 DEF Knows, KnowsLeads, AtTheStage
    <2> QED BY <2>1, <2>3 DEF Clear, IInv
<1>2. CASE ReadEnrolled(p)
    <2> DEFINE s == syncs[p]
               S == {i \in DOMAIN students : students[i].lead \in AtStage(p)}
               f == [i \in S |-> students[i]]
               state == [at |-> "by_email", alone |-> s.alone, atStage |-> s.atStage, roster |-> s.roster, enrolled |-> f]
    <2>1. s.at = "enrolled" /\ syncs' = [syncs EXCEPT ![p] = state] /\ AtStage(p) = s.atStage
        BY <1>2 DEF ReadEnrolled, AtStage
    <2>2. s.alone => KnowsLeads(s, leads)
        BY <2>1 DEF Undisturbed, Clear, Knows
    <2>3. /\ state.at = "by_email" /\ state.alone = s.alone /\ state.atStage = s.atStage /\ state.roster = s.roster
          /\ state.enrolled = f
        OBVIOUS
    <2>4. DOMAIN f = S /\ \A i \in S : f[i] = students[i]
        OBVIOUS
    <2> HIDE DEF state, f
    <2>5. ASSUME s.alone PROVE Knows(state, students, leads)
        <3>1. KnowsLeads(state, leads)
            BY <2>2, <2>3, <2>5 DEF KnowsLeads
        <3>2. \A i \in DOMAIN students : students[i].lead \in AtTheStage(leads) <=> i \in S
            BY <2>1, <2>2, <2>5 DEF KnowsLeads
        <3>3. KnowsEnrolled(state, students, leads) /\ Has(state, AtTheStage(leads), students)
            BY <2>3, <2>4, <3>2 DEF KnowsEnrolled, SameLeads, Has
        <3> QED BY <2>3, <3>1, <3>3 DEF Knows
    <2> QED BY <2>1, <2>3, <2>5 DEF Clear, IInv
<1>3. CASE ReadByEmail(p)
    <2> DEFINE s == syncs[p]
               addresses == {AddressOf(p, l) : l \in {l \in AtStage(p) : EnrolledFor(p, l) = {}}} \ {None}
               S == {i \in DOMAIN students : students[i].email \in addresses}
               f == [i \in S |-> students[i]]
               t == [at |-> "leads", alone |-> s.alone, atStage |-> s.atStage, roster |-> s.roster,
                     enrolled |-> s.enrolled, byEmail |-> f, todo |-> s.atStage]
    <2>1. s.at = "by_email" /\ syncs' = [syncs EXCEPT ![p] = GoOn(t)]
        BY <1>3 DEF ReadByEmail
    <2>2. s \in ByAddress
        BY <2>1, Kinds DEF IInv
    <2>3. s.alone => KnowsLeads(s, leads) /\ KnowsEnrolled(s, students, leads) /\ Has(s, AtTheStage(leads), students)
        BY <2>1 DEF Undisturbed, Clear, Knows
    <2>4. f \in Copies
        BY StudentCopies
    <2>5. DOMAIN f = S /\ \A i \in S : f[i] = students[i]
        OBVIOUS
    <2>6. ASSUME NEW l \in AtTheStage(leads), NEW i \in DOMAIN students, s.alone,
                 leads[l].email # None, students[i].email = leads[l].email, \A j \in DOMAIN students : students[j].lead # l
          PROVE  i \in S
        <3>1. AtStage(p) = AtTheStage(leads) /\ AddressOf(p, l) = leads[l].email
            BY <2>3, <2>6 DEF KnowsLeads, AtStage, AddressOf
        <3>2. EnrolledFor(p, l) = {}
            BY <2>3, <2>6 DEF EnrolledFor, KnowsEnrolled, SameLeads
        <3>3. AddressOf(p, l) \in addresses
            BY <2>6, <3>1, <3>2
        <3> QED BY <2>6, <3>1, <3>3
    <2> HIDE DEF s, S, f
    <2>7. /\ t \in Looping /\ t.atStage = s.atStage /\ t.roster = s.roster /\ t.enrolled = s.enrolled /\ t.byEmail = f
          /\ t.todo = s.atStage /\ t.alone = s.alone
        BY <2>2, <2>4 DEF ByAddress, Looping
    <2>8. GoOn(t).alone = t.alone
        BY DEF GoOn
    <2> HIDE DEF t
    <2>9. ASSUME s.alone PROVE Knows(GoOn(t), students, leads)
        <3>1. KnowsLeads(t, leads) /\ KnowsEnrolled(t, students, leads) /\ t.todo = AtTheStage(leads)
            BY <2>3, <2>7, <2>9 DEF KnowsLeads, KnowsEnrolled
        <3>2. Has(t, t.todo, students)
            BY <2>3, <2>7, <2>9, <3>1 DEF Has
        <3>3. KnowsAddresses(t, students, leads)
            BY <2>5, <2>6, <2>7, <2>9, <3>1 DEF KnowsAddresses, SameLeads, S
        <3>4. Enrolled(AtTheStage(leads) \ t.todo, students, leads)
            BY <3>1 DEF Enrolled
        <3> QED BY <2>7, <3>1, <3>2, <3>3, <3>4, LoopKnows DEF InTheLoop
    <2> QED BY <2>1, <2>7, <2>8, <2>9 DEF Clear, IInv
<1> QED BY <1>1, <1>2, <1>3

LEMMA ReadLeaversKnows ==
    ASSUME IInv, Undisturbed, NEW p \in Processes, ReadLeavers(p)
    PROVE  Clear(syncs'[p], students, leads)
<1> DEFINE s == syncs[p]
           S == {i \in DOMAIN students : /\ students[i].lead \notin AtStage(p) \cup {None}
                                         /\ ~students[i].deleted
                                         /\ students[i].status \in {"active", "on_hold"}}
           f == [i \in S |-> students[i]]
           state == [at |-> "leavers", alone |-> s.alone, leavers |-> f]
<1>1. s.at = "looped" /\ syncs' = [syncs EXCEPT ![p] = state] /\ AtStage(p) = s.atStage
    BY DEF ReadLeavers, Went, AtStage
<1>2. s.alone => s.atStage = AtTheStage(leads) /\ Enrolled(AtTheStage(leads), students, leads)
    BY <1>1 DEF Undisturbed, Clear, Knows
<1>3. state.at = "leavers" /\ state.alone = s.alone /\ state.leavers = f /\ DOMAIN f = S /\ \A i \in S : f[i] = students[i]
    OBVIOUS
<1> HIDE DEF state, f
<1>4. ASSUME s.alone PROVE Knows(state, students, leads)
    <2>1. \A i \in DOMAIN students : Leaves(students[i], leads) <=> i \in S
        BY <1>1, <1>2, <1>4 DEF Leaves
    <2>2. KnowsLeavers(state, students, leads)
        BY <1>2, <1>3, <1>4, <2>1 DEF KnowsLeavers
    <2> QED BY <1>3, <2>2 DEF Knows
<1> QED BY <1>1, <1>3, <1>4 DEF Clear, IInv

(* Dropping who has left concerns no lead at the stage. *)
LEMMA DropLeaverKnows ==
    ASSUME IInv, Undisturbed, NEW p \in Processes, DropLeaver(p), syncs[p].alone
    PROVE  Clear(syncs'[p], students', leads) /\ ~settled
<1> DEFINE s == syncs[p]
           f == s.leavers
           Dropped(i) == [f[i] EXCEPT !.status = "dropped", !.left = TRUE, !.by = "portal"]
           Rest(i) == [j \in DOMAIN f \ {i} |-> f[j]]
           State(i) == [s EXCEPT !.leavers = Rest(i)]
<1>1. s.at = "leavers"
    BY DEF DropLeaver
<1>2. PICK i \in DOMAIN f : Save(p, i, f[i], Dropped(i), State(i))
    BY DEF DropLeaver
<1>3. s \in Leaving /\ f \in Copies
    BY <1>1, AtALeaver
<1>4. KnowsLeavers(s, students, leads)
    BY <1>1 DEF Undisturbed, Clear, Knows
<1>5. i \in DOMAIN students /\ f[i] = students[i] /\ Leaves(students[i], leads) /\ f[i] \in StudentDocs
    BY <1>3, <1>4, CopyFields DEF KnowsLeavers
<1>6. ~settled
    BY <1>5 DEF Undisturbed, InLine
<1> DEFINE doc == Dropped(i)
           state == State(i)
           docs1 == [students EXCEPT ![i] = doc]
<1>7. doc.status = "dropped" /\ doc.lead = students[i].lead /\ doc.email = students[i].email /\ doc # f[i]
    <2>1. doc.status = "dropped" /\ doc.lead = f[i].lead /\ doc.email = f[i].email
        BY <1>5 DEF StudentDocs
    <2> QED BY <1>5, <2>1 DEF Leaves
<1>8. /\ state.at = "leavers" /\ DOMAIN state.leavers = DOMAIN f \ {i}
      /\ \A j \in DOMAIN f \ {i} : state.leavers[j] = f[j]
    BY <1>3, <1>1 DEF Leaving
<1> HIDE DEF doc, state
<1>9. /\ DOMAIN docs1 = DOMAIN students /\ docs1[i] = doc
      /\ \A j \in DOMAIN students \ {i} : docs1[j] = students[j]
    BY <1>5
<1>10. Save(p, i, f[i], doc, state)
    BY <1>2 DEF doc, state
<1> HIDE DEF f, s, docs1
<1>11. Enrolled(AtTheStage(leads), docs1, leads)
    <2>1. doc.lead \notin AtTheStage(leads)
        BY <1>5, <1>7 DEF Leaves
    <2>2. ASSUME NEW l \in AtTheStage(leads) PROVE IsAStudent(l, docs1, leads)
        <3>1. PICK k \in DOMAIN students :
                  \/ students[k].lead = l
                  \/ leads[l].email # None /\ students[k].email = leads[l].email /\ students[k].lead \in AtTheStage(leads)
            BY <1>4 DEF KnowsLeavers, Enrolled, IsAStudent
        <3>2. k # i
            BY <1>7, <2>1, <3>1
        <3> QED BY <1>9, <3>1, <3>2 DEF IsAStudent
    <2>3. ASSUME NEW j \in DOMAIN docs1, docs1[j].lead \in AtTheStage(leads) PROVE InItsBatch(docs1[j], leads)
        <3>1. j # i
            BY <1>9, <2>1, <2>3
        <3> QED BY <1>4, <1>9, <2>3, <3>1 DEF KnowsLeavers, Enrolled
    <2> QED BY <2>2, <2>3 DEF Enrolled
<1>12. \A j \in DOMAIN docs1 : Leaves(docs1[j], leads) => j \in DOMAIN f \ {i}
    <2>1. ~Leaves(doc, leads)
        BY <1>7 DEF Leaves
    <2> QED BY <1>4, <1>9, <2>1 DEF KnowsLeavers, f
<1>13. \A j \in DOMAIN f \ {i} : j \in DOMAIN docs1 /\ f[j] = docs1[j] /\ Leaves(docs1[j], leads)
    BY <1>4, <1>9 DEF KnowsLeavers, f
<1>14. Knows(state, docs1, leads)
    BY <1>8, <1>11, <1>12, <1>13 DEF Knows, KnowsLeavers
<1> QED BY <1>6, <1>7, <1>10, <1>14, SaveLeaves DEF Clear, Idle, docs1

(* With nobody left to drop, the students are in line. *)
LEMMA EndInLine ==
    ASSUME IInv, Undisturbed, NEW p \in Processes, EndSync(p), syncs[p].alone
    PROVE  InLine(students, leads)
<1>1. KnowsLeavers(syncs[p], students, leads)
    BY DEF EndSync, Undisturbed, Clear, Knows
<1>2. DOMAIN syncs[p].leavers = {}
    BY DEF EndSync
<1> QED BY <1>1, <1>2 DEF KnowsLeavers, InLine

-----------------------------------------------------------------------------
(* The invariant: every step of a sync that was left alone keeps what it   *)
(* knows, and in line there is nothing for it to write.                    *)

LEMMA QuietInLine ==
    ASSUME IInv, Undisturbed, NEW p \in Processes, SyncStep(p), Running(p), syncs[p].alone
    PROVE  Clear(syncs'[p], students', leads) /\ (settled => students' = students)
<1>1. CASE KeepEnrolled(p) \/ TakeUp(p) \/ Enrol(p) \/ DropLeaver(p)
    BY <1>1, KeepEnrolledKnows, TakeUpKnows, EnrolKnows, DropLeaverKnows
<1>2. CASE ReadEnrolled(p) \/ ReadByEmail(p) \/ ReadLeavers(p)
    BY <1>2, ReadsKnow, ReadLeaversKnows DEF ReadEnrolled, ReadByEmail, ReadLeavers, Went
<1>3. CASE EndSync(p)
    BY <1>3 DEF EndSync, Clear, Idle, IInv
<1>4. ~StartSync(p)
    BY DEF StartSync
<1> QED BY <1>1, <1>2, <1>3, <1>4 DEF SyncStep

LEMMA DisturbedAlone ==
    ASSUME NEW s \in Syncs, s.at # "idle"
    PROVE  ~[s EXCEPT !.alone = FALSE].alone
<1>1. s # Idle
    BY DEF Idle
<1> QED BY <1>1 DEF Syncs, Reading, ByAddress, Looping, Looped, Leaving

(* A sync that writes disturbs the others, and one that was not left alone *)
(* leaves nothing settled.                                                 *)
LEMMA OnlyOneWrites ==
    ASSUME IInv, NEW p \in Processes, SyncStep(p) \/ Crash(p), students' # students
    PROVE  /\ \A q \in Processes \ {p} : syncs'[q].at = "idle" \/ ~syncs'[q].alone
           /\ settled' = (settled /\ syncs[p].alone)
<1>1. PICK state : Wrote(p, state)
    BY DEF SyncStep, StartSync, ReadEnrolled, ReadByEmail, KeepEnrolled, TakeUp, Enrol, ReadLeavers, DropLeaver, EndSync,
           Crash, Save, Went
<1>2. ASSUME NEW q \in Processes \ {p} PROVE syncs'[q].at = "idle" \/ ~syncs'[q].alone
    <2>1. syncs'[q] = IF Running(q) THEN [syncs[q] EXCEPT !.alone = FALSE] ELSE syncs[q]
        BY <1>1 DEF Wrote, Disturbed
    <2>2. Running(q) => ~[syncs[q] EXCEPT !.alone = FALSE].alone
        BY DisturbedAlone DEF IInv, Running
    <2> QED BY <2>1, <2>2 DEF Running
<1> QED BY <1>1, <1>2 DEF Wrote

(* A sync is left alone as long as it was. *)
LEMMA StaysAlone ==
    ASSUME IInv, NEW p \in Processes, SyncStep(p) \/ Crash(p), Running(p)
    PROVE  syncs'[p].at = "idle" \/ syncs'[p].alone = syncs[p].alone
<1>1. DOMAIN syncs = Processes /\ \A ps : DOMAIN Disturbed(ps) = Processes
    BY DEF IInv, Disturbed
<1>2. ASSUME NEW state, state.alone = syncs[p].alone,
             \/ syncs' = [syncs EXCEPT ![p] = state]
             \/ \E i, read, doc : Save(p, i, read, doc, state)
             \/ Wrote(p, state)
      PROVE  syncs'[p].at = "idle" \/ syncs'[p].alone = syncs[p].alone
    BY <1>1, <1>2 DEF Save, Went, Wrote, Idle
<1>3. \A s : GoOn(s).alone = s.alone
    BY DEF GoOn
<1>4. ASSUME InLoop(p), NEW f PROVE OneLeadDone(p, f).alone = syncs[p].alone
    <2>1. syncs[p] \in Looping
        BY <1>4, Kinds DEF IInv, InLoop
    <2>2. [syncs[p] EXCEPT !.todo = @ \ {NextLead(p)}, !.byEmail = f].alone = syncs[p].alone
        BY <2>1 DEF Looping
    <2> QED BY <1>3, <2>2 DEF OneLeadDone
<1>5. CASE ReadEnrolled(p)
    BY <1>2, <1>5 DEF ReadEnrolled
<1>6. CASE ReadByEmail(p)
    BY <1>2, <1>3, <1>6 DEF ReadByEmail
<1>7. CASE KeepEnrolled(p)
    BY <1>2, <1>4, <1>7 DEF KeepEnrolled
<1>8. CASE TakeUp(p)
    BY <1>2, <1>4, <1>8 DEF TakeUp, Went
<1>9. CASE Enrol(p)
    BY <1>2, <1>4, <1>9 DEF Enrol, Went
<1>10. CASE ReadLeavers(p)
    BY <1>2, <1>10 DEF ReadLeavers, Went
<1>11. CASE DropLeaver(p)
    <2>1. PICK i, doc, rest : Save(p, i, syncs[p].leavers[i], doc, [syncs[p] EXCEPT !.leavers = rest])
        BY <1>11 DEF DropLeaver
    <2>2. syncs[p] \in Leaving
        BY <1>11, AtALeaver DEF DropLeaver
    <2>3. [syncs[p] EXCEPT !.leavers = rest].alone = syncs[p].alone
        BY <2>2 DEF Leaving
    <2> DEFINE state == [syncs[p] EXCEPT !.leavers = rest]
    <2>4. state.alone = syncs[p].alone /\ \E j, read, dropped : Save(p, j, read, dropped, state)
        BY <2>1, <2>3
    <2> HIDE DEF state
    <2> QED BY <1>2, <2>4
<1>12. CASE EndSync(p) \/ Crash(p)
    BY <1>1, <1>12 DEF EndSync, Crash, Went, Idle
<1> QED BY <1>5, <1>6, <1>7, <1>8, <1>9, <1>10, <1>11, <1>12 DEF SyncStep, StartSync

(* The other syncs are as they were, or disturbed. *)
LEMMA OthersAsTheyWere ==
    ASSUME IInv, NEW p \in Processes, SyncStep(p) \/ Crash(p), NEW q \in Processes \ {p}
    PROVE  syncs'[q] = syncs[q] \/ syncs'[q].at = "idle" \/ ~syncs'[q].alone
<1>1. \/ \E state : syncs' = [syncs EXCEPT ![p] = state]
      \/ \E state : Wrote(p, state)
    BY DEF SyncStep, StartSync, ReadEnrolled, ReadByEmail, KeepEnrolled, TakeUp, Enrol, ReadLeavers, DropLeaver, EndSync,
           Crash, Save, Went
<1>2. ASSUME NEW state, Wrote(p, state) PROVE syncs'[q].at = "idle" \/ ~syncs'[q].alone
    <2>1. syncs'[q] = IF Running(q) THEN [syncs[q] EXCEPT !.alone = FALSE] ELSE syncs[q]
        BY <1>2 DEF Wrote, Disturbed
    <2>2. Running(q) => ~[syncs[q] EXCEPT !.alone = FALSE].alone
        BY DisturbedAlone DEF IInv, Running
    <2> QED BY <2>1, <2>2 DEF Running
<1>3. CASE \E state : syncs' = [syncs EXCEPT ![p] = state]
    BY <1>3 DEF IInv
<1> QED BY <1>1, <1>2, <1>3

LEMMA SyncKeeps ==
    ASSUME IInv, Undisturbed, NEW p \in Processes, SyncStep(p) \/ Crash(p)
    PROVE  Undisturbed'
<1>1. leads' = leads
    BY DEF SyncStep, StartSync, ReadEnrolled, ReadByEmail, KeepEnrolled, TakeUp, Enrol, ReadLeavers, DropLeaver, EndSync, Crash
<1>2. Running(p) \/ StartSync(p)
    BY DEF SyncStep, Crash, ReadEnrolled, ReadByEmail, KeepEnrolled, TakeUp, Enrol, ReadLeavers, DropLeaver, EndSync, Running, InLoop
<1>3. CASE StartSync(p)
    <2>1. students' = students /\ settled' = settled
        BY <1>3 DEF StartSync
    <2>2. \A q \in Processes : Clear(syncs'[q], students, leads)
        BY <1>3, ReadsKnow DEF StartSync, Undisturbed, IInv
    <2> QED BY <1>1, <2>1, <2>2 DEF Undisturbed
<1>4. CASE Running(p) /\ ~StartSync(p)
    <2>1. Clear(syncs'[p], students', leads)
        <3>1. CASE Crash(p)
            BY <3>1 DEF Crash, Went, Clear, Idle, IInv
        <3>2. CASE SyncStep(p) /\ syncs[p].alone
            BY <3>2, <1>4, QuietInLine
        <3>3. CASE ~syncs[p].alone
            BY <3>3, <1>4, StaysAlone DEF Clear
        <3> QED BY <3>1, <3>2, <3>3
    <2>2. ASSUME NEW q \in Processes \ {p} PROVE Clear(syncs'[q], students', leads)
        <3>1. CASE students' = students
            BY <3>1, OthersAsTheyWere DEF Undisturbed, Clear
        <3>2. CASE students' # students
            BY <3>2, OnlyOneWrites DEF Clear
        <3> QED BY <3>1, <3>2
    <2>3. settled' => InLine(students', leads)
        <3>1. CASE students' # students
            <4>1. settled' = (settled /\ syncs[p].alone)
                BY <3>1, OnlyOneWrites
            <4>2. SyncStep(p)
                BY <3>1 DEF Crash, Went
            <4> QED BY <1>4, <3>1, <4>1, <4>2, QuietInLine
        <3>2. CASE students' = students /\ EndSync(p)
            <4>1. settled' = (settled \/ syncs[p].alone)
                BY <3>2 DEF EndSync
            <4>2. syncs[p].alone => InLine(students, leads)
                BY <3>2, EndInLine
            <4> QED BY <3>2, <4>1, <4>2 DEF Undisturbed
        <3>3. CASE students' = students /\ ~EndSync(p)
            <4>1. settled' => settled
                BY <1>4, <3>3 DEF SyncStep, ReadEnrolled, ReadByEmail, KeepEnrolled, TakeUp, Enrol, ReadLeavers, DropLeaver,
                              Crash, Save, Went, Wrote
            <4> QED BY <3>3, <4>1 DEF Undisturbed
        <3> QED BY <3>1, <3>2, <3>3
    <2> QED BY <1>1, <2>1, <2>2, <2>3 DEF Undisturbed
<1> QED BY <1>2, <1>3, <1>4

LEMMA UndisturbedInductive == IInv /\ Undisturbed /\ [Next]_vars => Undisturbed'
<1> SUFFICES ASSUME IInv, Undisturbed, [Next]_vars PROVE Undisturbed'
    OBVIOUS
<1>1. ASSUME NEW p \in Processes, SyncStep(p) \/ Crash(p) PROVE Undisturbed'
    BY <1>1, SyncKeeps
<1>2. ASSUME Change PROVE Undisturbed'
    <2>1. ASSUME NEW q \in Processes PROVE syncs'[q].at = "idle" \/ ~syncs'[q].alone
        <3>1. syncs'[q] = IF Running(q) THEN [syncs[q] EXCEPT !.alone = FALSE] ELSE syncs[q]
            BY <1>2 DEF Change, Disturbed
        <3>2. Running(q) => ~[syncs[q] EXCEPT !.alone = FALSE].alone
            BY DisturbedAlone DEF IInv, Running
        <3> QED BY <3>1, <3>2 DEF Running
    <2>2. settled' = FALSE
        BY <1>2 DEF Change
    <2> QED BY <2>1, <2>2 DEF Undisturbed, Clear
<1>3. CASE UNCHANGED <<leads, students, syncs, settled>>
    BY <1>3 DEF Undisturbed
<1> QED BY <1>1, <1>2, <1>3 DEF Next, LeadMoves, StaffCreates, StaffReads, StaffSaves, StaffGivesUp, vars

LEMMA UndisturbedAtFirst == Init => Undisturbed
BY DEF Init, Undisturbed, Clear, Idle

(* When a sync that nobody interfered with has ended, and until anybody    *)
(* changes a lead or a student: every lead at the stage is a student, its  *)
(* own or its person's, in the batch it is shown in, and who left is       *)
(* dropped unless completed (student_enrollment_service.py:3-7).           *)
THEOREM SyncBringsInLine == Spec => []InLineWithLeads
<1>1. IInv /\ Undisturbed => InLineWithLeads
    <2> SUFFICES ASSUME IInv, Undisturbed, settled PROVE InLineWithLeads
        BY DEF InLineWithLeads
    <2>1. Enrolled(AtTheStage(leads), students, leads) /\ \A i \in DOMAIN students : ~Leaves(students[i], leads)
        BY DEF Undisturbed, InLine
    <2>2. \A i \in DOMAIN students : students[i].status \in Status
        <3>1. \A i \in DOMAIN students : students[i] \in StudentDocs
            BY DEF IInv, Records
        <3> QED BY <3>1 DEF StudentDocs
    <2>3. \A l \in AtTheStage(leads) : IsAStudent(l, students, leads)
        BY <2>1 DEF Enrolled
    <2>4. ASSUME NEW i \in DOMAIN students, ~students[i].deleted
          PROVE  IF students[i].lead \in AtTheStage(leads)
                 THEN students[i].batch = leads[students[i].lead].label /\ ~students[i].left
                 ELSE students[i].lead = None \/ students[i].status \in {"dropped", "completed"}
        BY <2>1, <2>2, <2>4 DEF Enrolled, InItsBatch, Leaves, Status
    <2> QED BY <2>3, <2>4 DEF InLineWithLeads, IsAStudent, AtTheStage
<1> QED BY <1>1, Started, Inductive, UndisturbedAtFirst, UndisturbedInductive, PTL DEF Spec

(* And then a sync has nothing to write, so opening the portal again and   *)
(* again neither drops and takes back anybody nor moves a student between  *)
(* a person's two leads.                                                   *)
THEOREM SyncingAgainWritesNothing == Spec => SyncedOnceIsEnough
<1>1. IInv /\ Undisturbed /\ [Next]_vars =>
        [\A p \in Processes : settled /\ Running(p) /\ syncs[p].alone => students' = students \/ ~SyncStep(p)]_vars
    BY QuietInLine
<1> QED BY <1>1, Started, Inductive, UndisturbedAtFirst, UndisturbedInductive, PTL DEF Spec, SyncedOnceIsEnough
=============================================================================
