--------------------------- MODULE InductionProofs --------------------------
(***************************************************************************)
(* A student on the induction board, the foundation board and the boards   *)
(* of who attended: first the link between an entry and the lead it became *)
(* (InductionLink), for any number of requests in progress; then what is   *)
(* marked of an entry (AttendanceBoard).                                   *)
(*                                                                         *)
(* Of the link, first what holds wherever requests overlap or stop: an     *)
(* entry that has left the Induction board left for a lead that was        *)
(* created.  Documents are saved whole, as a request read them earlier, so *)
(* what the database holds is only as good as what the requests hold.  The *)
(* invariant therefore speaks of both: every link, in a stored document or *)
(* in a held one, is to a document that exists (Sound); and documents are  *)
(* only ever added.                                                        *)
(*                                                                         *)
(* Then what holds between requests that do not: the two directions of the *)
(* link agree, and a pair moves together.  Half-way through a request they *)
(* need not.  What is invariant is that they will, once the request has    *)
(* written the other half of what it has begun (LeadsToBe, EntriesToBe,    *)
(* ApartToBe): every step either leaves what is to be as it is, or brings  *)
(* about the change the operation is for.                                  *)
(***************************************************************************)
EXTENDS InductionLink, AttendanceBoard, SequenceTheorems, TLAPS

(* The places where a request holds a lead's document, where it knows the  *)
(* lead's id, and where it holds an entry with its id.                     *)
LeadKnown == {"link_new", "late_match", "link_late", "save_merge", "save_lead", "save_lead_move", "read_entry",
              "save_far_lead", "save_deleted_lead", "release"}
LeadHeld == (LeadKnown \ {"release"}) \cup {"find_entry", "insert_lead"}
EntryHeld == {"link_new", "link_late", "save_entry", "save_entry_move", "read_lead", "save_far_entry"}

LeadReal(doc, es) == doc.entry # None => doc.entry \in es
EntryReal(doc, ls) == doc.lead # None => doc.lead \in ls

(* What request state s holds exists, ls and es being the ids in use. *)
Sound(s, ls, es) ==
    /\ s \in RequestStates
    /\ s.at \in LeadKnown => s.lead \in ls
    /\ s.at \in LeadHeld => s.leadDoc \in LeadDocs /\ LeadReal(s.leadDoc, es)
    /\ s.at = "find_entry" => s.entry = None
    /\ s.at = "read_entry" => s.leadDoc.entry # None
    /\ s.at = "read_lead" => s.entryDoc.lead # None
    /\ s.at \in EntryHeld \/ (s.at = "insert_lead" /\ s.entry # None) =>
          s.entry \in es /\ s.entryDoc \in EntryDocs /\ EntryReal(s.entryDoc, ls)

LeadsSound == \A l \in DOMAIN leads : LeadReal(leads[l], DOMAIN entries)

IInv ==
    /\ TypeOK
    /\ PointsAtARealLead
    /\ LeadsSound
    /\ \A r \in Requests : Sound(requests[r], DOMAIN leads, DOMAIN entries)

-----------------------------------------------------------------------------
(* Facts about the documents. *)

LEMMA DocTypes ==
    ASSUME TypeOK
    PROVE  /\ Len(leads) \in Nat /\ DOMAIN leads = 1..Len(leads)
           /\ Len(entries) \in Nat /\ DOMAIN entries = 1..Len(entries)
           /\ DOMAIN leads \subseteq LeadIds /\ DOMAIN entries \subseteq EntryIds
           /\ \A l \in DOMAIN leads : leads[l] \in LeadDocs
           /\ \A e \in DOMAIN entries : entries[e] \in EntryDocs
BY BoundsAssumption, LenProperties, ElementOfSeq DEF TypeOK, LeadIds, EntryIds

LEMMA NothingIsSound == \A ls, es : Sound(Nothing, ls, es)
BY DEF Sound, Nothing, RequestStates, Places, LeadKnown, LeadHeld, EntryHeld

(* What is sound stays sound when documents are added. *)
LEMMA SoundStays ==
    ASSUME NEW s, NEW ls, NEW es, NEW ls2, NEW es2, Sound(s, ls, es), ls \subseteq ls2, es \subseteq es2
    PROVE  Sound(s, ls2, es2)
BY DEF Sound, LeadReal, EntryReal

-----------------------------------------------------------------------------
(* What every step has in common. *)

(* Request r comes to a sound state, and the documents are sound. *)
LEMMA StepKeeps ==
    ASSUME IInv, NEW r \in Requests, NEW state,
           requests' = [requests EXCEPT ![r] = state],
           disturbed' \in BOOLEAN, edits' \in 0..MaxEdits, apart' \subseteq LeadIds,
           leads' \in Seq(LeadDocs), Len(leads') <= MaxLeads,
           entries' \in Seq(EntryDocs), Len(entries') <= MaxEntries,
           DOMAIN leads \subseteq DOMAIN leads', DOMAIN entries \subseteq DOMAIN entries',
           \A l \in DOMAIN leads' : LeadReal(leads'[l], DOMAIN entries'),
           \A e \in DOMAIN entries' : EntryReal(entries'[e], DOMAIN leads'),
           Sound(state, DOMAIN leads', DOMAIN entries')
    PROVE  IInv'
<1>1. requests \in [Requests -> RequestStates]
    BY DEF IInv, TypeOK
<1>2. state \in RequestStates
    BY DEF Sound
<1>3. TypeOK'
    BY <1>1, <1>2 DEF TypeOK
<1>4. \A q \in Requests : Sound(requests'[q], DOMAIN leads', DOMAIN entries')
    <2>1. TAKE q \in Requests
    <2>2. CASE q = r
        BY <1>1, <2>2
    <2>3. CASE q # r
        BY <1>1, <2>3, SoundStays DEF IInv
    <2> QED BY <2>2, <2>3
<1>5. PointsAtARealLead'
    BY DEF PointsAtARealLead, EntryReal
<1> QED BY <1>3, <1>4, <1>5 DEF IInv, LeadsSound

(* A step that only reads. *)
LEMMA ReadKeeps ==
    ASSUME IInv, NEW r \in Requests, NEW state, Goto(r, state), UNCHANGED <<leads, entries>>,
           edits' \in 0..MaxEdits, apart' \subseteq LeadIds,
           Sound(state, DOMAIN leads, DOMAIN entries)
    PROVE  IInv'
<1>1. disturbed' \in BOOLEAN /\ requests' = [requests EXCEPT ![r] = state]
    BY DEF Goto, IInv, TypeOK
<1>2. /\ leads' \in Seq(LeadDocs) /\ Len(leads') <= MaxLeads
      /\ entries' \in Seq(EntryDocs) /\ Len(entries') <= MaxEntries
    BY DEF IInv, TypeOK
<1>3. /\ \A l \in DOMAIN leads' : LeadReal(leads'[l], DOMAIN entries')
      /\ \A e \in DOMAIN entries' : EntryReal(entries'[e], DOMAIN leads')
    BY DEF IInv, LeadsSound, PointsAtARealLead, EntryReal
<1> QED BY <1>1, <1>2, <1>3, StepKeeps

(* A step that saves leads, one for one. *)
LEMMA LeadsSavedKeeps ==
    ASSUME IInv, NEW r \in Requests, NEW state, Goto(r, state), UNCHANGED entries,
           edits' \in 0..MaxEdits, apart' \subseteq LeadIds,
           leads' \in [DOMAIN leads -> LeadDocs],
           \A l \in DOMAIN leads : LeadReal(leads'[l], DOMAIN entries),
           Sound(state, DOMAIN leads, DOMAIN entries)
    PROVE  IInv'
<1>1. disturbed' \in BOOLEAN /\ requests' = [requests EXCEPT ![r] = state]
    BY DEF Goto, IInv, TypeOK
<1>2. Len(leads) \in Nat /\ DOMAIN leads = 1..Len(leads)
    BY DocTypes DEF IInv
<1>3. leads' \in Seq(LeadDocs) /\ Len(leads') = Len(leads) /\ DOMAIN leads' = DOMAIN leads
    BY <1>2, LenProperties, SeqDef
<1>4. Len(leads') <= MaxLeads /\ entries' \in Seq(EntryDocs) /\ Len(entries') <= MaxEntries
    BY <1>3 DEF IInv, TypeOK
<1>5. /\ \A l \in DOMAIN leads' : LeadReal(leads'[l], DOMAIN entries')
      /\ \A e \in DOMAIN entries' : EntryReal(entries'[e], DOMAIN leads')
    BY <1>3 DEF IInv, PointsAtARealLead, EntryReal
<1> QED BY <1>1, <1>3, <1>4, <1>5, StepKeeps

(* A step that saves entries, one for one. *)
LEMMA EntriesSavedKeeps ==
    ASSUME IInv, NEW r \in Requests, NEW state, Goto(r, state), UNCHANGED leads,
           edits' \in 0..MaxEdits, apart' \subseteq LeadIds,
           entries' \in [DOMAIN entries -> EntryDocs],
           \A e \in DOMAIN entries : EntryReal(entries'[e], DOMAIN leads),
           Sound(state, DOMAIN leads, DOMAIN entries)
    PROVE  IInv'
<1>1. disturbed' \in BOOLEAN /\ requests' = [requests EXCEPT ![r] = state]
    BY DEF Goto, IInv, TypeOK
<1>2. Len(entries) \in Nat /\ DOMAIN entries = 1..Len(entries)
    BY DocTypes DEF IInv
<1>3. entries' \in Seq(EntryDocs) /\ Len(entries') = Len(entries) /\ DOMAIN entries' = DOMAIN entries
    BY <1>2, LenProperties, SeqDef
<1>4. Len(entries') <= MaxEntries /\ leads' \in Seq(LeadDocs) /\ Len(leads') <= MaxLeads
    BY <1>3 DEF IInv, TypeOK
<1>5. /\ \A l \in DOMAIN leads' : LeadReal(leads'[l], DOMAIN entries')
      /\ \A e \in DOMAIN entries' : EntryReal(entries'[e], DOMAIN leads')
    BY <1>3 DEF IInv, LeadsSound
<1> QED BY <1>1, <1>3, <1>4, <1>5, StepKeeps

(* Saving the document a request holds. *)
LEMMA HeldLeadSaved ==
    ASSUME IInv, NEW r \in Requests, requests[r].at \in LeadHeld \cap LeadKnown, SaveHeldLead(r)
    PROVE  /\ leads' \in [DOMAIN leads -> LeadDocs]
           /\ \A l \in DOMAIN leads : LeadReal(leads'[l], DOMAIN entries)
<1>1. leads \in [DOMAIN leads -> LeadDocs]
    BY DocTypes, LenProperties DEF IInv, TypeOK
<1>2. /\ requests[r].leadDoc \in LeadDocs
      /\ LeadReal(requests[r].leadDoc, DOMAIN entries)
    BY DEF IInv, Sound
<1> QED BY <1>1, <1>2 DEF SaveHeldLead, IInv, LeadsSound

LEMMA HeldEntrySaved ==
    ASSUME IInv, NEW r \in Requests, requests[r].at \in EntryHeld, SaveHeldEntry(r)
    PROVE  /\ entries' \in [DOMAIN entries -> EntryDocs]
           /\ \A e \in DOMAIN entries : EntryReal(entries'[e], DOMAIN leads)
<1>1. entries \in [DOMAIN entries -> EntryDocs]
    BY DocTypes, LenProperties DEF IInv, TypeOK
<1>2. /\ requests[r].entryDoc \in EntryDocs
      /\ EntryReal(requests[r].entryDoc, DOMAIN leads)
    BY DEF IInv, Sound
<1> QED BY <1>1, <1>2 DEF SaveHeldEntry, IInv, PointsAtARealLead, EntryReal

-----------------------------------------------------------------------------
(* The requests, one operation at a time. *)

LEMMA SubmitBeginKeeps ==
    ASSUME IInv, NEW r \in Requests, NEW n \in MaybeNumber, SubmitBegin(r, n)
    PROVE  IInv'
<1>1. UNCHANGED <<leads, entries>> /\ edits' \in 0..MaxEdits /\ apart' \subseteq LeadIds
    BY DEF SubmitBegin, IInv, TypeOK
<1>2. CASE LeadsWith(n) = {}
    <2> DEFINE state == [Nothing EXCEPT !.at = "find_entry", !.leadDoc = Submitted(n)]
    <2>1. Goto(r, state)
        BY <1>2 DEF SubmitBegin
    <2>2. Submitted(n) \in LeadDocs /\ Submitted(n).entry = None
        BY DEF Submitted, LeadDocs, MaybeGroup
    <2>3. Sound(state, DOMAIN leads, DOMAIN entries)
        BY <2>2 DEF Sound, Nothing, RequestStates, Places, LeadKnown, LeadHeld, EntryHeld, LeadReal
    <2> QED BY <1>1, <2>1, <2>3, ReadKeeps
<1>3. CASE LeadsWith(n) # {}
    <2>1. PICK l \in NewestOf(LeadsWith(n)) :
              Goto(r, [Nothing EXCEPT !.at = IF leads[l].entry = None THEN "late_match" ELSE "save_merge",
                                      !.lead = l, !.leadDoc = leads[l]])
        BY <1>3 DEF SubmitBegin
    <2> DEFINE state == [Nothing EXCEPT !.at = IF leads[l].entry = None THEN "late_match" ELSE "save_merge",
                                        !.lead = l, !.leadDoc = leads[l]]
    <2>2. l \in DOMAIN leads
        BY DEF NewestOf, LeadsWith
    <2>3. leads[l] \in LeadDocs /\ LeadReal(leads[l], DOMAIN entries) /\ l \in LeadIds
        BY <2>2, DocTypes DEF IInv, LeadsSound
    <2>4. Sound(state, DOMAIN leads, DOMAIN entries)
        BY <2>2, <2>3 DEF Sound, Nothing, RequestStates, Places, LeadKnown, LeadHeld, EntryHeld, LeadReal
    <2> QED BY <1>1, <2>1, <2>4, ReadKeeps
<1> QED BY <1>2, <1>3

(* The lead a request holds, matched with entry e. *)
LEMMA MatchedKeeps ==
    ASSUME IInv, NEW r \in Requests, NEW e \in Unconverted(requests[r].leadDoc.number), NEW place,
           \/ requests[r].at = "find_entry" /\ place = "insert_lead"
           \/ requests[r].at = "late_match" /\ place = "link_late",
           Matched(r, e, place), UNCHANGED <<leads, entries, edits, apart>>
    PROVE  IInv'
<1> DEFINE doc == Inherits(requests[r].leadDoc, e, entries[e])
           state == [requests[r] EXCEPT !.at = place, !.leadDoc = doc, !.entry = e, !.entryDoc = entries[e]]
<1>1. Goto(r, state)
    BY DEF Matched
<1>2. /\ e \in DOMAIN entries /\ e \in EntryIds
      /\ entries[e] \in EntryDocs /\ EntryReal(entries[e], DOMAIN leads)
    BY DocTypes DEF Unconverted, IInv, PointsAtARealLead, EntryReal
<1>3. /\ Sound(requests[r], DOMAIN leads, DOMAIN entries)
      /\ requests[r].leadDoc \in LeadDocs
    BY DEF IInv, Sound, LeadHeld, LeadKnown
<1>4. doc \in LeadDocs /\ LeadReal(doc, DOMAIN entries)
    BY <1>2, <1>3 DEF Inherits, LeadDocs, EntryDocs, LeadReal
<1>5. place = "link_late" => requests[r].lead \in DOMAIN leads
    BY <1>3 DEF Sound, LeadKnown
<1>6. Sound(state, DOMAIN leads, DOMAIN entries)
    BY <1>2, <1>3, <1>4, <1>5 DEF Sound, RequestStates, Places, LeadKnown, LeadHeld, EntryHeld
<1> HIDE DEF state
<1> QED BY <1>1, <1>6, ReadKeeps DEF IInv, TypeOK

LEMMA FindEntryKeeps ==
    ASSUME IInv, NEW r \in Requests, FindEntry(r)
    PROVE  IInv'
<1>1. UNCHANGED <<leads, entries, edits, apart>> /\ requests[r].at = "find_entry"
    BY DEF FindEntry
<1>2. CASE Unconverted(requests[r].leadDoc.number) = {}
    <2>1. Goto(r, [requests[r] EXCEPT !.at = "insert_lead"])
        BY <1>2 DEF FindEntry, On
    <2>2. requests[r].entry = None
        BY <1>1 DEF IInv, Sound
    <2>3. Sound([requests[r] EXCEPT !.at = "insert_lead"], DOMAIN leads, DOMAIN entries)
        BY <1>1, <2>2 DEF IInv, Sound, RequestStates, Places, LeadKnown, LeadHeld, EntryHeld
    <2> QED BY <1>1, <2>1, <2>3, ReadKeeps DEF IInv, TypeOK
<1>3. CASE Unconverted(requests[r].leadDoc.number) # {}
    <2>1. PICK e \in Unconverted(requests[r].leadDoc.number) : Matched(r, e, "insert_lead")
        BY <1>3 DEF FindEntry
    <2> QED BY <1>1, <2>1, MatchedKeeps
<1> QED BY <1>2, <1>3

(* A document added at the end. *)
LEMMA LeadAddedKeeps ==
    ASSUME IInv, NEW r \in Requests, NEW state, Goto(r, state), UNCHANGED <<entries, edits, apart>>,
           NEW doc \in LeadDocs, LeadReal(doc, DOMAIN entries),
           Len(leads) < MaxLeads, leads' = Append(leads, doc),
           Sound(state, 1..(Len(leads) + 1), DOMAIN entries)
    PROVE  IInv'
<1>1. /\ Len(leads) \in Nat /\ DOMAIN leads = 1..Len(leads) /\ leads \in Seq(LeadDocs)
      /\ MaxLeads \in Nat
    BY DocTypes, BoundsAssumption DEF IInv, TypeOK
<1>2. /\ leads' \in Seq(LeadDocs) /\ Len(leads') = Len(leads) + 1
      /\ DOMAIN leads' = 1..(Len(leads) + 1)
      /\ leads'[Len(leads) + 1] = doc
      /\ \A l \in DOMAIN leads : leads'[l] = leads[l]
    BY <1>1, AppendProperties
<1>3. \A l \in DOMAIN leads' : LeadReal(leads'[l], DOMAIN entries')
    BY <1>1, <1>2 DEF IInv, LeadsSound
<1>4. \A e \in DOMAIN entries' : EntryReal(entries'[e], DOMAIN leads')
    BY <1>1, <1>2 DEF IInv, PointsAtARealLead, EntryReal
<1>5. disturbed' \in BOOLEAN /\ requests' = [requests EXCEPT ![r] = state]
    BY DEF Goto, IInv, TypeOK
<1>6. /\ Len(leads') <= MaxLeads
      /\ entries' \in Seq(EntryDocs) /\ Len(entries') <= MaxEntries
      /\ edits' \in 0..MaxEdits /\ apart' \subseteq LeadIds
      /\ DOMAIN leads \subseteq DOMAIN leads'
    BY <1>1, <1>2 DEF IInv, TypeOK
<1>7. Sound(state, DOMAIN leads', DOMAIN entries')
    BY <1>2
<1> QED BY <1>2, <1>3, <1>4, <1>5, <1>6, <1>7, StepKeeps

LEMMA EntryAddedKeeps ==
    ASSUME IInv, NEW r \in Requests, End(r), UNCHANGED <<leads, edits, apart>>,
           NEW doc \in EntryDocs, doc.lead = None,
           Len(entries) < MaxEntries, entries' = Append(entries, doc)
    PROVE  IInv'
<1>1. /\ Len(entries) \in Nat /\ DOMAIN entries = 1..Len(entries) /\ entries \in Seq(EntryDocs)
      /\ MaxEntries \in Nat
    BY DocTypes, BoundsAssumption DEF IInv, TypeOK
<1>2. /\ entries' \in Seq(EntryDocs) /\ Len(entries') = Len(entries) + 1
      /\ DOMAIN entries' = 1..(Len(entries) + 1)
      /\ entries'[Len(entries) + 1] = doc
      /\ \A e \in DOMAIN entries : entries'[e] = entries[e]
    BY <1>1, AppendProperties
<1>3. \A l \in DOMAIN leads' : LeadReal(leads'[l], DOMAIN entries')
    BY <1>1, <1>2 DEF IInv, LeadsSound, LeadReal
<1>4. \A e \in DOMAIN entries' : EntryReal(entries'[e], DOMAIN leads')
    BY <1>1, <1>2 DEF IInv, PointsAtARealLead, EntryReal
<1>5. disturbed' \in BOOLEAN /\ requests' = [requests EXCEPT ![r] = Nothing]
    BY DEF End, Goto, IInv, TypeOK
<1>6. /\ Len(entries') <= MaxEntries
      /\ leads' \in Seq(LeadDocs) /\ Len(leads') <= MaxLeads
      /\ edits' \in 0..MaxEdits /\ apart' \subseteq LeadIds
      /\ DOMAIN entries \subseteq DOMAIN entries'
    BY <1>1, <1>2 DEF IInv, TypeOK
<1> QED BY <1>2, <1>3, <1>4, <1>5, <1>6, NothingIsSound, StepKeeps

LEMMA InsertLeadKeeps ==
    ASSUME IInv, NEW r \in Requests, InsertLead(r)
    PROVE  IInv'
<1> DEFINE l == Len(leads) + 1
           linking == [requests[r] EXCEPT !.at = "link_new", !.lead = l, !.entryDoc.lead = l]
<1>1. /\ requests[r].at = "insert_lead"
      /\ Len(leads) < MaxLeads /\ leads' = Append(leads, requests[r].leadDoc)
      /\ UNCHANGED <<entries, edits, apart>>
    BY DEF InsertLead
<1>2. Sound(requests[r], DOMAIN leads, DOMAIN entries)
    BY DEF IInv
<1>3. requests[r].leadDoc \in LeadDocs /\ LeadReal(requests[r].leadDoc, DOMAIN entries)
    BY <1>1, <1>2 DEF Sound, LeadHeld
<1>4. CASE requests[r].entry = None
    <2>1. Goto(r, Nothing)
        BY <1>4 DEF InsertLead, End
    <2> QED BY <1>1, <1>3, <2>1, NothingIsSound, LeadAddedKeeps
<1>5. CASE requests[r].entry # None
    <2>1. Goto(r, linking)
        BY <1>5 DEF InsertLead
    <2>2. /\ requests[r].entry \in DOMAIN entries
          /\ requests[r].entryDoc \in EntryDocs
        BY <1>1, <1>2, <1>5 DEF Sound
    <2>3. l \in LeadIds /\ l \in 1..l
        BY <1>1, DocTypes, BoundsAssumption DEF IInv, LeadIds
    <2>4. /\ [requests[r].entryDoc EXCEPT !.lead = l] \in EntryDocs
          /\ EntryReal([requests[r].entryDoc EXCEPT !.lead = l], 1..l)
        BY <2>2, <2>3 DEF EntryDocs, EntryReal
    <2>5. Sound(linking, 1..l, DOMAIN entries)
        <3>1. linking \in RequestStates
            BY <1>2, <2>3, <2>4 DEF Sound, RequestStates, Places
        <3>2. /\ linking.at = "link_new" /\ linking.lead = l
              /\ linking.leadDoc = requests[r].leadDoc
              /\ linking.entry = requests[r].entry
              /\ linking.entryDoc = [requests[r].entryDoc EXCEPT !.lead = l]
            BY <1>2 DEF Sound, RequestStates
        <3> HIDE DEF linking
        <3> QED BY <1>3, <2>2, <2>3, <2>4, <3>1, <3>2 DEF Sound
    <2> HIDE DEF linking
    <2> QED BY <1>1, <1>3, <2>1, <2>5, LeadAddedKeeps
<1> QED BY <1>4, <1>5

LEMMA CreateKeeps ==
    ASSUME IInv, NEW r \in Requests, Create(r)
    PROVE  IInv'
<1>1. PICK n \in MaybeNumber, g \in MaybeGroup : CreateLead(r, n, g) \/ CreateEntry(r, n, g)
    BY DEF Create
<1>2. CASE CreateLead(r, n, g)
    <2> DEFINE doc == [deleted |-> FALSE, number |-> n, entry |-> None, group |-> g]
    <2>1. doc \in LeadDocs /\ LeadReal(doc, DOMAIN entries)
        BY DEF LeadDocs, LeadReal
    <2> QED BY <1>2, <2>1, NothingIsSound, LeadAddedKeeps DEF CreateLead, End
<1>3. CASE CreateEntry(r, n, g)
    <2> DEFINE doc == [deleted |-> FALSE, number |-> n, lead |-> None, group |-> g]
    <2>1. doc \in EntryDocs /\ doc.lead = None
        BY DEF EntryDocs
    <2> QED BY <1>3, <2>1, EntryAddedKeeps DEF CreateEntry
<1> QED BY <1>1, <1>2, <1>3

LEMMA SubmitKeeps ==
    ASSUME IInv, NEW r \in Requests, Submit(r)
    PROVE  IInv'
<1>0. /\ Sound(requests[r], DOMAIN leads, DOMAIN entries)
      /\ edits \in 0..MaxEdits /\ apart \subseteq LeadIds
    BY DEF IInv, TypeOK
<1>1. ASSUME NEW n \in MaybeNumber, SubmitBegin(r, n) PROVE IInv'
    BY <1>1, SubmitBeginKeeps
<1>2. CASE LinkNew(r)
    <2>1. requests[r].at \in EntryHeld /\ SaveHeldEntry(r) /\ Goto(r, Nothing)
        BY <1>2 DEF LinkNew, EntryHeld, End
    <2> QED BY <1>0, <1>2, <2>1, HeldEntrySaved, NothingIsSound, EntriesSavedKeeps DEF LinkNew
<1>3. CASE LateMatch(r)
    <2>1. UNCHANGED <<leads, entries, edits, apart>> /\ requests[r].at = "late_match"
        BY <1>3 DEF LateMatch
    <2>2. CASE Unconverted(requests[r].leadDoc.number) = {}
        <3>1. Goto(r, [requests[r] EXCEPT !.at = "save_merge"])
            BY <1>3, <2>2 DEF LateMatch, On
        <3>2. Sound([requests[r] EXCEPT !.at = "save_merge"], DOMAIN leads, DOMAIN entries)
            BY <1>0, <2>1 DEF Sound, RequestStates, Places, LeadKnown, LeadHeld, EntryHeld
        <3> QED BY <1>0, <2>1, <3>1, <3>2, ReadKeeps
    <2>3. CASE Unconverted(requests[r].leadDoc.number) # {}
        <3>1. PICK e \in Unconverted(requests[r].leadDoc.number) : Matched(r, e, "link_late")
            BY <1>3, <2>3 DEF LateMatch
        <3> QED BY <2>1, <3>1, MatchedKeeps
    <2> QED BY <2>2, <2>3
<1>4. CASE LinkLate(r)
    <2> DEFINE paired == [requests[r].entryDoc EXCEPT !.lead = requests[r].lead]
    <2>1. /\ requests[r].at = "link_late" /\ UNCHANGED leads
          /\ entries' = [entries EXCEPT ![requests[r].entry] = paired]
          /\ Goto(r, [requests[r] EXCEPT !.at = "save_merge"])
          /\ edits' = edits
          /\ apart' \in {apart, apart \cup {requests[r].lead}}
        BY <1>4 DEF LinkLate, On
    <2>2. /\ requests[r].lead \in DOMAIN leads /\ requests[r].lead \in LeadIds
          /\ requests[r].entryDoc \in EntryDocs
        BY <1>0, <2>1, DocTypes DEF IInv, Sound, LeadKnown, EntryHeld
    <2>3. paired \in EntryDocs /\ EntryReal(paired, DOMAIN leads)
        BY <2>2 DEF EntryDocs, EntryReal
    <2>4. entries \in [DOMAIN entries -> EntryDocs]
        BY DocTypes, LenProperties DEF IInv, TypeOK
    <2>5. /\ entries' \in [DOMAIN entries -> EntryDocs]
          /\ \A e \in DOMAIN entries : EntryReal(entries'[e], DOMAIN leads)
        BY <2>1, <2>3, <2>4 DEF IInv, PointsAtARealLead, EntryReal
    <2>6. Sound([requests[r] EXCEPT !.at = "save_merge"], DOMAIN leads, DOMAIN entries)
        BY <1>0, <2>1 DEF Sound, RequestStates, Places, LeadKnown, LeadHeld, EntryHeld
    <2>7. edits' \in 0..MaxEdits /\ apart' \subseteq LeadIds
        BY <1>0, <2>1, <2>2
    <2> QED BY <2>1, <2>5, <2>6, <2>7, EntriesSavedKeeps
<1>5. CASE SaveMerge(r)
    <2>1. requests[r].at \in LeadHeld \cap LeadKnown /\ SaveHeldLead(r) /\ Goto(r, Nothing)
        BY <1>5 DEF SaveMerge, LeadHeld, LeadKnown, End
    <2> QED BY <1>0, <1>5, <2>1, HeldLeadSaved, NothingIsSound, LeadsSavedKeeps DEF SaveMerge
<1> QED BY <1>1, <1>2, <1>3, <1>4, <1>5, FindEntryKeeps, InsertLeadKeeps DEF Submit

LEMMA EditLeadKeeps ==
    ASSUME IInv, NEW r \in Requests, EditLead(r)
    PROVE  IInv'
<1>0. /\ Sound(requests[r], DOMAIN leads, DOMAIN entries)
      /\ edits \in 0..MaxEdits /\ apart \subseteq LeadIds
    BY DEF IInv, TypeOK
<1>1. ASSUME NEW l \in LeadIds, EditLeadBegin(r, l) PROVE IInv'
    <2>1. PICK n \in MaybeNumber, g \in MaybeGroup :
              Goto(r, [Nothing EXCEPT !.at = IF g = leads[l].group THEN "save_lead" ELSE "save_lead_move",
                                      !.lead = l,
                                      !.leadDoc = [leads[l] EXCEPT !.number = n, !.group = g]])
        BY <1>1 DEF EditLeadBegin
    <2> DEFINE doc == [leads[l] EXCEPT !.number = n, !.group = g]
               state == [Nothing EXCEPT !.at = IF g = leads[l].group THEN "save_lead" ELSE "save_lead_move",
                                        !.lead = l, !.leadDoc = doc]
    <2>2. l \in DOMAIN leads /\ leads[l] \in LeadDocs /\ LeadReal(leads[l], DOMAIN entries)
        BY <1>1, DocTypes DEF EditLeadBegin, LiveLead, IInv, LeadsSound
    <2>3. doc \in LeadDocs /\ LeadReal(doc, DOMAIN entries)
        BY <2>2 DEF LeadDocs, LeadReal
    <2>4. Sound(state, DOMAIN leads, DOMAIN entries)
        BY <2>2, <2>3 DEF Sound, RequestStates, Places, LeadKnown, LeadHeld, EntryHeld, Nothing
    <2>5. UNCHANGED <<leads, entries>> /\ edits' \in 0..MaxEdits /\ apart' \subseteq LeadIds
        BY <1>0, <1>1, BoundsAssumption DEF EditLeadBegin
    <2> QED BY <2>1, <2>4, <2>5, ReadKeeps
<1>2. CASE SaveLead(r)
    <2>1. /\ requests[r].at \in {"save_lead", "save_lead_move"}
          /\ requests[r].at \in LeadHeld \cap LeadKnown /\ SaveHeldLead(r)
          /\ UNCHANGED <<entries, edits, apart>>
        BY <1>2 DEF SaveLead, LeadHeld, LeadKnown
    <2>2. CASE requests[r].at = "save_lead_move" /\ requests[r].leadDoc.entry # None
        <3>1. Goto(r, [requests[r] EXCEPT !.at = "read_entry"])
            BY <1>2, <2>2 DEF SaveLead, On
        <3>2. Sound([requests[r] EXCEPT !.at = "read_entry"], DOMAIN leads, DOMAIN entries)
            BY <1>0, <2>2 DEF Sound, RequestStates, Places, LeadKnown, LeadHeld, EntryHeld
        <3> QED BY <1>0, <2>1, <3>1, <3>2, HeldLeadSaved, LeadsSavedKeeps
    <2>3. CASE ~(requests[r].at = "save_lead_move" /\ requests[r].leadDoc.entry # None)
        <3>1. Goto(r, Nothing)
            BY <1>2, <2>3 DEF SaveLead, End
        <3> QED BY <1>0, <2>1, <3>1, NothingIsSound, HeldLeadSaved, LeadsSavedKeeps
    <2> QED BY <2>2, <2>3
<1>3. CASE MirrorToEntry(r)
    <2> DEFINE e == requests[r].leadDoc.entry
               g == requests[r].leadDoc.group
               doc == [entries[e] EXCEPT !.group = g]
               state == [requests[r] EXCEPT !.at = "save_far_entry", !.entry = e, !.entryDoc = doc]
    <2>1. /\ requests[r].at = "read_entry" /\ UNCHANGED <<leads, entries, edits>>
          /\ apart' = apart \ {requests[r].lead}
          /\ Goto(r, Nothing) \/ Goto(r, state)
        BY <1>3 DEF MirrorToEntry, End
    <2>2. requests[r].leadDoc \in LeadDocs /\ e \in DOMAIN entries
        BY <1>0, <2>1 DEF Sound, LeadHeld, LeadKnown, LeadReal
    <2>3. /\ entries[e] \in EntryDocs /\ EntryReal(entries[e], DOMAIN leads) /\ e \in EntryIds
          /\ g \in MaybeGroup
        BY <2>2, DocTypes DEF IInv, PointsAtARealLead, EntryReal, LeadDocs
    <2>4. doc \in EntryDocs /\ EntryReal(doc, DOMAIN leads)
        BY <2>3 DEF EntryDocs, EntryReal
    <2>5. Sound(state, DOMAIN leads, DOMAIN entries)
        BY <1>0, <2>1, <2>2, <2>3, <2>4 DEF Sound, RequestStates, Places, LeadKnown, LeadHeld, EntryHeld
    <2> HIDE DEF state
    <2> QED BY <1>0, <2>1, <2>5, NothingIsSound, ReadKeeps
<1>4. CASE SaveFarEntry(r)
    <2>1. requests[r].at \in EntryHeld /\ SaveHeldEntry(r) /\ Goto(r, Nothing)
        BY <1>4 DEF SaveFarEntry, EntryHeld, End
    <2> QED BY <1>0, <1>4, <2>1, HeldEntrySaved, NothingIsSound, EntriesSavedKeeps DEF SaveFarEntry
<1> QED BY <1>1, <1>2, <1>3, <1>4 DEF EditLead

LEMMA EditEntryKeeps ==
    ASSUME IInv, NEW r \in Requests, EditEntry(r)
    PROVE  IInv'
<1>0. /\ Sound(requests[r], DOMAIN leads, DOMAIN entries)
      /\ edits \in 0..MaxEdits /\ apart \subseteq LeadIds
    BY DEF IInv, TypeOK
<1>1. ASSUME NEW e \in EntryIds, EditEntryBegin(r, e) PROVE IInv'
    <2>1. PICK n \in MaybeNumber, g \in MaybeGroup :
              Goto(r, [Nothing EXCEPT !.at = IF g = entries[e].group THEN "save_entry" ELSE "save_entry_move",
                                      !.entry = e, !.entryDoc = [entries[e] EXCEPT !.number = n, !.group = g]])
        BY <1>1 DEF EditEntryBegin
    <2> DEFINE doc == [entries[e] EXCEPT !.number = n, !.group = g]
               state == [Nothing EXCEPT !.at = IF g = entries[e].group THEN "save_entry" ELSE "save_entry_move",
                                        !.entry = e, !.entryDoc = doc]
    <2>2. e \in DOMAIN entries /\ entries[e] \in EntryDocs /\ EntryReal(entries[e], DOMAIN leads)
        BY <1>1, DocTypes DEF EditEntryBegin, LiveEntry, IInv, PointsAtARealLead, EntryReal
    <2>3. doc \in EntryDocs /\ EntryReal(doc, DOMAIN leads)
        BY <2>2 DEF EntryDocs, EntryReal
    <2>4. Sound(state, DOMAIN leads, DOMAIN entries)
        BY <2>2, <2>3 DEF Sound, RequestStates, Places, LeadKnown, LeadHeld, EntryHeld, Nothing
    <2>5. UNCHANGED <<leads, entries>> /\ edits' \in 0..MaxEdits /\ apart' \subseteq LeadIds
        BY <1>0, <1>1, BoundsAssumption DEF EditEntryBegin
    <2> QED BY <2>1, <2>4, <2>5, ReadKeeps
<1>2. CASE SaveEntry(r)
    <2>1. /\ requests[r].at \in {"save_entry", "save_entry_move"}
          /\ requests[r].at \in EntryHeld /\ SaveHeldEntry(r)
          /\ UNCHANGED <<leads, edits, apart>>
        BY <1>2 DEF SaveEntry, EntryHeld
    <2>2. CASE requests[r].at = "save_entry_move" /\ requests[r].entryDoc.lead # None
        <3>1. Goto(r, [requests[r] EXCEPT !.at = "read_lead"])
            BY <1>2, <2>2 DEF SaveEntry, On
        <3>2. Sound([requests[r] EXCEPT !.at = "read_lead"], DOMAIN leads, DOMAIN entries)
            BY <1>0, <2>2 DEF Sound, RequestStates, Places, LeadKnown, LeadHeld, EntryHeld
        <3> QED BY <1>0, <2>1, <3>1, <3>2, HeldEntrySaved, EntriesSavedKeeps
    <2>3. CASE ~(requests[r].at = "save_entry_move" /\ requests[r].entryDoc.lead # None)
        <3>1. Goto(r, Nothing)
            BY <1>2, <2>3 DEF SaveEntry, End
        <3> QED BY <1>0, <2>1, <3>1, NothingIsSound, HeldEntrySaved, EntriesSavedKeeps
    <2> QED BY <2>2, <2>3
<1>3. CASE MirrorToLead(r)
    <2> DEFINE l == requests[r].entryDoc.lead
               g == requests[r].entryDoc.group
               doc == [leads[l] EXCEPT !.group = g]
               state == [requests[r] EXCEPT !.at = "save_far_lead", !.lead = l, !.leadDoc = doc]
    <2>1. /\ requests[r].at = "read_lead" /\ UNCHANGED <<leads, entries, edits>>
          /\ apart' = apart \ {l}
          /\ Goto(r, Nothing) \/ Goto(r, state)
        BY <1>3 DEF MirrorToLead, End
    <2>2. requests[r].entryDoc \in EntryDocs /\ l \in DOMAIN leads
        BY <1>0, <2>1 DEF Sound, EntryHeld, EntryReal
    <2>3. /\ leads[l] \in LeadDocs /\ LeadReal(leads[l], DOMAIN entries) /\ l \in LeadIds
          /\ g \in MaybeGroup
        BY <2>2, DocTypes DEF IInv, LeadsSound, EntryDocs
    <2>4. doc \in LeadDocs /\ LeadReal(doc, DOMAIN entries)
        BY <2>3 DEF LeadDocs, LeadReal
    <2>5. Sound(state, DOMAIN leads, DOMAIN entries)
        BY <1>0, <2>1, <2>2, <2>3, <2>4 DEF Sound, RequestStates, Places, LeadKnown, LeadHeld, EntryHeld
    <2> HIDE DEF state
    <2> QED BY <1>0, <2>1, <2>5, NothingIsSound, ReadKeeps
<1>4. CASE SaveFarLead(r)
    <2>1. requests[r].at \in LeadHeld \cap LeadKnown /\ SaveHeldLead(r) /\ Goto(r, Nothing)
        BY <1>4 DEF SaveFarLead, LeadHeld, LeadKnown, End
    <2> QED BY <1>0, <1>4, <2>1, HeldLeadSaved, NothingIsSound, LeadsSavedKeeps DEF SaveFarLead
<1> QED BY <1>1, <1>2, <1>3, <1>4 DEF EditEntry

(* Handing entries back only takes links away. *)
LEMMA HandedBackSound ==
    ASSUME IInv, NEW ids, entries' = HandedBack(ids)
    PROVE  /\ entries' \in [DOMAIN entries -> EntryDocs]
           /\ \A e \in DOMAIN entries : EntryReal(entries'[e], DOMAIN leads)
<1> SUFFICES ASSUME NEW e \in DOMAIN entries
             PROVE  LET doc == IF ~entries[e].deleted /\ entries[e].lead \in ids
                               THEN [entries[e] EXCEPT !.lead = None] ELSE entries[e]
                    IN  doc \in EntryDocs /\ EntryReal(doc, DOMAIN leads)
    BY DEF HandedBack
<1>1. entries[e] \in EntryDocs /\ EntryReal(entries[e], DOMAIN leads)
    BY DocTypes DEF IInv, PointsAtARealLead, EntryReal
<1>2. [entries[e] EXCEPT !.lead = None] \in EntryDocs /\ EntryReal([entries[e] EXCEPT !.lead = None], DOMAIN leads)
    BY <1>1 DEF EntryDocs, EntryReal
<1> QED BY <1>1, <1>2

LEMMA DeleteKeeps ==
    ASSUME IInv, NEW r \in Requests, Delete(r)
    PROVE  IInv'
<1>0. /\ Sound(requests[r], DOMAIN leads, DOMAIN entries)
      /\ edits \in 0..MaxEdits /\ apart \subseteq LeadIds
    BY DEF IInv, TypeOK
<1>1. ASSUME NEW e \in EntryIds, DeleteEntryBegin(r, e) PROVE IInv'
    <2> DEFINE doc == [entries[e] EXCEPT !.deleted = TRUE]
               state == [Nothing EXCEPT !.at = "save_entry", !.entry = e, !.entryDoc = doc]
    <2>1. Goto(r, state) /\ UNCHANGED <<leads, entries, edits, apart>>
        BY <1>1 DEF DeleteEntryBegin
    <2>2. e \in DOMAIN entries /\ entries[e] \in EntryDocs /\ EntryReal(entries[e], DOMAIN leads)
        BY <1>1, DocTypes DEF DeleteEntryBegin, LiveEntry, IInv, PointsAtARealLead, EntryReal
    <2>3. doc \in EntryDocs /\ EntryReal(doc, DOMAIN leads)
        BY <2>2 DEF EntryDocs, EntryReal
    <2>4. Sound(state, DOMAIN leads, DOMAIN entries)
        BY <2>2, <2>3 DEF Sound, RequestStates, Places, LeadKnown, LeadHeld, EntryHeld, Nothing
    <2> HIDE DEF state
    <2> QED BY <1>0, <2>1, <2>4, ReadKeeps
<1>2. ASSUME NEW l \in LeadIds, DeleteLeadBegin(r, l) PROVE IInv'
    <2> DEFINE doc == [leads[l] EXCEPT !.deleted = TRUE]
               state == [Nothing EXCEPT !.at = "save_deleted_lead", !.lead = l, !.leadDoc = doc]
    <2>1. Goto(r, state) /\ UNCHANGED <<leads, entries, edits, apart>>
        BY <1>2 DEF DeleteLeadBegin
    <2>2. l \in DOMAIN leads /\ leads[l] \in LeadDocs /\ LeadReal(leads[l], DOMAIN entries)
        BY <1>2, DocTypes DEF DeleteLeadBegin, LiveLead, IInv, LeadsSound
    <2>3. doc \in LeadDocs /\ LeadReal(doc, DOMAIN entries)
        BY <2>2 DEF LeadDocs, LeadReal
    <2>4. Sound(state, DOMAIN leads, DOMAIN entries)
        BY <2>2, <2>3 DEF Sound, RequestStates, Places, LeadKnown, LeadHeld, EntryHeld, Nothing
    <2> HIDE DEF state
    <2> QED BY <1>0, <2>1, <2>4, ReadKeeps
<1>3. CASE SaveDeletedLead(r)
    <2>1. /\ requests[r].at = "save_deleted_lead" /\ SaveHeldLead(r)
          /\ UNCHANGED <<entries, edits, apart>>
          /\ Goto(r, [requests[r] EXCEPT !.at = "release"])
        BY <1>3 DEF SaveDeletedLead, On
    <2>2. requests[r].at \in LeadHeld \cap LeadKnown
        BY <2>1 DEF LeadHeld, LeadKnown
    <2>3. Sound([requests[r] EXCEPT !.at = "release"], DOMAIN leads, DOMAIN entries)
        BY <1>0, <2>1 DEF Sound, RequestStates, Places, LeadKnown, LeadHeld, EntryHeld
    <2> QED BY <1>0, <2>1, <2>2, <2>3, HeldLeadSaved, LeadsSavedKeeps
<1>4. CASE Release(r)
    <2>1. entries' = HandedBack({requests[r].lead}) /\ Goto(r, Nothing) /\ UNCHANGED <<leads, edits, apart>>
        BY <1>4 DEF Release, End
    <2> QED BY <1>0, <2>1, HandedBackSound, NothingIsSound, EntriesSavedKeeps
<1> QED BY <1>1, <1>2, <1>3, <1>4 DEF Delete

LEMMA ResetKeeps ==
    ASSUME IInv, NEW r \in Requests, Reset(r)
    PROVE  IInv'
<1>0. /\ Sound(requests[r], DOMAIN leads, DOMAIN entries)
      /\ edits \in 0..MaxEdits /\ apart \subseteq LeadIds
    BY DEF IInv, TypeOK
<1>1. ASSUME NEW scope, ResetLeads(r, scope) PROVE IInv'
    <2> DEFINE place == IF scope = "all" THEN "reset_entries" ELSE "reset_release"
               state == [requests[r] EXCEPT !.at = place]
    <2>1. /\ requests[r] = Nothing /\ Goto(r, state) /\ UNCHANGED <<entries, edits, apart>>
          /\ leads' = [l \in DOMAIN leads |-> [leads[l] EXCEPT !.deleted = TRUE]]
        BY <1>1 DEF ResetLeads, Idle, On
    <2>2. ASSUME NEW l \in DOMAIN leads
          PROVE  /\ [leads[l] EXCEPT !.deleted = TRUE] \in LeadDocs
                 /\ LeadReal([leads[l] EXCEPT !.deleted = TRUE], DOMAIN entries)
        <3>1. leads[l] \in LeadDocs /\ LeadReal(leads[l], DOMAIN entries)
            BY <2>2, DocTypes DEF IInv, LeadsSound
        <3> QED BY <3>1 DEF LeadDocs, LeadReal
    <2>3. /\ leads' \in [DOMAIN leads -> LeadDocs]
          /\ \A l \in DOMAIN leads : LeadReal(leads'[l], DOMAIN entries)
        BY <2>1, <2>2
    <2>4. Sound(state, DOMAIN leads, DOMAIN entries)
        BY <2>1 DEF Sound, RequestStates, Places, LeadKnown, LeadHeld, EntryHeld, Nothing
    <2> HIDE DEF state
    <2> QED BY <1>0, <2>1, <2>3, <2>4, LeadsSavedKeeps
<1>2. CASE ResetEntries(r)
    <2>1. /\ Goto(r, Nothing) /\ UNCHANGED <<leads, edits, apart>>
          /\ entries' = [e \in DOMAIN entries |-> [entries[e] EXCEPT !.deleted = TRUE]]
        BY <1>2 DEF ResetEntries, End
    <2>2. ASSUME NEW e \in DOMAIN entries
          PROVE  /\ [entries[e] EXCEPT !.deleted = TRUE] \in EntryDocs
                 /\ EntryReal([entries[e] EXCEPT !.deleted = TRUE], DOMAIN leads)
        <3>1. entries[e] \in EntryDocs /\ EntryReal(entries[e], DOMAIN leads)
            BY <2>2, DocTypes DEF IInv, PointsAtARealLead, EntryReal
        <3> QED BY <3>1 DEF EntryDocs, EntryReal
    <2>3. /\ entries' \in [DOMAIN entries -> EntryDocs]
          /\ \A e \in DOMAIN entries : EntryReal(entries'[e], DOMAIN leads)
        BY <2>1, <2>2
    <2> QED BY <1>0, <2>1, <2>3, NothingIsSound, EntriesSavedKeeps
<1>3. CASE ResetRelease(r)
    <2>1. entries' = HandedBack(LeadIds) /\ Goto(r, Nothing) /\ UNCHANGED <<leads, edits, apart>>
        BY <1>3 DEF ResetRelease, End
    <2> QED BY <1>0, <2>1, HandedBackSound, NothingIsSound, EntriesSavedKeeps
<1> QED BY <1>1, <1>2, <1>3 DEF Reset

(* Filling a gap in a number or a group changes no link. *)
LEMMA LeadsFilled ==
    ASSUME IInv, leads' \in NumbersFilled(leads) \/ leads' \in GroupsFilled(leads)
    PROVE  /\ leads' \in [DOMAIN leads -> LeadDocs]
           /\ \A l \in DOMAIN leads : LeadReal(leads'[l], DOMAIN entries)
<1>1. \A l \in DOMAIN leads : leads[l] \in LeadDocs /\ LeadReal(leads[l], DOMAIN entries)
    BY DocTypes DEF IInv, LeadsSound
<1>2. ASSUME NEW l \in DOMAIN leads, NEW n \in MaybeNumber
      PROVE  [leads[l] EXCEPT !.number = n] \in LeadDocs /\ LeadReal([leads[l] EXCEPT !.number = n], DOMAIN entries)
    BY <1>1 DEF LeadDocs, LeadReal
<1>3. ASSUME NEW l \in DOMAIN leads, NEW g \in Groups
      PROVE  [leads[l] EXCEPT !.group = g] \in LeadDocs /\ LeadReal([leads[l] EXCEPT !.group = g], DOMAIN entries)
    BY <1>1 DEF LeadDocs, LeadReal, MaybeGroup
<1>4. CASE leads' \in NumbersFilled(leads)
    <2>1. PICK told \in [DOMAIN leads -> MaybeNumber] :
              leads' = [l \in DOMAIN leads |->
                           IF leads[l].number # None THEN leads[l] ELSE [leads[l] EXCEPT !.number = told[l]]]
        BY <1>4 DEF NumbersFilled
    <2>2. \A l \in DOMAIN leads : told[l] \in MaybeNumber
        OBVIOUS
    <2> QED BY <1>1, <1>2, <2>1, <2>2
<1>5. CASE leads' \in GroupsFilled(leads)
    <2>1. PICK told \in [DOMAIN leads -> Groups] :
              leads' = [l \in DOMAIN leads |->
                           IF leads[l].group # None THEN leads[l] ELSE [leads[l] EXCEPT !.group = told[l]]]
        BY <1>5 DEF GroupsFilled
    <2>2. \A l \in DOMAIN leads : told[l] \in Groups
        OBVIOUS
    <2> QED BY <1>1, <1>3, <2>1, <2>2
<1> QED BY <1>4, <1>5

LEMMA EntriesFilled ==
    ASSUME IInv, entries' \in NumbersFilled(entries) \/ entries' \in GroupsFilled(entries)
    PROVE  /\ entries' \in [DOMAIN entries -> EntryDocs]
           /\ \A e \in DOMAIN entries : EntryReal(entries'[e], DOMAIN leads)
<1>1. \A e \in DOMAIN entries : entries[e] \in EntryDocs /\ EntryReal(entries[e], DOMAIN leads)
    BY DocTypes DEF IInv, PointsAtARealLead, EntryReal
<1>2. ASSUME NEW e \in DOMAIN entries, NEW n \in MaybeNumber
      PROVE  [entries[e] EXCEPT !.number = n] \in EntryDocs /\ EntryReal([entries[e] EXCEPT !.number = n], DOMAIN leads)
    BY <1>1 DEF EntryDocs, EntryReal
<1>3. ASSUME NEW e \in DOMAIN entries, NEW g \in Groups
      PROVE  [entries[e] EXCEPT !.group = g] \in EntryDocs /\ EntryReal([entries[e] EXCEPT !.group = g], DOMAIN leads)
    BY <1>1 DEF EntryDocs, EntryReal, MaybeGroup
<1>4. CASE entries' \in NumbersFilled(entries)
    <2>1. PICK told \in [DOMAIN entries -> MaybeNumber] :
              entries' = [e \in DOMAIN entries |->
                             IF entries[e].number # None THEN entries[e] ELSE [entries[e] EXCEPT !.number = told[e]]]
        BY <1>4 DEF NumbersFilled
    <2>2. \A e \in DOMAIN entries : told[e] \in MaybeNumber
        OBVIOUS
    <2> QED BY <1>1, <1>2, <2>1, <2>2
<1>5. CASE entries' \in GroupsFilled(entries)
    <2>1. PICK told \in [DOMAIN entries -> Groups] :
              entries' = [e \in DOMAIN entries |->
                             IF entries[e].group # None THEN entries[e] ELSE [entries[e] EXCEPT !.group = told[e]]]
        BY <1>5 DEF GroupsFilled
    <2>2. \A e \in DOMAIN entries : told[e] \in Groups
        OBVIOUS
    <2> QED BY <1>1, <1>3, <2>1, <2>2
<1> QED BY <1>4, <1>5

LEMMA BootKeeps ==
    ASSUME IInv, NEW r \in Requests, Boot(r)
    PROVE  IInv'
<1>0. /\ Sound(requests[r], DOMAIN leads, DOMAIN entries)
      /\ edits \in 0..MaxEdits /\ apart \subseteq LeadIds /\ DOMAIN leads \subseteq LeadIds
    BY DocTypes DEF IInv, TypeOK
<1>1. CASE BootNumbers(r)
    <2> DEFINE state == [requests[r] EXCEPT !.at = "boot_leads"]
    <2>1. /\ requests[r] = Nothing
          /\ leads' \in NumbersFilled(leads) /\ entries' \in NumbersFilled(entries)
          /\ requests' = [requests EXCEPT ![r] = state]
          /\ disturbed' \in BOOLEAN /\ UNCHANGED <<edits, apart>>
        BY <1>1 DEF BootNumbers, Idle, On, Goto, IInv, TypeOK
    <2>2. /\ leads' \in [DOMAIN leads -> LeadDocs]
          /\ \A l \in DOMAIN leads : LeadReal(leads'[l], DOMAIN entries)
          /\ entries' \in [DOMAIN entries -> EntryDocs]
          /\ \A e \in DOMAIN entries : EntryReal(entries'[e], DOMAIN leads)
        BY <2>1, LeadsFilled, EntriesFilled
    <2>3. Sound(state, DOMAIN leads, DOMAIN entries)
        BY <2>1 DEF Sound, RequestStates, Places, LeadKnown, LeadHeld, EntryHeld, Nothing
    <2>4. /\ Len(leads) \in Nat /\ DOMAIN leads = 1..Len(leads)
          /\ Len(entries) \in Nat /\ DOMAIN entries = 1..Len(entries)
        BY DocTypes DEF IInv
    <2>5. /\ leads' \in Seq(LeadDocs) /\ Len(leads') = Len(leads) /\ DOMAIN leads' = DOMAIN leads
          /\ entries' \in Seq(EntryDocs) /\ Len(entries') = Len(entries) /\ DOMAIN entries' = DOMAIN entries
        BY <2>2, <2>4, LenProperties, SeqDef
    <2>6. /\ Len(leads') <= MaxLeads /\ Len(entries') <= MaxEntries
          /\ edits' \in 0..MaxEdits /\ apart' \subseteq LeadIds
        BY <1>0, <2>1, <2>5 DEF IInv, TypeOK
    <2> HIDE DEF state
    <2> QED BY <2>1, <2>2, <2>3, <2>5, <2>6, StepKeeps
<1>2. CASE BootLeads(r)
    <2>1. /\ requests[r].at = "boot_leads" /\ leads' \in GroupsFilled(leads) /\ UNCHANGED <<entries, edits>>
          /\ Goto(r, [requests[r] EXCEPT !.at = "boot_entries"])
          /\ apart' = apart \cup OutOfStep(leads', entries)
        BY <1>2 DEF BootLeads, On
    <2>2. /\ leads' \in [DOMAIN leads -> LeadDocs]
          /\ \A l \in DOMAIN leads : LeadReal(leads'[l], DOMAIN entries)
        BY <2>1, LeadsFilled
    <2>3. Sound([requests[r] EXCEPT !.at = "boot_entries"], DOMAIN leads, DOMAIN entries)
        BY <1>0, <2>1 DEF Sound, RequestStates, Places, LeadKnown, LeadHeld, EntryHeld
    <2>4. apart' \subseteq LeadIds
        BY <1>0, <2>1, <2>2 DEF OutOfStep
    <2> QED BY <1>0, <2>1, <2>2, <2>3, <2>4, LeadsSavedKeeps
<1>3. CASE BootEntries(r)
    <2>1. /\ entries' \in GroupsFilled(entries) /\ UNCHANGED <<leads, edits>> /\ Goto(r, Nothing)
          /\ apart' = apart \cup OutOfStep(leads, entries')
        BY <1>3 DEF BootEntries, End
    <2>2. /\ entries' \in [DOMAIN entries -> EntryDocs]
          /\ \A e \in DOMAIN entries : EntryReal(entries'[e], DOMAIN leads)
        BY <2>1, EntriesFilled
    <2>3. apart' \subseteq LeadIds
        BY <1>0, <2>1 DEF OutOfStep
    <2> QED BY <1>0, <2>1, <2>2, <2>3, NothingIsSound, EntriesSavedKeeps
<1> QED BY <1>1, <1>2, <1>3 DEF Boot

LEMMA CrashKeeps ==
    ASSUME IInv, NEW r \in Requests, Crash(r)
    PROVE  IInv'
<1>1. /\ requests' = [requests EXCEPT ![r] = Nothing] /\ UNCHANGED <<leads, entries, edits, apart>>
    BY DEF Crash
<1>2. disturbed' \in BOOLEAN
    BY DEF Crash, IInv, TypeOK
<1>3. /\ leads' \in Seq(LeadDocs) /\ Len(leads') <= MaxLeads
      /\ entries' \in Seq(EntryDocs) /\ Len(entries') <= MaxEntries
      /\ edits' \in 0..MaxEdits /\ apart' \subseteq LeadIds
      /\ DOMAIN leads \subseteq DOMAIN leads' /\ DOMAIN entries \subseteq DOMAIN entries'
      /\ \A l \in DOMAIN leads' : LeadReal(leads'[l], DOMAIN entries')
      /\ \A e \in DOMAIN entries' : EntryReal(entries'[e], DOMAIN leads')
    BY <1>1 DEF IInv, TypeOK, LeadsSound, PointsAtARealLead, EntryReal
<1> QED BY <1>1, <1>2, <1>3, NothingIsSound, StepKeeps

-----------------------------------------------------------------------------
(* The theorems. *)

LEMMA InitIInv == Init => IInv
<1> SUFFICES ASSUME Init PROVE IInv
    OBVIOUS
<1>1. Len(leads) = 0 /\ Len(entries) = 0 /\ DOMAIN leads = {} /\ DOMAIN entries = {}
    BY EmptySeq DEF Init
<1>2. leads \in Seq(LeadDocs) /\ entries \in Seq(EntryDocs)
    BY EmptySeq DEF Init
<1>3. \A r \in Requests : requests[r] = Nothing
    BY DEF Init
<1>4. Nothing \in RequestStates
    BY DEF Nothing, RequestStates, Places
<1>5. TypeOK
    <2>1. requests \in [Requests -> RequestStates]
        BY <1>4 DEF Init
    <2>2. Len(leads) <= MaxLeads /\ Len(entries) <= MaxEntries /\ edits \in 0..MaxEdits
        BY <1>1, BoundsAssumption DEF Init
    <2>3. disturbed \in BOOLEAN /\ apart \subseteq LeadIds
        BY DEF Init
    <2> QED BY <1>2, <2>1, <2>2, <2>3 DEF TypeOK
<1> QED BY <1>1, <1>3, <1>5, NothingIsSound DEF IInv, PointsAtARealLead, LeadsSound

LEMMA NextIInv == IInv /\ [Next]_vars => IInv'
<1> SUFFICES ASSUME IInv, [Next]_vars PROVE IInv'
    OBVIOUS
<1>1. ASSUME NEW r \in Requests,
             Submit(r) \/ Create(r) \/ EditLead(r) \/ EditEntry(r) \/ Delete(r) \/ Reset(r) \/ Boot(r) \/ Crash(r)
      PROVE  IInv'
    BY <1>1, SubmitKeeps, CreateKeeps, EditLeadKeeps, EditEntryKeeps, DeleteKeeps, ResetKeeps, BootKeeps, CrashKeeps
<1>2. CASE UNCHANGED vars
    <2>1. /\ leads' = leads /\ entries' = entries /\ requests' = requests
          /\ edits' = edits /\ disturbed' = disturbed /\ apart' = apart
        BY <1>2 DEF vars
    <2> QED BY <2>1 DEF IInv, TypeOK, PointsAtARealLead, LeadsSound
<1> QED BY <1>1, <1>2 DEF Next

(* Every document the database or a request holds has its type, whatever   *)
(* is in progress (the Lead and InductionEntry models, and what a request  *)
(* of FoundationFormService and its neighbours has read).                  *)
THEOREM LinkTypeCorrect == Spec => []TypeOK
<1>1. IInv => TypeOK
    BY DEF IInv
<1> QED BY <1>1, InitIInv, NextIInv, PTL DEF Spec

(* An entry that has left the Induction board left for a lead that was     *)
(* created, for any number of submissions, edits, deletes, resets and      *)
(* restarts in progress and wherever any of them stops: the order in which *)
(* _link and its callers write (the lead first) is enough.                 *)
THEOREM LinkPointsAtARealLead == Spec => []PointsAtARealLead
<1>1. IInv => PointsAtARealLead
    BY DEF IInv
<1> QED BY <1>1, InitIInv, NextIInv, PTL DEF Spec

-----------------------------------------------------------------------------
(* Requests that do not overlap. *)

(* The two boards, given leads ls and entries es: a live entry and a live  *)
(* lead point to each other or neither does, no live entry points to a     *)
(* lead that is gone, and a pair outside ap is in one group.               *)
Linked(ls, es) ==
    \A e \in DOMAIN es : ~es[e].deleted =>
        /\ es[e].lead # None => es[e].lead \in DOMAIN ls /\ ~ls[es[e].lead].deleted
        /\ \A l \in DOMAIN ls : ~ls[l].deleted => (es[e].lead = l <=> ls[l].entry = e)

Together(ls, es, ap) ==
    \A l \in DOMAIN ls \ ap :
        ~ls[l].deleted /\ ls[l].entry \in DOMAIN es /\ ~es[ls[l].entry].deleted => ls[l].group = es[ls[l].entry].group

Waiting(n, es) == {e \in DOMAIN es : ~es[e].deleted /\ es[e].lead = None /\ n # None /\ es[e].number = n}

Back(es, ids) ==
    [e \in DOMAIN es |-> IF ~es[e].deleted /\ es[e].lead \in ids THEN [es[e] EXCEPT !.lead = None] ELSE es[e]]

AllDeleted(docs) == [i \in DOMAIN docs |-> [docs[i] EXCEPT !.deleted = TRUE]]

(* What the collections will hold once the request whose state is s has    *)
(* written the other half of what it has begun.                            *)
LeadsToBe(s, ls) ==
    CASE s.at \in {"save_merge", "save_far_lead"} -> [ls EXCEPT ![s.lead] = s.leadDoc]
      [] s.at = "read_lead" -> [ls EXCEPT ![s.entryDoc.lead].group = s.entryDoc.group]
      [] OTHER -> ls

EntriesToBe(s, es) ==
    CASE s.at \in {"link_new", "save_far_entry"} -> [es EXCEPT ![s.entry] = s.entryDoc]
      [] s.at = "read_entry" -> [es EXCEPT ![s.leadDoc.entry].group = s.leadDoc.group]
      [] s.at = "release" -> Back(es, {s.lead})
      [] s.at = "reset_release" -> Back(es, LeadIds)
      [] s.at = "reset_entries" -> AllDeleted(es)
      [] OTHER -> es

ApartToBe(s, ap) ==
    CASE s.at = "read_entry" -> ap \ {s.lead}
      [] s.at = "read_lead" -> ap \ {s.entryDoc.lead}
      [] OTHER -> ap

(* What a request that is alone holds is what the collections hold, but    *)
(* for what it is about to change.                                         *)
MatchHeld(s, es) ==
    /\ s.entryDoc = es[s.entry] /\ ~es[s.entry].deleted /\ es[s.entry].lead = None
    /\ s.leadDoc.entry = s.entry /\ ~s.leadDoc.deleted

SubmitHeld(s, ls, es) ==
    /\ s.at = "find_entry" => ~s.leadDoc.deleted /\ s.leadDoc.entry = None /\ s.leadDoc.group = None
    /\ s.at = "insert_lead" /\ s.entry = None =>
          ~s.leadDoc.deleted /\ s.leadDoc.entry = None /\ Waiting(s.leadDoc.number, es) = {}
    /\ s.at = "insert_lead" /\ s.entry # None => MatchHeld(s, es) /\ s.leadDoc.group = s.entryDoc.group
    /\ s.at = "link_new" => ls[s.lead].entry # None
    /\ s.at = "late_match" => s.entry = None /\ s.leadDoc = ls[s.lead] /\ ~ls[s.lead].deleted /\ ls[s.lead].entry = None
    /\ s.at = "link_late" => MatchHeld(s, es) /\ ~ls[s.lead].deleted /\ ls[s.lead].entry = None
    /\ s.at = "save_merge" => /\ s.entry = None => s.leadDoc = ls[s.lead]
                              /\ s.leadDoc.entry = None => Waiting(s.leadDoc.number, es) = {}

EditHeld(s, ls, es) ==
    /\ s.at \in {"save_lead", "save_lead_move"} =>
          /\ ~ls[s.lead].deleted /\ ~s.leadDoc.deleted /\ s.leadDoc.entry = ls[s.lead].entry
          /\ s.at = "save_lead" => s.leadDoc.group = ls[s.lead].group
    /\ s.at = "save_entry" => /\ ~es[s.entry].deleted /\ s.entryDoc.lead = es[s.entry].lead
                              /\ s.entryDoc.group = es[s.entry].group
    /\ s.at = "save_entry_move" => ~es[s.entry].deleted /\ ~s.entryDoc.deleted /\ s.entryDoc.lead = es[s.entry].lead
    /\ s.at = "save_deleted_lead" => s.leadDoc = [ls[s.lead] EXCEPT !.deleted = TRUE]

Tidy(s, ls, es, ap) ==
    /\ Linked(LeadsToBe(s, ls), EntriesToBe(s, es))
    /\ Together(LeadsToBe(s, ls), EntriesToBe(s, es), ApartToBe(s, ap))
    /\ SubmitHeld(s, ls, es)
    /\ EditHeld(s, ls, es)

(* As long as requests neither overlapped nor stopped half-way.            *)
Undisturbed ==
    ~disturbed =>
        /\ Settled => Tidy(Nothing, leads, entries, apart)
        /\ \A r \in Requests : Alone(r) => Tidy(requests[r], leads, entries, apart)

-----------------------------------------------------------------------------
(* What a change makes of the two boards. *)

(* Documents that are as their models say, and link to documents there are. *)
Kept(ls, es) ==
    /\ DOMAIN ls \subseteq Int /\ DOMAIN es \subseteq Int
    /\ \A l \in DOMAIN ls : ls[l] \in LeadDocs /\ LeadReal(ls[l], DOMAIN es)
    /\ \A e \in DOMAIN es : es[e] \in EntryDocs /\ EntryReal(es[e], DOMAIN ls)

(* Nothing but groups and numbers changed, or entries were deleted.        *)
SameLinks(ls, es, ls2, es2) ==
    /\ DOMAIN ls2 = DOMAIN ls /\ DOMAIN es2 = DOMAIN es
    /\ \A l \in DOMAIN ls : (ls2[l].deleted <=> ls[l].deleted) /\ ls2[l].entry = ls[l].entry
    /\ \A e \in DOMAIN es : ~es2[e].deleted => ~es[e].deleted /\ es2[e].lead = es[e].lead

LEMMA LinkedStays ==
    ASSUME NEW ls, NEW es, NEW ls2, NEW es2, Linked(ls, es), SameLinks(ls, es, ls2, es2)
    PROVE  Linked(ls2, es2)
BY DEF Linked, SameLinks

(* A group is the same where neither side of the pair changed.             *)
LEMMA TogetherStays ==
    ASSUME NEW ls, NEW es, NEW ap, NEW ls2, NEW es2, NEW ap2,
           Together(ls, es, ap), SameLinks(ls, es, ls2, es2),
           \A l \in DOMAIN ls \ ap2 :
               ~ls2[l].deleted /\ ls2[l].entry \in DOMAIN es2 /\ ~es2[ls2[l].entry].deleted =>
                   \/ ls2[l].group = es2[ls2[l].entry].group
                   \/ l \notin ap /\ ls2[l].group = ls[l].group /\ es2[ls[l].entry].group = es[ls[l].entry].group
    PROVE  Together(ls2, es2, ap2)
<1> SUFFICES ASSUME NEW l \in DOMAIN ls2 \ ap2,
                    ~ls2[l].deleted, ls2[l].entry \in DOMAIN es2, ~es2[ls2[l].entry].deleted
             PROVE  ls2[l].group = es2[ls2[l].entry].group
    BY DEF Together
<1>1. /\ l \in DOMAIN ls \ ap2 /\ ~ls[l].deleted /\ ls[l].entry = ls2[l].entry
      /\ ls[l].entry \in DOMAIN es /\ ~es[ls[l].entry].deleted
    BY DEF SameLinks
<1> QED BY <1>1 DEF Together

(* A new lead linked to an entry that had none.                            *)
LEMMA NewPair ==
    ASSUME NEW ls, NEW es, NEW ap, Kept(ls, es), Linked(ls, es), Together(ls, es, ap),
           NEW l, l \in Int, l \notin DOMAIN ls, NEW ls2, DOMAIN ls2 = DOMAIN ls \cup {l},
           \A i \in DOMAIN ls : ls2[i] = ls[i],
           NEW e \in DOMAIN es, ~es[e].deleted, es[e].lead = None,
           ls2[l].entry = e, ~ls2[l].deleted, ls2[l].group = es[e].group,
           NEW es2, es2 = [es EXCEPT ![e] = [es[e] EXCEPT !.lead = l]]
    PROVE  Linked(ls2, es2) /\ Together(ls2, es2, ap)
<1>1. /\ DOMAIN es2 = DOMAIN es
      /\ es2[e].lead = l /\ ~es2[e].deleted /\ es2[e].group = es[e].group
      /\ \A i \in DOMAIN es : i # e => es2[i] = es[i]
      /\ \A i \in DOMAIN es : es2[i].group = es[i].group /\ es2[i].deleted = es[i].deleted
    BY DEF Kept, EntryDocs
<1>2. \A i \in DOMAIN ls : ls[i].deleted \/ ls[i].entry # e
    BY NoneAssumption DEF Linked, Kept
<1>3. \A i \in DOMAIN es : es[i].lead # l
    BY NoneAssumption DEF Kept, EntryReal
<1>4. Linked(ls2, es2)
    <2> SUFFICES ASSUME NEW i \in DOMAIN es, ~es2[i].deleted
                 PROVE  /\ es2[i].lead # None => es2[i].lead \in DOMAIN ls2 /\ ~ls2[es2[i].lead].deleted
                        /\ \A j \in DOMAIN ls2 : ~ls2[j].deleted => (es2[i].lead = j <=> ls2[j].entry = i)
        BY <1>1 DEF Linked
    <2>1. CASE i = e
        BY <1>1, <1>2, <2>1
    <2>2. CASE i # e
        BY <1>1, <1>3, <2>2 DEF Linked
    <2> QED BY <2>1, <2>2
<1>5. Together(ls2, es2, ap)
    BY <1>1 DEF Together
<1> QED BY <1>4, <1>5

(* A new lead without an entry.                                            *)
LEMMA NewLead ==
    ASSUME NEW ls, NEW es, NEW ap, Kept(ls, es), Linked(ls, es), Together(ls, es, ap),
           NEW l, l \in Int, l \notin DOMAIN ls, NEW ls2, DOMAIN ls2 = DOMAIN ls \cup {l},
           \A i \in DOMAIN ls : ls2[i] = ls[i],
           ls2[l].entry = None
    PROVE  Linked(ls2, es) /\ Together(ls2, es, ap)
<1>1. \A i \in DOMAIN es : es[i].lead # l
    BY NoneAssumption DEF Kept, EntryReal
<1>2. None \notin DOMAIN es
    BY NoneAssumption DEF Kept
<1> QED BY <1>1, <1>2 DEF Linked, Together

(* A new entry without a lead.                                             *)
LEMMA NewEntry ==
    ASSUME NEW ls, NEW es, NEW ap, Kept(ls, es), Linked(ls, es), Together(ls, es, ap),
           NEW e, e \in Int, e \notin DOMAIN es, NEW es2, DOMAIN es2 = DOMAIN es \cup {e},
           \A i \in DOMAIN es : es2[i] = es[i],
           es2[e].lead = None
    PROVE  Linked(ls, es2) /\ Together(ls, es2, ap)
<1>1. \A i \in DOMAIN ls : ls[i].entry # e /\ i # None
    BY NoneAssumption DEF Kept, LeadReal
<1> QED BY <1>1 DEF Linked, Together

(* A lead that was there, linked to an entry that had none.                *)
LEMMA LatePair ==
    ASSUME NEW ls, NEW es, NEW ap, Kept(ls, es), Linked(ls, es), Together(ls, es, ap),
           NEW l \in DOMAIN ls, ~ls[l].deleted, ls[l].entry = None,
           NEW e \in DOMAIN es, ~es[e].deleted, es[e].lead = None,
           NEW doc, doc.entry = e, ~doc.deleted,
           NEW ap2, ap \subseteq ap2, doc.group = es[e].group \/ l \in ap2,
           NEW ls2, ls2 = [ls EXCEPT ![l] = doc],
           NEW es2, es2 = [es EXCEPT ![e] = [es[e] EXCEPT !.lead = l]]
    PROVE  Linked(ls2, es2) /\ Together(ls2, es2, ap2)
<1>1. /\ DOMAIN es2 = DOMAIN es
      /\ es2[e].lead = l /\ ~es2[e].deleted /\ es2[e].group = es[e].group
      /\ \A i \in DOMAIN es : i # e => es2[i] = es[i]
      /\ \A i \in DOMAIN es : es2[i].group = es[i].group /\ es2[i].deleted = es[i].deleted
    BY DEF Kept, EntryDocs
<1>2. /\ DOMAIN ls2 = DOMAIN ls /\ ls2[l] = doc
      /\ \A i \in DOMAIN ls : i # l => ls2[i] = ls[i]
    OBVIOUS
<1>3. \A i \in DOMAIN ls : ls[i].deleted \/ ls[i].entry # e
    BY NoneAssumption DEF Linked, Kept
<1>4. \A i \in DOMAIN es : es[i].deleted \/ es[i].lead # l
    BY NoneAssumption DEF Linked, Kept
<1>5. Linked(ls2, es2)
    <2> SUFFICES ASSUME NEW i \in DOMAIN es, ~es2[i].deleted
                 PROVE  /\ es2[i].lead # None => es2[i].lead \in DOMAIN ls2 /\ ~ls2[es2[i].lead].deleted
                        /\ \A j \in DOMAIN ls2 : ~ls2[j].deleted => (es2[i].lead = j <=> ls2[j].entry = i)
        BY <1>1 DEF Linked
    <2>1. CASE i = e
        BY <1>1, <1>2, <1>3, <2>1
    <2>2. CASE i # e
        BY <1>1, <1>2, <1>4, <2>2 DEF Linked
    <2> QED BY <2>1, <2>2
<1>6. Together(ls2, es2, ap2)
    BY <1>1, <1>2 DEF Together
<1> QED BY <1>5, <1>6

(* A lead saved with another number, and another group if it is in apart   *)
(* or has no entry.                                                        *)
LEMMA LeadRenumbered ==
    ASSUME NEW ls, NEW es, NEW ap, Kept(ls, es), Linked(ls, es), Together(ls, es, ap),
           NEW l \in DOMAIN ls, NEW doc, doc.entry = ls[l].entry, doc.deleted = ls[l].deleted,
           doc.group = ls[l].group \/ doc.entry = None,
           NEW ls2, ls2 = [ls EXCEPT ![l] = doc]
    PROVE  Linked(ls2, es) /\ Together(ls2, es, ap)
<1>1. SameLinks(ls, es, ls2, es)
    BY DEF SameLinks
<1>2. None \notin DOMAIN es
    BY NoneAssumption DEF Kept
<1> QED BY <1>1, <1>2, LinkedStays, TogetherStays

(* docs2 is docs with document i saved as doc.                             *)
Saved(docs2, docs, i, doc) ==
    DOMAIN docs2 = DOMAIN docs /\ docs2[i] = doc /\ \A j \in DOMAIN docs : j # i => docs2[j] = docs[j]

(* A lead moved, and its entry after it.                                   *)
LEMMA LeadMoved ==
    ASSUME NEW ls, NEW es, NEW ap, Linked(ls, es), Together(ls, es, ap),
           NEW l \in DOMAIN ls, NEW doc, doc.entry = ls[l].entry, ~doc.deleted, ~ls[l].deleted,
           NEW e \in DOMAIN es, doc.entry = e,
           NEW far, far.lead = es[e].lead, far.deleted <=> es[e].deleted, far.group = doc.group,
           NEW ls2, Saved(ls2, ls, l, doc),
           NEW es2, Saved(es2, es, e, far)
    PROVE  Linked(ls2, es2) /\ Together(ls2, es2, ap \ {l})
<1>1. SameLinks(ls, es, ls2, es2)
    BY DEF SameLinks, Saved
<1>2. \A i \in DOMAIN ls : i # l /\ ~ls[i].deleted /\ ~es[e].deleted => ls[i].entry # e
    BY DEF Linked
<1>3. ASSUME NEW i \in DOMAIN ls \ (ap \ {l}), ~ls2[i].deleted, ls2[i].entry \in DOMAIN es2, ~es2[ls2[i].entry].deleted
      PROVE  \/ ls2[i].group = es2[ls2[i].entry].group
             \/ i \notin ap /\ ls2[i].group = ls[i].group /\ es2[ls[i].entry].group = es[ls[i].entry].group
    BY <1>2, <1>3 DEF Saved
<1> QED BY <1>1, <1>3, LinkedStays, TogetherStays

(* An entry saved with another number, deleted, or moved without a lead.   *)
LEMMA EntryRenumbered ==
    ASSUME NEW ls, NEW es, NEW ap, Kept(ls, es), Linked(ls, es), Together(ls, es, ap),
           NEW e \in DOMAIN es, NEW doc, doc.lead = es[e].lead, ~es[e].deleted,
           doc.group = es[e].group \/ doc.lead = None,
           NEW es2, es2 = [es EXCEPT ![e] = doc]
    PROVE  Linked(ls, es2) /\ Together(ls, es2, ap)
<1>1. SameLinks(ls, es, ls, es2)
    BY DEF SameLinks
<1>2. CASE doc.lead = None
    <2>1. es[e].lead = None /\ None \notin DOMAIN ls
        BY <1>2, NoneAssumption DEF Kept
    <2>2. \A i \in DOMAIN ls : ls[i].deleted \/ ls[i].entry # e
        BY <2>1 DEF Linked
    <2> QED BY <1>1, <2>2, LinkedStays, TogetherStays
<1>3. CASE doc.group = es[e].group
    BY <1>1, <1>3, LinkedStays, TogetherStays
<1> QED BY <1>2, <1>3

(* An entry moved, and the lead it became after it.                        *)
LEMMA EntryMoved ==
    ASSUME NEW ls, NEW es, NEW ap, Linked(ls, es), Together(ls, es, ap),
           NEW e \in DOMAIN es, NEW doc, doc.lead = es[e].lead, ~doc.deleted, ~es[e].deleted,
           NEW l \in DOMAIN ls, doc.lead = l,
           NEW far, far.entry = ls[l].entry, far.deleted <=> ls[l].deleted, far.group = doc.group,
           NEW es2, Saved(es2, es, e, doc),
           NEW ls2, Saved(ls2, ls, l, far)
    PROVE  Linked(ls2, es2) /\ Together(ls2, es2, ap \ {l})
<1>1. SameLinks(ls, es, ls2, es2)
    BY DEF SameLinks, Saved
<1>2. \A i \in DOMAIN ls : ~ls[i].deleted => (ls[i].entry = e <=> i = l)
    BY DEF Linked
<1>3. ASSUME NEW i \in DOMAIN ls \ (ap \ {l}), ~ls2[i].deleted, ls2[i].entry \in DOMAIN es2, ~es2[ls2[i].entry].deleted
      PROVE  \/ ls2[i].group = es2[ls2[i].entry].group
             \/ i \notin ap /\ ls2[i].group = ls[i].group /\ es2[ls[i].entry].group = es[ls[i].entry].group
    BY <1>2, <1>3 DEF Saved
<1> QED BY <1>1, <1>3, LinkedStays, TogetherStays

(* A lead deleted, and its entry handed back.                              *)
LEMMA LeadGone ==
    ASSUME NEW ls, NEW es, NEW ap, Kept(ls, es), Linked(ls, es), Together(ls, es, ap),
           NEW l \in DOMAIN ls, NEW doc, doc.deleted, NEW ls2, Saved(ls2, ls, l, doc)
    PROVE  Linked(ls2, Back(es, {l})) /\ Together(ls2, Back(es, {l}), ap)
<1> DEFINE es2 == Back(es, {l})
<1>1. /\ DOMAIN es2 = DOMAIN es
      /\ \A i \in DOMAIN es : /\ es2[i].deleted = es[i].deleted /\ es2[i].group = es[i].group
                              /\ ~es[i].deleted => es2[i].lead = IF es[i].lead = l THEN None ELSE es[i].lead
    BY DEF Back, Kept, EntryDocs
<1>2. None \notin DOMAIN ls
    BY NoneAssumption DEF Kept
<1> HIDE DEF es2
<1>3. Together(ls2, es2, ap)
    BY <1>1 DEF Together, Saved
<1>4. ASSUME NEW i \in DOMAIN es2, ~es2[i].deleted
      PROVE  /\ es2[i].lead # None => es2[i].lead \in DOMAIN ls2 /\ ~ls2[es2[i].lead].deleted
             /\ \A j \in DOMAIN ls2 : ~ls2[j].deleted => (es2[i].lead = j <=> ls2[j].entry = i)
    BY <1>1, <1>2, <1>4 DEF Linked, Saved
<1>5. Linked(ls2, es2)
    BY <1>4 DEF Linked
<1> QED BY <1>3, <1>5 DEF es2

(* Every lead deleted, and every entry handed back or deleted too.         *)
LEMMA LeadsGone ==
    ASSUME NEW ls, NEW es, NEW ap, Kept(ls, es), DOMAIN ls \subseteq LeadIds, 
           NEW es2, es2 = Back(es, LeadIds) \/ es2 = AllDeleted(es)
    PROVE  Linked(AllDeleted(ls), es2) /\ Together(AllDeleted(ls), es2, ap)
<1>1. DOMAIN AllDeleted(ls) = DOMAIN ls /\ \A i \in DOMAIN ls : AllDeleted(ls)[i].deleted
    BY DEF AllDeleted, Kept, LeadDocs
<1>2. DOMAIN es2 = DOMAIN es /\ \A i \in DOMAIN es : es2[i].deleted \/ es2[i].lead = None
    <2>1. CASE es2 = AllDeleted(es)
        BY <2>1 DEF AllDeleted, Kept, EntryDocs
    <2>2. CASE es2 = Back(es, LeadIds)
        <3> SUFFICES ASSUME NEW i \in DOMAIN es PROVE es2[i].deleted \/ es2[i].lead = None
            BY <2>2 DEF Back
        <3>1. es[i] \in EntryDocs /\ (es[i].lead = None \/ es[i].lead \in LeadIds)
            BY DEF Kept, EntryReal
        <3> QED BY <2>2, <3>1 DEF Back, EntryDocs
    <2> QED BY <2>1, <2>2
<1> HIDE DEF AllDeleted
<1> QED BY <1>1, <1>2 DEF Linked, Together

(* Every entry deleted.                                                    *)
LEMMA EntriesGone ==
    ASSUME NEW ls, NEW es, NEW ap, Kept(ls, es), Linked(ls, es), Together(ls, es, ap)
    PROVE  Linked(ls, AllDeleted(es)) /\ Together(ls, AllDeleted(es), ap)
<1>1. DOMAIN AllDeleted(es) = DOMAIN es /\ \A i \in DOMAIN es : AllDeleted(es)[i].deleted
    BY DEF AllDeleted, Kept, EntryDocs
<1> HIDE DEF AllDeleted
<1> QED BY <1>1 DEF Linked, Together

-----------------------------------------------------------------------------
(* Where a request that is alone comes to, and what it leaves behind.      *)

(* The places where the other half of a write is still to come.            *)
Unfinished == {"save_merge", "save_far_lead", "read_lead", "link_new", "save_far_entry", "read_entry",
               "release", "reset_release", "reset_entries"}

LEMMA KeptDocs ==
    ASSUME IInv
    PROVE  Kept(leads, entries)
BY DocTypes DEF IInv, Kept, LeadsSound, PointsAtARealLead, EntryReal, LeadIds, EntryIds

LEMMA Gone ==
    ASSUME IInv, NEW r \in Requests, NEW state, Goto(r, state)
    PROVE  requests'[r] = state
BY DEF IInv, TypeOK, Goto

(* The fields of a request's state after one or more of them changed.      *)
LEMMA NothingHeld ==
    /\ Nothing.at = "idle" /\ Nothing.lead = None /\ Nothing.leadDoc = None
    /\ Nothing.entry = None /\ Nothing.entryDoc = None
BY DEF Nothing

LEMMA ToBeNow ==
    ASSUME NEW s, NEW ls, NEW es, NEW ap, s.at \notin Unfinished
    PROVE  LeadsToBe(s, ls) = ls /\ EntriesToBe(s, es) = es /\ ApartToBe(s, ap) = ap
BY DEF LeadsToBe, EntriesToBe, ApartToBe, Unfinished

LEMMA TidyNow ==
    ASSUME NEW s, NEW ls, NEW es, NEW ap, s.at \notin Unfinished, Tidy(s, ls, es, ap)
    PROVE  Linked(ls, es) /\ Together(ls, es, ap)
BY ToBeNow DEF Tidy

(* A place where nothing is left to write, and the places where something  *)
(* is.                                                                     *)
LEMMA ComesTo ==
    ASSUME NEW s, NEW ls, NEW es, NEW ap, s.at \notin Unfinished,
           Linked(ls, es), Together(ls, es, ap), SubmitHeld(s, ls, es), EditHeld(s, ls, es)
    PROVE  Tidy(s, ls, es, ap)
BY ToBeNow DEF Tidy

LEMMA Rests ==
    ASSUME NEW ls, NEW es, NEW ap, Linked(ls, es), Together(ls, es, ap)
    PROVE  Tidy(Nothing, ls, es, ap)
<1>1. Nothing.at \notin Unfinished
    BY DEF Nothing, Unfinished
<1>2. SubmitHeld(Nothing, ls, es) /\ EditHeld(Nothing, ls, es)
    BY NothingHeld DEF SubmitHeld, EditHeld
<1> QED BY <1>1, <1>2, ComesTo

(* The last write of a request leaves what was to be.                      *)
LEMMA Ends ==
    ASSUME NEW s, NEW ls, NEW es, NEW ap, Tidy(s, ls, es, ap)
    PROVE  Tidy(Nothing, LeadsToBe(s, ls), EntriesToBe(s, es), ApartToBe(s, ap))
BY Rests DEF Tidy

-----------------------------------------------------------------------------
(* A submission. *)

LEMMA SubmitBeginTidy ==
    ASSUME IInv, NEW r \in Requests, NEW n \in MaybeNumber, SubmitBegin(r, n),
           Tidy(requests[r], leads, entries, apart)
    PROVE  Tidy(requests'[r], leads', entries', apart')
<1>1. Linked(leads, entries) /\ Together(leads, entries, apart)
    BY TidyNow, NothingHeld DEF SubmitBegin, Idle, Unfinished
<1>2. CASE LeadsWith(n) = {}
    <2> DEFINE state == [Nothing EXCEPT !.at = "find_entry", !.leadDoc = Submitted(n)]
    <2>1. requests'[r] = state
        BY <1>2, Gone DEF SubmitBegin
    <2>2. /\ state.at = "find_entry" /\ ~state.leadDoc.deleted
          /\ state.leadDoc.entry = None /\ state.leadDoc.group = None
        BY DEF Nothing, Submitted
    <2> HIDE DEF state
    <2>3. SubmitHeld(state, leads, entries) /\ EditHeld(state, leads, entries) /\ state.at \notin Unfinished
        BY <2>2 DEF SubmitHeld, EditHeld, Unfinished
    <2>4. Tidy(state, leads, entries, apart)
        BY <1>1, <2>3, ComesTo
    <2> QED BY <2>1, <2>4 DEF SubmitBegin
<1>3. CASE LeadsWith(n) # {}
    <2>1. PICK l \in NewestOf(LeadsWith(n)) :
              Goto(r, [Nothing EXCEPT !.at = IF leads[l].entry = None THEN "late_match" ELSE "save_merge",
                                      !.lead = l, !.leadDoc = leads[l]])
        BY <1>3 DEF SubmitBegin
    <2> DEFINE state == [Nothing EXCEPT !.at = IF leads[l].entry = None THEN "late_match" ELSE "save_merge",
                                        !.lead = l, !.leadDoc = leads[l]]
    <2>2. requests'[r] = state
        BY <2>1, Gone
    <2>3. l \in DOMAIN leads /\ ~leads[l].deleted
        BY DEF NewestOf, LeadsWith
    <2>4. /\ state.at = IF leads[l].entry = None THEN "late_match" ELSE "save_merge"
          /\ state.lead = l /\ state.leadDoc = leads[l] /\ state.entry = None
        BY DEF Nothing
    <2> HIDE DEF state
    <2>5. SubmitHeld(state, leads, entries) /\ EditHeld(state, leads, entries)
        BY <2>3, <2>4 DEF SubmitHeld, EditHeld
    <2>6. CASE leads[l].entry = None
        <3>1. state.at \notin Unfinished
            BY <2>4, <2>6 DEF Unfinished
        <3>2. Tidy(state, leads, entries, apart)
            BY <1>1, <2>5, <3>1, ComesTo
        <3> QED BY <2>2, <3>2 DEF SubmitBegin
    <2>7. CASE leads[l].entry # None
        <3>1. [leads EXCEPT ![l] = leads[l]] = leads
            BY DocTypes DEF IInv, TypeOK
        <3>2. LeadsToBe(state, leads) = leads /\ EntriesToBe(state, entries) = entries /\ ApartToBe(state, apart) = apart
            BY <2>4, <2>7, <3>1 DEF LeadsToBe, EntriesToBe, ApartToBe
        <3>3. Tidy(state, leads, entries, apart)
            BY <1>1, <2>5, <3>2 DEF Tidy
        <3> QED BY <2>2, <3>3 DEF SubmitBegin
    <2> QED BY <2>6, <2>7
<1> QED BY <1>2, <1>3

LEMMA FindEntryTidy ==
    ASSUME IInv, NEW r \in Requests, FindEntry(r), Tidy(requests[r], leads, entries, apart)
    PROVE  Tidy(requests'[r], leads', entries', apart')
<1> DEFINE s == requests[r]
<1>1. s.at = "find_entry" /\ UNCHANGED <<leads, entries, edits, apart>>
    BY DEF FindEntry
<1>2. /\ Linked(leads, entries) /\ Together(leads, entries, apart)
      /\ ~s.leadDoc.deleted /\ s.leadDoc.entry = None /\ s.leadDoc.group = None
    BY <1>1, TidyNow DEF Unfinished, Tidy, SubmitHeld
<1>3. s \in RequestStates /\ s.entry = None /\ s.leadDoc \in LeadDocs
    BY <1>1 DEF IInv, Sound, LeadHeld
<1>4. CASE Unconverted(s.leadDoc.number) = {}
    <2> DEFINE state == [s EXCEPT !.at = "insert_lead"]
    <2>1. requests'[r] = state
        BY <1>4, Gone DEF FindEntry, On
    <2>2. state.at = "insert_lead" /\ state.entry = None /\ state.leadDoc = s.leadDoc
        BY <1>3 DEF RequestStates
    <2>3. Waiting(s.leadDoc.number, entries) = {}
        BY <1>4 DEF Unconverted, Waiting
    <2> HIDE DEF state
    <2>4. SubmitHeld(state, leads, entries) /\ EditHeld(state, leads, entries) /\ state.at \notin Unfinished
        BY <1>2, <2>2, <2>3 DEF SubmitHeld, EditHeld, Unfinished
    <2>5. Tidy(state, leads, entries, apart)
        BY <1>2, <2>4, ComesTo
    <2> QED BY <1>1, <2>1, <2>5
<1>5. CASE Unconverted(s.leadDoc.number) # {}
    <2>1. PICK e \in Unconverted(s.leadDoc.number) : Matched(r, e, "insert_lead")
        BY <1>1, <1>5 DEF FindEntry
    <2> DEFINE state == [s EXCEPT !.at = "insert_lead", !.leadDoc = Inherits(@, e, entries[e]),
                                  !.entry = e, !.entryDoc = entries[e]]
    <2>2. requests'[r] = state
        BY <2>1, Gone DEF Matched
    <2>3. e \in DOMAIN entries /\ ~entries[e].deleted /\ entries[e].lead = None /\ e # None
        BY KeptDocs, NoneAssumption DEF Unconverted, Kept
    <2>4. /\ state.at = "insert_lead" /\ state.entry = e /\ state.entryDoc = entries[e]
          /\ state.leadDoc = Inherits(s.leadDoc, e, entries[e])
        BY <1>3 DEF RequestStates
    <2>5. LET doc == Inherits(s.leadDoc, e, entries[e])
          IN  doc.entry = e /\ ~doc.deleted /\ doc.group = entries[e].group
        BY <1>2, <1>3 DEF Inherits, LeadDocs
    <2> HIDE DEF state
    <2>6. SubmitHeld(state, leads, entries) /\ EditHeld(state, leads, entries) /\ state.at \notin Unfinished
        BY <2>3, <2>4, <2>5 DEF SubmitHeld, EditHeld, Unfinished, MatchHeld
    <2>7. Tidy(state, leads, entries, apart)
        BY <1>2, <2>6, ComesTo
    <2> QED BY <1>1, <2>2, <2>7
<1> QED BY <1>4, <1>5

LEMMA InsertLeadTidy ==
    ASSUME IInv, NEW r \in Requests, InsertLead(r), Tidy(requests[r], leads, entries, apart)
    PROVE  Tidy(requests'[r], leads', entries', apart')
<1> DEFINE s == requests[r]
           l == Len(leads) + 1
<1>1. s.at = "insert_lead" /\ leads' = Append(leads, s.leadDoc) /\ UNCHANGED <<entries, edits, apart>>
    BY DEF InsertLead
<1>2. Linked(leads, entries) /\ Together(leads, entries, apart) /\ SubmitHeld(s, leads, entries)
    BY <1>1, TidyNow DEF Unfinished, Tidy
<1>3. s \in RequestStates /\ s.leadDoc \in LeadDocs
    BY <1>1 DEF IInv, Sound, LeadHeld
<1>4. /\ l \in Int /\ l \notin DOMAIN leads /\ DOMAIN leads' = DOMAIN leads \cup {l}
      /\ leads'[l] = s.leadDoc /\ \A i \in DOMAIN leads : leads'[i] = leads[i]
    <2>1. Len(leads) \in Nat /\ DOMAIN leads = 1..Len(leads) /\ leads \in Seq(LeadDocs)
        BY DocTypes DEF IInv, TypeOK
    <2> QED BY <1>1, <1>3, <2>1, AppendProperties
<1>5. CASE s.entry = None
    <2>1. requests'[r] = Nothing
        BY <1>5, Gone DEF InsertLead, End
    <2>2. s.leadDoc.entry = None
        BY <1>1, <1>2, <1>5 DEF SubmitHeld
    <2>3. Linked(leads', entries) /\ Together(leads', entries, apart)
        BY <1>2, <1>4, <2>2, KeptDocs, NewLead
    <2>4. Tidy(Nothing, leads', entries, apart)
        BY <2>3, Rests
    <2> QED BY <1>1, <2>1, <2>4
<1>6. CASE s.entry # None
    <2> DEFINE state == [s EXCEPT !.at = "link_new", !.lead = l, !.entryDoc.lead = l]
    <2>1. requests'[r] = state
        BY <1>6, Gone DEF InsertLead
    <2>2. /\ s.entryDoc = entries[s.entry] /\ ~entries[s.entry].deleted /\ entries[s.entry].lead = None
          /\ s.leadDoc.entry = s.entry /\ ~s.leadDoc.deleted /\ s.leadDoc.group = s.entryDoc.group
        BY <1>1, <1>2, <1>6 DEF SubmitHeld, MatchHeld
    <2>3. s.entry \in DOMAIN entries
        BY <1>1, <1>6 DEF IInv, Sound
    <2>4. /\ state.at = "link_new" /\ state.lead = l /\ state.entry = s.entry
          /\ state.entryDoc = [entries[s.entry] EXCEPT !.lead = l]
        BY <1>3, <2>2 DEF RequestStates
    <2> HIDE DEF state
    <2> DEFINE es2 == [entries EXCEPT ![s.entry] = [entries[s.entry] EXCEPT !.lead = l]]
    <2>5. Linked(leads', es2) /\ Together(leads', es2, apart)
        BY <1>2, <1>4, <2>2, <2>3, KeptDocs, NewPair
    <2>6. LeadsToBe(state, leads') = leads' /\ EntriesToBe(state, entries) = es2 /\ ApartToBe(state, apart) = apart
        BY <2>4 DEF LeadsToBe, EntriesToBe, ApartToBe
    <2>7. SubmitHeld(state, leads', entries) /\ EditHeld(state, leads', entries)
        BY <1>4, <1>6, <2>2, <2>4 DEF SubmitHeld, EditHeld
    <2> HIDE DEF es2, l
    <2>8. Tidy(state, leads', entries, apart)
        BY <2>5, <2>6, <2>7 DEF Tidy
    <2> QED BY <1>1, <2>1, <2>8
<1> QED BY <1>5, <1>6

LEMMA LateMatchTidy ==
    ASSUME IInv, NEW r \in Requests, LateMatch(r), Tidy(requests[r], leads, entries, apart)
    PROVE  Tidy(requests'[r], leads', entries', apart')
<1> DEFINE s == requests[r]
<1>1. s.at = "late_match" /\ UNCHANGED <<leads, entries, edits, apart>>
    BY DEF LateMatch
<1>2. /\ Linked(leads, entries) /\ Together(leads, entries, apart)
      /\ s.entry = None /\ s.leadDoc = leads[s.lead] /\ ~leads[s.lead].deleted /\ leads[s.lead].entry = None
    BY <1>1, TidyNow DEF Unfinished, Tidy, SubmitHeld
<1>3. s \in RequestStates /\ s.leadDoc \in LeadDocs /\ s.lead \in DOMAIN leads
    BY <1>1 DEF IInv, Sound, LeadHeld, LeadKnown
<1>4. CASE Unconverted(s.leadDoc.number) = {}
    <2> DEFINE state == [s EXCEPT !.at = "save_merge"]
    <2>1. requests'[r] = state
        BY <1>4, Gone DEF LateMatch, On
    <2>2. state.at = "save_merge" /\ state.entry = None /\ state.lead = s.lead /\ state.leadDoc = leads[s.lead]
        BY <1>2, <1>3 DEF RequestStates
    <2>3. Waiting(leads[s.lead].number, entries) = {}
        BY <1>2, <1>4 DEF Unconverted, Waiting
    <2> HIDE DEF state
    <2>4. SubmitHeld(state, leads, entries) /\ EditHeld(state, leads, entries)
        BY <2>2, <2>3 DEF SubmitHeld, EditHeld
    <2>5. [leads EXCEPT ![s.lead] = leads[s.lead]] = leads
        BY <1>3, DocTypes DEF IInv, TypeOK
    <2>6. LeadsToBe(state, leads) = leads /\ EntriesToBe(state, entries) = entries /\ ApartToBe(state, apart) = apart
        BY <2>2, <2>5 DEF LeadsToBe, EntriesToBe, ApartToBe
    <2>7. Tidy(state, leads, entries, apart)
        BY <1>2, <2>4, <2>6 DEF Tidy
    <2> QED BY <1>1, <2>1, <2>7
<1>5. CASE Unconverted(s.leadDoc.number) # {}
    <2>1. PICK e \in Unconverted(s.leadDoc.number) : Matched(r, e, "link_late")
        BY <1>1, <1>5 DEF LateMatch
    <2> DEFINE state == [s EXCEPT !.at = "link_late", !.leadDoc = Inherits(@, e, entries[e]),
                                  !.entry = e, !.entryDoc = entries[e]]
    <2>2. requests'[r] = state
        BY <2>1, Gone DEF Matched
    <2>3. e \in DOMAIN entries /\ ~entries[e].deleted /\ entries[e].lead = None
        BY DEF Unconverted
    <2>4. /\ state.at = "link_late" /\ state.lead = s.lead /\ state.entry = e /\ state.entryDoc = entries[e]
          /\ state.leadDoc = Inherits(s.leadDoc, e, entries[e])
        BY <1>3 DEF RequestStates
    <2>5. LET doc == Inherits(s.leadDoc, e, entries[e]) IN doc.entry = e /\ ~doc.deleted
        BY <1>2, <1>3 DEF Inherits, LeadDocs
    <2> HIDE DEF state
    <2>6. SubmitHeld(state, leads, entries) /\ EditHeld(state, leads, entries) /\ state.at \notin Unfinished
        BY <1>2, <2>3, <2>4, <2>5 DEF SubmitHeld, EditHeld, Unfinished, MatchHeld
    <2>7. Tidy(state, leads, entries, apart)
        BY <1>2, <2>6, ComesTo
    <2> QED BY <1>1, <2>2, <2>7
<1> QED BY <1>4, <1>5

LEMMA LinkLateTidy ==
    ASSUME IInv, NEW r \in Requests, LinkLate(r), Tidy(requests[r], leads, entries, apart)
    PROVE  Tidy(requests'[r], leads', entries', apart')
<1> DEFINE s == requests[r]
           state == [s EXCEPT !.at = "save_merge"]
           ls2 == [leads EXCEPT ![s.lead] = s.leadDoc]
<1>1. s.at = "link_late" /\ UNCHANGED leads
    BY DEF LinkLate
<1>2. Linked(leads, entries) /\ Together(leads, entries, apart) /\ SubmitHeld(s, leads, entries)
    BY <1>1, TidyNow DEF Unfinished, Tidy
<1>3. /\ s \in RequestStates /\ s.leadDoc \in LeadDocs /\ s.lead \in DOMAIN leads /\ s.entry \in DOMAIN entries
    BY <1>1 DEF IInv, Sound, LeadHeld, LeadKnown, EntryHeld
<1>4. /\ s.entryDoc = entries[s.entry] /\ ~entries[s.entry].deleted /\ entries[s.entry].lead = None
      /\ s.leadDoc.entry = s.entry /\ ~s.leadDoc.deleted
      /\ ~leads[s.lead].deleted /\ leads[s.lead].entry = None
    BY <1>1, <1>2 DEF SubmitHeld, MatchHeld
<1>5. /\ entries' = [entries EXCEPT ![s.entry] = [entries[s.entry] EXCEPT !.lead = s.lead]]
      /\ apart \subseteq apart' /\ (s.leadDoc.group = entries[s.entry].group \/ s.lead \in apart')
    BY <1>4 DEF LinkLate
<1>6. Linked(ls2, entries') /\ Together(ls2, entries', apart')
    BY <1>2, <1>3, <1>4, <1>5, KeptDocs, LatePair
<1>7. requests'[r] = state
    BY Gone DEF LinkLate, On
<1>8. state.at = "save_merge" /\ state.lead = s.lead /\ state.leadDoc = s.leadDoc /\ state.entry = s.entry
    BY <1>3 DEF RequestStates
<1>9. s.entry # None
    BY <1>3, KeptDocs, NoneAssumption DEF Kept
<1> HIDE DEF state
<1>10. LeadsToBe(state, leads) = ls2 /\ EntriesToBe(state, entries') = entries' /\ ApartToBe(state, apart') = apart'
    BY <1>8 DEF LeadsToBe, EntriesToBe, ApartToBe
<1>11. SubmitHeld(state, leads, entries') /\ EditHeld(state, leads, entries')
    BY <1>4, <1>8, <1>9 DEF SubmitHeld, EditHeld
<1> HIDE DEF ls2
<1>12. Tidy(state, leads, entries', apart')
    BY <1>6, <1>10, <1>11 DEF Tidy
<1> QED BY <1>1, <1>7, <1>12

(* The saves that bring what was to be.                                    *)
LEMMA LinkNewTidy ==
    ASSUME IInv, NEW r \in Requests, LinkNew(r) \/ SaveFarEntry(r), Tidy(requests[r], leads, entries, apart)
    PROVE  Tidy(requests'[r], leads', entries', apart')
<1>1. requests[r].at \in {"link_new", "save_far_entry"} /\ SaveHeldEntry(r) /\ Goto(r, Nothing) /\ UNCHANGED <<leads, apart>>
    BY DEF LinkNew, SaveFarEntry, End
<1>2. /\ leads' = LeadsToBe(requests[r], leads) /\ entries' = EntriesToBe(requests[r], entries)
      /\ apart' = ApartToBe(requests[r], apart)
    BY <1>1 DEF SaveHeldEntry, LeadsToBe, EntriesToBe, ApartToBe
<1> QED BY <1>1, <1>2, Gone, Ends

LEMMA SaveMergeTidy ==
    ASSUME IInv, NEW r \in Requests, SaveMerge(r) \/ SaveFarLead(r), Tidy(requests[r], leads, entries, apart)
    PROVE  Tidy(requests'[r], leads', entries', apart')
<1>1. requests[r].at \in {"save_merge", "save_far_lead"} /\ SaveHeldLead(r) /\ Goto(r, Nothing) /\ UNCHANGED <<entries, apart>>
    BY DEF SaveMerge, SaveFarLead, End
<1>2. /\ leads' = LeadsToBe(requests[r], leads) /\ entries' = EntriesToBe(requests[r], entries)
      /\ apart' = ApartToBe(requests[r], apart)
    BY <1>1 DEF SaveHeldLead, LeadsToBe, EntriesToBe, ApartToBe
<1> QED BY <1>1, <1>2, Gone, Ends

-----------------------------------------------------------------------------
(* A lead or an entry created by staff. *)

LEMMA CreateTidy ==
    ASSUME IInv, NEW r \in Requests, Create(r), Tidy(requests[r], leads, entries, apart)
    PROVE  Tidy(requests'[r], leads', entries', apart')
<1>1. PICK n \in MaybeNumber, g \in MaybeGroup : CreateLead(r, n, g) \/ CreateEntry(r, n, g)
    BY DEF Create
<1>2. requests[r] = Nothing /\ Goto(r, Nothing) /\ UNCHANGED apart
    BY <1>1 DEF CreateLead, CreateEntry, Idle, End
<1>3. Linked(leads, entries) /\ Together(leads, entries, apart)
    BY <1>2, TidyNow, NothingHeld DEF Unfinished
<1>4. /\ Len(leads) \in Nat /\ DOMAIN leads = 1..Len(leads) /\ leads \in Seq(LeadDocs)
      /\ Len(entries) \in Nat /\ DOMAIN entries = 1..Len(entries) /\ entries \in Seq(EntryDocs)
    BY DocTypes DEF IInv, TypeOK
<1>5. CASE CreateLead(r, n, g)
    <2> DEFINE doc == [deleted |-> FALSE, number |-> n, entry |-> None, group |-> g]
               l == Len(leads) + 1
    <2>1. doc \in LeadDocs /\ doc.entry = None /\ leads' = Append(leads, doc) /\ entries' = entries
        BY <1>5 DEF CreateLead, LeadDocs
    <2> HIDE DEF doc
    <2>2. /\ l \in Int /\ l \notin DOMAIN leads /\ DOMAIN leads' = DOMAIN leads \cup {l}
          /\ leads'[l] = doc /\ \A i \in DOMAIN leads : leads'[i] = leads[i]
        BY <1>4, <2>1, AppendProperties
    <2>3. Linked(leads', entries) /\ Together(leads', entries, apart)
        BY <1>3, <2>1, <2>2, KeptDocs, NewLead
    <2>4. Tidy(Nothing, leads', entries, apart)
        BY <2>3, Rests
    <2> QED BY <1>2, <2>1, <2>4, Gone
<1>6. CASE CreateEntry(r, n, g)
    <2> DEFINE doc == [deleted |-> FALSE, number |-> n, lead |-> None, group |-> g]
               e == Len(entries) + 1
    <2>1. doc \in EntryDocs /\ doc.lead = None /\ entries' = Append(entries, doc) /\ leads' = leads
        BY <1>6 DEF CreateEntry, EntryDocs
    <2> HIDE DEF doc
    <2>2. /\ e \in Int /\ e \notin DOMAIN entries /\ DOMAIN entries' = DOMAIN entries \cup {e}
          /\ entries'[e] = doc /\ \A i \in DOMAIN entries : entries'[i] = entries[i]
        BY <1>4, <2>1, AppendProperties
    <2>3. Linked(leads, entries') /\ Together(leads, entries', apart)
        BY <1>3, <2>1, <2>2, KeptDocs, NewEntry
    <2>4. Tidy(Nothing, leads, entries', apart)
        BY <2>3, Rests
    <2> QED BY <1>2, <2>1, <2>4, Gone
<1> QED BY <1>1, <1>5, <1>6

-----------------------------------------------------------------------------
(* A lead edited, and an entry. *)

LEMMA EditLeadBeginTidy ==
    ASSUME IInv, NEW r \in Requests, NEW l \in LeadIds, EditLeadBegin(r, l),
           Tidy(requests[r], leads, entries, apart)
    PROVE  Tidy(requests'[r], leads', entries', apart')
<1>1. requests[r] = Nothing /\ UNCHANGED <<leads, entries, apart>> /\ l \in DOMAIN leads /\ ~leads[l].deleted
    BY DEF EditLeadBegin, Idle, LiveLead
<1>2. Linked(leads, entries) /\ Together(leads, entries, apart)
    BY <1>1, TidyNow, NothingHeld DEF Unfinished
<1>3. PICK n \in MaybeNumber, g \in MaybeGroup :
          Goto(r, [Nothing EXCEPT !.at = IF g = leads[l].group THEN "save_lead" ELSE "save_lead_move",
                                  !.lead = l,
                                  !.leadDoc = [leads[l] EXCEPT !.number = n, !.group = g]])
    BY DEF EditLeadBegin
<1> DEFINE doc == [leads[l] EXCEPT !.number = n, !.group = g]
           state == [Nothing EXCEPT !.at = IF g = leads[l].group THEN "save_lead" ELSE "save_lead_move",
                                    !.lead = l, !.leadDoc = doc]
<1>4. requests'[r] = state
    BY <1>3, Gone
<1>5. ~doc.deleted /\ doc.entry = leads[l].entry /\ doc.group = g
    BY <1>1, DocTypes DEF IInv, LeadDocs
<1>6. /\ state.at = IF g = leads[l].group THEN "save_lead" ELSE "save_lead_move"
      /\ state.lead = l /\ state.leadDoc = doc
    BY DEF Nothing
<1> HIDE DEF state, doc
<1>7. SubmitHeld(state, leads, entries) /\ EditHeld(state, leads, entries) /\ state.at \notin Unfinished
    BY <1>1, <1>5, <1>6 DEF SubmitHeld, EditHeld, Unfinished
<1>8. Tidy(state, leads, entries, apart)
    BY <1>2, <1>7, ComesTo
<1> QED BY <1>1, <1>4, <1>8

LEMMA SaveLeadTidy ==
    ASSUME IInv, NEW r \in Requests, SaveLead(r), Tidy(requests[r], leads, entries, apart)
    PROVE  Tidy(requests'[r], leads', entries', apart')
<1> DEFINE s == requests[r]
<1>1. /\ s.at \in {"save_lead", "save_lead_move"}
      /\ leads' = [leads EXCEPT ![s.lead] = s.leadDoc] /\ UNCHANGED <<entries, apart>>
    BY DEF SaveLead, SaveHeldLead
<1>2. /\ Linked(leads, entries) /\ Together(leads, entries, apart)
      /\ ~leads[s.lead].deleted /\ ~s.leadDoc.deleted /\ s.leadDoc.entry = leads[s.lead].entry
      /\ s.at = "save_lead" => s.leadDoc.group = leads[s.lead].group
    BY <1>1, TidyNow DEF Unfinished, Tidy, EditHeld
<1>3. /\ s \in RequestStates /\ s.leadDoc \in LeadDocs /\ s.lead \in DOMAIN leads
      /\ s.leadDoc.entry # None => s.leadDoc.entry \in DOMAIN entries
    BY <1>1 DEF IInv, Sound, LeadHeld, LeadKnown, LeadReal
<1>4. leads[s.lead] \in LeadDocs /\ s.leadDoc.deleted = leads[s.lead].deleted
    BY <1>2, <1>3, DocTypes DEF IInv, LeadDocs
<1>5. CASE s.at = "save_lead_move" /\ s.leadDoc.entry # None
    <2> DEFINE e == s.leadDoc.entry
               far == [entries[e] EXCEPT !.group = s.leadDoc.group]
               es2 == [entries EXCEPT ![e].group = s.leadDoc.group]
               state == [s EXCEPT !.at = "read_entry"]
    <2>1. requests'[r] = state
        BY <1>5, Gone DEF SaveLead, On
    <2>2. state.at = "read_entry" /\ state.lead = s.lead /\ state.leadDoc = s.leadDoc
        BY <1>3 DEF RequestStates
    <2>3. e \in DOMAIN entries /\ entries[e] \in EntryDocs
        BY <1>3, <1>5, DocTypes DEF IInv
    <2>4. far.lead = entries[e].lead /\ far.deleted = entries[e].deleted /\ far.group = s.leadDoc.group
        BY <2>3 DEF EntryDocs
    <2>5. Saved(leads', leads, s.lead, s.leadDoc) /\ Saved(es2, entries, e, far)
        BY <1>1, <1>3, <2>3 DEF Saved
    <2> HIDE DEF state, far
    <2>6. LeadsToBe(state, leads') = leads' /\ EntriesToBe(state, entries) = es2 /\ ApartToBe(state, apart) = apart \ {s.lead}
        BY <2>2 DEF LeadsToBe, EntriesToBe, ApartToBe
    <2>7. SubmitHeld(state, leads', entries) /\ EditHeld(state, leads', entries)
        BY <2>2 DEF SubmitHeld, EditHeld
    <2> HIDE DEF es2
    <2>8. Linked(leads', es2) /\ Together(leads', es2, apart \ {s.lead})
        BY <1>2, <1>3, <2>3, <2>4, <2>5, LeadMoved
    <2>9. Tidy(state, leads', entries, apart)
        BY <2>6, <2>7, <2>8 DEF Tidy
    <2> QED BY <1>1, <2>1, <2>9
<1>6. CASE ~(s.at = "save_lead_move" /\ s.leadDoc.entry # None)
    <2>1. requests'[r] = Nothing
        BY <1>6, Gone DEF SaveLead, End
    <2>2. s.leadDoc.group = leads[s.lead].group \/ s.leadDoc.entry = None
        BY <1>1, <1>2, <1>6
    <2>3. Linked(leads', entries) /\ Together(leads', entries, apart)
        BY <1>1, <1>2, <1>3, <1>4, <2>2, KeptDocs, LeadRenumbered
    <2>4. Tidy(Nothing, leads', entries, apart)
        BY <2>3, Rests
    <2> QED BY <1>1, <2>1, <2>4
<1> QED BY <1>5, <1>6

LEMMA MirrorToEntryTidy ==
    ASSUME IInv, NEW r \in Requests, MirrorToEntry(r), Tidy(requests[r], leads, entries, apart)
    PROVE  Tidy(requests'[r], leads', entries', apart')
<1> DEFINE s == requests[r]
           e == s.leadDoc.entry
           g == s.leadDoc.group
           es2 == [entries EXCEPT ![e].group = g]
<1>1. s.at = "read_entry" /\ UNCHANGED <<leads, entries>> /\ apart' = apart \ {s.lead}
    BY DEF MirrorToEntry
<1>2. LeadsToBe(s, leads) = leads /\ EntriesToBe(s, entries) = es2 /\ ApartToBe(s, apart) = apart'
    BY <1>1 DEF LeadsToBe, EntriesToBe, ApartToBe
<1>3. Linked(leads, es2) /\ Together(leads, es2, apart')
    BY <1>2 DEF Tidy
<1>4. s \in RequestStates /\ s.leadDoc \in LeadDocs /\ e \in DOMAIN entries
    BY <1>1 DEF IInv, Sound, LeadHeld, LeadKnown, LeadReal
<1>5. entries[e] \in EntryDocs /\ entries \in Seq(EntryDocs)
    BY <1>4, DocTypes DEF IInv, TypeOK
<1>6. CASE entries[e].group = g
    <2>1. requests'[r] = Nothing
        BY <1>6, Gone DEF MirrorToEntry, End
    <2>2. [entries[e] EXCEPT !.group = g] = entries[e]
        BY <1>5, <1>6 DEF EntryDocs
    <2>3. es2 = entries
        BY <1>5, <2>2
    <2>4. Tidy(Nothing, leads, entries, apart')
        BY <1>3, <2>3, Rests
    <2> QED BY <1>1, <2>1, <2>4
<1>7. CASE entries[e].group # g
    <2> DEFINE state == [s EXCEPT !.at = "save_far_entry", !.entry = e, !.entryDoc = [entries[e] EXCEPT !.group = g]]
    <2>1. requests'[r] = state
        BY <1>7, Gone DEF MirrorToEntry
    <2>2. state.at = "save_far_entry" /\ state.entry = e /\ state.entryDoc = [entries[e] EXCEPT !.group = g]
        BY <1>4 DEF RequestStates
    <2> HIDE DEF state
    <2>3. LeadsToBe(state, leads) = leads /\ EntriesToBe(state, entries) = es2 /\ ApartToBe(state, apart') = apart'
        BY <2>2 DEF LeadsToBe, EntriesToBe, ApartToBe
    <2>4. SubmitHeld(state, leads, entries) /\ EditHeld(state, leads, entries)
        BY <2>2 DEF SubmitHeld, EditHeld
    <2> HIDE DEF es2
    <2>5. Tidy(state, leads, entries, apart')
        BY <1>3, <2>3, <2>4 DEF Tidy
    <2> QED BY <1>1, <2>1, <2>5
<1> QED BY <1>6, <1>7

LEMMA EditEntryBeginTidy ==
    ASSUME IInv, NEW r \in Requests, NEW e \in EntryIds, EditEntryBegin(r, e),
           Tidy(requests[r], leads, entries, apart)
    PROVE  Tidy(requests'[r], leads', entries', apart')
<1>1. requests[r] = Nothing /\ UNCHANGED <<leads, entries, apart>> /\ e \in DOMAIN entries /\ ~entries[e].deleted
    BY DEF EditEntryBegin, Idle, LiveEntry
<1>2. Linked(leads, entries) /\ Together(leads, entries, apart)
    BY <1>1, TidyNow, NothingHeld DEF Unfinished
<1>3. PICK n \in MaybeNumber, g \in MaybeGroup :
          Goto(r, [Nothing EXCEPT !.at = IF g = entries[e].group THEN "save_entry" ELSE "save_entry_move",
                                  !.entry = e, !.entryDoc = [entries[e] EXCEPT !.number = n, !.group = g]])
    BY DEF EditEntryBegin
<1> DEFINE doc == [entries[e] EXCEPT !.number = n, !.group = g]
           state == [Nothing EXCEPT !.at = IF g = entries[e].group THEN "save_entry" ELSE "save_entry_move",
                                    !.entry = e, !.entryDoc = doc]
<1>4. requests'[r] = state
    BY <1>3, Gone
<1>5. ~doc.deleted /\ doc.lead = entries[e].lead /\ doc.group = g
    BY <1>1, DocTypes DEF IInv, EntryDocs
<1>6. /\ state.at = IF g = entries[e].group THEN "save_entry" ELSE "save_entry_move"
      /\ state.entry = e /\ state.entryDoc = doc
    BY DEF Nothing
<1> HIDE DEF state, doc
<1>7. SubmitHeld(state, leads, entries) /\ EditHeld(state, leads, entries) /\ state.at \notin Unfinished
    BY <1>1, <1>5, <1>6 DEF SubmitHeld, EditHeld, Unfinished
<1>8. Tidy(state, leads, entries, apart)
    BY <1>2, <1>7, ComesTo
<1> QED BY <1>1, <1>4, <1>8

LEMMA SaveEntryTidy ==
    ASSUME IInv, NEW r \in Requests, SaveEntry(r), Tidy(requests[r], leads, entries, apart)
    PROVE  Tidy(requests'[r], leads', entries', apart')
<1> DEFINE s == requests[r]
<1>1. /\ s.at \in {"save_entry", "save_entry_move"}
      /\ entries' = [entries EXCEPT ![s.entry] = s.entryDoc] /\ UNCHANGED <<leads, apart>>
    BY DEF SaveEntry, SaveHeldEntry
<1>2. /\ Linked(leads, entries) /\ Together(leads, entries, apart)
      /\ ~entries[s.entry].deleted /\ s.entryDoc.lead = entries[s.entry].lead
      /\ s.at = "save_entry" => s.entryDoc.group = entries[s.entry].group
      /\ s.at = "save_entry_move" => ~s.entryDoc.deleted
    BY <1>1, TidyNow DEF Unfinished, Tidy, EditHeld
<1>3. /\ s \in RequestStates /\ s.entryDoc \in EntryDocs /\ s.entry \in DOMAIN entries
      /\ s.entryDoc.lead # None => s.entryDoc.lead \in DOMAIN leads
    BY <1>1 DEF IInv, Sound, EntryHeld, EntryReal
<1>4. CASE s.at = "save_entry_move" /\ s.entryDoc.lead # None
    <2> DEFINE l == s.entryDoc.lead
               far == [leads[l] EXCEPT !.group = s.entryDoc.group]
               ls2 == [leads EXCEPT ![l].group = s.entryDoc.group]
               state == [s EXCEPT !.at = "read_lead"]
    <2>1. requests'[r] = state
        BY <1>4, Gone DEF SaveEntry, On
    <2>2. state.at = "read_lead" /\ state.entryDoc = s.entryDoc
        BY <1>3 DEF RequestStates
    <2>3. l \in DOMAIN leads /\ leads[l] \in LeadDocs
        BY <1>3, <1>4, DocTypes DEF IInv
    <2>4. far.entry = leads[l].entry /\ far.deleted = leads[l].deleted /\ far.group = s.entryDoc.group
        BY <2>3 DEF LeadDocs
    <2>5. Saved(entries', entries, s.entry, s.entryDoc) /\ Saved(ls2, leads, l, far)
        BY <1>1, <1>3, <2>3 DEF Saved
    <2> HIDE DEF state, far
    <2>6. LeadsToBe(state, leads) = ls2 /\ EntriesToBe(state, entries') = entries' /\ ApartToBe(state, apart) = apart \ {l}
        BY <2>2 DEF LeadsToBe, EntriesToBe, ApartToBe
    <2>7. SubmitHeld(state, leads, entries') /\ EditHeld(state, leads, entries')
        BY <2>2 DEF SubmitHeld, EditHeld
    <2> HIDE DEF ls2
    <2>8. Linked(ls2, entries') /\ Together(ls2, entries', apart \ {l})
        BY <1>2, <1>3, <1>4, <2>3, <2>4, <2>5, EntryMoved
    <2>9. Tidy(state, leads, entries', apart)
        BY <2>6, <2>7, <2>8 DEF Tidy
    <2> QED BY <1>1, <2>1, <2>9
<1>5. CASE ~(s.at = "save_entry_move" /\ s.entryDoc.lead # None)
    <2>1. requests'[r] = Nothing
        BY <1>5, Gone DEF SaveEntry, End
    <2>2. s.entryDoc.group = entries[s.entry].group \/ s.entryDoc.lead = None
        BY <1>1, <1>2, <1>5
    <2>3. Linked(leads, entries') /\ Together(leads, entries', apart)
        BY <1>1, <1>2, <1>3, <2>2, KeptDocs, EntryRenumbered
    <2>4. Tidy(Nothing, leads, entries', apart)
        BY <2>3, Rests
    <2> QED BY <1>1, <2>1, <2>4
<1> QED BY <1>4, <1>5

LEMMA MirrorToLeadTidy ==
    ASSUME IInv, NEW r \in Requests, MirrorToLead(r), Tidy(requests[r], leads, entries, apart)
    PROVE  Tidy(requests'[r], leads', entries', apart')
<1> DEFINE s == requests[r]
           l == s.entryDoc.lead
           g == s.entryDoc.group
           ls2 == [leads EXCEPT ![l].group = g]
<1>1. s.at = "read_lead" /\ UNCHANGED <<leads, entries>> /\ apart' = apart \ {l}
    BY DEF MirrorToLead
<1>2. LeadsToBe(s, leads) = ls2 /\ EntriesToBe(s, entries) = entries /\ ApartToBe(s, apart) = apart'
    BY <1>1 DEF LeadsToBe, EntriesToBe, ApartToBe
<1>3. Linked(ls2, entries) /\ Together(ls2, entries, apart')
    BY <1>2 DEF Tidy
<1>4. s \in RequestStates /\ s.entryDoc \in EntryDocs /\ l \in DOMAIN leads
    BY <1>1 DEF IInv, Sound, EntryHeld, EntryReal
<1>5. leads[l] \in LeadDocs /\ leads \in Seq(LeadDocs)
    BY <1>4, DocTypes DEF IInv, TypeOK
<1>6. CASE leads[l].group = g
    <2>1. requests'[r] = Nothing
        BY <1>6, Gone DEF MirrorToLead, End
    <2>2. [leads[l] EXCEPT !.group = g] = leads[l]
        BY <1>5, <1>6 DEF LeadDocs
    <2>3. ls2 = leads
        BY <1>5, <2>2
    <2>4. Tidy(Nothing, leads, entries, apart')
        BY <1>3, <2>3, Rests
    <2> QED BY <1>1, <2>1, <2>4
<1>7. CASE leads[l].group # g
    <2> DEFINE state == [s EXCEPT !.at = "save_far_lead", !.lead = l, !.leadDoc = [leads[l] EXCEPT !.group = g]]
    <2>1. requests'[r] = state
        BY <1>7, Gone DEF MirrorToLead
    <2>2. state.at = "save_far_lead" /\ state.lead = l /\ state.leadDoc = [leads[l] EXCEPT !.group = g]
        BY <1>4 DEF RequestStates
    <2> HIDE DEF state
    <2>3. LeadsToBe(state, leads) = ls2 /\ EntriesToBe(state, entries) = entries /\ ApartToBe(state, apart') = apart'
        BY <2>2 DEF LeadsToBe, EntriesToBe, ApartToBe
    <2>4. SubmitHeld(state, leads, entries) /\ EditHeld(state, leads, entries)
        BY <2>2 DEF SubmitHeld, EditHeld
    <2> HIDE DEF ls2
    <2>5. Tidy(state, leads, entries, apart')
        BY <1>3, <2>3, <2>4 DEF Tidy
    <2> QED BY <1>1, <2>1, <2>5
<1> QED BY <1>6, <1>7

-----------------------------------------------------------------------------
(* Deletes and resets. *)

LEMMA DeleteBeginTidy ==
    ASSUME IInv, NEW r \in Requests, Tidy(requests[r], leads, entries, apart),
           \/ \E e \in EntryIds : DeleteEntryBegin(r, e)
           \/ \E l \in LeadIds : DeleteLeadBegin(r, l)
    PROVE  Tidy(requests'[r], leads', entries', apart')
<1>1. requests[r] = Nothing /\ UNCHANGED <<leads, entries, apart>>
    BY DEF DeleteEntryBegin, DeleteLeadBegin, Idle
<1>2. Linked(leads, entries) /\ Together(leads, entries, apart)
    BY <1>1, TidyNow, NothingHeld DEF Unfinished
<1>3. ASSUME NEW e \in EntryIds, DeleteEntryBegin(r, e)
      PROVE  Tidy(requests'[r], leads', entries', apart')
    <2> DEFINE doc == [entries[e] EXCEPT !.deleted = TRUE]
               state == [Nothing EXCEPT !.at = "save_entry", !.entry = e, !.entryDoc = doc]
    <2>1. requests'[r] = state
        BY <1>3, Gone DEF DeleteEntryBegin
    <2>2. e \in DOMAIN entries /\ ~entries[e].deleted
        BY <1>3 DEF DeleteEntryBegin, LiveEntry
    <2>3. doc.lead = entries[e].lead /\ doc.group = entries[e].group
        BY <2>2, DocTypes DEF IInv, EntryDocs
    <2>4. state.at = "save_entry" /\ state.entry = e /\ state.entryDoc = doc
        BY DEF Nothing
    <2> HIDE DEF state, doc
    <2>5. SubmitHeld(state, leads, entries) /\ EditHeld(state, leads, entries) /\ state.at \notin Unfinished
        BY <2>2, <2>3, <2>4 DEF SubmitHeld, EditHeld, Unfinished
    <2>6. Tidy(state, leads, entries, apart)
        BY <1>2, <2>5, ComesTo
    <2> QED BY <1>1, <2>1, <2>6
<1>4. ASSUME NEW l \in LeadIds, DeleteLeadBegin(r, l)
      PROVE  Tidy(requests'[r], leads', entries', apart')
    <2> DEFINE state == [Nothing EXCEPT !.at = "save_deleted_lead", !.lead = l,
                                        !.leadDoc = [leads[l] EXCEPT !.deleted = TRUE]]
    <2>1. requests'[r] = state
        BY <1>4, Gone DEF DeleteLeadBegin
    <2>2. state.at = "save_deleted_lead" /\ state.lead = l /\ state.leadDoc = [leads[l] EXCEPT !.deleted = TRUE]
        BY DEF Nothing
    <2> HIDE DEF state
    <2>3. SubmitHeld(state, leads, entries) /\ EditHeld(state, leads, entries) /\ state.at \notin Unfinished
        BY <2>2 DEF SubmitHeld, EditHeld, Unfinished
    <2>4. Tidy(state, leads, entries, apart)
        BY <1>2, <2>3, ComesTo
    <2> QED BY <1>1, <2>1, <2>4
<1> QED BY <1>3, <1>4

LEMMA SaveDeletedLeadTidy ==
    ASSUME IInv, NEW r \in Requests, SaveDeletedLead(r), Tidy(requests[r], leads, entries, apart)
    PROVE  Tidy(requests'[r], leads', entries', apart')
<1> DEFINE s == requests[r]
           state == [s EXCEPT !.at = "release"]
<1>1. /\ s.at = "save_deleted_lead" /\ leads' = [leads EXCEPT ![s.lead] = s.leadDoc]
      /\ UNCHANGED <<entries, apart>>
    BY DEF SaveDeletedLead, SaveHeldLead
<1>2. /\ Linked(leads, entries) /\ Together(leads, entries, apart)
      /\ s.leadDoc = [leads[s.lead] EXCEPT !.deleted = TRUE]
    BY <1>1, TidyNow DEF Unfinished, Tidy, EditHeld
<1>3. s \in RequestStates /\ s.lead \in DOMAIN leads /\ leads[s.lead] \in LeadDocs
    BY <1>1, DocTypes DEF IInv, Sound, LeadKnown
<1>4. s.leadDoc.deleted
    BY <1>2, <1>3 DEF LeadDocs
<1>5. Saved(leads', leads, s.lead, s.leadDoc)
    BY <1>1, <1>3 DEF Saved
<1>6. Linked(leads', Back(entries, {s.lead})) /\ Together(leads', Back(entries, {s.lead}), apart)
    BY <1>2, <1>3, <1>4, <1>5, KeptDocs, LeadGone
<1>7. requests'[r] = state
    BY Gone DEF SaveDeletedLead, On
<1>8. state.at = "release" /\ state.lead = s.lead
    BY <1>3 DEF RequestStates
<1> HIDE DEF state
<1>9. LeadsToBe(state, leads') = leads' /\ EntriesToBe(state, entries) = Back(entries, {s.lead}) /\ ApartToBe(state, apart) = apart
    BY <1>8 DEF LeadsToBe, EntriesToBe, ApartToBe
<1>10. SubmitHeld(state, leads', entries) /\ EditHeld(state, leads', entries)
    BY <1>8 DEF SubmitHeld, EditHeld
<1>11. Tidy(state, leads', entries, apart)
    BY <1>6, <1>9, <1>10 DEF Tidy
<1> QED BY <1>1, <1>7, <1>11

(* The last writes of a delete and of a reset. *)
LEMMA ReleaseTidy ==
    ASSUME IInv, NEW r \in Requests, Tidy(requests[r], leads, entries, apart),
           Release(r) \/ ResetRelease(r) \/ (ResetEntries(r) /\ ~Idle(r))
    PROVE  Tidy(requests'[r], leads', entries', apart')
<1>1. /\ requests[r].at \in {"release", "reset_release", "reset_entries"}
      /\ Goto(r, Nothing) /\ UNCHANGED <<leads, apart>>
    BY DEF Release, ResetRelease, ResetEntries, End
<1>2. entries' = EntriesToBe(requests[r], entries)
    BY DEF Release, ResetRelease, ResetEntries, HandedBack, EntriesToBe, Back, AllDeleted
<1>3. leads' = LeadsToBe(requests[r], leads) /\ apart' = ApartToBe(requests[r], apart)
    BY <1>1 DEF LeadsToBe, ApartToBe
<1> QED BY <1>1, <1>2, <1>3, Gone, Ends

LEMMA ResetLeadsTidy ==
    ASSUME IInv, NEW r \in Requests, NEW scope, ResetLeads(r, scope), Tidy(requests[r], leads, entries, apart)
    PROVE  Tidy(requests'[r], leads', entries', apart')
<1> DEFINE state == [requests[r] EXCEPT !.at = IF scope = "all" THEN "reset_entries" ELSE "reset_release"]
           es2 == IF scope = "all" THEN AllDeleted(entries) ELSE Back(entries, LeadIds)
<1>1. requests[r] = Nothing /\ leads' = AllDeleted(leads) /\ UNCHANGED <<entries, apart>>
    BY DEF ResetLeads, Idle, AllDeleted
<1>2. requests'[r] = state
    BY Gone DEF ResetLeads, On
<1>3. state.at = IF scope = "all" THEN "reset_entries" ELSE "reset_release"
    BY <1>1 DEF Nothing
<1> HIDE DEF state
<1>4. LeadsToBe(state, leads') = leads' /\ EntriesToBe(state, entries) = es2 /\ ApartToBe(state, apart) = apart
    BY <1>3 DEF LeadsToBe, EntriesToBe, ApartToBe
<1>5. SubmitHeld(state, leads', entries) /\ EditHeld(state, leads', entries)
    BY <1>3 DEF SubmitHeld, EditHeld
<1>6. DOMAIN leads \subseteq LeadIds
    BY DocTypes DEF IInv
<1>7. Linked(leads', es2) /\ Together(leads', es2, apart)
    BY <1>1, <1>6, KeptDocs, LeadsGone
<1> HIDE DEF es2
<1>8. Tidy(state, leads', entries, apart)
    BY <1>4, <1>5, <1>7 DEF Tidy
<1> QED BY <1>1, <1>2, <1>8

(* A reset of the Induction board alone. *)
LEMMA ResetEntriesTidy ==
    ASSUME IInv, NEW r \in Requests, ResetEntries(r), Tidy(requests[r], leads, entries, apart)
    PROVE  Tidy(requests'[r], leads', entries', apart')
<1>1. CASE ~Idle(r)
    BY <1>1, ReleaseTidy
<1>2. CASE Idle(r)
    <2>1. Goto(r, Nothing) /\ UNCHANGED <<leads, apart>> /\ entries' = AllDeleted(entries)
        BY DEF ResetEntries, End, AllDeleted
    <2>2. Linked(leads, entries) /\ Together(leads, entries, apart)
        BY <1>2, TidyNow, NothingHeld DEF Unfinished, Idle
    <2>3. Linked(leads, AllDeleted(entries)) /\ Together(leads, AllDeleted(entries), apart)
        BY <2>2, KeptDocs, EntriesGone
    <2>4. Tidy(Nothing, leads, AllDeleted(entries), apart)
        BY <2>3, Rests
    <2> QED BY <2>1, <2>4, Gone
<1> QED BY <1>1, <1>2

-----------------------------------------------------------------------------
(* A process that starts. *)

(* Filling gaps changes no link, and numbers no group either. *)
LEMMA LeadGapsFilled ==
    ASSUME IInv, NEW ls2, ls2 \in NumbersFilled(leads) \/ ls2 \in GroupsFilled(leads)
    PROVE  /\ DOMAIN ls2 = DOMAIN leads
           /\ \A l \in DOMAIN leads : ls2[l].deleted = leads[l].deleted /\ ls2[l].entry = leads[l].entry
           /\ ls2 \in NumbersFilled(leads) => \A l \in DOMAIN leads : ls2[l].group = leads[l].group
<1>1. \A l \in DOMAIN leads : leads[l] \in LeadDocs
    BY DocTypes DEF IInv
<1>2. ASSUME ls2 \in NumbersFilled(leads)
      PROVE  /\ DOMAIN ls2 = DOMAIN leads
             /\ \A l \in DOMAIN leads : /\ ls2[l].deleted = leads[l].deleted /\ ls2[l].entry = leads[l].entry
                                        /\ ls2[l].group = leads[l].group
    BY <1>1, <1>2 DEF NumbersFilled, LeadDocs
<1>3. ASSUME ls2 \in GroupsFilled(leads)
      PROVE  /\ DOMAIN ls2 = DOMAIN leads
             /\ \A l \in DOMAIN leads : ls2[l].deleted = leads[l].deleted /\ ls2[l].entry = leads[l].entry
    BY <1>1, <1>3 DEF GroupsFilled, LeadDocs
<1> QED BY <1>2, <1>3

LEMMA EntryGapsFilled ==
    ASSUME IInv, NEW es2, es2 \in NumbersFilled(entries) \/ es2 \in GroupsFilled(entries)
    PROVE  /\ DOMAIN es2 = DOMAIN entries
           /\ \A e \in DOMAIN entries : es2[e].deleted = entries[e].deleted /\ es2[e].lead = entries[e].lead
           /\ es2 \in NumbersFilled(entries) => \A e \in DOMAIN entries : es2[e].group = entries[e].group
<1>1. \A e \in DOMAIN entries : entries[e] \in EntryDocs
    BY DocTypes DEF IInv
<1>2. ASSUME es2 \in NumbersFilled(entries)
      PROVE  /\ DOMAIN es2 = DOMAIN entries
             /\ \A e \in DOMAIN entries : /\ es2[e].deleted = entries[e].deleted /\ es2[e].lead = entries[e].lead
                                          /\ es2[e].group = entries[e].group
    BY <1>1, <1>2 DEF NumbersFilled, EntryDocs
<1>3. ASSUME es2 \in GroupsFilled(entries)
      PROVE  /\ DOMAIN es2 = DOMAIN entries
             /\ \A e \in DOMAIN entries : es2[e].deleted = entries[e].deleted /\ es2[e].lead = entries[e].lead
    BY <1>1, <1>3 DEF GroupsFilled, EntryDocs
<1> QED BY <1>2, <1>3

LEMMA BootTidy ==
    ASSUME IInv, NEW r \in Requests, Boot(r), Tidy(requests[r], leads, entries, apart)
    PROVE  Tidy(requests'[r], leads', entries', apart')
<1>1. requests[r].at \notin Unfinished
    BY NothingHeld DEF Boot, BootNumbers, BootLeads, BootEntries, Idle, Unfinished
<1>2. Linked(leads, entries) /\ Together(leads, entries, apart)
    BY <1>1, TidyNow
<1>3. None \notin DOMAIN entries
    BY KeptDocs, NoneAssumption DEF Kept
<1>4. /\ requests[r] \in RequestStates
      /\ \/ requests'[r] = Nothing
         \/ \E place \in {"boot_leads", "boot_entries"} : requests'[r] = [requests[r] EXCEPT !.at = place]
    BY Gone DEF Boot, BootNumbers, BootLeads, BootEntries, On, End, IInv, TypeOK
<1>5. requests'[r].at \in {"idle", "boot_leads", "boot_entries"}
    BY <1>4, NothingHeld DEF RequestStates
<1>6. /\ requests'[r].at \notin Unfinished
      /\ SubmitHeld(requests'[r], leads', entries') /\ EditHeld(requests'[r], leads', entries')
    BY <1>5 DEF Unfinished, SubmitHeld, EditHeld
<1>7. SameLinks(leads, entries, leads', entries') /\ Together(leads', entries', apart')
    <2>1. CASE BootNumbers(r)
        <3>1. SameLinks(leads, entries, leads', entries')
            BY <2>1, LeadGapsFilled, EntryGapsFilled DEF BootNumbers, SameLinks
        <3>2. /\ \A l \in DOMAIN leads : leads'[l].group = leads[l].group
              /\ \A e \in DOMAIN entries : entries'[e].group = entries[e].group
              /\ apart' = apart
            BY <2>1, LeadGapsFilled, EntryGapsFilled DEF BootNumbers
        <3>3. ASSUME NEW l \in DOMAIN leads \ apart', leads'[l].entry \in DOMAIN entries'
              PROVE  /\ l \notin apart /\ leads'[l].group = leads[l].group
                     /\ entries'[leads[l].entry].group = entries[leads[l].entry].group
            BY <3>1, <3>2, <3>3 DEF SameLinks
        <3> QED BY <1>2, <3>1, <3>3, TogetherStays
    <2>2. CASE BootLeads(r)
        <3>1. SameLinks(leads, entries, leads', entries')
            BY <2>2, LeadGapsFilled DEF BootLeads, SameLinks
        <3>2. apart' = apart \cup OutOfStep(leads', entries) /\ entries' = entries
            BY <2>2 DEF BootLeads
        <3>3. \A l \in DOMAIN leads' \ apart' : leads'[l].entry \in DOMAIN entries => leads'[l].group = entries[leads'[l].entry].group
            BY <1>3, <3>2 DEF OutOfStep
        <3> QED BY <3>1, <3>2, <3>3 DEF Together
    <2>3. CASE BootEntries(r)
        <3>1. SameLinks(leads, entries, leads', entries')
            BY <2>3, EntryGapsFilled DEF BootEntries, SameLinks
        <3>2. apart' = apart \cup OutOfStep(leads, entries') /\ leads' = leads /\ DOMAIN entries' = DOMAIN entries
            BY <2>3, EntryGapsFilled DEF BootEntries
        <3>3. \A l \in DOMAIN leads \ apart' : leads[l].entry \in DOMAIN entries' => leads[l].group = entries'[leads[l].entry].group
            BY <1>3, <3>2 DEF OutOfStep
        <3> QED BY <3>1, <3>2, <3>3 DEF Together
    <2> QED BY <2>1, <2>2, <2>3 DEF Boot
<1>8. Linked(leads', entries')
    BY <1>2, <1>7, LinkedStays
<1> QED BY <1>6, <1>7, <1>8, ComesTo

(* A request that stops with nothing left to write.                        *)
LEMMA CrashTidy ==
    ASSUME IInv, NEW r \in Requests, Crash(r), ~HalfDone(r), Tidy(requests[r], leads, entries, apart)
    PROVE  Tidy(requests'[r], leads', entries', apart')
<1> DEFINE s == requests[r]
<1>1. requests'[r] = Nothing /\ UNCHANGED <<leads, entries, apart>>
    BY DEF Crash, IInv, TypeOK
<1>2. Linked(leads, entries) /\ Together(leads, entries, apart)
    <2>1. CASE s.at = "save_merge"
        <3>1. s.leadDoc = leads[s.lead]
            BY <2>1 DEF HalfDone, Tidy, SubmitHeld
        <3>2. [leads EXCEPT ![s.lead] = leads[s.lead]] = leads
            BY DEF IInv, TypeOK
        <3>3. LeadsToBe(s, leads) = leads /\ EntriesToBe(s, entries) = entries /\ ApartToBe(s, apart) = apart
            BY <2>1, <3>1, <3>2 DEF LeadsToBe, EntriesToBe, ApartToBe
        <3> QED BY <3>3 DEF Tidy
    <2>2. CASE s.at # "save_merge"
        <3>1. s.at \notin Unfinished
            BY <2>2 DEF HalfDone, Unfinished
        <3> QED BY <3>1, TidyNow
    <2> QED BY <2>1, <2>2
<1>3. Tidy(Nothing, leads, entries, apart)
    BY <1>2, Rests
<1> QED BY <1>1, <1>3

-----------------------------------------------------------------------------
(* The theorems about requests that do not overlap. *)

LEMMA InitUndisturbed == Init => Undisturbed
<1> SUFFICES ASSUME Init PROVE Undisturbed
    OBVIOUS
<1>1. DOMAIN leads = {} /\ DOMAIN entries = {}
    BY EmptySeq DEF Init
<1>2. Linked(leads, entries) /\ Together(leads, entries, apart)
    BY <1>1 DEF Linked, Together
<1>3. Tidy(Nothing, leads, entries, apart)
    BY <1>2, Rests
<1>4. \A r \in Requests : requests[r] = Nothing
    BY DEF Init
<1> QED BY <1>3, <1>4 DEF Undisturbed

LEMMA NextUndisturbed == IInv /\ Undisturbed /\ [Next]_vars => Undisturbed'
<1> SUFFICES ASSUME IInv, Undisturbed, [Next]_vars PROVE Undisturbed'
    OBVIOUS
<1>1. ASSUME NEW r \in Requests,
             Submit(r) \/ Create(r) \/ EditLead(r) \/ EditEntry(r) \/ Delete(r) \/ Reset(r) \/ Boot(r) \/ Crash(r),
             ~disturbed'
      PROVE  /\ Settled' => Tidy(Nothing, leads, entries, apart)'
             /\ \A q \in Requests : Alone(q)' => Tidy(requests[q], leads, entries, apart)'
    <2>1. \E state : /\ requests' = [requests EXCEPT ![r] = state]
                     /\ ~disturbed /\ Alone(r) /\ (Crash(r) => ~HalfDone(r))
        <3>1. CASE Crash(r)
            BY <1>1, <3>1 DEF Crash
        <3>2. CASE ~Crash(r)
            <4>1. \E state : Goto(r, state)
                <5>1. CASE Submit(r)
                    BY <5>1 DEF Submit, SubmitBegin, FindEntry, InsertLead, LinkNew, LateMatch, LinkLate, SaveMerge, Matched, On, End
                <5>2. CASE Create(r)
                    BY <5>2 DEF Create, CreateLead, CreateEntry, End
                <5>3. CASE EditLead(r)
                    BY <5>3 DEF EditLead, EditLeadBegin, SaveLead, MirrorToEntry, SaveFarEntry, On, End
                <5>4. CASE EditEntry(r)
                    BY <5>4 DEF EditEntry, EditEntryBegin, SaveEntry, MirrorToLead, SaveFarLead, On, End
                <5>5. CASE Delete(r)
                    BY <5>5 DEF Delete, DeleteEntryBegin, DeleteLeadBegin, SaveDeletedLead, Release, On, End
                <5>6. CASE Reset(r)
                    BY <5>6 DEF Reset, ResetLeads, ResetEntries, ResetRelease, On, End
                <5>7. CASE Boot(r)
                    BY <5>7 DEF Boot, BootNumbers, BootLeads, BootEntries, On, End
                <5> QED BY <1>1, <3>2, <5>1, <5>2, <5>3, <5>4, <5>5, <5>6, <5>7
            <4> QED BY <1>1, <3>2, <4>1 DEF Goto
        <3> QED BY <3>1, <3>2
    <2>2. Tidy(requests[r], leads, entries, apart)
        BY <2>1 DEF Undisturbed
    <2>3. Tidy(requests'[r], leads', entries', apart')
        <3>1. CASE Submit(r)
            BY <2>2, <3>1, SubmitBeginTidy, FindEntryTidy, InsertLeadTidy, LinkNewTidy, LateMatchTidy, LinkLateTidy,
               SaveMergeTidy DEF Submit
        <3>2. CASE Create(r)
            BY <2>2, <3>2, CreateTidy
        <3>3. CASE EditLead(r)
            BY <2>2, <3>3, EditLeadBeginTidy, SaveLeadTidy, MirrorToEntryTidy, LinkNewTidy DEF EditLead
        <3>4. CASE EditEntry(r)
            BY <2>2, <3>4, EditEntryBeginTidy, SaveEntryTidy, MirrorToLeadTidy, SaveMergeTidy DEF EditEntry
        <3>5. CASE Delete(r)
            BY <2>2, <3>5, DeleteBeginTidy, SaveDeletedLeadTidy, ReleaseTidy DEF Delete
        <3>6. CASE Reset(r)
            BY <2>2, <3>6, ResetLeadsTidy, ResetEntriesTidy, ReleaseTidy DEF Reset
        <3>7. CASE Boot(r)
            BY <2>2, <3>7, BootTidy
        <3>8. CASE Crash(r)
            BY <2>1, <2>2, <3>8, CrashTidy
        <3> QED BY <1>1, <3>1, <3>2, <3>3, <3>4, <3>5, <3>6, <3>7, <3>8
    <2>4. \A q \in Requests \ {r} : requests'[q] = Nothing
        BY <2>1 DEF Alone, IInv, TypeOK
    <2>5. ASSUME Settled' PROVE Tidy(Nothing, leads', entries', apart')
        BY <2>3, <2>5 DEF Settled, Idle
    <2>6. ASSUME NEW q \in Requests, Alone(q)' PROVE Tidy(requests'[q], leads', entries', apart')
        <3>1. CASE q = r
            BY <2>3, <3>1
        <3>2. CASE q # r
            <4>1. requests'[r] = Nothing /\ requests'[q] = Nothing
                BY <2>4, <2>6, <3>2 DEF Alone
            <4> QED BY <2>3, <4>1
        <3> QED BY <3>1, <3>2
    <2> QED BY <2>5, <2>6
<1>2. CASE UNCHANGED vars
    <2>1. /\ leads' = leads /\ entries' = entries /\ requests' = requests
          /\ disturbed' = disturbed /\ apart' = apart
        BY <1>2 DEF vars
    <2> QED BY <2>1 DEF Undisturbed, Settled, Idle, Alone
<1> QED BY <1>1, <1>2 DEF Next, Undisturbed

LEMMA AlwaysUndisturbed == Spec => [](IInv /\ Undisturbed)
<1>1. Init => IInv /\ Undisturbed
    BY InitIInv, InitUndisturbed
<1>2. IInv /\ Undisturbed /\ [Next]_vars => (IInv /\ Undisturbed)'
    BY NextIInv, NextUndisturbed
<1> QED BY <1>1, <1>2, PTL DEF Spec

LEMMA SettledIsLinked ==
    ASSUME Undisturbed, Settled
    PROVE  Linked(leads, entries) /\ Together(leads, entries, apart)
BY TidyNow, NothingHeld DEF Undisturbed, Settled, Unfinished

(* The two directions of the link agree once requests that did not overlap *)
(* and did not stop half-way are through (_link, LeadService.delete and    *)
(* its neighbours), whatever they were and however many there are.         *)
THEOREM LinkDirectionsAgree == Spec => []LinksAgree
<1>1. IInv /\ Undisturbed => LinksAgree
    <2> SUFFICES ASSUME Undisturbed, Settled PROVE LinksAgree
        BY DEF LinksAgree
    <2> QED BY SettledIsLinked DEF LinksAgree, Linked, LiveLead, LiveEntry
<1> QED BY <1>1, AlwaysUndisturbed, PTL

(* Deletes that finished, one request after another, have released their   *)
(* entries: none reads as moved while its lead is gone, which would put it *)
(* on neither board (LeadService.delete, reset_leads).  A delete cut short *)
(* between its two writes does strand its entries; `disturbed` excuses it. *)
THEOREM FinishedDeletesRelease == Spec => []OnOneBoard
<1>1. IInv /\ Undisturbed => OnOneBoard
    <2> SUFFICES ASSUME Undisturbed, Settled PROVE OnOneBoard
        BY DEF OnOneBoard
    <2> QED BY SettledIsLinked DEF OnOneBoard, Linked, LiveLead, LiveEntry
<1> QED BY <1>1, AlwaysUndisturbed, PTL

(* A pair whose groups were the same when it was linked stays in the same  *)
(* group, whichever board it is moved on (foundation_group_sync).          *)
THEOREM PairsMoveTogether == Spec => []MovesTogether
<1>1. IInv /\ Undisturbed => MovesTogether
    <2> SUFFICES ASSUME Undisturbed, Settled PROVE MovesTogether
        BY DEF MovesTogether
    <2> QED BY SettledIsLinked DEF MovesTogether, SameGroup, Together, LiveLead, LiveEntry
<1> QED BY <1>1, AlwaysUndisturbed, PTL

(* A submission that was alone does not leave its lead without an entry    *)
(* while one with its number waits on the Induction board                  *)
(* (FoundationFormService.submit), whichever came first.                   *)
THEOREM SubmissionsLink == Spec => SubmissionLinks
<1>1. IInv /\ Undisturbed /\ [Next]_vars =>
          [\A r \in Requests, n \in Numbers :
              SubmitEnds(r) /\ requests[r].leadDoc.number = n /\ ~disturbed' =>
                  (leads'[SubmittedLead(r)].entry = None => Unconverted(n)' = {})]_vars
    <2> SUFFICES ASSUME IInv, Undisturbed, NEW r \in Requests, NEW n \in Numbers,
                        SubmitEnds(r), requests[r].leadDoc.number = n, ~disturbed',
                        leads'[SubmittedLead(r)].entry = None
                 PROVE  Unconverted(n)' = {}
        OBVIOUS
    <2> DEFINE s == requests[r]
    <2>1. ~disturbed /\ Alone(r)
        BY DEF SubmitEnds, InsertLead, LinkNew, SaveMerge, End, Goto
    <2>2. Tidy(s, leads, entries, apart)
        BY <2>1 DEF Undisturbed
    <2>3. SubmitHeld(s, leads, entries)
        BY <2>2 DEF Tidy
    <2>4. Waiting(n, entries) = {} /\ entries' = entries
        <3>1. CASE InsertLead(r)
            <4>1. /\ s.at = "insert_lead" /\ leads' = Append(leads, s.leadDoc) /\ entries' = entries
                  /\ SubmittedLead(r) = Len(leads) + 1
                BY <3>1 DEF InsertLead, SubmittedLead
            <4>2. s.leadDoc \in LeadDocs /\ leads \in Seq(LeadDocs)
                BY <4>1 DEF IInv, TypeOK, Sound, LeadHeld
            <4>3. leads'[Len(leads) + 1] = s.leadDoc
                BY <4>1, <4>2, AppendProperties
            <4>4. s.leadDoc.entry = None
                BY <4>1, <4>3
            <4>5. CASE s.entry = None
                BY <2>3, <4>1, <4>5 DEF SubmitHeld
            <4>6. CASE s.entry # None
                <5>1. s.leadDoc.entry = s.entry
                    BY <2>3, <4>1, <4>6 DEF SubmitHeld, MatchHeld
                <5> QED BY <4>4, <4>6, <5>1
            <4> QED BY <4>5, <4>6
        <3>2. CASE LinkNew(r)
            BY <2>3, <3>2 DEF LinkNew, SubmittedLead, SubmitHeld
        <3>3. CASE SaveMerge(r)
            <4>1. /\ s.at = "save_merge" /\ leads' = [leads EXCEPT ![s.lead] = s.leadDoc] /\ entries' = entries
                  /\ SubmittedLead(r) = s.lead
                BY <3>3 DEF SaveMerge, SaveHeldLead, SubmittedLead
            <4>2. s.lead \in DOMAIN leads
                BY <4>1 DEF IInv, Sound, LeadKnown
            <4>3. s.leadDoc.entry = None
                BY <4>1, <4>2
            <4> QED BY <2>3, <4>1, <4>3 DEF SubmitHeld
        <3> QED BY <3>1, <3>2, <3>3 DEF SubmitEnds
    <2> QED BY <2>4 DEF Unconverted, Waiting
<1> QED BY <1>1, AlwaysUndisturbed, PTL DEF Spec, SubmissionLinks

-----------------------------------------------------------------------------
(* The attendance boards: what is denied stays denied, a call's mark has   *)
(* its meeting, and a follow-up is of an unselected student, for any       *)
(* boards, meetings, and number of requests, syncs and unlinkings,         *)
(* overlapping as they may.                                                *)
(*                                                                         *)
(* A mark may come from the entry as a request read it, so the invariant   *)
(* says what such a copy may hold; and a meeting being unlinked has no     *)
(* mark left unless it was synced, or the entry saved over, meanwhile.     *)
MarkValues == {NoMark, ByHand("yes"), ByHand("no")} \cup {ByMeet(s) : s \in Meetings}

Entries == [marks : [Boards -> MarkValues], followUps : Nat, foundation : BOOLEAN]

CallRecords ==
    [who : {"me", "others"}, op : {"mark", "follow up"}, board : Boards \cup {"polls"}, marked : {"yes", "no", NoValue},
     phase : {"sent", "read", "ok"}, entry : Entries \cup {NoRow}, page : Nat, popup : Nat, undoes : BOOLEAN]

Pages == [board : Boards, side : {"all", "yes", "no", "to call", "elsewhere"}, popup : Nat, visit : Nat]
Counts == [calls : Nat, meets : Nat, turns : Nat]

RowValues == {NoRow} \cup {[there |-> TRUE, entry |-> e] : e \in Entries}

BoardTypes ==
    /\ entry \in Entries
    /\ page \in Pages
    /\ count \in Counts
    /\ row \in RowValues
    /\ calls \subseteq CallRecords
    /\ linked \subseteq Meetings /\ unlinks \subseteq Meetings
    /\ syncs \subseteq [meeting : Meetings, phase : {"reading", "applied"}]

(* What a request under way will write. *)
CallsSound ==
    \A c \in calls :
        /\ c.op = "mark" => c.board \in Boards
        /\ c.phase = "read" => c.entry \in Entries
        /\ c.phase = "read" /\ c.op = "follow up" => MayFollowUp(c.entry)
        /\ c.undoes => c.op = "mark" /\ c.marked = "no"

Denied == corrected \subseteq {b \in Boards : entry.marks[b] = ByHand("no")}

(* Nothing is left of a meeting being unlinked, nor on its way. *)
Leaving ==
    /\ unlinks \subseteq linked
    /\ \A y \in syncs : y.meeting \in linked \cup mixed /\ (y.meeting \in unlinks => y.meeting \in mixed)
    /\ \A b \in Boards, s \in unlinks \ mixed : entry.marks[b] # ByMeet(s)

Met == \A b \in Boards, s \in Meetings : entry.marks[b] = ByMeet(s) => s \in linked \cup mixed

BoardInv == BoardTypes /\ CallsSound /\ Denied /\ Leaving /\ Met

-----------------------------------------------------------------------------
(* Marks. *)

LEMMA MarkFields ==
    /\ NoMark.marked = NoValue /\ NoMark.origin = NoValue
    /\ ByHand(NoValue) = NoMark
    /\ \A m \in {"yes", "no"} : ByHand(m).marked = m /\ ByHand(m).origin = "manual"
    /\ \A s \in Meetings : ByMeet(s).marked = "yes" /\ ByMeet(s).origin = "meet" /\ ByMeet(s).meeting = s
BY DEF NoMark, ByHand, ByMeet, NoValue

LEMMA Handwritten == \A m \in {"yes", "no", NoValue} : ByHand(m) \in MarkValues /\ \A s \in Meetings : ByHand(m) # ByMeet(s)
BY MarkFields DEF MarkValues, NoValue

(* Only an answer of the data is denied, and it is denied with a no. *)
LEMMA DenialIsNo ==
    ASSUME NEW e \in Entries, NEW b \in Boards
    PROVE  /\ NextMark(Answer(e, b)) \in {"yes", "no", NoValue}
           /\ Answer(e, b).marked /\ Answer(e, b).source # "manual" => NextMark(Answer(e, b)) = "no"
<1>1. e.marks[b] \in MarkValues
    BY DEF Entries
<1>2. Answer(e, b).marked => Answer(e, b).source \in {"auto", "meet", "manual"}
    <2>1. CASE e.marks[b] = NoMark
        BY <2>1, MarkFields DEF Answer
    <2>2. CASE e.marks[b] # NoMark
        BY <1>1, <2>2, MarkFields DEF Answer, MarkValues, NoValue
    <2> QED BY <2>1, <2>2
<1> QED BY <1>2 DEF NextMark

LEMMA EntryFields ==
    ASSUME NEW e \in Entries
    PROVE  /\ e.marks \in [Boards -> MarkValues]
           /\ \A m \in [Boards -> MarkValues] : [e EXCEPT !.marks = m] \in Entries /\ [e EXCEPT !.marks = m].marks = m
           /\ [e EXCEPT !.followUps = @ + 1] \in Entries /\ [e EXCEPT !.followUps = @ + 1].marks = e.marks
BY DEF Entries

LEMMA CallFields ==
    ASSUME NEW c \in CallRecords
    PROVE  /\ c.op \in {"mark", "follow up"} /\ c.marked \in {"yes", "no", NoValue} /\ c.board \in Boards \cup {"polls"}
           /\ \A e \in Entries : LET d == [c EXCEPT !.phase = "read", !.entry = e]
                                  IN  /\ d \in CallRecords /\ d.phase = "read" /\ d.entry = e
                                      /\ d.op = c.op /\ d.board = c.board /\ d.marked = c.marked /\ d.undoes = c.undoes
           /\ LET d == [c EXCEPT !.phase = "ok", !.entry = NoRow, !.marked = NoValue, !.undoes = FALSE]
              IN  d \in CallRecords /\ d.phase = "ok" /\ d.op = c.op /\ d.board = c.board /\ ~d.undoes
BY DEF CallRecords

(* What a request saves: the entry it read, with its own mark or note.     *)
LEMMA WrittenMarks ==
    ASSUME NEW c \in CallRecords, c.entry \in Entries, c.op = "mark" => c.board \in Boards
    PROVE  /\ Written(c) \in Entries
           /\ \A b \in Boards : Written(c).marks[b] =
                 IF c.op = "mark" /\ b = c.board THEN ByHand(c.marked) ELSE c.entry.marks[b]
<1>1. CASE c.op = "mark"
    <2> DEFINE m == [c.entry.marks EXCEPT ![c.board] = ByHand(c.marked)]
    <2>1. m \in [Boards -> MarkValues]
        BY <1>1, EntryFields, CallFields, Handwritten
    <2>2. Written(c) = [c.entry EXCEPT !.marks = m]
        BY <1>1 DEF Written
    <2>3. \A b \in Boards : m[b] = IF b = c.board THEN ByHand(c.marked) ELSE c.entry.marks[b]
        BY <1>1, EntryFields
    <2> HIDE DEF m
    <2>4. Written(c) \in Entries /\ Written(c).marks = m
        BY <2>1, <2>2 DEF Entries
    <2> QED BY <1>1, <2>3, <2>4
<1>2. CASE c.op # "mark"
    BY <1>2, EntryFields DEF Written
<1> QED BY <1>1, <1>2

-----------------------------------------------------------------------------
(* The invariant. *)

LEMMA Started == BoardInit => BoardInv
<1> SUFFICES ASSUME BoardInit PROVE BoardInv
    OBVIOUS
<1>1. entry.marks = [b \in Boards |-> NoMark] /\ entry \in Entries
    <2>1. PICK f \in BOOLEAN : entry = [marks |-> [b \in Boards |-> NoMark], followUps |-> 0, foundation |-> f]
        BY DEF BoardInit
    <2> QED BY <2>1 DEF Entries, MarkValues
<1>2. page \in Pages /\ count \in Counts
    BY DEF BoardInit, Pages, Counts
<1>3. BoardTypes /\ CallsSound /\ Denied
    BY <1>1, <1>2 DEF BoardInit, BoardTypes, RowValues, CallsSound, Denied
<1>4. Leaving /\ Met
    BY <1>1, MarkFields DEF BoardInit, Leaving, Met, NoValue
<1> QED BY <1>3, <1>4 DEF BoardInv

(* Calls come and go without what is stored being touched. *)
LEMMA CallsChange ==
    ASSUME BoardInv, NEW c, calls' \subseteq calls \cup {c}, c \in calls \/ c \in CallRecords,
           c \in CallRecords =>
               /\ c.op = "mark" => c.board \in Boards
               /\ c.phase = "read" => c.entry \in Entries
               /\ c.phase = "read" /\ c.op = "follow up" => MayFollowUp(c.entry)
               /\ c.undoes => c.op = "mark" /\ c.marked = "no"
    PROVE  calls' \subseteq CallRecords /\ CallsSound'
BY DEF BoardInv, BoardTypes, CallsSound, MayFollowUp, Answer, FromFoundation

StoredAlone == UNCHANGED <<entry, linked, syncs, unlinks, corrected, mixed>>
PageTyped == page' \in Pages /\ count' \in Counts /\ row' \in RowValues

LEMMA NothingStored ==
    ASSUME BoardInv, StoredAlone, PageTyped, calls' \subseteq CallRecords, CallsSound'
    PROVE  BoardInv'
<1>1. BoardTypes'
    BY DEF BoardInv, BoardTypes, StoredAlone, PageTyped
<1>2. Denied' /\ Leaving' /\ Met'
    BY DEF BoardInv, Denied, Leaving, Met, StoredAlone
<1> QED BY <1>1, <1>2 DEF BoardInv

LEMMA PageFields ==
    ASSUME NEW p \in Pages
    PROVE  /\ p.board \in Boards /\ p.visit \in Nat /\ p.popup \in Nat
           /\ \A b \in Boards : [board |-> b, side |-> "all", popup |-> 0, visit |-> p.visit + 1] \in Pages
           /\ \A side \in {"all", "yes", "no", "to call", "elsewhere"} : [p EXCEPT !.side = side] \in Pages
           /\ \A n \in Nat : [p EXCEPT !.popup = n] \in Pages
<1>1. p.board \in Boards /\ p.visit \in Nat /\ p.popup \in Nat
    BY DEF Pages
<1>2. p.visit + 1 \in Nat
    BY <1>1
<1>3. \A b \in Boards : [board |-> b, side |-> "all", popup |-> 0, visit |-> p.visit + 1] \in Pages
    BY <1>2 DEF Pages
<1>4. /\ \A side \in {"all", "yes", "no", "to call", "elsewhere"} : [p EXCEPT !.side = side] \in Pages
      /\ \A n \in Nat : [p EXCEPT !.popup = n] \in Pages
    BY DEF Pages
<1> QED BY <1>1, <1>3, <1>4

LEMMA CountFields ==
    ASSUME NEW n \in Counts
    PROVE  n.calls \in Nat /\ n.meets \in Nat /\ n.turns \in Nat /\ n.turns + 1 \in Nat
BY DEF Counts

LEMMA RowFields ==
    ASSUME NEW r \in RowValues
    PROVE  r # NoRow => r.there = TRUE /\ r.entry \in Entries
BY DEF RowValues

LEMMA SpendTyped ==
    ASSUME NEW what \in {"calls", "meets", "turns"}, NEW bound, count \in Counts, Spend(what, bound)
    PROVE  count' \in Counts
BY DEF Spend, Counts

(* Turning pages, asking, and what the calls do before and after a save.   *)
LEMMA PagesTurn ==
    ASSUME BoardInv, \/ \E board \in Boards : Turn(board)
                     \/ \E side \in Sides : SelectSide(side)
                     \/ FilterAway \/ SelectFollowUps \/ OpenFollowUp \/ CloseFollowUp \/ Fetched
                     \/ \E s \in Meetings : LogArrives(s)
    PROVE  BoardInv'
<1>b. /\ page \in Pages /\ count \in Counts
      /\ row \in RowValues /\ entry \in Entries /\ calls \subseteq CallRecords /\ CallsSound
    BY DEF BoardInv, BoardTypes
<1>c. calls' = calls /\ StoredAlone
    BY DEF Turn, SelectSide, FilterAway, SelectFollowUps, OpenFollowUp, CloseFollowUp, Fetched, LogArrives, StoredAlone
<1>d. calls' \subseteq CallRecords /\ CallsSound'
    BY <1>b, <1>c DEF CallsSound, MayFollowUp, Answer, FromFoundation
<1>1. ASSUME NEW board \in Boards, Turn(board) PROVE PageTyped
    <2>1. page' = [board |-> board, side |-> "all", popup |-> 0, visit |-> page.visit + 1] /\ row' = NoRow
        BY <1>1 DEF Turn
    <2>2. page' \in Pages
        BY <1>b, <2>1, PageFields
    <2>3. page' \in Pages
        BY <2>2
    <2>4. count' \in Counts
        BY <1>1, <1>b, SpendTyped DEF Turn
    <2> QED BY <2>1, <2>3, <2>4 DEF PageTyped, RowValues
<1>2. ASSUME NEW side \in Sides, SelectSide(side) PROVE PageTyped
    <2>1. page' = [page EXCEPT !.side = side] /\ row' = row
        BY <1>2 DEF SelectSide
    <2>2. page' \in Pages
        BY <1>b, <2>1, SidesAssumption, PageFields
    <2>3. count' \in Counts
        BY <1>2, <1>b, SpendTyped DEF SelectSide
    <2> QED BY <1>b, <2>1, <2>2, <2>3 DEF PageTyped
<1>3. ASSUME FilterAway \/ SelectFollowUps PROVE PageTyped
    <2>1. row' = row /\ \E side \in {"to call", "elsewhere"} : page' = [page EXCEPT !.side = side]
        BY <1>3 DEF FilterAway, SelectFollowUps
    <2>2. page' \in Pages
        BY <1>b, <2>1, PageFields
    <2>3. count' \in Counts
        BY <1>3, <1>b, SpendTyped DEF FilterAway, SelectFollowUps
    <2> QED BY <1>b, <2>1, <2>2, <2>3 DEF PageTyped
<1>4. ASSUME OpenFollowUp PROVE PageTyped
    <2>1. row' = row /\ page' = [page EXCEPT !.popup = count.turns + 1]
        BY <1>4 DEF OpenFollowUp
    <2>2. count.turns + 1 \in Nat
        BY <1>b, CountFields
    <2>3. page' \in Pages
        BY <1>b, <2>1, <2>2, PageFields
    <2>4. count' \in Counts
        BY <1>4, <1>b, SpendTyped DEF OpenFollowUp
    <2> QED BY <1>b, <2>1, <2>3, <2>4 DEF PageTyped
<1>5. ASSUME CloseFollowUp PROVE PageTyped
    <2>1. row' = row /\ count' = count /\ page' = [page EXCEPT !.popup = 0]
        BY <1>5 DEF CloseFollowUp
    <2>2. page' \in Pages
        BY <1>b, <2>1, PageFields
    <2> QED BY <1>b, <2>1, <2>2 DEF PageTyped
<1>6. ASSUME Fetched PROVE PageTyped
    <2>1. page' = page /\ count' = count /\ row' = RowOf(entry, page.board, page.side)
        BY <1>6 DEF Fetched
    <2>2. row' \in RowValues
        BY <1>b, <2>1 DEF RowOf, RowValues
    <2> QED BY <1>b, <2>1, <2>2 DEF PageTyped
<1>7. ASSUME NEW s \in Meetings, LogArrives(s) PROVE PageTyped
    <2>1. page' = page /\ count' = count /\ row' = row
        BY <1>7 DEF LogArrives
    <2> QED BY <1>b, <2>1 DEF PageTyped
<1>8. PageTyped
    BY <1>1, <1>2, <1>3, <1>4, <1>5, <1>6, <1>7
<1> QED BY <1>c, <1>d, <1>8, NothingStored

LEMMA CallsMove ==
    ASSUME BoardInv, \/ PressMark \/ SaveFollowUp
                     \/ \E board \in Boards, marked \in OthersMarks : OthersCall("mark", board, marked)
                     \/ "polls" \in Boards /\ OthersCall("follow up", "polls", NoValue)
                     \/ \E c \in calls : ReadEntry(c) \/ Refused(c) \/ Answered(c)
    PROVE  BoardInv'
<1>b. /\ page \in Pages /\ count \in Counts
      /\ row \in RowValues /\ entry \in Entries /\ calls \subseteq CallRecords /\ CallsSound
    BY DEF BoardInv, BoardTypes
<1>c. StoredAlone
    BY DEF PressMark, SaveFollowUp, OthersCall, ReadEntry, Refused, Answered, StoredAlone
<1>d. PageTyped
    <2>1. row' = row /\ (count' = count \/ Spend("calls", MaxCalls))
        BY DEF PressMark, SaveFollowUp, OthersCall, ReadEntry, Refused, Answered
    <2>0. count' \in Counts
        BY <1>b, <2>1, SpendTyped
    <2>2. page' \in {page, [page EXCEPT !.popup = 0]}
        BY DEF PressMark, SaveFollowUp, OthersCall, ReadEntry, Refused, Answered
    <2>3. ASSUME page' = page PROVE page' \in Pages
        BY <1>b, <2>3
    <2>4. ASSUME page' = [page EXCEPT !.popup = 0] PROVE page' \in Pages
        BY <1>b, <2>4, PageFields
    <2>5. page' \in Pages
        BY <1>b, <2>2, <2>3, <2>4
    <2> QED BY <1>b, <2>5, <2>0, <2>1 DEF PageTyped
<1>1. CASE PressMark
    <2> DEFINE a == Answer(row.entry, page.board)
               c == Call("me", "mark", page.board, NextMark(a), page.visit, 0, a.marked /\ a.source # "manual")
    <2>0. row # NoRow
        <3>1. row.there
            BY <1>1 DEF PressMark
        <3>2. ~NoRow.there
            BY DEF NoRow
        <3> QED BY <3>1, <3>2, Zenon
    <2>1. row.entry \in Entries
        BY <1>b, <2>0, RowFields
    <2>2. NextMark(a) \in {"yes", "no", NoValue} /\ (a.marked /\ a.source # "manual" => NextMark(a) = "no")
        BY <2>1, <1>b, DenialIsNo, PageFields
    <2>3. calls' \subseteq calls \cup {c}
        BY <1>1 DEF PressMark
    <2> HIDE DEF a
    <2>4. (a.marked /\ a.source # "manual") \in BOOLEAN
        OBVIOUS
    <2>5. c \in CallRecords /\ c.op = "mark" /\ c.board = page.board /\ c.phase = "sent"
        BY <2>2, <2>4, <1>b DEF Call, CallRecords, Pages
    <2>6. c.undoes => c.marked = "no"
        BY <2>2, Zenon DEF Call
    <2> HIDE DEF c
    <2>7. c.board \in Boards
        BY <2>5, <1>b, PageFields
    <2>8. calls' \subseteq CallRecords /\ CallsSound'
        BY <2>3, <2>5, <2>6, <2>7, <1>b, CallsChange
    <2> QED BY <2>8, <1>c, <1>d, NothingStored
<1>2. CASE SaveFollowUp
    <2> DEFINE c == Call("me", "follow up", "polls", NoValue, page.visit, page.popup, FALSE)
    <2>1. calls' \subseteq calls \cup {c}
        BY <1>2 DEF SaveFollowUp
    <2>2. c \in CallRecords /\ c.op = "follow up" /\ c.phase = "sent" /\ ~c.undoes
        BY <1>b DEF Call, CallRecords, Pages
    <2> HIDE DEF c
    <2> QED BY <2>1, <2>2, <1>c, <1>d, CallsChange, NothingStored
<1>3. ASSUME NEW board \in Boards, NEW marked \in OthersMarks, OthersCall("mark", board, marked) PROVE BoardInv'
    <2> DEFINE c == Call("others", "mark", board, marked, 0, 0, FALSE)
    <2>1. calls' \subseteq calls \cup {c}
        BY <1>3 DEF OthersCall
    <2>2. c \in CallRecords /\ c.op = "mark" /\ c.board = board /\ c.phase = "sent" /\ ~c.undoes
        BY SidesAssumption DEF Call, CallRecords
    <2> HIDE DEF c
    <2> QED BY <2>1, <2>2, <1>c, <1>d, CallsChange, NothingStored
<1>4. CASE OthersCall("follow up", "polls", NoValue)
    <2> DEFINE c == Call("others", "follow up", "polls", NoValue, 0, 0, FALSE)
    <2>1. calls' \subseteq calls \cup {c}
        BY <1>4 DEF OthersCall
    <2>2. c \in CallRecords /\ c.op = "follow up" /\ c.phase = "sent" /\ ~c.undoes
        BY DEF Call, CallRecords
    <2> HIDE DEF c
    <2> QED BY <2>1, <2>2, <1>c, <1>d, CallsChange, NothingStored
<1>5. ASSUME NEW c \in calls, ReadEntry(c) PROVE BoardInv'
    <2> DEFINE d == [c EXCEPT !.phase = "read", !.entry = entry]
    <2>1. calls' \subseteq calls \cup {d} /\ (c.op = "follow up" => MayFollowUp(entry))
        BY <1>5 DEF ReadEntry
    <2>2. c \in CallRecords /\ (c.op = "mark" => c.board \in Boards) /\ (c.undoes => c.op = "mark" /\ c.marked = "no")
        BY <1>b DEF CallsSound
    <2>3. /\ d \in CallRecords /\ d.phase = "read" /\ d.entry = entry
          /\ d.op = c.op /\ d.board = c.board /\ d.marked = c.marked /\ d.undoes = c.undoes
        BY <2>2, <1>b, CallFields
    <2> HIDE DEF d
    <2>4. MayFollowUp(entry) => (d.phase = "read" /\ d.op = "follow up" => MayFollowUp(d.entry))
        BY <2>3
    <2>5. calls' \subseteq CallRecords /\ CallsSound'
        BY <2>1, <2>2, <2>3, <2>4, <1>b, CallsChange
    <2> QED BY <2>5, <1>c, <1>d, NothingStored
<1>6. ASSUME NEW c \in calls, Refused(c) \/ Answered(c) PROVE BoardInv'
    <2>1. calls' \subseteq calls \cup {c}
        BY <1>6 DEF Refused, Answered
    <2> QED BY <2>1, <1>b, <1>c, <1>d, CallsChange, NothingStored DEF CallsSound
<1> QED BY <1>1, <1>2, <1>3, <1>4, <1>5, <1>6

(* A save of the whole document: what it brings back of an older copy is   *)
(* no longer a denial of this user, and its meeting is mixed if it goes.   *)
LEMMA SaveKeeps ==
    ASSUME BoardInv, NEW c \in calls, SaveWhole(c)
    PROVE  BoardInv'
<1> DEFINE rewritten == {b \in Boards : c.entry.marks[b] # entry.marks[b]}
           d == [c EXCEPT !.phase = "ok", !.entry = NoRow, !.marked = NoValue, !.undoes = FALSE]
           mine(b) == c.op = "mark" /\ b = c.board
<1>a. /\ c.phase = "read" /\ entry' = Written(c)
      /\ calls' = (calls \ {c}) \cup {d}
      /\ corrected' = (corrected \ (rewritten \cup IF c.op = "mark" THEN {c.board} ELSE {}))
                          \cup IF c.undoes THEN {c.board} ELSE {}
      /\ mixed' = mixed \cup {s \in (Meetings \ linked) \cup unlinks : \E b \in rewritten : c.entry.marks[b].meeting = s}
      /\ UNCHANGED <<linked, page, row, syncs, unlinks, count>>
    BY DEF SaveWhole
<1>b. /\ c \in CallRecords /\ c.entry \in Entries /\ entry \in Entries
      /\ c.op = "mark" => c.board \in Boards
      /\ c.undoes => c.op = "mark" /\ c.marked = "no"
    BY <1>a DEF BoardInv, BoardTypes, CallsSound
<1>c. /\ entry' \in Entries
      /\ \A b \in Boards : entry'.marks[b] = IF mine(b) THEN ByHand(c.marked) ELSE c.entry.marks[b]
    BY <1>a, <1>b, WrittenMarks
<1>d. \A b \in Boards, s \in Meetings : mine(b) => entry'.marks[b] # ByMeet(s)
    <2>1. c.marked \in {"yes", "no", NoValue}
        BY <1>b, CallFields
    <2>2. \A s \in Meetings : ByHand(c.marked) # ByMeet(s)
        BY <2>1, Handwritten
    <2> QED BY <1>c, <2>2
<1>e. \A b \in Boards, s \in Meetings :
          entry'.marks[b] = ByMeet(s) => entry.marks[b] = ByMeet(s) \/ (b \in rewritten /\ c.entry.marks[b].meeting = s)
    BY <1>c, <1>d, MarkFields
<1>f. d \in CallRecords /\ d.phase = "ok" /\ d.op = c.op /\ d.board = c.board /\ ~d.undoes
    BY <1>b, CallFields
<1> HIDE DEF d
<1>g. calls' \subseteq CallRecords /\ CallsSound'
    BY <1>a, <1>b, <1>f, CallsChange
<1>1. BoardTypes'
    BY <1>a, <1>c, <1>g DEF BoardInv, BoardTypes
<1>2. Denied'
    <2> SUFFICES ASSUME NEW b \in corrected' PROVE b \in Boards /\ entry'.marks[b] = ByHand("no")
        BY DEF Denied
    <2>1. CASE c.undoes /\ b = c.board
        BY <2>1, <1>b, <1>c
    <2>2. CASE ~(c.undoes /\ b = c.board)
        <3>1. b \in corrected /\ b \notin rewritten /\ ~mine(b)
            BY <2>2, <1>a
        <3> QED BY <3>1, <1>c DEF BoardInv, Denied
    <2> QED BY <2>1, <2>2
<1>3. Leaving'
    <2>1. \A b \in Boards, s \in unlinks \ mixed' : entry'.marks[b] # ByMeet(s)
        <3> SUFFICES ASSUME NEW b \in Boards, NEW s \in unlinks, s \notin mixed', entry'.marks[b] = ByMeet(s)
                     PROVE  FALSE
            OBVIOUS
        <3>1. s \in Meetings /\ s \notin mixed
            BY <1>a DEF BoardInv, BoardTypes
        <3>2. entry.marks[b] # ByMeet(s)
            BY <3>1 DEF BoardInv, Leaving
        <3>3. b \in rewritten /\ c.entry.marks[b].meeting = s
            BY <3>1, <3>2, <1>e
        <3> QED BY <3>3, <1>a
    <2> QED BY <2>1, <1>a DEF BoardInv, Leaving
<1>4. Met'
    <2> SUFFICES ASSUME NEW b \in Boards, NEW s \in Meetings, entry'.marks[b] = ByMeet(s), s \notin linked
                 PROVE  s \in mixed'
        BY <1>a DEF Met
    <2>1. CASE entry.marks[b] = ByMeet(s)
        BY <2>1, <1>a DEF BoardInv, Met
    <2>2. CASE entry.marks[b] # ByMeet(s)
        <3>1. b \in rewritten /\ c.entry.marks[b].meeting = s
            BY <2>2, <1>e
        <3> QED BY <3>1, <1>a
    <2> QED BY <2>1, <2>2
<1> QED BY <1>1, <1>2, <1>3, <1>4, <1>g DEF BoardInv

(* The marks alone of what is stored, and what a meeting is doing.         *)
CallsAlone == UNCHANGED <<page, row, calls, corrected>> /\ count' \in Counts

LEMMA MeetingsTurn ==
    ASSUME BoardInv, CallsAlone, entry' \in Entries, linked' \subseteq Meetings, unlinks' \subseteq Meetings,
           syncs' \subseteq [meeting : Meetings, phase : {"reading", "applied"}], Denied', Leaving', Met'
    PROVE  BoardInv'
<1>1. BoardTypes'
    BY DEF BoardInv, BoardTypes, CallsAlone
<1>2. CallsSound'
    BY DEF BoardInv, CallsSound, CallsAlone, MayFollowUp, Answer, FromFoundation
<1> QED BY <1>1, <1>2 DEF BoardInv

LEMMA SyncsKeep ==
    ASSUME BoardInv, \/ \E s \in Meetings : LinkMeeting(s) \/ StartSync(s)
                     \/ \E y \in syncs : Apply(y) \/ EndSync(y) \/ DropSync(y)
    PROVE  BoardInv'
<1> DEFINE SyncRecords == [meeting : Meetings, phase : {"reading", "applied"}]
<1>b. /\ entry \in Entries /\ count \in Counts /\ linked \subseteq Meetings /\ unlinks \subseteq Meetings
      /\ syncs \subseteq SyncRecords /\ Denied /\ Leaving /\ Met
    BY DEF BoardInv, BoardTypes
<1>1. ASSUME NEW s \in Meetings, LinkMeeting(s) PROVE BoardInv'
    <2> DEFINE y == [meeting |-> s, phase |-> "reading"]
    <2>1. /\ linked' = linked \cup {s} /\ syncs' = syncs \cup {y} /\ s \notin linked
          /\ UNCHANGED <<entry, unlinks, corrected, mixed, page, row, calls>>
        BY <1>1 DEF LinkMeeting
    <2>2. count' \in Counts
        BY <1>1, <1>b, SpendTyped DEF LinkMeeting
    <2>3. y \in SyncRecords /\ y.meeting = s
        OBVIOUS
    <2>4. s \notin unlinks
        BY <2>1, <1>b DEF Leaving
    <2> HIDE DEF y
    <2>5. Leaving' /\ Met' /\ Denied'
        BY <1>b, <2>1, <2>3, <2>4 DEF Leaving, Met, Denied
    <2>6. syncs' \subseteq SyncRecords /\ linked' \subseteq Meetings
        BY <1>b, <2>1, <2>3
    <2> QED BY <1>b, <2>1, <2>2, <2>5, <2>6, MeetingsTurn DEF CallsAlone
<1>2. ASSUME NEW s \in Meetings, StartSync(s) PROVE BoardInv'
    <2> DEFINE y == [meeting |-> s, phase |-> "reading"]
    <2>1. /\ syncs' = syncs \cup {y} /\ s \in linked /\ mixed \subseteq mixed' /\ (s \in unlinks => s \in mixed')
          /\ UNCHANGED <<entry, linked, unlinks, corrected, page, row, calls>>
        BY <1>2 DEF StartSync
    <2>2. count' \in Counts
        BY <1>2, <1>b, SpendTyped DEF StartSync
    <2>3. y \in SyncRecords /\ y.meeting = s
        OBVIOUS
    <2> HIDE DEF y
    <2>4. Leaving'
        BY <1>b, <2>1, <2>3 DEF Leaving
    <2>5. Met' /\ Denied'
        BY <1>b, <2>1 DEF Met, Denied
    <2>6. syncs' \subseteq SyncRecords
        BY <1>b, <2>1, <2>3
    <2> QED BY <1>b, <2>1, <2>2, <2>4, <2>5, <2>6, MeetingsTurn DEF CallsAlone
<1>3. ASSUME NEW y \in syncs, Apply(y) PROVE BoardInv'
    <2> DEFINE board == MeetingOf[y.meeting]
               z == [y EXCEPT !.phase = "applied"]
               marks == [entry.marks EXCEPT ![board] = ByMeet(y.meeting)]
               writes == y.meeting \in logged /\ MeetMayWrite(entry.marks[board])
    <2>1. /\ syncs' = (syncs \ {y}) \cup {z}
          /\ entry' = IF writes THEN [entry EXCEPT !.marks = marks] ELSE entry
          /\ UNCHANGED <<linked, unlinks, corrected, mixed, page, row, calls, count>>
        BY <1>3 DEF Apply
    <2>2. y \in SyncRecords
        BY <1>b
    <2>3. y.meeting \in Meetings /\ z \in SyncRecords /\ z.meeting = y.meeting
        BY <2>2
    <2>4. board \in Boards
        BY <2>3, MeetingAssumption
    <2>5. ByMeet(y.meeting) \in MarkValues /\ entry.marks \in [Boards -> MarkValues]
        BY <2>3, <1>b, EntryFields DEF MarkValues
    <2>6. /\ marks \in [Boards -> MarkValues]
          /\ \A b \in Boards : marks[b] = IF b = board THEN ByMeet(y.meeting) ELSE entry.marks[b]
        BY <2>4, <2>5
    <2>7. writes => entry.marks[board] # ByHand("no")
        BY MarkFields DEF MeetMayWrite, NoValue
    <2>8. y.meeting \in linked \cup mixed /\ (y.meeting \in unlinks => y.meeting \in mixed)
        BY <1>b DEF Leaving
    <2>9. \A s \in Meetings : ByMeet(s) = ByMeet(y.meeting) => s = y.meeting
        BY <2>3, MarkFields
    <2> HIDE DEF marks, writes, board, z, SyncRecords
    <2>10. /\ entry' \in Entries
           /\ entry'.marks = IF writes THEN marks ELSE entry.marks
        BY <2>1, <2>6, <1>b, EntryFields
    <2>11. Denied'
        BY <1>b, <2>1, <2>6, <2>7, <2>10 DEF Denied
    <2>12. \A b \in Boards, s \in Meetings : entry'.marks[b] = ByMeet(s) => entry.marks[b] = ByMeet(s) \/ s = y.meeting
        BY <2>6, <2>9, <2>10
    <2>13. \A x \in syncs' : x \in syncs \/ x.meeting = y.meeting
        BY <2>1, <2>3
    <2>14. Leaving'
        BY <1>b, <2>1, <2>8, <2>12, <2>13 DEF Leaving
    <2>15. Met'
        BY <1>b, <2>1, <2>8, <2>12 DEF Met
    <2>16. syncs' \subseteq SyncRecords
        BY <1>b, <2>1, <2>3
    <2> QED BY <1>b, <2>1, <2>10, <2>11, <2>14, <2>15, <2>16, MeetingsTurn DEF CallsAlone, SyncRecords
<1>4. ASSUME NEW y \in syncs, EndSync(y) \/ DropSync(y) PROVE BoardInv'
    <2>1. /\ syncs' = syncs \ {y} /\ linked \subseteq linked' /\ linked' \subseteq linked \cup {y.meeting}
          /\ UNCHANGED <<entry, unlinks, corrected, mixed, page, row, calls, count>>
        BY <1>4 DEF EndSync, DropSync
    <2>2. y \in SyncRecords
        BY <1>b
    <2>3. linked' \subseteq Meetings /\ syncs' \subseteq SyncRecords
        BY <1>b, <2>1, <2>2
    <2>4. Leaving' /\ Met' /\ Denied'
        BY <1>b, <2>1 DEF Leaving, Met, Denied
    <2> QED BY <1>b, <2>1, <2>3, <2>4, MeetingsTurn DEF CallsAlone
<1> QED BY <1>1, <1>2, <1>3, <1>4

LEMMA UnlinkingKeeps ==
    ASSUME BoardInv, NEW s \in Meetings, PressUnlink(s) \/ Unlink(s)
    PROVE  BoardInv'
<1>b. /\ entry \in Entries /\ count \in Counts /\ linked \subseteq Meetings /\ unlinks \subseteq Meetings
      /\ syncs \subseteq [meeting : Meetings, phase : {"reading", "applied"}] /\ Denied /\ Leaving /\ Met
    BY DEF BoardInv, BoardTypes
<1>1. CASE PressUnlink(s)
    <2> DEFINE marks == Unmarked(entry.marks, s)
    <2>1. /\ s \in linked /\ unlinks' = unlinks \cup {s} /\ entry' = [entry EXCEPT !.marks = marks]
          /\ mixed \subseteq mixed' /\ ((\E y \in syncs : y.meeting = s) => s \in mixed')
          /\ UNCHANGED <<linked, syncs, corrected, page, row, calls>>
        BY <1>1 DEF PressUnlink
    <2>2. count' \in Counts
        BY <1>1, <1>b, SpendTyped DEF PressUnlink
    <2>3. entry.marks \in [Boards -> MarkValues]
        BY <1>b, EntryFields
    <2>4. /\ marks \in [Boards -> MarkValues]
          /\ \A b \in Boards : marks[b] = IF entry.marks[b].origin = "meet" /\ entry.marks[b].meeting = s
                                          THEN NoMark ELSE entry.marks[b]
        BY <2>3 DEF Unmarked, MarkValues
    <2>5. \A x \in Meetings : NoMark # ByMeet(x)
        BY MarkFields DEF NoValue
    <2> HIDE DEF marks
    <2>6. entry' \in Entries /\ entry'.marks = marks
        BY <1>b, <2>1, <2>4, EntryFields
    <2>7. \A b \in Boards : marks[b] # ByMeet(s)
        <3>1. ByMeet(s).origin = "meet" /\ ByMeet(s).meeting = s /\ NoMark # ByMeet(s)
            BY <2>5, MarkFields
        <3> QED BY <3>1, <2>4
    <2>8. \A b \in Boards, x \in Meetings : marks[b] = ByMeet(x) => entry.marks[b] = ByMeet(x)
        BY <2>4, <2>5
    <2>9. \A b \in Boards : entry.marks[b] = ByHand("no") => marks[b] = ByHand("no")
        BY <2>4, MarkFields
    <2>10. Denied' /\ Met'
        BY <1>b, <2>1, <2>6, <2>8, <2>9 DEF Denied, Met
    <2>11. Leaving'
        BY <1>b, <2>1, <2>6, <2>7, <2>8 DEF Leaving
    <2> QED BY <1>b, <2>1, <2>2, <2>6, <2>10, <2>11, MeetingsTurn DEF CallsAlone
<1>2. CASE Unlink(s)
    <2>1. /\ s \in unlinks /\ unlinks' = unlinks \ {s} /\ linked' = linked \ {s}
          /\ UNCHANGED <<entry, syncs, corrected, mixed, page, row, calls, count>>
        BY <1>2 DEF Unlink
    <2>2. Leaving' /\ Denied'
        BY <1>b, <2>1 DEF Leaving, Denied
    <2>3. Met'
        BY <1>b, <2>1 DEF Leaving, Met
    <2> QED BY <1>b, <2>1, <2>2, <2>3, MeetingsTurn DEF CallsAlone
<1> QED BY <1>1, <1>2

LEMMA BoardKept == BoardInv /\ [BoardNext]_boardVars => BoardInv'
<1> SUFFICES ASSUME BoardInv, [BoardNext]_boardVars PROVE BoardInv'
    OBVIOUS
<1>1. CASE UNCHANGED boardVars
    <2>1. StoredAlone /\ PageTyped /\ calls' \subseteq CallRecords
        BY <1>1 DEF BoardInv, BoardTypes, boardVars, StoredAlone, PageTyped
    <2>2. CallsSound'
        BY <1>1 DEF BoardInv, CallsSound, boardVars, MayFollowUp, Answer, FromFoundation
    <2> QED BY <2>1, <2>2, NothingStored
<1>2. CASE \/ \E board \in Boards : Turn(board)
           \/ \E side \in Sides \ {"elsewhere"} : SelectSide(side)
           \/ FilterAway \/ SelectFollowUps \/ OpenFollowUp \/ CloseFollowUp \/ Fetched
           \/ \E s \in Meetings : LogArrives(s)
    BY <1>2, PagesTurn
<1>3. CASE \/ PressMark \/ SaveFollowUp
           \/ \E board \in Boards, marked \in OthersMarks : OthersCall("mark", board, marked)
           \/ "polls" \in Boards /\ OthersCall("follow up", "polls", NoValue)
           \/ \E c \in calls : ReadEntry(c) \/ Refused(c) \/ Answered(c)
    BY <1>3, CallsMove
<1>4. CASE \E c \in calls : SaveWhole(c)
    BY <1>4, SaveKeeps
<1>5. CASE \/ \E s \in Meetings : LinkMeeting(s) \/ StartSync(s)
           \/ \E y \in syncs : Apply(y) \/ EndSync(y) \/ DropSync(y)
    BY <1>5, SyncsKeep
<1>6. CASE \E s \in Meetings : PressUnlink(s) \/ Unlink(s)
    BY <1>6, UnlinkingKeeps
<1> QED BY <1>1, <1>2, <1>3, <1>4, <1>5, <1>6 DEF BoardNext

LEMMA Inductive == BoardSpec => []BoardInv
BY Started, BoardKept, PTL DEF BoardSpec

-----------------------------------------------------------------------------
(* The theorems. *)

(* What the user denied on a board - the Foundation link's word, or a      *)
(* call's - is denied until it is marked anew: no link, sync or unlinking  *)
(* brings it back (NextMark, MeetMayWrite and Unmarked).                   *)
THEOREM DenialStays == BoardSpec => []CorrectionStays
<1>1. BoardInv => CorrectionStays
    <2> SUFFICES ASSUME BoardInv, NEW b \in corrected
                 PROVE  Answer(entry, b) = [marked |-> FALSE, source |-> "manual"]
        BY DEF CorrectionStays
    <2>1. entry.marks[b] = ByHand("no")
        BY DEF BoardInv, Denied
    <2> QED BY <2>1, MarkFields DEF Answer, NoValue
<1> QED BY <1>1, Inductive, PTL

(* A call's mark is of a meeting still linked, unless a sync or a save of  *)
(* the whole entry overlapped the unlinking.                               *)
THEOREM NoOrphanMarks == BoardSpec => []MarksHaveMeetings
<1>1. BoardInv => MarksHaveMeetings
    <2> SUFFICES ASSUME BoardInv, NEW b \in Boards, entry.marks[b].origin = "meet"
                 PROVE  entry.marks[b].meeting \in linked \cup mixed
        BY DEF MarksHaveMeetings
    <2>1. entry.marks[b] \in MarkValues
        BY EntryFields DEF BoardInv, BoardTypes
    <2>2. PICK s \in Meetings : entry.marks[b] = ByMeet(s)
        BY <2>1, MarkFields DEF MarkValues, NoValue
    <2> QED BY <2>2, MarkFields DEF BoardInv, Met
<1> QED BY <1>1, Inductive, PTL

(* A follow-up is written to an entry that is not selected in the poll,    *)
(* also when the student was selected after it was read.                   *)
THEOREM FollowUpsAreOfTheUnselected == BoardSpec => FollowedUpUnselected
<1>1. BoardInv => [\A c \in calls : c.op = "follow up" /\ SaveWhole(c) => ~Answer(entry', "polls").marked]_boardVars
    <2> SUFFICES ASSUME BoardInv, NEW c \in calls, c.op = "follow up", SaveWhole(c)
                 PROVE  ~Answer(entry', "polls").marked
        OBVIOUS
    <2>1. c \in CallRecords /\ c.entry \in Entries /\ ~Answer(c.entry, "polls").marked
        BY DEF BoardInv, BoardTypes, CallsSound, SaveWhole, MayFollowUp
    <2>2. entry' = [c.entry EXCEPT !.followUps = @ + 1]
        BY DEF SaveWhole, Written
    <2>3. entry'.marks = c.entry.marks /\ entry'.foundation = c.entry.foundation
        BY <2>1, <2>2 DEF Entries
    <2> QED BY <2>1, <2>3 DEF Answer, FromFoundation
<1> QED BY <1>1, Inductive, PTL DEF FollowedUpUnselected
=============================================================================
