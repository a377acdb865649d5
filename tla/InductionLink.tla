--------------------------- MODULE InductionLink ---------------------------
(***************************************************************************)
(* A student twice: as the InductionEntry they came in on and as the       *)
(* Foundation Lead they became (FoundationFormService, foundation_group_   *)
(* sync, and the requests of LeadService, InductionEntryService and        *)
(* SettingsService that touch the link between the two).  No transaction   *)
(* spans the two collections.  A request reads whole documents, changes    *)
(* them and saves them whole, one call to the database at a time; it may   *)
(* stop between any two.                                                   *)
(***************************************************************************)
EXTENDS Integers, Sequences

CONSTANTS
    Requests,     \* what is in progress at the same time
    Numbers,      \* normalized mobile numbers; None where no number can be read
    Groups,       \* foundation class groups
    MaxLeads,     \* leads ever created: a bound
    MaxEntries,   \* induction entries ever created: a bound
    MaxEdits,     \* leads and entries edited by people: a bound
    None

ASSUME NoneAssumption == None \notin Int
ASSUME BoundsAssumption == MaxLeads \in Nat /\ MaxEntries \in Nat /\ MaxEdits \in Nat

VARIABLES
    leads,        \* the Lead documents, in the order they were created
    entries,      \* the InductionEntry documents
    requests,     \* where each request is, and the documents it holds
    edits,        \* how many edits there were
    disturbed,    \* history: two requests overlapped, or one stopped half-way
    apart         \* history: the leads whose group was not their entry's when they were linked or filled in

vars == <<leads, entries, requests, edits, disturbed, apart>>

-----------------------------------------------------------------------------

LeadIds == 1..MaxLeads
EntryIds == 1..MaxEntries

MaybeNumber == Numbers \cup {None}
MaybeGroup == Groups \cup {None}

LeadDocs == [deleted : BOOLEAN, number : MaybeNumber, entry : EntryIds \cup {None},
             group : MaybeGroup]

EntryDocs == [deleted : BOOLEAN, number : MaybeNumber, lead : LeadIds \cup {None},
              group : MaybeGroup]

Places ==
    {"idle",
     "find_entry", "insert_lead", "link_new", "late_match", "link_late", "save_merge",   \* submit
     "save_lead", "save_lead_move", "read_entry", "save_far_entry",                      \* a lead edited
     "save_entry", "save_entry_move", "read_lead", "save_far_lead",                      \* an entry edited
     "save_deleted_lead", "release", "reset_release", "reset_entries",                   \* a lead deleted, a reset
     "boot_leads", "boot_entries"}                                                       \* a process starting

RequestStates == [at : Places,
                  lead : LeadIds \cup {None}, leadDoc : LeadDocs \cup {None},
                  entry : EntryIds \cup {None}, entryDoc : EntryDocs \cup {None}]

Nothing == [at |-> "idle", lead |-> None, leadDoc |-> None, entry |-> None, entryDoc |-> None]

Idle(r) == requests[r] = Nothing

LiveLead(l) == l \in DOMAIN leads /\ ~leads[l].deleted
LiveEntry(e) == e \in DOMAIN entries /\ ~entries[e].deleted

(* LeadRepository.find_by_phone_normalized: most recent wins. *)
LeadsWith(n) == {l \in DOMAIN leads : ~leads[l].deleted /\ n # None /\ leads[l].number = n}
NewestOf(ids) == {l \in ids : \A other \in ids : other <= l}

UnconvertedOrNot(n) == {e \in DOMAIN entries : ~entries[e].deleted /\ n # None /\ entries[e].number = n}

(* InductionEntryRepository.find_unconverted_by_phone: which of several is *)
(* the newest registration is left open.                                   *)
Unconverted(n) ==
    {e \in DOMAIN entries : /\ ~entries[e].deleted /\ entries[e].lead = None
                            /\ n # None /\ entries[e].number = n}

-----------------------------------------------------------------------------
(* A request goes on, or is done. *)

Alone(r) == \A q \in Requests \ {r} : requests[q] = Nothing

Goto(r, state) ==
    /\ requests' = [requests EXCEPT ![r] = state]
    /\ disturbed' = (disturbed \/ ~Alone(r))

On(r, place) == Goto(r, [requests[r] EXCEPT !.at = place])

End(r) == Goto(r, Nothing)

(* document.save(): the whole document, as the request holds it. *)
SaveHeldLead(r) == leads' = [leads EXCEPT ![requests[r].lead] = requests[r].leadDoc]
SaveHeldEntry(r) == entries' = [entries EXCEPT ![requests[r].entry] = requests[r].entryDoc]

-----------------------------------------------------------------------------
(* submit: a Foundation Form with number n. *)

Submitted(n) == [deleted |-> FALSE, number |-> n, entry |-> None, group |-> None]

(* What a lead takes over from the entry it is matched with: a group only  *)
(* fills a gap.                                                            *)
Inherits(doc, e, from) == [doc EXCEPT !.entry = e, !.group = IF @ # None THEN @ ELSE from.group]

SubmitBeginNoLateMatch(r, n) ==
    /\ Idle(r)
    /\ IF LeadsWith(n) = {}
       THEN Goto(r, [Nothing EXCEPT !.at = "find_entry", !.leadDoc = Submitted(n)])
       ELSE \E l \in NewestOf(LeadsWith(n)) :
               Goto(r, [Nothing EXCEPT !.at = "save_merge", !.lead = l, !.leadDoc = leads[l]])
    /\ UNCHANGED <<leads, entries, edits, apart>>

SubmitBegin(r, n) ==
    /\ Idle(r)
    /\ IF LeadsWith(n) = {}
       THEN Goto(r, [Nothing EXCEPT !.at = "find_entry", !.leadDoc = Submitted(n)])
       ELSE \E l \in NewestOf(LeadsWith(n)) :
               Goto(r, [Nothing EXCEPT !.at = IF leads[l].entry = None THEN "late_match" ELSE "save_merge",
                                       !.lead = l, !.leadDoc = leads[l]])
    /\ UNCHANGED <<leads, entries, edits, apart>>

Matched(r, e, place) ==
    Goto(r, [requests[r] EXCEPT !.at = place,
                                !.leadDoc = Inherits(@, e, entries[e]),
                                !.entry = e, !.entryDoc = entries[e]])

FindEntry(r) ==
    /\ requests[r].at = "find_entry"
    /\ LET found == Unconverted(requests[r].leadDoc.number)
       IN  IF found = {} THEN On(r, "insert_lead") ELSE \E e \in found : Matched(r, e, "insert_lead")
    /\ UNCHANGED <<leads, entries, edits, apart>>

InsertLeadAfterLink(r) ==
    /\ requests[r].at = "insert_lead"
    /\ IF requests[r].entry = None
       THEN /\ Len(leads) < MaxLeads
            /\ leads' = Append(leads, requests[r].leadDoc)
            /\ End(r)
            /\ UNCHANGED <<entries, edits, apart>>
       ELSE /\ entries' = [entries EXCEPT ![requests[r].entry] = [requests[r].entryDoc EXCEPT !.lead = Len(leads) + 1]]
            /\ Goto(r, [requests[r] EXCEPT !.entry = None])
            /\ UNCHANGED <<leads, edits, apart>>

InsertLead(r) ==
    /\ requests[r].at = "insert_lead"
    /\ Len(leads) < MaxLeads
    /\ leads' = Append(leads, requests[r].leadDoc)
    /\ IF requests[r].entry = None THEN End(r)
       ELSE Goto(r, [requests[r] EXCEPT !.at = "link_new", !.lead = Len(leads) + 1, !.entryDoc.lead = Len(leads) + 1])
    /\ UNCHANGED <<entries, edits, apart>>

(* _link, after the lead is inserted. *)
LinkNew(r) ==
    /\ requests[r].at = "link_new"
    /\ SaveHeldEntry(r)
    /\ End(r)
    /\ UNCHANGED <<leads, edits, apart>>

LateMatch(r) ==
    /\ requests[r].at = "late_match"
    /\ LET found == Unconverted(requests[r].leadDoc.number)
       IN  IF found = {} THEN On(r, "save_merge") ELSE \E e \in found : Matched(r, e, "link_late")
    /\ UNCHANGED <<leads, entries, edits, apart>>

(* _link, for a lead that was there before its entry. *)
LinkLate(r) ==
    /\ requests[r].at = "link_late"
    /\ entries' = [entries EXCEPT ![requests[r].entry] = [requests[r].entryDoc EXCEPT !.lead = requests[r].lead]]
    /\ On(r, "save_merge")
    /\ apart' = IF requests[r].leadDoc.group = requests[r].entryDoc.group THEN apart
                ELSE apart \cup {requests[r].lead}
    /\ UNCHANGED <<leads, edits>>

SaveMerge(r) ==
    /\ requests[r].at = "save_merge"
    /\ SaveHeldLead(r)
    /\ End(r)
    /\ UNCHANGED <<entries, edits, apart>>

-----------------------------------------------------------------------------
(* Staff create a lead or an entry. *)

CreateLead(r, n, g) ==
    /\ Idle(r)
    /\ Len(leads) < MaxLeads
    /\ leads' = Append(leads, [deleted |-> FALSE, number |-> n, entry |-> None, group |-> g])
    /\ End(r)
    /\ UNCHANGED <<entries, edits, apart>>

CreateEntry(r, n, g) ==
    /\ Idle(r)
    /\ Len(entries) < MaxEntries
    /\ entries' = Append(entries, [deleted |-> FALSE, number |-> n, lead |-> None, group |-> g])
    /\ End(r)
    /\ UNCHANGED <<leads, edits, apart>>

-----------------------------------------------------------------------------
(* A lead edited (update, review, assign): its number, its group, both, or *)
(* nothing that matters here.  The group then goes to the entry it came    *)
(* from (mirror_group_move), deleted or not.                               *)

EditLeadBegin(r, l) ==
    /\ Idle(r) /\ LiveLead(l)
    /\ edits < MaxEdits /\ edits' = edits + 1
    /\ \E n \in MaybeNumber, g \in MaybeGroup :
          Goto(r, [Nothing EXCEPT !.at = IF g = leads[l].group THEN "save_lead" ELSE "save_lead_move",
                                  !.lead = l,
                                  !.leadDoc = [leads[l] EXCEPT !.number = n, !.group = g]])
    /\ UNCHANGED <<leads, entries, apart>>

SaveLead(r) ==
    /\ requests[r].at \in {"save_lead", "save_lead_move"}
    /\ SaveHeldLead(r)
    /\ IF requests[r].at = "save_lead_move" /\ requests[r].leadDoc.entry # None
       THEN On(r, "read_entry") ELSE End(r)
    /\ UNCHANGED <<entries, edits, apart>>

MirrorToEntry(r) ==
    /\ requests[r].at = "read_entry"
    /\ LET e == requests[r].leadDoc.entry
           g == requests[r].leadDoc.group
       IN  IF entries[e].group = g THEN End(r)
           ELSE Goto(r, [requests[r] EXCEPT !.at = "save_far_entry", !.entry = e,
                                            !.entryDoc = [entries[e] EXCEPT !.group = g]])
    /\ apart' = apart \ {requests[r].lead}
    /\ UNCHANGED <<leads, entries, edits>>

SaveFarEntry(r) ==
    /\ requests[r].at = "save_far_entry"
    /\ SaveHeldEntry(r)
    /\ End(r)
    /\ UNCHANGED <<leads, edits, apart>>

(* An entry edited (update, update_details), and the lead it became.       *)

EditEntryBegin(r, e) ==
    /\ Idle(r) /\ LiveEntry(e)
    /\ edits < MaxEdits /\ edits' = edits + 1
    /\ \E n \in MaybeNumber, g \in MaybeGroup :
          Goto(r, [Nothing EXCEPT !.at = IF g = entries[e].group THEN "save_entry" ELSE "save_entry_move",
                                  !.entry = e, !.entryDoc = [entries[e] EXCEPT !.number = n, !.group = g]])
    /\ UNCHANGED <<leads, entries, apart>>

SaveEntryUnmirrored(r) ==
    /\ requests[r].at \in {"save_entry", "save_entry_move"}
    /\ SaveHeldEntry(r)
    /\ End(r)
    /\ UNCHANGED <<leads, edits, apart>>

(* Also InductionEntryService.delete, which holds the entry deleted. *)
SaveEntry(r) ==
    /\ requests[r].at \in {"save_entry", "save_entry_move"}
    /\ SaveHeldEntry(r)
    /\ IF requests[r].at = "save_entry_move" /\ requests[r].entryDoc.lead # None
       THEN On(r, "read_lead") ELSE End(r)
    /\ UNCHANGED <<leads, edits, apart>>

MirrorToLead(r) ==
    /\ requests[r].at = "read_lead"
    /\ LET l == requests[r].entryDoc.lead
           g == requests[r].entryDoc.group
       IN  /\ IF leads[l].group = g THEN End(r)
              ELSE Goto(r, [requests[r] EXCEPT !.at = "save_far_lead", !.lead = l,
                                               !.leadDoc = [leads[l] EXCEPT !.group = g]])
           /\ apart' = apart \ {l}
    /\ UNCHANGED <<leads, entries, edits>>

SaveFarLead(r) ==
    /\ requests[r].at = "save_far_lead"
    /\ SaveHeldLead(r)
    /\ End(r)
    /\ UNCHANGED <<entries, edits, apart>>

-----------------------------------------------------------------------------
(* Soft deletes.  A deleted lead hands its entries back, and so does a     *)
(* reset of the Foundation board alone.                                    *)

DeleteEntryBegin(r, e) ==
    /\ Idle(r) /\ LiveEntry(e)
    /\ Goto(r, [Nothing EXCEPT !.at = "save_entry", !.entry = e, !.entryDoc = [entries[e] EXCEPT !.deleted = TRUE]])
    /\ UNCHANGED <<leads, entries, edits, apart>>

DeleteLeadBegin(r, l) ==
    /\ Idle(r) /\ LiveLead(l)
    /\ Goto(r, [Nothing EXCEPT !.at = "save_deleted_lead", !.lead = l, !.leadDoc = [leads[l] EXCEPT !.deleted = TRUE]])
    /\ UNCHANGED <<leads, entries, edits, apart>>

SaveDeletedLeadOnly(r) ==
    /\ requests[r].at = "save_deleted_lead"
    /\ SaveHeldLead(r)
    /\ End(r)
    /\ UNCHANGED <<entries, edits, apart>>

SaveDeletedLead(r) ==
    /\ requests[r].at = "save_deleted_lead"
    /\ SaveHeldLead(r)
    /\ On(r, "release")
    /\ UNCHANGED <<entries, edits, apart>>

(* The live entries that point to one of the leads point to none. *)
HandedBack(ids) ==
    [e \in DOMAIN entries |-> IF ~entries[e].deleted /\ entries[e].lead \in ids
                              THEN [entries[e] EXCEPT !.lead = None] ELSE entries[e]]

Release(r) ==
    /\ requests[r].at = "release"
    /\ entries' = HandedBack({requests[r].lead})
    /\ End(r)
    /\ UNCHANGED <<leads, edits, apart>>

ResetLeads(r, scope) ==
    /\ Idle(r) /\ scope \in {"foundation", "all"}
    /\ leads' = [l \in DOMAIN leads |-> [leads[l] EXCEPT !.deleted = TRUE]]
    /\ On(r, IF scope = "all" THEN "reset_entries" ELSE "reset_release")
    /\ UNCHANGED <<entries, edits, apart>>

ResetEntries(r) ==
    /\ Idle(r) \/ requests[r].at = "reset_entries"
    /\ entries' = [e \in DOMAIN entries |-> [entries[e] EXCEPT !.deleted = TRUE]]
    /\ End(r)
    /\ UNCHANGED <<leads, edits, apart>>

ResetRelease(r) ==
    /\ requests[r].at = "reset_release"
    /\ entries' = HandedBack(LeadIds)
    /\ End(r)
    /\ UNCHANGED <<leads, edits, apart>>

-----------------------------------------------------------------------------
(* A process starts (run_startup_backfills): first the numbers, in both    *)
(* collections, then the groups, of leads and then of entries.  A row that *)
(* has none gets the one its phone, or its date, says.                     *)

NumbersFilled(docs) ==
    {[i \in DOMAIN docs |-> IF docs[i].number # None THEN docs[i] ELSE [docs[i] EXCEPT !.number = told[i]]] :
        told \in [DOMAIN docs -> MaybeNumber]}

GroupsFilled(docs) ==
    {[i \in DOMAIN docs |-> IF docs[i].group # None THEN docs[i] ELSE [docs[i] EXCEPT !.group = told[i]]] :
        told \in [DOMAIN docs -> Groups]}

(* The linked leads whose group is not their entry's. *)
OutOfStep(ls, es) ==
    {l \in DOMAIN ls : ls[l].entry # None /\ ls[l].group # es[ls[l].entry].group}

BootNumbers(r) ==
    /\ Idle(r)
    /\ leads' \in NumbersFilled(leads)
    /\ entries' \in NumbersFilled(entries)
    /\ On(r, "boot_leads")
    /\ UNCHANGED <<edits, apart>>

BootLeads(r) ==
    /\ requests[r].at = "boot_leads"
    /\ leads' \in GroupsFilled(leads)
    /\ apart' = apart \cup OutOfStep(leads', entries)
    /\ On(r, "boot_entries")
    /\ UNCHANGED <<entries, edits>>

BootEntries(r) ==
    /\ requests[r].at = "boot_entries"
    /\ entries' \in GroupsFilled(entries)
    /\ apart' = apart \cup OutOfStep(leads, entries')
    /\ End(r)
    /\ UNCHANGED <<leads, edits>>

-----------------------------------------------------------------------------
(* A request, or a process that starts, stops between two of its steps.    *)
(* It is disturbed if something it wrote still lacks its other half.       *)

HalfDone(r) ==
    \/ requests[r].at \in {"link_new", "read_entry", "save_far_entry", "read_lead", "save_far_lead",
                          "release", "reset_release", "reset_entries"}
    \/ requests[r].at = "save_merge" /\ requests[r].entry # None

Crash(r) ==
    /\ ~Idle(r)
    /\ requests' = [requests EXCEPT ![r] = Nothing]
    /\ disturbed' = (disturbed \/ ~Alone(r) \/ HalfDone(r))
    /\ UNCHANGED <<leads, entries, edits, apart>>

-----------------------------------------------------------------------------

Init ==
    /\ leads = <<>> /\ entries = <<>>
    /\ requests = [r \in Requests |-> Nothing]
    /\ edits = 0 /\ disturbed = FALSE /\ apart = {}

Submit(r) ==
    \/ \E n \in MaybeNumber : SubmitBegin(r, n)
    \/ FindEntry(r) \/ InsertLead(r) \/ LinkNew(r)
    \/ LateMatch(r) \/ LinkLate(r) \/ SaveMerge(r)

Create(r) == \E n \in MaybeNumber, g \in MaybeGroup : CreateLead(r, n, g) \/ CreateEntry(r, n, g)

EditLead(r) == (\E l \in LeadIds : EditLeadBegin(r, l)) \/ SaveLead(r) \/ MirrorToEntry(r) \/ SaveFarEntry(r)

EditEntry(r) == (\E e \in EntryIds : EditEntryBegin(r, e)) \/ SaveEntry(r) \/ MirrorToLead(r) \/ SaveFarLead(r)

Delete(r) ==
    \/ \E e \in EntryIds : DeleteEntryBegin(r, e)
    \/ \E l \in LeadIds : DeleteLeadBegin(r, l)
    \/ SaveDeletedLead(r) \/ Release(r)

Reset(r) == (\E scope \in {"foundation", "all"} : ResetLeads(r, scope)) \/ ResetEntries(r) \/ ResetRelease(r)

Boot(r) == BootNumbers(r) \/ BootLeads(r) \/ BootEntries(r)

Next ==
    \E r \in Requests :
        Submit(r) \/ Create(r) \/ EditLead(r) \/ EditEntry(r) \/ Delete(r) \/ Reset(r) \/ Boot(r) \/ Crash(r)

Spec == Init /\ [][Next]_vars

-----------------------------------------------------------------------------
(* Properties. *)

TypeOK ==
    /\ leads \in Seq(LeadDocs) /\ Len(leads) <= MaxLeads
    /\ entries \in Seq(EntryDocs) /\ Len(entries) <= MaxEntries
    /\ requests \in [Requests -> RequestStates]
    /\ edits \in 0..MaxEdits
    /\ disturbed \in BOOLEAN
    /\ apart \subseteq LeadIds

(* Nothing is in progress, and nothing was cut short or overlapped. *)
Settled == ~disturbed /\ \A r \in Requests : Idle(r)

(* "The other order would take the entry off the board while pointing it   *)
(* at a lead that was never created" (_link): wherever requests overlap or *)
(* stop, an entry that has left the Induction board left for a lead that   *)
(* was created.                                                            *)
PointsAtARealLead == \A e \in DOMAIN entries : entries[e].lead # None => entries[e].lead \in DOMAIN leads

(* The two directions of the link agree, through late matches, edited      *)
(* numbers, deletes, resets and restarts: so no entry has two leads, and   *)
(* no lead two entries.                                                    *)
LinksAgree ==
    Settled => \A l \in DOMAIN leads, e \in DOMAIN entries :
        LiveLead(l) /\ LiveEntry(e) => (entries[e].lead = l <=> leads[l].entry = e)

(* LeadService.delete, reset_leads: once they are through, no entry reads  *)
(* as moved while its lead is gone, which would put it on neither board.   *)
(* One cut short before it releases the entries leaves them so, and is     *)
(* excused.                                                                *)
OnOneBoard ==
    Settled => \A e \in DOMAIN entries : LiveEntry(e) /\ entries[e].lead # None => LiveLead(entries[e].lead)

SameGroup(l) == LiveEntry(leads[l].entry) => leads[l].group = entries[leads[l].entry].group

(* foundation_group_sync: a move on either board reaches the other, so a   *)
(* pair whose groups were the same stays in the same group.                *)
MovesTogether ==
    Settled => \A l \in DOMAIN leads \ apart : LiveLead(l) /\ leads[l].entry # None => SameGroup(l)

(* "Keeping a student's group the same on both sides of the Induction      *)
(* link" (foundation_group_sync.py:1), however the two were linked.        *)
OneGroup ==
    Settled => \A l \in DOMAIN leads : LiveLead(l) /\ leads[l].entry # None => SameGroup(l)

(* The lead a submission has just saved. *)
SubmittedLead(r) == IF requests[r].at = "insert_lead" THEN Len(leads) + 1 ELSE requests[r].lead

SubmitEnds(r) == (InsertLead(r) \/ LinkNew(r) \/ SaveMerge(r)) /\ requests'[r] = Nothing

(* A submission does not leave its lead without an entry while one with    *)
(* its number waits on the Induction board, whichever came first.          *)
SubmissionLinks ==
    [][\A r \in Requests, n \in Numbers : SubmitEnds(r) /\ requests[r].leadDoc.number = n /\ ~disturbed' =>
          (leads'[SubmittedLead(r)].entry = None => Unconverted(n)' = {})]_vars
=============================================================================
