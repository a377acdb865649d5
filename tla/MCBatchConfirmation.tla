------------------------ MODULE MCBatchConfirmation ------------------------
(* Two requests at a time, on two leads with one address between them      *)
(* (sisters, or the same person twice), so the second one's student is     *)
(* found or refused, and on a batch with a place for one of them, or for   *)
(* both once it is given another capacity.  The leads differ in that one   *)
(* of them changes meanwhile.                                              *)
EXTENDS BatchConfirmation, TLC

CONSTANTS asha, bala, mail, weekday, r1, r2

MCRequests == {r1, r2}
MCLeads == {asha, bala}
MCChanging == {asha}
MCBatches == {weekday}
MCEmails == {mail}
MCEmail == [l \in MCLeads |-> mail]
MCCapacity == [b \in MCBatches |-> 1]

Alike == Permutations(MCRequests)
=============================================================================
