------------------------ MODULE MCStudentEnrollment ------------------------
(* Two leads, of one person or of two, with the same address or without    *)
(* one.                                                                    *)
EXTENDS StudentEnrollment, TLC

CONSTANTS mail, batch20, noBatch

MCTwoLeads == {1, 2}
MCLabels == {batch20, noBatch}
MCEmails == {mail}

Interchangeable == Permutations(Processes) \cup Permutations(MCLabels)
=============================================================================
