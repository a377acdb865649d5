-------------------------- MODULE MCInductionLink --------------------------
(* One request at a time, which may stop anywhere.  Two leads and two      *)
(* entries make a late match, two registrations of one number, and a lead  *)
(* that takes over the entry of a deleted one.                             *)
EXTENDS InductionLink, TLC

CONSTANTS n1, g1, g2

MCNumbers == {n1}
MCGroups == {g1, g2}

Alike == Permutations(MCGroups)
=============================================================================
