---------------------------- MODULE MCLeadTable -----------------------------
(* Two leads of one section for TLC. *)
EXTENDS LeadTable

MCSectionOf == [id \in 1..2 |-> "fe"]
=============================================================================
