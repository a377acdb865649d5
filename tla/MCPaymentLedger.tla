--------------------------- MODULE MCPaymentLedger ---------------------------
(* A small price list: two programs, two plans, one plan one program does  *)
(* not offer, and a cheaper plan to switch down to.                        *)
EXTENDS PaymentLedger, TLC

CONSTANTS recruitment, generalist, single, emi

MCPrograms == {recruitment, generalist}
MCPlans == {single, emi}
MCPrice == (recruitment :> (single :> 2 @@ emi :> 3)) @@ (generalist :> (single :> 3 @@ emi :> 0))

(* Old slots of one or two rupees: untouched, promised, part-paid with and *)
(* without its proof, and paid, with its amount or from before there was   *)
(* one.                                                                    *)
MCSlots ==
    {s \in [kind : {"slot"}, amount : 1..2, received : 0..2, paid : BOOLEAN, evidence : BOOLEAN, date : 0..2] :
        s.received <= s.amount /\ (s.paid => s.evidence /\ s.date = 0)}
=============================================================================
