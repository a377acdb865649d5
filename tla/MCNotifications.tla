--------------------------- MODULE MCNotifications ---------------------------
(* A section's own admin, who has the menu entry; a batch coordinator, who  *)
(* may not open the leads board and may own a lead; an accountant, who may  *)
(* open that board and does not have it in the menu; an admin who may       *)
(* allocate batches and not open their board; somebody with no page at all. *)
EXTENDS Notifications

Holding(role, scoped, grants) == [role |-> role, scoped |-> scoped, grants |-> grants]

SectionAdmin == Holding("Section Admin", TRUE, {"leads.view", "notifications.view"})
Coordinator == Holding("HR Coordinator", FALSE, {"batch_confirmation.view", "batch_confirmation.allocate"})
Accountant == Holding("Finance", FALSE, {"leads.view", "payments.view"})
Allocator == Holding("Admin", FALSE, {"leads.view", "batch_confirmation.allocate"})
Nobody == Holding("User", FALSE, {"batch_confirmation.allocate"})

MCUsers == {SectionAdmin, Coordinator, Accountant, Allocator, Nobody}

MCSent == [u \in MCUsers |->
    CASE u = Coordinator -> {"lead", "non_payment"}
      [] u = Allocator -> {"non_payment"}
      [] u = SectionAdmin -> {"lead"}
      [] OTHER -> {"plain"}]
=============================================================================
