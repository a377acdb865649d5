-------------------------- MODULE PaymentCollection --------------------------
(***************************************************************************)
(* The abstract specification of one lead's payment collection: its shape, *)
(* changed one request at a time.  PaymentLedger, which has the amounts,   *)
(* implements it; LeadPipeline is built on the same operators.             *)
(***************************************************************************)
EXTENDS CollectionShape

VARIABLE collection

(* A lead arrives with nothing priced, with a plan nobody has paid against *)
(* yet, or from before the free-form collection, with payments on it.      *)
Init ==
    /\ collection \in Collections
    /\ collection.plan \/ collection = NoCollection
    /\ HasMoney(collection) \/ collection.due \/ collection = NoCollection
    /\ ~collection.token

Next == collection' \in Successors(collection)

Spec == Init /\ [][Next]_collection
=============================================================================
