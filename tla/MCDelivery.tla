----------------------------- MODULE MCDelivery -----------------------------
(* Delivery on small instances of one binding. *)
EXTENDS Delivery, TLC

CONSTANTS b1, s1

OneBindingOf == (s1 :> b1)
OneAdmitted == (s1 :> 0)
OneDeadline == (s1 :> 2)

OneBytes == (s1 :> 2)

OneRank == (s1 :> 1)

Roomy == [pending |-> 3, records |-> 3, bytes |-> 9]
=============================================================================
