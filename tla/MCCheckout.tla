----------------------------- MODULE MCCheckout -----------------------------
(* One order, payment and card, and two requests on them at a time.         *)
EXTENDS Checkout, TLC

MCEditStatuses == {"failed"}

MCPatches == {[status |-> "paid", membership |-> TRUE]}

RequestSymmetry == Permutations(Requests)

=============================================================================
