----------------------------- MODULE MCRenewal -----------------------------
(* Instances of Renewal for TLC. A billing command may find the table the   *)
(* flagging step leaves (one order to renew, the others to renew or         *)
(* skipped), or one a previous command left with pricing errors.            *)
EXTENDS Renewal, TLC

Row(status, flag) == [status |-> status, flag |-> flag, paidOn |-> 1]

(* Every order to renew, or stopped by a pricing error.                     *)
MCStartOrders ==
    {t \in [Orders -> {Row("paid", "torenew"), Row("nosuccess", "pricing_error")}] :
        \E o \in Orders : t[o].flag = "torenew"}

(* One table: every order to renew.                                         *)
MCToRenew == {[o \in Orders |-> Row("paid", "torenew")]}

MCSymmetry == Permutations(Payments)

MCSymmetry2 == Permutations(Payments) \cup Permutations(Runs)

=============================================================================
