--------------------------- MODULE MCBillingMonth ---------------------------
(* Instances of BillingMonth for TLC.                                       *)
EXTENDS BillingMonth, TLC

CONSTANTS m1, o1, o2

Row(status, paidOn, flag) == [status |-> status, flag |-> flag, paidOn |-> paidOn]

(* An order a month may begin with: not created or not paid yet, never paid *)
(* successfully, or paid in month 1 or 2 and since then cancelled, declined *)
(* or neither; and, of the month before, still to renew, renewed or not     *)
(* priced.                                                                  *)
MCRows ==
    {Row("pending", 0, ""), Row("nosuccess", 0, "")}
        \cup {Row(status, paidOn, "") : status \in {"paid", "nosuccess", "cancelled"}, paidOn \in 1..2}
        \cup {Row("paid", 1, flag) : flag \in {"torenew", "renewed", "pricing_error"}}

MCTables == [Orders -> MCRows]

MCOneMember == [o \in Orders |-> m1]

MCSymmetry == Permutations({o1, o2})

=============================================================================
