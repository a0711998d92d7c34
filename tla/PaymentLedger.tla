--------------------------- MODULE PaymentLedger ---------------------------
(* What the payments table promises about the member's money, whatever      *)
(* happens to the processes that write it:                                  *)
(*   - a payment is opened as pending before any money moves under it;      *)
(*   - money moves at most once under a payment, and only while it is       *)
(*     pending (the gateway replays a reference it has already charged);    *)
(*   - a payment is settled once, for good, and as a success only if the    *)
(*     money moved;                                                         *)
(*   - a charge noted for reconciliation is never settled as a failure.     *)
(* A charge the gateway made and the service never heard of may be settled  *)
(* as a failure: the ledger promises nothing about it.                      *)

CONSTANT Payments

VARIABLES
    book,    \* the status of each payment: none, pending, success or failed
    taken,   \* the payments the member's card was charged for
    noted    \* the payments noted for reconciliation

ledger == <<book, taken, noted>>

Init ==
    /\ book = [p \in Payments |-> "none"]
    /\ taken = {}
    /\ noted = {}

Open(p) ==
    /\ book[p] = "none"
    /\ book' = [book EXCEPT ![p] = "pending"]
    /\ UNCHANGED <<taken, noted>>

(* One step of the gateway, or several answers lost together in a crash. *)
Take ==
    \E S \in SUBSET {p \in Payments : book[p] = "pending"} :
        /\ taken' = taken \cup S
        /\ UNCHANGED <<book, noted>>

SettleSuccess(p) ==
    /\ book[p] = "pending"
    /\ p \in taken
    /\ book' = [book EXCEPT ![p] = "success"]
    /\ noted' \in {noted, noted \cup {p}}
    /\ UNCHANGED taken

SettleFailed(p) ==
    /\ book[p] = "pending"
    /\ p \notin noted
    /\ book' = [book EXCEPT ![p] = "failed"]
    /\ UNCHANGED <<taken, noted>>

Note(p) ==
    /\ p \in taken
    /\ book[p] = "pending"
    /\ noted' = noted \cup {p}
    /\ UNCHANGED <<book, taken>>

Next ==
    \/ Take
    \/ \E p \in Payments : Open(p) \/ SettleSuccess(p) \/ SettleFailed(p) \/ Note(p)

Spec == Init /\ [][Next]_ledger

=============================================================================
