---------------------------- MODULE OrdersTable ----------------------------
(* The part of the orders table the billing month reads and writes: the    *)
(* columns "Status", "Flag" and "PaymentDate" of the membership orders, the *)
(* SELECTs that pick the orders to charge, and the UPDATEs that move them.  *)
(* Every operator is one SQL statement, as a function from a table to the   *)
(* ids it returns or to the table it leaves.                                *)
EXTENDS Naturals

CONSTANTS
    Orders,     \* ids of the membership orders
    Recurring   \* the orders with "Type" = 'recurring'

ASSUME RecurringAssumption == Recurring \subseteq Orders

OrderStatus == {"pending", "paid", "nosuccess", "cancelled"}

OrderFlag == {"", "torenew", "skip", "muh", "renewed", "pricing_error"}

(* paidOn is the month of "PaymentDate", counted from 1; 0 is NULL. *)
OrderRow == [status : OrderStatus, flag : OrderFlag, paidOn : Nat]

OrderTable == [Orders -> OrderRow]

-----------------------------------------------------------------------------

(* What `billing start` charges. *)
OrderIDsToRenew(table) ==
    {o \in Recurring : /\ table[o].status \in {"paid", "nosuccess"}
                       /\ table[o].flag = "torenew"}

(* What `billing retry-pricing-errors` charges: the status is not looked at. *)
OrderIDsWithPricingError(table) ==
    {o \in Recurring : table[o].flag = "pricing_error"}

FlagOrder(table, o, flag) == [table EXCEPT ![o].flag = flag]

MarkResolvedForRenew(table, ids) ==
    [o \in Orders |-> IF o \in ids /\ table[o].flag = "pricing_error"
                      THEN [table[o] EXCEPT !.flag = "torenew"]
                      ELSE table[o]]

(* Mutant of Renewed: the flag is left as it was.                           *)
Renewed_KeepsFlag(table, o, month) ==
    [table EXCEPT ![o].status = "paid", ![o].paidOn = month]

(* The order half of FinalizeRenewal's transaction. *)
Renewed(table, o, month) ==
    [table EXCEPT ![o] = [status |-> "paid", flag |-> "renewed", paidOn |-> month]]

NotRenewed(table, o) == [table EXCEPT ![o].status = "nosuccess"]

=============================================================================
