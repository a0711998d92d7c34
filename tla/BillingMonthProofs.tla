------------------------- MODULE BillingMonthProofs -------------------------
(* Theorems of BillingMonth, for any members, orders, owners and tables: it *)
(* is well typed, no order is renewed twice in a calendar month, a member   *)
(* has at most one order in the billing's hands, a member who had paid is   *)
(* not charged, and one who is due is not left out.                         *)
EXTENDS BillingMonth, TLAPS

(* Each operator on the table keeps its type.                               *)
LEMMA TableTypes ==
    ASSUME NEW table \in OrderTable, NEW o \in Orders, NEW flag \in OrderFlag, NEW now \in Nat,
           NEW m, NEW ids
    PROVE  /\ FlagOrder(table, o, flag) \in OrderTable
           /\ MarkResolvedForRenew(table, ids) \in OrderTable
           /\ Renewed(table, o, now) \in OrderTable
           /\ NotRenewed(table, o) \in OrderTable
           /\ ClearAllFlags(table) \in OrderTable
           /\ SkipOrdersByUserKey(table, m) \in OrderTable
<1> USE DEF OrderTable, OrderRow, OrderStatus, OrderFlag
<1>1. FlagOrder(table, o, flag) \in OrderTable  BY DEF FlagOrder
<1>2. MarkResolvedForRenew(table, ids) \in OrderTable  BY DEF MarkResolvedForRenew
<1>3. Renewed(table, o, now) \in OrderTable  BY DEF Renewed
<1>4. NotRenewed(table, o) \in OrderTable  BY DEF NotRenewed
<1>5. ClearAllFlags(table) \in OrderTable  BY DEF ClearAllFlags
<1>6. SkipOrdersByUserKey(table, m) \in OrderTable  BY DEF SkipOrdersByUserKey
<1>7. QED  BY <1>1, <1>2, <1>3, <1>4, <1>5, <1>6

LEMMA Starts ==
    Init => /\ orders \in StartOrders /\ keyed \in {{}, Orders} /\ month = 2 /\ run = Idle
            /\ renewed = {} /\ basis = 0 /\ paid = {} /\ missed = {} /\ touched = {}
BY Zenon DEF Init

LEMMA TypeInit == Init => TypeOK
<1> SUFFICES ASSUME Init  PROVE TypeOK  OBVIOUS
<1>1. orders \in OrderTable  BY BillingMonthAssumption DEF Init
<1>2. run \in RunState  BY Starts DEF Idle, RunState
<1>3. handed \subseteq Orders  BY DEF Init
<1>4. QED  BY <1>1, <1>2, <1>3, Starts DEF TypeOK

(* The flags step keeps the types.                                          *)
LEMMA FlagsType ==
    ASSUME TypeOK, StartBilling \/ StartRetry \/ Flags
    PROVE  TypeOK'
<1> USE DEF TypeOK
<1>o. Owner \in [Orders -> Members]  BY BillingMonthAssumption
<1>1. CASE StartBilling
  <2>1. PICK period \in Periods, opts \in SUBSET {"flags", "muhlafim", "charge"} :
          run' = [Idle EXCEPT !.pc = IF "flags" \in opts THEN "clear" ELSE "muhlafim",
                              !.period = period, !.opts = opts]
    BY <1>1 DEF StartBilling
  <2>2. period \in Nat /\ opts \in SUBSET Options  BY BillingMonthAssumption DEF Options
  <2>3. run' \in RunState  BY <2>1, <2>2 DEF Idle, RunState
  <2>4. QED  BY <1>1, <2>3 DEF StartBilling
<1>2. CASE StartRetry
  BY <1>2, RecurringAssumption DEF StartRetry, Idle, RunState, Options, OrderIDsWithPricingError
<1>3. CASE Clear
  <2>1. orders' \in OrderTable  BY <1>3, TableTypes DEF Clear, ClearAllFlags, OrderTable, OrderRow, OrderFlag
  <2>2. paid' \subseteq Members  BY <1>3, <1>o DEF Clear
  <2>3. QED  BY <1>3, <2>1, <2>2 DEF Clear, RunState
<1>4. CASE UpdateOrdersUserKey
  BY <1>4 DEF UpdateOrdersUserKey, RunState
<1>5. CASE ListMembers
  BY <1>5 DEF ListMembers, RunState
<1>6. ASSUME NEW m \in Members, SelectOrder(m)  PROVE TypeOK'
  <2>1. PICK o \in First(Renewable(m)) \cup {NoOrder} :
          run' = [run EXCEPT !.todo = @ \ {m},
                             !.chosen = IF o # NoOrder /\ Due(o, run.period) THEN o ELSE NoOrder]
    BY <1>6 DEF SelectOrder
  <2>2. o \in Orders \cup {NoOrder}  BY DEF First, Renewable
  <2>3. run' \in RunState  BY <2>1, <2>2 DEF RunState
  <2>4. QED  BY <1>6, <2>3 DEF SelectOrder
<1>7. ASSUME NEW m \in Members, Skip(m)  PROVE TypeOK'
  <2>1. orders' \in OrderTable
    BY <1>7 DEF Skip, SkipOrdersByUserKey, OrderTable, OrderRow, OrderFlag
  <2>2. QED  BY <1>7, <2>1 DEF Skip, RunState
<1>8. ASSUME NEW m \in Members, SkipFails(m)  PROVE TypeOK'
  BY <1>8 DEF SkipFails, RunState
<1>9. CASE FlagSelected
  <2>1. run.chosen \in Orders  BY <1>9 DEF FlagSelected, RunState
  <2>2. orders' \in OrderTable
    BY <1>9, <2>1, TableTypes DEF FlagSelected, OrderFlag
  <2>3. QED  BY <1>9, <2>2 DEF FlagSelected, RunState
<1>10. CASE Flagged
  BY <1>10 DEF Flagged, RunState
<1>11. CASE ListDouble
  BY <1>11 DEF ListDouble, RunState, OrdersToSkipDouble
<1>12. CASE ListFresh
  BY <1>12 DEF ListFresh, RunState, OrdersToSkipFresh
<1>13. CASE FlagsSet
  BY <1>13 DEF FlagsSet, RunState
<1>14. QED
  BY <1>1, <1>2, <1>3, <1>4, <1>5, <1>6, <1>7, <1>8, <1>9, <1>10, <1>11, <1>12, <1>13 DEF Flags

(* So do the charging steps.                                                *)
LEMMA ChargesType ==
    ASSUME TypeOK, Charges \/ Ends
    PROVE  TypeOK'
<1> USE DEF TypeOK
<1>1. CASE ReadMuhlafim
  BY <1>1 DEF ReadMuhlafim, RunState
<1>2. CASE MuhlafimDone
  BY <1>2 DEF MuhlafimDone, RunState
<1>3. CASE CollectToRenew
  BY <1>3, RecurringAssumption DEF CollectToRenew, Idle, RunState, OrderIDsToRenew
<1>4. CASE PreResolve
  <2> DEFINE known(flagged) ==
               [o \in Orders |-> IF o \in flagged
                                THEN FlagOrder(orders, o, "pricing_error")[o]
                                ELSE orders[o]]
             Outcome(resolved, flagged) ==
               /\ orders' = IF "retry" \in run.opts
                            THEN MarkResolvedForRenew(known(flagged), resolved)
                            ELSE known(flagged)
               /\ run' = [run EXCEPT !.pc = "charge", !.ids = resolved]
  <2>a. PICK resolved \in SUBSET run.ids :
          \E flagged \in SUBSET (run.ids \ resolved) : Outcome(resolved, flagged)
    BY <1>4 DEF PreResolve
  <2>1. PICK flagged \in SUBSET (run.ids \ resolved) : Outcome(resolved, flagged)
    BY <2>a
  <2>2. known(flagged) \in OrderTable  BY DEF FlagOrder, OrderTable, OrderRow, OrderFlag
  <2>3. MarkResolvedForRenew(known(flagged), resolved) \in OrderTable
    BY <2>2 DEF MarkResolvedForRenew, OrderTable, OrderRow, OrderFlag
  <2>4. run' \in RunState  BY <2>1 DEF RunState
  <2>5. QED  BY <1>4, <2>1, <2>2, <2>3, <2>4 DEF PreResolve
<1>5. ASSUME NEW o \in Orders, FlagMuhlafim(o)  PROVE TypeOK'
  <2>1. orders' \in OrderTable  BY <1>5, TableTypes DEF FlagMuhlafim, OrderFlag
  <2>2. QED  BY <1>5, <2>1 DEF FlagMuhlafim, RunState
<1>6. ASSUME NEW o \in Orders, ChargeRecorded(o)  PROVE TypeOK'
  <2>1. orders' \in OrderTable
    BY <1>6 DEF ChargeRecorded, Renewed, OrderTable, OrderRow, OrderStatus, OrderFlag
  <2>2. QED  BY <1>6, <2>1 DEF ChargeRecorded, RunState
<1>7. ASSUME NEW o \in Orders, ChargeFailed(o)  PROVE TypeOK'
  <2>1. orders' \in OrderTable
    BY <1>7 DEF ChargeFailed, NotRenewed, OrderTable, OrderRow, OrderStatus
  <2>2. QED  BY <1>7, <2>1 DEF ChargeFailed, RunState
<1>8. CASE Ends
  BY <1>8 DEF Ends, Idle, RunState
<1>9. QED  BY <1>1, <1>2, <1>3, <1>4, <1>5, <1>6, <1>7, <1>8 DEF Charges

(* And so do the members and the clock.                                     *)
LEMMA OutsideType ==
    ASSUME TypeOK,
           MonthTurns \/ \E o \in Orders :
              PaymentSucceeds(o) \/ PaymentFails(o) \/ CancelOrder(o) \/ PatchFlag(o)
    PROVE  TypeOK'
<1> USE DEF TypeOK
<1>o. Owner \in [Orders -> Members]  BY BillingMonthAssumption
<1>1. CASE MonthTurns
  BY <1>1 DEF MonthTurns
<1>2. ASSUME NEW o \in Orders, PaymentSucceeds(o)  PROVE TypeOK'
  <2>1. orders' \in OrderTable  BY <1>2 DEF PaymentSucceeds, OrderTable, OrderRow, OrderStatus
  <2>2. QED  BY <1>2, <1>o, <2>1 DEF PaymentSucceeds
<1>3. ASSUME NEW o \in Orders, PaymentFails(o)  PROVE TypeOK'
  <2>1. orders' \in OrderTable
    BY <1>3 DEF PaymentFails, NotRenewed, OrderTable, OrderRow, OrderStatus
  <2>2. QED  BY <1>3, <1>o, <2>1 DEF PaymentFails
<1>4. ASSUME NEW o \in Orders, CancelOrder(o)  PROVE TypeOK'
  <2>1. orders' \in OrderTable  BY <1>4 DEF CancelOrder, OrderTable, OrderRow, OrderStatus
  <2>2. QED  BY <1>4, <1>o, <2>1 DEF CancelOrder
<1>5. ASSUME NEW o \in Orders, PatchFlag(o)  PROVE TypeOK'
  <2>1. PICK flag \in HandFlags : orders' = FlagOrder(orders, o, flag)  BY <1>5 DEF PatchFlag
  <2>2. orders' \in OrderTable  BY <2>1, TableTypes, BillingMonthAssumption
  <2>3. QED  BY <1>5, <1>o, <2>2 DEF PatchFlag
<1>6. QED  BY <1>1, <1>2, <1>3, <1>4, <1>5

LEMMA TypeNext ==
    ASSUME TypeOK, [Next]_vars
    PROVE  TypeOK'
<1>1. CASE Next
  BY <1>1, FlagsType, ChargesType, OutsideType DEF Next
<1>2. CASE UNCHANGED vars
  BY <1>2 DEF vars, TypeOK
<1>3. QED  BY <1>1, <1>2

(* Every reachable state is well typed.                                     *)
THEOREM MonthTypeCorrect == Spec => []TypeOK
<1>1. QED  BY TypeInit, TypeNext, PTL DEF Spec

-----------------------------------------------------------------------------
(* Why no order is renewed twice in a month. The flag "renewed" is no       *)
(* protection, since Clear takes it away; what protects a renewed order is  *)
(* its payment date, which keeps it from being due for this month or an     *)
(* earlier one, and so out of every list a command charges from.            *)

OutOfReach(o) ==
    /\ orders[o].paidOn = month
    /\ orders[o].flag \notin {"torenew", "pricing_error"}
    /\ run.chosen = o => run.period > month
    /\ run.pc \in {"resolve", "charge"} => o \notin run.ids

RenewedInv ==
    /\ TypeOK
    /\ run.chosen # NoOrder => run.pc = "select"
    /\ \A o \in renewed : OutOfReach(o)

LEMMA RenewedInit == Init => RenewedInv
BY TypeInit, Starts DEF RenewedInv, Idle

LEMMA FlagsKeepRenewed ==
    ASSUME RenewedInv, TypeOK', StartBilling \/ StartRetry \/ Flags
    PROVE  RenewedInv'
<1> USE DEF RenewedInv, OutOfReach
<1>t. TypeOK  OBVIOUS
<1>r. renewed' \subseteq renewed /\ month' = month
  BY DEF StartBilling, StartRetry, Flags, Clear, UpdateOrdersUserKey, ListMembers, SelectOrder,
         Skip, SkipFails, FlagSelected, Flagged, ListDouble, ListFresh, FlagsSet
<1>1. CASE StartBilling
  <2>1. PICK period \in Periods, opts \in SUBSET {"flags", "muhlafim", "charge"} :
          run' = [Idle EXCEPT !.pc = IF "flags" \in opts THEN "clear" ELSE "muhlafim",
                              !.period = period, !.opts = opts]
    BY <1>1 DEF StartBilling
  <2>2. run'.chosen = NoOrder /\ run'.pc \notin {"resolve", "charge"}  BY <2>1 DEF Idle
  <2>3. QED  BY <1>1, <1>r, <2>2, BillingMonthAssumption DEF StartBilling, TypeOK
<1>2. CASE StartRetry
  <2>1. run'.chosen = NoOrder /\ run'.ids = OrderIDsWithPricingError(orders)
    BY <1>2 DEF StartRetry, Idle
  <2>2. \A o \in renewed : o \notin run'.ids  BY <2>1 DEF OrderIDsWithPricingError
  <2>3. orders' = orders  BY <1>2 DEF StartRetry
  <2>4. \A o \in renewed : run'.chosen # o  BY <1>t, <2>1, BillingMonthAssumption DEF TypeOK
  <2>5. QED  BY <1>r, <2>1, <2>2, <2>3, <2>4
<1>3. CASE Clear
  <2>1. \A o \in Orders : orders'[o].paidOn = orders[o].paidOn /\ orders'[o].flag = ""
    BY <1>3, <1>t DEF Clear, ClearAllFlags, TypeOK, OrderTable, OrderRow
  <2>2. QED  BY <1>3, <1>r, <1>t, <2>1 DEF Clear, TypeOK, RunState
<1>4. CASE UpdateOrdersUserKey
  BY <1>4, <1>r, <1>t DEF UpdateOrdersUserKey, TypeOK, RunState
<1>5. CASE ListMembers
  BY <1>5, <1>r, <1>t DEF ListMembers, TypeOK, RunState
<1>6. ASSUME NEW m \in Members, SelectOrder(m)  PROVE RenewedInv'
  <2>1. PICK o \in First(Renewable(m)) \cup {NoOrder} :
          run' = [run EXCEPT !.todo = @ \ {m},
                             !.chosen = IF o # NoOrder /\ Due(o, run.period) THEN o ELSE NoOrder]
    BY <1>6 DEF SelectOrder
  <2>2. run'.chosen \in Orders => Due(run'.chosen, run.period)
    BY <2>1, <1>t, BillingMonthAssumption DEF TypeOK, RunState
  <2>3. \A i \in renewed : run'.chosen = i => run.period > month
    BY <2>2, <1>t DEF Due, TypeOK, RunState, OrderTable, OrderRow
  <2>4. run'.pc = "select" /\ run'.period = run.period
    BY <1>6, <2>1, <1>t DEF SelectOrder, TypeOK, RunState
  <2>5. QED  BY <1>6, <1>r, <2>3, <2>4 DEF SelectOrder
<1>7. ASSUME NEW m \in Members, Skip(m)  PROVE RenewedInv'
  <2>1. \A o \in Orders : /\ orders'[o].paidOn = orders[o].paidOn
                          /\ orders'[o].flag \in {orders[o].flag, "skip"}
    BY <1>7, <1>t DEF Skip, SkipOrdersByUserKey, TypeOK, OrderTable, OrderRow
  <2>2. run'.pc = run.pc /\ run'.period = run.period /\ run'.chosen = run.chosen
    BY <1>7, <1>t DEF Skip, TypeOK, RunState
  <2>3. QED  BY <1>7, <1>r, <1>t, <2>1, <2>2 DEF Skip, TypeOK
<1>8. ASSUME NEW m \in Members, SkipFails(m)  PROVE RenewedInv'
  BY <1>8, <1>r, <1>t DEF SkipFails, TypeOK, RunState
<1>9. CASE FlagSelected
  <2>1. run.chosen \notin renewed'  BY <1>9 DEF FlagSelected
  <2>2. \A o \in renewed' : orders'[o] = orders[o]
    BY <1>9, <1>t, <2>1 DEF FlagSelected, FlagOrder, TypeOK, OrderTable
  <2>3. run'.pc = "select" /\ run'.period = run.period /\ run'.chosen = NoOrder
    BY <1>9, <1>t DEF FlagSelected, TypeOK, RunState
  <2>4. QED  BY <1>r, <1>t, <2>2, <2>3, BillingMonthAssumption DEF TypeOK
<1>10. CASE Flagged
  BY <1>10, <1>r, <1>t DEF Flagged, TypeOK, RunState
<1>11. CASE ListDouble
  BY <1>11, <1>r, <1>t DEF ListDouble, TypeOK, RunState
<1>12. CASE ListFresh
  BY <1>12, <1>r, <1>t DEF ListFresh, TypeOK, RunState
<1>13. CASE FlagsSet
  BY <1>13, <1>r, <1>t DEF FlagsSet, TypeOK, RunState
<1>14. QED
  BY <1>1, <1>2, <1>3, <1>4, <1>5, <1>6, <1>7, <1>8, <1>9, <1>10, <1>11, <1>12, <1>13 DEF Flags

LEMMA ChargesKeepRenewed ==
    ASSUME RenewedInv, TypeOK', Charges \/ Ends
    PROVE  RenewedInv'
<1> USE DEF RenewedInv, OutOfReach
<1>t. TypeOK  OBVIOUS
<1>m. month' = month
  BY DEF Charges, ReadMuhlafim, MuhlafimDone, CollectToRenew, PreResolve, FlagMuhlafim,
         ChargeRecorded, ChargeFailed, Ends
<1>n. \A o \in renewed : o \in Orders /\ NoOrder # o  BY <1>t, BillingMonthAssumption DEF TypeOK
<1>1. CASE ReadMuhlafim
  BY <1>1, <1>m, <1>t DEF ReadMuhlafim, TypeOK, RunState
<1>2. CASE MuhlafimDone
  BY <1>2, <1>m, <1>t DEF MuhlafimDone, TypeOK, RunState
<1>3. CASE CollectToRenew
  <2>1. CASE "charge" \in run.opts
    <3>1. run' = [run EXCEPT !.pc = "resolve", !.ids = OrderIDsToRenew(orders)]
      BY <1>3, <2>1 DEF CollectToRenew
    <3>2. \A o \in renewed : o \notin run'.ids
      BY <3>1, <1>t DEF OrderIDsToRenew, TypeOK, RunState
    <3>3. QED  BY <1>3, <1>m, <1>n, <3>1, <3>2, <1>t DEF CollectToRenew, TypeOK, RunState
  <2>2. CASE "charge" \notin run.opts
    BY <1>3, <1>m, <1>n, <2>2, <1>t DEF CollectToRenew, Idle, TypeOK
  <2>3. QED  BY <2>1, <2>2
<1>4. CASE PreResolve
  <2>1. \A o \in renewed : o \notin run.ids  BY <1>4 DEF PreResolve
  <2> DEFINE known(flagged) ==
               [o \in Orders |-> IF o \in flagged
                                THEN FlagOrder(orders, o, "pricing_error")[o]
                                ELSE orders[o]]
             Outcome(resolved, flagged) ==
               /\ orders' = IF "retry" \in run.opts
                            THEN MarkResolvedForRenew(known(flagged), resolved)
                            ELSE known(flagged)
               /\ run' = [run EXCEPT !.pc = "charge", !.ids = resolved]
  <2>a. PICK resolved \in SUBSET run.ids :
          \E flagged \in SUBSET (run.ids \ resolved) : Outcome(resolved, flagged)
    BY <1>4 DEF PreResolve
  <2>2. PICK flagged \in SUBSET (run.ids \ resolved) : Outcome(resolved, flagged)
    BY <2>a
  <2>3. \A o \in renewed : orders'[o] = orders[o]
    BY <2>1, <2>2, <1>n DEF MarkResolvedForRenew
  <2>4. /\ run'.ids = resolved
        /\ run'.pc = "charge"
        /\ run'.period = run.period
        /\ run'.chosen = run.chosen
    BY <2>2, <1>t DEF TypeOK, RunState
  <2>5. renewed' = renewed /\ run.pc = "resolve"  BY <1>4 DEF PreResolve
  <2>6. QED  BY <1>m, <2>1, <2>3, <2>4, <2>5
<1>5. ASSUME NEW o \in Orders, FlagMuhlafim(o)  PROVE RenewedInv'
  <2>1. \A i \in renewed : /\ orders'[i].paidOn = orders[i].paidOn
                           /\ orders'[i].flag \in {orders[i].flag, "muh"}
    BY <1>5, <1>t DEF FlagMuhlafim, FlagOrder, TypeOK, OrderTable, OrderRow
  <2>2. QED  BY <1>5, <1>m, <2>1, <1>t DEF FlagMuhlafim, TypeOK, RunState
<1>6. ASSUME NEW o \in Orders, ChargeRecorded(o)  PROVE RenewedInv'
  <2>1. orders' = Renewed(orders, o, month) /\ renewed' = renewed \cup {o}
    BY <1>6 DEF ChargeRecorded
  <2>2. orders'[o].paidOn = month /\ orders'[o].flag = "renewed"
    BY <2>1, <1>t DEF Renewed, TypeOK, OrderTable
  <2>3. \A i \in renewed : i # o => orders'[i] = orders[i]
    BY <2>1, <1>t DEF Renewed, TypeOK, OrderTable
  <2>4. /\ run'.ids = run.ids \ {o}
        /\ run'.pc = "charge" /\ run.pc = "charge"
        /\ run'.period = run.period
        /\ run'.chosen = NoOrder
    BY <1>6, <1>t DEF ChargeRecorded, TypeOK, RunState
  <2>5. NoOrder # o  BY BillingMonthAssumption
  <2>6. QED  BY <1>m, <1>n, <2>1, <2>2, <2>3, <2>4, <2>5
<1>7. ASSUME NEW o \in Orders, ChargeFailed(o)  PROVE RenewedInv'
  <2>1. \A i \in renewed : orders'[i].paidOn = orders[i].paidOn /\ orders'[i].flag = orders[i].flag
    BY <1>7, <1>t DEF ChargeFailed, NotRenewed, TypeOK, OrderTable, OrderRow
  <2>2. QED  BY <1>7, <1>m, <2>1, <1>t DEF ChargeFailed, TypeOK, RunState
<1>8. CASE Ends
  BY <1>8, <1>m, <1>n, <1>t DEF Ends, Idle, TypeOK
<1>9. QED  BY <1>1, <1>2, <1>3, <1>4, <1>5, <1>6, <1>7, <1>8 DEF Charges

LEMMA OutsideKeepsRenewed ==
    ASSUME RenewedInv, TypeOK',
           MonthTurns \/ \E o \in Orders :
              PaymentSucceeds(o) \/ PaymentFails(o) \/ CancelOrder(o) \/ PatchFlag(o)
    PROVE  RenewedInv'
<1> USE DEF RenewedInv, OutOfReach
<1>t. TypeOK  OBVIOUS
<1>1. CASE MonthTurns
  <2>1. renewed' = {} /\ run' = run  BY <1>1 DEF MonthTurns
  <2>2. QED  BY <2>1
<1>2. ASSUME NEW o \in Orders, PaymentSucceeds(o)  PROVE RenewedInv'
  <2>1. \A i \in renewed : /\ orders'[i].paidOn = IF i = o THEN month ELSE orders[i].paidOn
                           /\ orders'[i].flag = orders[i].flag
    BY <1>2, <1>t DEF PaymentSucceeds, TypeOK, OrderTable, OrderRow
  <2>2. QED  BY <1>2, <2>1 DEF PaymentSucceeds
<1>3. ASSUME NEW o \in Orders, PaymentFails(o) \/ CancelOrder(o)  PROVE RenewedInv'
  <2>1. \A i \in renewed : orders'[i].paidOn = orders[i].paidOn /\ orders'[i].flag = orders[i].flag
    BY <1>3, <1>t DEF PaymentFails, CancelOrder, NotRenewed, TypeOK, OrderTable, OrderRow
  <2>2. renewed' = renewed /\ month' = month /\ run' = run
    BY <1>3 DEF PaymentFails, CancelOrder
  <2>3. QED  BY <2>1, <2>2
<1>4. ASSUME NEW o \in Orders, PatchFlag(o)  PROVE RenewedInv'
  <2>1. PICK flag \in HandFlags : orders' = FlagOrder(orders, o, flag)  BY <1>4 DEF PatchFlag
  <2>2. renewed' = renewed \ {o} /\ month' = month /\ run' = run  BY <1>4 DEF PatchFlag
  <2>3. \A i \in renewed' : orders'[i] = orders[i]
    BY <1>t, <2>1, <2>2 DEF FlagOrder, TypeOK, OrderTable
  <2>4. QED  BY <2>2, <2>3
<1>5. QED  BY <1>1, <1>2, <1>3, <1>4

LEMMA RenewedNext ==
    ASSUME RenewedInv, [Next]_vars
    PROVE  RenewedInv'
<1>1. TypeOK'  BY TypeNext DEF RenewedInv
<1>2. CASE Next
  BY <1>1, <1>2, FlagsKeepRenewed, ChargesKeepRenewed, OutsideKeepsRenewed DEF Next
<1>3. CASE UNCHANGED vars
  BY <1>3 DEF vars, RenewedInv, TypeOK, OutOfReach
<1>4. QED  BY <1>2, <1>3

(* However often a month's billing is started, stopped and retried, for     *)
(* whatever months, no order is renewed twice in a calendar month, unless   *)
(* the staff flagged it since or a run for a month not begun did.           *)
THEOREM OrdersRenewedOncePerMonth == Spec => RenewedOncePerMonth
<1>1. ASSUME RenewedInv, [Next]_vars
      PROVE  [\A o \in Orders : ChargeRecorded(o) => o \notin renewed]_vars
  BY <1>1 DEF ChargeRecorded, RenewedInv, OutOfReach
<1>2. QED  BY RenewedInit, RenewedNext, <1>1, PTL DEF Spec, RenewedOncePerMonth

-----------------------------------------------------------------------------
(* Why a member has one order in the billing's hands, and why it is the     *)
(* right one. Only the flagging step brings an order of a member in, of a   *)
(* member it has not looked at yet, and it starts from a table without      *)
(* flags; a charge can only move an order from one of these flags to        *)
(* another.                                                                 *)

Active == {"torenew", "pricing_error", "renewed"}

Flagging == {"keys", "list", "select", "double", "skip_double", "skip_fresh"}

SingleInv ==
    /\ OneFlaggedPerMember
    /\ run.pc \in {"keys", "list"} => \A o \in Orders \ handed : orders[o].flag = ""
    /\ run.pc = "select" =>
          \A o \in Orders \ handed : orders[o].flag \in Active => Owner[o] \notin run.todo
    /\ run.chosen # NoOrder =>
          /\ Owner[run.chosen] \notin run.todo
          /\ \A o \in Orders \ handed : orders[o].flag \in Active => Owner[o] # Owner[run.chosen]
    /\ run.pc \in {"resolve", "charge"} => \A o \in run.ids \ handed : orders[o].flag \in Active

(* Why a member who had paid is left alone. As long as the order he paid    *)
(* keeps its date, it is not due, hence not flagged, and so the second skip *)
(* rule finds him. It looks at the orders whose key is filled, and these    *)
(* include all that were ever paid.                                         *)
PaidOrder(o, m) ==
    /\ Owner[o] = m
    /\ orders[o].status \in {"paid", "cancelled"}
    /\ orders[o].paidOn = run.period
    /\ run.pc # "keys" => o \in keyed

ByHand == {Owner[o] : o \in handed}

PaidInv ==
    /\ run.pc \in Flagging \cup {"clear"} => run.period # 0
    /\ basis # 0 =>
          /\ run.pc \notin Flagging
          /\ \A o \in Orders : orders[o].flag \in Active => Owner[o] \notin paid \ (missed \cup ByHand)
    /\ run.pc \in Flagging =>
          /\ \A m \in paid : \E o \in Orders : PaidOrder(o, m)
          /\ \A o \in Orders : Owner[o] \notin ByHand /\ (orders[o].flag # "" \/ run.chosen = o) =>
                /\ o \in keyed
                /\ orders[o].flag \in {"", "torenew", "skip"}
                /\ Owner[o] \in paid => orders[o].paidOn # run.period
    /\ run.pc = "skip_fresh" =>
          \A o \in Orders : orders[o].flag = "torenew" /\ Owner[o] \in paid \ (missed \cup ByHand)
                            => Owner[o] \in run.todo

(* Why a member who is due is not left out. All he was ever billed for has  *)
(* its key filled, so the query's first row is the order he paid last.      *)
MustBill(m) ==
    /\ Membership(m) # {}
    /\ \A o \in Membership(m) : orders[o].paidOn # 0
    /\ \A o \in LastPaid(m) : Due(o, run.period)

Listed == {"select", "double", "skip_double", "skip_fresh", "muhlafim", "cards", "collect", "resolve"}

BilledInv ==
    "flags" \in run.opts =>
        /\ run.pc \in Listed \cup {"list"} =>
              \A o \in Orders : Owner[o] \notin touched /\ orders[o].status # "pending" => o \in keyed
        /\ run.pc \in Listed =>
              \A m \in Members \ touched :
                 MustBill(m) /\ (run.pc = "select" => m \notin run.todo)
                 => \E o \in LastPaid(m) : orders[o].flag # "" \/ run.chosen = o

(* What the resolution does to the rows.                                    *)
LEMMA Resolving ==
    ASSUME TypeOK, PreResolve
    PROVE  /\ run.pc = "resolve" /\ run'.pc = "charge"
           /\ run'.ids \subseteq run.ids
           /\ run'.period = run.period /\ run'.chosen = run.chosen /\ run'.opts = run.opts
           /\ \A o \in Orders : o \notin run.ids => orders'[o] = orders[o]
           /\ \A o \in Orders : orders'[o].flag \in {orders[o].flag, "pricing_error", "torenew"}
<1> USE DEF TypeOK, OrderTable, OrderRow
<1> DEFINE known(flagged) ==
             [o \in Orders |-> IF o \in flagged
                              THEN FlagOrder(orders, o, "pricing_error")[o]
                              ELSE orders[o]]
           Outcome(resolved, flagged) ==
             /\ orders' = IF "retry" \in run.opts
                          THEN MarkResolvedForRenew(known(flagged), resolved)
                          ELSE known(flagged)
             /\ run' = [run EXCEPT !.pc = "charge", !.ids = resolved]
<1>a. PICK resolved \in SUBSET run.ids :
        \E flagged \in SUBSET (run.ids \ resolved) : Outcome(resolved, flagged)
  BY DEF PreResolve
<1>1. PICK flagged \in SUBSET (run.ids \ resolved) : Outcome(resolved, flagged)
  BY <1>a
<1>2. ASSUME NEW o \in Orders
      PROVE  /\ known(flagged)[o].flag \in {orders[o].flag, "pricing_error"}
             /\ o \notin run.ids => known(flagged)[o] = orders[o]
  BY DEF FlagOrder
<1>3. ASSUME NEW o \in Orders
      PROVE  /\ MarkResolvedForRenew(known(flagged), resolved)[o].flag
                   \in {known(flagged)[o].flag, "torenew"}
             /\ o \notin run.ids =>
                   MarkResolvedForRenew(known(flagged), resolved)[o] = known(flagged)[o]
  BY DEF MarkResolvedForRenew, FlagOrder
<1>4. ASSUME NEW o \in Orders
      PROVE  /\ orders'[o].flag \in {orders[o].flag, "pricing_error", "torenew"}
             /\ o \notin run.ids => orders'[o] = orders[o]
  <2>1. CASE "retry" \in run.opts
    <3>1. orders'[o] = MarkResolvedForRenew(known(flagged), resolved)[o]  BY <1>1, <2>1
    <3>2. QED  BY <3>1, <1>2, <1>3
  <2>2. CASE "retry" \notin run.opts
    <3>1. orders'[o] = known(flagged)[o]  BY <1>1, <2>2
    <3>2. QED  BY <3>1, <1>2
  <2>3. QED  BY <2>1, <2>2
<1>5. /\ run'.pc = "charge" /\ run'.ids = resolved
      /\ run'.period = run.period /\ run'.chosen = run.chosen /\ run'.opts = run.opts
  BY <1>1 DEF RunState
<1>6. QED  BY <1>4, <1>5 DEF PreResolve

LEMMA Starting ==
    ASSUME StartBilling
    PROVE  /\ run'.pc = (IF "flags" \in run'.opts THEN "clear" ELSE "muhlafim")
           /\ run'.period \in Periods /\ run'.chosen = NoOrder
<1>1. PICK period \in Periods, opts \in SUBSET {"flags", "muhlafim", "charge"} :
        run' = [Idle EXCEPT !.pc = IF "flags" \in opts THEN "clear" ELSE "muhlafim",
                            !.period = period, !.opts = opts]
  BY DEF StartBilling
<1>2. run'.opts = opts /\ run'.period = period /\ run'.chosen = NoOrder
  BY <1>1 DEF Idle
<1>3. run'.pc = IF "flags" \in opts THEN "clear" ELSE "muhlafim"  BY <1>1 DEF Idle
<1>4. QED  BY <1>2, <1>3

(* What the members do, and the clock, leaves the flags alone; the staff    *)
(* write one.                                                               *)
Outside == MonthTurns \/ \E o \in Orders : PaymentSucceeds(o) \/ PaymentFails(o) \/ CancelOrder(o)

LEMMA OutsideKeepsFlags ==
    ASSUME TypeOK, Outside
    PROVE  run' = run /\ handed' = handed /\ \A o \in Orders : orders'[o].flag = orders[o].flag
<1> USE DEF TypeOK, OrderTable, OrderRow
<1>1. CASE MonthTurns  BY <1>1 DEF MonthTurns
<1>2. ASSUME NEW o \in Orders, PaymentSucceeds(o)
      PROVE  run' = run /\ handed' = handed /\ \A i \in Orders : orders'[i].flag = orders[i].flag
  BY <1>2 DEF PaymentSucceeds
<1>3. ASSUME NEW o \in Orders, PaymentFails(o)
      PROVE  run' = run /\ handed' = handed /\ \A i \in Orders : orders'[i].flag = orders[i].flag
  BY <1>3 DEF PaymentFails, NotRenewed
<1>4. ASSUME NEW o \in Orders, CancelOrder(o)
      PROVE  run' = run /\ handed' = handed /\ \A i \in Orders : orders'[i].flag = orders[i].flag
  BY <1>4 DEF CancelOrder
<1>5. QED  BY <1>1, <1>2, <1>3, <1>4 DEF Outside

LEMMA Patching ==
    ASSUME TypeOK, NEW i \in Orders, PatchFlag(i)
    PROVE  /\ run' = run /\ handed' = handed \cup {i} /\ touched' = touched \cup {Owner[i]}
           /\ UNCHANGED <<keyed, month, basis, paid, missed>>
           /\ \A o \in Orders \ {i} : orders'[o] = orders[o]
           /\ orders'[i].status = orders[i].status /\ orders'[i].paidOn = orders[i].paidOn
<1> USE DEF TypeOK, OrderTable, OrderRow
<1>1. PICK flag \in HandFlags : orders' = FlagOrder(orders, i, flag)  BY DEF PatchFlag
<1>2. QED  BY <1>1 DEF PatchFlag, FlagOrder

(* The flags of the rest of the billing's steps.                            *)
LEMMA FlagsOf ==
    ASSUME TypeOK
    PROVE  /\ Clear => \A o \in Orders : orders'[o].flag = ""
           /\ FlagSelected =>
                 /\ run.chosen \in Orders
                 /\ orders'[run.chosen].flag = "torenew"
                 /\ \A o \in Orders \ {run.chosen} : orders'[o] = orders[o]
           /\ \A m \in Members : Skip(m) =>
                 \A o \in Orders : orders'[o].flag =
                    IF o \in keyed /\ Owner[o] = m /\ orders[o].flag = "torenew"
                    THEN "skip" ELSE orders[o].flag
           /\ \A i \in Orders : FlagMuhlafim(i) =>
                 \A o \in Orders : orders'[o].flag = IF o = i THEN "muh" ELSE orders[o].flag
           /\ \A i \in Orders : ChargeRecorded(i) =>
                 \A o \in Orders : orders'[o].flag = IF o = i THEN "renewed" ELSE orders[o].flag
           /\ \A i \in Orders : ChargeFailed(i) =>
                 \A o \in Orders : orders'[o].flag = orders[o].flag
<1> USE DEF TypeOK, OrderTable, OrderRow
<1>1. ASSUME Clear  PROVE \A o \in Orders : orders'[o].flag = ""
  <2>1. orders' = [o \in Orders |-> [orders[o] EXCEPT !.flag = ""]]  BY <1>1 DEF Clear, ClearAllFlags
  <2>2. \A o \in Orders : [orders[o] EXCEPT !.flag = ""].flag = ""  OBVIOUS
  <2>3. QED  BY <2>1, <2>2
<1>2. FlagSelected => /\ run.chosen \in Orders
                      /\ orders'[run.chosen].flag = "torenew"
                      /\ \A o \in Orders \ {run.chosen} : orders'[o] = orders[o]
  BY DEF FlagSelected, FlagOrder, RunState
<1>3. ASSUME NEW m \in Members, Skip(m)
      PROVE  \A o \in Orders : orders'[o].flag =
                IF o \in keyed /\ Owner[o] = m /\ orders[o].flag = "torenew"
                THEN "skip" ELSE orders[o].flag
  BY <1>3 DEF Skip, SkipOrdersByUserKey
<1>4. ASSUME NEW i \in Orders, FlagMuhlafim(i)
      PROVE  \A o \in Orders : orders'[o].flag = IF o = i THEN "muh" ELSE orders[o].flag
  BY <1>4 DEF FlagMuhlafim, FlagOrder
<1>5. ASSUME NEW i \in Orders, ChargeRecorded(i)
      PROVE  \A o \in Orders : orders'[o].flag = IF o = i THEN "renewed" ELSE orders[o].flag
  BY <1>5 DEF ChargeRecorded, Renewed
<1>6. ASSUME NEW i \in Orders, ChargeFailed(i)
      PROVE  \A o \in Orders : orders'[o].flag = orders[o].flag
  BY <1>6 DEF ChargeFailed, NotRenewed
<1>7. QED  BY <1>1, <1>2, <1>3, <1>4, <1>5, <1>6

LEMMA FewerFlagged ==
    ASSUME OneFlaggedPerMember, handed \subseteq handed',
           \A o \in Orders \ handed' : orders'[o].flag \in Active => orders[o].flag \in Active
    PROVE  OneFlaggedPerMember'
BY DEF OneFlaggedPerMember, Active

LEMMA SingleInit == Init => SingleInv
<1> SUFFICES ASSUME Init  PROVE SingleInv  OBVIOUS
<1>1. \A o \in Orders \ handed : orders[o].flag = ""  BY DEF Init
<1>2. QED  BY <1>1 DEF Init, SingleInv, OneFlaggedPerMember, Idle

LEMMA SingleNext ==
    ASSUME RenewedInv, SingleInv, TypeOK', [Next]_vars
    PROVE  SingleInv'
<1> USE DEF Active
<1>t. TypeOK /\ (run.chosen # NoOrder => run.pc = "select")  BY DEF RenewedInv
<1>1. CASE UNCHANGED vars  BY <1>1 DEF vars, SingleInv, OneFlaggedPerMember
<1>2. CASE Outside
  <2>1. run' = run /\ handed' = handed /\ \A o \in Orders : orders'[o].flag = orders[o].flag
    BY <1>t, <1>2, OutsideKeepsFlags
  <2>2. OneFlaggedPerMember'  BY <2>1, FewerFlagged DEF SingleInv
  <2>3. run.ids \subseteq Orders  BY <1>t DEF TypeOK, RunState
  <2>4. QED  BY <2>1, <2>2, <2>3 DEF SingleInv
<1>3. ASSUME UNCHANGED <<orders, handed>>, run'.chosen = NoOrder,
             run'.pc \notin {"keys", "list", "select", "resolve", "charge"}
      PROVE  SingleInv'
  BY <1>3 DEF SingleInv, OneFlaggedPerMember
<1>4. CASE StartBilling \/ Flagged \/ ListDouble \/ ListFresh \/ FlagsSet \/ ReadMuhlafim
           \/ MuhlafimDone \/ Ends \/ \E m \in Members : SkipFails(m)
  <2>1. UNCHANGED <<orders, handed>>
    BY <1>4 DEF StartBilling, Flagged, ListDouble, ListFresh, FlagsSet, ReadMuhlafim, MuhlafimDone,
                Ends, SkipFails
  <2>2. run'.chosen = NoOrder /\ run'.pc \notin {"keys", "list", "select", "resolve", "charge"}
    <3>0. CASE StartBilling  BY <3>0, Starting
    <3>1. CASE Ends  BY <3>1 DEF Ends, Idle
    <3>2. CASE ReadMuhlafim  BY <3>2, <1>t DEF ReadMuhlafim, TypeOK, RunState
    <3>3. CASE Flagged \/ ListDouble \/ ListFresh \/ FlagsSet \/ MuhlafimDone
      BY <3>3, <1>t DEF Flagged, ListDouble, ListFresh, FlagsSet, MuhlafimDone, TypeOK, RunState
    <3>4. CASE \E m \in Members : SkipFails(m)
      BY <3>4, <1>t DEF SkipFails, TypeOK, RunState
    <3>5. QED  BY <1>4, <3>0, <3>1, <3>2, <3>3, <3>4
  <2>3. QED  BY <1>3, <2>1, <2>2
<1>5. CASE StartRetry
  <2>1. run'.pc = "resolve" /\ run'.chosen = NoOrder /\ run'.ids = OrderIDsWithPricingError(orders)
    BY <1>5 DEF StartRetry, Idle
  <2>2. UNCHANGED <<orders, handed>>  BY <1>5 DEF StartRetry
  <2>3. QED  BY <2>1, <2>2 DEF SingleInv, OneFlaggedPerMember, OrderIDsWithPricingError
<1>6. CASE CollectToRenew
  <2>1. CASE "charge" \in run.opts
    <3>1. run'.pc = "resolve" /\ run'.chosen = NoOrder /\ run'.ids = OrderIDsToRenew(orders)
      BY <1>6, <2>1, <1>t DEF CollectToRenew, TypeOK, RunState
    <3>2. UNCHANGED <<orders, handed>>  BY <1>6 DEF CollectToRenew
    <3>3. QED  BY <3>1, <3>2 DEF SingleInv, OneFlaggedPerMember, OrderIDsToRenew
  <2>2. CASE "charge" \notin run.opts
    BY <1>3, <1>6, <2>2 DEF CollectToRenew, Idle
  <2>3. QED  BY <2>1, <2>2
<1>7. CASE Clear
  <2>1. \A o \in Orders : orders'[o].flag = ""  BY <1>7, <1>t, FlagsOf
  <2>2. run'.pc = "keys" /\ run'.chosen = NoOrder
    BY <1>7, <1>t DEF Clear, TypeOK, RunState
  <2>3. QED  BY <2>1, <2>2 DEF SingleInv, OneFlaggedPerMember
<1>8. CASE UpdateOrdersUserKey
  <2>1. run'.pc = "list" /\ run'.chosen = NoOrder /\ UNCHANGED <<orders, handed>> /\ run.pc = "keys"
    BY <1>8, <1>t DEF UpdateOrdersUserKey, TypeOK, RunState
  <2>2. QED  BY <2>1 DEF SingleInv, OneFlaggedPerMember
<1>9. CASE ListMembers
  <2>1. run'.pc = "select" /\ run'.chosen = NoOrder /\ UNCHANGED <<orders, handed>> /\ run.pc = "list"
    BY <1>9, <1>t DEF ListMembers, TypeOK, RunState
  <2>2. QED  BY <2>1 DEF SingleInv, OneFlaggedPerMember
<1>10. ASSUME NEW m \in Members, SelectOrder(m)  PROVE SingleInv'
  <2>1. PICK o \in First(Renewable(m)) \cup {NoOrder} :
          run' = [run EXCEPT !.todo = @ \ {m},
                             !.chosen = IF o # NoOrder /\ Due(o, run.period) THEN o ELSE NoOrder]
    BY <1>10 DEF SelectOrder
  <2>2. o # NoOrder => Owner[o] = m  BY DEF First, Renewable
  <2>3. /\ run'.pc = "select" /\ run.pc = "select" /\ run'.todo = run.todo \ {m} /\ m \in run.todo
        /\ run'.chosen \in {o, NoOrder}
    BY <1>10, <1>t, <2>1 DEF SelectOrder, TypeOK, RunState
  <2>4. UNCHANGED <<orders, handed>>  BY <1>10 DEF SelectOrder
  <2>5. OneFlaggedPerMember'  BY <2>4 DEF SingleInv, OneFlaggedPerMember
  <2>6. \A i \in Orders \ handed : orders'[i].flag \in Active => Owner[i] \notin run.todo
    BY <2>3, <2>4 DEF SingleInv
  <2>7. run'.chosen # NoOrder => Owner[run'.chosen] = m  BY <2>2, <2>3
  <2>8. QED  BY <2>3, <2>4, <2>5, <2>6, <2>7 DEF SingleInv
<1>11. CASE FlagSelected
  <2>1. /\ run.chosen \in Orders
        /\ orders'[run.chosen].flag = "torenew"
        /\ \A o \in Orders \ {run.chosen} : orders'[o] = orders[o]
    BY <1>11, <1>t, FlagsOf
  <2>2. run.chosen # NoOrder /\ run.pc = "select"  BY <1>11, <1>t DEF FlagSelected
  <2>3. run'.pc = "select" /\ run'.chosen = NoOrder /\ run'.todo = run.todo /\ handed' = handed
    BY <1>11, <1>t, <2>2 DEF FlagSelected, TypeOK, RunState
  <2>4. OneFlaggedPerMember'  BY <2>1, <2>2, <2>3 DEF SingleInv, OneFlaggedPerMember
  <2>5. \A o \in Orders \ handed : orders'[o].flag \in Active => Owner[o] \notin run.todo
    BY <2>1, <2>2 DEF SingleInv
  <2>6. QED  BY <2>3, <2>4, <2>5 DEF SingleInv
<1>12. ASSUME NEW m \in Members, Skip(m)  PROVE SingleInv'
  <2>1. \A o \in Orders : orders'[o].flag \in Active => orders[o].flag \in Active
    BY <1>12, <1>t, FlagsOf
  <2>2. run'.pc \in {"skip_double", "skip_fresh"} /\ run'.chosen = NoOrder /\ handed' = handed
    BY <1>12, <1>t DEF Skip, TypeOK, RunState
  <2>3. OneFlaggedPerMember'  BY <2>1, <2>2, FewerFlagged DEF SingleInv
  <2>4. QED  BY <2>2, <2>3 DEF SingleInv
<1>13. CASE PreResolve
  <2>1. /\ run.pc = "resolve" /\ run'.pc = "charge" /\ run'.ids \subseteq run.ids
        /\ run'.chosen = run.chosen
        /\ \A o \in Orders : o \notin run.ids => orders'[o] = orders[o]
        /\ \A o \in Orders : orders'[o].flag \in {orders[o].flag, "pricing_error", "torenew"}
    BY <1>13, <1>t, Resolving
  <2>2. run.ids \subseteq Orders  BY <1>t DEF TypeOK, RunState
  <2>h. handed' = handed  BY <1>13 DEF PreResolve
  <2>3. \A o \in run.ids \ handed : orders[o].flag \in Active  BY <2>1 DEF SingleInv
  <2>4. OneFlaggedPerMember'  BY <2>1, <2>h, <2>3, FewerFlagged DEF SingleInv
  <2>5. \A o \in run'.ids \ handed : orders'[o].flag \in Active  BY <2>1, <2>2, <2>3
  <2>6. QED  BY <1>t, <2>1, <2>h, <2>4, <2>5 DEF SingleInv
<1>14. ASSUME NEW o \in Orders, FlagMuhlafim(o)  PROVE SingleInv'
  <2>1. \A i \in Orders : orders'[i].flag \in Active => orders[i].flag \in Active
    BY <1>14, <1>t, FlagsOf
  <2>2. run'.pc = "cards" /\ run'.chosen = NoOrder /\ handed' = handed
    BY <1>14, <1>t DEF FlagMuhlafim, TypeOK, RunState
  <2>3. OneFlaggedPerMember'  BY <2>1, <2>2, FewerFlagged DEF SingleInv
  <2>4. QED  BY <2>2, <2>3 DEF SingleInv
<1>15. ASSUME NEW o \in Orders, ChargeRecorded(o) \/ ChargeFailed(o)  PROVE SingleInv'
  <2>1. /\ run.pc = "charge" /\ run'.pc = "charge" /\ run'.chosen = run.chosen
        /\ run'.ids = run.ids \ {o} /\ o \in run.ids /\ run.ids \subseteq Orders
        /\ handed' = handed
    BY <1>15, <1>t DEF ChargeRecorded, ChargeFailed, TypeOK, RunState
  <2>2. \A i \in Orders : i # o => orders'[i].flag = orders[i].flag
    BY <1>15, <1>t, FlagsOf
  <2>3. \A i \in run.ids \ handed : orders[i].flag \in Active  BY <2>1 DEF SingleInv
  <2>4. OneFlaggedPerMember'  BY <2>1, <2>2, <2>3, FewerFlagged DEF SingleInv
  <2>5. QED  BY <1>t, <2>1, <2>2, <2>3, <2>4 DEF SingleInv
<1>16. ASSUME NEW i \in Orders, PatchFlag(i)  PROVE SingleInv'
  <2>1. /\ run' = run /\ handed' = handed \cup {i} /\ run.ids \subseteq Orders
        /\ \A o \in Orders \ {i} : orders'[o] = orders[o]
    BY <1>16, <1>t, Patching DEF TypeOK, RunState
  <2>2. OneFlaggedPerMember'  BY <2>1, FewerFlagged DEF SingleInv
  <2>3. QED  BY <2>1, <2>2 DEF SingleInv
<1>17. QED
  BY <1>1, <1>2, <1>4, <1>5, <1>6, <1>7, <1>8, <1>9, <1>10, <1>11, <1>12, <1>13, <1>14, <1>15, <1>16
  DEF Next, Flags, Charges, Outside

(* A member never has two orders in the billing's hands, however the month  *)
(* is started, stopped and retried: the flagging step takes at most one     *)
(* order of each member, and it starts from a cleared table.                *)
THEOREM OneOrderPerMember == Spec => []OneFlaggedPerMember
<1>1. RenewedInv => TypeOK  BY DEF RenewedInv
<1>2. SingleInv => OneFlaggedPerMember  BY DEF SingleInv
<1>3. QED
  BY RenewedInit, RenewedNext, SingleInit, SingleNext, TypeInit, TypeNext, <1>1, <1>2, PTL DEF Spec

-----------------------------------------------------------------------------
(* The members who had paid.                                                *)

LEMMA PaidInit == Init => PaidInv
<1> SUFFICES ASSUME Init  PROVE PaidInv  OBVIOUS
<1>1. run.pc = "idle" /\ basis = 0  BY DEF Init, Idle
<1>2. QED  BY <1>1 DEF PaidInv, Flagging

LEMMA OffTheFlags ==
    ASSUME PaidInv, UNCHANGED <<basis, paid, missed, handed>>,
           run'.pc \notin Flagging, run'.pc = "clear" => run'.period # 0,
           \A o \in Orders \ handed : orders'[o].flag \in Active => orders[o].flag \in Active
    PROVE  PaidInv'
<1>1. ByHand' = ByHand /\ \A o \in Orders : Owner[o] \notin ByHand => o \notin handed  BY DEF ByHand
<1>2. QED  BY <1>1 DEF PaidInv, Active, Flagging

LEMMA ChargesKeepPaid ==
    ASSUME RenewedInv, SingleInv, PaidInv, StartBilling \/ StartRetry \/ Charges \/ Ends
    PROVE  PaidInv'
<1> USE DEF Active, Flagging
<1>t. TypeOK  BY DEF RenewedInv
<1>1. UNCHANGED <<basis, paid, missed, handed>>
  BY DEF StartBilling, StartRetry, Charges, Ends, ReadMuhlafim, MuhlafimDone, CollectToRenew,
         PreResolve, FlagMuhlafim, ChargeRecorded, ChargeFailed
<1>2. CASE StartBilling
  <2>1. run'.pc \in {"clear", "muhlafim"} /\ run'.period \in Periods
    BY <1>2, Starting
  <2>2. run'.period # 0  BY <2>1, BillingMonthAssumption
  <2>3. UNCHANGED orders  BY <1>2 DEF StartBilling
  <2>4. QED  BY <1>1, <2>1, <2>2, <2>3, OffTheFlags
<1>3. CASE StartRetry \/ Ends
  <2>1. run'.pc \in {"resolve", "idle"} /\ UNCHANGED orders
    <3>1. CASE StartRetry  BY <3>1 DEF StartRetry, Idle
    <3>2. CASE Ends  BY <3>2 DEF Ends, Idle
    <3>3. QED  BY <1>3, <3>1, <3>2
  <2>2. QED  BY <1>1, <2>1, OffTheFlags
<1>4. CASE ReadMuhlafim \/ MuhlafimDone \/ CollectToRenew
  <2>1. UNCHANGED orders  BY <1>4 DEF ReadMuhlafim, MuhlafimDone, CollectToRenew
  <2>2. run'.pc \in {"cards", "collect", "resolve", "idle"}
    <3>1. CASE ReadMuhlafim  BY <3>1, <1>t DEF ReadMuhlafim, TypeOK, RunState
    <3>2. CASE MuhlafimDone  BY <3>2, <1>t DEF MuhlafimDone, TypeOK, RunState
    <3>3. CASE CollectToRenew  BY <3>3, <1>t DEF CollectToRenew, Idle, TypeOK, RunState
    <3>4. QED  BY <1>4, <3>1, <3>2, <3>3
  <2>3. QED  BY <1>1, <2>1, <2>2, OffTheFlags
<1>5. CASE PreResolve
  <2>1. /\ run.pc = "resolve" /\ run'.pc = "charge"
        /\ \A o \in Orders : o \notin run.ids => orders'[o] = orders[o]
    BY <1>5, <1>t, Resolving
  <2>2. \A o \in run.ids \ handed : orders[o].flag \in Active  BY <2>1 DEF SingleInv
  <2>3. QED  BY <1>1, <2>1, <2>2, OffTheFlags
<1>6. ASSUME NEW i \in Orders, FlagMuhlafim(i)  PROVE PaidInv'
  <2>1. run'.pc = "cards"  BY <1>6, <1>t DEF FlagMuhlafim, TypeOK, RunState
  <2>2. \A o \in Orders : orders'[o].flag = IF o = i THEN "muh" ELSE orders[o].flag
    BY <1>6, <1>t, FlagsOf
  <2>3. QED  BY <1>1, <2>1, <2>2, OffTheFlags
<1>7. ASSUME NEW i \in Orders, ChargeRecorded(i) \/ ChargeFailed(i)  PROVE PaidInv'
  <2>1. run.pc = "charge" /\ run'.pc = "charge" /\ i \in run.ids
    BY <1>7, <1>t DEF ChargeRecorded, ChargeFailed, TypeOK, RunState
  <2>2. i \in handed \/ orders[i].flag \in Active  BY <2>1 DEF SingleInv
  <2>3. \A o \in Orders : orders'[o].flag = orders[o].flag \/ o = i
    BY <1>7, <1>t, FlagsOf
  <2>4. QED  BY <1>1, <2>1, <2>2, <2>3, OffTheFlags
<1>8. QED  BY <1>2, <1>3, <1>4, <1>5, <1>6, <1>7 DEF Charges

LEMMA FlagsKeepPaid ==
    ASSUME RenewedInv, SingleInv, PaidInv, TypeOK', Flags
    PROVE  PaidInv'
<1> USE DEF Flagging, Active
<1>t. TypeOK /\ (run.chosen # NoOrder => run.pc = "select")  BY DEF RenewedInv
<1>n. NoOrder \notin Orders  BY BillingMonthAssumption
<1>h. Clear \/ UNCHANGED handed
  BY DEF Flags, UpdateOrdersUserKey, ListMembers, SelectOrder, Skip, SkipFails, FlagSelected,
         Flagged, ListDouble, ListFresh, FlagsSet
<1>b. /\ Clear \/ ByHand' = ByHand
      /\ \A o \in Orders : Owner[o] \notin ByHand => o \notin handed
  BY <1>h DEF ByHand
<1>1. CASE Clear
  <2>1. \A o \in Orders : orders'[o].flag = ""  BY <1>1, <1>t, FlagsOf
  <2>2. /\ run'.pc = "keys" /\ run'.period = run.period /\ run'.chosen = NoOrder /\ basis' = 0
        /\ run.period # 0
    BY <1>1, <1>t DEF Clear, PaidInv, TypeOK, RunState
  <2>3. \A o \in Orders : /\ orders'[o].status = orders[o].status
                          /\ orders'[o].paidOn = orders[o].paidOn
    BY <1>1, <1>t DEF Clear, ClearAllFlags, TypeOK, OrderTable, OrderRow
  <2>4. \A m \in paid' : \E o \in Orders : /\ Owner[o] = m
                                           /\ orders[o].status \in {"paid", "cancelled"}
                                           /\ orders[o].paidOn = run.period
    BY <1>1 DEF Clear
  <2>5. \A m \in paid' : \E o \in Orders : PaidOrder(o, m)'
    BY <2>2, <2>3, <2>4 DEF PaidOrder
  <2>6. QED  BY <1>n, <2>1, <2>2, <2>5 DEF PaidInv
<1>2. CASE UpdateOrdersUserKey
  <2>1. /\ run.pc = "keys" /\ run'.pc = "list" /\ run'.period = run.period /\ run'.chosen = NoOrder
        /\ UNCHANGED <<orders, basis, paid, missed, handed>>
    BY <1>2, <1>t DEF UpdateOrdersUserKey, TypeOK, RunState
  <2>2. \A o \in Orders : orders[o].status # "pending" => o \in keyed'
    BY <1>2 DEF UpdateOrdersUserKey
  <2>3. \A o \in Orders \ handed : orders[o].flag = ""  BY <2>1 DEF SingleInv
  <2>4. \A m \in paid, o \in Orders : PaidOrder(o, m) => PaidOrder(o, m)'
    BY <2>1, <2>2 DEF PaidOrder
  <2>5. QED  BY <1>n, <2>1, <2>3, <2>4 DEF PaidInv, ByHand
<1>3. ASSUME UNCHANGED <<orders, keyed, basis, paid, handed>>, missed \subseteq missed',
             run.pc \in Flagging \ {"keys"}, run'.pc \in Flagging \ {"keys"},
             run'.period = run.period, run'.chosen = run.chosen,
             run'.pc = "skip_fresh" =>
                \A o \in Orders : orders[o].flag = "torenew" /\ Owner[o] \in paid \ (missed' \cup ByHand)
                                  => Owner[o] \in run'.todo
      PROVE  PaidInv'
  <2>1. \A m \in paid, o \in Orders : PaidOrder(o, m) => PaidOrder(o, m)'
    BY <1>3 DEF PaidOrder
  <2>2. basis' = 0  BY <1>3 DEF PaidInv
  <2>3. QED  BY <1>3, <2>1, <2>2 DEF PaidInv, ByHand
<1>4. CASE ListMembers \/ Flagged \/ ListDouble
  <2>1. /\ UNCHANGED <<orders, keyed, basis, paid, missed, handed>>
        /\ run.pc \in Flagging \ {"keys"} /\ run'.pc \in {"select", "double", "skip_double"}
        /\ run'.period = run.period /\ run'.chosen = run.chosen
    BY <1>4, <1>t DEF ListMembers, Flagged, ListDouble, TypeOK, RunState
  <2>2. QED  BY <1>3, <2>1
<1>5. ASSUME NEW m \in Members, SelectOrder(m)  PROVE PaidInv'
  <2>1. PICK o \in First(Renewable(m)) \cup {NoOrder} :
          run' = [run EXCEPT !.todo = @ \ {m},
                             !.chosen = IF o # NoOrder /\ Due(o, run.period) THEN o ELSE NoOrder]
    BY <1>5 DEF SelectOrder
  <2>2. /\ UNCHANGED <<orders, keyed, basis, paid, missed, handed>> /\ run.chosen = NoOrder
        /\ run.pc = "select" /\ run'.pc = "select" /\ run'.period = run.period
        /\ run'.chosen \in {o, NoOrder}
    BY <1>5, <1>t, <2>1 DEF SelectOrder, TypeOK, RunState
  <2>3. o # NoOrder => o \in Renewable(m)  BY DEF First
  <2>4. run'.chosen # NoOrder => Due(run'.chosen, run.period) /\ run'.chosen = o
    BY <1>t, <2>1 DEF TypeOK, RunState
  <2>5. basis' = 0  BY <2>2 DEF PaidInv
  <2>6. \A k \in paid, i \in Orders : PaidOrder(i, k) => PaidOrder(i, k)'
    BY <2>2 DEF PaidOrder
  <2>7. \A i \in Orders : run'.chosen = i => i \in keyed /\ orders[i].paidOn # run.period
    BY <1>n, <1>t, <2>3, <2>4 DEF Due, Renewable, TypeOK, RunState, OrderTable, OrderRow
  <2>8. \A i \in Orders : Owner[i] \notin ByHand /\ run'.chosen = i
                           => orders[i].flag \in {"", "torenew", "skip"}
    <3>1. \A i \in Orders : Owner[i] \notin ByHand /\ orders[i].flag # "" => orders[i].flag \in {"", "torenew", "skip"}
      BY <2>2 DEF PaidInv
    <3>2. QED  BY <3>1
  <2>9. \A k \in paid : \E i \in Orders : PaidOrder(i, k)'  BY <2>2, <2>6 DEF PaidInv
  <2>10. ASSUME NEW i \in Orders, Owner[i] \notin ByHand, orders[i].flag # "" \/ run'.chosen = i
         PROVE  /\ i \in keyed
                /\ orders[i].flag \in {"", "torenew", "skip"}
                /\ Owner[i] \in paid => orders[i].paidOn # run.period
    <3>1. CASE run'.chosen = i  BY <2>7, <2>8, <2>10, <3>1
    <3>2. CASE orders[i].flag # ""  BY <2>2, <2>10, <3>2 DEF PaidInv
    <3>3. QED  BY <2>10, <3>1, <3>2
  <2>11. QED  BY <2>2, <2>5, <2>9, <2>10 DEF PaidInv, ByHand
<1>6. CASE FlagSelected
  <2>1. /\ run.chosen \in Orders
        /\ orders'[run.chosen].flag = "torenew"
        /\ \A o \in Orders \ {run.chosen} : orders'[o] = orders[o]
    BY <1>6, <1>t, FlagsOf
  <2>2. /\ UNCHANGED <<keyed, basis, paid, missed, handed>> /\ run.pc = "select" /\ run'.pc = "select"
        /\ run'.period = run.period /\ run'.chosen = NoOrder
    BY <1>6, <1>t DEF FlagSelected, TypeOK, RunState
  <2>3. /\ orders'[run.chosen].status = orders[run.chosen].status
        /\ orders'[run.chosen].paidOn = orders[run.chosen].paidOn
    BY <1>6, <1>t, <2>1 DEF FlagSelected, FlagOrder, TypeOK, OrderTable, OrderRow
  <2>4. basis' = 0  BY <2>2 DEF PaidInv
  <2>5. \A k \in paid, i \in Orders : PaidOrder(i, k) => PaidOrder(i, k)'
    BY <2>1, <2>2, <2>3 DEF PaidOrder
  <2>6. \A k \in paid : \E i \in Orders : PaidOrder(i, k)'  BY <2>2, <2>5 DEF PaidInv
  <2>7. ASSUME NEW i \in Orders, Owner[i] \notin ByHand, orders'[i].flag # ""
        PROVE  /\ i \in keyed
               /\ orders'[i].flag \in {"", "torenew", "skip"}
               /\ Owner[i] \in paid => orders'[i].paidOn # run.period
    <3>1. CASE i = run.chosen  BY <2>1, <2>2, <2>3, <2>7, <3>1 DEF PaidInv
    <3>2. CASE i # run.chosen  BY <2>1, <2>2, <2>7, <3>2 DEF PaidInv
    <3>3. QED  BY <3>1, <3>2
  <2>8. QED  BY <1>n, <2>2, <2>4, <2>6, <2>7 DEF PaidInv, ByHand
<1>7. ASSUME NEW m \in Members, Skip(m)  PROVE PaidInv'
  <2>1. \A o \in Orders : orders'[o].flag = IF o \in keyed /\ Owner[o] = m /\ orders[o].flag = "torenew"
                                            THEN "skip" ELSE orders[o].flag
    BY <1>7, <1>t, FlagsOf
  <2>2. \A o \in Orders : /\ orders'[o].status = orders[o].status
                          /\ orders'[o].paidOn = orders[o].paidOn
    BY <1>7, <1>t DEF Skip, SkipOrdersByUserKey, TypeOK, OrderTable, OrderRow
  <2>3. /\ UNCHANGED <<keyed, basis, paid, missed, handed>>
        /\ run.pc \in {"skip_double", "skip_fresh"} /\ run'.pc = run.pc
        /\ run'.period = run.period /\ run'.chosen = run.chosen /\ run'.todo = run.todo \ {m}
    BY <1>7, <1>t DEF Skip, TypeOK, RunState
  <2>4. basis' = 0  BY <2>3 DEF PaidInv
  <2>5. \A k \in paid, i \in Orders : PaidOrder(i, k) => PaidOrder(i, k)'
    BY <2>2, <2>3 DEF PaidOrder
  <2>6. \A k \in paid : \E i \in Orders : PaidOrder(i, k)'  BY <2>3, <2>5 DEF PaidInv
  <2>7. ASSUME NEW i \in Orders, Owner[i] \notin ByHand, orders'[i].flag # "" \/ run'.chosen = i
        PROVE  /\ i \in keyed
               /\ orders'[i].flag \in {"", "torenew", "skip"}
               /\ Owner[i] \in paid => orders'[i].paidOn # run.period
    BY <2>1, <2>2, <2>3, <2>7 DEF PaidInv
  <2>8. \A i \in Orders : Owner[i] \notin ByHand /\ orders'[i].flag = "torenew" => orders[i].flag = "torenew" /\ Owner[i] # m
    BY <2>1, <2>3 DEF PaidInv
  <2>9. run.pc = "skip_fresh" =>
           \A i \in Orders : orders'[i].flag = "torenew" /\ Owner[i] \in paid \ (missed \cup ByHand)
                             => Owner[i] \in run'.todo
    BY <2>3, <2>8 DEF PaidInv
  <2>10. QED  BY <2>3, <2>4, <2>6, <2>7, <2>9 DEF PaidInv, ByHand
<1>8. ASSUME NEW m \in Members, SkipFails(m)  PROVE PaidInv'
  <2>1. /\ UNCHANGED <<orders, keyed, basis, paid, handed>> /\ missed' = missed \cup {m}
        /\ run.pc \in {"skip_double", "skip_fresh"} /\ run'.pc = run.pc
        /\ run'.period = run.period /\ run'.chosen = run.chosen /\ run'.todo = run.todo \ {m}
    BY <1>8, <1>t DEF SkipFails, TypeOK, RunState
  <2>2. run.pc = "skip_fresh" =>
           \A o \in Orders : orders[o].flag = "torenew" /\ Owner[o] \in paid \ (missed' \cup ByHand)
                             => Owner[o] \in run'.todo
    BY <2>1 DEF PaidInv
  <2>3. QED  BY <1>3, <2>1, <2>2
<1>9. CASE ListFresh
  <2>1. /\ UNCHANGED <<orders, keyed, basis, paid, missed, handed>>
        /\ run.pc = "skip_double" /\ run'.pc = "skip_fresh"
        /\ run'.period = run.period /\ run'.chosen = run.chosen
        /\ run'.todo = OrdersToSkipFresh(run.period)
    BY <1>9, <1>t DEF ListFresh, TypeOK, RunState
  <2>2. ASSUME NEW m \in paid \ ByHand  PROVE m \in run'.todo
    <3>1. PICK o \in Orders : PaidOrder(o, m)  BY <2>1 DEF PaidInv
    <3>2. orders[o].flag = ""  BY <2>1, <3>1 DEF PaidInv, PaidOrder
    <3>3. o \in PaidIn(m, run.period)  BY <2>1, <3>1 DEF PaidInv, PaidIn, PaidOrder
    <3>4. m \in Members  BY <1>t DEF TypeOK
    <3>5. QED  BY <2>1, <3>2, <3>3, <3>4 DEF OrdersToSkipFresh
  <2>3. QED  BY <1>3, <2>1, <2>2
<1>10. CASE FlagsSet
  <2>1. /\ UNCHANGED <<orders, paid, missed, handed>> /\ run.pc = "skip_fresh" /\ run.todo = {}
        /\ run'.pc = "muhlafim"
    BY <1>10, <1>t DEF FlagsSet, TypeOK, RunState
  <2>2. ASSUME NEW o \in Orders, orders[o].flag \in Active  PROVE Owner[o] \notin paid \ (missed \cup ByHand)
    <3>1. Owner[o] \notin ByHand => orders[o].flag = "torenew"  BY <2>1, <2>2 DEF PaidInv
    <3>2. QED  BY <2>1, <3>1 DEF PaidInv
  <2>3. QED  BY <2>1, <2>2 DEF PaidInv, ByHand
<1>11. QED
  BY <1>1, <1>2, <1>4, <1>5, <1>6, <1>7, <1>8, <1>9, <1>10 DEF Flags

LEMMA OutsideKeepsPaid ==
    ASSUME RenewedInv, PaidInv, TypeOK', Outside
    PROVE  PaidInv'
<1> USE DEF Flagging, Active
<1>t. TypeOK  BY DEF RenewedInv
<1>1. run' = run /\ handed' = handed /\ \A o \in Orders : orders'[o].flag = orders[o].flag
  BY <1>t, OutsideKeepsFlags
<1>h. ByHand' = ByHand  BY <1>1 DEF ByHand
<1>2. ASSUME UNCHANGED <<keyed, basis, missed>>, paid' \subseteq paid,
             \A o \in Orders : Owner[o] \in paid' /\ run.period # 0 =>
                /\ orders'[o].paidOn # run.period => orders[o].paidOn # run.period
                /\ orders'[o].paidOn = run.period => orders[o].paidOn = run.period
                /\ orders'[o].paidOn = run.period /\ orders[o].status \in {"paid", "cancelled"}
                   => orders'[o].status \in {"paid", "cancelled"}
      PROVE  PaidInv'
  <2>1. ASSUME run.pc \in Flagging, NEW m \in paid'  PROVE \E o \in Orders : PaidOrder(o, m)'
    <3>1. PICK o \in Orders : PaidOrder(o, m)  BY <1>2, <2>1 DEF PaidInv
    <3>2. run.period # 0  BY <2>1 DEF PaidInv
    <3>3. PaidOrder(o, m)'  BY <1>1, <1>2, <3>1, <3>2 DEF PaidOrder
    <3>4. QED  BY <3>3
  <2>2. ASSUME run.pc \in Flagging, NEW o \in Orders, Owner[o] \notin ByHand, orders'[o].flag # "" \/ run.chosen = o
        PROVE  /\ o \in keyed
               /\ orders'[o].flag \in {"", "torenew", "skip"}
               /\ Owner[o] \in paid' => orders'[o].paidOn # run.period
    BY <1>1, <1>2, <2>2 DEF PaidInv
  <2>3. QED  BY <1>1, <1>h, <1>2, <2>1, <2>2 DEF PaidInv
<1>3. CASE MonthTurns
  BY <1>2, <1>3 DEF MonthTurns
<1>4. ASSUME NEW i \in Orders, PaymentSucceeds(i)  PROVE PaidInv'
  <2>1. /\ UNCHANGED <<keyed, basis, missed>>
        /\ paid' = IF orders[i].paidOn = month THEN paid ELSE paid \ {Owner[i]}
        /\ orders'[i].paidOn = month /\ orders'[i].status = "paid"
        /\ \A o \in Orders \ {i} : orders'[o] = orders[o]
    BY <1>4, <1>t DEF PaymentSucceeds, TypeOK, OrderTable, OrderRow
  <2>2. QED  BY <1>2, <2>1
<1>5. ASSUME NEW i \in Orders, PaymentFails(i) \/ CancelOrder(i)  PROVE PaidInv'
  <2>1. /\ UNCHANGED <<keyed, basis, missed, paid>>
        /\ orders'[i].paidOn = orders[i].paidOn
        /\ orders'[i].status = "cancelled" \/ orders[i].paidOn = 0
        /\ \A o \in Orders \ {i} : orders'[o] = orders[o]
    BY <1>5, <1>t DEF PaymentFails, CancelOrder, NotRenewed, TypeOK, OrderTable, OrderRow
  <2>2. QED  BY <1>2, <2>1
<1>6. QED  BY <1>3, <1>4, <1>5 DEF Outside

LEMMA PatchKeepsPaid ==
    ASSUME TypeOK, PaidInv, NEW i \in Orders, PatchFlag(i)
    PROVE  PaidInv'
<1> USE DEF Flagging, Active
<1>1. /\ run' = run /\ UNCHANGED <<keyed, basis, paid, missed>>
      /\ \A o \in Orders \ {i} : orders'[o] = orders[o]
      /\ orders'[i].status = orders[i].status /\ orders'[i].paidOn = orders[i].paidOn
  BY Patching
<1>2. ByHand' = ByHand \cup {Owner[i]}  BY Patching DEF ByHand
<1>3. \A o \in Orders : Owner[o] \notin ByHand' => Owner[o] \notin ByHand /\ orders'[o] = orders[o]
  BY <1>1, <1>2
<1>4. \A m \in paid, o \in Orders : PaidOrder(o, m) => PaidOrder(o, m)'  BY <1>1 DEF PaidOrder
<1>5. QED  BY <1>1, <1>2, <1>3, <1>4 DEF PaidInv

LEMMA PaidNext ==
    ASSUME RenewedInv, SingleInv, PaidInv, TypeOK', [Next]_vars
    PROVE  PaidInv'
<1>1. CASE UNCHANGED vars  BY <1>1 DEF vars, PaidInv, PaidOrder, ByHand
<1>2. CASE Next
  <2>1. TypeOK  BY DEF RenewedInv
  <2>2. QED
    BY <1>2, <2>1, ChargesKeepPaid, FlagsKeepPaid, OutsideKeepsPaid, PatchKeepsPaid
    DEF Next, Outside
<1>3. QED  BY <1>1, <1>2

(* Once the flags are set, no charge and no retry renews an order of a      *)
(* member who had paid for that month when they were cleared, unless the    *)
(* statement that skips him failed or one of his orders was paid anew or    *)
(* flagged by hand (flagAndSkipOperations).                                 *)
THEOREM PaidMembersLeftAlone == Spec => PaidMembersNotCharged
<1>1. ASSUME RenewedInv, SingleInv, PaidInv, [Next]_vars
      PROVE  [basis # 0 =>
                \A o \in Orders : ChargeRecorded(o) =>
                   Owner[o] \notin paid \ (missed \cup {Owner[i] : i \in handed})]_vars
  <2>1. ASSUME basis # 0, NEW o \in Orders, ChargeRecorded(o)
        PROVE  Owner[o] \notin paid \ (missed \cup ByHand)
    <3>1. o \in handed \/ orders[o].flag \in Active
      BY <1>1, <2>1 DEF ChargeRecorded, SingleInv
    <3>2. QED  BY <1>1, <2>1, <3>1 DEF PaidInv, ByHand
  <2>2. QED  BY <2>1 DEF ByHand
<1>2. RenewedInv => TypeOK  BY DEF RenewedInv
<1>3. QED
  BY RenewedInit, RenewedNext, SingleInit, SingleNext, PaidInit, PaidNext, TypeNext, <1>1, <1>2, PTL
  DEF Spec, PaidMembersNotCharged

-----------------------------------------------------------------------------
(* The members who are due.                                                 *)

LEMMA SameMembership ==
    ASSUME NEW m, run'.period = run.period,
           \A o \in Orders : Owner[o] = m => /\ orders'[o].status = orders[o].status
                                             /\ orders'[o].paidOn = orders[o].paidOn
    PROVE  LastPaid(m)' = LastPaid(m) /\ (MustBill(m)' <=> MustBill(m))
<1>1. Membership(m)' = Membership(m)  BY DEF Membership
<1>2. \A o \in Membership(m) : o \in Orders /\ orders'[o].paidOn = orders[o].paidOn
  BY DEF Membership
<1>3. LastPaid(m)' = LastPaid(m)  BY <1>1, <1>2 DEF LastPaid
<1>4. \A o \in LastPaid(m) : Due(o, run.period)' <=> Due(o, run.period)
  BY <1>2 DEF LastPaid, Due
<1>5. QED  BY <1>1, <1>2, <1>3, <1>4 DEF MustBill

LEMMA StillBilled ==
    ASSUME BilledInv, run.pc \in Listed, run'.pc \in Listed,
           run'.opts = run.opts, run'.period = run.period, UNCHANGED <<keyed, touched>>,
           \A o \in Orders :
              /\ orders'[o].status = orders[o].status
              /\ orders'[o].paidOn = orders[o].paidOn
              /\ orders[o].flag # "" \/ run.chosen = o => orders'[o].flag # "" \/ run'.chosen = o,
           \A m \in Members : (run'.pc = "select" => m \notin run'.todo)
                              => (run.pc = "select" => m \notin run.todo)
    PROVE  BilledInv'
<1> SUFFICES ASSUME "flags" \in run.opts
             PROVE  /\ \A o \in Orders : Owner[o] \notin touched /\ orders'[o].status # "pending"
                                         => o \in keyed
                    /\ \A m \in Members \ touched :
                          MustBill(m)' /\ (run'.pc = "select" => m \notin run'.todo)
                          => \E o \in LastPaid(m)' : orders'[o].flag # "" \/ run'.chosen = o
  BY DEF BilledInv
<1>1. \A o \in Orders : Owner[o] \notin touched /\ orders'[o].status # "pending" => o \in keyed
  BY DEF BilledInv
<1>2. ASSUME NEW m \in Members \ touched, MustBill(m)', run'.pc = "select" => m \notin run'.todo
      PROVE  \E o \in LastPaid(m)' : orders'[o].flag # "" \/ run'.chosen = o
  <2>1. LastPaid(m)' = LastPaid(m) /\ MustBill(m)  BY <1>2, SameMembership
  <2>2. PICK o \in LastPaid(m) : orders[o].flag # "" \/ run.chosen = o
    BY <1>2, <2>1 DEF BilledInv
  <2>3. o \in Orders  BY DEF LastPaid, Membership
  <2>4. QED  BY <2>1, <2>2, <2>3
<1>3. QED  BY <1>1, <1>2

LEMMA BilledInit == Init => BilledInv
<1>1. Init => run.opts = {}  BY Starts DEF Idle
<1>2. QED  BY <1>1 DEF BilledInv

LEMMA OutsideKeepsBilled ==
    ASSUME TypeOK, BilledInv, Outside
    PROVE  BilledInv'
<1>1. run' = run /\ \A o \in Orders : orders'[o].flag = orders[o].flag
  BY OutsideKeepsFlags
<1>2. /\ keyed' = keyed /\ touched \subseteq touched'
      /\ \A o \in Orders : Owner[o] \notin touched' => orders'[o] = orders[o]
  <2> USE DEF TypeOK, OrderTable
  <2>1. CASE MonthTurns  BY <2>1 DEF MonthTurns
  <2>2. ASSUME NEW i \in Orders, PaymentSucceeds(i)
        PROVE  /\ keyed' = keyed /\ touched \subseteq touched'
               /\ \A o \in Orders : Owner[o] \notin touched' => orders'[o] = orders[o]
    BY <2>2 DEF PaymentSucceeds
  <2>3. ASSUME NEW i \in Orders, PaymentFails(i) \/ CancelOrder(i)
        PROVE  /\ keyed' = keyed /\ touched \subseteq touched'
               /\ \A o \in Orders : Owner[o] \notin touched' => orders'[o] = orders[o]
    BY <2>3 DEF PaymentFails, CancelOrder, NotRenewed
  <2>4. QED  BY <2>1, <2>2, <2>3 DEF Outside
<1>3. ASSUME NEW m \in Members \ touched'
      PROVE  LastPaid(m)' = LastPaid(m) /\ (MustBill(m)' <=> MustBill(m))
  BY <1>1, <1>2, SameMembership
<1>4. ASSUME "flags" \in run.opts, run.pc \in Listed \cup {"list"}, NEW o \in Orders,
             Owner[o] \notin touched', orders'[o].status # "pending"
      PROVE  o \in keyed'
  BY <1>2, <1>4 DEF BilledInv
<1>5. ASSUME "flags" \in run.opts, run.pc \in Listed, NEW m \in Members \ touched',
             MustBill(m)', run.pc = "select" => m \notin run.todo
      PROVE  \E o \in LastPaid(m)' : orders'[o].flag # "" \/ run'.chosen = o
  <2>1. PICK o \in LastPaid(m) : orders[o].flag # "" \/ run.chosen = o
    BY <1>2, <1>3, <1>5 DEF BilledInv
  <2>2. o \in Orders  BY DEF LastPaid, Membership
  <2>3. QED  BY <1>1, <1>3, <2>1, <2>2
<1>6. QED  BY <1>1, <1>4, <1>5 DEF BilledInv

LEMMA FlagsKeepBilled ==
    ASSUME RenewedInv, BilledInv, TypeOK', Flags
    PROVE  BilledInv'
<1>t. TypeOK /\ (run.chosen # NoOrder => run.pc = "select")  BY DEF RenewedInv
<1>n. NoOrder \notin Orders  BY BillingMonthAssumption
<1>1. CASE Clear
  <2>1. run'.pc = "keys"  BY <1>1, <1>t DEF Clear, TypeOK, RunState
  <2>2. QED  BY <2>1 DEF BilledInv, Listed
<1>2. CASE UpdateOrdersUserKey
  <2>1. run'.pc = "list" /\ UNCHANGED orders
    BY <1>2, <1>t DEF UpdateOrdersUserKey, TypeOK, RunState
  <2>2. \A o \in Orders : orders[o].status # "pending" => o \in keyed'
    BY <1>2 DEF UpdateOrdersUserKey
  <2>3. QED  BY <2>1, <2>2 DEF BilledInv, Listed
<1>3. CASE ListMembers
  <2>1. /\ UNCHANGED <<orders, keyed, touched>> /\ run.pc = "list" /\ run'.pc = "select"
        /\ run'.opts = run.opts /\ run'.period = run.period
        /\ run'.todo = {m \in Members : Renewable(m) # {}}
    BY <1>3, <1>t DEF ListMembers, TypeOK, RunState
  <2>2. ASSUME "flags" \in run.opts, NEW m \in Members \ touched, MustBill(m)', m \notin run'.todo
        PROVE  FALSE
    <3>1. MustBill(m)  BY <2>1, <2>2, SameMembership
    <3>2. PICK o \in Orders : Owner[o] = m /\ orders[o].status \in {"paid", "nosuccess"}
      BY <3>1 DEF MustBill, Membership
    <3>3. o \in keyed  BY <2>1, <2>2, <3>2 DEF BilledInv
    <3>4. o \in Renewable(m)  BY <3>2, <3>3 DEF Renewable
    <3>5. QED  BY <2>1, <2>2, <3>4
  <2>3. QED  BY <2>1, <2>2 DEF BilledInv, Listed
<1>4. ASSUME NEW m \in Members, SelectOrder(m)  PROVE BilledInv'
  <2>1. PICK o \in First(Renewable(m)) \cup {NoOrder} :
          /\ o = NoOrder <=> Renewable(m) = {}
          /\ run' = [run EXCEPT !.todo = @ \ {m},
                                !.chosen = IF o # NoOrder /\ Due(o, run.period) THEN o ELSE NoOrder]
    BY <1>4 DEF SelectOrder
  <2>2. /\ UNCHANGED <<orders, keyed, touched>> /\ run.pc = "select" /\ run'.pc = "select"
        /\ run'.opts = run.opts /\ run'.period = run.period /\ run'.todo = run.todo \ {m}
        /\ run.chosen = NoOrder
        /\ run'.chosen = IF o # NoOrder /\ Due(o, run.period) THEN o ELSE NoOrder
    BY <1>4, <1>t, <2>1 DEF SelectOrder, TypeOK, RunState
  <2>3. ASSUME "flags" \in run.opts, m \notin touched, MustBill(m)
        PROVE  o \in LastPaid(m) /\ run'.chosen = o
    <3>1. \A i \in Orders : Owner[i] = m /\ orders[i].status # "pending" => i \in keyed
      BY <2>2, <2>3 DEF BilledInv, Listed
    <3>2. keyed \subseteq Orders /\ Renewable(m) = Membership(m)
      BY <1>t, <3>1 DEF TypeOK, Renewable, Membership
    <3>3. Membership(m) # {} /\ \A i \in Membership(m) : i \in Orders /\ orders[i].paidOn # 0
      BY <2>3 DEF MustBill, Membership
    <3>4. o \in First(Membership(m)) /\ o # NoOrder  BY <2>1, <3>2, <3>3
    <3>5. o \in LastPaid(m)
      BY <1>t, <3>3, <3>4 DEF First, LastPaid, TypeOK, OrderTable, OrderRow
    <3>6. QED  BY <2>2, <2>3, <3>4, <3>5 DEF MustBill
  <2>4. ASSUME "flags" \in run.opts, NEW k \in Members \ touched, MustBill(k)', k \notin run'.todo
        PROVE  \E i \in LastPaid(k)' : orders'[i].flag # "" \/ run'.chosen = i
    <3>1. LastPaid(k)' = LastPaid(k) /\ MustBill(k)  BY <2>2, <2>4, SameMembership
    <3>2. CASE k = m  BY <2>3, <2>4, <3>1, <3>2
    <3>3. CASE k # m
      <4>1. PICK i \in LastPaid(k) : orders[i].flag # "" \/ run.chosen = i
        BY <2>2, <2>4, <3>1, <3>3 DEF BilledInv, Listed
      <4>2. i \in Orders  BY DEF LastPaid, Membership
      <4>3. QED  BY <1>n, <2>2, <3>1, <4>1, <4>2
    <3>4. QED  BY <3>2, <3>3
  <2>5. QED  BY <2>2, <2>4 DEF BilledInv, Listed
<1>5. CASE FlagSelected
  <2>1. /\ run.chosen \in Orders
        /\ orders'[run.chosen].flag = "torenew"
        /\ \A o \in Orders \ {run.chosen} : orders'[o] = orders[o]
    BY <1>5, <1>t, FlagsOf
  <2>2. /\ UNCHANGED <<keyed, touched>> /\ run.pc = "select" /\ run'.pc = "select"
        /\ run'.opts = run.opts /\ run'.period = run.period /\ run'.todo = run.todo
    BY <1>5, <1>t DEF FlagSelected, TypeOK, RunState
  <2>3. /\ orders'[run.chosen].status = orders[run.chosen].status
        /\ orders'[run.chosen].paidOn = orders[run.chosen].paidOn
    BY <1>5, <1>t, <2>1 DEF FlagSelected, FlagOrder, TypeOK, OrderTable, OrderRow
  <2>4. QED  BY <2>1, <2>2, <2>3, StillBilled DEF Listed
<1>6. ASSUME NEW m \in Members, Skip(m)  PROVE BilledInv'
  <2>1. \A o \in Orders : orders'[o].flag = IF o \in keyed /\ Owner[o] = m /\ orders[o].flag = "torenew"
                                            THEN "skip" ELSE orders[o].flag
    BY <1>6, <1>t, FlagsOf
  <2>2. \A o \in Orders : /\ orders'[o].status = orders[o].status
                          /\ orders'[o].paidOn = orders[o].paidOn
    BY <1>6, <1>t DEF Skip, SkipOrdersByUserKey, TypeOK, OrderTable, OrderRow
  <2>3. /\ UNCHANGED <<keyed, touched>>
        /\ run.pc \in {"skip_double", "skip_fresh"} /\ run'.pc = run.pc
        /\ run'.opts = run.opts /\ run'.period = run.period /\ run'.chosen = run.chosen
    BY <1>6, <1>t DEF Skip, TypeOK, RunState
  <2>4. QED  BY <2>1, <2>2, <2>3, StillBilled DEF Listed
<1>7. ASSUME (\E m \in Members : SkipFails(m)) \/ Flagged \/ ListDouble \/ ListFresh \/ FlagsSet
      PROVE  BilledInv'
  <2>1. /\ UNCHANGED <<orders, keyed, touched>>
        /\ run.pc \in Listed /\ run'.pc \in Listed \ {"select"}
        /\ run'.opts = run.opts /\ run'.period = run.period /\ run'.chosen = run.chosen
        /\ run.pc = "select" => run.todo = {}
    <3>1. CASE \E m \in Members : SkipFails(m)
      BY <3>1, <1>t DEF SkipFails, Listed, TypeOK, RunState
    <3>2. CASE Flagged \/ ListDouble \/ ListFresh \/ FlagsSet
      BY <3>2, <1>t DEF Flagged, ListDouble, ListFresh, FlagsSet, Listed, TypeOK, RunState
    <3>3. QED  BY <1>7, <3>1, <3>2
  <2>2. QED  BY <2>1, StillBilled
<1>8. QED  BY <1>1, <1>2, <1>3, <1>4, <1>5, <1>6, <1>7 DEF Flags

LEMMA ChargesKeepBilled ==
    ASSUME RenewedInv, BilledInv, StartBilling \/ StartRetry \/ Charges \/ Ends
    PROVE  BilledInv'
<1>t. TypeOK  BY DEF RenewedInv
<1>0. ASSUME run'.pc \notin Listed \cup {"list"} \/ "flags" \notin run'.opts  PROVE BilledInv'
  BY <1>0 DEF BilledInv
<1>1. CASE StartBilling
  <2>1. run'.pc = (IF "flags" \in run'.opts THEN "clear" ELSE "muhlafim")  BY <1>1, Starting
  <2>2. QED  BY <1>0, <2>1 DEF Listed
<1>2. CASE StartRetry
  <2>1. run'.opts = {"retry"}  BY <1>2 DEF StartRetry, Idle
  <2>2. QED  BY <1>0, <2>1
<1>3. CASE Ends
  <2>1. run'.pc = "idle"  BY <1>3 DEF Ends, Idle
  <2>2. QED  BY <1>0, <2>1 DEF Listed
<1>4. CASE PreResolve
  <2>1. run'.pc = "charge"  BY <1>4, <1>t, Resolving
  <2>2. QED  BY <1>0, <2>1 DEF Listed
<1>5. ASSUME NEW o \in Orders, ChargeRecorded(o) \/ ChargeFailed(o)  PROVE BilledInv'
  <2>1. run'.pc = "charge"  BY <1>5, <1>t DEF ChargeRecorded, ChargeFailed, TypeOK, RunState
  <2>2. QED  BY <1>0, <2>1 DEF Listed
<1>6. ASSUME UNCHANGED <<orders, keyed, touched>>, run.pc \in Listed \ {"select"},
             run'.pc \in Listed \ {"select"}, run'.opts = run.opts, run'.period = run.period,
             run'.chosen = run.chosen
      PROVE  BilledInv'
  BY <1>6, StillBilled
<1>7. CASE ReadMuhlafim
  <2>1. UNCHANGED <<orders, keyed, touched>> /\ run.pc = "muhlafim"  BY <1>7 DEF ReadMuhlafim
  <2>2. /\ run'.pc \in {"cards", "collect"} /\ run'.opts = run.opts
        /\ run'.period = run.period /\ run'.chosen = run.chosen
    BY <1>7, <1>t DEF ReadMuhlafim, TypeOK, RunState
  <2>3. QED  BY <1>6, <2>1, <2>2 DEF Listed
<1>8. CASE MuhlafimDone
  <2>1. /\ UNCHANGED <<orders, keyed, touched>> /\ run.pc = "cards"
        /\ run'.pc = "collect" /\ run'.opts = run.opts
        /\ run'.period = run.period /\ run'.chosen = run.chosen
    BY <1>8, <1>t DEF MuhlafimDone, TypeOK, RunState
  <2>2. QED  BY <1>6, <2>1 DEF Listed
<1>9. CASE CollectToRenew
  <2>1. UNCHANGED <<orders, keyed, touched>> /\ run.pc = "collect"  BY <1>9 DEF CollectToRenew
  <2>2. CASE "charge" \in run.opts
    <3>1. /\ run'.pc = "resolve" /\ run'.opts = run.opts
          /\ run'.period = run.period /\ run'.chosen = run.chosen
      BY <1>9, <1>t, <2>2 DEF CollectToRenew, TypeOK, RunState
    <3>2. QED  BY <1>6, <2>1, <3>1 DEF Listed
  <2>3. CASE "charge" \notin run.opts
    <3>1. run'.pc = "idle"  BY <1>9, <2>3 DEF CollectToRenew, Idle
    <3>2. QED  BY <1>0, <3>1 DEF Listed
  <2>4. QED  BY <2>2, <2>3
<1>10. ASSUME NEW i \in Orders, FlagMuhlafim(i)  PROVE BilledInv'
  <2>1. \A o \in Orders : orders'[o].flag = IF o = i THEN "muh" ELSE orders[o].flag
    BY <1>10, <1>t, FlagsOf
  <2>2. \A o \in Orders : /\ orders'[o].status = orders[o].status
                          /\ orders'[o].paidOn = orders[o].paidOn
    BY <1>10, <1>t DEF FlagMuhlafim, FlagOrder, TypeOK, OrderTable, OrderRow
  <2>3. /\ UNCHANGED <<keyed, touched>> /\ run.pc = "cards" /\ run'.pc = "cards"
        /\ run'.opts = run.opts /\ run'.period = run.period /\ run'.chosen = run.chosen
    BY <1>10, <1>t DEF FlagMuhlafim, TypeOK, RunState
  <2>4. QED  BY <2>1, <2>2, <2>3, StillBilled DEF Listed
<1>11. QED
  BY <1>1, <1>2, <1>3, <1>4, <1>5, <1>7, <1>8, <1>9, <1>10 DEF Charges

LEMMA PatchKeepsBilled ==
    ASSUME TypeOK, BilledInv, NEW i \in Orders, PatchFlag(i)
    PROVE  BilledInv'
<1>1. /\ run' = run /\ UNCHANGED keyed /\ touched' = touched \cup {Owner[i]}
      /\ \A o \in Orders \ {i} : orders'[o] = orders[o]
      /\ orders'[i].status = orders[i].status /\ orders'[i].paidOn = orders[i].paidOn
  BY Patching
<1>2. \A m \in Members : LastPaid(m)' = LastPaid(m) /\ (MustBill(m)' <=> MustBill(m))
  BY <1>1, SameMembership
<1>3. \A m \in Members \ touched' : \A o \in LastPaid(m) : orders'[o] = orders[o]
  BY <1>1 DEF LastPaid, Membership
<1>4. ASSUME "flags" \in run.opts, run.pc \in Listed \cup {"list"}, NEW o \in Orders,
             Owner[o] \notin touched', orders'[o].status # "pending"
      PROVE  o \in keyed'
  BY <1>1, <1>4 DEF BilledInv
<1>5. ASSUME "flags" \in run.opts, run.pc \in Listed, NEW m \in Members \ touched',
             MustBill(m)', run.pc = "select" => m \notin run.todo
      PROVE  \E o \in LastPaid(m)' : orders'[o].flag # "" \/ run'.chosen = o
  <2>1. PICK o \in LastPaid(m) : orders[o].flag # "" \/ run.chosen = o
    BY <1>1, <1>2, <1>5 DEF BilledInv
  <2>2. QED  BY <1>1, <1>2, <1>3, <2>1
<1>6. QED  BY <1>1, <1>4, <1>5 DEF BilledInv

LEMMA BilledNext ==
    ASSUME RenewedInv, BilledInv, TypeOK', [Next]_vars
    PROVE  BilledInv'
<1>t. TypeOK  BY DEF RenewedInv
<1>1. CASE UNCHANGED vars
  <2>1. UNCHANGED <<orders, keyed, run, touched>>  BY <1>1 DEF vars
  <2>2. \A m \in Members : LastPaid(m)' = LastPaid(m) /\ (MustBill(m)' <=> MustBill(m))
    BY <2>1, SameMembership
  <2>3. QED  BY <2>1, <2>2 DEF BilledInv
<1>2. CASE Next
  BY <1>t, <1>2, ChargesKeepBilled, FlagsKeepBilled, OutsideKeepsBilled, PatchKeepsBilled
  DEF Next, Outside
<1>3. QED  BY <1>1, <1>2

(* No member who is due is left out in silence: when the charges are        *)
(* collected after the flags, the order he paid last carries a flag, to     *)
(* renew, skipped or held back by the card company (FlagOrdersToRenew).     *)
THEOREM DueMembersNotLeftOut == Spec => []DueMembersBilled
<1>1. RenewedInv /\ BilledInv => DueMembersBilled
  <2> SUFFICES ASSUME RenewedInv, BilledInv, run.pc = "resolve", "flags" \in run.opts,
                      NEW m \in Members \ touched, MustBill(m)
               PROVE  \E o \in LastPaid(m) : orders[o].flag # ""
    BY DEF DueMembersBilled, MustBill
  <2>1. run.chosen = NoOrder  BY DEF RenewedInv
  <2>2. PICK o \in LastPaid(m) : orders[o].flag # "" \/ run.chosen = o
    BY DEF BilledInv, Listed
  <2>3. o \in Orders  BY DEF LastPaid, Membership
  <2>4. QED  BY <2>1, <2>2, <2>3, BillingMonthAssumption
<1>2. RenewedInv => TypeOK  BY DEF RenewedInv
<1>3. QED
  BY RenewedInit, RenewedNext, BilledInit, BilledNext, TypeNext, <1>1, <1>2, PTL DEF Spec

=============================================================================
