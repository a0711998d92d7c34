---------------------------- MODULE BillingMonth ----------------------------
(* The monthly billing over the orders table: `billing start` clears the    *)
(* flags, fills the user keys, flags each member's order to renew, skips    *)
(* the members who need not pay, takes the card company's news into         *)
(* account and charges what is still flagged; `billing retry-pricing-errors`*)
(* charges what could not be priced. Each loop iterates over a list read    *)
(* before it, while members pay and cancel and the staff set flags by hand, *)
(* and a command may stop at any statement and be started again, with any   *)
(* of its steps switched off. One command runs at a time. Charging an order *)
(* is one step here, with the three effects it can have on the table;       *)
(* Renewal has its detail. Of the staff's edits of an order the model has   *)
(* the cancellation and the flag; statuses, types, owners and payment dates *)
(* set by hand are left out.                                                *)
EXTENDS OrdersTable, FiniteSets

CONSTANTS
    Members,       \* the user keys of the accounts
    Owner,         \* the member of each order
    NoOrder,       \* no order is selected
    Regular,       \* the orders with "Type" = 'regular'
    StartOrders,   \* the tables a month may begin with
    Periods,       \* the months --month and --year may name
    HandFlags,     \* the flags the staff set by hand
    LastMonth      \* the clock stops there (a bound); it starts at 2

ASSUME BillingMonthAssumption ==
    /\ Owner \in [Orders -> Members]
    /\ NoOrder \notin Orders
    /\ Regular \subseteq Orders \ Recurring
    /\ StartOrders \subseteq OrderTable
    /\ Periods \subseteq Nat \ {0}
    /\ HandFlags \subseteq OrderFlag
    /\ LastMonth \in Nat

VARIABLES
    orders,    \* the orders table; a pending order may not be created yet
    keyed,     \* the orders whose userkey is filled
    month,     \* the month of time.Now()
    run,       \* the billing command
    renewed,   \* history: the orders renewed this month, and flagged since
               \* neither by hand nor for a month not begun
    basis,     \* history: the month the flags were last fully set for, or 0
    paid,      \* history: the members who had paid for the month when the
               \* flags were last cleared, and whose order keeps that date
    missed,    \* history: the members whose skip statement failed since then
    touched,   \* history: the members whose orders changed since then
    handed     \* history: the orders flagged by hand since then, and those
               \* found flagged at the start

vars == <<orders, keyed, month, run, renewed, basis, paid, missed, touched, handed>>

Options == {"flags", "muhlafim", "charge", "retry"}

RunState ==
    [pc : {"idle", "clear", "keys", "list", "select", "double", "skip_double",
           "skip_fresh", "muhlafim", "cards", "collect", "resolve", "charge"},
     period : Nat,                   \* --month and --year
     opts : SUBSET Options,
     todo : SUBSET Members,          \* user keys still to go through
     ids : SUBSET Orders,            \* orders still to go through
     chosen : Orders \cup {NoOrder}] \* selected, not flagged yet

Idle == [pc |-> "idle", period |-> 0, opts |-> {}, todo |-> {}, ids |-> {}, chosen |-> NoOrder]

TypeOK ==
    /\ orders \in OrderTable
    /\ keyed \subseteq Orders
    /\ month \in Nat \ {0}
    /\ run \in RunState
    /\ renewed \subseteq Orders
    /\ basis \in Nat
    /\ paid \subseteq Members
    /\ missed \subseteq Members
    /\ touched \subseteq Members
    /\ handed \subseteq Orders

Init ==
    /\ orders \in StartOrders
    /\ keyed \in {{}, Orders}
    /\ month = 2
    /\ run = Idle
    /\ renewed = {}
    /\ basis = 0
    /\ paid = {}
    /\ missed = {}
    /\ touched = {}
    /\ handed = {o \in Orders : orders[o].flag # ""}

-----------------------------------------------------------------------------
(* The statements of Step 1.                                                *)

(* Mutant of ClearAllFlags: what was charged or failed stays flagged.       *)
ClearAllFlags_OnlyToRenew(table) ==
    [o \in Orders |-> IF table[o].flag = "torenew" THEN [table[o] EXCEPT !.flag = ""] ELSE table[o]]

ClearAllFlags(table) == [o \in Orders |-> [table[o] EXCEPT !.flag = ""]]

(* A member's orders the flagging step looks at.                            *)
Renewable(m) == {o \in keyed : Owner[o] = m /\ orders[o].status \in {"paid", "nosuccess"}}

(* ORDER BY "PaymentDate" DESC LIMIT 1: PostgreSQL puts NULL first, and     *)
(* within a month the model leaves the order open.                          *)
First(O) ==
    {o \in O : orders[o].paidOn = 0
               \/ \A i \in O : orders[i].paidOn \in 1..orders[o].paidOn}

(* Mutant of Due: the first month is compared as After, not as !Before.     *)
Due_OffByOne(o, period) == orders[o].paidOn <= period /\ o \notin Regular

Due(o, period) == orders[o].paidOn < period /\ o \notin Regular

(* Mutant of PaidIn: a cancelled order is taken for one that was not paid.  *)
PaidIn_NotCancelled(m, period) ==
    {o \in keyed : /\ Owner[o] = m
                   /\ orders[o].status = "paid"
                   /\ orders[o].paidOn \in {period} \ {0}}

(* An order without a date is of no month.                                  *)
PaidIn(m, period) ==
    {o \in keyed : /\ Owner[o] = m
                   /\ orders[o].status \in {"paid", "cancelled"}
                   /\ orders[o].paidOn \in {period} \ {0}}

OrdersToSkipDouble(period) == {m \in Members : Cardinality(PaidIn(m, period)) > 1}

OrdersToSkipFresh(period) ==
    {m \in Members : \E o \in PaidIn(m, period) : orders[o].flag = ""}

SkipOrdersByUserKey(table, m) ==
    [o \in Orders |-> IF o \in keyed /\ Owner[o] = m /\ table[o].flag = "torenew"
                      THEN [table[o] EXCEPT !.flag = "skip"]
                      ELSE table[o]]

-----------------------------------------------------------------------------
(* Step 1: flags.                                                           *)

(* --month and --year may name a month long past, and a later one of this   *)
(* year; the flags, muhlafim and charge steps can be switched off.          *)
StartBilling ==
    /\ run.pc = "idle"
    /\ \E period \in Periods, opts \in SUBSET {"flags", "muhlafim", "charge"} :
          run' = [Idle EXCEPT !.pc = IF "flags" \in opts THEN "clear" ELSE "muhlafim",
                              !.period = period, !.opts = opts]
    /\ UNCHANGED <<orders, keyed, month, renewed, basis, paid, missed, touched, handed>>

Clear ==
    /\ run.pc = "clear"
    /\ orders' = ClearAllFlags(orders)
    /\ run' = [run EXCEPT !.pc = "keys"]
    /\ basis' = 0
    /\ paid' = {Owner[o] : o \in {i \in Orders : /\ orders[i].status \in {"paid", "cancelled"}
                                                 /\ orders[i].paidOn = run.period}}
    /\ missed' = {}
    /\ touched' = {}
    /\ handed' = {}
    /\ UNCHANGED <<keyed, month, renewed>>

(* Mutant of UpdateOrdersUserKey: the keys are not filled before flagging.  *)
UpdateOrdersUserKey_Omitted ==
    /\ run.pc = "keys"
    /\ run' = [run EXCEPT !.pc = "list"]
    /\ UNCHANGED <<orders, keyed, month, renewed, basis, paid, missed, touched, handed>>

(* Every order in the table gets its account's key; of the pending ones,    *)
(* any number are created only later.                                       *)
UpdateOrdersUserKey ==
    /\ run.pc = "keys"
    /\ \E later \in SUBSET {o \in Orders \ keyed : orders[o].status = "pending"} :
          keyed' = Orders \ later
    /\ run' = [run EXCEPT !.pc = "list"]
    /\ UNCHANGED <<orders, month, renewed, basis, paid, missed, touched, handed>>

ListMembers ==
    /\ run.pc = "list"
    /\ run' = [run EXCEPT !.pc = "select", !.todo = {m \in Members : Renewable(m) # {}}]
    /\ UNCHANGED <<orders, keyed, month, renewed, basis, paid, missed, touched, handed>>

(* The query for one member; nothing is flagged when the first row is of    *)
(* the period or later, or of a regular order, or there is none any more.   *)
SelectOrder(m) ==
    /\ run.pc = "select"
    /\ m \in run.todo
    /\ run.chosen = NoOrder
    /\ \E o \in First(Renewable(m)) \cup {NoOrder} :
          /\ o = NoOrder <=> Renewable(m) = {}
          /\ run' = [run EXCEPT !.todo = @ \ {m},
                                !.chosen = IF o # NoOrder /\ Due(o, run.period) THEN o ELSE NoOrder]
    /\ UNCHANGED <<orders, keyed, month, renewed, basis, paid, missed, touched, handed>>

FlagSelected ==
    /\ run.chosen # NoOrder
    /\ orders' = FlagOrder(orders, run.chosen, "torenew")
    /\ run' = [run EXCEPT !.chosen = NoOrder]
    /\ renewed' = IF run.period > month THEN renewed \ {run.chosen} ELSE renewed
    /\ UNCHANGED <<keyed, month, basis, paid, missed, touched, handed>>

Flagged ==
    /\ run.pc = "select"
    /\ run.todo = {}
    /\ run.chosen = NoOrder
    /\ run' = [run EXCEPT !.pc = "double"]
    /\ UNCHANGED <<orders, keyed, month, renewed, basis, paid, missed, touched, handed>>

ListDouble ==
    /\ run.pc = "double"
    /\ run' = [run EXCEPT !.pc = "skip_double", !.todo = OrdersToSkipDouble(run.period - 1)]
    /\ UNCHANGED <<orders, keyed, month, renewed, basis, paid, missed, touched, handed>>

ListFresh ==
    /\ run.pc = "skip_double"
    /\ run.todo = {}
    /\ run' = [run EXCEPT !.pc = "skip_fresh", !.todo = OrdersToSkipFresh(run.period)]
    /\ UNCHANGED <<orders, keyed, month, renewed, basis, paid, missed, touched, handed>>

Skip(m) ==
    /\ run.pc \in {"skip_double", "skip_fresh"}
    /\ m \in run.todo
    /\ orders' = SkipOrdersByUserKey(orders, m)
    /\ run' = [run EXCEPT !.todo = @ \ {m}]
    /\ UNCHANGED <<keyed, month, renewed, basis, paid, missed, touched, handed>>

(* The statement fails: a warning, and the member stays flagged.            *)
SkipFails(m) ==
    /\ run.pc \in {"skip_double", "skip_fresh"}
    /\ m \in run.todo
    /\ run' = [run EXCEPT !.todo = @ \ {m}]
    /\ missed' = missed \cup {m}
    /\ UNCHANGED <<orders, keyed, month, renewed, basis, paid, touched, handed>>

FlagsSet ==
    /\ run.pc = "skip_fresh"
    /\ run.todo = {}
    /\ run' = [run EXCEPT !.pc = "muhlafim"]
    /\ basis' = run.period
    /\ UNCHANGED <<orders, keyed, month, renewed, paid, missed, touched, handed>>

-----------------------------------------------------------------------------
(* Step 2: muhlafim, the card company's news of replaced cards.             *)

ReadMuhlafim ==
    /\ run.pc = "muhlafim"
    /\ run' = IF "muhlafim" \in run.opts
              THEN [run EXCEPT !.pc = "cards", !.ids = {o \in Orders : orders[o].flag = "torenew"}]
              ELSE [run EXCEPT !.pc = "collect"]
    /\ UNCHANGED <<orders, keyed, month, renewed, basis, paid, missed, touched, handed>>

(* The order's card was cancelled, refused or the like. An order without an *)
(* entry, or with a new card, keeps its flag.                               *)
FlagMuhlafim(o) ==
    /\ run.pc = "cards"
    /\ o \in run.ids
    /\ orders' = FlagOrder(orders, o, "muh")
    /\ run' = [run EXCEPT !.ids = @ \ {o}]
    /\ UNCHANGED <<keyed, month, renewed, basis, paid, missed, touched, handed>>

MuhlafimDone ==
    /\ run.pc = "cards"
    /\ run' = [run EXCEPT !.pc = "collect", !.ids = {}]
    /\ UNCHANGED <<orders, keyed, month, renewed, basis, paid, missed, touched, handed>>

-----------------------------------------------------------------------------
(* Step 3: charge; and retry-pricing-errors.                                *)

CollectToRenew ==
    /\ run.pc = "collect"
    /\ run' = IF "charge" \in run.opts
              THEN [run EXCEPT !.pc = "resolve", !.ids = OrderIDsToRenew(orders)]
              ELSE Idle
    /\ UNCHANGED <<orders, keyed, month, renewed, basis, paid, missed, touched, handed>>

StartRetry ==
    /\ run.pc = "idle"
    /\ OrderIDsWithPricingError(orders) # {}
    /\ run' = [Idle EXCEPT !.pc = "resolve", !.opts = {"retry"},
                           !.ids = OrderIDsWithPricingError(orders)]
    /\ UNCHANGED <<orders, keyed, month, renewed, basis, paid, missed, touched, handed>>

(* An order that was never paid has no payment to take the card from, and   *)
(* cannot be loaded. The flag of an order left out is written, unless its   *)
(* statement fails.                                                         *)
PreResolve ==
    /\ run.pc = "resolve"
    /\ \E resolved \in SUBSET {o \in run.ids : orders[o].paidOn # 0} :
       \E flagged \in SUBSET (run.ids \ resolved) :
          LET known == [o \in Orders |-> IF o \in flagged
                                         THEN FlagOrder(orders, o, "pricing_error")[o]
                                         ELSE orders[o]]
          IN  /\ orders' = IF "retry" \in run.opts THEN MarkResolvedForRenew(known, resolved)
                                                   ELSE known
              /\ run' = [run EXCEPT !.pc = "charge", !.ids = resolved]
    /\ UNCHANGED <<keyed, month, renewed, basis, paid, missed, touched, handed>>

ChargeRecorded(o) ==
    /\ run.pc = "charge"
    /\ o \in run.ids
    /\ orders' = Renewed(orders, o, month)
    /\ run' = [run EXCEPT !.ids = @ \ {o}]
    /\ renewed' = renewed \cup {o}
    /\ UNCHANGED <<keyed, month, basis, paid, missed, touched, handed>>

ChargeFailed(o) ==
    /\ run.pc = "charge"
    /\ o \in run.ids
    /\ orders' = NotRenewed(orders, o)
    /\ run' = [run EXCEPT !.ids = @ \ {o}]
    /\ UNCHANGED <<keyed, month, renewed, basis, paid, missed, touched, handed>>

(* The command ends, or ends early: an order charged without a record (its  *)
(* finalization failed) or not taken at all leaves the table as it is.      *)
Ends ==
    /\ run.pc # "idle"
    /\ run' = Idle
    /\ UNCHANGED <<orders, keyed, month, renewed, basis, paid, missed, touched, handed>>

-----------------------------------------------------------------------------
(* The members, the staff, and the clock.                                   *)

(* The checkout's callback: an order is paid, whatever its status, and      *)
(* again when the callback is repeated. A date that moves was the only      *)
(* record of the payment before it.                                         *)
PaymentSucceeds(o) ==
    /\ orders' = [orders EXCEPT ![o].status = "paid", ![o].paidOn = month]
    /\ paid' = IF orders[o].paidOn = month THEN paid ELSE paid \ {Owner[o]}
    /\ touched' = touched \cup {Owner[o]}
    /\ UNCHANGED <<keyed, month, run, renewed, basis, missed, handed>>

(* A failure reported for a payment that had succeeded finds its "success"  *)
(* column set and books the order as paid: PaymentSucceeds.                 *)
PaymentFails(o) ==
    /\ orders[o].paidOn = 0
    /\ orders' = NotRenewed(orders, o)
    /\ touched' = touched \cup {Owner[o]}
    /\ UNCHANGED <<keyed, month, run, renewed, basis, paid, missed, handed>>

CancelOrder(o) ==
    /\ orders[o].status # "cancelled"
    /\ orders' = [orders EXCEPT ![o].status = "cancelled"]
    /\ touched' = touched \cup {Owner[o]}
    /\ UNCHANGED <<keyed, month, run, renewed, basis, paid, missed, handed>>

(* PATCH of an order's flag: staff release an order for a new charge, or    *)
(* hold it back.                                                            *)
PatchFlag(o) ==
    /\ \E flag \in HandFlags : orders' = FlagOrder(orders, o, flag)
    /\ renewed' = renewed \ {o}
    /\ touched' = touched \cup {Owner[o]}
    /\ handed' = handed \cup {o}
    /\ UNCHANGED <<keyed, month, run, basis, paid, missed>>

MonthTurns ==
    /\ month < LastMonth
    /\ month' = month + 1
    /\ renewed' = {}
    /\ UNCHANGED <<orders, keyed, run, basis, paid, missed, touched, handed>>

-----------------------------------------------------------------------------

Flags ==
    \/ Clear
    \/ UpdateOrdersUserKey
    \/ ListMembers
    \/ \E m \in Members : SelectOrder(m) \/ Skip(m) \/ SkipFails(m)
    \/ FlagSelected
    \/ Flagged
    \/ ListDouble
    \/ ListFresh
    \/ FlagsSet

Charges ==
    \/ ReadMuhlafim
    \/ MuhlafimDone
    \/ CollectToRenew
    \/ PreResolve
    \/ \E o \in Orders : FlagMuhlafim(o) \/ ChargeRecorded(o) \/ ChargeFailed(o)

Next ==
    \/ StartBilling
    \/ StartRetry
    \/ Flags
    \/ Charges
    \/ Ends
    \/ \E o \in Orders : PaymentSucceeds(o) \/ PaymentFails(o) \/ CancelOrder(o) \/ PatchFlag(o)
    \/ MonthTurns

Spec == Init /\ [][Next]_vars

-----------------------------------------------------------------------------

(* However often a month's billing is started, stopped and retried, for     *)
(* whatever months, and whatever flags it finds, no order is renewed twice  *)
(* in a calendar month; but for an order that, since it was renewed, the    *)
(* staff flagged or a run for a month not begun (cmd/billing.go takes any   *)
(* --month of this year).                                                   *)
RenewedOncePerMonth == [][\A o \in Orders : ChargeRecorded(o) => o \notin renewed]_vars

(* "Applying skip rule: excluding users who already paid this month"        *)
(* (flagAndSkipOperations): once Step 1 is through, neither the charges nor *)
(* a retry renew an order of a member who had paid for the month before it, *)
(* by any order, still valid or cancelled. A member whose skip statement    *)
(* failed is excepted, and one whose order was paid again or flagged by     *)
(* hand meanwhile.                                                          *)
PaidMembersNotCharged ==
    [][basis # 0 =>
         \A o \in Orders :
            ChargeRecorded(o) => Owner[o] \notin paid \ (missed \cup {Owner[i] : i \in handed})]_vars

(* A member never has two orders in the billing's hands: of a member's      *)
(* orders at most one is to renew, renewed or waiting for its price, beside *)
(* those flagged by hand.                                                   *)
OneFlaggedPerMember ==
    \A o, i \in Orders \ handed :
        /\ Owner[o] = Owner[i]
        /\ orders[o].flag \in {"torenew", "pricing_error", "renewed"}
        /\ orders[i].flag \in {"torenew", "pricing_error", "renewed"}
        => o = i

(* The orders by which a member's membership goes on.                       *)
Membership(m) == {o \in Orders : Owner[o] = m /\ orders[o].status \in {"paid", "nosuccess"}}

LastPaid(m) ==
    {o \in Membership(m) : \A i \in Membership(m) : orders[i].paidOn <= orders[o].paidOn}

(* No member is left out in silence: when the charges are collected right   *)
(* after the flags, the order a member paid last, if it was in an earlier   *)
(* month and it is not a regular one, is flagged: to be charged, skipped by *)
(* a rule or held back by the card company. A member whose orders changed   *)
(* meanwhile is excepted, and so is one with an order that was never paid   *)
(* (see FlagsLastPaid).                                                     *)
DueMembersBilled ==
    run.pc = "resolve" /\ "flags" \in run.opts =>
        \A m \in Members \ touched :
            /\ Membership(m) # {}
            /\ \A o \in Membership(m) : orders[o].paidOn # 0
            /\ \A o \in LastPaid(m) : Due(o, run.period)
            => \E o \in LastPaid(m) : orders[o].flag # ""

(* The order flagged is the one the member paid last, as the comment of     *)
(* FlagOrdersToRenew ("the last order") and its test OnlyMostRecent say.    *)
FlagsLastPaid ==
    \A o \in Orders :
        run.chosen = o /\ Owner[o] \notin touched => o \in LastPaid(Owner[o])

=============================================================================
