------------------------------ MODULE Checkout ------------------------------
(* A purchase, from the order row to the answer of the payment page, and    *)
(* what else writes its rows: the page's reports (PATCH /v2/transaction),   *)
(* the staff's edits of payments and orders, offline sales, and the cards   *)
(* attached to an order later. A request is a sequence of SQL statements    *)
(* without a transaction around them: the requests interleave statement by  *)
(* statement, and one that fails or is killed leaves what it wrote.         *)
(* The account is in Accounts, the price in Pricing. The dummy terminal of  *)
(* the test installations, which opens no page, is left out.                *)
EXTENDS Naturals

CONSTANTS
    Orders, NoOrder,       \* ids the orders table can hand out (a bound)
    Payments, NoPayment,   \* ids the payments table can hand out (a bound)
    Cards, NoCard,         \* ids the card_details table can hand out (a bound)
    Requests,              \* the HTTP requests that may be in flight together
    EditStatuses,          \* the statuses the staff writes to a payment: free text
    Patches                \* the columns an order is created or patched with

ASSUME CheckoutAssumption ==
    LET Written == {"pending", "paid", "success", "failed", "refunded", "cancelled"} IN
    /\ NoOrder \notin Orders /\ NoPayment \notin Payments /\ NoCard \notin Cards
    /\ EditStatuses \subseteq Written
    /\ Patches \subseteq [status : Written, membership : BOOLEAN]

VARIABLES
    orders,        \* the orders table
    payments,      \* the payments table
    child,         \* payments_pelecard, payments_offline and payments_helphaver
    transactions,  \* the payments with a row in the transaction table
    cards,         \* the card_details table
    job,           \* per request: where its handler stands and what it has read
    opened,        \* the payments whose page the payer got
    crossed,       \* history: orders with a request that did not run to its end,
                   \* or two that were writing different things at the same time
    patched,       \* history: orders whose columns were set apart from a payment
    edited,        \* history: orders the staff settled: by an edit, or sold offline
    brought,       \* history: payments a reported success brought a token for
    odd            \* history: payments of a type that has no child table

tables == <<orders, payments, child, transactions, cards>>
history == <<crossed, patched, edited, brought, odd>>
vars == <<tables, job, opened, history>>

-----------------------------------------------------------------------------

(* The payment types with a child table; the client may send any other.     *)
Kinds == {"pelecard", "offline", "helphaver"}

Methods == Kinds \cup {"other"}

Status == {"pending", "paid", "nosuccess", "success", "failed", "refunded", "cancelled"}

OrderRow == [status : Status \cup {"none"}, membership : BOOLEAN,
             card : Cards \cup {NoCard}]

(* success is the column of that name, "1" or NULL; token says whether      *)
(* pelecard_token is set; priced whether pricing_evaluation is.             *)
PaymentRow == [order : Orders \cup {NoOrder}, status : Status \cup {"none"},
               success : BOOLEAN, token : BOOLEAN, priced : BOOLEAN]

(* The row of the payment's child table; kind says which of the three.      *)
ChildRow == [kind : Kinds \cup {"none"}, status : Status \cup {"none"}]

(* op is the handler; at, the statement it comes to next.                   *)
Job == [op : {"none", "checkout", "offline", "paid", "edit", "token"},
        at : {"none", "order", "price", "payment", "child", "transaction", "page",
              "read", "card"},
        order : Orders \cup {NoOrder},
        pay : Payments \cup {NoPayment},
        card : Cards \cup {NoCard},
        method : Methods,
        priced : BOOLEAN,       \* checkout: the evaluation is stamped on the request
        ok : BOOLEAN,           \* paid: the report's success is "1"
        success : BOOLEAN,      \* paid: the success column of the Payment in memory
        status : Status,        \* edit, offline: the status to write
        restrict : BOOLEAN]     \* edit: RestrictOrderUpdate

IdleJob == [op |-> "none", at |-> "none", order |-> NoOrder, pay |-> NoPayment,
            card |-> NoCard, method |-> "pelecard", priced |-> FALSE, ok |-> FALSE,
            success |-> FALSE, status |-> "pending", restrict |-> FALSE]

NoOrderRow == [status |-> "none", membership |-> FALSE, card |-> NoCard]

NoPaymentRow == [order |-> NoOrder, status |-> "none",
                 success |-> FALSE, token |-> FALSE, priced |-> FALSE]

NoChildRow == [kind |-> "none", status |-> "none"]

TypeOK ==
    /\ orders \in [Orders -> OrderRow]
    /\ payments \in [Payments -> PaymentRow]
    /\ child \in [Payments -> ChildRow]
    /\ cards \in [Cards -> {"none", "active", "inactive", "deleted"}]
    /\ job \in [Requests -> Job]
    /\ opened \subseteq transactions /\ transactions \subseteq Payments
    /\ crossed \cup patched \cup edited \subseteq Orders
    /\ brought \cup odd \subseteq Payments

Init ==
    /\ orders = [o \in Orders |-> NoOrderRow]
    /\ payments = [p \in Payments |-> NoPaymentRow]
    /\ child = [p \in Payments |-> NoChildRow]
    /\ transactions = {}
    /\ cards = [c \in Cards |-> "none"]
    /\ job = [r \in Requests |-> IdleJob]
    /\ opened = {}
    /\ crossed = {} /\ patched = {} /\ edited = {}
    /\ brought = {} /\ odd = {}

-----------------------------------------------------------------------------
(* The statements.                                                          *)

(* An UPDATE sets the columns its builder was given values for.             *)
Assigned(row, columns) ==
    [c \in DOMAIN row |-> IF c \in DOMAIN columns THEN columns[c] ELSE row[c]]

SetOrder(o, columns) == orders' = [orders EXCEPT ![o] = Assigned(@, columns)]

SetPayment(p, columns) == payments' = [payments EXCEPT ![p] = Assigned(@, columns)]

SetChild(p, columns) == child' = [child EXCEPT ![p] = Assigned(@, columns)]

NewOrder(status, membership) == [status |-> status, membership |-> membership]

InsertOrder(o, columns) == orders[o].status = "none" /\ SetOrder(o, columns)

(* The Payment CreatePayment inserts: its status is the request's, pending  *)
(* at a checkout whatever the client sent.                                  *)
NewPayment(j) == [order |-> j.order, status |-> j.status, priced |-> j.priced]

PelecardRow(j) == [kind |-> "pelecard", status |-> j.status]

OfflineRow(j) == [kind |-> "offline", status |-> j.status]

HelpHaverRow(j) == [kind |-> "helphaver", status |-> j.status]

(* A type that is none of the three is no error: the payment has no child.  *)
ChildOf(j) == CASE j.method = "pelecard" -> PelecardRow(j)
                [] j.method = "offline" -> OfflineRow(j)
                [] j.method = "helphaver" -> HelpHaverRow(j)
                [] j.method = "other" -> NoChildRow

(* The child row as the staff edits it.                                     *)
PelecardEdit(status) == [status |-> status]

OfflineEdit(status) == [status |-> status]

HelpHaverEdit(status) == [status |-> status]

EditOf(method, status) == CASE method = "pelecard" -> PelecardEdit(status)
                            [] method = "offline" -> OfflineEdit(status)
                            [] method = "helphaver" -> HelpHaverEdit(status)

OrderPatch(patch) == [status |-> patch.status, membership |-> patch.membership]

CardPatch(active) == IF active THEN "active" ELSE "inactive"

InsertTransaction(p) == transactions' = transactions \cup {p}

-----------------------------------------------------------------------------
(* Requests.                                                                *)

Idle(r) == job[r].op = "none"

At(r, op, at) == job[r].op = op /\ job[r].at = at

Goto(r, at) == job' = [job EXCEPT ![r].at = at]

Answer(r) == job' = [job EXCEPT ![r] = IdleJob]

InFlight(o) == {r \in Requests : job[r].order = o}

(* Two requests that may leave different statuses behind. The same report   *)
(* sent twice (a reload, a double click) may not.                           *)
Differ(j, k) ==
    /\ {j.op, k.op} \subseteq {"paid", "edit"}
    /\ ~(j.op = "paid" /\ k.op = "paid" /\ j.ok = k.ok)

Enter(r, j) ==
    /\ Idle(r)
    /\ job' = [job EXCEPT ![r] = j]
    /\ crossed' = crossed \cup {o \in {j.order} : \E k \in InFlight(o) : Differ(j, job[k])}

(* An error answer, a lost connection or a crash between two statements.    *)
Cut(r) ==
    /\ ~Idle(r)
    /\ Answer(r)
    /\ crossed' = crossed \cup ({job[r].order} \ {NoOrder})
    /\ UNCHANGED <<tables, opened, patched, edited, brought, odd>>

-----------------------------------------------------------------------------
(* handleTransactionOrderAndPay.                                            *)

(* Mutant of checkoutPriceEnforced: the condition on the method is inverted. *)
checkoutPriceEnforced_Inverted(membership, method) ==
    membership /\ method \in {"offline", "helphaver"}

checkoutPriceEnforced(membership, method) ==
    membership /\ method \notin {"offline", "helphaver"}

(* The order comes first, pending, before the price is looked at.           *)
CreateOrderViaTransaction(r) ==
    \E o \in Orders, membership \in BOOLEAN, method \in Methods :
        /\ InsertOrder(o, NewOrder("pending", membership))
        /\ Enter(r, [IdleJob EXCEPT !.op = "checkout", !.order = o, !.method = method,
                        !.at = IF checkoutPriceEnforced(membership, method)
                               THEN "price" ELSE "payment"])
        /\ UNCHANGED <<payments, child, transactions, cards, opened>>
        /\ UNCHANGED <<patched, edited, brought, odd>>

(* The amount and the currency are the resolved ones: the evaluation goes   *)
(* on to the payment. A refusal is a request cut here.                      *)
EnforceCheckoutPrice(r) ==
    /\ At(r, "checkout", "price")
    /\ job' = [job EXCEPT ![r].at = "payment", ![r].priced = TRUE]
    /\ UNCHANGED <<tables, opened, history>>

(* CreatePayment, of a checkout or of an offline sale: the payment, ...     *)
CreatePayment(r) ==
    /\ job[r].op \in {"checkout", "offline"} /\ job[r].at = "payment"
    /\ \E p \in Payments :
          /\ payments[p].status = "none"
          /\ SetPayment(p, NewPayment(job[r]))
          /\ job' = [job EXCEPT ![r].at = "child", ![r].pay = p]
          /\ odd' = odd \cup {q \in {p} : job[r].method \notin Kinds}
    /\ UNCHANGED <<orders, child, transactions, cards, opened>>
    /\ UNCHANGED <<crossed, patched, edited, brought>>

(* Mutant of CreateChildPayment: a checkout goes to its page right away.    *)
CreateChildPayment_SkipsTransaction(r) ==
    /\ job[r].op \in {"checkout", "offline"} /\ job[r].at = "child"
    /\ SetChild(job[r].pay, ChildOf(job[r]))
    /\ IF job[r].op = "checkout" THEN Goto(r, "page") ELSE Answer(r)
    /\ UNCHANGED <<orders, payments, transactions, cards, opened, history>>

(* ... and the row of its child table. An offline sale is over then.        *)
CreateChildPayment(r) ==
    /\ job[r].op \in {"checkout", "offline"} /\ job[r].at = "child"
    /\ SetChild(job[r].pay, ChildOf(job[r]))
    /\ IF job[r].op = "checkout" THEN Goto(r, "transaction") ELSE Answer(r)
    /\ UNCHANGED <<orders, payments, transactions, cards, opened, history>>

(* What is paid offline or by the help-haver fund has no page.              *)
CreateTransaction(r) ==
    /\ At(r, "checkout", "transaction")
    /\ InsertTransaction(job[r].pay)
    /\ IF job[r].method \in {"offline", "helphaver"} THEN Answer(r) ELSE Goto(r, "page")
    /\ UNCHANGED <<orders, payments, child, cards, opened, history>>

OpenPage(r) ==
    /\ At(r, "checkout", "page")
    /\ opened' = opened \cup {job[r].pay}
    /\ Answer(r)
    /\ UNCHANGED <<tables, history>>

(* No page for the order's type, or the gateway does not open one: 200 with *)
(* the caller's error URL.                                                  *)
NoPage(r) ==
    /\ At(r, "checkout", "page")
    /\ Answer(r)
    /\ UNCHANGED <<tables, opened, history>>

-----------------------------------------------------------------------------
(* handleTransactionPaid: the payer's browser brings what the page told it, *)
(* any number of times and in any order. The handler asks the gateway       *)
(* nothing: it takes what the owner of the order, or the staff, sends for   *)
(* any payment of it, whether or not the page was opened.                   *)

ReportPaid(r) ==
    \E p \in Payments, ok \in BOOLEAN :
        /\ payments[p].status # "none"
        /\ Enter(r, [IdleJob EXCEPT !.op = "paid", !.at = "read", !.pay = p, !.ok = ok,
                                    !.order = payments[p].order])
        /\ UNCHANGED <<tables, opened, patched, edited, brought, odd>>

(* UpdatePayment's SELECT. On a failure the Payment in memory keeps the     *)
(* columns it has read, the success column among them.                      *)
ReadPayment(r) ==
    /\ At(r, "paid", "read")
    /\ job' = [job EXCEPT ![r].at = "payment",
                          ![r].success = job[r].ok \/ payments[job[r].pay].success]
    /\ UNCHANGED <<tables, opened, history>>

(* Mutant of ReportedColumns: a failure takes the success column away.      *)
ReportedColumns_Reset(j, token) ==
    CASE j.ok /\ token -> [status |-> "success", success |-> TRUE, token |-> TRUE]
      [] j.ok /\ ~token -> [status |-> "success", success |-> TRUE]
      [] ~j.ok -> [status |-> "failed", success |-> FALSE]

(* What is not NULL in that Payment is written, and a success's token if it *)
(* is not blank.                                                            *)
ReportedColumns(j, token) ==
    CASE j.ok /\ token -> [status |-> "success", success |-> TRUE, token |-> TRUE]
      [] j.ok /\ ~token -> [status |-> "success", success |-> TRUE]
      [] ~j.ok /\ j.success -> [status |-> "failed", success |-> TRUE]
      [] ~j.ok /\ ~j.success -> [status |-> "failed"]

UpdatePayment(r) ==
    \E token \in BOOLEAN :    \* the report brings one
        /\ At(r, "paid", "payment")
        /\ SetPayment(job[r].pay, ReportedColumns(job[r], token))
        /\ brought' = brought \cup {p \in {job[r].pay} : job[r].ok /\ token}
        /\ Goto(r, "child")
        /\ UNCHANGED <<orders, child, transactions, cards, opened>>
        /\ UNCHANGED <<crossed, patched, edited, odd>>

ReportedChild(j) == [status |-> IF j.ok THEN "success" ELSE "failed"]

(* No row in payments_pelecard is no error.                                 *)
UpdatePelecard(r) ==
    /\ At(r, "paid", "child")
    /\ IF child[job[r].pay].kind = "pelecard"
       THEN SetChild(job[r].pay, ReportedChild(job[r])) ELSE child' = child
    /\ Goto(r, "order")
    /\ UNCHANGED <<orders, payments, transactions, cards, opened, history>>

(* Mutant of OrderStatusAfter: the order is paid by any report.             *)
OrderStatusAfter_AnyReport(j) == "paid"

OrderStatusAfter(j) == IF j.success THEN "paid" ELSE "nosuccess"

UpdateOrderAfterPayment(r) ==
    /\ At(r, "paid", "order")
    /\ SetOrder(job[r].order, [status |-> OrderStatusAfter(job[r])])
    /\ Answer(r)
    /\ UNCHANGED <<payments, child, transactions, cards, opened, history>>

-----------------------------------------------------------------------------
(* The staff: handlePaymentUpdate, handleCreateOffline, and the single      *)
(* statements on orders, payments and cards.                                *)

(* The child row of the type the request names, its status and the order's  *)
(* (unless restricted) are written one after the other. Another type than   *)
(* the three is refused.                                                    *)
BeginEdit(r) ==
    \E p \in Payments, method \in Kinds, status \in EditStatuses, restrict \in BOOLEAN :
        /\ child[p].kind = method    \* else no row is affected: 404
        /\ SetChild(p, EditOf(method, status))
        /\ Enter(r, [IdleJob EXCEPT !.op = "edit", !.at = "payment", !.pay = p,
                        !.order = payments[p].order, !.status = status, !.restrict = restrict])
        /\ UNCHANGED <<orders, payments, transactions, cards, opened>>
        /\ UNCHANGED <<patched, edited, brought, odd>>

(* Mutant of UpdateParentPayment: the order is left out as if restricted.   *)
UpdateParentPayment_Restricted(r) ==
    /\ At(r, "edit", "payment")
    /\ SetPayment(job[r].pay, [status |-> job[r].status])
    /\ Answer(r)
    /\ patched' = patched \cup {o \in {job[r].order} : job[r].restrict}
    /\ edited' = edited \cup {job[r].order}
    /\ UNCHANGED <<orders, child, transactions, cards, opened, crossed, brought, odd>>

UpdateParentPayment(r) ==
    /\ At(r, "edit", "payment")
    /\ SetPayment(job[r].pay, [status |-> job[r].status])
    /\ IF job[r].restrict THEN Answer(r) ELSE Goto(r, "order")
    /\ patched' = patched \cup {o \in {job[r].order} : job[r].restrict}
    /\ edited' = edited \cup {job[r].order}
    /\ UNCHANGED <<orders, child, transactions, cards, opened, crossed, brought, odd>>

(* The order gets the status of the payment, word for word.                 *)
UpdateOrderStatus(r) ==
    /\ At(r, "edit", "order")
    /\ SetOrder(job[r].order, [status |-> job[r].status])
    /\ Answer(r)
    /\ UNCHANGED <<payments, child, transactions, cards, opened, history>>

(* An offline sale is a paid order first, and its payment second.           *)
CreateOffline(r) ==
    \E o \in Orders :
        /\ InsertOrder(o, NewOrder("paid", TRUE))
        /\ Enter(r, [IdleJob EXCEPT !.op = "offline", !.at = "payment", !.order = o,
                                    !.method = "offline", !.status = "success"])
        /\ edited' = edited \cup {o}
        /\ UNCHANGED <<payments, child, transactions, cards, opened>>
        /\ UNCHANGED <<patched, brought, odd>>

(* POST /v2/order: an order alone, with the status its author gives it.     *)
CreateV2Order(o) ==
    \E patch \in Patches :
        /\ InsertOrder(o, NewOrder(patch.status, patch.membership))
        /\ patched' = patched \cup {o}
        /\ UNCHANGED <<payments, child, transactions, cards, job, opened>>
        /\ UNCHANGED <<crossed, edited, brought, odd>>

(* The owner or the staff; every column is theirs, the status and the type  *)
(* of product among them. The card and the account they may set are left    *)
(* out: no property speaks of a patched order's card, nor this module of    *)
(* accounts.                                                                *)
PatchOrderByID(o) ==
    \E patch \in Patches :
        /\ orders[o].status # "none"
        /\ SetOrder(o, OrderPatch(patch))
        /\ patched' = patched \cup {o}
        /\ UNCHANGED <<payments, child, transactions, cards, job, opened>>
        /\ UNCHANGED <<crossed, edited, brought, odd>>

(* UpdateOrdersToken: a new card of the order's account, ...                *)
CreateCard(r) ==
    \E o \in Orders, c \in Cards :
        /\ Idle(r)
        /\ orders[o].status # "none"
        /\ cards[c] = "none"
        /\ cards' = [cards EXCEPT ![c] = "active"]
        /\ job' = [job EXCEPT ![r] = [IdleJob EXCEPT !.op = "token", !.at = "card",
                                                     !.order = o, !.card = c]]
        /\ crossed' = crossed    \* the status columns are not written
        /\ UNCHANGED <<orders, payments, child, transactions, opened>>
        /\ UNCHANGED <<patched, edited, brought, odd>>

(* ... and then the order is pointed to it.                                 *)
AttachCard(r) ==
    /\ At(r, "token", "card")
    /\ SetOrder(job[r].order, [card |-> job[r].card])
    /\ Answer(r)
    /\ UNCHANGED <<payments, child, transactions, cards, opened, history>>

PatchCardDetailsById(c) ==
    \E active \in BOOLEAN :
        /\ cards[c] \in {"active", "inactive"}
        /\ cards' = [cards EXCEPT ![c] = CardPatch(active)]
        /\ UNCHANGED <<orders, payments, child, transactions, job, opened, history>>

SoftDeleteCardDetailById(c) ==
    /\ cards[c] # "none"
    /\ cards' = [cards EXCEPT ![c] = "deleted"]
    /\ UNCHANGED <<orders, payments, child, transactions, job, opened, history>>

-----------------------------------------------------------------------------

Handler(r) ==
    \/ EnforceCheckoutPrice(r) \/ CreatePayment(r) \/ CreateChildPayment(r)
    \/ CreateTransaction(r) \/ OpenPage(r) \/ NoPage(r)
    \/ ReadPayment(r) \/ UpdatePayment(r) \/ UpdatePelecard(r) \/ UpdateOrderAfterPayment(r)
    \/ UpdateParentPayment(r) \/ UpdateOrderStatus(r)
    \/ AttachCard(r)

Next ==
    \/ \E r \in Requests :
          \/ CreateOrderViaTransaction(r) \/ ReportPaid(r) \/ BeginEdit(r)
          \/ CreateOffline(r) \/ CreateCard(r)
          \/ Handler(r) \/ Cut(r)
    \/ \E o \in Orders : CreateV2Order(o) \/ PatchOrderByID(o)
    \/ \E c \in Cards : PatchCardDetailsById(c) \/ SoftDeleteCardDetailById(c)

Spec == Init /\ [][Next]_vars

-----------------------------------------------------------------------------
(* Properties.                                                              *)

PaymentsOf(o) == {p \in Payments : payments[p].order = o}

(* A failure was reported after a success: the success column stays.        *)
FailedLate(p) == payments[p].status = "failed" /\ payments[p].success

(* Every request on the order ran to its end, none crossed one that says    *)
(* otherwise, and nobody set its status apart from its payment's.           *)
Undisturbed(o) == InFlight(o) = {} /\ o \notin crossed \cup patched

(* An order and its payment are settled together, by every report and every *)
(* edit that runs to its end, although they are different statements on two *)
(* tables (handleTransactionPaid, handlePaymentUpdate); the same report may *)
(* be in flight several times. The one disagreement is the late failure:    *)
(* the payment is failed, its success column stays, and the order is paid.  *)
SettledTogether ==
    \A o \in Orders : \A p \in PaymentsOf(o) :
        Undisturbed(o) =>
            \/ payments[p].status = "success" /\ orders[o].status \in {"paid", "success"}
            \/ payments[p].status = "failed" /\ orders[o].status \in {"nosuccess", "failed"}
            \/ FailedLate(p) /\ orders[o].status = "paid"
            \/ payments[p].status = orders[o].status

(* Nobody pays for half a purchase: a page opens on a payment with its      *)
(* transaction and its child row, and at the resolved price if what is      *)
(* ordered is a membership (handleTransactionOrderAndPay's order of         *)
(* statements). A payment type the code does not know gets a page and no    *)
(* child row; an order made a membership later was not priced as one.       *)
PageOnWholePurchase ==
    \A p \in opened :
        /\ p \in transactions
        /\ p \notin odd => child[p].kind = "pelecard"
        /\ orders[payments[p].order].membership =>
              payments[p].priced \/ payments[p].order \in patched

(* An order is paid on record: whatever reports, failures, retries and      *)
(* crashes cross on it, the reports make an order paid only by a payment of *)
(* it that holds a success, and a membership only by one at the resolved    *)
(* price if it was to be paid by card. Else the staff sold it or edited its *)
(* payment, or it was set paid by hand. The success is the report's: nobody *)
(* asks the gateway (handleTransactionPaid).                                *)
PaidOnRecord ==
    \A o \in Orders :
        orders[o].status = "paid" =>
            \/ o \in patched \cup edited
            \/ \E p \in PaymentsOf(o) :
                  /\ payments[p].success
                  /\ orders[o].membership /\ child[p].kind = "pelecard" => payments[p].priced

(* The gateway's yes is never unsaid: no failure reported later, and no     *)
(* edit, takes the success column or the token off a payment.               *)
SuccessKept ==
    [][\A p \in Payments : /\ payments[p].success => payments'[p].success
                           /\ payments[p].token => payments'[p].token]_vars

(* Mutant of HasToken: an order with a card has no other token.            *)
HasToken_CardOnly(o) ==
    IF orders[o].card # NoCard THEN cards[orders[o].card] = "active"
    ELSE \E p \in PaymentsOf(o) : payments[p].status = "success" /\ payments[p].token

(* GetTokensForOrders: the order's active card, or else its first           *)
(* successful payment's token.                                              *)
HasToken(o) ==
    \/ orders[o].card # NoCard /\ cards[orders[o].card] = "active"
    \/ \E p \in PaymentsOf(o) : payments[p].status = "success" /\ payments[p].token

(* An order paid by a report can be charged when it recurs: once a report   *)
(* of its payment brought a token it has one, unless a failure was reported *)
(* after the success (its payment is failed then, and GetTokensForOrders    *)
(* passes it over although the order stays paid), a request was cut or      *)
(* crossed another, or the staff edited it.                                 *)
PaidCanRenew ==
    \A o \in Orders :
        /\ Undisturbed(o) /\ o \notin edited
        /\ orders[o].status = "paid" /\ PaymentsOf(o) \cap brought # {}
        => HasToken(o) \/ \E p \in PaymentsOf(o) : FailedLate(p)

=============================================================================
