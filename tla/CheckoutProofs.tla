--------------------------- MODULE CheckoutProofs ---------------------------
(* Theorems about Checkout, for any orders, payments, cards, requests and   *)
(* columns the staff writes.                                                *)
EXTENDS Checkout, TLAPS

(* The requests that make a purchase, and those that settle one.            *)
Making(j) == j.op \in {"checkout", "offline"}

Settling(j) == j.op \in {"paid", "edit"}

HasPay(j) == Settling(j) \/ (Making(j) /\ j.at \in {"child", "transaction", "page"})

(* Where a handler may stand.                                               *)
Shape(j) ==
    /\ j.op = "none" => j = IdleJob
    /\ j.op # "none" => j.order \in Orders
    /\ j.op = "checkout" =>
          /\ j.at \in {"price", "payment", "child", "transaction", "page"}
          /\ j.status = "pending"
    /\ j.op = "offline" =>
          j.at \in {"payment", "child"} /\ j.method = "offline" /\ j.status = "success"
    /\ j.op = "paid" => j.at \in {"read", "payment", "child", "order"}
    /\ j.op = "edit" => j.at \in {"payment", "order"}
    /\ j.op = "token" => j.at = "card"
    /\ HasPay(j) => j.pay \in Payments

(* What a request holds in memory points to rows that are there.            *)
JobsSound ==
    \A r \in Requests :
        /\ Shape(job[r])
        /\ ~Idle(r) => orders[job[r].order].status # "none"
        /\ HasPay(job[r]) => /\ payments[job[r].pay].order = job[r].order
                             /\ payments[job[r].pay].status # "none"
        /\ job[r].at = "page" => job[r].pay \in transactions

(* A payment is of an order, and an id not handed out yet is nowhere.       *)
RowsSound ==
    \A p \in Payments :
        /\ payments[p].status # "none" =>
              payments[p].order \in Orders /\ orders[payments[p].order].status # "none"
        /\ payments[p].status = "none" =>
              payments[p] = NoPaymentRow /\ child[p].kind = "none" /\ p \notin transactions

(* One request makes an order's only payment.                               *)
OneMaker ==
    /\ \A r, s \in Requests :
          Making(job[r]) /\ Making(job[s]) /\ job[r].order = job[s].order => r = s
    /\ \A r \in Requests : Making(job[r]) /\ ~HasPay(job[r]) => PaymentsOf(job[r].order) = {}
    /\ \A p, q \in Payments : payments[p].order = payments[q].order /\ payments[p].order # NoOrder
                                 => p = q

SoundInv == TypeOK /\ JobsSound /\ RowsSound /\ OneMaker

(* A page: the purchase on its way to one is whole at every statement.      *)
WholeSoFar(r) ==
    LET j == job[r]
        Due == /\ j.order \notin patched
               /\ checkoutPriceEnforced(orders[j.order].membership, j.method)
    IN  /\ j.op = "checkout" /\ j.at = "payment" => (Due => j.priced)
        /\ Making(j) /\ HasPay(j) => j.pay \notin opened
        /\ j.op = "checkout" /\ HasPay(j) => (Due => payments[j.pay].priced)
        /\ Making(j) /\ HasPay(j) /\ j.method \notin Kinds => j.pay \in odd
        /\ j.at \in {"transaction", "page"} /\ j.method \in Kinds => child[j.pay].kind = j.method
        /\ j.at = "page" => j.method \notin {"offline", "helphaver"}

OnTheWay == \A r \in Requests : WholeSoFar(r)

(* What is to be paid by card is at the resolved price.                     *)
Priced(p) ==
    LET o == payments[p].order
    IN  child[p].kind = "pelecard" /\ o \notin patched /\ orders[o].membership => payments[p].priced

PageInv ==
    /\ PageOnWholePurchase
    /\ OnTheWay
    /\ \A p \in Payments : Priced(p)

(* A report in flight that will make the order paid has left a success in   *)
(* the payment; an offline sale and an edit are the staff's word.           *)
Backed(r) ==
    /\ job[r].op = "paid" /\ job[r].at \in {"child", "order"} /\ job[r].success =>
          payments[job[r].pay].success
    /\ job[r].op = "offline" => job[r].order \in edited
    /\ At(r, "edit", "order") => job[r].order \in edited

RecordInv == PaidOnRecord /\ \A r \in Requests : Backed(r)

(* The order and its payment agree; by their statuses, ...                  *)
Agree(o, p) ==
    \/ payments[p].status = "success" /\ orders[o].status \in {"paid", "success"}
    \/ payments[p].status = "failed" /\ orders[o].status \in {"nosuccess", "failed"}
    \/ FailedLate(p) /\ orders[o].status = "paid"
    \/ payments[p].status = orders[o].status

(* ... or by the request that has written the one and not yet the other.    *)
Underway(r, o) ==
    job[r].order = o /\ ((job[r].op = "paid" /\ job[r].at = "child") \/ job[r].at = "order")

Disturbed(o) == o \in crossed \cup patched

(* What a request past its first statement will write is what it wrote.     *)
Consistent(r) ==
    LET j == job[r]  p == payments[j.pay]
    IN  /\ j.op = "paid" /\ j.at \in {"child", "order"} =>
              p.status = IF j.ok THEN "success" ELSE "failed"
        /\ j.op = "paid" /\ j.at # "read" => j.success = (j.ok \/ p.success)
        /\ j.op = "edit" /\ j.at = "order" => p.status = j.status

(* The order of a purchase without its payment is as it was inserted.       *)
Ready(r) ==
    Making(job[r]) /\ ~HasPay(job[r]) =>
        orders[job[r].order].status = IF job[r].op = "checkout" THEN "pending" ELSE "paid"

(* Requests that differ leave their mark.                                   *)
Concord(r, s) ==
    r # s /\ job[r].order = job[s].order /\ job[r].order \notin crossed => ~Differ(job[r], job[s])

Settled(o) ==
    \A p \in Payments : payments[p].order = o =>
        Agree(o, p) \/ \E r \in Requests : Underway(r, o)

SettleInv ==
    /\ \A r, s \in Requests : Concord(r, s)
    /\ \A r \in Requests : ~Disturbed(job[r].order) => Consistent(r) /\ Ready(r)
    /\ \A o \in Orders : ~Disturbed(o) => Settled(o)

(* A token a report brought is there; what nobody typed in is a success.    *)
TokenInv ==
    \A p \in Payments :
        /\ p \in brought => payments[p].token
        /\ payments[p].status = "paid" => payments[p].order \in edited

-----------------------------------------------------------------------------
(* What the statements do to a row.                                         *)
LEMMA OrderInserted ==
    ASSUME orders \in [Orders -> OrderRow], NEW o \in Orders, NEW s \in Status, NEW m \in BOOLEAN,
           SetOrder(o, NewOrder(s, m))
    PROVE  /\ orders' = [orders EXCEPT ![o] = [status |-> s, membership |-> m, card |-> orders[o].card]]
           /\ orders' \in [Orders -> OrderRow]
<1>1. orders[o] \in OrderRow  OBVIOUS
<1>2. Assigned(orders[o], NewOrder(s, m)) = [status |-> s, membership |-> m, card |-> orders[o].card]
  BY <1>1 DEF Assigned, NewOrder, OrderRow
<1>3. [status |-> s, membership |-> m, card |-> orders[o].card] \in OrderRow
  BY <1>1 DEF OrderRow
<1>4. QED  BY <1>2, <1>3 DEF SetOrder

LEMMA OrderSettled ==
    ASSUME orders \in [Orders -> OrderRow], NEW o \in Orders, NEW s \in Status,
           SetOrder(o, [status |-> s])
    PROVE  orders' = [orders EXCEPT ![o].status = s] /\ orders' \in [Orders -> OrderRow]
<1>1. orders[o] \in OrderRow  OBVIOUS
<1>2. Assigned(orders[o], [status |-> s]) = [orders[o] EXCEPT !.status = s]
  BY <1>1 DEF Assigned, OrderRow
<1>3. [orders[o] EXCEPT !.status = s] \in OrderRow  BY <1>1 DEF OrderRow
<1>4. QED  BY <1>2, <1>3 DEF SetOrder

LEMMA OrderPatched ==
    ASSUME orders \in [Orders -> OrderRow], NEW o \in Orders, NEW patch \in Patches,
           SetOrder(o, OrderPatch(patch))
    PROVE  /\ orders' \in [Orders -> OrderRow]
           /\ orders'[o].status # "none"
           /\ \A q \in Orders \ {o} : orders'[q] = orders[q]
<1>1. orders[o] \in OrderRow  OBVIOUS
<1>2. patch.status \in Status \ {"none"} /\ patch.membership \in BOOLEAN
  BY CheckoutAssumption DEF Status
<1> DEFINE new == Assigned(orders[o], OrderPatch(patch))
<1>3. new = [status |-> patch.status, membership |-> patch.membership, card |-> orders[o].card]
  BY <1>1 DEF Assigned, OrderPatch, OrderRow
<1>4. new \in OrderRow /\ new.status # "none"  BY <1>1, <1>2, <1>3 DEF OrderRow
<1>5. QED  BY <1>4 DEF SetOrder

LEMMA OrderPointed ==
    ASSUME orders \in [Orders -> OrderRow], NEW o \in Orders, NEW c \in Cards \cup {NoCard},
           SetOrder(o, [card |-> c])
    PROVE  orders' = [orders EXCEPT ![o].card = c] /\ orders' \in [Orders -> OrderRow]
<1>1. orders[o] \in OrderRow  OBVIOUS
<1>2. Assigned(orders[o], [card |-> c]) = [orders[o] EXCEPT !.card = c]
  BY <1>1 DEF Assigned, OrderRow
<1>3. [orders[o] EXCEPT !.card = c] \in OrderRow  BY <1>1 DEF OrderRow
<1>4. QED  BY <1>2, <1>3 DEF SetOrder

(* A row of the payments table, column by column.                           *)
LEMMA PaymentColumns ==
    ASSUME NEW row \in PaymentRow, NEW columns
    PROVE  Assigned(row, columns) =
             [order |-> Assigned(row, columns).order, status |-> Assigned(row, columns).status,
              success |-> Assigned(row, columns).success,
              token |-> Assigned(row, columns).token, priced |-> Assigned(row, columns).priced]
<1> DEFINE new == Assigned(row, columns)
<1>1. DOMAIN row = {"order", "status", "success", "token", "priced"}  BY DEF PaymentRow
<1>2. new = [c \in {"order", "status", "success", "token", "priced"} |-> new[c]]
  BY <1>1 DEF Assigned
<1>3. QED  BY <1>2

LEMMA PaymentInserted ==
    ASSUME payments \in [Payments -> PaymentRow], NEW p \in Payments, NEW j \in Job,
           payments[p] = NoPaymentRow, SetPayment(p, NewPayment(j))
    PROVE  /\ payments' = [payments EXCEPT ![p] =
                  [order |-> j.order, status |-> j.status,
                   success |-> FALSE, token |-> FALSE, priced |-> j.priced]]
           /\ payments' \in [Payments -> PaymentRow]
<1> DEFINE new == Assigned(payments[p], NewPayment(j))
<1>1. DOMAIN NewPayment(j) = {"order", "status", "priced"}  BY DEF NewPayment
<1>2. DOMAIN payments[p] = {"order", "status", "success", "token", "priced"}
  BY DEF NoPaymentRow
<1>3. /\ new.order = j.order /\ new.status = j.status
      /\ new.success = FALSE /\ new.token = FALSE /\ new.priced = j.priced
  BY <1>1, <1>2 DEF NewPayment, Assigned, NoPaymentRow
<1>4. new = [order |-> j.order, status |-> j.status,
             success |-> FALSE, token |-> FALSE, priced |-> j.priced]
  BY <1>3, PaymentColumns
<1>5. new \in PaymentRow  BY <1>4 DEF PaymentRow, Job
<1>6. QED  BY <1>4, <1>5 DEF SetPayment

LEMMA PaymentReported ==
    ASSUME payments \in [Payments -> PaymentRow], NEW p \in Payments, NEW j \in Job,
           NEW token \in BOOLEAN, SetPayment(p, ReportedColumns(j, token))
    PROVE  /\ payments' = [payments EXCEPT ![p] =
                  [order |-> payments[p].order,
                   status |-> IF j.ok THEN "success" ELSE "failed",
                   success |-> j.ok \/ j.success \/ payments[p].success,
                   token |-> (j.ok /\ token) \/ payments[p].token, priced |-> payments[p].priced]]
           /\ payments' \in [Payments -> PaymentRow]
<1> DEFINE row == payments[p]
           columns == ReportedColumns(j, token)
           new == Assigned(row, columns)
<1>1. row \in PaymentRow  OBVIOUS
<1>2. j.ok \in BOOLEAN /\ j.success \in BOOLEAN  BY DEF Job
<1>3. DOMAIN row = {"order", "status", "success", "token", "priced"}  BY <1>1 DEF PaymentRow
<1>4. /\ columns.status = IF j.ok THEN "success" ELSE "failed"
      /\ DOMAIN columns \subseteq {"status", "success", "token"} /\ "status" \in DOMAIN columns
      /\ "success" \in DOMAIN columns <=> (j.ok \/ j.success)
      /\ "success" \in DOMAIN columns => columns.success = TRUE
      /\ "token" \in DOMAIN columns <=> (j.ok /\ token)
      /\ "token" \in DOMAIN columns => columns.token = TRUE
  <2>1. CASE j.ok /\ token
    <3>1. columns = [status |-> "success", success |-> TRUE, token |-> TRUE]
      BY <2>1 DEF ReportedColumns
    <3> HIDE DEF columns
    <3>2. DOMAIN columns = {"status", "success", "token"}  BY <3>1
    <3>3. columns.status = "success" /\ columns.success = TRUE /\ columns.token = TRUE  BY <3>1
    <3>4. QED  BY <2>1, <3>2, <3>3
  <2>2. CASE j.ok /\ ~token
    <3>1. columns = [status |-> "success", success |-> TRUE]  BY <2>2 DEF ReportedColumns
    <3>2. QED  BY <2>2, <3>1
  <2>3. CASE ~j.ok /\ j.success
    <3>1. columns = [status |-> "failed", success |-> TRUE]  BY <2>3 DEF ReportedColumns
    <3>2. QED  BY <2>3, <3>1
  <2>4. CASE ~j.ok /\ ~j.success
    <3>1. columns = [status |-> "failed"]  BY <2>4 DEF ReportedColumns
    <3>2. QED  BY <2>4, <3>1
  <2>5. QED  BY <1>2, <2>1, <2>2, <2>3, <2>4
<1> HIDE DEF columns
<1>5. /\ new.order = row.order
      /\ new.status = IF j.ok THEN "success" ELSE "failed"
      /\ new.priced = row.priced
  BY <1>3, <1>4 DEF Assigned
<1>6. new.success = (j.ok \/ j.success \/ row.success)
  BY <1>1, <1>2, <1>3, <1>4 DEF Assigned, PaymentRow
<1>7. new.token = ((j.ok /\ token) \/ row.token)
  BY <1>1, <1>2, <1>3, <1>4 DEF Assigned, PaymentRow
<1>8. new = [order |-> row.order, status |-> IF j.ok THEN "success" ELSE "failed",
             success |-> j.ok \/ j.success \/ row.success,
             token |-> (j.ok /\ token) \/ row.token, priced |-> row.priced]
  BY <1>1, <1>5, <1>6, <1>7, PaymentColumns
<1>9. new \in PaymentRow  BY <1>1, <1>2, <1>8 DEF PaymentRow, Status
<1>10. QED  BY <1>8, <1>9 DEF SetPayment, columns

LEMMA PaymentEdited ==
    ASSUME payments \in [Payments -> PaymentRow], NEW p \in Payments, NEW s \in Status,
           SetPayment(p, [status |-> s])
    PROVE  payments' = [payments EXCEPT ![p].status = s] /\ payments' \in [Payments -> PaymentRow]
<1>1. payments[p] \in PaymentRow  OBVIOUS
<1>2. Assigned(payments[p], [status |-> s]) = [payments[p] EXCEPT !.status = s]
  BY <1>1 DEF Assigned, PaymentRow
<1>3. [payments[p] EXCEPT !.status = s] \in PaymentRow  BY <1>1 DEF PaymentRow
<1>4. QED  BY <1>2, <1>3 DEF SetPayment

LEMMA ChildColumns ==
    ASSUME NEW row \in ChildRow, NEW columns
    PROVE  Assigned(row, columns) =
             [kind |-> Assigned(row, columns).kind, status |-> Assigned(row, columns).status]
<1> DEFINE new == Assigned(row, columns)
<1>1. DOMAIN row = {"kind", "status"}  BY DEF ChildRow
<1>2. new = [c \in {"kind", "status"} |-> new[c]]  BY <1>1 DEF Assigned
<1>3. QED  BY <1>2

LEMMA ChildInserted ==
    ASSUME child \in [Payments -> ChildRow], NEW p \in Payments, NEW j \in Job,
           SetChild(p, ChildOf(j))
    PROVE  /\ \A q \in Payments \ {p} : child'[q] = child[q]
           /\ child'[p].kind = IF j.method \in Kinds THEN j.method ELSE "none"
           /\ child' \in [Payments -> ChildRow]
<1> DEFINE row == child[p]
           new == Assigned(row, ChildOf(j))
           kind == IF j.method \in Kinds THEN j.method ELSE "none"
           status == IF j.method \in Kinds THEN j.status ELSE "none"
<1>1. row \in ChildRow  OBVIOUS
<1>2. ChildOf(j) = [kind |-> kind, status |-> status]
  BY DEF ChildOf, PelecardRow, OfflineRow, HelpHaverRow, NoChildRow, Job, Methods, Kinds
<1>3. DOMAIN row = {"kind", "status"} /\ DOMAIN ChildOf(j) = {"kind", "status"}
  BY <1>1, <1>2 DEF ChildRow
<1>4. new.kind = kind /\ new.status = status  BY <1>2, <1>3 DEF Assigned
<1>5. new = [kind |-> kind, status |-> status]  BY <1>1, <1>4, ChildColumns
<1>6. new \in ChildRow  BY <1>5 DEF ChildRow, Job
<1>7. QED  BY <1>4, <1>6 DEF SetChild

(* A report or an edit does not move a child row to another table.          *)
LEMMA ChildWritten ==
    ASSUME child \in [Payments -> ChildRow], NEW p \in Payments,
           \/ \E j \in Job : SetChild(p, ReportedChild(j))
           \/ \E m \in Kinds, s \in Status : SetChild(p, EditOf(m, s))
    PROVE  child' \in [Payments -> ChildRow] /\ \A q \in Payments : child'[q].kind = child[q].kind
<1> DEFINE row == child[p]
<1>1. row \in ChildRow  OBVIOUS
<1>2. DOMAIN row = {"kind", "status"}  BY <1>1 DEF ChildRow
<1>3. PICK s \in Status : SetChild(p, [status |-> s])
  <2>1. \A j \in Job : ReportedChild(j) \in {[status |-> "success"], [status |-> "failed"]}
    BY DEF ReportedChild
  <2>2. \A m \in Kinds, s \in Status : EditOf(m, s) = [status |-> s]
    BY DEF EditOf, Kinds, PelecardEdit, OfflineEdit, HelpHaverEdit
  <2>3. "success" \in Status /\ "failed" \in Status  BY DEF Status
  <2>4. QED  BY <2>1, <2>2, <2>3
<1> DEFINE columns == [status |-> s]
           new == Assigned(row, columns)
<1>4. new.kind = row.kind /\ new.status = s  BY <1>2 DEF Assigned
<1>5. new \in ChildRow  BY <1>1, <1>4, ChildColumns DEF ChildRow
<1>6. QED  BY <1>3, <1>4, <1>5 DEF SetChild

-----------------------------------------------------------------------------
(* The types, and the rows the requests point to.                           *)

(* A step that hands out no order and no payment.                           *)
NoNewRows ==
    /\ \A o \in Orders : /\ orders'[o].membership = orders[o].membership \/ o \in patched'
                         /\ orders'[o].status = "none" <=> orders[o].status = "none"
    /\ \A p \in Payments : /\ payments'[p].order = payments[p].order
                           /\ payments'[p].priced = payments[p].priced
                           /\ payments'[p].status = "none" <=> payments[p].status = "none"
                           /\ payments[p].status = "none" =>
                                 /\ payments'[p] = payments[p]
                                 /\ child'[p].kind = child[p].kind
                                 /\ p \in transactions' => p \in transactions
    /\ transactions \subseteq transactions'

(* A report, an edit or a new card begins; any request goes on.             *)
Begins(r) ==
    /\ Idle(r)
    /\ \A s \in Requests \ {r} : job'[s] = job[s]
    /\ job'[r].op \in {"paid", "edit", "token"} /\ Shape(job'[r])
    /\ orders[job'[r].order].status # "none"
    /\ HasPay(job'[r]) => /\ payments[job'[r].pay].order = job'[r].order
                          /\ payments[job'[r].pay].status # "none"

GoesOn(r) ==
    /\ ~Idle(r)
    /\ \A s \in Requests \ {r} : job'[s] = job[s]
    /\ job'[r].op = job[r].op /\ job'[r].order = job[r].order /\ job'[r].pay = job[r].pay
    /\ HasPay(job'[r]) <=> HasPay(job[r])
    /\ job'[r].at = "page" => job'[r].pay \in transactions'
    /\ Shape(job'[r])

Quiet == NoNewRows /\ (job' = job \/ \E r \in Requests : Answer(r) \/ Begins(r) \/ GoesOn(r))

LEMMA IdleShape ==
    /\ IdleJob \in Job /\ Shape(IdleJob) /\ ~Making(IdleJob) /\ ~Settling(IdleJob) /\ ~HasPay(IdleJob)
    /\ IdleJob.op = "none" /\ IdleJob.order = NoOrder /\ IdleJob.at = "none"
BY DEF IdleJob, Job, Shape, Making, HasPay, Settling, Methods, Kinds, Status

LEMMA QuietStep ==
    ASSUME SoundInv, TypeOK', Quiet
    PROVE  SoundInv'
<1>0. NoNewRows  BY DEF Quiet
<1>1. RowsSound'  BY <1>0 DEF SoundInv, RowsSound, NoNewRows
<1>2. \A s \in Requests : job'[s] = job[s] \/ job'[s] = IdleJob \/ Begins(s) \/ GoesOn(s)
  BY DEF SoundInv, TypeOK, Answer, Quiet, Begins, GoesOn
<1>3. \A s \in Requests : Making(job'[s]) =>
         Making(job[s]) /\ job'[s].order = job[s].order /\ (HasPay(job'[s]) <=> HasPay(job[s]))
  BY <1>2, IdleShape DEF Making, Begins, GoesOn
<1>4. ASSUME NEW s \in Requests
      PROVE  /\ Shape(job'[s])
             /\ job'[s].op # "none" => orders'[job'[s].order].status # "none"
             /\ HasPay(job'[s]) => /\ payments'[job'[s].pay].order = job'[s].order
                                   /\ payments'[job'[s].pay].status # "none"
             /\ job'[s].at = "page" => job'[s].pay \in transactions'
  <2>0. JobsSound  BY DEF SoundInv
  <2>1. CASE job'[s] = job[s]
    BY <1>0, <2>0, <2>1 DEF JobsSound, Shape, NoNewRows, Idle
  <2>2. CASE job'[s] = IdleJob  BY <2>2, IdleShape
  <2>3. CASE Begins(s)
    BY <1>0, <2>0, <2>3 DEF Begins, Shape, NoNewRows
  <2>4. CASE GoesOn(s)
    BY <1>0, <2>0, <2>4 DEF JobsSound, GoesOn, Shape, NoNewRows, Idle
  <2>5. QED  BY <1>2, <2>1, <2>2, <2>3, <2>4
<1>5. JobsSound'  BY <1>4 DEF JobsSound, Idle
<1>6. OneMaker'
  BY <1>0, <1>3 DEF SoundInv, OneMaker, NoNewRows, PaymentsOf
<1>7. QED  BY <1>1, <1>5, <1>6 DEF SoundInv

LEMMA QuietRequests ==
    ASSUME SoundInv, NEW r \in Requests,
           ReportPaid(r) \/ BeginEdit(r) \/ CreateCard(r) \/ Cut(r)
    PROVE  TypeOK' /\ Quiet
<1> USE DEF TypeOK, SoundInv
<1>t. TypeOK  OBVIOUS
<1>1. CASE ReportPaid(r)
  <2>1. PICK p \in Payments, ok \in BOOLEAN :
           /\ payments[p].status # "none"
           /\ Enter(r, [IdleJob EXCEPT !.op = "paid", !.at = "read", !.pay = p, !.ok = ok,
                                       !.order = payments[p].order])
    BY <1>1 DEF ReportPaid
  <2> DEFINE j == [IdleJob EXCEPT !.op = "paid", !.at = "read", !.pay = p, !.ok = ok,
                                  !.order = payments[p].order]
  <2>2. payments[p].status # "none" /\ payments[p].order \in Orders
        /\ orders[payments[p].order].status # "none"
    BY <2>1 DEF RowsSound
  <2>3. j \in Job /\ Shape(j)  BY <2>2 DEF Job, IdleJob, Shape, HasPay, Settling, Making, Methods, Kinds, Status
  <2>4. job' = [job EXCEPT ![r] = j] /\ Idle(r) /\ crossed' \subseteq crossed \cup {payments[p].order}
    BY <2>1, <2>2 DEF Enter, IdleJob
  <2>5. Begins(r)  BY <2>2, <2>3, <2>4 DEF Begins, IdleJob
  <2>6. NoNewRows  BY <1>1 DEF ReportPaid, NoNewRows, tables
  <2>7. TypeOK'  BY <1>1, <2>2, <2>3, <2>4 DEF ReportPaid, tables
  <2>8. QED  BY <2>5, <2>6, <2>7 DEF Quiet
<1>2. CASE BeginEdit(r)
  <2>1. PICK p \in Payments, method \in Kinds, status \in EditStatuses, restrict \in BOOLEAN :
           /\ child[p].kind = method
           /\ SetChild(p, EditOf(method, status))
           /\ Enter(r, [IdleJob EXCEPT !.op = "edit", !.at = "payment", !.pay = p,
                          !.order = payments[p].order, !.status = status, !.restrict = restrict])
    BY <1>2 DEF BeginEdit
  <2> DEFINE j == [IdleJob EXCEPT !.op = "edit", !.at = "payment", !.pay = p,
                     !.order = payments[p].order, !.status = status, !.restrict = restrict]
  <2>2. payments[p].status # "none" /\ payments[p].order \in Orders
        /\ orders[payments[p].order].status # "none"
    BY <2>1 DEF RowsSound, Kinds
  <2>3. status \in Status  BY CheckoutAssumption DEF Status
  <2>4. j \in Job /\ Shape(j)
    BY <2>2, <2>3 DEF Job, IdleJob, Shape, HasPay, Settling, Making, Methods, Kinds
  <2>5. job' = [job EXCEPT ![r] = j] /\ Idle(r) /\ crossed' \subseteq crossed \cup {payments[p].order}
    BY <2>1, <2>2 DEF Enter, IdleJob
  <2>6. Begins(r)  BY <2>2, <2>4, <2>5 DEF Begins, IdleJob
  <2>7. child' \in [Payments -> ChildRow] /\ \A q \in Payments : child'[q].kind = child[q].kind
    BY <2>1, <2>3, ChildWritten
  <2>8. NoNewRows  BY <1>2, <2>7 DEF BeginEdit, NoNewRows
  <2>9. TypeOK'  BY <1>2, <2>2, <2>4, <2>5, <2>7 DEF BeginEdit
  <2>10. QED  BY <2>6, <2>8, <2>9 DEF Quiet
<1>3. CASE CreateCard(r)
  <2>1. PICK o \in Orders, c \in Cards :
           /\ Idle(r) /\ orders[o].status # "none"
           /\ cards' = [cards EXCEPT ![c] = "active"]
           /\ job' = [job EXCEPT ![r] = [IdleJob EXCEPT !.op = "token", !.at = "card",
                                                        !.order = o, !.card = c]]
    BY <1>3 DEF CreateCard
  <2> DEFINE j == [IdleJob EXCEPT !.op = "token", !.at = "card", !.order = o, !.card = c]
  <2>2. j \in Job /\ Shape(j)  BY DEF Job, IdleJob, Shape, HasPay, Settling, Making, Methods, Kinds, Status
  <2>3. Begins(r)  BY <2>1, <2>2 DEF Begins, IdleJob, HasPay, Settling, Making
  <2>4. NoNewRows  BY <1>3 DEF CreateCard, NoNewRows
  <2>5. TypeOK'  BY <1>3, <2>1, <2>2 DEF CreateCard
  <2>6. QED  BY <2>3, <2>4, <2>5 DEF Quiet
<1>4. CASE Cut(r)
  <2>1. job[r].order \in Orders  BY <1>4 DEF Cut, JobsSound, Shape, Idle
  <2>2. TypeOK' /\ NoNewRows  BY <1>4, <2>1, IdleShape DEF Cut, Answer, NoNewRows, tables
  <2>3. QED  BY <1>4, <2>2 DEF Quiet, Cut
<1>5. QED  BY <1>1, <1>2, <1>3, <1>4

LEMMA QuietPurchase ==
    ASSUME SoundInv, NEW r \in Requests,
           \/ EnforceCheckoutPrice(r) \/ CreateChildPayment(r)
           \/ CreateTransaction(r) \/ OpenPage(r) \/ NoPage(r)
    PROVE  TypeOK' /\ Quiet
<1> USE DEF TypeOK, SoundInv
<1>t. TypeOK /\ job[r] \in Job /\ Shape(job[r])  BY DEF JobsSound
<1>1. CASE EnforceCheckoutPrice(r)
  <2>1. TypeOK' /\ NoNewRows
    BY <1>1, <1>t DEF EnforceCheckoutPrice, NoNewRows, Job, tables, history
  <2>2. GoesOn(r)
    BY <1>1, <1>t DEF EnforceCheckoutPrice, GoesOn, At, Idle, Shape, HasPay, Settling, Making, Job
  <2>3. QED  BY <2>1, <2>2 DEF Quiet
<1>2. CASE CreateChildPayment(r)
  <2>1. Making(job[r]) /\ HasPay(job[r]) /\ job[r].pay \in Payments /\ ~Idle(r)
    BY <1>2, <1>t DEF CreateChildPayment, Making, HasPay, Shape, Idle
  <2>2. payments[job[r].pay].status # "none"  BY <2>1 DEF JobsSound
  <2>3. /\ \A q \in Payments \ {job[r].pay} : child'[q] = child[q]
        /\ child' \in [Payments -> ChildRow]
    BY <1>2, <1>t, <2>1, ChildInserted DEF CreateChildPayment
  <2>4. TypeOK' /\ NoNewRows
    BY <1>2, <1>t, <2>2, <2>3, IdleShape DEF CreateChildPayment, NoNewRows, Goto, Answer, Job, history
  <2>5. Answer(r) \/ GoesOn(r)
    BY <1>2, <1>t, <2>1 DEF CreateChildPayment, Goto, GoesOn, Shape, HasPay, Settling, Making, Job
  <2>6. QED  BY <2>4, <2>5 DEF Quiet
<1>3. CASE CreateTransaction(r)
  <2>1. Making(job[r]) /\ HasPay(job[r]) /\ job[r].pay \in Payments /\ ~Idle(r)
    BY <1>3, <1>t DEF CreateTransaction, At, Making, HasPay, Shape, Idle
  <2>2. payments[job[r].pay].status # "none"  BY <2>1 DEF JobsSound
  <2>3. transactions' = transactions \cup {job[r].pay}
    BY <1>3 DEF CreateTransaction, InsertTransaction
  <2>4. NoNewRows  BY <1>3, <2>2, <2>3 DEF CreateTransaction, NoNewRows
  <2>5. TypeOK'
    <3>1. job' \in [Requests -> Job]
      BY <1>3, <1>t, IdleShape DEF CreateTransaction, Goto, Answer, Job
    <3>2. QED  BY <1>3, <1>t, <2>1, <2>3, <3>1 DEF CreateTransaction, history
  <2>6. Answer(r) \/ GoesOn(r)
    BY <1>3, <1>t, <2>1, <2>3
    DEF CreateTransaction, At, Goto, GoesOn, Shape, HasPay, Settling, Making, Job
  <2>7. QED  BY <2>4, <2>5, <2>6 DEF Quiet
<1>4. CASE OpenPage(r) \/ NoPage(r)
  <2>1. job[r].pay \in transactions  BY <1>4 DEF OpenPage, NoPage, At, JobsSound
  <2>2. TypeOK' /\ NoNewRows
    BY <1>4, <1>t, <2>1, IdleShape DEF OpenPage, NoPage, Answer, NoNewRows, tables, history
  <2>3. QED  BY <1>4, <2>2 DEF Quiet, OpenPage, NoPage
<1>5. QED  BY <1>1, <1>2, <1>3, <1>4

LEMMA QuietSettling ==
    ASSUME SoundInv, NEW r \in Requests,
           \/ ReadPayment(r) \/ UpdatePayment(r) \/ UpdatePelecard(r) \/ UpdateOrderAfterPayment(r)
           \/ UpdateParentPayment(r) \/ UpdateOrderStatus(r) \/ AttachCard(r)
    PROVE  TypeOK' /\ Quiet
<1> USE DEF TypeOK, SoundInv
<1>t. /\ TypeOK /\ job[r] \in Job /\ Shape(job[r])
      /\ ~Idle(r) => job[r].order \in Orders /\ orders[job[r].order].status # "none"
      /\ Settling(job[r]) =>
            /\ job[r].pay \in Payments
            /\ payments[job[r].pay].status # "none"
            /\ HasPay(job[r])
  BY DEF JobsSound, HasPay, Shape, Idle
<1>1. CASE ReadPayment(r)
  <2>1. TypeOK' /\ NoNewRows
    BY <1>1, <1>t DEF ReadPayment, At, Settling, NoNewRows, Job, PaymentRow, tables, history
  <2>2. GoesOn(r)
    BY <1>1, <1>t DEF ReadPayment, GoesOn, At, Idle, Shape, HasPay, Settling, Making, Job
  <2>3. QED  BY <2>1, <2>2 DEF Quiet
<1>2. CASE UpdatePayment(r)
  <2>1. Settling(job[r])  BY <1>2 DEF UpdatePayment, At, Settling
  <2>2. /\ payments' \in [Payments -> PaymentRow]
        /\ \A p \in Payments : /\ payments'[p].order = payments[p].order
                               /\ payments'[p].priced = payments[p].priced
                               /\ payments'[p] # payments[p] =>
                                     p = job[r].pay /\ payments'[p].status \in {"success", "failed"}
    <3>1. PICK token \in BOOLEAN : SetPayment(job[r].pay, ReportedColumns(job[r], token))
      BY <1>2 DEF UpdatePayment
    <3> DEFINE row == [order |-> payments[job[r].pay].order,
                       status |-> IF job[r].ok THEN "success" ELSE "failed",
                       success |-> job[r].ok \/ job[r].success \/ payments[job[r].pay].success,
                       token |-> (job[r].ok /\ token) \/ payments[job[r].pay].token,
                       priced |-> payments[job[r].pay].priced]
    <3>2. payments' = [payments EXCEPT ![job[r].pay] = row] /\ payments' \in [Payments -> PaymentRow]
      BY <1>t, <2>1, <3>1, PaymentReported
    <3>3. /\ row.order = payments[job[r].pay].order /\ row.priced = payments[job[r].pay].priced
          /\ row.status \in {"success", "failed"}
      OBVIOUS
    <3> HIDE DEF row
    <3>4. QED  BY <1>t, <2>1, <3>2, <3>3
  <2>3. NoNewRows  BY <1>2, <1>t, <2>1, <2>2 DEF UpdatePayment, NoNewRows
  <2>4. TypeOK'  BY <1>2, <1>t, <2>1, <2>2 DEF UpdatePayment, Goto, Job
  <2>5. GoesOn(r)
    BY <1>2, <1>t DEF UpdatePayment, Goto, GoesOn, At, Idle, Shape, HasPay, Settling, Making, Job
  <2>6. QED  BY <2>3, <2>4, <2>5 DEF Quiet
<1>3. CASE UpdatePelecard(r)
  <2>1. Settling(job[r])  BY <1>3 DEF UpdatePelecard, At, Settling
  <2>2. child' \in [Payments -> ChildRow] /\ \A q \in Payments : child'[q].kind = child[q].kind
    BY <1>3, <1>t, <2>1, ChildWritten DEF UpdatePelecard
  <2>3. NoNewRows  BY <1>3, <2>2 DEF UpdatePelecard, NoNewRows
  <2>4. TypeOK'  BY <1>3, <1>t, <2>1, <2>2 DEF UpdatePelecard, Goto, Job, history
  <2>5. GoesOn(r)
    BY <1>3, <1>t DEF UpdatePelecard, Goto, GoesOn, At, Idle, Shape, HasPay, Settling, Making, Job
  <2>6. QED  BY <2>3, <2>4, <2>5 DEF Quiet
<1>4. CASE UpdateOrderAfterPayment(r) \/ UpdateOrderStatus(r)
  <2>1. PICK s \in Status \ {"none"} : SetOrder(job[r].order, [status |-> s])
    BY <1>4, <1>t
    DEF UpdateOrderAfterPayment, UpdateOrderStatus, OrderStatusAfter, Job, Status
  <2>2. ~Idle(r)  BY <1>4 DEF UpdateOrderAfterPayment, UpdateOrderStatus, At, Idle
  <2>3. /\ orders' \in [Orders -> OrderRow]
        /\ orders' = [orders EXCEPT ![job[r].order].status = s]
    BY <1>t, <2>1, <2>2, OrderSettled
  <2>4. NoNewRows
    BY <1>4, <1>t, <2>2, <2>3 DEF UpdateOrderAfterPayment, UpdateOrderStatus, NoNewRows, OrderRow
  <2>5. TypeOK'
    BY <1>4, <1>t, <2>3, IdleShape DEF UpdateOrderAfterPayment, UpdateOrderStatus, Answer, history
  <2>6. QED  BY <1>4, <2>4, <2>5 DEF Quiet, UpdateOrderAfterPayment, UpdateOrderStatus
<1>5. CASE UpdateParentPayment(r)
  <2>1. Settling(job[r]) /\ ~Idle(r)  BY <1>5 DEF UpdateParentPayment, At, Settling, Idle
  <2>2. /\ payments' \in [Payments -> PaymentRow]
        /\ payments' = [payments EXCEPT ![job[r].pay].status = job[r].status]
    BY <1>5, <1>t, <2>1, PaymentEdited DEF UpdateParentPayment, Job
  <2>3. job[r].status # "none"  BY <1>t DEF Job, Status
  <2>4. NoNewRows  BY <1>5, <1>t, <2>1, <2>2, <2>3 DEF UpdateParentPayment, NoNewRows, PaymentRow
  <2>5. TypeOK'
    BY <1>5, <1>t, <2>1, <2>2, IdleShape DEF UpdateParentPayment, Goto, Answer, Job
  <2>6. Answer(r) \/ GoesOn(r)
    BY <1>5, <1>t, <2>1 DEF UpdateParentPayment, Goto, GoesOn, At, Shape, HasPay, Settling, Making, Job
  <2>7. QED  BY <2>4, <2>5, <2>6 DEF Quiet
<1>6. CASE AttachCard(r)
  <2>1. ~Idle(r)  BY <1>6 DEF AttachCard, At, Idle
  <2>2. /\ orders' \in [Orders -> OrderRow]
        /\ orders' = [orders EXCEPT ![job[r].order].card = job[r].card]
    BY <1>6, <1>t, <2>1, OrderPointed DEF AttachCard, Job
  <2>3. NoNewRows  BY <1>6, <1>t, <2>1, <2>2 DEF AttachCard, NoNewRows, OrderRow
  <2>4. TypeOK'  BY <1>6, <1>t, <2>2, IdleShape DEF AttachCard, Answer, history
  <2>5. QED  BY <1>6, <2>3, <2>4 DEF Quiet, AttachCard
<1>7. QED  BY <1>1, <1>2, <1>3, <1>4, <1>5, <1>6

LEMMA QuietOutside ==
    ASSUME SoundInv,
           \/ \E o \in Orders : PatchOrderByID(o)
           \/ \E c \in Cards : PatchCardDetailsById(c) \/ SoftDeleteCardDetailById(c)
           \/ UNCHANGED vars
    PROVE  TypeOK' /\ Quiet
<1> USE DEF TypeOK, SoundInv
<1>2. ASSUME NEW o \in Orders, PatchOrderByID(o)  PROVE TypeOK' /\ Quiet
  <2>1. PICK patch \in Patches : SetOrder(o, OrderPatch(patch))
    BY <1>2 DEF PatchOrderByID
  <2>2. /\ orders' \in [Orders -> OrderRow]
        /\ orders'[o].status # "none"
        /\ \A q \in Orders \ {o} : orders'[q] = orders[q]
    BY <2>1, OrderPatched
  <2>3. QED  BY <1>2, <2>2 DEF PatchOrderByID, Quiet, NoNewRows
<1>3. CASE \E c \in Cards : PatchCardDetailsById(c) \/ SoftDeleteCardDetailById(c)
  BY <1>3 DEF PatchCardDetailsById, SoftDeleteCardDetailById, CardPatch, Quiet, NoNewRows, history
<1>4. CASE UNCHANGED vars
  BY <1>4 DEF vars, tables, history, Quiet, NoNewRows
<1>5. QED  BY <1>2, <1>3, <1>4

(* An order is inserted, by the request that will make its payment or by    *)
(* nobody.                                                                  *)
LEMMA OrderStep ==
    ASSUME SoundInv,
           \/ \E r \in Requests : CreateOrderViaTransaction(r) \/ CreateOffline(r)
           \/ \E o \in Orders : CreateV2Order(o)
    PROVE  SoundInv'
<1> USE DEF SoundInv
<1>1. ASSUME NEW o \in Orders, NEW s \in Status \ {"none"}, NEW m \in BOOLEAN,
             InsertOrder(o, NewOrder(s, m)), UNCHANGED <<payments, child, transactions>>, TypeOK',
             \/ job' = job
             \/ \E r \in Requests :
                   /\ Idle(r) /\ Shape(job'[r]) /\ ~HasPay(job'[r])
                   /\ job'[r].order = o /\ job'[r].at # "page"
                   /\ \A t \in Requests \ {r} : job'[t] = job[t]
      PROVE  SoundInv'
  <2>1. /\ orders[o].status = "none" /\ orders'[o].status # "none"
        /\ \A q \in Orders \ {o} : orders'[q] = orders[q]
    BY <1>1, OrderInserted DEF InsertOrder, TypeOK
  <2>2. \A p \in Payments : payments[p].order # o
    BY <2>1, CheckoutAssumption DEF RowsSound, NoPaymentRow
  <2>3. \A t \in Requests : job[t].order # o
    BY <2>1, CheckoutAssumption DEF JobsSound, Shape, Idle, IdleJob
  <2>4. RowsSound'  BY <1>1, <2>1 DEF RowsSound
  <2>5. JobsSound'  BY <1>1, <2>1 DEF JobsSound, Idle, Shape
  <2>6. OneMaker'  BY <1>1, <2>2, <2>3 DEF OneMaker, PaymentsOf
  <2>7. QED  BY <1>1, <2>4, <2>5, <2>6
<1>2. ASSUME NEW r \in Requests, CreateOrderViaTransaction(r)  PROVE SoundInv'
  <2>1. PICK o \in Orders, membership \in BOOLEAN, method \in Methods :
           /\ InsertOrder(o, NewOrder("pending", membership))
           /\ Enter(r, [IdleJob EXCEPT !.op = "checkout", !.order = o, !.method = method,
                          !.at = IF checkoutPriceEnforced(membership, method)
                                 THEN "price" ELSE "payment"])
    BY <1>2 DEF CreateOrderViaTransaction
  <2> DEFINE j == [IdleJob EXCEPT !.op = "checkout", !.order = o, !.method = method,
                     !.at = IF checkoutPriceEnforced(membership, method)
                            THEN "price" ELSE "payment"]
  <2>2. j \in Job /\ Shape(j) /\ ~HasPay(j) /\ j.order = o /\ j.at # "page"
    BY DEF Job, IdleJob, Shape, HasPay, Settling, Making, Methods, Kinds, Status
  <2>3. Idle(r) /\ job' = [job EXCEPT ![r] = j] /\ crossed' \subseteq crossed \cup {o}
    BY <2>1, <2>2 DEF Enter
  <2>4. "pending" \in Status \ {"none"}  BY DEF Status
  <2>5. orders' \in [Orders -> OrderRow]  BY <2>1, <2>4, OrderInserted DEF InsertOrder, TypeOK
  <2>6. TypeOK'  BY <1>2, <2>2, <2>3, <2>5 DEF TypeOK, CreateOrderViaTransaction
  <2>7. QED  BY <1>1, <1>2, <2>1, <2>2, <2>3, <2>4, <2>6 DEF TypeOK, CreateOrderViaTransaction
<1>3. ASSUME NEW r \in Requests, CreateOffline(r)  PROVE SoundInv'
  <2>1. PICK o \in Orders :
           /\ InsertOrder(o, NewOrder("paid", TRUE))
           /\ Enter(r, [IdleJob EXCEPT !.op = "offline", !.at = "payment", !.order = o,
                                       !.method = "offline", !.status = "success"])
           /\ edited' = edited \cup {o}
    BY <1>3 DEF CreateOffline
  <2> DEFINE j == [IdleJob EXCEPT !.op = "offline", !.at = "payment", !.order = o,
                                  !.method = "offline", !.status = "success"]
  <2>2. j \in Job /\ Shape(j) /\ ~HasPay(j) /\ j.order = o /\ j.at # "page"
    BY DEF Job, IdleJob, Shape, HasPay, Settling, Making, Methods, Kinds, Status
  <2>3. Idle(r) /\ job' = [job EXCEPT ![r] = j] /\ crossed' \subseteq crossed \cup {o}
    BY <2>1, <2>2 DEF Enter
  <2>4. "paid" \in Status \ {"none"}  BY DEF Status
  <2>5. orders' \in [Orders -> OrderRow]  BY <2>1, <2>4, OrderInserted DEF InsertOrder, TypeOK
  <2>6. TypeOK'  BY <1>3, <2>1, <2>2, <2>3, <2>5 DEF TypeOK, CreateOffline
  <2>7. QED  BY <1>1, <1>3, <2>1, <2>2, <2>3, <2>4, <2>6 DEF TypeOK, CreateOffline
<1>4. ASSUME NEW o \in Orders, CreateV2Order(o)  PROVE SoundInv'
  <2>1. PICK patch \in Patches : InsertOrder(o, NewOrder(patch.status, patch.membership))
    BY <1>4 DEF CreateV2Order
  <2>2. patch.status \in Status \ {"none"} /\ patch.membership \in BOOLEAN
    BY CheckoutAssumption DEF Status
  <2>3. orders' \in [Orders -> OrderRow]  BY <2>1, <2>2, OrderInserted DEF InsertOrder, TypeOK
  <2>4. TypeOK'  BY <1>4, <2>3 DEF TypeOK, CreateV2Order
  <2>5. QED  BY <1>1, <1>4, <2>1, <2>2, <2>4 DEF CreateV2Order
<1>5. QED  BY <1>2, <1>3, <1>4

(* A payment is inserted, once for the request that made the order.         *)
LEMMA PaymentStep ==
    ASSUME SoundInv, NEW r \in Requests, CreatePayment(r)
    PROVE  /\ SoundInv'
           /\ \E p \in Payments :
                 /\ payments[p] = NoPaymentRow
                 /\ payments' = [payments EXCEPT ![p] =
                       [order |-> job[r].order, status |-> job[r].status,
                        success |-> FALSE, token |-> FALSE, priced |-> job[r].priced]]
                 /\ job' = [job EXCEPT ![r].at = "child", ![r].pay = p]
<1> USE DEF SoundInv
<1>1. PICK p \in Payments :
         /\ payments[p].status = "none"
         /\ SetPayment(p, NewPayment(job[r]))
         /\ job' = [job EXCEPT ![r].at = "child", ![r].pay = p]
  BY DEF CreatePayment
<1>2. payments[p] = NoPaymentRow /\ job[r] \in Job /\ Shape(job[r])
  BY <1>1 DEF RowsSound, TypeOK, JobsSound
<1>3. /\ payments' = [payments EXCEPT ![p] =
            [order |-> job[r].order, status |-> job[r].status,
             success |-> FALSE, token |-> FALSE, priced |-> job[r].priced]]
      /\ payments' \in [Payments -> PaymentRow]
  BY <1>1, <1>2, PaymentInserted DEF TypeOK
<1>4. /\ Making(job[r]) /\ ~HasPay(job[r]) /\ job[r].order \in Orders
      /\ orders[job[r].order].status # "none"
      /\ job[r].status # "none"
  BY <1>2 DEF CreatePayment, Making, HasPay, Settling, Shape, JobsSound, Idle, Job, Status
<1>5. /\ job'[r] = [job[r] EXCEPT !.at = "child", !.pay = p]
      /\ job'[r] \in Job
      /\ Making(job'[r]) /\ HasPay(job'[r]) /\ Shape(job'[r])
      /\ \A s \in Requests \ {r} : job'[s] = job[s]
  <2>1. job'[r] = [job[r] EXCEPT !.at = "child", !.pay = p] /\ job'[r] \in Job
        /\ \A s \in Requests \ {r} : job'[s] = job[s]
    BY <1>1, <1>2 DEF TypeOK, Job
  <2>2. Making(job'[r]) /\ HasPay(job'[r])  BY <1>2, <1>4, <2>1 DEF Making, HasPay, Job
  <2>3. Shape(job'[r])
    BY <1>2, <1>4, <2>1, <2>2 DEF Shape, Making, Job, CreatePayment
  <2>4. QED  BY <2>1, <2>2, <2>3
<1>6. TypeOK'  BY <1>3, <1>5 DEF TypeOK, CreatePayment, history
<1>7. RowsSound'  BY <1>3, <1>4 DEF RowsSound, CreatePayment
<1>8. JobsSound'
  <2>1. ASSUME NEW s \in Requests \ {r}, HasPay(job[s])  PROVE job[s].pay # p
    BY <1>1, <2>1 DEF JobsSound
  <2>2. job'[r].order = job[r].order /\ job'[r].pay = p /\ job'[r].at = "child"
    BY <1>2, <1>5 DEF Job
  <2>3. UNCHANGED <<orders, transactions>>  BY DEF CreatePayment
  <2>4. ASSUME NEW s \in Requests \ {r}
        PROVE  /\ Shape(job'[s])
               /\ job'[s].op # "none" => orders'[job'[s].order].status # "none"
               /\ HasPay(job'[s]) => /\ payments'[job'[s].pay].order = job'[s].order
                                     /\ payments'[job'[s].pay].status # "none"
               /\ job'[s].at = "page" => job'[s].pay \in transactions'
    <3>1. job'[s] = job[s]  BY <1>5
    <3>2. HasPay(job[s]) => payments'[job[s].pay] = payments[job[s].pay]
      BY <1>3, <2>1 DEF JobsSound, Shape
    <3>3. QED  BY <2>3, <3>1, <3>2 DEF JobsSound, Idle
  <2>5. QED  BY <1>3, <1>4, <1>5, <2>2, <2>3, <2>4 DEF JobsSound, Idle, TypeOK
<1>9. OneMaker'
  <2>1. \A q \in Payments : payments[q].order # job[r].order
    BY <1>4 DEF OneMaker, PaymentsOf
  <2>2. \A s \in Requests \ {r} : Making(job[s]) => job[s].order # job[r].order
    BY <1>4 DEF OneMaker
  <2>3. job'[r].order = job[r].order  BY <1>2, <1>5 DEF Job
  <2>4. \A q, s \in Payments : payments'[q].order = payments'[s].order /\ payments'[q].order # NoOrder
                                 => q = s
    BY <1>3, <2>1 DEF OneMaker
  <2>5. \A s \in Requests : Making(job'[s]) /\ ~HasPay(job'[s])
                               => \A q \in Payments : payments'[q].order # job'[s].order
    BY <1>3, <1>5, <2>2 DEF OneMaker, PaymentsOf
  <2>6. \A s, t \in Requests :
           Making(job'[s]) /\ Making(job'[t]) /\ job'[s].order = job'[t].order => s = t
    BY <1>4, <1>5, <2>3 DEF OneMaker
  <2>7. QED  BY <2>4, <2>5, <2>6 DEF OneMaker, PaymentsOf
<1>10. QED  BY <1>1, <1>2, <1>3, <1>6, <1>7, <1>8, <1>9

LEMMA SoundInit == Init => SoundInv
BY CheckoutAssumption, IdleShape
DEF Init, SoundInv, TypeOK, RowsSound, JobsSound, OneMaker, Idle, NoOrderRow, NoPaymentRow, NoChildRow,
    OrderRow, PaymentRow, ChildRow, Methods, PaymentsOf

LEMMA SoundNext == SoundInv /\ [Next]_vars => SoundInv'
<1> SUFFICES ASSUME SoundInv, [Next]_vars  PROVE SoundInv'  OBVIOUS
<1>1. CASE \E r \in Requests : ReportPaid(r) \/ BeginEdit(r) \/ CreateCard(r) \/ Cut(r)
  BY <1>1, QuietRequests, QuietStep
<1>2. CASE \E r \in Requests : CreateOrderViaTransaction(r) \/ CreateOffline(r)
  BY <1>2, OrderStep
<1>3. CASE \E r \in Requests : Handler(r)
  BY <1>3, QuietPurchase, QuietSettling, PaymentStep, QuietStep DEF Handler
<1>4. CASE \E o \in Orders : CreateV2Order(o)  BY <1>4, OrderStep
<1>5. CASE \/ \E o \in Orders : PatchOrderByID(o)
           \/ \E c \in Cards : PatchCardDetailsById(c) \/ SoftDeleteCardDetailById(c)
           \/ UNCHANGED vars
  BY <1>5, QuietOutside, QuietStep
<1>6. QED  BY <1>1, <1>2, <1>3, <1>4, <1>5 DEF Next

LEMMA SoundAlways == Spec => []SoundInv
BY SoundInit, SoundNext, PTL DEF Spec

(* Every reachable state is well typed (handleTransactionOrderAndPay,       *)
(* handleTransactionPaid, handlePaymentUpdate and what else writes their    *)
(* rows).                                                                   *)
THEOREM CheckoutTypeCorrect == Spec => []TypeOK
<1>1. SoundInv => TypeOK  BY DEF SoundInv
<1>2. QED  BY <1>1, SoundAlways, PTL

-----------------------------------------------------------------------------
(* The gateway's yes.                                                       *)

(* What the two UPDATEs of the payments table write.                        *)
LEMMA ReportWrites ==
    ASSUME SoundInv, NEW r \in Requests, UpdatePayment(r)
    PROVE  /\ job[r].pay \in Payments
           /\ \A q \in Payments : q # job[r].pay => payments'[q] = payments[q]
           /\ payments'[job[r].pay].order = payments[job[r].pay].order
           /\ payments'[job[r].pay].status = IF job[r].ok THEN "success" ELSE "failed"
           /\ payments'[job[r].pay].success = (job[r].ok \/ job[r].success \/ payments[job[r].pay].success)
           /\ payments[job[r].pay].token => payments'[job[r].pay].token
           /\ job[r].pay \in brought' => job[r].pay \in brought \/ payments'[job[r].pay].token
           /\ \A q \in Payments \ {job[r].pay} : q \in brought' => q \in brought
           /\ payments'[job[r].pay].priced = payments[job[r].pay].priced
<1> DEFINE p == job[r].pay
<1>0. PICK token \in BOOLEAN :
         /\ SetPayment(p, ReportedColumns(job[r], token))
         /\ brought' = brought \cup {q \in {p} : job[r].ok /\ token}
  BY DEF UpdatePayment
<1>1. job[r] \in Job /\ p \in Payments /\ payments \in [Payments -> PaymentRow]
  BY DEF SoundInv, TypeOK, JobsSound, Shape, HasPay, Settling, UpdatePayment, At
<1> DEFINE row == [order |-> payments[p].order,
                   status |-> IF job[r].ok THEN "success" ELSE "failed",
                   success |-> job[r].ok \/ job[r].success \/ payments[p].success,
                   token |-> (job[r].ok /\ token) \/ payments[p].token, priced |-> payments[p].priced]
<1>2. payments' = [payments EXCEPT ![p] = row]
  BY <1>0, <1>1, PaymentReported
<1>3. payments'[p] = row /\ \A q \in Payments : q # p => payments'[q] = payments[q]
  BY <1>1, <1>2
<1>4. /\ row.order = payments[p].order
      /\ row.status = IF job[r].ok THEN "success" ELSE "failed"
      /\ row.success = (job[r].ok \/ job[r].success \/ payments[p].success)
      /\ row.token = ((job[r].ok /\ token) \/ payments[p].token)
      /\ row.priced = payments[p].priced
  OBVIOUS
<1>5. /\ p \in brought' => p \in brought \/ (job[r].ok /\ token)
      /\ \A q \in Payments \ {p} : q \in brought' => q \in brought
  BY <1>0
<1> HIDE DEF row
<1>6. /\ payments[p].token => payments'[p].token
      /\ p \in brought' => p \in brought \/ payments'[p].token
  BY <1>3, <1>4, <1>5
<1>7. QED  BY <1>1, <1>3, <1>4, <1>5, <1>6

LEMMA EditWrites ==
    ASSUME SoundInv, NEW r \in Requests, UpdateParentPayment(r)
    PROVE  /\ job[r].pay \in Payments
           /\ payments' = [payments EXCEPT ![job[r].pay].status = job[r].status]
<1>1. job[r] \in Job /\ job[r].pay \in Payments
  BY DEF SoundInv, TypeOK, JobsSound, Shape, HasPay, Settling, UpdateParentPayment, At
<1>2. QED  BY <1>1, PaymentEdited DEF UpdateParentPayment, SoundInv, TypeOK, Job

LEMMA PaymentWriters ==
    ASSUME [Next]_vars
    PROVE  \/ UNCHANGED <<payments, brought>>
           \/ \E r \in Requests : CreatePayment(r) \/ UpdatePayment(r) \/ UpdateParentPayment(r)
<1>1. CASE \E r \in Requests : Handler(r)
  BY <1>1 DEF Handler, EnforceCheckoutPrice, CreateChildPayment, CreateTransaction, OpenPage, NoPage,
              ReadPayment, UpdatePelecard, UpdateOrderAfterPayment, UpdateOrderStatus, AttachCard, tables, history
<1>2. CASE \E r \in Requests :
              \/ CreateOrderViaTransaction(r) \/ ReportPaid(r) \/ BeginEdit(r)
              \/ CreateOffline(r) \/ CreateCard(r) \/ Cut(r)
  BY <1>2 DEF CreateOrderViaTransaction, ReportPaid, BeginEdit, CreateOffline, CreateCard, Cut, tables, history
<1>3. CASE \/ \E o \in Orders : CreateV2Order(o) \/ PatchOrderByID(o)
           \/ \E c \in Cards : PatchCardDetailsById(c) \/ SoftDeleteCardDetailById(c)
  BY <1>3 DEF CreateV2Order, PatchOrderByID, PatchCardDetailsById,
              SoftDeleteCardDetailById, tables, history
<1>4. CASE UNCHANGED vars  BY <1>4 DEF vars, tables, history
<1>5. QED  BY <1>1, <1>2, <1>3, <1>4 DEF Next

(* A success once recorded, and its token, are never taken away: a failure  *)
(* reported later writes the column back that it has read, and no other     *)
(* writer of a payment touches the two (UpdatePayment,                      *)
(* UpdateParentPayment).                                                    *)
THEOREM SuccessesKept == Spec => SuccessKept
<1>1. ASSUME SoundInv, [Next]_vars, NEW p \in Payments
      PROVE  /\ payments[p].success => payments'[p].success
             /\ payments[p].token => payments'[p].token
  <2>0. payments \in [Payments -> PaymentRow] /\ payments[p].success \in BOOLEAN
        /\ payments[p].token \in BOOLEAN
    BY <1>1 DEF SoundInv, TypeOK, PaymentRow
  <2>1. CASE UNCHANGED <<payments, brought>>  BY <2>1
  <2>2. ASSUME NEW r \in Requests, CreatePayment(r)
        PROVE  /\ payments[p].success => payments'[p].success
               /\ payments[p].token => payments'[p].token
    <3>1. payments'[p] = payments[p] \/ payments[p] = NoPaymentRow
      BY <1>1, <2>2, PaymentStep DEF SoundInv, TypeOK
    <3>2. QED  BY <3>1 DEF NoPaymentRow
  <2>3. ASSUME NEW r \in Requests, UpdatePayment(r)
        PROVE  /\ payments[p].success => payments'[p].success
               /\ payments[p].token => payments'[p].token
    <3>1. CASE p = job[r].pay  BY <1>1, <2>0, <2>3, <3>1, ReportWrites
    <3>2. CASE p # job[r].pay  BY <1>1, <2>0, <2>3, <3>2, ReportWrites
    <3>3. QED  BY <3>1, <3>2
  <2>4. ASSUME NEW r \in Requests, UpdateParentPayment(r)
        PROVE  /\ payments[p].success => payments'[p].success
               /\ payments[p].token => payments'[p].token
    BY <1>1, <2>0, <2>4, EditWrites DEF PaymentRow
  <2>5. QED  BY <1>1, <2>1, <2>2, <2>3, <2>4, PaymentWriters
<1>2. SoundInv /\ [Next]_vars =>
         [\A p \in Payments : /\ payments[p].success => payments'[p].success
                              /\ payments[p].token => payments'[p].token]_vars
  BY <1>1
<1>3. QED  BY <1>2, SoundAlways, PTL DEF Spec, SuccessKept

-----------------------------------------------------------------------------
(* The page.                                                                *)

(* A step that leaves the purchases under way alone.                        *)
LEMMA PageQuiet ==
    ASSUME SoundInv, SoundInv', PageInv,
           \A o \in Orders : orders[o].status # "none" =>
              orders'[o].membership = orders[o].membership \/ o \in patched',
           patched \subseteq patched', odd \subseteq odd',
           \A p \in Payments : payments[p].status # "none" =>
              /\ payments'[p].order = payments[p].order
              /\ payments'[p].priced = payments[p].priced
              /\ child'[p].kind = child[p].kind,
           \A p \in Payments : payments'[p].status = "none" <=> payments[p].status = "none",
           transactions \subseteq transactions', opened' = opened,
           \A s \in Requests : Making(job'[s]) => job'[s] = job[s]
    PROVE  PageInv'
<1>1. \A p \in opened : /\ p \in Payments /\ payments[p].status # "none"
                        /\ payments[p].order \in Orders
                        /\ orders[payments[p].order].status # "none"
  BY DEF SoundInv, TypeOK, RowsSound
<1>2. PageOnWholePurchase'  BY <1>1 DEF PageInv, PageOnWholePurchase
<1>3. \A s \in Requests : Making(job[s]) =>
         /\ job[s].order \in Orders /\ orders[job[s].order].status # "none"
         /\ HasPay(job[s]) => job[s].pay \in Payments /\ payments[job[s].pay].status # "none"
  BY DEF SoundInv, JobsSound, Shape, Making, Idle
<1>4. \A s \in Requests : job'[s].at \in {"transaction", "page"} \/ job'[s].op = "checkout" => Making(job'[s])
  <2>1. \A s \in Requests : Shape(job'[s]) /\ job'[s] \in Job  BY DEF SoundInv, JobsSound, TypeOK
  <2>2. QED  BY <2>1 DEF Shape, Making, IdleJob, Job
<1>5. \A s \in Requests : job[s].at \in {"transaction", "page"} /\ Making(job[s]) => HasPay(job[s])
  BY DEF HasPay
<1>6. ASSUME NEW s \in Requests  PROVE WholeSoFar(s)'
  <2>1. CASE Making(job'[s])
    <3>1. job'[s] = job[s] /\ Making(job[s])  BY <2>1
    <3>2. WholeSoFar(s)  BY DEF PageInv, OnTheWay
    <3>3. \/ job[s].order \in patched'
          \/ orders'[job[s].order].membership = orders[job[s].order].membership
      BY <1>3, <3>1
    <3>4. QED  BY <1>3, <1>5, <3>1, <3>2, <3>3 DEF WholeSoFar, checkoutPriceEnforced
  <2>2. CASE ~Making(job'[s])  BY <1>4, <2>2 DEF WholeSoFar
  <2>3. QED  BY <2>1, <2>2
<1>7. ASSUME NEW p \in Payments  PROVE Priced(p)'
  <2>1. CASE payments[p].status # "none"
    <3>1. payments[p].order \in Orders /\ orders[payments[p].order].status # "none"
      BY <2>1 DEF SoundInv, RowsSound
    <3>2. Priced(p)  BY DEF PageInv
    <3>3. QED  BY <2>1, <3>1, <3>2 DEF Priced
  <2>2. CASE payments'[p].status = "none"
    BY <2>2 DEF SoundInv, RowsSound, Priced
  <2>3. QED  BY <2>1, <2>2
<1>8. QED  BY <1>2, <1>6, <1>7 DEF PageInv, OnTheWay

(* What a request that settles a purchase, sells one offline or attaches a  *)
(* card enters with.                                                        *)
LEMMA Arrival ==
    ASSUME TypeOK, NEW r \in Requests
    PROVE  /\ ReportPaid(r) => /\ job'[r].op = "paid" /\ job'[r].at = "read"
                               /\ ~job'[r].success
           /\ BeginEdit(r) => job'[r].op = "edit" /\ job'[r].at = "payment"
           /\ CreateOffline(r) => /\ job'[r].op = "offline" /\ job'[r].at = "payment"
                                  /\ job'[r].order \in edited'
                                  /\ orders'[job'[r].order].status = "paid"
           /\ CreateCard(r) => job'[r].op = "token" /\ job'[r].at = "card"
           /\ ReportPaid(r) \/ BeginEdit(r) \/ CreateOffline(r) \/ CreateCard(r) =>
                 Idle(r) /\ \A s \in Requests \ {r} : job'[s] = job[s]
<1>1. ASSUME NEW j, Enter(r, j)
      PROVE  job'[r] = j /\ Idle(r) /\ \A s \in Requests \ {r} : job'[s] = job[s]
  BY <1>1 DEF Enter, TypeOK
<1>2. ReportPaid(r) => /\ job'[r].op = "paid" /\ job'[r].at = "read" /\ ~job'[r].success
  <2> SUFFICES ASSUME NEW p \in Payments, NEW ok \in BOOLEAN,
                      Enter(r, [IdleJob EXCEPT !.op = "paid", !.at = "read", !.pay = p, !.ok = ok,
                                               !.order = payments[p].order])
               PROVE  job'[r].op = "paid" /\ job'[r].at = "read" /\ ~job'[r].success
    BY DEF ReportPaid
  <2>1. job'[r] = [IdleJob EXCEPT !.op = "paid", !.at = "read", !.pay = p, !.ok = ok,
                                  !.order = payments[p].order]
    BY <1>1
  <2>2. QED  BY <2>1 DEF IdleJob
<1>3. BeginEdit(r) => job'[r].op = "edit" /\ job'[r].at = "payment"
  <2> SUFFICES ASSUME NEW p \in Payments, NEW status \in EditStatuses, NEW restrict \in BOOLEAN,
                      Enter(r, [IdleJob EXCEPT !.op = "edit", !.at = "payment", !.pay = p,
                        !.order = payments[p].order, !.status = status, !.restrict = restrict])
               PROVE  job'[r].op = "edit" /\ job'[r].at = "payment"
    BY DEF BeginEdit
  <2>1. job'[r] = [IdleJob EXCEPT !.op = "edit", !.at = "payment", !.pay = p,
                        !.order = payments[p].order, !.status = status, !.restrict = restrict]
    BY <1>1
  <2>2. QED  BY <2>1 DEF IdleJob
<1>4. CreateOffline(r) => /\ job'[r].op = "offline" /\ job'[r].at = "payment"
                          /\ job'[r].order \in edited' /\ orders'[job'[r].order].status = "paid"
  <2> SUFFICES ASSUME NEW o \in Orders, InsertOrder(o, NewOrder("paid", TRUE)),
                      Enter(r, [IdleJob EXCEPT !.op = "offline", !.at = "payment", !.order = o,
                                               !.method = "offline", !.status = "success"]),
                      edited' = edited \cup {o}
               PROVE  /\ job'[r].op = "offline" /\ job'[r].at = "payment"
                      /\ job'[r].order \in edited' /\ orders'[job'[r].order].status = "paid"
    BY DEF CreateOffline
  <2>1. job'[r] = [IdleJob EXCEPT !.op = "offline", !.at = "payment", !.order = o,
                                  !.method = "offline", !.status = "success"]
    BY <1>1
  <2>2. job'[r].op = "offline" /\ job'[r].at = "payment" /\ job'[r].order = o
    BY <2>1 DEF IdleJob
  <2>3. "paid" \in Status  BY DEF Status
  <2>4. orders' = [orders EXCEPT ![o] = [status |-> "paid", membership |-> TRUE, card |-> orders[o].card]]
    BY <2>3, OrderInserted DEF InsertOrder, TypeOK
  <2>5. orders'[o].status = "paid"  BY <2>4 DEF TypeOK
  <2>6. QED  BY <2>2, <2>5
<1>5. CreateCard(r) => /\ job'[r].op = "token" /\ job'[r].at = "card" /\ Idle(r)
                       /\ \A s \in Requests \ {r} : job'[s] = job[s]
  <2> DEFINE j(o, c) == [IdleJob EXCEPT !.op = "token", !.at = "card", !.order = o, !.card = c]
  <2>1. \A o, c : j(o, c).op = "token" /\ j(o, c).at = "card"  BY DEF IdleJob
  <2>2. CreateCard(r) => Idle(r) /\ \E o, c : job' = [job EXCEPT ![r] = j(o, c)]
    BY DEF CreateCard
  <2> HIDE DEF j
  <2>3. QED  BY <2>1, <2>2 DEF TypeOK
<1>6. ReportPaid(r) \/ BeginEdit(r) \/ CreateOffline(r) =>
         Idle(r) /\ \A s \in Requests \ {r} : job'[s] = job[s]
  BY <1>1 DEF ReportPaid, BeginEdit, CreateOffline
<1>7. QED  BY <1>2, <1>3, <1>4, <1>5, <1>6

LEMMA PageRequests ==
    ASSUME SoundInv, SoundInv', PageInv, NEW r \in Requests,
           \/ ReportPaid(r) \/ BeginEdit(r) \/ CreateCard(r) \/ Cut(r)
           \/ NoPage(r) \/ ReadPayment(r) \/ UpdatePayment(r) \/ UpdatePelecard(r)
           \/ UpdateOrderAfterPayment(r) \/ UpdateParentPayment(r) \/ UpdateOrderStatus(r)
           \/ AttachCard(r)
    PROVE  PageInv'
<1>1. TypeOK /\ NoNewRows /\ Quiet
  BY QuietRequests, QuietPurchase, QuietSettling DEF Quiet, SoundInv
<1>2. opened' = opened
  BY DEF ReportPaid, BeginEdit, CreateCard, Cut, NoPage, ReadPayment, UpdatePayment, UpdatePelecard,
         UpdateOrderAfterPayment, UpdateParentPayment, UpdateOrderStatus, AttachCard
<1>0. patched \subseteq patched' /\ odd' = odd
  BY DEF ReportPaid, BeginEdit, CreateCard, Cut, NoPage, ReadPayment, UpdatePayment, UpdatePelecard,
         UpdateOrderAfterPayment, UpdateParentPayment, UpdateOrderStatus, AttachCard, history
<1>3. \A p \in Payments : child'[p].kind = child[p].kind
  <2>1. CASE BeginEdit(r)
    <3>1. EditStatuses \subseteq Status  BY CheckoutAssumption DEF Status
    <3>2. QED  BY <1>1, <2>1, <3>1, ChildWritten DEF BeginEdit, TypeOK
  <2>2. CASE UpdatePelecard(r)
    <3>1. job[r] \in Job /\ job[r].pay \in Payments
      BY <2>2 DEF UpdatePelecard, At, SoundInv, TypeOK, JobsSound, Shape, HasPay, Settling
    <3>2. QED  BY <1>1, <2>2, <3>1, ChildWritten DEF UpdatePelecard, TypeOK
  <2>3. CASE \/ ReportPaid(r) \/ CreateCard(r) \/ Cut(r) \/ NoPage(r) \/ ReadPayment(r) \/ UpdatePayment(r)
             \/ UpdateOrderAfterPayment(r) \/ UpdateParentPayment(r) \/ UpdateOrderStatus(r)
             \/ AttachCard(r)
    BY <2>3 DEF ReportPaid, CreateCard, Cut, NoPage, ReadPayment, UpdatePayment,
                UpdateOrderAfterPayment, UpdateParentPayment, UpdateOrderStatus, AttachCard, tables
  <2>4. QED  BY <2>1, <2>2, <2>3
<1>4. \A s \in Requests : Making(job'[s]) => job'[s] = job[s]
  <2>1. CASE ReportPaid(r) \/ BeginEdit(r) \/ CreateCard(r)
    BY <1>1, <2>1, Arrival DEF Making
  <2>2. CASE Answer(r)  BY <1>1, <2>2, IdleShape DEF TypeOK, Answer, Making
  <2>3. CASE ReadPayment(r) \/ UpdatePayment(r) \/ UpdatePelecard(r) \/ UpdateParentPayment(r)
    BY <1>1, <2>2, <2>3
    DEF TypeOK, Job, ReadPayment, UpdatePayment, UpdatePelecard, UpdateParentPayment, At, Goto, Making
  <2>4. QED  BY <2>1, <2>2, <2>3
             DEF Cut, NoPage, UpdateOrderAfterPayment, UpdateOrderStatus, AttachCard
<1>5. QED  BY <1>0, <1>1, <1>2, <1>3, <1>4, PageQuiet DEF NoNewRows

(* The statements of the purchase itself, one at a time.                    *)
LEMMA PageOrder ==
    ASSUME SoundInv, SoundInv', PageInv, NEW r \in Requests,
           CreateOrderViaTransaction(r) \/ CreateOffline(r) \/ EnforceCheckoutPrice(r)
    PROVE  PageInv'
<1> USE DEF PageInv
<1>t. /\ TypeOK /\ TypeOK' /\ RowsSound /\ JobsSound  BY DEF SoundInv
<1>1. UNCHANGED <<payments, child, transactions, opened, patched, odd>>
  BY DEF CreateOrderViaTransaction, CreateOffline, EnforceCheckoutPrice, tables, history
<1>2. \A o \in Orders : orders[o].status # "none" => orders'[o].membership = orders[o].membership
  <2>1. ASSUME NEW o \in Orders, NEW s \in {"pending", "paid"}, NEW m \in BOOLEAN,
               InsertOrder(o, NewOrder(s, m))
        PROVE  \A q \in Orders : orders[q].status # "none" => orders'[q] = orders[q]
    BY <1>t, <2>1, OrderInserted DEF InsertOrder, TypeOK, Status
  <2>2. QED  BY <2>1 DEF CreateOrderViaTransaction, CreateOffline, EnforceCheckoutPrice, tables
<1>3. PageOnWholePurchase'
  BY <1>t, <1>1, <1>2 DEF PageOnWholePurchase, RowsSound, TypeOK
<1>4. \A s \in Requests \ {r} : job'[s] = job[s]
  BY <1>t DEF TypeOK, CreateOrderViaTransaction, CreateOffline, EnforceCheckoutPrice, Enter
<1>5. /\ job'[r].at \notin {"transaction", "page"} /\ ~HasPay(job'[r])
      /\ job'[r].op = "checkout" /\ job'[r].at = "payment" =>
            (checkoutPriceEnforced(orders'[job'[r].order].membership, job'[r].method) => job'[r].priced)
  <2>1. CASE CreateOrderViaTransaction(r)
    <3>1. PICK o \in Orders, membership \in BOOLEAN, method \in Methods :
             /\ InsertOrder(o, NewOrder("pending", membership))
             /\ Enter(r, [IdleJob EXCEPT !.op = "checkout", !.order = o, !.method = method,
                            !.at = IF checkoutPriceEnforced(membership, method)
                                   THEN "price" ELSE "payment"])
      BY <2>1 DEF CreateOrderViaTransaction
    <3>2. orders'[o].membership = membership
      BY <1>t, <3>1, OrderInserted DEF InsertOrder, TypeOK, Status
    <3>3. /\ job'[r].order = o /\ job'[r].method = method /\ job'[r].op = "checkout"
          /\ job'[r].at = IF checkoutPriceEnforced(membership, method) THEN "price" ELSE "payment"
      BY <1>t, <3>1 DEF Enter, IdleJob, TypeOK
    <3>4. QED  BY <3>2, <3>3 DEF HasPay, Making, Settling
  <2>2. CASE CreateOffline(r)
    BY <1>t, <2>2, Arrival DEF HasPay, Making, Settling
  <2>3. CASE EnforceCheckoutPrice(r)
    <3>1. job'[r].op = "checkout" /\ job'[r].at = "payment" /\ job'[r].priced
      BY <1>t, <2>3 DEF EnforceCheckoutPrice, At, TypeOK, Job
    <3>2. QED  BY <3>1 DEF HasPay, Making, Settling
  <2>4. QED  BY <2>1, <2>2, <2>3
<1>6. \A s \in Requests : Making(job[s]) => orders[job[s].order].status # "none" /\ job[s].order \in Orders
  BY <1>t DEF JobsSound, Shape, Making, Idle
<1>7. OnTheWay'
  <2>1. WholeSoFar(r)'  BY <1>5 DEF WholeSoFar, HasPay
  <2>2. ASSUME NEW s \in Requests \ {r}  PROVE WholeSoFar(s)'
    <3>1. Making(job[s]) => orders'[job[s].order].membership = orders[job[s].order].membership
      BY <1>2, <1>6
    <3>2. QED  BY <1>1, <1>4, <3>1 DEF OnTheWay, WholeSoFar, Making
  <2>3. QED  BY <2>1, <2>2 DEF OnTheWay
<1>8. ASSUME NEW p \in Payments  PROVE Priced(p)'
  <2>1. CASE payments[p].status # "none"
    <3>1. payments[p].order \in Orders /\ orders[payments[p].order].status # "none"
      BY <1>t, <2>1 DEF RowsSound
    <3>2. Priced(p)  OBVIOUS
    <3>3. QED  BY <1>1, <1>2, <3>1, <3>2 DEF Priced
  <2>2. CASE payments[p].status = "none"
    BY <1>t, <1>1, <2>2 DEF RowsSound, Priced
  <2>3. QED  BY <2>1, <2>2
<1>9. QED  BY <1>3, <1>7, <1>8

LEMMA PagePayment ==
    ASSUME SoundInv, SoundInv', PageInv, NEW r \in Requests, CreatePayment(r)
    PROVE  PageInv'
<1> USE DEF PageInv
<1>t. TypeOK /\ RowsSound /\ JobsSound  BY DEF SoundInv
<1>1. PICK p \in Payments :
         /\ payments[p] = NoPaymentRow
         /\ payments' = [payments EXCEPT ![p] =
               [order |-> job[r].order, status |-> job[r].status,
                success |-> FALSE, token |-> FALSE, priced |-> job[r].priced]]
         /\ job' = [job EXCEPT ![r].at = "child", ![r].pay = p]
  BY PaymentStep
<1>2. p \notin opened /\ \A s \in Requests : HasPay(job[s]) => job[s].pay # p
  BY <1>t, <1>1 DEF RowsSound, TypeOK, JobsSound, NoPaymentRow
<1>3. /\ UNCHANGED <<orders, child, transactions, opened, patched>>
      /\ odd \subseteq odd'
      /\ job[r].method \notin Kinds => job'[r].pay \in odd'
  <2>1. PICK q \in Payments :
           /\ job' = [job EXCEPT ![r].at = "child", ![r].pay = q]
           /\ odd' = odd \cup {t \in {q} : job[r].method \notin Kinds}
    BY DEF CreatePayment
  <2>2. job'[r].pay = q  BY <1>t, <2>1 DEF TypeOK, Job
  <2>3. QED  BY <2>1, <2>2 DEF CreatePayment
<1>4. PageOnWholePurchase'
  <2>1. \A q \in opened : q \in Payments \ {p}  BY <1>t, <1>2 DEF TypeOK
  <2>2. \A q \in opened : payments'[q] = payments[q]  BY <1>t, <1>1, <2>1 DEF TypeOK
  <2>3. QED  BY <1>3, <2>2 DEF PageOnWholePurchase
<1>5. /\ job'[r].op = job[r].op /\ job'[r].order = job[r].order /\ job'[r].method = job[r].method
      /\ job'[r].at = "child" /\ job'[r].pay = p
      /\ \A s \in Requests \ {r} : job'[s] = job[s]
  BY <1>t, <1>1 DEF TypeOK, Job
<1>6. payments'[p].priced = job[r].priced /\ \A q \in Payments \ {p} : payments'[q] = payments[q]
  BY <1>t, <1>1 DEF TypeOK
<1>7. job[r].op = "checkout" => job[r].at = "payment"  BY DEF CreatePayment
<1>8. \A s \in Requests : HasPay(job[s]) => job[s].pay \in Payments \ {p}
  BY <1>t, <1>2 DEF JobsSound, Shape
<1>9. ASSUME NEW s \in Requests  PROVE WholeSoFar(s)'
  <2>1. WholeSoFar(s)  BY DEF OnTheWay
  <2>2. CASE s = r
    <3>1. job[r].op = "checkout" /\ job[r].order \notin patched
             /\ checkoutPriceEnforced(orders[job[r].order].membership, job[r].method) => job[r].priced
      BY <1>7, <2>1, <2>2 DEF WholeSoFar
    <3>2. QED  BY <1>2, <1>3, <1>5, <1>6, <2>2, <3>1 DEF WholeSoFar
  <2>3. CASE s # r
    <3>1. job'[s] = job[s]  BY <1>5, <2>3
    <3>2. HasPay(job[s]) => payments'[job[s].pay] = payments[job[s].pay]  BY <1>6, <1>8
    <3>3. job[s].op = "checkout" => Making(job[s])  BY DEF Making
    <3>4. QED  BY <1>3, <2>1, <3>1, <3>2, <3>3 DEF WholeSoFar
  <2>4. QED  BY <2>2, <2>3
<1>10. \A q \in Payments : Priced(q)'
  <2>1. child[p].kind = "none"  BY <1>t, <1>1 DEF RowsSound, NoPaymentRow
  <2>2. QED  BY <1>3, <1>6, <2>1 DEF Priced
<1>11. QED  BY <1>4, <1>9, <1>10 DEF OnTheWay

(* The child row, the transaction and the page of the payment a request has *)
(* made: no other request is making it.                                     *)
LEMMA PageStatements ==
    ASSUME SoundInv, SoundInv', PageInv, NEW r \in Requests,
           CreateChildPayment(r) \/ CreateTransaction(r) \/ OpenPage(r)
    PROVE  PageInv'
<1> USE DEF PageInv
<1>t. TypeOK /\ RowsSound /\ JobsSound /\ job[r] \in Job /\ Shape(job[r])  BY DEF SoundInv, TypeOK, JobsSound
<1> DEFINE p == job[r].pay
<1>1. /\ Making(job[r]) /\ HasPay(job[r]) /\ p \in Payments /\ job[r].order \in Orders
      /\ p \notin opened /\ payments[p].order = job[r].order
  BY <1>t DEF CreateChildPayment, CreateTransaction, OpenPage, At, Making, HasPay, Shape, OnTheWay, WholeSoFar, JobsSound
<1>2. \A s \in Requests \ {r} : Making(job[s]) /\ HasPay(job[s]) => job[s].pay # p
  BY <1>1 DEF SoundInv, OneMaker, JobsSound
<1>3. UNCHANGED <<orders, payments, patched, odd>>
  BY DEF CreateChildPayment, CreateTransaction, OpenPage, tables, history
<1>4. \A s \in Requests \ {r} : job'[s] = job[s]
  BY <1>t DEF TypeOK, CreateChildPayment, CreateTransaction, OpenPage, Goto, Answer
<1>5. \A s \in Requests : job[s].at \in {"transaction", "page"} => Making(job[s]) /\ HasPay(job[s])
  BY <1>t DEF JobsSound, Shape, Making, HasPay, TypeOK, Job, IdleJob
<1>6. CASE CreateChildPayment(r)
  <2>1. \A q \in Payments \ {p} : child'[q].kind = child[q].kind
    BY <1>t, <1>1, <1>6, ChildInserted DEF CreateChildPayment, TypeOK
  <2>2. child'[p].kind = IF job[r].method \in Kinds THEN job[r].method ELSE "none"
    BY <1>t, <1>1, <1>6, ChildInserted DEF CreateChildPayment, TypeOK
  <2>3. UNCHANGED <<transactions, opened>>  BY <1>6 DEF CreateChildPayment
  <2>4. PageOnWholePurchase'  BY <1>t, <1>1, <1>3, <2>1, <2>3 DEF PageOnWholePurchase, TypeOK
  <2>9. ASSUME NEW q \in Payments  PROVE Priced(q)'
    <3>1. CASE q # p  BY <1>3, <2>1, <3>1 DEF Priced
    <3>2. CASE q = p
      <4>1. Shape(job[r]) /\ WholeSoFar(r)  BY <1>t DEF OnTheWay
      <4>2. child'[p].kind = "pelecard" => job[r].method = "pelecard" /\ job[r].op = "checkout"
        BY <1>1, <2>2, <4>1 DEF Shape, Making
      <4>3. QED  BY <1>1, <1>3, <3>2, <4>1, <4>2 DEF Priced, WholeSoFar, checkoutPriceEnforced
    <3>3. QED  BY <3>1, <3>2
  <2>5. \/ job'[r] = IdleJob
        \/ job[r].op = "checkout" /\ job'[r] = [job[r] EXCEPT !.at = "transaction"]
    BY <1>t, <1>6 DEF CreateChildPayment, Goto, Answer, TypeOK, Making
  <2>6. CASE job'[r] = IdleJob
    <3>1. OnTheWay'
      BY <1>2, <1>3, <1>4, <1>5, <2>1, <2>3, <2>6, <1>t, IdleShape DEF OnTheWay, WholeSoFar, JobsSound, Shape
    <3>2. QED  BY <2>4, <2>9, <3>1
  <2>7. CASE job[r].op = "checkout" /\ job'[r] = [job[r] EXCEPT !.at = "transaction"]
    <3>1. /\ job'[r].op = "checkout" /\ job'[r].at = "transaction" /\ job'[r].pay = p
          /\ job'[r].method = job[r].method /\ job'[r].order = job[r].order
      BY <1>t, <2>7 DEF Job
    <3>2. WholeSoFar(r)'
      BY <1>1, <1>3, <2>2, <2>3, <2>7, <3>1 DEF OnTheWay, WholeSoFar
    <3>3. ASSUME NEW s \in Requests \ {r}  PROVE WholeSoFar(s)'
      BY <1>2, <1>3, <1>4, <1>5, <2>1, <2>3, <1>t DEF OnTheWay, WholeSoFar, JobsSound, Shape
    <3>4. QED  BY <2>4, <2>9, <3>2, <3>3 DEF OnTheWay
  <2>8. QED  BY <2>5, <2>6, <2>7
<1>7. CASE CreateTransaction(r)
  <2>1. UNCHANGED <<child, opened>> /\ transactions' = transactions \cup {p}
    BY <1>7 DEF CreateTransaction, InsertTransaction
  <2>2. PageOnWholePurchase'  BY <1>3, <2>1 DEF PageOnWholePurchase
  <2>6. \A q \in Payments : Priced(q)'  BY <1>3, <2>1 DEF Priced
  <2>3. CASE job'[r] = IdleJob
    <3>1. OnTheWay'  BY <1>3, <1>4, <2>1, <2>3, IdleShape DEF OnTheWay, WholeSoFar
    <3>2. QED  BY <2>2, <2>6, <3>1
  <2>4. CASE job[r].method \notin {"offline", "helphaver"} /\ job'[r] = [job[r] EXCEPT !.at = "page"]
    <3>1. /\ job'[r].op = job[r].op /\ job'[r].at = "page" /\ job'[r].pay = p
          /\ job'[r].method = job[r].method /\ job'[r].order = job[r].order
      BY <1>t, <2>4 DEF Job
    <3>2. job[r].at = "transaction"  BY <1>7 DEF CreateTransaction, At
    <3>3. WholeSoFar(r)'  BY <1>1, <1>3, <2>1, <2>4, <3>1, <3>2 DEF OnTheWay, WholeSoFar
    <3>4. ASSUME NEW s \in Requests \ {r}  PROVE WholeSoFar(s)'
      BY <1>3, <1>4, <2>1 DEF OnTheWay, WholeSoFar
    <3>5. QED  BY <2>2, <2>6, <3>3, <3>4 DEF OnTheWay
  <2>5. QED  BY <1>t, <1>7, <2>3, <2>4 DEF CreateTransaction, Goto, Answer, TypeOK
<1>8. CASE OpenPage(r)
  <2>1. UNCHANGED <<child, transactions>> /\ opened' = opened \cup {p} /\ job'[r] = IdleJob
    BY <1>t, <1>8 DEF OpenPage, tables, Answer, TypeOK
  <2>2. /\ job[r].op = "checkout" /\ job[r].at = "page" /\ p \in transactions
        /\ job[r].method \notin {"offline", "helphaver"}
        /\ p \notin odd => child[p].kind = "pelecard"
    BY <1>t, <1>1, <1>8 DEF OpenPage, At, OnTheWay, WholeSoFar, JobsSound, Kinds
  <2>3. orders[payments[p].order].membership => payments[p].priced \/ payments[p].order \in patched
    BY <1>1, <2>2 DEF OnTheWay, WholeSoFar, checkoutPriceEnforced
  <2>4. PageOnWholePurchase'  BY <1>3, <2>1, <2>2, <2>3 DEF PageOnWholePurchase
  <2>5. OnTheWay'  BY <1>2, <1>3, <1>4, <2>1, IdleShape DEF OnTheWay, WholeSoFar
  <2>6. \A q \in Payments : Priced(q)'  BY <1>3, <2>1 DEF Priced
  <2>7. QED  BY <2>4, <2>5, <2>6
<1>9. QED  BY <1>6, <1>7, <1>8

LEMMA PageOutside ==
    ASSUME SoundInv, SoundInv', PageInv,
           \/ \E o \in Orders : CreateV2Order(o) \/ PatchOrderByID(o)
           \/ \E c \in Cards : PatchCardDetailsById(c) \/ SoftDeleteCardDetailById(c)
           \/ UNCHANGED vars
    PROVE  PageInv'
<1>1. UNCHANGED <<payments, child, transactions, job, opened, odd>> /\ patched \subseteq patched'
  BY DEF CreateV2Order, PatchOrderByID, PatchCardDetailsById, SoftDeleteCardDetailById,
         vars, tables, history
<1>2. \A o \in Orders : orders[o].status # "none" =>
         orders'[o].membership = orders[o].membership \/ o \in patched'
  <2>1. ASSUME NEW o \in Orders, CreateV2Order(o)
        PROVE  \A q \in Orders : orders[q].status # "none" => orders'[q] = orders[q]
    BY <2>1 DEF CreateV2Order, InsertOrder, SetOrder, SoundInv, TypeOK
  <2>2. ASSUME ~\E o \in Orders : CreateV2Order(o)
        PROVE  \A q \in Orders : orders'[q].membership = orders[q].membership \/ q \in patched'
    BY <2>2, QuietOutside DEF Quiet, NoNewRows
  <2>3. QED  BY <2>1, <2>2
<1>3. QED  BY <1>1, <1>2, PageQuiet

LEMMA PageNext == SoundInv /\ PageInv /\ [Next]_vars => PageInv'
<1> SUFFICES ASSUME SoundInv, PageInv, [Next]_vars  PROVE PageInv'  OBVIOUS
<1>1. SoundInv'  BY SoundNext
<1>2. CASE \E r \in Requests : ReportPaid(r) \/ BeginEdit(r) \/ CreateCard(r) \/ Cut(r)
  BY <1>1, <1>2, PageRequests
<1>3. CASE \E r \in Requests : CreateOrderViaTransaction(r) \/ CreateOffline(r)
  BY <1>1, <1>3, PageOrder
<1>4. CASE \E r \in Requests : Handler(r)
  BY <1>1, <1>4, PageRequests, PageOrder, PagePayment, PageStatements DEF Handler
<1>5. CASE \/ \E o \in Orders : CreateV2Order(o) \/ PatchOrderByID(o)
           \/ \E c \in Cards : PatchCardDetailsById(c) \/ SoftDeleteCardDetailById(c)
           \/ UNCHANGED vars
  BY <1>1, <1>5, PageOutside
<1>6. QED  BY <1>2, <1>3, <1>4, <1>5 DEF Next

LEMMA PageAlways == Spec => []PageInv
<1>1. Init => PageInv
  BY IdleShape DEF Init, PageInv, PageOnWholePurchase, OnTheWay, WholeSoFar, Priced, NoChildRow
<1>2. QED  BY <1>1, SoundAlways, PageNext, PTL DEF Spec

(* Nobody pays for half a purchase: the page of a payment opens when the    *)
(* payment has its transaction, its child row (if its type has a table) and *)
(* the resolved price, if the order was made a membership by the purchase   *)
(* and not by a later edit, whatever other requests do meanwhile            *)
(* (handleTransactionOrderAndPay).                                          *)
THEOREM PagesOnWholePurchases == Spec => []PageOnWholePurchase
<1>1. PageInv => PageOnWholePurchase  BY DEF PageInv
<1>2. QED  BY <1>1, PageAlways, PTL

-----------------------------------------------------------------------------
(* The success an order is paid by.                                         *)
LEMMA RecordKept ==
    ASSUME SoundInv, SoundInv', PageInv', RecordInv,
           patched \subseteq patched', edited \subseteq edited',
           \A o \in Orders : orders'[o].status = "paid" =>
              \/ orders[o].status = "paid" \/ o \in patched' \cup edited'
              \/ \E p \in PaymentsOf(o) : payments[p].success,
           \A p \in Payments : payments[p].status # "none" =>
              /\ payments'[p].order = payments[p].order
              /\ payments[p].success => payments'[p].success,
           \A s \in Requests : job'[s] = job[s] \/ Backed(s)'
    PROVE  RecordInv'
<1>1. \A p \in Payments : payments[p].success => payments[p].status # "none"
  BY DEF SoundInv, RowsSound, NoPaymentRow
<1>2. ASSUME NEW o \in Orders, orders'[o].status = "paid", o \notin patched' \cup edited'
      PROVE  \E p \in Payments :
                /\ payments'[p].order = o /\ payments'[p].success
                /\ orders'[o].membership /\ child'[p].kind = "pelecard" => payments'[p].priced
  <2>1. PICK p \in Payments : payments[p].order = o /\ payments[p].success
    BY <1>2 DEF RecordInv, PaidOnRecord, PaymentsOf
  <2>2. payments'[p].order = o /\ payments'[p].success  BY <1>1, <2>1
  <2>3. Priced(p)'  BY DEF PageInv
  <2>4. QED  BY <1>2, <2>2, <2>3 DEF Priced
<1>3. PaidOnRecord'  BY <1>2 DEF PaidOnRecord, PaymentsOf
<1>4. ASSUME NEW s \in Requests  PROVE Backed(s)'
  <2>1. CASE job'[s] = job[s]
    <3>1. Backed(s)  BY DEF RecordInv
    <3>2. job[s].op = "paid" => job[s].pay \in Payments  BY DEF SoundInv, JobsSound, Shape, HasPay, Settling
    <3>3. QED  BY <1>1, <2>1, <3>1, <3>2 DEF Backed, At
  <2>2. QED  BY <2>1
<1>5. QED  BY <1>3, <1>4 DEF RecordInv

LEMMA RecordRequests ==
    ASSUME SoundInv, SoundInv', PageInv', RecordInv, NEW r \in Requests,
           \/ ReportPaid(r) \/ BeginEdit(r) \/ CreateCard(r) \/ Cut(r)
           \/ EnforceCheckoutPrice(r) \/ CreateChildPayment(r) \/ CreateTransaction(r)
           \/ OpenPage(r) \/ NoPage(r) \/ ReadPayment(r) \/ UpdatePelecard(r)
    PROVE  RecordInv'
<1>t. TypeOK /\ JobsSound /\ job[r] \in Job /\ Shape(job[r])  BY DEF SoundInv, TypeOK, JobsSound
<1>1. UNCHANGED <<orders, payments, patched, edited>>
  BY DEF ReportPaid, BeginEdit, CreateCard, Cut, EnforceCheckoutPrice, CreateChildPayment,
         CreateTransaction, OpenPage, NoPage, ReadPayment, UpdatePelecard, tables, history
<1>2. \A s \in Requests \ {r} : job'[s] = job[s]
  BY <1>t, Arrival DEF TypeOK, Cut, EnforceCheckoutPrice, CreateChildPayment, CreateTransaction,
         OpenPage, NoPage, ReadPayment, UpdatePelecard, Goto, Answer
<1>3. Backed(r)'
  <2>1. CASE ReportPaid(r) \/ BeginEdit(r) \/ CreateCard(r)
    BY <1>t, <1>1, <2>1, Arrival DEF Backed, At
  <2>2. CASE Answer(r)  BY <1>t, <2>2, IdleShape DEF Backed, At, Answer, TypeOK
  <2>3. CASE EnforceCheckoutPrice(r)
    BY <1>t, <2>3 DEF EnforceCheckoutPrice, At, Backed, TypeOK, Job
  <2>4. CASE (CreateChildPayment(r) \/ CreateTransaction(r)) /\ ~Answer(r)
    <3>1. job'[r].op = "checkout"
      BY <1>t, <2>4 DEF CreateChildPayment, CreateTransaction, At, Goto, TypeOK, Job
    <3>2. QED  BY <3>1 DEF Backed, At
  <2>5. CASE ReadPayment(r)
    <3>1. job[r].pay \in Payments  BY <1>t, <2>5 DEF ReadPayment, At, Shape, HasPay, Settling
    <3>2. job'[r].op = "paid" /\ job'[r].at = "payment"
      BY <1>t, <2>5 DEF ReadPayment, At, TypeOK, Job
    <3>3. QED  BY <3>2 DEF Backed, At
  <2>6. CASE UpdatePelecard(r)
    <3>1. /\ job'[r].op = "paid" /\ job'[r].ok = job[r].ok /\ job'[r].pay = job[r].pay
          /\ job'[r].success = job[r].success /\ job[r].op = "paid" /\ job[r].at = "child"
      BY <1>t, <2>6 DEF UpdatePelecard, At, Goto, TypeOK, Job
    <3>2. QED  BY <1>1, <3>1 DEF RecordInv, Backed, At
  <2>7. QED  BY <2>1, <2>2, <2>3, <2>4, <2>5, <2>6 DEF Cut, OpenPage, NoPage
<1>4. QED  BY <1>1, <1>2, <1>3, RecordKept

LEMMA RecordOrders ==
    ASSUME SoundInv, SoundInv', PageInv', RecordInv, NEW r \in Requests,
           \/ CreateOrderViaTransaction(r) \/ CreateOffline(r)
           \/ UpdateOrderAfterPayment(r) \/ UpdateOrderStatus(r) \/ AttachCard(r)
    PROVE  RecordInv'
<1>t. /\ TypeOK /\ JobsSound /\ job[r] \in Job /\ Shape(job[r])
      /\ ~Idle(r) => job[r].order \in Orders
      /\ orders \in [Orders -> OrderRow]
  BY DEF SoundInv, TypeOK, JobsSound, Shape, Idle
<1>1. UNCHANGED <<payments, patched>> /\ edited \subseteq edited'
  BY DEF CreateOrderViaTransaction, CreateOffline, UpdateOrderAfterPayment, UpdateOrderStatus,
         AttachCard, history
<1>2. \A s \in Requests \ {r} : job'[s] = job[s]
  BY <1>t, Arrival DEF TypeOK, CreateOrderViaTransaction, Enter, UpdateOrderAfterPayment,
         UpdateOrderStatus, AttachCard, Answer
<1>3. CASE CreateOrderViaTransaction(r)
  <2>1. job'[r].op = "checkout"
    <3> SUFFICES ASSUME NEW o \in Orders, NEW membership \in BOOLEAN, NEW method \in Methods,
                        Enter(r, [IdleJob EXCEPT !.op = "checkout", !.order = o, !.method = method,
                          !.at = IF checkoutPriceEnforced(membership, method) THEN "price" ELSE "payment"])
                 PROVE  job'[r].op = "checkout"
      BY <1>3 DEF CreateOrderViaTransaction
    <3>1. QED  BY <1>t DEF Enter, IdleJob, TypeOK
  <2>2. PICK o \in Orders, m \in BOOLEAN : SetOrder(o, NewOrder("pending", m))
    BY <1>3 DEF CreateOrderViaTransaction, InsertOrder
  <2>3. "pending" \in Status  BY DEF Status
  <2>4. orders' = [orders EXCEPT ![o] = [status |-> "pending", membership |-> m, card |-> orders[o].card]]
    BY <1>t, <2>2, <2>3, OrderInserted
  <2>5. \A q \in Orders : orders'[q].status = "paid" => orders[q].status = "paid"
    BY <1>t, <2>4
  <2>6. Backed(r)'  BY <2>1 DEF Backed, At
  <2>7. QED  BY <1>1, <1>2, <2>5, <2>6, RecordKept
<1>4. CASE CreateOffline(r)
  <2>1. Backed(r)'  BY <1>t, <1>4, Arrival DEF Backed, At
  <2>2. \A q \in Orders : orders'[q] = orders[q] \/ q \in edited'
    BY <1>t, <1>4 DEF CreateOffline, InsertOrder, SetOrder
  <2>3. QED  BY <1>1, <1>2, <2>1, <2>2, RecordKept
<1>5. CASE UpdateOrderAfterPayment(r)
  <2>1. job[r].op = "paid" /\ ~Idle(r) /\ HasPay(job[r])
    BY <1>5 DEF UpdateOrderAfterPayment, At, Idle, HasPay, Settling
  <2>2. orders' = [orders EXCEPT ![job[r].order].status = OrderStatusAfter(job[r])]
    BY <1>t, <1>5, <2>1, OrderSettled DEF UpdateOrderAfterPayment, OrderStatusAfter, Status
  <2>3. job[r].success => \E p \in PaymentsOf(job[r].order) : payments[p].success
    BY <1>t, <1>5, <2>1 DEF RecordInv, Backed, PaymentsOf, JobsSound, Shape, UpdateOrderAfterPayment, At
  <2>4. \A q \in Orders : orders'[q].status = "paid" =>
           orders[q].status = "paid" \/ \E p \in PaymentsOf(q) : payments[p].success
    BY <1>t, <2>1, <2>2, <2>3 DEF OrderStatusAfter, OrderRow
  <2>5. Backed(r)'  BY <1>t, <1>5, IdleShape DEF UpdateOrderAfterPayment, Answer, Backed, At, TypeOK
  <2>6. QED  BY <1>1, <1>2, <2>4, <2>5, RecordKept
<1>6. CASE UpdateOrderStatus(r)
  <2>1. job[r].order \in edited /\ ~Idle(r)
    BY <1>6 DEF UpdateOrderStatus, RecordInv, Backed, Idle, At
  <2>2. \A q \in Orders : orders'[q] = orders[q] \/ q \in edited
    BY <1>t, <1>6, <2>1 DEF UpdateOrderStatus, SetOrder
  <2>3. Backed(r)'  BY <1>t, <1>6, IdleShape DEF UpdateOrderStatus, Answer, Backed, At, TypeOK
  <2>4. QED  BY <1>1, <1>2, <2>2, <2>3, RecordKept
<1>7. CASE AttachCard(r)
  <2>1. ~Idle(r)  BY <1>7 DEF AttachCard, At, Idle
  <2>2. orders' = [orders EXCEPT ![job[r].order].card = job[r].card]
    BY <1>t, <1>7, <2>1, OrderPointed DEF AttachCard, Job
  <2>3. \A q \in Orders : orders'[q].status = orders[q].status
    BY <1>t, <2>1, <2>2 DEF OrderRow
  <2>4. Backed(r)'  BY <1>t, <1>7, IdleShape DEF AttachCard, Answer, Backed, At, TypeOK
  <2>5. QED  BY <1>1, <1>2, <2>3, <2>4, RecordKept
<1>8. QED  BY <1>3, <1>4, <1>5, <1>6, <1>7

LEMMA RecordPayments ==
    ASSUME SoundInv, SoundInv', PageInv', RecordInv, NEW r \in Requests,
           CreatePayment(r) \/ UpdatePayment(r) \/ UpdateParentPayment(r)
    PROVE  RecordInv'
<1>t. /\ TypeOK /\ JobsSound /\ RowsSound /\ job[r] \in Job /\ Shape(job[r])
      /\ payments \in [Payments -> PaymentRow]
  BY DEF SoundInv, TypeOK, JobsSound
<1>1. orders' = orders /\ edited \subseteq edited' /\ patched \subseteq patched'
  BY DEF CreatePayment, UpdatePayment, UpdateParentPayment, history
<1>2. \A s \in Requests \ {r} : job'[s] = job[s]
  BY <1>t DEF TypeOK, CreatePayment, UpdatePayment, UpdateParentPayment, Goto, Answer
<1>3. CASE CreatePayment(r)
  <2>1. PICK p \in Payments :
           /\ payments[p] = NoPaymentRow
           /\ payments' = [payments EXCEPT ![p] =
                 [order |-> job[r].order, status |-> job[r].status,
                  success |-> FALSE, token |-> FALSE, priced |-> job[r].priced]]
           /\ job' = [job EXCEPT ![r].at = "child", ![r].pay = p]
    BY <1>3, PaymentStep
  <2>2. \A q \in Payments : payments[q].status # "none" => payments'[q] = payments[q]
    BY <1>t, <2>1 DEF NoPaymentRow
  <2>3. job'[r].op = job[r].op /\ job'[r].order = job[r].order /\ job[r].op \in {"checkout", "offline"}
    BY <1>t, <1>3, <2>1 DEF TypeOK, Job, CreatePayment
  <2>4. Backed(r)'  BY <1>1, <2>3 DEF Backed, RecordInv, At
  <2>5. QED  BY <1>1, <1>2, <2>2, <2>4, RecordKept
<1>4. CASE UpdatePayment(r)
  <2>1. job[r].op = "paid"  BY <1>4 DEF UpdatePayment, At
  <2>2. /\ \A p \in Payments : /\ payments'[p].order = payments[p].order
                               /\ payments[p].success => payments'[p].success
        /\ job[r].pay \in Payments /\ job[r].success => payments'[job[r].pay].success
    <3>1. /\ job[r].pay \in Payments
          /\ payments'[job[r].pay].order = payments[job[r].pay].order
          /\ payments'[job[r].pay].success =
                (job[r].ok \/ job[r].success \/ payments[job[r].pay].success)
          /\ \A p \in Payments : p # job[r].pay => payments'[p] = payments[p]
      BY <1>4, ReportWrites
    <3>2. QED  BY <3>1
  <2>3. /\ job'[r].op = "paid" /\ job'[r].ok = job[r].ok /\ job'[r].pay = job[r].pay
        /\ job'[r].success = job[r].success
    BY <1>t, <1>4, <2>1 DEF UpdatePayment, Goto, TypeOK, Job
  <2>4. Backed(r)'
    <3>1. job[r].pay \in Payments  BY <1>4, ReportWrites
    <3>2. QED  BY <1>1, <2>1, <2>2, <2>3, <3>1 DEF Backed, At
  <2>5. QED  BY <1>1, <1>2, <2>2, <2>4, RecordKept
<1>5. CASE UpdateParentPayment(r)
  <2>1. \A p \in Payments : /\ payments'[p].order = payments[p].order
                            /\ payments'[p].success = payments[p].success
    <3>1. payments' = [payments EXCEPT ![job[r].pay].status = job[r].status]
      BY <1>5, EditWrites
    <3>2. QED  BY <1>t, <3>1 DEF PaymentRow
  <2>2. job'[r] = IdleJob \/ (job'[r].op = "edit" /\ job'[r].order = job[r].order)
    BY <1>t, <1>5 DEF UpdateParentPayment, At, Goto, Answer, TypeOK, Job
  <2>3. job[r].order \in edited'  BY <1>5 DEF UpdateParentPayment
  <2>4. Backed(r)'  BY <2>2, <2>3, IdleShape DEF Backed, At
  <2>5. QED  BY <1>1, <1>2, <2>1, <2>4, RecordKept
<1>6. QED  BY <1>3, <1>4, <1>5

LEMMA RecordOutside ==
    ASSUME SoundInv, SoundInv', PageInv', RecordInv,
           \/ \E o \in Orders : CreateV2Order(o) \/ PatchOrderByID(o)
           \/ \E c \in Cards : PatchCardDetailsById(c) \/ SoftDeleteCardDetailById(c)
           \/ UNCHANGED vars
    PROVE  RecordInv'
<1>1. UNCHANGED <<payments, job, edited>> /\ patched \subseteq patched'
  BY DEF CreateV2Order, PatchOrderByID, PatchCardDetailsById, SoftDeleteCardDetailById,
         vars, tables, history
<1>2. \A q \in Orders : orders'[q] = orders[q] \/ q \in patched'
  BY DEF CreateV2Order, PatchOrderByID, PatchCardDetailsById, SoftDeleteCardDetailById,
         vars, tables, InsertOrder, SetOrder, SoundInv, TypeOK
<1>3. QED  BY <1>1, <1>2, RecordKept

LEMMA RecordNext == SoundInv /\ PageInv /\ RecordInv /\ [Next]_vars => RecordInv'
<1> SUFFICES ASSUME SoundInv, PageInv, RecordInv, [Next]_vars  PROVE RecordInv'  OBVIOUS
<1>1. SoundInv' /\ PageInv'  BY SoundNext, PageNext
<1>2. CASE \E r \in Requests : ReportPaid(r) \/ BeginEdit(r) \/ CreateCard(r) \/ Cut(r)
  BY <1>1, <1>2, RecordRequests
<1>3. CASE \E r \in Requests : CreateOrderViaTransaction(r) \/ CreateOffline(r)
  BY <1>1, <1>3, RecordOrders
<1>4. CASE \E r \in Requests : Handler(r)
  BY <1>1, <1>4, RecordRequests, RecordOrders, RecordPayments DEF Handler
<1>5. CASE \/ \E o \in Orders : CreateV2Order(o) \/ PatchOrderByID(o)
           \/ \E c \in Cards : PatchCardDetailsById(c) \/ SoftDeleteCardDetailById(c)
           \/ UNCHANGED vars
  BY <1>1, <1>5, RecordOutside
<1>6. QED  BY <1>2, <1>3, <1>4, <1>5 DEF Next

LEMMA RecordAlways == Spec => []RecordInv
<1>1. Init => RecordInv
  BY IdleShape DEF Init, RecordInv, PaidOnRecord, Backed, At, NoOrderRow, NoPaymentRow
<1>2. QED  BY <1>1, SoundAlways, PageAlways, RecordNext, PTL DEF Spec

(* Whatever reports, failures, edits and crashes cross on an order, the     *)
(* reports make it paid only with a success in its payment, and a           *)
(* membership to be paid by card only at the resolved price; else the staff *)
(* or its owner said so (handleTransactionPaid, UpdateOrderAfterPayment).   *)
THEOREM OrdersPaidOnRecord == Spec => []PaidOnRecord
<1>1. RecordInv => PaidOnRecord  BY DEF RecordInv
<1>2. QED  BY <1>1, RecordAlways, PTL

-----------------------------------------------------------------------------
(* The order and its payment.                                               *)

LEMMA ConcordKept ==
    ASSUME SettleInv, crossed \subseteq crossed',
           \A s \in Requests : ~Settling(job'[s]) \/
              (job'[s].op = job[s].op /\ job'[s].ok = job[s].ok /\ job'[s].order = job[s].order)
    PROVE  \A r, s \in Requests : Concord(r, s)'
BY DEF SettleInv, Concord, Differ, Settling

LEMMA ConcordEnter ==
    ASSUME SoundInv, SettleInv, NEW r \in Requests, ReportPaid(r) \/ BeginEdit(r)
    PROVE  /\ \A s, t \in Requests : Concord(s, t)'
           /\ crossed \subseteq crossed'
<1>1. PICK j : Enter(r, j)  BY DEF ReportPaid, BeginEdit
<1>2. job'[r] = j /\ \A s \in Requests \ {r} : job'[s] = job[s]
  BY <1>1 DEF Enter, SoundInv, TypeOK
<1>3. crossed' = crossed \cup {o \in {j.order} : \E k \in InFlight(o) : Differ(j, job[k])}
  BY <1>1 DEF Enter
<1>4. crossed \subseteq crossed'  BY <1>3
<1>5. ASSUME NEW s \in Requests, NEW t \in Requests, s # r, t # r  PROVE Concord(s, t)'
  BY <1>2, <1>4, <1>5 DEF Concord, SettleInv, Differ
<1>6. ASSUME NEW s \in Requests \ {r}, job[s].order = j.order, j.order \notin crossed'
      PROVE  ~Differ(j, job[s])
  BY <1>3, <1>6 DEF InFlight
<1>7. ASSUME NEW s \in Requests \ {r}  PROVE Concord(r, s)' /\ Concord(s, r)'
  <2>1. Differ(j, job[s]) <=> Differ(job[s], j)  BY DEF Differ
  <2>2. QED  BY <1>2, <1>6, <2>1 DEF Concord, Differ
<1>8. \A s \in Requests : Concord(s, s)'  BY DEF Concord
<1>9. QED  BY <1>4, <1>5, <1>7, <1>8

(* A step that writes no status.                                            *)
LEMMA SettleStill ==
    ASSUME SoundInv, SoundInv', SettleInv,
           \A s, t \in Requests : Concord(s, t)',
           crossed \subseteq crossed', patched \subseteq patched',
           payments' = payments,
           \A o \in Orders : orders'[o].status = orders[o].status \/ Disturbed(o)',
           \A s \in Requests : job'[s] = job[s] \/ (~Disturbed(job[s].order)' => Consistent(s)' /\ Ready(s)'),
           \A s \in Requests, o \in Orders : Underway(s, o) => Underway(s, o)' \/ Disturbed(o)'
    PROVE  SettleInv'
<1>1. \A o : Disturbed(o) => Disturbed(o)'  BY DEF Disturbed
<1>2. ASSUME NEW s \in Requests, ~Disturbed(job[s].order)'
      PROVE  Consistent(s)' /\ Ready(s)'
  <2>1. CASE job'[s] = job[s]
    <3>1. Consistent(s) /\ Ready(s)  BY <1>1, <1>2, <2>1 DEF SettleInv, Disturbed
    <3>2. Consistent(s)'  BY <2>1, <3>1 DEF Consistent
    <3>3. Making(job[s]) => job[s].order \in Orders
      BY DEF SoundInv, JobsSound, Shape, Making
    <3>4. Ready(s)'  BY <1>2, <2>1, <3>1, <3>3 DEF Ready, Disturbed
    <3>5. QED  BY <3>2, <3>4
  <2>2. QED  BY <1>2, <2>1
<1>3. ASSUME NEW o \in Orders, ~Disturbed(o)'  PROVE Settled(o)'
  <2>1. Settled(o)  BY <1>1, <1>3 DEF SettleInv, Disturbed
  <2>2. \A p \in Payments : Agree(o, p) => Agree(o, p)'  BY <1>3 DEF Agree, FailedLate
  <2>3. \A s \in Requests : Underway(s, o) => Underway(s, o)'  BY <1>3
  <2>4. QED  BY <2>1, <2>2, <2>3 DEF Settled
<1>4. QED  BY <1>2, <1>3 DEF SettleInv, Disturbed

LEMMA SettleRequests ==
    ASSUME SoundInv, SoundInv', SettleInv, NEW r \in Requests,
           \/ ReportPaid(r) \/ BeginEdit(r) \/ CreateCard(r) \/ Cut(r)
           \/ EnforceCheckoutPrice(r) \/ CreateChildPayment(r) \/ CreateTransaction(r)
           \/ OpenPage(r) \/ NoPage(r) \/ ReadPayment(r) \/ UpdatePelecard(r) \/ AttachCard(r)
    PROVE  SettleInv'
<1>t. TypeOK /\ JobsSound /\ job[r] \in Job /\ Shape(job[r])  BY DEF SoundInv, TypeOK, JobsSound
<1>1. /\ UNCHANGED <<payments, patched>>
      /\ ReportPaid(r) \/ BeginEdit(r) \/ crossed \subseteq crossed'
      /\ ReportPaid(r) \/ BeginEdit(r) \/ Cut(r) \/ crossed' = crossed
  BY DEF ReportPaid, BeginEdit, CreateCard, Cut, EnforceCheckoutPrice, CreateChildPayment,
         CreateTransaction, OpenPage, NoPage, ReadPayment, UpdatePelecard, AttachCard, tables, history
<1>2. \A s \in Requests \ {r} : job'[s] = job[s]
  BY <1>t, Arrival DEF TypeOK, Cut, EnforceCheckoutPrice, CreateChildPayment, CreateTransaction,
         OpenPage, NoPage, ReadPayment, UpdatePelecard, AttachCard, Goto, Answer
<1>3. \A o \in Orders : orders'[o].status = orders[o].status
  <2>1. CASE AttachCard(r)
    <3>1. job[r].order \in Orders /\ job[r].card \in Cards \cup {NoCard}
      BY <1>t, <2>1 DEF AttachCard, At, Shape, Job
    <3>2. orders' = [orders EXCEPT ![job[r].order].card = job[r].card]
      BY <1>t, <2>1, <3>1, OrderPointed DEF AttachCard, TypeOK
    <3>3. QED  BY <1>t, <3>2 DEF TypeOK, OrderRow
  <2>2. CASE ~AttachCard(r)
    BY <2>2 DEF ReportPaid, BeginEdit, CreateCard, Cut, EnforceCheckoutPrice, CreateChildPayment,
         CreateTransaction, OpenPage, NoPage, ReadPayment, UpdatePelecard, tables
  <2>3. QED  BY <2>1, <2>2
<1>4. CASE ReportPaid(r) \/ BeginEdit(r)
  <2>1. /\ Idle(r) /\ ~Making(job'[r])
        /\ \/ job'[r].op = "paid" /\ job'[r].at = "read"
           \/ job'[r].op = "edit" /\ job'[r].at = "payment"
    BY <1>t, <1>4, Arrival DEF Making
  <2>2. Consistent(r)' /\ Ready(r)'  BY <2>1 DEF Consistent, Ready
  <2>3. \A o \in Orders : ~Underway(r, o)  BY <1>t, <2>1 DEF Underway, Idle, Shape, IdleJob
  <2>4. \A s \in Requests \ {r}, o \in Orders : Underway(s, o) => Underway(s, o)'
    BY <1>2 DEF Underway
  <2>5. QED  BY <1>1, <1>2, <1>3, <1>4, <2>2, <2>3, <2>4, ConcordEnter, SettleStill
<1>5. CASE CreateCard(r)
  <2>1. Idle(r) /\ job'[r].op = "token"  BY <1>t, <1>5, Arrival
  <2>2. Consistent(r)' /\ Ready(r)'  BY <2>1 DEF Consistent, Ready, Making
  <2>3. \A o \in Orders : ~Underway(r, o)  BY <1>t, <2>1 DEF Underway, Idle, Shape, IdleJob
  <2>4. \A s \in Requests \ {r}, o \in Orders : Underway(s, o) => Underway(s, o)'
    BY <1>2 DEF Underway
  <2>5. crossed' = crossed  BY <1>5 DEF CreateCard
  <2>6. \A s, t \in Requests : Concord(s, t)'
    BY <1>2, <2>1, <2>5, ConcordKept DEF Settling
  <2>7. QED  BY <1>1, <1>2, <1>3, <2>2, <2>3, <2>4, <2>5, <2>6, SettleStill
<1>6. CASE Answer(r)
  <2>1. job'[r] = IdleJob  BY <1>t, <1>6 DEF Answer, TypeOK
  <2>2. Consistent(r)' /\ Ready(r)'  BY <2>1, IdleShape DEF Consistent, Ready
  <2>3. crossed \subseteq crossed'
    BY <1>t, <1>1, <1>6, <2>1, IdleShape, Arrival
  <2>4. \A s, t \in Requests : Concord(s, t)'  BY <1>2, <2>1, <2>3, IdleShape, ConcordKept
  <2>5. \A s \in Requests \ {r}, o \in Orders : Underway(s, o) => Underway(s, o)'
    BY <1>2 DEF Underway
  <2>6. ASSUME NEW o \in Orders, Underway(r, o)  PROVE Disturbed(o)'
    <3>1. ~(ReportPaid(r) \/ BeginEdit(r) \/ CreateCard(r))
      BY <1>t, <2>1, IdleShape, Arrival
    <3>2. ~UpdatePelecard(r)
      BY <1>t, <2>1, IdleShape DEF UpdatePelecard, Goto, TypeOK, Job
    <3>3. ~(EnforceCheckoutPrice(r) \/ CreateChildPayment(r) \/ CreateTransaction(r) \/ OpenPage(r)
            \/ NoPage(r) \/ ReadPayment(r) \/ AttachCard(r))
      BY <2>6 DEF Underway, EnforceCheckoutPrice, CreateChildPayment, CreateTransaction, OpenPage, NoPage,
                  ReadPayment, AttachCard, At
    <3>4. QED  BY <2>6, <3>1, <3>2, <3>3, CheckoutAssumption DEF Cut, Underway, Disturbed
  <2>7. QED  BY <1>1, <1>2, <1>3, <2>2, <2>3, <2>4, <2>5, <2>6, SettleStill
<1>7. CASE ~Answer(r) /\ (EnforceCheckoutPrice(r) \/ CreateChildPayment(r) \/ CreateTransaction(r))
  <2>1. /\ Making(job[r]) /\ job'[r].op = job[r].op /\ job'[r].at \in {"payment", "transaction", "page"}
        /\ job'[r].order = job[r].order /\ HasPay(job'[r]) = HasPay(job[r])
    BY <1>t, <1>7
    DEF EnforceCheckoutPrice, CreateChildPayment, CreateTransaction, At, Goto, TypeOK, Job,
        Making, HasPay, Settling
  <2>2. crossed' = crossed  BY <1>7 DEF EnforceCheckoutPrice, CreateChildPayment, CreateTransaction, history
  <2>3. \A o \in Orders : ~Underway(r, o)  BY <1>t, <2>1 DEF Underway, Making, Shape
  <2>4. \A s \in Requests \ {r}, o \in Orders : Underway(s, o) => Underway(s, o)'
    BY <1>2 DEF Underway
  <2>5. \A s, t \in Requests : Concord(s, t)'
    BY <1>2, <2>1, <2>2, ConcordKept DEF Settling, Making
  <2>6. job[r].order \in Orders  BY <1>t, <2>1 DEF Shape, Making
  <2>7. ~Disturbed(job[r].order)' => Consistent(r)' /\ Ready(r)'
    BY <1>1, <1>3, <2>1, <2>2, <2>6 DEF Disturbed, SettleInv, Consistent, Ready, Making
  <2>8. QED  BY <1>1, <1>2, <1>3, <2>2, <2>3, <2>4, <2>5, <2>7, SettleStill
<1>8. CASE ReadPayment(r) \/ UpdatePelecard(r)
  <2>1. /\ job[r].op = "paid" /\ job'[r].op = "paid" /\ job'[r].order = job[r].order
        /\ job'[r].ok = job[r].ok /\ job'[r].pay = job[r].pay
        /\ \/ /\ job[r].at = "read" /\ job'[r].at = "payment"
              /\ job'[r].success = (job[r].ok \/ payments[job[r].pay].success)
           \/ job[r].at = "child" /\ job'[r].at = "order" /\ job'[r].success = job[r].success
    BY <1>t, <1>8 DEF ReadPayment, UpdatePelecard, At, Goto, TypeOK, Job
  <2>2. crossed' = crossed  BY <1>8 DEF ReadPayment, UpdatePelecard, history
  <2>3. \A s \in Requests, o \in Orders : Underway(s, o) => Underway(s, o)'
    BY <1>2, <2>1 DEF Underway
  <2>4. \A s, t \in Requests : Concord(s, t)'  BY <1>2, <2>1, <2>2, ConcordKept
  <2>5. ~Disturbed(job[r].order)' => Consistent(r)' /\ Ready(r)'
    BY <1>1, <2>1, <2>2 DEF Disturbed, SettleInv, Consistent, Ready, Making
  <2>6. QED  BY <1>1, <1>2, <1>3, <2>2, <2>3, <2>4, <2>5, SettleStill
<1>9. QED  BY <1>4, <1>5, <1>6, <1>7, <1>8 DEF Cut, OpenPage, NoPage, AttachCard

(* What a statement on one order and its payment leaves as it was: the      *)
(* other orders, and the requests on them.                                  *)
LEMMA SettleElsewhere ==
    ASSUME SoundInv, SoundInv', SettleInv, NEW r \in Requests, NEW o \in Orders,
           job[r].order \in {o, NoOrder}, job'[r].order \in {o, NoOrder},
           \A s \in Requests \ {r} : job'[s] = job[s],
           crossed \subseteq crossed', patched \subseteq patched',
           \A q \in Orders \ {o} : orders'[q] = orders[q],
           \A p \in Payments : payments'[p] = payments[p]
                               \/ (payments[p].order \in {o, NoOrder} /\ payments'[p].order = o)
    PROVE  /\ \A q \in Orders \ {o} : ~Disturbed(q)' => Settled(q)'
           /\ \A s \in Requests \ {r} :
                 job[s].order # o /\ ~Disturbed(job[s].order)' => Consistent(s)' /\ Ready(s)'
<1>1. ASSUME NEW q \in Orders \ {o}, ~Disturbed(q)'  PROVE Settled(q)'
  <2>1. Settled(q)  BY <1>1 DEF SettleInv, Disturbed
  <2>2. ASSUME NEW p \in Payments, payments'[p].order = q
        PROVE  Agree(q, p)' \/ \E s \in Requests : Underway(s, q)'
    <3>1. payments'[p] = payments[p]  BY <1>1, <2>2
    <3>2. Agree(q, p) => Agree(q, p)'  BY <1>1, <3>1 DEF Agree, FailedLate
    <3>3. \A s \in Requests : Underway(s, q) => s # r
      BY <1>1, CheckoutAssumption DEF Underway
    <3>4. \A s \in Requests : Underway(s, q) => Underway(s, q)'  BY <3>3 DEF Underway
    <3>5. QED  BY <2>1, <2>2, <3>1, <3>2, <3>4 DEF Settled
  <2>3. QED  BY <2>2 DEF Settled
<1>2. ASSUME NEW s \in Requests \ {r}, job[s].order # o, ~Disturbed(job[s].order)'
      PROVE  Consistent(s)' /\ Ready(s)'
  <2>1. job'[s] = job[s]  OBVIOUS
  <2>2. Consistent(s) /\ Ready(s)  BY <1>2, <2>1 DEF SettleInv, Disturbed
  <2>3. Settling(job[s]) =>
           job[s].order \in Orders /\ job[s].pay \in Payments /\ payments[job[s].pay].order = job[s].order
    BY DEF SoundInv, JobsSound, Shape, HasPay, Settling
  <2>4. Settling(job[s]) => payments'[job[s].pay] = payments[job[s].pay]
    BY <1>2, <2>3, CheckoutAssumption
  <2>5. Consistent(s)'  BY <2>1, <2>2, <2>4 DEF Consistent, Settling
  <2>6. Making(job[s]) => orders'[job[s].order] = orders[job[s].order]
    BY <1>2 DEF SoundInv, JobsSound, Shape, Making
  <2>7. Ready(s)'  BY <2>1, <2>2, <2>6 DEF Ready
  <2>8. QED  BY <2>5, <2>7
<1>3. QED  BY <1>1, <1>2

(* The requests that settle the same order as r, if it is undisturbed, say  *)
(* the same.                                                                *)
LEMMA SameWord ==
    ASSUME SoundInv, SettleInv, NEW r \in Requests, Settling(job[r]), job[r].order \notin crossed,
           NEW s \in Requests \ {r}, job[s].order = job[r].order
    PROVE  /\ Settling(job[s]) => /\ job[r].op = "paid" /\ job[s].op = "paid" /\ job[s].ok = job[r].ok
                                  /\ job[s].pay = job[r].pay
           /\ Making(job[s]) => HasPay(job[s])
<1>1. ~Differ(job[s], job[r])  BY DEF SettleInv, Concord
<1>2. /\ job[r].order \in Orders /\ job[r].pay \in Payments
      /\ payments[job[r].pay].order = job[r].order
  BY DEF SoundInv, JobsSound, Shape, HasPay, Settling
<1>3. ASSUME Settling(job[s])
      PROVE  /\ job[r].op = "paid" /\ job[s].op = "paid" /\ job[s].ok = job[r].ok
             /\ job[s].pay = job[r].pay
  <2>1. job[r].op = "paid" /\ job[s].op = "paid" /\ job[s].ok = job[r].ok
    BY <1>1, <1>3 DEF Differ, Settling
  <2>2. job[s].pay \in Payments /\ payments[job[s].pay].order = job[s].order
    BY <1>3 DEF SoundInv, JobsSound, Shape, HasPay
  <2>3. job[s].pay = job[r].pay
    BY <1>2, <2>2, CheckoutAssumption DEF SoundInv, OneMaker
  <2>4. QED  BY <2>1, <2>3
<1>4. Making(job[s]) => HasPay(job[s])
  BY <1>2 DEF SoundInv, OneMaker, PaymentsOf
<1>5. QED  BY <1>3, <1>4

LEMMA SettleReported ==
    ASSUME SoundInv, SoundInv', SettleInv, NEW r \in Requests, UpdatePayment(r)
    PROVE  SettleInv'
<1> DEFINE o == job[r].order
           p == job[r].pay
<1>t. /\ TypeOK /\ job[r] \in Job /\ job[r].op = "paid" /\ job[r].at = "payment"
      /\ o \in Orders /\ p \in Payments /\ payments[p].order = o /\ payments[p] \in PaymentRow
  BY DEF UpdatePayment, At, SoundInv, TypeOK, JobsSound, Shape, HasPay, Settling
<1>1. UNCHANGED <<orders, crossed, patched>>
  BY DEF UpdatePayment
<1>2. /\ \A s \in Requests \ {r} : job'[s] = job[s]
      /\ job'[r].op = "paid" /\ job'[r].at = "child" /\ job'[r].order = o /\ job'[r].pay = p
      /\ job'[r].ok = job[r].ok /\ job'[r].success = job[r].success
  BY <1>t DEF UpdatePayment, Goto, TypeOK, Job
<1>3. /\ \A q \in Payments : q # p => payments'[q] = payments[q]
      /\ payments'[p].order = o
      /\ payments'[p].status = IF job[r].ok THEN "success" ELSE "failed"
      /\ payments'[p].success = (job[r].ok \/ job[r].success \/ payments[p].success)
  BY <1>t, ReportWrites
<1>4. \A s, t \in Requests : Concord(s, t)'  BY <1>t, <1>1, <1>2, ConcordKept
<1>5. /\ \A q \in Orders \ {o} : ~Disturbed(q)' => Settled(q)'
      /\ \A s \in Requests \ {r} :
            job[s].order # o /\ ~Disturbed(job[s].order)' => Consistent(s)' /\ Ready(s)'
  BY <1>t, <1>1, <1>2, <1>3, SettleElsewhere
<1>6. Settled(o)'
  <2>1. Underway(r, o)'  BY <1>2 DEF Underway
  <2>2. QED  BY <2>1 DEF Settled
<1>7. ASSUME ~Disturbed(o)
      PROVE  job[r].success = (job[r].ok \/ payments[p].success)
  BY <1>t, <1>7 DEF SettleInv, Consistent
<1>8. ASSUME ~Disturbed(o)  PROVE Consistent(r)' /\ Ready(r)'
  <2>1. payments'[p].success = (job[r].ok \/ payments[p].success)  BY <1>3, <1>7, <1>8
  <2>2. job[r].success = (job[r].ok \/ payments'[p].success)  BY <1>7, <1>8, <2>1
  <2>3. Consistent(r)'  BY <1>2, <1>3, <2>2 DEF Consistent
  <2>4. Ready(r)'  BY <1>2 DEF Ready, Making
  <2>5. QED  BY <2>3, <2>4
<1>9. ASSUME NEW s \in Requests \ {r}, job[s].order = o, ~Disturbed(o)
      PROVE  Consistent(s)' /\ Ready(s)'
  <2>1. /\ Settling(job[s]) => job[s].op = "paid" /\ job[s].ok = job[r].ok /\ job[s].pay = p
        /\ Making(job[s]) => HasPay(job[s])
    BY <1>t, <1>9, SameWord DEF Disturbed, Settling
  <2>2. Consistent(s)  BY <1>9 DEF SettleInv
  <2>3. payments'[p].success = (job[r].ok \/ payments[p].success)  BY <1>3, <1>7, <1>9
  <2>6. Ready(s)'  BY <1>2, <2>1 DEF Ready
  <2>7. CASE Settling(job[s])
    <3>1. /\ job[s].op = "paid" /\ job[s].ok = job[r].ok /\ job[s].pay = p /\ job'[s] = job[s]
      BY <1>2, <2>1, <2>7
    <3>2. job[s].at # "read" => job[s].success = (job[s].ok \/ payments[p].success)
      BY <2>2, <3>1 DEF Consistent
    <3>3. job[s].at # "read" => job[s].success = (job[s].ok \/ payments'[p].success)
      BY <2>3, <3>1, <3>2
    <3>4. Consistent(s)'  BY <1>3, <3>1, <3>3 DEF Consistent
    <3>5. QED  BY <2>6, <3>4
  <2>8. CASE ~Settling(job[s])
    BY <1>2, <2>6, <2>8 DEF Consistent, Settling
  <2>9. QED  BY <2>7, <2>8
<1>10. QED  BY <1>1, <1>2, <1>4, <1>5, <1>6, <1>8, <1>9 DEF SettleInv, Disturbed

LEMMA SettleOrder ==
    ASSUME SoundInv, SoundInv', SettleInv, NEW r \in Requests,
           UpdateOrderAfterPayment(r) \/ UpdateOrderStatus(r)
    PROVE  SettleInv'
<1>t. PICK o \in Orders, p \in Payments :
         /\ job[r].order = o /\ job[r].pay = p /\ payments[p].order = o /\ payments[p] \in PaymentRow
         /\ TypeOK /\ job[r] \in Job /\ job[r].op \in {"paid", "edit"} /\ job[r].at = "order"
  BY DEF UpdateOrderAfterPayment, UpdateOrderStatus, At, SoundInv, TypeOK, JobsSound, Shape, HasPay, Settling
<1>1. UNCHANGED <<payments, crossed, patched>>
  BY DEF UpdateOrderAfterPayment, UpdateOrderStatus, history
<1>2. job'[r] = IdleJob /\ \A s \in Requests \ {r} : job'[s] = job[s]
  BY <1>t DEF UpdateOrderAfterPayment, UpdateOrderStatus, Answer, TypeOK
<1>3. PICK st \in Status :
         /\ \/ UpdateOrderAfterPayment(r) /\ st = OrderStatusAfter(job[r])
            \/ UpdateOrderStatus(r) /\ st = job[r].status
         /\ SetOrder(o, [status |-> st])
  BY <1>t DEF UpdateOrderAfterPayment, UpdateOrderStatus, OrderStatusAfter, Status, Job
<1>4. orders'[o].status = st /\ \A q \in Orders \ {o} : orders'[q] = orders[q]
  <2>1. orders' = [orders EXCEPT ![o].status = st]  BY <1>t, <1>3, OrderSettled DEF TypeOK
  <2>2. QED  BY <1>t, <2>1 DEF TypeOK, OrderRow
<1>5. \A s, t \in Requests : Concord(s, t)'  BY <1>1, <1>2, IdleShape, ConcordKept
<1>6. /\ \A q \in Orders \ {o} : ~Disturbed(q)' => Settled(q)'
      /\ \A s \in Requests \ {r} :
            job[s].order # o /\ ~Disturbed(job[s].order)' => Consistent(s)' /\ Ready(s)'
  BY <1>t, <1>1, <1>2, <1>4, IdleShape, SettleElsewhere
<1>7. Consistent(r)' /\ Ready(r)'  BY <1>2, IdleShape DEF Consistent, Ready
<1>8. ASSUME ~Disturbed(o)  PROVE Settled(o)'
  <2>0. Consistent(r)  BY <1>t, <1>8 DEF SettleInv
  <2>1. CASE UpdateOrderStatus(r)
    <3>1. job[r].op = "edit"  BY <2>1 DEF UpdateOrderStatus, At
    <3>2. payments[p].status = job[r].status  BY <1>t, <2>0, <3>1 DEF Consistent
    <3>3. st = job[r].status  BY <1>3, <3>1 DEF UpdateOrderAfterPayment, At
    <3>4. Agree(o, p)'  BY <1>1, <1>4, <3>2, <3>3 DEF Agree
    <3>5. QED  BY <1>t, <1>1, <3>4, CheckoutAssumption DEF Settled, SoundInv, OneMaker
  <2>2. CASE UpdateOrderAfterPayment(r)
    <3>1. job[r].op = "paid"  BY <2>2 DEF UpdateOrderAfterPayment, At
    <3>2. st = OrderStatusAfter(job[r])  BY <1>3, <3>1 DEF UpdateOrderStatus, At
    <3>3. /\ payments[p].status = IF job[r].ok THEN "success" ELSE "failed"
          /\ job[r].success = (job[r].ok \/ payments[p].success)
      BY <1>t, <2>0, <3>1 DEF Consistent
    <3>4. CASE job[r].ok
      <4>1. Agree(o, p)'  BY <1>1, <1>4, <3>2, <3>3, <3>4 DEF Agree, OrderStatusAfter
      <4>2. QED  BY <1>t, <1>1, <4>1, CheckoutAssumption DEF Settled, SoundInv, OneMaker
    <3>5. CASE ~job[r].ok /\ payments[p].success
      <4>1. Agree(o, p)'  BY <1>1, <1>4, <3>2, <3>3, <3>5 DEF Agree, FailedLate, OrderStatusAfter
      <4>2. QED  BY <1>t, <1>1, <4>1, CheckoutAssumption DEF Settled, SoundInv, OneMaker
    <3>6. CASE ~job[r].ok /\ ~payments[p].success
      <4>1. Agree(o, p)'  BY <1>1, <1>4, <3>2, <3>3, <3>6 DEF Agree, OrderStatusAfter
      <4>2. QED  BY <1>t, <1>1, <4>1, CheckoutAssumption DEF Settled, SoundInv, OneMaker
    <3>7. QED  BY <3>4, <3>5, <3>6
  <2>3. QED  BY <2>1, <2>2
<1>9. ASSUME NEW s \in Requests \ {r}, job[s].order = o, ~Disturbed(o)
      PROVE  Consistent(s)' /\ Ready(s)'
  <2>1. Consistent(s) /\ (Making(job[s]) => HasPay(job[s]))
    BY <1>t, <1>9, SameWord DEF SettleInv, Disturbed, Settling
  <2>2. QED  BY <1>1, <1>2, <2>1 DEF Consistent, Ready
<1>10. QED  BY <1>1, <1>2, <1>5, <1>6, <1>7, <1>8, <1>9, IdleShape DEF SettleInv, Disturbed

LEMMA SettleEdited ==
    ASSUME SoundInv, SoundInv', SettleInv, NEW r \in Requests, UpdateParentPayment(r)
    PROVE  SettleInv'
<1>t. PICK o \in Orders, p \in Payments :
         /\ job[r].order = o /\ job[r].pay = p /\ payments[p].order = o /\ payments[p] \in PaymentRow
         /\ TypeOK /\ job[r] \in Job /\ job[r].op = "edit" /\ job[r].at = "payment"
  BY DEF UpdateParentPayment, At, SoundInv, TypeOK, JobsSound, Shape, HasPay, Settling
<1>1. /\ UNCHANGED <<orders, crossed>>
      /\ patched' = patched \cup {q \in {o} : job[r].restrict}
  BY <1>t DEF UpdateParentPayment
<1>2. /\ \A s \in Requests \ {r} : job'[s] = job[s]
      /\ \/ job[r].restrict /\ job'[r] = IdleJob
         \/ ~job[r].restrict /\ job'[r].op = "edit" /\ job'[r].at = "order" /\ job'[r].order = o
            /\ job'[r].pay = p /\ job'[r].status = job[r].status /\ job'[r].ok = job[r].ok
  BY <1>t DEF UpdateParentPayment, Goto, Answer, TypeOK, Job
<1>3. payments'[p].status = job[r].status /\ payments'[p].order = o
      /\ \A q \in Payments : q # p => payments'[q] = payments[q]
  <2>1. payments' = [payments EXCEPT ![p].status = job[r].status]  BY <1>t, EditWrites
  <2>2. QED  BY <1>t, <2>1 DEF TypeOK, PaymentRow
<1>4. \A s, t \in Requests : Concord(s, t)'
  BY <1>t, <1>1, <1>2, IdleShape, ConcordKept
<1>5. /\ \A q \in Orders \ {o} : ~Disturbed(q)' => Settled(q)'
      /\ \A s \in Requests \ {r} :
            job[s].order # o /\ ~Disturbed(job[s].order)' => Consistent(s)' /\ Ready(s)'
  BY <1>t, <1>1, <1>2, <1>3, IdleShape, SettleElsewhere
<1>6. ASSUME ~Disturbed(o)'  PROVE Settled(o)'
  <2>1. ~job[r].restrict  BY <1>1, <1>6 DEF Disturbed
  <2>2. Underway(r, o)'  BY <1>2, <2>1 DEF Underway
  <2>3. QED  BY <2>2 DEF Settled
<1>7. Consistent(r)' /\ Ready(r)'
  BY <1>2, <1>3, IdleShape DEF Consistent, Ready, Making
<1>8. ASSUME NEW s \in Requests \ {r}, job[s].order = o, ~Disturbed(o)
      PROVE  Consistent(s)' /\ Ready(s)'
  <2>1. ~Settling(job[s]) /\ (Making(job[s]) => HasPay(job[s]))
    BY <1>t, <1>8, SameWord DEF Disturbed, Settling
  <2>2. QED  BY <1>2, <2>1 DEF Consistent, Ready, Settling
<1>9. QED  BY <1>1, <1>2, <1>4, <1>5, <1>6, <1>7, <1>8 DEF SettleInv, Disturbed

LEMMA SettleMade ==
    ASSUME SoundInv, SoundInv', SettleInv, NEW r \in Requests, CreatePayment(r)
    PROVE  SettleInv'
<1>t. PICK o \in Orders :
         /\ job[r].order = o /\ TypeOK /\ JobsSound /\ job[r] \in Job
         /\ Making(job[r]) /\ ~HasPay(job[r])
         /\ job[r].op = "checkout" => job[r].status = "pending"
         /\ job[r].op = "offline" => job[r].status = "success"
         /\ \A q \in Payments : payments[q].order # o
  BY DEF CreatePayment, SoundInv, TypeOK, JobsSound, Shape, HasPay, Making, Settling, OneMaker, PaymentsOf
<1>1. UNCHANGED <<orders, crossed, patched>>  BY DEF CreatePayment, history
<1>2. PICK p \in Payments :
         /\ payments[p] = NoPaymentRow
         /\ payments' = [payments EXCEPT ![p] =
               [order |-> o, status |-> job[r].status,
                success |-> FALSE, token |-> FALSE, priced |-> job[r].priced]]
         /\ job' = [job EXCEPT ![r].at = "child", ![r].pay = p]
  BY <1>t, PaymentStep
<1>3. payments'[p].order = o /\ payments'[p].status = job[r].status
      /\ \A q \in Payments \ {p} : payments'[q] = payments[q]
  BY <1>t, <1>2 DEF TypeOK
<1>4. /\ \A s \in Requests \ {r} : job'[s] = job[s]
      /\ job'[r].op = job[r].op /\ job'[r].at = "child" /\ job'[r].order = o /\ job'[r].ok = job[r].ok
  BY <1>t, <1>2 DEF TypeOK, Job
<1>5. \A s, t \in Requests : Concord(s, t)'  BY <1>t, <1>1, <1>4, ConcordKept
<1>6. /\ \A q \in Orders \ {o} : ~Disturbed(q)' => Settled(q)'
      /\ \A s \in Requests \ {r} :
            job[s].order # o /\ ~Disturbed(job[s].order)' => Consistent(s)' /\ Ready(s)'
  <2>1. payments[p].order = NoOrder  BY <1>2 DEF NoPaymentRow
  <2>2. QED  BY <1>t, <1>1, <1>3, <1>4, <2>1, SettleElsewhere
<1>7. ASSUME ~Disturbed(o)  PROVE Settled(o)'
  <2>1. orders[o].status = IF job[r].op = "checkout" THEN "pending" ELSE "paid"
    BY <1>t, <1>7 DEF SettleInv, Ready
  <2>2. Agree(o, p)'  BY <1>t, <1>1, <1>3, <2>1 DEF Agree, Making
  <2>3. QED  BY <1>t, <1>3, <2>2 DEF Settled
<1>8. Consistent(r)' /\ Ready(r)'
  BY <1>t, <1>4 DEF Consistent, Ready, HasPay, Making
<1>9. ASSUME NEW s \in Requests \ {r}, job[s].order = o  PROVE Consistent(s)' /\ Ready(s)'
  <2>1. ~Settling(job[s])
    BY <1>t, <1>9 DEF JobsSound, Shape, HasPay
  <2>2. ~Making(job[s])  BY <1>t, <1>9 DEF SoundInv, OneMaker
  <2>3. QED  BY <1>4, <2>1, <2>2 DEF Consistent, Ready, Settling
<1>10. QED  BY <1>1, <1>4, <1>5, <1>6, <1>7, <1>8, <1>9 DEF SettleInv, Disturbed

LEMMA SettleBegun ==
    ASSUME SoundInv, SoundInv', SettleInv, NEW r \in Requests,
           CreateOrderViaTransaction(r) \/ CreateOffline(r)
    PROVE  SettleInv'
<1>t. /\ TypeOK /\ JobsSound /\ RowsSound /\ job[r] \in Job /\ Shape(job[r])
      /\ orders \in [Orders -> OrderRow]
  BY DEF SoundInv, TypeOK, JobsSound
<1>1. /\ UNCHANGED <<payments, patched>>
      /\ \E j : Enter(r, j)
  BY DEF CreateOrderViaTransaction, CreateOffline
<1>2. crossed \subseteq crossed' /\ Idle(r) /\ \A s \in Requests \ {r} : job'[s] = job[s]
  BY <1>t, <1>1 DEF Enter, TypeOK
<1>3. PICK o \in Orders :
         /\ orders[o].status = "none" /\ job'[r].order = o
         /\ Making(job'[r]) /\ ~HasPay(job'[r])
         /\ orders'[o].status = IF job'[r].op = "checkout" THEN "pending" ELSE "paid"
         /\ \A q \in Orders \ {o} : orders'[q] = orders[q]
  <2>1. CASE CreateOrderViaTransaction(r)
    <3>1. PICK o \in Orders, membership \in BOOLEAN, method \in Methods :
             /\ InsertOrder(o, NewOrder("pending", membership))
             /\ Enter(r, [IdleJob EXCEPT !.op = "checkout", !.order = o, !.method = method,
                            !.at = IF checkoutPriceEnforced(membership, method)
                                   THEN "price" ELSE "payment"])
      BY <2>1 DEF CreateOrderViaTransaction
    <3>2. "pending" \in Status  BY DEF Status
    <3>3. orders' = [orders EXCEPT ![o] =
             [status |-> "pending", membership |-> membership, card |-> orders[o].card]]
      BY <1>t, <3>1, <3>2, OrderInserted DEF InsertOrder
    <3>4. /\ job'[r].order = o /\ job'[r].op = "checkout" /\ job'[r].at \in {"price", "payment"}
      BY <1>t, <3>1 DEF Enter, IdleJob, TypeOK
    <3>5. orders[o].status = "none"  BY <3>1 DEF InsertOrder
    <3>6. Making(job'[r]) /\ ~HasPay(job'[r])  BY <3>4 DEF Making, HasPay, Settling
    <3>7. orders'[o].status = "pending" /\ \A q \in Orders \ {o} : orders'[q] = orders[q]
      BY <1>t, <3>3
    <3>8. QED  BY <3>4, <3>5, <3>6, <3>7
  <2>2. CASE CreateOffline(r)
    <3>1. PICK o \in Orders :
             /\ InsertOrder(o, NewOrder("paid", TRUE))
             /\ Enter(r, [IdleJob EXCEPT !.op = "offline", !.at = "payment", !.order = o,
                                         !.method = "offline", !.status = "success"])
      BY <2>2 DEF CreateOffline
    <3>2. "paid" \in Status  BY DEF Status
    <3>3. orders' = [orders EXCEPT ![o] =
             [status |-> "paid", membership |-> TRUE, card |-> orders[o].card]]
      BY <1>t, <3>1, <3>2, OrderInserted DEF InsertOrder
    <3>4. /\ job'[r].order = o /\ job'[r].op = "offline" /\ job'[r].at = "payment"
      BY <1>t, <3>1 DEF Enter, IdleJob, TypeOK
    <3>5. orders[o].status = "none"  BY <3>1 DEF InsertOrder
    <3>6. Making(job'[r]) /\ ~HasPay(job'[r])  BY <3>4 DEF Making, HasPay, Settling
    <3>7. orders'[o].status = "paid" /\ \A q \in Orders \ {o} : orders'[q] = orders[q]
      BY <1>t, <3>3
    <3>8. QED  BY <3>4, <3>5, <3>6, <3>7
  <2>3. QED  BY <2>1, <2>2
<1>4. /\ \A p \in Payments : payments[p].order # o
      /\ \A s \in Requests : job[s].order # o
      /\ job[r].order = NoOrder
  BY <1>t, <1>2, <1>3, CheckoutAssumption DEF RowsSound, JobsSound, NoPaymentRow, Shape, Idle, IdleJob
<1>5. \A s, t \in Requests : Concord(s, t)'
  <2>1. ~Settling(job'[r])  BY <1>3 DEF Making, Settling
  <2>2. QED  BY <1>2, <2>1, ConcordKept
<1>6. /\ \A q \in Orders \ {o} : ~Disturbed(q)' => Settled(q)'
      /\ \A s \in Requests \ {r} :
            job[s].order # o /\ ~Disturbed(job[s].order)' => Consistent(s)' /\ Ready(s)'
  BY <1>1, <1>2, <1>3, <1>4, SettleElsewhere
<1>7. Settled(o)'  BY <1>1, <1>4 DEF Settled
<1>8. Consistent(r)' /\ Ready(r)'  BY <1>3 DEF Consistent, Ready, Making
<1>9. QED  BY <1>2, <1>4, <1>5, <1>6, <1>7, <1>8 DEF SettleInv

LEMMA SettleOutside ==
    ASSUME SoundInv, SoundInv', SettleInv,
           \/ \E o \in Orders : CreateV2Order(o) \/ PatchOrderByID(o)
           \/ \E c \in Cards : PatchCardDetailsById(c) \/ SoftDeleteCardDetailById(c)
           \/ UNCHANGED vars
    PROVE  SettleInv'
<1>1. UNCHANGED <<payments, job, crossed>> /\ patched \subseteq patched'
  BY DEF CreateV2Order, PatchOrderByID, PatchCardDetailsById, SoftDeleteCardDetailById,
         vars, tables, history
<1>2. \A q \in Orders : orders'[q] = orders[q] \/ Disturbed(q)'
  BY DEF CreateV2Order, PatchOrderByID, PatchCardDetailsById, SoftDeleteCardDetailById,
         vars, tables, InsertOrder, SetOrder, SoundInv, TypeOK, Disturbed
<1>3. \A s, t \in Requests : Concord(s, t)'  BY <1>1, ConcordKept
<1>4. \A s \in Requests, o \in Orders : Underway(s, o) => Underway(s, o)'  BY <1>1 DEF Underway
<1>5. QED  BY <1>1, <1>2, <1>3, <1>4, SettleStill

LEMMA SettleNext == SoundInv /\ SettleInv /\ [Next]_vars => SettleInv'
<1> SUFFICES ASSUME SoundInv, SettleInv, [Next]_vars  PROVE SettleInv'  OBVIOUS
<1>1. SoundInv'  BY SoundNext
<1>2. CASE \E r \in Requests : ReportPaid(r) \/ BeginEdit(r) \/ CreateCard(r) \/ Cut(r)
  BY <1>1, <1>2, SettleRequests
<1>3. CASE \E r \in Requests : CreateOrderViaTransaction(r) \/ CreateOffline(r)
  BY <1>1, <1>3, SettleBegun
<1>4. CASE \E r \in Requests : Handler(r)
  BY <1>1, <1>4, SettleRequests, SettleReported, SettleOrder, SettleEdited, SettleMade DEF Handler
<1>5. CASE \/ \E o \in Orders : CreateV2Order(o) \/ PatchOrderByID(o)
           \/ \E c \in Cards : PatchCardDetailsById(c) \/ SoftDeleteCardDetailById(c)
           \/ UNCHANGED vars
  BY <1>1, <1>5, SettleOutside
<1>6. QED  BY <1>2, <1>3, <1>4, <1>5 DEF Next

LEMMA SettleAlways == Spec => []SettleInv
<1>1. Init => SettleInv
  BY CheckoutAssumption, IdleShape
  DEF Init, SettleInv, Concord, Differ, Consistent, Ready, Settled, NoPaymentRow
<1>2. QED  BY <1>1, SoundAlways, SettleNext, PTL DEF Spec

(* An order and its payment agree whenever no request is on the order, none *)
(* was cut or crossed one that says otherwise and nobody set the order's    *)
(* status alone; the same report may have been sent many times over         *)
(* (handleTransactionPaid, handlePaymentUpdate).                            *)
THEOREM OrdersSettledTogether == Spec => []SettledTogether
<1>1. SoundInv /\ SettleInv => SettledTogether
  <2> SUFFICES ASSUME SoundInv, SettleInv, NEW o \in Orders, NEW p \in PaymentsOf(o), Undisturbed(o)
               PROVE  Agree(o, p)
    BY DEF SettledTogether, Agree
  <2>1. Settled(o)  BY DEF SettleInv, Undisturbed, Disturbed
  <2>2. \A r \in Requests : ~Underway(r, o)  BY DEF Undisturbed, InFlight, Underway
  <2>3. QED  BY <2>1, <2>2 DEF Settled, PaymentsOf
<1>2. QED  BY <1>1, SoundAlways, SettleAlways, PTL

-----------------------------------------------------------------------------
(* The token an order recurs with.                                          *)
LEMMA TokenNext == SoundInv /\ TokenInv /\ [Next]_vars => TokenInv'
<1> SUFFICES ASSUME SoundInv, TokenInv, [Next]_vars  PROVE TokenInv'  OBVIOUS
<1>t. TypeOK /\ JobsSound /\ payments \in [Payments -> PaymentRow]  BY DEF SoundInv, TypeOK
<1>1. edited \subseteq edited'
  <2>1. CASE \E r \in Requests : Handler(r)
    BY <2>1 DEF Handler, EnforceCheckoutPrice, CreatePayment, CreateChildPayment, CreateTransaction,
       OpenPage, NoPage, ReadPayment, UpdatePayment, UpdatePelecard, UpdateOrderAfterPayment,
       UpdateParentPayment, UpdateOrderStatus, AttachCard, history
  <2>2. CASE \E r \in Requests :
                \/ CreateOrderViaTransaction(r) \/ ReportPaid(r) \/ BeginEdit(r)
                \/ CreateOffline(r) \/ CreateCard(r) \/ Cut(r)
    BY <2>2 DEF CreateOrderViaTransaction, ReportPaid, BeginEdit, CreateOffline, CreateCard, Cut
  <2>3. CASE \/ \E o \in Orders : CreateV2Order(o) \/ PatchOrderByID(o)
             \/ \E c \in Cards : PatchCardDetailsById(c) \/ SoftDeleteCardDetailById(c)
    BY <2>3 DEF CreateV2Order, PatchOrderByID, PatchCardDetailsById,
                SoftDeleteCardDetailById, history
  <2>4. CASE UNCHANGED vars  BY <2>4 DEF vars, history
  <2>5. QED  BY <2>1, <2>2, <2>3, <2>4 DEF Next
<1>2. CASE UNCHANGED <<payments, brought>>  BY <1>1, <1>2 DEF TokenInv
<1>3. ASSUME NEW r \in Requests, UpdatePayment(r)  PROVE TokenInv'
  <2>1. ASSUME NEW p \in Payments, p = job[r].pay
        PROVE  /\ p \in brought' => payments'[p].token
               /\ payments'[p].status # "paid"
    <3>1. /\ payments'[p].status = IF job[r].ok THEN "success" ELSE "failed"
          /\ payments[p].token => payments'[p].token
          /\ p \in brought' => p \in brought \/ payments'[p].token
      BY <1>3, <2>1, ReportWrites
    <3>2. QED  BY <3>1 DEF TokenInv
  <2>2. ASSUME NEW p \in Payments, p # job[r].pay
        PROVE  payments'[p] = payments[p] /\ (p \in brought' => p \in brought)
    BY <1>3, <2>2, ReportWrites
  <2>3. QED  BY <1>1, <2>1, <2>2 DEF TokenInv
<1>4. ASSUME NEW r \in Requests, UpdateParentPayment(r)  PROVE TokenInv'
  <2>1. job[r].order \in edited' /\ brought' = brought  BY <1>4 DEF UpdateParentPayment
  <2>2. job[r].pay \in Payments /\ payments[job[r].pay].order = job[r].order
    BY <1>t, <1>4 DEF UpdateParentPayment, At, JobsSound, Shape, HasPay, Settling
  <2>3. payments' = [payments EXCEPT ![job[r].pay].status = job[r].status]  BY <1>4, EditWrites
  <2>4. \A p \in Payments : /\ payments'[p] = payments[p] \/ payments'[p].order \in edited'
                            /\ payments'[p].token = payments[p].token
    BY <1>t, <2>1, <2>2, <2>3 DEF PaymentRow
  <2>5. QED  BY <1>1, <2>1, <2>4 DEF TokenInv
<1>5. ASSUME NEW r \in Requests, CreatePayment(r)  PROVE TokenInv'
  <2>1. PICK p \in Payments :
           /\ payments[p] = NoPaymentRow
           /\ payments' = [payments EXCEPT ![p] =
                 [order |-> job[r].order, status |-> job[r].status,
                  success |-> FALSE, token |-> FALSE, priced |-> job[r].priced]]
    BY <1>5, PaymentStep
  <2>2. job[r].status # "paid"
    BY <1>t, <1>5 DEF CreatePayment, JobsSound, Shape
  <2>3. \A q \in Payments : \/ payments'[q] = payments[q]
                            \/ payments'[q].status # "paid" /\ q \notin brought
    BY <1>t, <2>1, <2>2 DEF TokenInv, NoPaymentRow
  <2>4. brought' = brought  BY <1>5 DEF CreatePayment
  <2>5. QED  BY <1>1, <2>3, <2>4 DEF TokenInv
<1>6. QED  BY <1>2, <1>3, <1>4, <1>5, PaymentWriters

(* An order a report brought a token for has a token to recur with, or a    *)
(* failure was reported after the success: nobody else takes the token away *)
(* (GetTokensForOrders, handleTransactionPaid).                             *)
THEOREM PaidOrdersCanRenew == Spec => []PaidCanRenew
<1>1. Init => TokenInv  BY DEF Init, TokenInv, NoPaymentRow
<1>2. TypeOK /\ TokenInv /\ SettledTogether => PaidCanRenew
  <2> SUFFICES ASSUME TypeOK, TokenInv, SettledTogether,
                      NEW o \in Orders, Undisturbed(o), o \notin edited, orders[o].status = "paid",
                      NEW p \in PaymentsOf(o), p \in brought
               PROVE  HasToken(o) \/ \E q \in PaymentsOf(o) : FailedLate(q)
    BY DEF PaidCanRenew
  <2>1. FailedLate(p) \/ payments[p].status \in {"success", "paid"}
    BY DEF SettledTogether
  <2>2. p \in Payments /\ payments[p].order = o  BY DEF PaymentsOf
  <2>3. CASE payments[p].status \in {"success", "paid"}
    BY <2>2, <2>3 DEF TokenInv, HasToken
  <2>4. QED  BY <2>1, <2>3
<1>3. QED  BY <1>1, <1>2, SoundAlways, CheckoutTypeCorrect, TokenNext, OrdersSettledTogether, PTL DEF Spec

=============================================================================
