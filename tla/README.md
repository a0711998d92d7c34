# vh-srv-orders in TLA+

A verification project kept beside the Go code of the orders service. The
service sells memberships: a member checks out an order, pays for it on the
Pelecard gateway, and from then on a monthly billing command charges the card
again. Everything that is hard to get right in it concerns money and a table
that several programs write without locking it.

Paths below are relative to the repository (`src/`).

## 1. The system

### Components

| Component | State | Operations | Hard because |
|---|---|---|---|
| Billing: charging (`domain/billing/charge.go`, `renewal.go`, `repo/renewal.go`) | `orders` (Status, Flag, PaymentDate), `payments`, `payments_pelecard`; per process: resolved orders, a worker per order | collect, pre-resolve, create a pending payment, charge on the token terminal, then on the EMV terminal, finalize in a transaction; `retry-pricing-errors` | worker pool, lost answers, failed commits, crashes between charge and record, two processes, members who cancel meanwhile |
| Billing: reconcile (`domain/billing/reconcile.go`) | the log lines of charges whose finalization failed | read, verify, finalize | runs against tables that have moved on |
| Billing: the month (`domain/billing/billing.go`, `skip.go`, `repo/orders_flag.go`, `cmd/billing.go`) | `orders` (Flag, userkey), the clock | clear flags, fill user keys, flag, skip doubles and fresh payers, charge; each step can be switched off | dozens of separate statements, stopped and repeated, interleaved with checkouts and cancellations; month boundaries |
| Muhlafim (`domain/billing/muhlafim.go`) | Flag | flags orders whose card the company refused | between flagging and charging |
| Gateway client (`pkg/pelecard`) | none; the gateway's own record of charges | charge by token with a retry after 401, pages, muhlafim | an error does not say whether the card was charged |
| Checkout (`api/transaction_handler.go`, `api/checkout_pricing.go`, `repo/payments_helpers.go`, `repo/orders_helpers.go`, `repo/transaction_helper.go`) | orders, payments and their child rows, transactions; the payment page | create order, payment, child row and transaction, open the page; the payer's callback | several statements without a transaction; callbacks repeated, late, contradictory |
| Administration (`api/orders_handlers.go`, `api/payments_handlers.go`, `api/card_details_handler.go`, `api/orders_flag.go`) | the same tables, `card_details` | cancel, edit, sell offline, attach cards, delete, flag | concurrent with everything above |
| Coupons (`api/coupon_handler.go`, `repo/coupons.go`, `domain/coupon`) | coupons, redemptions | create, update, redeem under a row lock, revoke | cap, fields locked after the first redemption |
| Help-haver (`repo/hh_request.go`, `repo/hh_grant.go`) and manual discounts (`repo/manual_discount.go`) | requests, grants, discounts | request, approve, deny, cancel, upsert | one active row per member, without a constraint or a lock that says so |
| Pricing (`domain/pricing`, with `pkg/priority` and `pkg/accounting`) | the accounting client's answers | the price of an account: donations, grant, manual discount, coupons | seven sources read one after the other, each of which may fail or have changed |
| Access tokens (`pkg/keycloak/client.go`) | cached token, claims, failure count | token, refresh, login, invalidate, backoff | shared by all workers |
| Accounts (`repo/accounts_helpers.go`, `repo/operation_helper.go`) | accounts, and the orders, cards and transactions that point at them | get or create, patch, merge, rename, revert, delete | key races, data moved while used |
| Profile events (`pkg/profiles`, `domain/events_handler.go`, `events`) | a queue of eight events | listen, handle, emit | acknowledged before handled, repeated and reordered, while requests create the same accounts |
| Specials, accounting, importers, HTTP plumbing, migrations | | | little state of their own |

### How they interact

The components meet in the database. The API handlers and the billing commands
are separate programs; within a billing command the workers share the list of
resolved orders and one token cache. `orders.Flag` is the billing's queue:
flagging writes `torenew`, the skip rules `skip`, the muhlafim step `muh_...`,
pre-resolution `pricing_error`, and finalization `renewed`; the next run clears
all of them. `orders.Status` and `orders.PaymentDate` are written by the
checkout, the administration and the billing, and it is the date that says
whether an order is due. The gateway is called between two database
transactions, and its answer may be lost.

### What makes each correct

* Charging: every charge the service hears of is recorded, journalled or still
  in a worker's hands; nothing is booked that was not charged; an order is
  recorded as charged once; the second terminal is not tried after a charge; the
  command ends.
* Reconcile: it can finalize every line the billing wrote, and never settles a
  payment twice.
* The month: an order is renewed once a month, whoever has paid is not charged,
  whoever is due is not forgotten, and a member never has two orders in the
  billing's hands.
* Checkout: nobody pays for half a purchase; an order is paid by a success on
  record; an order and its payment end in agreement whatever reports and edits
  came; a success is never unsaid; an order paid on the page can be charged when
  it recurs.
* Coupons: the cap holds, a redeemed coupon's benefit does not change.
* Help-haver and manual discounts: a request becomes one grant or none; two
  rows hold together only where neither transaction could see the other's.
* Pricing: the price is the cheapest of the offers, none that was not on offer,
  and none at all when a source did not answer; the donations' discount is
  earned.
* Tokens: a valid token is never refused, a fresh one never thrown away, logins
  are bounded by the failures.
* Accounts: one account a key; an order, its card, its transaction and its
  `userkey` stay with one account through merges and renames.
* Events: once the queue is empty, and it will be, the accounts are those of the
  profiles, except for the events the process lost.

`PROJECT.json` lists the hazards of this code, each at its line, with the
properties that would catch it.

## 2. Modules

| Module | Models | Role |
|---|---|---|
| `OrdersTable` | the columns of `orders` the billing uses and its SQL statements, as functions on a table | used by both systems below |
| `Renewal` | the charge step: both commands' two phases, workers, terminals, gateway, finalization, reconcile, crashes, cancellation, several processes | core |
| `PaymentLedger` | what the payments table promises about a member's money | abstract specification of `Renewal` |
| `BillingMonth` | a month of billing: Step 1 statement by statement, muhlafim, charging as one step an order, retries, members' payments and cancellations, the clock | the commands over time |
| `TokenSource` | the shared Keycloak credential: cache, mutex, backoff, and the request-with-retry loop of its callers | used by every outgoing call |
| `Coupons` | one discount coupon: create and update handlers, redemptions under the row lock | the administration against the members |
| `Checkout` | a purchase from the order row to the page's answer, the staff's edits, offline sales and cards, statement by statement | the two tables `BillingMonth` starts from |
| `Accounts` | who owns what: accounts by keycloak id, creation, patch, merge, rename, revert, deletion, with the rows that point at them | used by `ProfileEvents` |
| `ProfileEvents` | the profile service's stream, the listener's queue and its consumer, with restarts and repeated messages, over `Accounts` | composition |
| `Discounts` | one member's Help-Haver requests, grants and manual discounts, as transactions under READ COMMITTED | used by `Pricing` |
| `Pricing` | one price evaluation, source by source, while `Discounts`, the gifts and the coupons move on | composition |
| `MCRenewal`, `MCBillingMonth`, `MCTokenSource`, `MCCoupons`, `MCCheckout`, `MCMembers`, `MCPricing` | instances for TLC | |
| `RenewalProofs`, `RenewalLedgerProofs`, `BillingMonthProofs`, `TokenSourceProofs`, `CouponsProofs`, `CheckoutProofs`, `AccountsProofs`, `PricingProofs` | theorems | |

### Renewal and the code

A state is the shared tables (`orders`, `payments`), the gateway's truth
(`charged`), the log (`journal`), and for each process the phase of its command
(`run`) and a record for each order (`job`), which is the worker's stack frame:
the step of `processOrder` it is at, the terminal, the payment of this leg and
the one of the token leg. `lost` is a history variable: the charges whose
answer reached no code that survived.

| Code | Actions |
|---|---|
| `chargeWithPricing`, `RetryPricingErrors` | `StartCharge`, `StartRetry`, `NothingResolved`, `BeginCharge`, `BeginRetryCharge`, `MarkResolvedFails` |
| `preResolve` | `LoadResolves`, `LoadFails`, `FlagPricingError` |
| `chargeResolved` | `TakeJob`, `EndRun`, `Cancel` |
| `processWithRecovery`, `handleNonRetryableError` | `NextLeg`, `AfterCommit`, `Panic` |
| `CreateRenewalPayment` | `CreateRenewalPayment`, `CreateFails` |
| `ChargeByToken`, `sendAuthorized` | `Approve`, `Decline`, `GatewayError`, `NoCredential`, `Rejected`, `RejectedAgain` |
| `FinalizeRenewal` | `FinalizeCommits`, `FinalizeRollsBack`, `CommitFails` |
| `Reconcile` | `ReconcileReads`, `ReconcileFinalizes` |
| the member's `PATCH /v2/order/:id`; the end of the process | `CancelOrder`; `Crash` |

The gateway is external. It charges a payment at most once, since a request
carries the payment's reference and a repeated one is replayed; it may charge
and have its answer lost. A transaction is one step; a statement outside one is
a step of its own, and each may fail. Amounts, prices, card data, statistics
and the events emitted after the fact are left out: no step branches on them.
The context is `context.Background()` in the commands, so `Cancel` stands for
the branches of `ctx.Done()` that the code has and its tests exercise.

### BillingMonth and the code

A state is the table, the orders whose `userkey` is filled, the clock's month,
and the command: the statement it is at, the period it was given, its options,
and the list it iterates over. `flagAndSkipOperations` becomes `Clear`,
`UpdateOrdersUserKey`, `ListMembers`, `SelectOrder`, `FlagSelected`, `Flagged`,
`ListDouble`, `ListFresh`, `Skip`, `SkipFails`, `FlagsSet`, because members pay
(`PaymentSucceeds`, `PaymentFails`) and cancel (`CancelOrder`) between any two
of its statements. `ReadMuhlafim`, `FlagMuhlafim` and `MuhlafimDone` are Step 2;
`CollectToRenew`, `PreResolve`, `ChargeRecorded` and `ChargeFailed` are Step 3,
where each order has one of the three effects `Renewal` can have on its row
(recorded, refused, none: `Ends` may leave orders behind). `Ends` is the end of
the command at any statement: an error, a crash, or the last one.

Dates are months, counted from 1, and 0 is NULL: the code compares dates only
with the first and the last instant of a month. `First` is PostgreSQL's
`ORDER BY "PaymentDate" DESC LIMIT 1`, where NULL comes first, and leaves open
which of two orders of the same month comes first. A pending order may be one
that is inserted only later, which is why `UpdateOrdersUserKey` may leave it
out. `basis`, `paid`, `missed`, `touched`, `handed` and `renewed` are history
variables the properties need; no guard reads them.

A month begins with whatever flags the last one left, and the staff set flags by
hand between any two statements (`PatchFlag`, the `Flag` column of
`PATCH /v2/order/:id`). `StartBilling` takes any month of `Periods`, as
`cmd/billing.go` takes any month of this year and earlier ones: a month that is
over, the current one, or one that has not come. What else the staff may set in
an order's row under a running command, a status, a type, an owner or a payment
date, is left out; of its status the cancellation is there.

The callback is modelled with what it does to the order. It has no guard on the
order's status: a repeated success dates a paid or cancelled order anew. A
failure reported for a payment that once succeeded finds the old value of the
`success` column and books the order as paid, hence `PaymentFails` only for an
order that was never paid.

### TokenSource and the code

A state is the client (`holder` of the mutex, `token` with its claims,
`failures`, and `recent` for "`lastFailure` is less than the backoff ago"), what
Keycloak has issued, which tokens are expired by their claims and which the
services refuse, and for each caller its request: where it is, the token it
sends, and, on the retry, the token the first 401 was about (`first`, which
also says that this is the retry).

| Code | Actions |
|---|---|
| `sendAuthorized` (pelecard), `executeWithRetry` (profiles, accounting) | `StartCall`, `CallEnds`, `Unauthorized`; `Retries` is the part of an invalidation that goes back to the token |
| `AccessToken` | `Lock`, `CachedToken`, `BacksOff`, `AsksKeycloak` |
| its login and refresh, and the claims check after each | `KeycloakGrants`, `KeycloakGrantsInvalid`, `ReloginInvalid`, `RefreshFails`, `LoginFails` |
| `InvalidateToken(token)`, `Invalidate()` | `InvalidateToken` (pelecard), `Invalidate` (profiles, accounting): `compares`, chosen once, says which client it is |
| time and the services | `Expires`, `Rejects`, `BackoffPasses` |

A call to Keycloak is one step with the mutex held, so others wait for it in
`acquire` or before an invalidation. The Keycloak library decodes a token only
if its claims are valid, so a token can fail the client's own check only by
expiring in between (`KeycloakGrantsInvalid`). A token whose claims lie in the
future and become valid by waiting is left out. A service may refuse a token
the claims still allow (`Rejects`), and a caller need not be refused because a
token is bad: its request may end before that.

### Coupons and the code

A state is the coupon's row, the redemptions (at most one a member, as the
unique index has it), the row lock's holder, the step of each redemption's
transaction and of each administrator's handler with the row it has read, and
the day. Other coupons are their codes (`TakenCodes`).

| Code | Actions |
|---|---|
| `handleCreateCoupon`, `CreateCoupon` | `CreateCoupon` |
| `handleUpdateCoupon`: the row, the count with the checks, the UPDATE | `ReadCoupon`, `CountRedemptions`, `UpdateCoupon`; `UpdateFails` |
| `RedeemCoupon`: `SELECT ... FOR UPDATE` with the window checks, the count and the INSERT, the commit | `LockCoupon`, `InsertRedemption`, `CommitRedemption`; `RollBack` |
| `RevokeRedemption` | `RevokeRedemption` |
| the clock | `Tick` |

A redemption refused right after its SELECT leaves no trace and is left out.
The UPDATE waits for the row lock, the handler's SELECTs do not. `Validate`
looks at the two benefit modes with the code's own predicates, for which a row
may hold the columns of both.

### Checkout and the code

A state is five tables, the payments whose page is `opened`, and a record for
each HTTP request: its handler, the statement it comes to next, and what it has
read. No handler here has a transaction, so each statement is an action and
`Cut` may end a request before any of them: an error answer, a lost connection,
a crash.

| Code | Actions |
|---|---|
| `handleTransactionOrderAndPay` | `CreateOrderViaTransaction`, `EnforceCheckoutPrice`, `CreatePayment`, `CreateChildPayment`, `CreateTransaction`, `OpenPage`, `NoPage` |
| `handleTransactionPaid`, `UpdatePayment`, `UpdateOrderAfterPayment` | `ReportPaid`, `ReadPayment`, `UpdatePayment`, `UpdatePelecard`, `UpdateOrderAfterPayment` |
| `handlePaymentUpdate` | `BeginEdit`, `UpdateParentPayment`, `UpdateOrderStatus` |
| `handleCreateOffline`, `handleV2OrderCreate`, `handleOrderUpdateByID` | `CreateOffline` (then the payment's actions), `CreateV2Order`, `PatchOrderByID` |
| `UpdateOrdersToken`, the card handlers | `CreateCard`, `AttachCard`, `PatchCardDetailsById`, `SoftDeleteCardDetailById` |
| `GetTokensForOrders` | `HasToken`, an operator: what billing will find |

The statement builders write only the columns they are given (`Assigned`), and
this is where the failure reported after a success comes from: the payment is
read first, its old `success` column stays in memory, the payment becomes failed
and the order stays paid (`ReadPayment`, `OrderStatusAfter`). `FailedLate` is
such a payment, and the properties name the consequence: the order counts as
paid, and `GetTokensForOrders` no longer finds its payment's token.

`handleTransactionPaid` asks the gateway nothing. It books what the client
sends, and the owner of an order may send it: `ReportPaid` may say anything of
any payment, of one whose page was never opened too. `PaidOnRecord` therefore
speaks of the success on record and not of money at the gateway. Nor is the
payment type checked (`repo/payments_helpers.go:258`): a type the code does not
know makes a payment without a child row, and a transaction, and leads to the
page all the same (`"other"` in `Methods`; `odd` remembers such payments).

`crossed` and `patched` mark the orders for which agreement is not promised: a
request ended early or two requests that say different things were writing at
once; or somebody set the order's status without its payment's. The same report
running twice is not among them, nor are reports that follow one another.
`edited` marks orders the staff settled, by an edit or an offline sale, and
`brought` the payments a reported success came with a token for.

### Accounts, ProfileEvents and the code

A state of `Accounts` is the accounts by id, who owns each order, card and
transaction, the orders' `userkey`, the one rename the trace remembers, and for
each request the ids it has read. A merge and a hard delete are one
transaction and one step; what they rest on was read before. A rename, its
revert and the billing's refresh of the orders' keys are two steps each: what
their statement sees, and what they commit. Under READ COMMITTED an UPDATE finds
its rows in the snapshot it began with, waits for a row another transaction has
changed, and looks again at that row alone: a rename takes the orders it saw
under the old key that are under it still (`Found`), and the refresh, one
`UPDATE ... FROM accounts`, gives an order the key its account had when the
statement began, even if a rename has committed another one since. The two
accounts of a merge are read one after the other, so that they can turn out to
be the same one, and the merge then deletes the account it has just moved rows
to. There is no foreign key on `orders."AccountID"`, there is one on cards and transactions.

| Code | Actions |
|---|---|
| `GetOrCreateAccount`, `GetOrCreateAccountFromProfile`, `PatchOrCreateAccount` | `GetAccountIDByKeycloakID`, `LookupProfile`, `createAccountForKey`, `LookupAgain`, `PatchAccount` |
| what a request does with the id | `InsertOrder`, `InsertTransaction`, `CreateCardDetails`, `AttachCard` |
| `MergeAccountsOrders`, `HardDeleteAllUserDataByAccountID` | `BeginMerge`, `ReadDestination`, `Merge`; `HardDelete` |
| `PerformOperation`, `RevertOperation` | `BeginRename`, `PerformOperation`; `ReadTrace`, `FindOrders`, `RevertOperation` |
| the billing's refresh of the keys | `BeginRefresh`, `UpdateOrdersUserKeyFromAccounts` |
| the staff's requests | `CreateAccount`, `PatchByStaff`, `ForgetKey`, `DeleteByStaff` |

A rename changes the account only where key and email both match, and the
orders' `userkey` by the key alone: `matches` is the email. `orphaned` and
`misnamed` are history: orders inserted or moved for an account that had gone,
and orders a step has parted from their account's key. That can be a patch of
the key alone, a rename that matched no account, an id read before, an order
that came under the old key after the rename had looked for such orders, or a
refresh that wrote a key it had seen before a rename.

An update writes the columns that have a value (`prepareAccountUpdateQuery`), and
an event leaves those without one unset (`onUpdateProfile`): what a member clears
in the profile stays in the account. `data` is one such column, `Cleared` the
versions of a profile in which it is empty, and `Patched` keeps the old value
then. The staff may also give an order another account or card, and a card
another account (`repo/orders_helpers.go:483` and `:527`,
`repo/card_details_helpers.go:132`), with no check of what they type;
this is left out, and `RowsOfOneAccount` and `UserKeyFollows` are about tables
where nobody did.

`ProfileEvents` adds the service (`CreateProfile`, `UpdateProfile`,
`DeleteProfile`), the stream with its acknowledgements (`Enqueue`, `Ack`,
`Redeliver`), the queue and its one consumer (`HandleProfilesEvent`, `Handle`,
`Drop`) and `Restart`. `handleMessage` acknowledges a message once it is in the
queue, so a restart loses what waits there. The queue's capacity is written
`2^10`, which in Go is 8 (`pkg/profiles/event_listener.go:79`): `Enqueue` waits
when it is full. `Handle` is `Accounts`' own code run by the consumer, against
the profile as it is then and not as the event says. An error is logged and a
panic recovered, and the event is behind (`Drop`).
`missed` marks the keys for which nothing is promised: events lost or failed,
and accounts a request changed, or made for a profile already deleted. Other
facts of this code the model has: an update event can write an old key back over
a renamed one; nothing ever clears `deleted_at`; and a deletion or a merge meets
`ErrNoRowsAffected` where its caller expects `pgx.ErrNoRows`, so it is reported
as an error and changes nothing more.

### Discounts, Pricing and the code

`Discounts` is one member's rows. A handler is a transaction; a statement that
ends older rows first searches what is committed (`Scan`), then waits for the
rows another transaction has locked and takes those that still match (`Hold`);
what it writes is seen at its commit, and the insert is part of that step. Two
transactions can therefore each search before the other commits, and leave two
rows that hold together. `stamp` and `seen` record exactly that.

| Code | Actions |
|---|---|
| `CreateHHRequest` | `BeginCreate`, `Scan`, `Hold`, `CreateHHRequest` |
| `ConcludeHHRequest`, approved; denied | `BeginConclude`, `Claim`, `Scan`, `Hold`, `ConcludeHHRequest`; `Deny` |
| `CancelHHGrant`, `CancelManualDiscount` | `BeginCancel`, `Scan`, `Hold`, `Cancel` |
| `UpsertManualDiscount` | `BeginUpsert`, `Scan`, `Hold`, `UpsertManualDiscount` |
| a failed statement, a broken deadlock; time | `Rollback`; `Tick` |

Days stand for instants. `NOW()` is the transaction's beginning; a grant's start
is the Go clock at the approval or the administrator's date, hence a choice.

`Pricing` is `EvaluateV2Price` and its callers: `Start`, `ReadProfile`,
`ReadSpouse`, then the donations (`ReadCustomers`, `ReadReceivables`,
`ReadQuickBooks`, `ReadEurope`, `DonationsFail`), `ReadDiscount` for the grant and
for the manual discount, `ReadCoupons`, `RowsFail` for each of the three, and
`Resolve`, which refuses a price with an error in it. `Donate`, `CouponChange`,
`Cached` and all of `Discounts` happen in between. The tables by country group
and currency, the fixed exchange rates and the percent off the base price are
the code's. `Household` gives the emails, the customers they lead to in Priority
and the sums at stake.

The code computes with float64, the model with integers: prices and gifts are
in cents, what they are worth in shekels in tenths of a cent, so that two
different amounts are at least a tenth of a cent apart. A rounding error is far
smaller, and decides only where two amounts are equal. There the model leaves
both answers open: a sum that is just the threshold may earn the donations'
discount or not (`ReadEurope`, `Short`), and of two offers equal in two
currencies either stays (`applyDiscount`). In Germany 636 euros are worth
`636 * 3.6 = 2289.6` shekels, the threshold `(53 * 3.6) * 12` is
`2289.6000000000004`, and the donor of exactly a year's price is refused. Where
all sums are whole shekels (`Exact`) nothing is rounded, and the comparison is
sure.

What the code does and the model has: of two equally cheap offers in one
currency the earlier stays; offers are compared in shekels; an unknown currency
counts as dollars, in Priority as shekels; a profile that is not found makes a single person with the
account's email, a spouse whose profile is not found still doubles the
threshold; what a manual discount or a coupon offers is a percent above 0 and up
to 100 or a price that is not negative (`Benefit`, what `validate` and
`Validate` let through; percents are whole here and a float in the code); a
coupon that cannot be understood refuses the price, and a manual
discount that cannot be resolved is passed over (left out: its properties are
validated when it is written). Only the billing commands let the accounting
client keep its answers, for thirty minutes. An account without a key is asked
for no grant, manual discount or coupon (`v2_evaluation.go:244`): their rows are
found by the key, so that to the model it is a member who has none. The same
branches pass over a provider that is nil, which only tests leave out.

The price may be dearer than at any single moment of the evaluation: a discount
that ended before its source was read and one that began after are both missed.
The code promises no snapshot. `NeverCheaperThanOwed` is the other direction.

## 3. What the runs show

| Run | Instance | Question | Result |
|---|---|---|---|
| `renewal_single` | 1 order, 4 payment ids, 1 process at a time | what a single process guarantees, with its crashes and restarts | 84 thousand states, holds |
| `renewal_two` | 1 order, 3 payment ids, 2 processes | what any number of processes guarantees | 1.2 million states, holds |
| `renewal_workers` | 2 orders, 2 workers, fair | the command ends; `Renewal` implements `PaymentLedger` | 565 thousand states, holds |
| `renewal_double` | 1 order | `ErrPostPayment` "MUST NOT retry on another terminal" | violated, see below |
| `month_one` | 1 member, 2 recurring orders, months 2 and 3, runs for this month or the next, every starting table with last month's flags, flags set by hand | once a month, one order a member; who is due is not forgotten, who has paid is not charged | 3.7 million states, holds |
| `month_lastpaid` | 1 member | the order flagged is the one paid last | violated, see below |
| `token_calls` | 2 callers, 3 tokens, either kind of client, fair | no usable token is thrown away, suppression is earned, the retry shows another token, every request is answered | 327 thousand states, holds |
| `coupon_cap` | 2 members, 2 redemptions and 2 updates at once | a redemption agrees with the row at its commit, its benefit is not over, the row stays valid, no new terms after a redemption | 336 thousand states, holds |
| `coupon_locked` | 1 member, 2 updates at once | "Fields locked once the coupon has redemptions" | violated, see below |
| `checkout` | 1 order, payment and card, 2 requests at a time, any payment type, any report | a page opens on whole rows; order and payment end in agreement; paid is on record, a success stays, and recurs | 1.2 million states, holds |
| `members` | 2 keycloak ids, 3 account ids, 1 order, 1 card, 2 requests and the consumer, 9 mixes of operations, fair | one account a key, rows of one account, `userkey` follows, accounts agree with profiles once the events are through, which they will be | 487 thousand states, holds |
| `pricing` | 3 rows a table, 2 days, 2 transactions at once or 1 and an evaluation, 5 mixes of operations | what two transactions can leave together; what price an evaluation may arrive at | 1.3 million states, holds |

Deadlock is not checked in the runs of `Renewal`: once nothing is left to bill,
or the payment ids are used up, the system rightly stops. In `BillingMonth` a
command can always be started, in `TokenSource` a call, and in `Coupons` an
update; deadlock is checked there. A purchase comes to its end in `Checkout`,
the ids run out in `Accounts`, and a behaviour of `Pricing` ends with its
evaluation: it is not checked in these.

### Bounds

* Payment ids: a token and an EMV leg use two, so three and four ids allow a
  whole renewal, its repetition after a crash, and reconcile between them.
* Orders: the orders of `Renewal` meet only in the worker pool, whose limit two
  orders and two workers reach.
* `LastMonth`: month 2 is the first that has a month before it (the double
  payments rule looks there); month 3 lets a run cross the boundary and be late.
* One command at a time in `BillingMonth`: two concurrent ones are `Renewal`'s
  subject.
* `Periods` are months 2 and 3, the clock's: a run may be for the current month,
  for the one before it (month 2 in month 3), or for one not begun (month 3 in
  month 2). `RenewedOncePerMonth` excepts an order that a run for a month not
  begun has flagged since it was renewed, and one flagged by hand.
* The hand sets `torenew`, the flag the charges are collected by; the theorems
  are about any flag.
* `DueMembersBilled` excepts members with orders that were never paid.
* Tokens: `Threshold` is 2 where the code has 3, and `MaxFailures` equals it,
  since only reaching the threshold is looked at. Three tokens are enough for
  one call to go through a login, a refresh and a second login while another
  holds an older token.
* Coupons: a month has two days, so that a benefit in months begins before the
  redemption or on its day; a cap of one, which an update may raise to two,
  meets two members; two administrators are the least that can write over one
  another.
* Checkout: requests on different orders share no row, so one order is enough;
  two requests in flight, any number one after the other. The reports are free
  to come again: their number is not bounded. An edit writes "failed", which
  contradicts a report of success; a patch sets an order paid and a membership;
  the other words go the same way, and the theorems are about all of them.
* Members: two ids, since a merge, a rename and a stale id involve two accounts;
  a third account id lets one be made again after a deletion. One order and one
  card meet every statement that moves rows. Queue capacity 1 stands for 8: the
  listener waits either way. Profiles have three versions, of which the second
  leaves the column empty, one message comes again once, and the process restarts
  once.
* `Mixes` names what operations meet in one behaviour, chosen in `Init`. A
  mix puts together operations that can fall between one another's steps; all
  operations at once are out of reach. In
  `MCPricing` a mix also bounds the transactions that commit (2 to 4) and the
  changes of gifts, coupons and cached answers (up to 3).
* Prices: one household in Israel that shares a Priority customer, one in
  Bulgaria (medium group, euros) billed from the cache, a donor in Germany of
  exactly twelve times 53 euros, and a single member of a country without a
  group, with gifts in a currency the tables do not know. The
  sums are a year of membership, at the threshold or at half of it for a couple,
  so that one gift less or one customer counted twice decides.

### Fairness

`FairSpec` asks only that a command which has started keeps running: weak
fairness of its command steps and its workers' steps together. The Go scheduler
runs every goroutine, each database call returns, and the charge client has a
timeout (`pkg/pelecard/api.go`). Nothing is assumed of the member, of
cancellation, of panics or of crashes, and no particular answer is assumed of
the gateway.

`TokenSource!FairSpec` asks that a caller whose step is possible again and
again takes it (`SF_vars(Step(c))`): each request to Keycloak and to the
services is bounded by a timeout, and Go's mutex, once a goroutine has waited
for a millisecond, is handed to it and not to a newcomer. Weak fairness would
not do, since the mutex is free only now and then. Nothing is asked of time,
of the services, or of new calls.

`EventsFairness` asks weak fairness of the listener (`Enqueue`, `Ack`) and of
the consumer (`HandleProfilesEvent`, `Handle`), one goroutine each that runs
until the process stops. Nothing is asked of requests, of the profile service, of
errors, panics or restarts; `EventuallyDrained` holds because there are finitely
many profile changes, repeats and restarts.

### Disagreements found

* `repo/renewal.go:159` returns the error of a failed commit as it is. The
  caller recognizes only `ErrPostPayment`, so a charge that went through is
  followed by one on the EMV terminal, against the comment in
  `common/errors.go`. `FallbackAfterChargeExplained` states the guarantee that
  is left: after a charge that went through, the second terminal is tried only
  where the answer was lost or the commit failed.
* `repo/orders_flag.go:49` sorts NULL dates first, so an order that was never
  paid shadows the one the member paid last, which is then not renewed.
  `DueMembersBilled` holds for members without such an order.
* `api/coupon_handler.go:304` counts the redemptions before the row is written,
  and every column is written as it was read: a member who redeems meanwhile has
  discount, benefit or code changed, and so has one who redeems between two
  administrators' updates of which the second writes back what it read before
  the first. The comment at line 311 says they are locked. `NoNewTerms` is what
  is left: only requests begun before the first redemption can do it.

Other weaknesses the models exhibit and the properties except, since the code
nowhere says otherwise: a failed skip statement lets a member who has paid be
charged (`missed`), two processes charge an order twice, an order cancelled
during a run is charged and its row set back to paid, a retry charges by flag
alone; two administrators' updates of different fields of a coupon undo one
another; a coupon with a number of months and dates in the wrong order passes
`Validate` and gives every redeemer an empty benefit (`BenefitNotOver` excepts
it); a late `Invalidate` of the profiles client throws away the token another
caller has just obtained, at the price of a login; a failure reported after a
success leaves an order paid whose payment is failed and whose token billing
does not find; a report of success is booked though nobody asked the gateway,
and the comment at `api/transaction_handler.go:93` ("don't let anybody fool us")
is about the status a checkout starts with only; a payment of an unknown type
has a page and no child row; a report, an edit or a checkout cut between two
statements leaves order and payment apart, with nothing that repairs them; two transactions at
once leave two pending requests, grants or discounts of one member; a rename
that matches no account moves the orders all the same; a refresh of the keys that
runs into a rename leaves the orders under the old key, until the next refresh; a
merge may move orders to an account that has gone; a column cleared in the profile
stays in the account.

The comment at `domain/pricing/v2_evaluation.go:299` grants the donations'
discount from twelve times the base price on; float64 refuses some who gave
exactly that (636 euros, above). `EligibleEarned` excepts the tie.

The comment at `domain/pricing/coupon_discount.go:28` says that a fixed price
is skipped when its currency differs from the base price's;
`couponCandidatePrice` below it keeps the currency and ranks the offer in
shekels, and its own comment says so. The model follows the code.

## 4. What is proved

Every invariant that a passing run checks is a theorem, with every action
property and the refinement of `PaymentLedger`; what stays with TLC is the
liveness. The runs show the properties on small instances, with mutants of the
code that break each of them; the theorems hold for any sets of orders,
payments, processes, workers, members, keys, sessions and starting tables that
satisfy the assumptions each module names:

* `RecurringAssumption`, `RenewalAssumption`, `BillingMonthAssumption`,
  `CheckoutAssumption`: the sentinels are not ids, the starting tables are well
  typed, in `Renewal` with no order renewed yet, in `BillingMonth` with any flags;
  and the statuses the staff write, free text in the code, are among six;
* `TokenSourceAssumption`, `CouponsAssumption`: thresholds and bounds are
  numbers, requests are made of the columns the handlers let through;
* `AccountsAssumption`: the rows there at the start obey the unique index
  on the key, and the consumer is one of the workers; `EventsAssumption`: the
  queue has a positive capacity;
* `DiscountsAssumption`, `PricingAssumption`: benefits are what the handlers
  validate, and a household has finitely many donor records, each with a sum.

The type invariants of `Renewal`, `BillingMonth`, `TokenSource` and `Coupons`
are proved and not repeated in the runs.

* `RenewalProofs`: `TypeCorrect`, with one lemma for each group of actions after
  the types of the table operators; and, for any number of processes,
  `ChargesAccountedFor`, `SuccessesAreCharged`, `FallbackExplained`,
  `JournalStaysReconcilable`, `RenewedArePaid`. These rest on one inductive
  invariant, `MoneyInv`: two workers never have the same payment in their hands
  and the two legs of an order differ; a payment being sent or finalized is
  pending and its order's, unless reconcile was faster; a worker that holds the
  answer "success" holds a charged payment; a payment in the log is not one a
  worker could still settle as a failure. Without the exclusiveness of payments
  none of the five is inductive: another worker could settle the payment one
  counts on.
* `RenewalLedgerProofs`: `RenewalImplementsLedger`, the step simulation: every
  action maps to a step of `PaymentLedger` or a stutter. For at most one
  process, `RecordedChargesStick` and `ChargesRecordedOnce`: `StickInv` adds to
  `MoneyInv` that no worker has an order with a recorded success outside the log
  at work, for it was collected with the flag `torenew` or `pricing_error`, and
  finalization took both away.
* `BillingMonthProofs`: `MonthTypeCorrect` and `OrdersRenewedOncePerMonth`. The
  flag `renewed` is no protection, since every run clears it. `RenewedInv` says
  what protects a renewed order: its payment date is of this month, hence it is
  not due for this month or an earlier one, and so it is in no list a command
  charges from and carries no flag that would put it there; what the staff or a
  run for a later month flags leaves `renewed` at that step. `OneOrderPerMember`:
  `SingleInv` follows the loop that flags, which only looks at members it has
  not seen and starts from cleared flags, those set by hand since (`handed`)
  aside. `PaidMembersLeftAlone`:
  `PaidInv` says why the skip rules find whoever had paid, namely that the order
  he paid keeps its date and its key while the flags are set. `DueMembersNotLeftOut`:
  `BilledInv` says that all a due member was billed for has its key filled, so
  that the query's first row is the order he paid last.
* `TokenSourceProofs`: `TokenSourceTypeCorrect`, `OneTokenInUse`,
  `RetriesUseAnotherToken`, `SuppressionIsEarned`. `CacheInv` says that while a
  caller asks Keycloak no valid token is cached, that a token about to be
  reported is bad for good, that (where the client compares) the only usable
  token is the cached one, and that the token a retry has to avoid is not
  cached any more. The last is inductive because Keycloak never issues a token
  twice.
* `CouponsProofs`: `CouponTypeCorrect`, `RowsStayValid`, `TermsFrozenForNewcomers`,
  `RedemptionsFollowTheRow`, `BenefitsAhead`. `CouponInv` says that what a
  transaction has checked still holds, since the row it has locked is as it read
  it; that every row a handler is about to write has passed `Validate`; and
  that, once somebody has redeemed, every handler under way holds locked fields
  that were `offered`. `GrantInv` carries a benefit that is not over from the
  insert to the commit; it rests on the arithmetic of months.
* `CheckoutProofs`: `CheckoutTypeCorrect`, `SuccessesKept`, `PagesOnWholePurchases`,
  `OrdersPaidOnRecord`, `OrdersSettledTogether`, `PaidOrdersCanRenew`. `SoundInv`
  says what the handlers hold in memory: ids of rows that are there, and one
  maker of an order's only payment. `PageInv` adds that a purchase on its way to
  a page is whole so far at every statement, `RecordInv` that a report in flight
  past its own update has left, or found, the success on the payment that it is
  about to book the order by, and `TokenInv` that a success with a token brought
  keeps it. `SettleInv` is about two rows written by
  two statements: they agree, or a request is between the two; and as long as
  nobody has crossed it with a contrary report, what it has still to write is
  what it wrote.
* `AccountsProofs`: `EventsTypeCorrect`, `KeysAreUnique`, `RowsStayTogether`,
  `UserKeysFollow`. A handler works on rows it read some statements ago. `Fits`
  says what it still needs of them, and `Steady` what any step, of anybody,
  leaves of it: ids stay handed out, a deleted account does not come back, an
  order leaves its account only as that account goes. One lemma shows that
  `Steady` steps keep `Fits`, so that each action is looked at only twice.
  `AccountsCatchUp` proves `DrainedAgrees`, by saying of each key what is still
  to come (`AgreeInv`): its profile's account, version or deletion waits in the
  stream or the queue, is in the consumer's hand, or is in the table already (a
  version that leaves the column empty has nothing to bring);
  and whatever the consumer has read that is no longer so is followed by an
  event. The invariant was checked on mixes of the run before it was proved.
* `PricingProofs`, of `Discounts`: `DiscountsTypeCorrect`, `GrantsAndApprovals`,
  `OneDiscountHolds`. `DiscountsInv` says that a transaction at its write has
  caught every row it could see and has to end, that no row is locked by two,
  that grants and approved requests correspond one to one, and that of two
  discounts the later writer's does not meet an earlier one it could see.
  This last part (`RowsApart`) is about the day the later one was written and not
  about today: `OneHolds` itself is not inductive, a tick could break it.
* `PricingProofs`, of `Pricing`: `LeastPriceCharged`, `PricedFromAllSources` from
  `PricingInv` (the price found so far is the least of what was read; each
  source that was asked answered or left an error); `PricingTypeCorrect`,
  `DonationsCountedOnce`, `PriceWasOwed` from `SumsInv`. This says that each
  gift lies between its extremes, that every answer the client keeps lies
  between the sums of the extremes over the records it was asked for, that the
  total so far does over the records added up so far, and that each offer read
  was on sale since the evaluation began. The extremes only widen, so the
  verdict stands. `DonationsCountedOnce` is exact above and below the threshold
  and leaves the tie open, but in whole shekels.

  The sums are folds of the community modules over sets, and the prover has no
  induction that takes a predicate. The module therefore proves its own small
  theory of sums (`Adds`, `Sum`): two functions that add up the subsets of a
  finite set agree, there is one, the order does not matter, sums grow with
  their terms, and the sum over a union of disjoint sets is the sum of the sums.
  Each is proved from a least counterexample (`LeastSubset`), which exists since
  `<` is well founded on the sizes; `SitesSum` then identifies `SumSites` with
  `Sum`.

Only model-checked: `CommandEnds`, `CallsEnd` and `EventuallyDrained`, since
liveness under fairness is beyond the prover. The three runs that expect a
violation show disagreements, and nothing is proved of them.

## 5. Plan

What is left to prove is what no run states yet:

1. an abstract specification of what `Checkout` promises of a payment on the
   page, in the manner of `PaymentLedger` (a success is
   recorded before the order is paid, and for good), with the step simulation;
2. one atomic step a handler as an abstract specification of `Discounts`, which
   it implements as long as the writers can see each other's rows;
3. for `TokenSource`, where the callers name the token they invalidate, a cache
   that one caller at a time renews.

Worth modelling later: the charging steps of `BillingMonth` as those of
`Renewal`, `Checkout`'s reports as the callback of `BillingMonth`, and the
specials with the event that activates them.

## 6. What is not modelled, and why

* HTTP routing, roles and middleware keep no state, and handlers are taken to be
  called by somebody allowed to. Migrations run once.
* The importers and the reports to Priority, QuickBooks and Europe are one-way
  input and output.
* Specials are a legacy table, written a row at a time; no decision of the
  modelled components reads it.
* The events this service emits: nothing here reads them or waits for them.
* Soft deletions of orders and payments: `deleted_at` is not looked at by the
  billing's own queries.
* Columns the staff set by hand that no modelled handler relates to other rows:
  an order's account and card, a card's account, and, under a billing run, an
  order's status other than cancelled, type, `userkey` and payment date.
* Checkout: the dummy terminal of the test installations, which opens no page.
* Accounts: rows made without a key, which no other operation finds by key; the
  columns of payments and specials a rename writes besides; the
  rename of an email alone, whose SQL lacks a closing quote and always fails.
* Discounts and prices: rows whose properties do not parse other than coupons',
  members without any email, start dates before the first day, listings, the
  explanation and the audit properties of a price.
* Formatting, parsing of log lines, logging, metrics and Sentry do not influence
  any step.
