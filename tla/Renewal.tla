------------------------------ MODULE Renewal ------------------------------
(* The charge step of the monthly billing: `billing start` (Step 3) and     *)
(* `billing retry-pricing-errors` collect the flagged orders, pre-resolve   *)
(* their data and price, and charge them with a pool of workers, first on   *)
(* the token terminal and then on the EMV terminal; `billing reconcile`     *)
(* replays the CHARGE_SUCCESS_DB_FAIL lines of the log. The orders and      *)
(* payments tables and the gateway are shared by every process; what a      *)
(* process has read lives in its memory and goes with it in a crash.        *)
(* Amounts, prices and card data are left out: no step branches on them     *)
(* once the price is resolved.                                              *)
EXTENDS OrdersTable, FiniteSets

CONSTANTS
    Payments,      \* ids the payments table can hand out (a bound)
    NoPayment,     \* a leg that has no payment row
    NoOrder,       \* the order of a payment id not handed out yet
    Runs,          \* processes that may run a billing command
    MaxWorkers,    \* --max-workers
    StartOrders    \* the tables a billing command may find: Orders are those
                   \* whose renewal still lies ahead, none is renewed yet

ASSUME RenewalAssumption ==
    /\ NoPayment \notin Payments
    /\ NoOrder \notin Orders
    /\ MaxWorkers \in Nat \ {0}
    /\ StartOrders \subseteq OrderTable
    /\ \A table \in StartOrders, o \in Orders : table[o].flag # "renewed"

VARIABLES
    orders,    \* the orders table
    month,     \* the month of time.Now(); no action here moves the clock
    payments,  \* the payments table
    charged,   \* the payments the card was charged for: the gateway's truth
    journal,   \* the payments with a CHARGE_SUCCESS_DB_FAIL line in the log
    lost,      \* history: charges whose answer reached no surviving code
    run,       \* per process: the command, its phase, its context
    job,       \* per process and order: where the order's worker stands
    recon      \* the reconcile command: the entry it holds

vars == <<orders, month, payments, charged, journal, lost, run, job, recon>>

-----------------------------------------------------------------------------

PaymentStatus == {"none", "pending", "success", "failed"}

PaymentRow == [order : Orders \cup {NoOrder}, status : PaymentStatus]

(* idle: no command; resolve: preResolve; charge: chargeResolved.           *)
RunState == [phase : {"idle", "resolve", "charge"},
             kind : {"start", "retry"},
             cancelled : BOOLEAN]

(* Where processWithRecovery stands with an order. "create", "send" (and    *)
(* "resend", after a 401) and "finalize" are the three steps of             *)
(* processOrder on one terminal.                                            *)
Active == {"create", "send", "resend", "finalize"}

Job == [pc : {"none", "load", "flag", "excluded", "resolved", "done"} \cup Active,
        terminal : {"token", "emv"},
        pay : Payments \cup {NoPayment},     \* the payment of this leg
        first : Payments \cup {NoPayment},   \* tokenPayment, on the EMV leg
        answer : {"none", "success", "declined", "gateway", "credential"}]

At(pc) == [pc |-> pc, terminal |-> "token", pay |-> NoPayment,
           first |-> NoPayment, answer |-> "none"]

NoJobs == [o \in Orders |-> At("none")]

IdleRun == [phase |-> "idle", kind |-> "start", cancelled |-> FALSE]

IdleRecon == [pc |-> "idle", pay |-> NoPayment]

TypeOK ==
    /\ orders \in OrderTable
    /\ month \in Nat
    /\ payments \in [Payments -> PaymentRow]
    /\ charged \subseteq Payments
    /\ journal \subseteq Payments
    /\ lost \subseteq Payments
    /\ run \in [Runs -> RunState]
    /\ job \in [Runs -> [Orders -> Job]]
    /\ recon \in [pc : {"idle", "finalize"}, pay : Payments \cup {NoPayment}]

Init ==
    /\ orders \in StartOrders
    /\ month = 2
    /\ payments = [p \in Payments |-> [order |-> NoOrder, status |-> "none"]]
    /\ charged = {}
    /\ journal = {}
    /\ lost = {}
    /\ run = [r \in Runs |-> IdleRun]
    /\ job = [r \in Runs |-> NoJobs]
    /\ recon = IdleRecon

-----------------------------------------------------------------------------
(* Collecting and pre-resolving.                                            *)

Begin(r, kind, ids) ==
    /\ run[r].phase = "idle"
    /\ ids # {}
    /\ run' = [run EXCEPT ![r] = [phase |-> "resolve", kind |-> kind, cancelled |-> FALSE]]
    /\ job' = [job EXCEPT ![r] = [o \in Orders |-> At(IF o \in ids THEN "load" ELSE "none")]]
    /\ UNCHANGED <<orders, month, payments, charged, journal, lost, recon>>

StartCharge(r) == Begin(r, "start", OrderIDsToRenew(orders))

StartRetry(r) == Begin(r, "retry", OrderIDsWithPricingError(orders))

Move(r, o, j) == job' = [job EXCEPT ![r][o] = j]

(* A worker of preResolve has the order's data and price in memory.         *)
LoadResolves(r, o) ==
    /\ job[r][o].pc = "load"
    /\ ~run[r].cancelled
    /\ Move(r, o, At("resolved"))
    /\ UNCHANGED <<orders, month, payments, charged, journal, lost, run, recon>>

(* LoadRenewalData or Resolve returns an error.                             *)
LoadFails(r, o) ==
    /\ job[r][o].pc = "load"
    /\ Move(r, o, At("flag"))
    /\ UNCHANGED <<orders, month, payments, charged, journal, lost, run, recon>>

(* The flag is written whatever the order's flag is by now; a write that    *)
(* fails is logged and the order is left out all the same.                  *)
FlagPricingError(r, o) ==
    /\ job[r][o].pc = "flag"
    /\ \/ orders' = orders
       \/ ~run[r].cancelled /\ orders' = FlagOrder(orders, o, "pricing_error")
    /\ Move(r, o, At("excluded"))
    /\ UNCHANGED <<month, payments, charged, journal, lost, run, recon>>

Resolved(r) == {o \in Orders : job[r][o].pc = "resolved"}

PreResolved(r) ==
    /\ run[r].phase = "resolve"
    /\ \A o \in Orders : job[r][o].pc \notin {"load", "flag"}

Stop(r) ==
    /\ run' = [run EXCEPT ![r] = IdleRun]
    /\ job' = [job EXCEPT ![r] = NoJobs]

(* Every order failed: the command returns.                                 *)
NothingResolved(r) ==
    /\ PreResolved(r)
    /\ Resolved(r) = {}
    /\ Stop(r)
    /\ UNCHANGED <<orders, month, payments, charged, journal, lost, recon>>

BeginCharge(r) ==
    /\ PreResolved(r)
    /\ Resolved(r) # {}
    /\ run[r].kind = "start"
    /\ run' = [run EXCEPT ![r].phase = "charge"]
    /\ UNCHANGED <<orders, month, payments, charged, journal, lost, job, recon>>

(* The retry moves its orders back to torenew first. An order the UPDATE    *)
(* passes over, since its flag has changed, stays among the orders to       *)
(* charge.                                                                  *)
BeginRetryCharge(r) ==
    /\ PreResolved(r)
    /\ Resolved(r) # {}
    /\ run[r].kind = "retry"
    /\ ~run[r].cancelled
    /\ orders' = MarkResolvedForRenew(orders, Resolved(r))
    /\ run' = [run EXCEPT ![r].phase = "charge"]
    /\ UNCHANGED <<month, payments, charged, journal, lost, job, recon>>

MarkResolvedFails(r) ==
    /\ PreResolved(r)
    /\ Resolved(r) # {}
    /\ run[r].kind = "retry"
    /\ Stop(r)
    /\ UNCHANGED <<orders, month, payments, charged, journal, lost, recon>>

-----------------------------------------------------------------------------
(* One order on one terminal.                                               *)

Busy(r) == {o \in Orders : job[r][o].pc \in Active}

(* A free worker receives the order and finds the context still open.       *)
TakeJob(r, o) ==
    /\ run[r].phase = "charge"
    /\ ~run[r].cancelled
    /\ job[r][o].pc = "resolved"
    /\ Cardinality(Busy(r)) < MaxWorkers
    /\ Move(r, o, At("create"))
    /\ UNCHANGED <<orders, month, payments, charged, journal, lost, run, recon>>

(* Mutant of NextLeg: the fallback loop never runs out of terminals.        *)
NextLeg_Forever(j) == [At("create") EXCEPT !.terminal = "emv", !.first = j.pay]

(* After a leg that did not end the order: the EMV terminal after the token *)
(* terminal, the next order after the EMV terminal.                         *)
NextLeg(j) ==
    IF j.terminal = "token"
    THEN [At("create") EXCEPT !.terminal = "emv", !.first = j.pay]
    ELSE At("done")

(* Mutant of Inserted: the order's pending or settled row is used again.    *)
Inserted_Reuses(p, o) ==
    payments' = [payments EXCEPT ![p] = [order |-> o, status |-> "pending"]]

Inserted(p, o) ==
    /\ payments[p].status = "none"
    /\ payments' = [payments EXCEPT ![p] = [order |-> o, status |-> "pending"]]

CreateRenewalPayment(r, o) ==
    /\ job[r][o].pc = "create"
    /\ ~run[r].cancelled
    /\ \E p \in Payments :
          /\ Inserted(p, o)
          /\ Move(r, o, [job[r][o] EXCEPT !.pc = "send", !.pay = p])
    /\ UNCHANGED <<orders, month, charged, journal, lost, run, recon>>

(* None of the three statements runs in a transaction: a row inserted by    *)
(* the first stays pending when a later one fails. The error is not a       *)
(* pre-payment error, so the order goes on to the other terminal.           *)
CreateFails(r, o) ==
    /\ job[r][o].pc = "create"
    /\ \/ payments' = payments
       \/ ~run[r].cancelled /\ \E p \in Payments : Inserted(p, o)
    /\ Move(r, o, NextLeg(job[r][o]))
    /\ UNCHANGED <<orders, month, charged, journal, lost, run, recon>>

(* The request comes back, or not, with an answer; the card may have been   *)
(* charged even when the answer does not say so.                            *)
Answer(r, o, answer, took) ==
    LET p == job[r][o].pay
        known == IF took THEN charged \cup {p} ELSE charged
    IN  /\ charged' = known
        /\ lost' = IF answer \in {"gateway", "credential"} THEN lost \cup ({p} \cap known) ELSE lost
        /\ Move(r, o, [job[r][o] EXCEPT !.pc = "finalize", !.answer = answer])
        /\ UNCHANGED <<orders, month, payments, journal, run, recon>>

Asking(r, o) == job[r][o].pc \in {"send", "resend"}

Approve(r, o) == Asking(r, o) /\ Answer(r, o, "success", TRUE)

(* A reference charged before the 401 is replayed as charged.               *)
Decline(r, o) ==
    /\ Asking(r, o)
    /\ job[r][o].pay \notin charged
    /\ Answer(r, o, "declined", FALSE)

(* Timeout, refused connection, HTTP error, body that does not parse.       *)
GatewayError(r, o) ==
    /\ Asking(r, o)
    /\ \E took \in BOOLEAN : Answer(r, o, "gateway", took)

(* Tokens.Token() fails: the request is not sent.                           *)
NoCredential(r, o) == Asking(r, o) /\ Answer(r, o, "credential", FALSE)

(* The first 401 costs the token and is retried once.                       *)
Rejected(r, o) ==
    /\ job[r][o].pc = "send"
    /\ \E took \in BOOLEAN : charged' = IF took THEN charged \cup {job[r][o].pay} ELSE charged
    /\ Move(r, o, [job[r][o] EXCEPT !.pc = "resend"])
    /\ UNCHANGED <<orders, month, payments, journal, lost, run, recon>>

(* The second is ErrUnauthorized.                                           *)
RejectedAgain(r, o) ==
    /\ job[r][o].pc = "resend"
    /\ \E took \in BOOLEAN : Answer(r, o, "credential", took)

(* Mutants of Finalized: the order is renewed whatever the gateway said; a  *)
(* payment is a success whatever the gateway said.                          *)
Finalized_AlwaysRenews(p, o, ok) ==
    /\ payments' = [payments EXCEPT ![p].status = IF ok THEN "success" ELSE "failed"]
    /\ orders' = Renewed(orders, o, month)

Finalized_AlwaysSuccess(p, o, ok) ==
    /\ payments' = [payments EXCEPT ![p].status = "success"]
    /\ orders' = IF ok THEN Renewed(orders, o, month) ELSE NotRenewed(orders, o)

(* FinalizeRenewal's transaction for payment p of order o.                  *)
Finalized(p, o, ok) ==
    /\ payments' = [payments EXCEPT ![p].status = IF ok THEN "success" ELSE "failed"]
    /\ orders' = IF ok THEN Renewed(orders, o, month) ELSE NotRenewed(orders, o)

(* Mutant of AfterCommit: a success falls through to the other terminal.    *)
AfterCommit_FallsThrough(j) == IF j.answer = "credential" THEN At("done") ELSE NextLeg(j)

(* What the worker does after a finalization that committed: a success ends *)
(* the order, and so does a credential problem; a decline or a gateway      *)
(* error goes on to the other terminal.                                     *)
AfterCommit(j) == IF j.answer \in {"success", "credential"} THEN At("done") ELSE NextLeg(j)

FinalizeCommits(r, o) ==
    LET j == job[r][o] IN
    /\ j.pc = "finalize"
    /\ ~run[r].cancelled
    /\ Finalized(j.pay, o, j.answer = "success")
    /\ Move(r, o, AfterCommit(j))
    /\ UNCHANGED <<month, charged, journal, lost, run, recon>>

(* Mutants of Journalled: a line for every failed finalization; none.       *)
Journalled_Always(j) == journal' = journal \cup {j.pay}

Journalled_Never(j) == journal' = journal

(* The CHARGE_SUCCESS_DB_FAIL line, written on every failed finalization of *)
(* a charge that succeeded.                                                 *)
Journalled(j) == journal' = IF j.answer = "success" THEN journal \cup {j.pay} ELSE journal

(* A statement of the transaction fails: ErrPostPayment, the order ends.    *)
FinalizeRollsBack(r, o) ==
    LET j == job[r][o] IN
    /\ j.pc = "finalize"
    /\ Journalled(j)
    /\ Move(r, o, At("done"))
    /\ UNCHANGED <<orders, month, payments, charged, lost, run, recon>>

(* The commit itself fails: its error is returned as it is, whether or not  *)
(* the server applied the transaction, and the order goes on to the other   *)
(* terminal.                                                                *)
CommitFails(r, o) ==
    LET j == job[r][o] IN
    /\ j.pc = "finalize"
    /\ \/ Finalized(j.pay, o, j.answer = "success")
       \/ UNCHANGED <<payments, orders>>
    /\ Journalled(j)
    /\ Move(r, o, NextLeg(j))
    /\ UNCHANGED <<month, charged, lost, run, recon>>

-----------------------------------------------------------------------------
(* Ends, good and bad.                                                      *)

(* chargeResolved returns when no worker holds an order and none is left to *)
(* take, or the context is cancelled.                                       *)
EndRun(r) ==
    /\ run[r].phase = "charge"
    /\ Busy(r) = {}
    /\ Resolved(r) = {} \/ run[r].cancelled
    /\ Stop(r)
    /\ UNCHANGED <<orders, month, payments, charged, journal, lost, recon>>

(* The caller cancels the context. Workers take no further order, and every *)
(* statement fails; a charge goes on under context.WithoutCancel.           *)
Cancel(r) ==
    /\ run[r].phase # "idle"
    /\ ~run[r].cancelled
    /\ run' = [run EXCEPT ![r].cancelled = TRUE]
    /\ UNCHANGED <<orders, month, payments, charged, journal, lost, job, recon>>

(* The payments of the orders in O whose charge dies with the code that     *)
(* asked for it; the requests on their way may still charge.                *)
Dropped(r, O) ==
    LET sent == {job[r][o].pay : o \in {i \in O : job[r][i].pc \in {"send", "resend"}}}
        held == {job[r][o].pay : o \in {i \in O : job[r][i].pc \in {"send", "resend", "finalize"}}}
    IN  \E took \in SUBSET sent :
           /\ charged' = charged \cup took
           /\ lost' = lost \cup (held \cap (charged \cup took))

(* A panic in a worker is recovered and costs it the order.                 *)
Panic(r, o) ==
    /\ job[r][o].pc \in Active
    /\ Dropped(r, {o})
    /\ Move(r, o, At("done"))
    /\ UNCHANGED <<orders, month, payments, journal, run, recon>>

(* The process dies: what is in the tables and in the log stays.            *)
Crash(r) ==
    /\ run[r].phase # "idle"
    /\ Dropped(r, Orders)
    /\ Stop(r)
    /\ UNCHANGED <<orders, month, payments, journal, recon>>

(* PATCH /v2/order/:id with Status cancelled, by its member or an admin.    *)
CancelOrder(o) ==
    /\ orders[o].status # "cancelled"
    /\ orders' = [orders EXCEPT ![o].status = "cancelled"]
    /\ UNCHANGED <<month, payments, charged, journal, lost, run, job, recon>>

-----------------------------------------------------------------------------
(* billing reconcile, one line of the log at a time. A line whose payment   *)
(* is settled already changes nothing.                                      *)

ReconcileReads ==
    /\ recon.pc = "idle"
    /\ \E p \in journal :
          /\ payments[p].status = "pending"
          /\ recon' = [pc |-> "finalize", pay |-> p]
    /\ UNCHANGED <<orders, month, payments, charged, journal, lost, run, job>>

(* The order is the line's, which verifyEntryMatchesPayment has compared    *)
(* with the payment's.                                                      *)
ReconcileFinalizes ==
    /\ recon.pc = "finalize"
    /\ \/ Finalized(recon.pay, payments[recon.pay].order, TRUE)
       \/ UNCHANGED <<payments, orders>>
    /\ recon' = IdleRecon
    /\ UNCHANGED <<month, charged, journal, lost, run, job>>

-----------------------------------------------------------------------------

(* What a worker of preResolve or of chargeResolved does.                   *)
Worker(r, o) ==
    \/ LoadResolves(r, o)
    \/ LoadFails(r, o)
    \/ FlagPricingError(r, o)
    \/ TakeJob(r, o)
    \/ CreateRenewalPayment(r, o)
    \/ CreateFails(r, o)
    \/ Approve(r, o)
    \/ Decline(r, o)
    \/ GatewayError(r, o)
    \/ NoCredential(r, o)
    \/ Rejected(r, o)
    \/ RejectedAgain(r, o)
    \/ FinalizeCommits(r, o)
    \/ FinalizeRollsBack(r, o)
    \/ CommitFails(r, o)

Order(r, o) == Worker(r, o) \/ Panic(r, o)

Command(r) ==
    \/ NothingResolved(r)
    \/ BeginCharge(r)
    \/ BeginRetryCharge(r)
    \/ MarkResolvedFails(r)
    \/ EndRun(r)

Next ==
    \/ \E r \in Runs :
          \/ StartCharge(r)
          \/ StartRetry(r)
          \/ Command(r)
          \/ Cancel(r)
          \/ Crash(r)
          \/ \E o \in Orders : Order(r, o)
    \/ \E o \in Orders : CancelOrder(o)
    \/ ReconcileReads
    \/ ReconcileFinalizes

Spec == Init /\ [][Next]_vars

(* A command that has started keeps running: its goroutines are scheduled,  *)
(* and every call of theirs returns (the charge client has a timeout).      *)
(* Nothing counts on a panic, a crash or a cancellation to make it end.     *)
FairSpec ==
    /\ Spec
    /\ \A r \in Runs : WF_vars(Command(r) \/ \E o \in Orders : Worker(r, o))

-----------------------------------------------------------------------------
(* What the billing month promises about the member's money.                *)

(* A live worker still holds the charge: it will finalize it, or resend the *)
(* request and have the charge replayed.                                    *)
InFlight(p) ==
    \E r \in Runs, o \in Orders :
        /\ job[r][o].pay = p
        /\ \/ job[r][o].pc = "resend"
           \/ job[r][o].pc = "finalize" /\ job[r][o].answer = "success"

Accounted(p) ==
    payments[p].status = "success" \/ p \in journal \/ p \in lost \/ InFlight(p)

(* Money the service was told about never disappears: every charge is       *)
(* recorded as a success, has a line in the log for reconcile, is one whose *)
(* answer never arrived, or is in the hands of a worker.                    *)
ChargeAccountedFor == \A p \in charged : Accounted(p)

(* The books never claim money that was not taken.                          *)
SuccessIsCharged ==
    \A p \in Payments : payments[p].status = "success" => p \in charged

(* The EMV terminal is tried after a token charge that went through only    *)
(* where the worker could not know (the answer was lost), or where the      *)
(* commit of its finalization failed. This is the guarantee the two-leg     *)
(* fallback really gives; NoRetryAfterPostPayment is the one it documents.  *)
FallbackAfterChargeExplained ==
    \A r \in Runs, o \in Orders :
        LET j == job[r][o] IN
        j.pc \in Active /\ j.terminal = "emv" /\ j.first \in charged
            => j.first \in lost \cup journal

(* common.ErrPostPayment: after a failure that follows the gateway call,    *)
(* "MUST NOT retry on another terminal to avoid double-charging".           *)
NoRetryAfterPostPayment ==
    \A r \in Runs, o \in Orders :
        job[r][o].pc \in Active /\ job[r][o].terminal = "emv" => job[r][o].first \notin journal

(* reconcile never has to refuse a line the billing run wrote: the payment  *)
(* of the line is still pending, or is settled as the success it was.       *)
JournalReconcilable ==
    \A p \in journal : p \in charged /\ payments[p].status \in {"pending", "success"}

(* An order flagged renewed has been paid for, whichever processes ran and  *)
(* crashed: nobody gets a month for a charge that failed.                   *)
RenewedIsPaid ==
    \A o \in Orders : orders[o].flag = "renewed" =>
        \E p \in Payments : payments[p].order = o /\ payments[p].status = "success"

(* With one billing process at a time, a recorded charge sticks: the order  *)
(* stays renewed, so no later command collects it again, and a declined leg *)
(* never takes its status back. A charge whose finalization failed is       *)
(* excepted, since its order may have gone on to the other terminal.        *)
RecordedSticks ==
    \A p \in Payments :
        payments[p].status = "success" /\ p \notin journal =>
            /\ orders[payments[p].order].flag = "renewed"
            /\ orders[payments[p].order].status \in {"paid", "cancelled"}

(* With one billing process at a time, crashes, retries and reconcile       *)
(* included, a member is recorded as charged twice for an order only when   *)
(* the finalization of one of the charges failed.                           *)
OneRecordedCharge ==
    \A p, q \in Payments :
        /\ p # q
        /\ payments[p].status = "success"
        /\ payments[q].status = "success"
        /\ payments[p].order = payments[q].order
        => p \in journal \/ q \in journal

(* Whatever the gateway, the tables and the workers do, a command ends.     *)
CommandEnds == \A r \in Runs : run[r].phase # "idle" ~> run[r].phase = "idle"

(* The payments table, the gateway and the log refine PaymentLedger.        *)
Ledger == INSTANCE PaymentLedger
    WITH book <- [p \in Payments |-> payments[p].status], taken <- charged, noted <- journal

LedgerSpec == Ledger!Spec

=============================================================================
