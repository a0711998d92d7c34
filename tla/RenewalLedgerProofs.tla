------------------------ MODULE RenewalLedgerProofs ------------------------
(* What follows from the inductive invariant of RenewalProofs about the     *)
(* payments table: whatever the processes do, it is written as the ledger   *)
(* allows, and with one process a recorded charge sticks to its order.      *)
EXTENDS RenewalProofs

(* The steps of the ledger, in terms of the tables.                         *)

LEMMA LedgerStutters ==
    ASSUME UNCHANGED <<payments, charged, journal>>
    PROVE  UNCHANGED Ledger!ledger
BY DEF Ledger!ledger

LEMMA LedgerOpens ==
    ASSUME TypeOK, NEW p \in Payments, NEW o \in Orders, Inserted(p, o), UNCHANGED <<charged, journal>>
    PROVE  Ledger!Next
<1>1. Ledger!Open(p)
  BY InsertedType DEF TypeOK, Ledger!Open
<1>2. QED  BY <1>1 DEF Ledger!Next

LEMMA LedgerTakes ==
    ASSUME NEW S \in SUBSET Payments, \A p \in S : payments[p].status = "pending",
           charged' = charged \cup S, UNCHANGED <<payments, journal>>
    PROVE  Ledger!Next
<1>1. Ledger!Take
  BY DEF Ledger!Take
<1>2. QED  BY <1>1 DEF Ledger!Next

LEMMA LedgerSettles ==
    ASSUME TypeOK, NEW p \in Payments, NEW o \in Orders, NEW ok \in BOOLEAN, Finalized(p, o, ok),
           payments[p].status = "pending", UNCHANGED charged,
           ok => p \in charged /\ journal' \in {journal, journal \cup {p}},
           ~ok => p \notin journal /\ journal' = journal
    PROVE  Ledger!Next
<1> DEFINE book == [q \in Payments |-> payments[q].status]
<1>1. book' = [book EXCEPT ![p] = IF ok THEN "success" ELSE "failed"]
  <2>1. \A q \in Payments : payments'[q].status =
           IF q = p THEN (IF ok THEN "success" ELSE "failed") ELSE payments[q].status
    BY FinalizedFacts
  <2>2. QED  BY <2>1
<1>2. CASE ok
  <2>1. Ledger!SettleSuccess(p)  BY <1>1, <1>2 DEF Ledger!SettleSuccess
  <2>2. QED  BY <2>1 DEF Ledger!Next
<1>3. CASE ~ok
  <2>1. Ledger!SettleFailed(p)  BY <1>1, <1>3 DEF Ledger!SettleFailed
  <2>2. QED  BY <2>1 DEF Ledger!Next
<1>4. QED  BY <1>2, <1>3

LEMMA LedgerNotes ==
    ASSUME NEW p \in Payments, p \in charged, payments[p].status = "pending",
           journal' = journal \cup {p}, UNCHANGED <<payments, charged>>
    PROVE  Ledger!Next
<1>1. Ledger!Note(p)  BY DEF Ledger!Note
<1>2. QED  BY <1>1 DEF Ledger!Next

-----------------------------------------------------------------------------

LEMMA OrderImplementsLedger ==
    ASSUME MoneyInv, NEW r \in Runs, NEW o \in Orders, Order(r, o)
    PROVE  Ledger!Next \/ UNCHANGED Ledger!ledger
<1>t. TypeOK  BY DEF MoneyInv, TypeInv
<1>1. PICK j \in Job, p \in {job[r][o].pay} : j = job[r][o] /\ p = j.pay  BY <1>t DEF TypeOK
<1>2. Live(r, o) =>
         /\ p \in Payments /\ payments[p].status = "pending" /\ p \notin journal
         /\ j.pc = "finalize" /\ j.answer = "success" => p \in charged
  BY <1>1 DEF MoneyInv, JobSound, Live
<1>3. CASE LoadResolves(r, o) \/ LoadFails(r, o) \/ FlagPricingError(r, o) \/ TakeJob(r, o)
  <2>1. UNCHANGED <<payments, charged, journal>>
    BY <1>3 DEF LoadResolves, LoadFails, FlagPricingError, TakeJob
  <2>2. QED  BY <2>1, LedgerStutters
<1>4. CASE CreateRenewalPayment(r, o) \/ CreateFails(r, o)
  <2>1. /\ UNCHANGED <<charged, journal>>
        /\ payments' = payments \/ \E q \in Payments : Inserted(q, o)
    BY <1>4 DEF CreateRenewalPayment, CreateFails
  <2>2. QED  BY <2>1, <1>t, LedgerStutters, LedgerOpens
<1>5. CASE \/ Approve(r, o) \/ Decline(r, o) \/ GatewayError(r, o) \/ NoCredential(r, o)
           \/ Rejected(r, o) \/ RejectedAgain(r, o)
  <2>1. Live(r, o)
    BY <1>5 DEF Live, Approve, Decline, GatewayError, NoCredential, Asking, Rejected, RejectedAgain
  <2>2. PICK S \in SUBSET {p} : charged' = charged \cup S
    BY <1>1, <1>5 DEF Approve, Decline, GatewayError, NoCredential, Answer, Rejected, RejectedAgain
  <2>3. UNCHANGED <<payments, journal>>
    BY <1>5 DEF Approve, Decline, GatewayError, NoCredential, Answer, Rejected, RejectedAgain
  <2>4. QED  BY <1>2, <2>1, <2>2, <2>3, LedgerTakes
<1>6. CASE FinalizeCommits(r, o) \/ FinalizeRollsBack(r, o) \/ CommitFails(r, o)
  <2>1. PICK ok \in BOOLEAN : ok = (j.answer = "success")  OBVIOUS
  <2>2. j.pc = "finalize" /\ Live(r, o) /\ UNCHANGED charged
    BY <1>1, <1>6 DEF Live, FinalizeCommits, FinalizeRollsBack, CommitFails
  <2>3. Finalized(p, o, ok) \/ UNCHANGED payments
    BY <1>1, <1>6, <2>1 DEF FinalizeCommits, FinalizeRollsBack, CommitFails
  <2>4. journal' = journal \/ (ok /\ journal' = journal \cup {p})
    BY <1>1, <1>6, <2>1 DEF FinalizeCommits, FinalizeRollsBack, CommitFails, Journalled
  <2>5. CASE Finalized(p, o, ok)
    <3>1. ok => p \in charged /\ journal' \in {journal, journal \cup {p}}
      BY <1>2, <2>1, <2>2, <2>4
    <3>2. ~ok => p \notin journal /\ journal' = journal
      BY <1>2, <2>2, <2>4
    <3>3. QED  BY <1>t, <1>2, <2>2, <2>5, <3>1, <3>2, LedgerSettles
  <2>6. CASE UNCHANGED payments
    BY <1>2, <2>1, <2>2, <2>4, <2>6, LedgerStutters, LedgerNotes
  <2>7. QED  BY <2>3, <2>5, <2>6
<1>7. CASE Panic(r, o)
  <2>1. UNCHANGED <<payments, journal>>  BY <1>7 DEF Panic
  <2>2. CASE Live(r, o)
    <3>1. PICK S \in SUBSET {p} : charged' = charged \cup S
      BY <1>1, <1>7, <2>2 DEF Panic, Dropped, Live
    <3>2. QED  BY <1>2, <2>1, <2>2, <3>1, LedgerTakes
  <2>3. CASE ~Live(r, o)
    <3>1. charged' = charged  BY <1>7, <2>3 DEF Panic, Dropped, Live
    <3>2. QED  BY <2>1, <3>1, LedgerStutters
  <2>4. QED  BY <2>2, <2>3
<1>8. QED  BY <1>3, <1>4, <1>5, <1>6, <1>7 DEF Order, Worker

LEMMA CrashImplementsLedger ==
    ASSUME MoneyInv, NEW r \in Runs, Crash(r)
    PROVE  Ledger!Next
<1>1. PICK S : /\ S \subseteq {job[r][o].pay : o \in {i \in Orders : job[r][i].pc \in {"send", "resend"}}}
               /\ charged' = charged \cup S
  BY DEF Crash, Dropped
<1>2. \A p \in S : p \in Payments /\ payments[p].status = "pending"
  BY <1>1 DEF MoneyInv, JobSound, Live
<1>3. UNCHANGED <<payments, journal>>  BY DEF Crash
<1>4. QED  BY <1>1, <1>2, <1>3, LedgerTakes

LEMMA ReconcileImplementsLedger ==
    ASSUME MoneyInv, ReconcileReads \/ ReconcileFinalizes
    PROVE  Ledger!Next \/ UNCHANGED Ledger!ledger
<1>t. TypeOK  BY DEF MoneyInv, TypeInv
<1>1. UNCHANGED <<charged, journal>>  BY DEF ReconcileReads, ReconcileFinalizes
<1>2. CASE UNCHANGED payments  BY <1>1, <1>2, LedgerStutters
<1>3. CASE ~UNCHANGED payments
  <2>1. recon.pc = "finalize" /\ Finalized(recon.pay, payments[recon.pay].order, TRUE)
    BY <1>3 DEF ReconcileReads, ReconcileFinalizes
  <2>2. PICK p \in Payments, o \in Orders :
           /\ p = recon.pay /\ o = payments[p].order /\ payments[p].status = "pending" /\ p \in charged
    BY <1>t, <2>1 DEF MoneyInv, TablesSound, JournalReconcilable, TypeOK
  <2>3. Finalized(p, o, TRUE)  BY <2>1, <2>2
  <2>4. QED  BY <1>1, <1>t, <2>2, <2>3, LedgerSettles
<1>4. QED  BY <1>2, <1>3

LEMMA StepImplementsLedger == MoneyInv /\ [Next]_vars => [Ledger!Next]_(Ledger!ledger)
<1> SUFFICES ASSUME MoneyInv, [Next]_vars
             PROVE  Ledger!Next \/ UNCHANGED Ledger!ledger
  OBVIOUS
<1>1. ASSUME NEW r \in Runs, StartCharge(r) \/ StartRetry(r) \/ Command(r) \/ Cancel(r)
      PROVE  UNCHANGED Ledger!ledger
  <2>1. UNCHANGED <<payments, charged, journal>>
    BY <1>1 DEF StartCharge, StartRetry, Begin, Command, NothingResolved, BeginCharge,
       BeginRetryCharge, MarkResolvedFails, EndRun, Cancel
  <2>2. QED  BY <2>1, LedgerStutters
<1>2. ASSUME NEW o \in Orders, CancelOrder(o)
      PROVE  UNCHANGED Ledger!ledger
  BY <1>2, LedgerStutters DEF CancelOrder
<1>3. CASE UNCHANGED vars  BY <1>3, LedgerStutters DEF vars
<1>4. CASE Next
  BY <1>1, <1>2, <1>4, OrderImplementsLedger, CrashImplementsLedger, ReconcileImplementsLedger DEF Next
<1>5. QED  BY <1>3, <1>4

(* Every payment is opened before money moves under it, settled once and    *)
(* for good, as a success only if the money moved, and never as a failure   *)
(* once its charge is noted in the log.                                     *)
THEOREM RenewalImplementsLedger == Spec => LedgerSpec
<1>1. Init => Ledger!Init  BY DEF Init, Ledger!Init
<1>2. MoneyInv /\ [Next]_vars => [Ledger!Next]_(Ledger!ledger)  BY StepImplementsLedger
<1>3. QED  BY <1>1, <1>2, MoneyInvAlways, PTL DEF Spec, LedgerSpec, Ledger!Spec

-----------------------------------------------------------------------------
(* No two billing commands run at the same time: a recorded charge sticks   *)
(* to its order, and an order is recorded as charged once, but for the      *)
(* charges whose finalization failed. The hypothesis is needed: a second    *)
(* command still holding the order in memory charges it again, or writes    *)
(* pricing_error over renewed.                                              *)
OneProcess == \A r, s \in Runs : r = s

(* The strengthening: no worker is on its way to charge an order that has   *)
(* its charge recorded.                                                     *)
StickInv ==
    \A p \in Payments :
        payments[p].status = "success" /\ p \notin journal =>
            /\ orders[payments[p].order].flag = "renewed"
            /\ orders[payments[p].order].status \in {"paid", "cancelled"}
            /\ \A r \in Runs : job[r][payments[p].order].pc \in {"none", "done"}

SingleInv == MoneyInv /\ StickInv /\ OneRecordedCharge

(* Steps that settle nothing, move no renewed order, and put to work only   *)
(* orders that were at work or are not renewed.                             *)
LEMMA StickKept ==
    ASSUME MoneyInv, StickInv, OneRecordedCharge,
           \A p \in Payments : payments'[p].status = "success" => payments'[p] = payments[p],
           journal \subseteq journal',
           \A o \in Orders : orders[o].flag = "renewed"
                             /\ (\A r \in Runs : job[r][o].pc \in {"none", "done"})
              => /\ orders'[o].flag = "renewed"
                 /\ orders[o].status \in {"paid", "cancelled"} => orders'[o].status \in {"paid", "cancelled"}
                 /\ \A r \in Runs : job'[r][o].pc \in {"none", "done"}
    PROVE  StickInv' /\ OneRecordedCharge'
<1>1. \A p \in Payments : payments[p].status # "none" => payments[p].order \in Orders
  BY DEF MoneyInv, TablesSound
<1>2. StickInv'  BY <1>1 DEF StickInv
<1>3. OneRecordedCharge'  BY DEF OneRecordedCharge
<1>4. QED  BY <1>2, <1>3

LEMMA StickInit == Init => StickInv /\ OneRecordedCharge
BY DEF Init, StickInv, OneRecordedCharge

LEMMA StickCommand ==
    ASSUME MoneyInv, StickInv, OneRecordedCharge, NEW r \in Runs,
           StartCharge(r) \/ StartRetry(r) \/ Command(r) \/ Cancel(r) \/ Crash(r)
    PROVE  StickInv' /\ OneRecordedCharge'
<1>t. TypeOK  BY DEF MoneyInv, TypeInv
<1>1. payments' = payments /\ journal' = journal
  BY DEF StartCharge, StartRetry, Begin, Command, NothingResolved, BeginCharge, BeginRetryCharge,
         MarkResolvedFails, EndRun, Cancel, Crash
<1>2. ASSUME NEW kind, NEW ids, Begin(r, kind, ids), \A i \in ids : orders[i].flag # "renewed"
      PROVE  StickInv' /\ OneRecordedCharge'
  <2>1. \A i \in Orders : orders[i].flag = "renewed" => job'[r][i].pc = "none"
    BY <1>2, <1>t DEF Begin, TypeOK, At
  <2>2. \A s \in Runs \ {r} : job'[s] = job[s]  BY <1>2, <1>t DEF Begin, TypeOK
  <2>3. orders' = orders  BY <1>2 DEF Begin
  <2>4. QED  BY <1>1, <2>1, <2>2, <2>3, StickKept
<1>3. ASSUME Stop(r), orders' = orders
      PROVE  StickInv' /\ OneRecordedCharge'
  <2>1. /\ \A i \in Orders : job'[r][i].pc = "none"
        /\ \A s \in Runs \ {r} : job'[s] = job[s]
    BY <1>3, <1>t, StopType DEF At
  <2>2. QED  BY <1>1, <1>3, <2>1, StickKept
<1>4. CASE StartCharge(r)
  <2>1. \A i \in OrderIDsToRenew(orders) : orders[i].flag # "renewed"  BY DEF OrderIDsToRenew
  <2>2. QED  BY <1>2, <1>4, <2>1 DEF StartCharge
<1>5. CASE StartRetry(r)
  <2>1. \A i \in OrderIDsWithPricingError(orders) : orders[i].flag # "renewed"
    BY DEF OrderIDsWithPricingError
  <2>2. QED  BY <1>2, <1>5, <2>1 DEF StartRetry
<1>6. CASE NothingResolved(r)  BY <1>3, <1>6 DEF NothingResolved
<1>7. CASE MarkResolvedFails(r)  BY <1>3, <1>7 DEF MarkResolvedFails
<1>8. CASE EndRun(r)  BY <1>3, <1>8 DEF EndRun
<1>9. CASE Crash(r)  BY <1>3, <1>9 DEF Crash
<1>10. CASE BeginCharge(r)  BY <1>1, <1>10, StickKept DEF BeginCharge
<1>11. CASE Cancel(r)  BY <1>1, <1>11, StickKept DEF Cancel
<1>12. CASE BeginRetryCharge(r)
  <2>1. \A i \in Orders : orders[i].flag = "renewed" => orders'[i] = orders[i]
    BY <1>12, <1>t DEF BeginRetryCharge, MarkResolvedForRenew, TypeOK, OrderTable
  <2>2. job' = job  BY <1>12 DEF BeginRetryCharge
  <2>3. QED  BY <1>1, <2>1, <2>2, StickKept
<1>13. QED  BY <1>4, <1>5, <1>6, <1>7, <1>8, <1>9, <1>10, <1>11, <1>12 DEF Command

(* The only process has the order at work, so no charge of it is recorded,  *)
(* and what the worker writes or moves on to disturbs no recorded charge;   *)
(* a charge that a commit records ends the order.                           *)
LEMMA StickOrder ==
    ASSUME OneProcess, MoneyInv, StickInv, OneRecordedCharge, MoneyInv',
           NEW r \in Runs, NEW o \in Orders, Order(r, o)
    PROVE  StickInv' /\ OneRecordedCharge'
<1>t. TypeOK  BY DEF MoneyInv, TypeInv
<1>1. PICK j \in Job : j = job[r][o]  BY <1>t DEF TypeOK
<1>2. j.pc \notin {"none", "done"}
  BY <1>1 DEF Order, Worker, LoadResolves, LoadFails, FlagPricingError, TakeJob, CreateRenewalPayment,
     CreateFails, Approve, Decline, GatewayError, NoCredential, Asking, Rejected, RejectedAgain,
     FinalizeCommits, FinalizeRollsBack, CommitFails, Panic, Active
<1>3. \A p \in Payments : payments[p].status = "success" /\ p \notin journal => payments[p].order # o
  BY <1>1, <1>2 DEF StickInv
<1>4. PICK k : Move(r, o, k)
  BY DEF Order, Worker, LoadResolves, LoadFails, FlagPricingError, TakeJob, CreateRenewalPayment,
     CreateFails, Approve, Decline, GatewayError, NoCredential, Answer, Rejected, RejectedAgain,
     FinalizeCommits, FinalizeRollsBack, CommitFails, Panic
<1>5. \A s \in Runs, i \in Orders : i # o => job'[s][i] = job[s][i]
  BY <1>4, <1>t DEF OneProcess, Move, TypeOK
<1>6. journal \subseteq journal'
  BY DEF Order, Worker, LoadResolves, LoadFails, FlagPricingError, TakeJob, CreateRenewalPayment,
     CreateFails, Approve, Decline, GatewayError, NoCredential, Answer, Rejected, RejectedAgain,
     FinalizeCommits, FinalizeRollsBack, CommitFails, Panic, Journalled
<1>7. \A i \in Orders : i # o => orders'[i] = orders[i]
  BY <1>t DEF Order, Worker, LoadResolves, LoadFails, FlagPricingError, TakeJob, CreateRenewalPayment,
     CreateFails, Approve, Decline, GatewayError, NoCredential, Answer, Rejected, RejectedAgain,
     FinalizeCommits, FinalizeRollsBack, CommitFails, Panic, FlagOrder, Finalized, Renewed, NotRenewed,
     TypeOK, OrderTable
<1>8. CASE \A p \in Payments : payments'[p].status = "success" => payments'[p] = payments[p]
  BY <1>1, <1>2, <1>5, <1>6, <1>7, <1>8, StickKept
<1>9. ASSUME NEW p \in Payments, payments'[p].status = "success", payments'[p] # payments[p]
      PROVE  StickInv' /\ OneRecordedCharge'
  <2>1. FinalizeCommits(r, o) \/ CommitFails(r, o)
    <3>1. ASSUME NEW q \in Payments, NEW i \in Orders, Inserted(q, i)
          PROVE  payments'[p] = payments[p] \/ payments'[p].status = "pending"
      BY <3>1, <1>t, InsertedType
    <3>2. payments' # payments  BY <1>9
    <3>3. CASE CreateRenewalPayment(r, o) \/ CreateFails(r, o)
      BY <1>9, <3>1, <3>3 DEF CreateRenewalPayment, CreateFails
    <3>4. QED
      BY <3>2, <3>3 DEF Order, Worker, LoadResolves, LoadFails, FlagPricingError, TakeJob, Approve, Decline,
         GatewayError, NoCredential, Answer, Rejected, RejectedAgain, FinalizeRollsBack, Panic
  <2>2. PICK ok \in BOOLEAN : ok = (j.answer = "success")  OBVIOUS
  <2>3. Finalized(j.pay, o, ok)
    BY <1>1, <1>9, <2>1, <2>2 DEF FinalizeCommits, CommitFails
  <2>4. j.pc = "finalize"  BY <1>1, <2>1 DEF FinalizeCommits, CommitFails
  <2>5. j.pay \in Payments /\ payments[j.pay].order = o
    BY <1>1, <2>4 DEF MoneyInv, JobSound, Live
  <2>6. /\ p = j.pay /\ ok /\ payments'[p].order = o
        /\ \A q \in Payments \ {p} : payments'[q] = payments[q]
    BY <1>9, <1>t, <2>3, <2>5, FinalizedFacts
  <2>7. orders'[o].flag = "renewed" /\ orders'[o].status = "paid"
    BY <2>3, <2>6, <1>t DEF Finalized, Renewed, TypeOK, OrderTable
  <2>8. \A q \in Payments : payments[q].status # "none" => payments[q].order \in Orders
    BY DEF MoneyInv, TablesSound
  <2>9. \A q \in Payments \ {p} : payments'[q].status = "success" /\ q \notin journal' =>
           /\ payments'[q].order # o
           /\ orders'[payments'[q].order].flag = "renewed"
           /\ orders'[payments'[q].order].status \in {"paid", "cancelled"}
           /\ \A s \in Runs : job'[s][payments'[q].order].pc \in {"none", "done"}
    <3> TAKE q \in Payments \ {p}
    <3> HAVE payments'[q].status = "success" /\ q \notin journal'
    <3>1. payments'[q] = payments[q] /\ q \notin journal  BY <1>6, <2>6
    <3>2. payments[q].order \in Orders /\ payments[q].order # o  BY <3>1, <1>3, <2>8
    <3>3. orders'[payments[q].order] = orders[payments[q].order]  BY <3>2, <1>7
    <3>4. \A s \in Runs : job'[s][payments[q].order] = job[s][payments[q].order]  BY <3>2, <1>5
    <3>5. QED  BY <3>1, <3>2, <3>3, <3>4 DEF StickInv
  <2>10. p \in journal' \/ \A s \in Runs : job'[s][o].pc \in {"none", "done"}
    <3>1. CASE FinalizeCommits(r, o)
      <4>1. Move(r, o, At("done"))
        BY <1>1, <2>2, <2>6, <3>1 DEF FinalizeCommits, AfterCommit
      <4>2. job'[r][o] = At("done")  BY <4>1, <1>t, AtType, MoveType
      <4>3. QED  BY <4>2 DEF OneProcess, At
    <3>2. CASE CommitFails(r, o)
      BY <1>1, <2>2, <2>6, <3>2 DEF CommitFails, Journalled
    <3>3. QED  BY <2>1, <3>1, <3>2
  <2>11. StickInv'
    BY <2>6, <2>7, <2>9, <2>10 DEF StickInv
  <2>12. OneRecordedCharge'
    <3> SUFFICES ASSUME NEW a \in Payments, NEW b \in Payments, a # b,
                        payments'[a].status = "success", payments'[b].status = "success",
                        payments'[a].order = payments'[b].order
                 PROVE  a \in journal' \/ b \in journal'
      BY DEF OneRecordedCharge
    <3>1. CASE a = p  BY <3>1, <2>6, <2>9
    <3>2. CASE b = p  BY <3>2, <2>6, <2>9
    <3>3. CASE a # p /\ b # p  BY <3>3, <2>6, <1>6 DEF OneRecordedCharge
    <3>4. QED  BY <3>1, <3>2, <3>3
  <2>13. QED  BY <2>11, <2>12
<1>10. QED  BY <1>8, <1>9


(* Members cancel orders; reconcile records charges of the log, which are   *)
(* the exception.                                                           *)
LEMMA StickOther ==
    ASSUME MoneyInv, StickInv, OneRecordedCharge,
           \/ \E o \in Orders : CancelOrder(o)
           \/ ReconcileReads \/ ReconcileFinalizes
    PROVE  StickInv' /\ OneRecordedCharge'
<1>t. TypeOK  BY DEF MoneyInv, TypeInv
<1>1. job' = job /\ journal' = journal  BY DEF CancelOrder, ReconcileReads, ReconcileFinalizes
<1>2. ASSUME NEW o \in Orders, CancelOrder(o)
      PROVE  StickInv' /\ OneRecordedCharge'
  <2>1. /\ payments' = payments
        /\ \A i \in Orders : orders'[i].flag = orders[i].flag /\ orders'[i].status \in {orders[i].status, "cancelled"}
    BY <1>2, <1>t DEF CancelOrder, TypeOK, OrderTable, OrderRow
  <2>2. QED  BY <1>1, <2>1, StickKept
<1>3. CASE UNCHANGED <<payments, orders>>
  BY <1>1, <1>3, StickKept
<1>4. CASE ReconcileFinalizes /\ ~UNCHANGED <<payments, orders>>
  <2>1. PICK p \in Payments, o \in Orders :
           p = recon.pay /\ o = payments[p].order /\ p \in journal /\ Finalized(p, o, TRUE)
    BY <1>4, <1>t DEF ReconcileFinalizes, MoneyInv, TablesSound, TypeOK
  <2>2. \A q \in Payments \ {p} : payments'[q] = payments[q]
    BY <2>1, <1>t, FinalizedFacts
  <2>3. \A i \in Orders : orders'[i] = orders[i] \/ (orders'[i].flag = "renewed" /\ orders'[i].status = "paid")
    BY <2>1, <1>t DEF Finalized, Renewed, TypeOK, OrderTable
  <2>4. \A q \in Payments : payments[q].status # "none" => payments[q].order \in Orders
    BY DEF MoneyInv, TablesSound
  <2>5. StickInv'
    BY <1>1, <2>1, <2>2, <2>3, <2>4 DEF StickInv
  <2>6. OneRecordedCharge'
    BY <1>1, <2>1, <2>2 DEF OneRecordedCharge
  <2>7. QED  BY <2>5, <2>6
<1>5. CASE ReconcileReads  BY <1>3, <1>5 DEF ReconcileReads
<1>6. QED  BY <1>2, <1>3, <1>4, <1>5

LEMMA SingleInvStep == ASSUME OneProcess PROVE SingleInv /\ [Next]_vars => SingleInv'
<1> SUFFICES ASSUME SingleInv, [Next]_vars PROVE SingleInv'  OBVIOUS
<1>1. MoneyInv'  BY MoneyInvStep DEF SingleInv
<1>2. CASE UNCHANGED vars
  BY <1>1, <1>2 DEF vars, SingleInv, StickInv, OneRecordedCharge
<1>3. CASE Next
  BY <1>1, <1>3, StickCommand, StickOrder, StickOther DEF SingleInv, Next
<1>4. QED  BY <1>2, <1>3

LEMMA SingleInvAlways == ASSUME OneProcess PROVE Spec => []SingleInv
<1>1. Init => SingleInv  BY MoneyInvInit, StickInit DEF SingleInv
<1>2. SingleInv /\ [Next]_vars => SingleInv'  BY SingleInvStep
<1>3. QED  BY <1>1, <1>2, PTL DEF Spec

(* With one billing command at a time, an order whose charge is recorded    *)
(* stays renewed and paid, so no later command collects it again.           *)
THEOREM RecordedChargesStick == ASSUME OneProcess PROVE Spec => []RecordedSticks
<1>1. SingleInv => RecordedSticks  BY DEF SingleInv, StickInv, RecordedSticks
<1>2. QED  BY <1>1, SingleInvAlways, PTL

(* With one billing command at a time, a second recorded charge of an order *)
(* has a CHARGE_SUCCESS_DB_FAIL line to explain it.                         *)
THEOREM ChargesRecordedOnce == ASSUME OneProcess PROVE Spec => []OneRecordedCharge
<1>1. SingleInv => OneRecordedCharge  BY DEF SingleInv
<1>2. QED  BY <1>1, SingleInvAlways, PTL

=============================================================================
