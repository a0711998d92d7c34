--------------------------- MODULE RenewalProofs ---------------------------
(* Theorems about Renewal, for any set of orders, payments and processes,   *)
(* any number of workers and any starting table: its types first, and then  *)
(* what the charge step guarantees about the member's money for any number  *)
(* of processes: the inductive invariant MoneyInv and what follows from it. *)
EXTENDS Renewal, TLAPS

LEMMA AtType ==
    ASSUME NEW pc \in {"none", "load", "flag", "excluded", "resolved", "done", "create"}
    PROVE  At(pc) \in Job
BY DEF At, Job, Active

LEMMA NextLegType ==
    ASSUME NEW j \in Job
    PROVE  NextLeg(j) \in Job
BY DEF NextLeg, At, Job, Active

(* The updates of the orders table keep it a table.                         *)
LEMMA TableType ==
    ASSUME NEW t \in OrderTable, NEW o, NEW m \in Nat
    PROVE  /\ FlagOrder(t, o, "pricing_error") \in OrderTable
           /\ Renewed(t, o, m) \in OrderTable
           /\ NotRenewed(t, o) \in OrderTable
           /\ \A ids : MarkResolvedForRenew(t, ids) \in OrderTable
           /\ [t EXCEPT ![o].status = "cancelled"] \in OrderTable
<1> USE DEF OrderTable, OrderRow, OrderStatus, OrderFlag
<1>1. FlagOrder(t, o, "pricing_error") \in OrderTable  BY DEF FlagOrder
<1>2. Renewed(t, o, m) \in OrderTable  BY DEF Renewed
<1>3. NotRenewed(t, o) \in OrderTable  BY DEF NotRenewed
<1>4. \A ids : MarkResolvedForRenew(t, ids) \in OrderTable  BY DEF MarkResolvedForRenew
<1>5. [t EXCEPT ![o].status = "cancelled"] \in OrderTable  OBVIOUS
<1>6. QED  BY <1>1, <1>2, <1>3, <1>4, <1>5

(* A worker's move is a change of its own job and of no other.              *)
LEMMA MoveType ==
    ASSUME TypeOK, NEW r \in Runs, NEW o \in Orders, NEW j \in Job, Move(r, o, j)
    PROVE  /\ job' \in [Runs -> [Orders -> Job]]
           /\ job'[r][o] = j
           /\ \A s \in Runs, i \in Orders : <<s, i>> # <<r, o>> => job'[s][i] = job[s][i]
BY DEF TypeOK, Move

LEMMA StopType ==
    ASSUME TypeOK, NEW r \in Runs, Stop(r)
    PROVE  /\ run' \in [Runs -> RunState]
           /\ job' \in [Runs -> [Orders -> Job]]
           /\ \A i \in Orders : job'[r][i] = At("none")
           /\ \A s \in Runs \ {r} : job'[s] = job[s]
BY AtType DEF TypeOK, Stop, NoJobs, IdleRun, RunState

(* A new payment row, a settled one and a moved flag keep the tables' types. *)
LEMMA InsertedType ==
    ASSUME TypeOK, NEW p \in Payments, NEW o \in Orders, Inserted(p, o)
    PROVE  /\ payments' \in [Payments -> PaymentRow]
           /\ payments[p].status = "none"
           /\ payments'[p].order = o
           /\ payments'[p].status = "pending"
           /\ \A q \in Payments \ {p} : payments'[q] = payments[q]
BY DEF TypeOK, Inserted, PaymentRow, PaymentStatus

LEMMA FinalizedType ==
    ASSUME TypeOK, NEW p, NEW o, NEW ok \in BOOLEAN, Finalized(p, o, ok)
    PROVE  payments' \in [Payments -> PaymentRow] /\ orders' \in OrderTable
<1>1. payments' \in [Payments -> PaymentRow]
  BY DEF TypeOK, Finalized, PaymentRow, PaymentStatus
<1>2. orders' \in OrderTable
  BY TableType DEF TypeOK, Finalized
<1>3. QED  BY <1>1, <1>2

(* The payment a worker holds between its insertion and its finalization.   *)
HoldsPayment ==
    \A r \in Runs, o \in Orders :
        job[r][o].pc \in {"send", "resend", "finalize"} => job[r][o].pay \in Payments

TypeInv == TypeOK /\ HoldsPayment

LEMMA TypeInvInit == Init => TypeInv
<1> SUFFICES ASSUME Init PROVE TypeInv  OBVIOUS
<1>1. TypeOK
  BY AtType, RenewalAssumption
  DEF Init, TypeOK, PaymentRow, PaymentStatus, RunState, IdleRun, NoJobs, IdleRecon
<1>2. HoldsPayment
  BY DEF Init, HoldsPayment, NoJobs, At
<1>3. QED  BY <1>1, <1>2 DEF TypeInv

(* A step of one order's worker.                                            *)
LEMMA TypeInvOrder ==
    ASSUME TypeInv, NEW r \in Runs, NEW o \in Orders, Order(r, o)
    PROVE  TypeInv'
<1> DEFINE j == job[r][o]
<1> USE DEF TypeInv
<1>j. j \in Job  BY DEF TypeOK
<1>m. ASSUME NEW k \in Job, Move(r, o, k), k.pc \in {"send", "resend", "finalize"} => k.pay \in Payments
      PROVE  job' \in [Runs -> [Orders -> Job]] /\ HoldsPayment'
  BY <1>m, MoveType DEF HoldsPayment
<1>a. ASSUME NEW pc \in {"none", "load", "flag", "excluded", "resolved", "done", "create"}, Move(r, o, At(pc))
      PROVE  job' \in [Runs -> [Orders -> Job]] /\ HoldsPayment'
  BY <1>a, <1>m, AtType DEF At
<1>n. ASSUME Move(r, o, NextLeg(j))
      PROVE  job' \in [Runs -> [Orders -> Job]] /\ HoldsPayment'
  BY <1>n, <1>m, <1>j, NextLegType DEF NextLeg, At
<1>1. CASE LoadResolves(r, o)
  BY <1>1, <1>a DEF LoadResolves, TypeOK
<1>2. CASE LoadFails(r, o)
  BY <1>2, <1>a DEF LoadFails, TypeOK
<1>3. CASE FlagPricingError(r, o)
  BY <1>3, <1>a, TableType DEF FlagPricingError, TypeOK
<1>4. CASE TakeJob(r, o)
  BY <1>4, <1>a DEF TakeJob, TypeOK
<1>5. CASE CreateRenewalPayment(r, o)
  <2>1. PICK p \in Payments : Inserted(p, o) /\ Move(r, o, [j EXCEPT !.pc = "send", !.pay = p])
    BY <1>5 DEF CreateRenewalPayment
  <2>2. job' \in [Runs -> [Orders -> Job]] /\ HoldsPayment'
    BY <2>1, <1>m, <1>j DEF Job, Active
  <2>3. payments' \in [Payments -> PaymentRow]
    BY <2>1, InsertedType
  <2>4. QED  BY <1>5, <2>2, <2>3 DEF CreateRenewalPayment, TypeOK
<1>6. CASE CreateFails(r, o)
  <2>1. job' \in [Runs -> [Orders -> Job]] /\ HoldsPayment'
    BY <1>6, <1>n DEF CreateFails
  <2>2. payments' \in [Payments -> PaymentRow]
    BY <1>6, InsertedType DEF CreateFails, TypeOK
  <2>3. QED  BY <1>6, <2>1, <2>2 DEF CreateFails, TypeOK
<1>7. ASSUME NEW answer \in {"success", "declined", "gateway", "credential"}, NEW took \in BOOLEAN,
             Asking(r, o), Answer(r, o, answer, took)
      PROVE  TypeInv'
  <2>1. j.pay \in Payments  BY <1>7 DEF Asking, HoldsPayment
  <2>2. job' \in [Runs -> [Orders -> Job]] /\ HoldsPayment'
    BY <1>7, <1>m, <1>j, <2>1 DEF Answer, Job, Active
  <2>3. charged' \subseteq Payments /\ lost' \subseteq Payments
    BY <1>7, <2>1 DEF Answer, TypeOK
  <2>4. QED  BY <1>7, <2>2, <2>3 DEF Answer, TypeOK
<1>8. CASE Approve(r, o)  BY <1>7, <1>8 DEF Approve
<1>9. CASE Decline(r, o)  BY <1>7, <1>9 DEF Decline
<1>10. CASE GatewayError(r, o)  BY <1>7, <1>10 DEF GatewayError
<1>11. CASE NoCredential(r, o)  BY <1>7, <1>11 DEF NoCredential
<1>12. CASE Rejected(r, o)
  <2>1. j.pay \in Payments  BY <1>12 DEF Rejected, HoldsPayment
  <2>2. job' \in [Runs -> [Orders -> Job]] /\ HoldsPayment'
    BY <1>12, <1>m, <1>j, <2>1 DEF Rejected, Job, Active
  <2>3. QED  BY <1>12, <2>1, <2>2 DEF Rejected, TypeOK
<1>13. CASE RejectedAgain(r, o)  BY <1>7, <1>13 DEF RejectedAgain, Asking
<1>14. CASE FinalizeCommits(r, o)
  <2>1. job' \in [Runs -> [Orders -> Job]] /\ HoldsPayment'
    BY <1>14, <1>a, <1>n DEF FinalizeCommits, AfterCommit
  <2>2. (j.answer = "success") \in BOOLEAN  OBVIOUS
  <2>3. payments' \in [Payments -> PaymentRow] /\ orders' \in OrderTable
    BY <1>14, <2>2, FinalizedType DEF FinalizeCommits
  <2>4. QED  BY <1>14, <2>1, <2>3 DEF FinalizeCommits, TypeOK
<1>15. CASE FinalizeRollsBack(r, o)
  <2>1. j.pay \in Payments  BY <1>15 DEF FinalizeRollsBack, HoldsPayment
  <2>2. QED  BY <1>15, <2>1, <1>a DEF FinalizeRollsBack, Journalled, TypeOK
<1>16. CASE CommitFails(r, o)
  <2>1. j.pay \in Payments  BY <1>16 DEF CommitFails, HoldsPayment
  <2>2. journal' \subseteq Payments  BY <1>16, <2>1 DEF CommitFails, Journalled, TypeOK
  <2>3. job' \in [Runs -> [Orders -> Job]] /\ HoldsPayment'
    BY <1>16, <1>n DEF CommitFails
  <2>4. (j.answer = "success") \in BOOLEAN  OBVIOUS
  <2>5. payments' \in [Payments -> PaymentRow] /\ orders' \in OrderTable
    BY <1>16, <2>4, FinalizedType DEF CommitFails, TypeOK
  <2>6. QED  BY <1>16, <2>2, <2>3, <2>5 DEF CommitFails, TypeOK
<1>17. CASE Panic(r, o)
  <2>1. charged' \subseteq Payments /\ lost' \subseteq Payments
    BY <1>17 DEF Panic, Dropped, TypeOK, HoldsPayment
  <2>2. QED  BY <1>17, <2>1, <1>a DEF Panic, TypeOK
<1>18. QED
  BY <1>1, <1>2, <1>3, <1>4, <1>5, <1>6, <1>8, <1>9, <1>10, <1>11, <1>12, <1>13, <1>14,
     <1>15, <1>16, <1>17 DEF Order, Worker


(* A step of a command, of its process, of the operator or of a member.     *)
LEMMA TypeInvOther ==
    ASSUME TypeInv,
           \/ \E r \in Runs : StartCharge(r) \/ StartRetry(r) \/ Command(r) \/ Cancel(r) \/ Crash(r)
           \/ \E o \in Orders : CancelOrder(o)
           \/ ReconcileReads
           \/ ReconcileFinalizes
           \/ UNCHANGED vars
    PROVE  TypeInv'
<1> USE DEF TypeInv
<1>b. ASSUME NEW r \in Runs, NEW kind \in {"start", "retry"}, NEW ids, Begin(r, kind, ids)
      PROVE  TypeInv'
  <2>1. \A o \in Orders : job'[r][o] \in Job /\ job'[r][o].pc \notin {"send", "resend", "finalize"}
    BY <1>b, AtType DEF Begin, TypeOK, At
  <2>2. job' \in [Runs -> [Orders -> Job]] /\ HoldsPayment'
    BY <1>b, <2>1 DEF Begin, TypeOK, HoldsPayment
  <2>3. run' \in [Runs -> RunState]
    BY <1>b DEF Begin, TypeOK, RunState
  <2>4. QED  BY <1>b, <2>2, <2>3 DEF Begin, TypeOK
<1>s. ASSUME NEW r \in Runs, Stop(r)
      PROVE  run' \in [Runs -> RunState] /\ job' \in [Runs -> [Orders -> Job]] /\ HoldsPayment'
  BY <1>s, StopType DEF HoldsPayment, At, TypeOK
<1>1. CASE \E r \in Runs : StartCharge(r)  BY <1>1, <1>b DEF StartCharge
<1>2. CASE \E r \in Runs : StartRetry(r)  BY <1>2, <1>b DEF StartRetry
<1>3. ASSUME NEW r \in Runs, NothingResolved(r) \/ MarkResolvedFails(r) \/ EndRun(r)
      PROVE  TypeInv'
  BY <1>3, <1>s DEF NothingResolved, MarkResolvedFails, EndRun, TypeOK
<1>4. ASSUME NEW r \in Runs, BeginCharge(r) \/ Cancel(r)
      PROVE  TypeInv'
  <2>1. run[r] \in RunState  BY DEF TypeOK
  <2>2. CASE run' = [run EXCEPT ![r].phase = "charge"]
    BY <1>4, <2>1, <2>2 DEF BeginCharge, Cancel, TypeOK, RunState, HoldsPayment
  <2>3. CASE run' = [run EXCEPT ![r].cancelled = TRUE]
    BY <1>4, <2>1, <2>3 DEF BeginCharge, Cancel, TypeOK, RunState, HoldsPayment
  <2>4. QED  BY <1>4, <2>2, <2>3 DEF BeginCharge, Cancel
<1>5. ASSUME NEW r \in Runs, BeginRetryCharge(r)
      PROVE  TypeInv'
  <2>1. orders' \in OrderTable  BY <1>5, TableType DEF BeginRetryCharge, TypeOK
  <2>2. QED  BY <1>5, <2>1 DEF BeginRetryCharge, TypeOK, RunState, HoldsPayment
<1>6. CASE \E r \in Runs : Command(r)
  BY <1>6, <1>3, <1>4, <1>5 DEF Command
<1>7. ASSUME NEW r \in Runs, Crash(r)
      PROVE  TypeInv'
  <2>1. charged' \subseteq Payments /\ lost' \subseteq Payments
    BY <1>7 DEF Crash, Dropped, TypeOK, HoldsPayment
  <2>2. QED  BY <1>7, <1>s, <2>1 DEF Crash, TypeOK
<1>8. CASE \E o \in Orders : CancelOrder(o)
  <2>1. PICK o \in Orders : CancelOrder(o)  BY <1>8
  <2>2. [orders EXCEPT ![o].status = "cancelled"] \in OrderTable  BY TableType DEF TypeOK
  <2>3. QED  BY <2>1, <2>2 DEF CancelOrder, TypeOK, HoldsPayment
<1>9. CASE ReconcileReads
  BY <1>9 DEF ReconcileReads, TypeOK, HoldsPayment
<1>10. CASE ReconcileFinalizes
  <2>1. payments' \in [Payments -> PaymentRow] /\ orders' \in OrderTable
    BY <1>10, FinalizedType DEF ReconcileFinalizes, TypeOK
  <2>2. QED  BY <1>10, <2>1 DEF ReconcileFinalizes, IdleRecon, TypeOK, HoldsPayment
<1>11. CASE UNCHANGED vars  BY <1>11 DEF vars, TypeOK, HoldsPayment
<1>12. QED  BY <1>1, <1>2, <1>4, <1>6, <1>7, <1>8, <1>9, <1>10, <1>11

LEMMA TypeInvStep == TypeInv /\ [Next]_vars => TypeInv'
BY TypeInvOrder, TypeInvOther DEF Next

(* The charge step keeps its types, and a worker between the insertion of a *)
(* payment and its finalization holds that payment.                         *)
THEOREM TypeCorrect == Spec => []TypeOK
<1>1. TypeInv => TypeOK  BY DEF TypeInv
<1>2. QED  BY <1>1, TypeInvInit, TypeInvStep, PTL DEF Spec

-----------------------------------------------------------------------------
(* The worker of order o in process r holds a payment row.                  *)
Live(r, o) == job[r][o].pc \in {"send", "resend", "finalize"}

(* Orders are charged in the charge phase only.                             *)
PhaseSound ==
    \A r \in Runs, o \in Orders :
        /\ run[r].phase = "idle" => job[r][o].pc = "none"
        /\ run[r].phase = "resolve" => job[r][o].pc \notin Active

(* The payment a worker holds is its order's, pending, without a line in    *)
(* the log, and charged or not as the answer says.                          *)
JobSound ==
    \A r \in Runs, o \in Orders :
        LET j == job[r][o] IN
        /\ j.pc = "create" => j.pay = NoPayment
        /\ Live(r, o) => /\ j.pay \in Payments
                         /\ payments[j.pay].order = o
                         /\ payments[j.pay].status = "pending"
                         /\ j.pay \notin journal
        /\ j.pc = "send" => j.pay \notin charged
        /\ j.pc = "finalize" =>
              /\ j.answer = "success" => j.pay \in charged
              /\ j.answer # "success" /\ j.pay \in charged => j.pay \in lost

(* No two workers hold the same payment.                                    *)
JobsApart ==
    \A r, s \in Runs, o, i \in Orders :
        Live(r, o) /\ Live(s, i) /\ job[r][o].pay = job[s][i].pay => r = s /\ o = i

(* The token leg's payment is nobody's once its order is on the EMV leg.    *)
LegsApart ==
    \A r \in Runs, o \in Orders :
        job[r][o].pc \in Active /\ job[r][o].first \in Payments =>
            /\ payments[job[r][o].first].status # "none"
            /\ \A s \in Runs, i \in Orders : Live(s, i) => job[s][i].pay # job[r][o].first

(* The tables, the gateway and the log agree.                               *)
TablesSound ==
    /\ \A p \in Payments : payments[p].status # "none" => payments[p].order \in Orders
    /\ \A p \in charged : payments[p].status # "none"
    /\ recon.pc = "finalize" => recon.pay \in journal /\ payments[recon.pay].status = "pending"

MoneyInv ==
    /\ TypeInv
    /\ PhaseSound
    /\ JobSound
    /\ JobsApart
    /\ LegsApart
    /\ TablesSound
    /\ JournalReconcilable
    /\ SuccessIsCharged
    /\ ChargeAccountedFor
    /\ FallbackAfterChargeExplained
    /\ RenewedIsPaid

LEMMA MoneyInvInit == Init => MoneyInv
<1> SUFFICES ASSUME Init PROVE MoneyInv  OBVIOUS
<1>1. TypeInv  BY TypeInvInit
<1>2. \A r \in Runs, o \in Orders : job[r][o] = At("none")  BY DEF Init, NoJobs
<1>3. PhaseSound /\ JobSound /\ JobsApart /\ LegsApart
  BY <1>2 DEF Init, IdleRun, PhaseSound, JobSound, JobsApart, LegsApart, Live, Active, At
<1>4. TablesSound /\ JournalReconcilable /\ SuccessIsCharged
  BY DEF Init, TablesSound, JournalReconcilable, SuccessIsCharged, IdleRecon
<1>5. ChargeAccountedFor /\ FallbackAfterChargeExplained
  BY <1>2 DEF Init, ChargeAccountedFor, FallbackAfterChargeExplained, Active, At
<1>6. RenewedIsPaid
  BY RenewalAssumption DEF Init, RenewedIsPaid
<1>7. QED  BY <1>1, <1>3, <1>4, <1>5, <1>6 DEF MoneyInv

-----------------------------------------------------------------------------

(* A job that is not changed, or that holds no payment before and after.    *)
Quiet(r, o) ==
    \/ job'[r][o] = job[r][o]
    \/ /\ job[r][o].pc \notin {"send", "resend", "finalize"}
       /\ job'[r][o].pc \notin {"send", "resend", "finalize"}
       /\ job'[r][o].pay = NoPayment
       /\ job'[r][o].first = NoPayment

(* A payment row that is not changed, or that is inserted.                  *)
RowKept(p) ==
    \/ payments'[p] = payments[p]
    \/ /\ payments[p].status = "none"
       /\ payments'[p].status = "pending"
       /\ payments'[p].order \in Orders

(* Steps that touch no payment a worker holds.                              *)
LEMMA QuietStep ==
    ASSUME MoneyInv, TypeInv', PhaseSound',
           UNCHANGED <<charged, journal, lost, recon>>,
           \A p \in Payments : RowKept(p),
           \A r \in Runs, o \in Orders : Quiet(r, o),
           \A o \in Orders : orders'[o].flag = "renewed" => orders[o].flag = "renewed"
    PROVE  MoneyInv'
<1> USE DEF MoneyInv
<1>1. \A r \in Runs, o \in Orders :
         /\ Live(r, o)' => job'[r][o] = job[r][o]
         /\ Live(r, o) => job'[r][o] = job[r][o]
         /\ job'[r][o] = job[r][o] \/ (job'[r][o].first = NoPayment /\ job'[r][o].pay = NoPayment)
  BY DEF Quiet, Live
<1>2. NoPayment \notin Payments  BY RenewalAssumption
<1>3. \A p \in Payments : payments[p].status # "none" => payments'[p] = payments[p]
  BY DEF RowKept
<1>4. \A p \in charged \cup journal : p \in Payments /\ payments[p].status # "none"
  BY DEF TablesSound, JournalReconcilable, TypeInv, TypeOK
<1>5. JobSound'
  BY <1>1, <1>3 DEF JobSound, Live
<1>6. JobsApart'  BY <1>1 DEF JobsApart, Live
<1>7. LegsApart'
  BY <1>1, <1>2, <1>3 DEF LegsApart, Live
<1>8. TablesSound'
  BY <1>3, <1>4 DEF TablesSound, RowKept
<1>9. JournalReconcilable' /\ SuccessIsCharged'
  BY <1>3, <1>4 DEF JournalReconcilable, SuccessIsCharged, RowKept
<1>10. ChargeAccountedFor'
  <2>1. \A p : InFlight(p) => InFlight(p)'  BY <1>1 DEF InFlight, Live
  <2>2. QED  BY <1>3, <1>4, <2>1 DEF ChargeAccountedFor, Accounted
<1>11. FallbackAfterChargeExplained'
  BY <1>1, <1>2 DEF FallbackAfterChargeExplained, TypeInv, TypeOK
<1>12. RenewedIsPaid'  BY <1>3 DEF RenewedIsPaid
<1>13. QED  BY <1>5, <1>6, <1>7, <1>8, <1>9, <1>10, <1>11, <1>12

(* The command's own steps, and the members', touch no payment and no job   *)
(* that holds one.                                                          *)
LEMMA CommandKeepsMoney ==
    ASSUME MoneyInv, TypeInv', NEW r \in Runs,
           StartCharge(r) \/ StartRetry(r) \/ Command(r) \/ Cancel(r)
    PROVE  MoneyInv'
<1> USE DEF MoneyInv
<1>t. TypeOK  BY DEF TypeInv
<1>1. ASSUME NEW kind, NEW ids, Begin(r, kind, ids)
      PROVE  MoneyInv'
  <2>1. \A o \in Orders : /\ job'[r][o] = At("load") \/ job'[r][o] = At("none")
                          /\ job[r][o].pc = "none"
    BY <1>1, <1>t DEF Begin, TypeOK, PhaseSound
  <2>2. \A s \in Runs \ {r} : job'[s] = job[s] /\ run'[s] = run[s]
    BY <1>1, <1>t DEF Begin, TypeOK
  <2>3. run'[r].phase = "resolve"  BY <1>1, <1>t DEF Begin, TypeOK
  <2>4. \A s \in Runs, o \in Orders : Quiet(s, o)  BY <2>1, <2>2 DEF Quiet, At
  <2>5. \A o \in Orders : job'[r][o].pc \in {"load", "none"}  BY <2>1 DEF At
  <2>6. PhaseSound'
    BY <2>2, <2>3, <2>5 DEF PhaseSound, Active
  <2>7. QED  BY <1>1, <2>4, <2>6, QuietStep DEF Begin, RowKept
<1>2. ASSUME Stop(r), \A o \in Orders : job[r][o].pc \notin Active,
             UNCHANGED <<orders, month, payments, charged, journal, lost, recon>>
      PROVE  MoneyInv'
  <2>1. /\ \A o \in Orders : job'[r][o] = At("none")
        /\ \A s \in Runs \ {r} : job'[s] = job[s] /\ run'[s] = run[s]
    BY <1>2, <1>t, StopType DEF Stop, TypeOK
  <2>2. \A s \in Runs, o \in Orders : Quiet(s, o)
    BY <1>2, <2>1 DEF Quiet, At, Active
  <2>3. PhaseSound'
    BY <2>1 DEF PhaseSound, At, Active
  <2>4. QED  BY <1>2, <2>2, <2>3, QuietStep DEF RowKept
<1>3. ASSUME run' = [run EXCEPT ![r].phase = "charge"], run[r].phase = "resolve", job' = job
      PROVE  PhaseSound' /\ \A s \in Runs, o \in Orders : Quiet(s, o)
  <2>1. run'[r].phase = "charge" /\ \A s \in Runs \ {r} : run'[s] = run[s]
    BY <1>3, <1>t DEF TypeOK, RunState
  <2>2. QED  BY <1>3, <2>1 DEF PhaseSound, Quiet
<1>4. CASE StartCharge(r)  BY <1>1, <1>4 DEF StartCharge
<1>5. CASE StartRetry(r)  BY <1>1, <1>5 DEF StartRetry
<1>6. CASE NothingResolved(r)
  BY <1>2, <1>6 DEF NothingResolved, PreResolved, PhaseSound
<1>7. CASE BeginCharge(r)
  BY <1>3, <1>7, QuietStep DEF BeginCharge, PreResolved, RowKept
<1>8. CASE BeginRetryCharge(r)
  <2>1. \A o \in Orders : orders'[o].flag = "renewed" => orders[o].flag = "renewed"
    BY <1>8, <1>t DEF BeginRetryCharge, MarkResolvedForRenew, TypeOK, OrderTable, OrderRow
  <2>2. QED  BY <1>3, <1>8, <2>1, QuietStep DEF BeginRetryCharge, PreResolved, RowKept
<1>9. CASE MarkResolvedFails(r)
  BY <1>2, <1>9 DEF MarkResolvedFails, PreResolved, PhaseSound
<1>10. CASE EndRun(r)
  BY <1>2, <1>10 DEF EndRun, Busy
<1>11. CASE Cancel(r)
  <2>1. \A s \in Runs : run'[s].phase = run[s].phase
    BY <1>11, <1>t DEF Cancel, TypeOK, RunState
  <2>2. PhaseSound' /\ \A s \in Runs, o \in Orders : Quiet(s, o)
    BY <1>11, <2>1 DEF Cancel, PhaseSound, Quiet
  <2>3. QED  BY <1>11, <2>2, QuietStep DEF Cancel, RowKept
<1>12. QED  BY <1>4, <1>5, <1>6, <1>7, <1>8, <1>9, <1>10, <1>11 DEF Command

(* A worker's steps before it holds a payment.                              *)
LEMMA LoadKeepsMoney ==
    ASSUME MoneyInv, TypeInv', NEW r \in Runs, NEW o \in Orders,
           LoadResolves(r, o) \/ LoadFails(r, o) \/ FlagPricingError(r, o) \/ TakeJob(r, o)
    PROVE  MoneyInv'
<1> USE DEF MoneyInv
<1>t. TypeOK  BY DEF TypeInv
<1>1. PICK pc \in {"flag", "excluded", "resolved", "create"} :
         /\ Move(r, o, At(pc))
         /\ pc = "create" => run[r].phase = "charge"
  BY DEF LoadResolves, LoadFails, FlagPricingError, TakeJob
<1>2. /\ job[r][o].pc \in {"load", "flag", "resolved"}
      /\ UNCHANGED <<payments, charged, journal, lost, run, recon>>
  BY DEF LoadResolves, LoadFails, FlagPricingError, TakeJob
<1>3. \A i \in Orders : orders'[i].flag = "renewed" => orders[i].flag = "renewed"
  BY <1>t DEF LoadResolves, LoadFails, FlagPricingError, TakeJob, FlagOrder, TypeOK, OrderTable, OrderRow
<1>4. /\ job'[r][o] = At(pc)
      /\ \A s \in Runs, i \in Orders : <<s, i>> # <<r, o>> => job'[s][i] = job[s][i]
  BY <1>1, <1>t, AtType, MoveType
<1>5. \A s \in Runs, i \in Orders : Quiet(s, i)
  BY <1>2, <1>4 DEF Quiet, At
<1>6. PhaseSound'
  BY <1>1, <1>2, <1>4 DEF PhaseSound, At, Active
<1>7. QED  BY <1>2, <1>3, <1>5, <1>6, QuietStep DEF RowKept


-----------------------------------------------------------------------------
(* One order on one terminal.                                               *)

(* What a worker that moves to job k on an order it already charges         *)
(* disturbs: everybody else's jobs stay, and the phases with them.          *)
LEMMA WorkerMoves ==
    ASSUME MoneyInv, NEW r \in Runs, NEW o \in Orders, NEW k \in Job,
           job[r][o].pc \in Active, Move(r, o, k), run' = run,
           k.pc \in Active \cup {"done"}
    PROVE  /\ job'[r][o] = k
           /\ \A s \in Runs, i \in Orders : <<s, i>> # <<r, o>> => job'[s][i] = job[s][i]
           /\ PhaseSound'
<1>1. /\ job'[r][o] = k
      /\ \A s \in Runs, i \in Orders : <<s, i>> # <<r, o>> => job'[s][i] = job[s][i]
  BY MoveType DEF MoneyInv, TypeInv
<1>2. PhaseSound'
  BY <1>1 DEF MoneyInv, PhaseSound, Active
<1>3. QED  BY <1>1, <1>2

LEMMA CreateKeepsMoney ==
    ASSUME MoneyInv, TypeInv', NEW r \in Runs, NEW o \in Orders, CreateRenewalPayment(r, o)
    PROVE  MoneyInv'
<1> USE DEF MoneyInv
<1> DEFINE j == job[r][o]
<1>t. TypeOK  BY DEF TypeInv
<1>j. j \in Job  BY <1>t DEF TypeOK
<1>0. PICK p \in Payments : Inserted(p, o) /\ Move(r, o, [j EXCEPT !.pc = "send", !.pay = p])
  BY DEF CreateRenewalPayment
<1>1. PICK k \in Job : /\ Move(r, o, k)
                       /\ k.pc = "send" /\ k.pay = p /\ k.first = j.first /\ k.terminal = j.terminal
  <2> DEFINE k == [j EXCEPT !.pc = "send", !.pay = p]
  <2>1. /\ k \in Job
        /\ k.pc = "send" /\ k.pay = p /\ k.first = j.first /\ k.terminal = j.terminal
    BY <1>j DEF Job, Active
  <2>2. Move(r, o, k)  BY <1>0
  <2> HIDE DEF k
  <2>3. QED  BY <2>1, <2>2
<1>2. Inserted(p, o)  BY <1>0
<1>3. j.pc = "create" /\ UNCHANGED <<orders, charged, journal, lost, run, recon>>
  BY DEF CreateRenewalPayment
<1>4. /\ job'[r][o] = k
      /\ \A s \in Runs, i \in Orders : <<s, i>> # <<r, o>> => job'[s][i] = job[s][i]
      /\ PhaseSound'
  BY <1>1, <1>3, WorkerMoves DEF Active
<1>5. /\ payments[p].status = "none" /\ payments'[p].status = "pending" /\ payments'[p].order = o
      /\ \A q \in Payments \ {p} : payments'[q] = payments[q]
  BY <1>2, <1>t, InsertedType
<1>6. p \notin charged /\ p \notin journal
  BY <1>5 DEF TablesSound, JournalReconcilable
<1>7. \A s \in Runs, i \in Orders : Live(s, i) => job[s][i].pay # p
  BY <1>5 DEF JobSound
<1>8. \A s \in Runs, i \in Orders : job[s][i].pc \in Active => job[s][i].first # p
  BY <1>5 DEF LegsApart
<1>9. JobSound'
  BY <1>1, <1>3, <1>4, <1>5, <1>6, <1>7 DEF JobSound, Live
<1>10. JobsApart'
  BY <1>1, <1>4, <1>7 DEF JobsApart, Live
<1>11. LegsApart'
  BY <1>1, <1>3, <1>4, <1>5, <1>8 DEF LegsApart, Live, Active
<1>12. TablesSound' /\ JournalReconcilable' /\ SuccessIsCharged'
  BY <1>3, <1>5, <1>6 DEF TablesSound, JournalReconcilable, SuccessIsCharged, TypeInv, TypeOK
<1>13. ChargeAccountedFor'
  <2>1. \A q : InFlight(q) => InFlight(q)'  BY <1>3, <1>4 DEF InFlight
  <2>2. QED  BY <1>3, <1>5, <1>6, <2>1, <1>t DEF ChargeAccountedFor, Accounted, TypeOK
<1>14. FallbackAfterChargeExplained'
  BY <1>1, <1>3, <1>4 DEF FallbackAfterChargeExplained, Active
<1>15. RenewedIsPaid'
  BY <1>3, <1>5 DEF RenewedIsPaid
<1>16. QED  BY <1>4, <1>9, <1>10, <1>11, <1>12, <1>13, <1>14, <1>15


LEMMA NextLegFacts ==
    ASSUME NEW j \in Job
    PROVE  LET k == NextLeg(j) IN
           /\ k \in Job
           /\ k.pc \in {"create", "done"}
           /\ k.pay = NoPayment
           /\ k.first \in {NoPayment, j.pay}
BY NextLegType DEF NextLeg, At

LEMMA CreateFailsKeepsMoney ==
    ASSUME MoneyInv, TypeInv', NEW r \in Runs, NEW o \in Orders, CreateFails(r, o)
    PROVE  MoneyInv'
<1> USE DEF MoneyInv
<1> DEFINE j == job[r][o]
<1>t. TypeOK  BY DEF TypeInv
<1>j. j \in Job /\ j.pc = "create" /\ j.pay = NoPayment
  BY <1>t DEF TypeOK, CreateFails, JobSound
<1>1. PICK k \in Job : Move(r, o, k) /\ k.pc \in {"create", "done"} /\ k.pay = NoPayment /\ k.first = NoPayment
  BY <1>j, NextLegFacts DEF CreateFails
<1>2. UNCHANGED <<orders, charged, journal, lost, run, recon>>  BY DEF CreateFails
<1>3. /\ job'[r][o] = k
      /\ \A s \in Runs, i \in Orders : <<s, i>> # <<r, o>> => job'[s][i] = job[s][i]
      /\ PhaseSound'
  BY <1>1, <1>2, <1>j, WorkerMoves DEF Active
<1>4. \A s \in Runs, i \in Orders : Quiet(s, i)  BY <1>1, <1>3, <1>j DEF Quiet
<1>5. \A p \in Payments : RowKept(p)
  BY <1>t, InsertedType DEF CreateFails, RowKept
<1>6. QED  BY <1>2, <1>3, <1>4, <1>5, QuietStep

(* The answer of the gateway, and the 401 that is retried: the card of the  *)
(* payment a worker holds may have been charged, and the worker goes on to  *)
(* resend or to finalize.                                                   *)
LEMMA AskingKeepsMoney ==
    ASSUME MoneyInv, TypeInv', NEW r \in Runs, NEW o \in Orders, NEW k \in Job, NEW p,
           job[r][o].pc \in {"send", "resend"},
           Move(r, o, k), UNCHANGED <<orders, payments, journal, run, recon>>,
           p = job[r][o].pay, k.pay = p, k.first = job[r][o].first, k.terminal = job[r][o].terminal,
           k.pc \in {"resend", "finalize"},
           charged' \in {charged, charged \cup {p}},
           lost' \in {lost, lost \cup {p}},
           k.pc = "finalize" => /\ k.answer = "success" => p \in charged'
                                /\ k.answer # "success" /\ p \in charged' => p \in lost'
    PROVE  MoneyInv'
<1> USE DEF MoneyInv
<1>t. TypeOK  BY DEF TypeInv
<1>1. /\ job'[r][o] = k
      /\ \A s \in Runs, i \in Orders : <<s, i>> # <<r, o>> => job'[s][i] = job[s][i]
      /\ PhaseSound'
  BY WorkerMoves DEF Active
<1>2. /\ p \in Payments /\ payments[p].order = o /\ payments[p].status = "pending"
      /\ p \notin journal
  BY DEF JobSound, Live
<1>3. \A s \in Runs, i \in Orders : Live(s, i) /\ <<s, i>> # <<r, o>> => job[s][i].pay # p
  BY DEF JobsApart, Live
<1>4. \A s \in Runs, i \in Orders : job[s][i].pc \in Active => job[s][i].first # p
  BY <1>2 DEF LegsApart, Live
<1>5. JobSound'
  BY <1>1, <1>2, <1>3 DEF JobSound, Live
<1>6. JobsApart'
  BY <1>1, <1>3 DEF JobsApart, Live
<1>7. LegsApart'
  BY <1>1, <1>4 DEF LegsApart, Live, Active
<1>8. TablesSound' /\ JournalReconcilable' /\ SuccessIsCharged'
  BY <1>2 DEF TablesSound, JournalReconcilable, SuccessIsCharged
<1>9. ChargeAccountedFor'
  <2>1. \A q : q # p /\ InFlight(q) => InFlight(q)'  BY <1>1 DEF InFlight
  <2>2. p \in charged' => Accounted(p)'
    BY <1>1, <1>2 DEF Accounted, InFlight, Job
  <2>3. \A q : q # p /\ Accounted(q) => Accounted(q)'  BY <2>1 DEF Accounted
  <2>4. \A q \in charged' : q # p => q \in charged  OBVIOUS
  <2>5. QED  BY <2>2, <2>3, <2>4 DEF ChargeAccountedFor
<1>10. FallbackAfterChargeExplained'
  BY <1>1, <1>4 DEF FallbackAfterChargeExplained, Active
<1>11. RenewedIsPaid'  BY DEF RenewedIsPaid
<1>12. QED  BY <1>1, <1>5, <1>6, <1>7, <1>8, <1>9, <1>10, <1>11


(* A worker whose leg ends: its payment is settled, noted, given up as      *)
(* lost, or left pending with no charge behind it.                          *)
LEMMA LegEnds ==
    ASSUME MoneyInv, TypeInv', NEW r \in Runs, NEW o \in Orders, NEW k \in Job, NEW p,
           Live(r, o), p = job[r][o].pay,
           Move(r, o, k), UNCHANGED <<run, recon>>,
           k.pc \in {"create", "done"}, k.pay = NoPayment, k.first \in {NoPayment, p},
           \A q \in Payments \ {p} : payments'[q] = payments[q],
           payments'[p].order = o, payments'[p].status \in {"pending", "success", "failed"},
           charged' \in {charged, charged \cup {p}},
           journal' \in {journal, journal \cup {p}},
           lost' \in {lost, lost \cup {p}},
           payments'[p].status = "success" => p \in charged',
           p \in journal' => p \in charged' /\ payments'[p].status # "failed",
           p \in charged' => payments'[p].status = "success" \/ p \in journal' \/ p \in lost',
           k.pc = "create" /\ p \in charged' => p \in lost' \cup journal',
           \A i \in Orders : orders'[i].flag = "renewed" =>
              orders[i].flag = "renewed" \/ (i = o /\ payments'[p].status = "success")
    PROVE  MoneyInv'
<1> USE DEF MoneyInv
<1>t. TypeOK /\ TypeOK' /\ NoPayment \notin Payments  BY RenewalAssumption DEF TypeInv
<1>1. /\ job'[r][o] = k
      /\ \A s \in Runs, i \in Orders : <<s, i>> # <<r, o>> => job'[s][i] = job[s][i]
      /\ PhaseSound'
  BY WorkerMoves DEF Active, Live
<1>2. /\ p \in Payments /\ payments[p].order = o /\ payments[p].status = "pending"
      /\ p \notin journal
  BY DEF JobSound
<1>3. \A s \in Runs, i \in Orders : Live(s, i) /\ <<s, i>> # <<r, o>> => job[s][i].pay # p
  BY DEF JobsApart
<1>4. \A s \in Runs, i \in Orders : job[s][i].pc \in Active => job[s][i].first # p
  BY <1>2 DEF LegsApart
<1>5. \A s \in Runs, i \in Orders : Live(s, i)' => <<s, i>> # <<r, o>> /\ Live(s, i) /\ job'[s][i] = job[s][i]
  BY <1>1 DEF Live
<1>6. JobSound'
  <2>1. \A s \in Runs, i \in Orders : Live(s, i)' =>
           /\ job'[s][i] = job[s][i] /\ Live(s, i) /\ job[s][i].pay # p
    BY <1>3, <1>5
  <2>2. \A s \in Runs, i \in Orders : job'[s][i].pc = "create" => job'[s][i].pay = NoPayment
    BY <1>1 DEF JobSound
  <2>3. QED  BY <2>1, <2>2 DEF JobSound, Live
<1>7. JobsApart'
  BY <1>5 DEF JobsApart
<1>8. LegsApart'
  <2> SUFFICES ASSUME NEW s \in Runs, NEW i \in Orders,
                      job'[s][i].pc \in Active, job'[s][i].first \in Payments
               PROVE  /\ payments'[job'[s][i].first].status # "none"
                      /\ \A s2 \in Runs, i2 \in Orders :
                            Live(s2, i2)' => job'[s2][i2].pay # job'[s][i].first
    BY DEF LegsApart
  <2>1. CASE <<s, i>> = <<r, o>>
    BY <2>1, <1>1, <1>t, <1>3, <1>5
  <2>2. CASE <<s, i>> # <<r, o>>
    <3>1. job'[s][i] = job[s][i] /\ job[s][i].first # p  BY <2>2, <1>1, <1>4
    <3>2. QED  BY <3>1, <1>5 DEF LegsApart
  <2>3. QED  BY <2>1, <2>2
<1>9. recon.pc = "finalize" => recon.pay # p
  BY <1>2 DEF TablesSound
<1>10. TablesSound' /\ JournalReconcilable' /\ SuccessIsCharged'
  <2>1. \A q \in charged \cup journal : q \in Payments  BY <1>t DEF TypeOK
  <2>2. TablesSound'
    BY <1>2, <1>9, <2>1 DEF TablesSound
  <2>3. JournalReconcilable'
    BY <1>2, <2>1 DEF JournalReconcilable
  <2>4. SuccessIsCharged'
    BY <1>2 DEF SuccessIsCharged
  <2>5. QED  BY <2>2, <2>3, <2>4
<1>11. ChargeAccountedFor'
  <2>1. \A q : q # p /\ InFlight(q) => InFlight(q)'  BY <1>1 DEF InFlight
  <2>2. \A q \in Payments : q # p /\ Accounted(q) => Accounted(q)'  BY <2>1 DEF Accounted
  <2>3. \A q \in charged' : q \in Payments /\ (q # p => q \in charged)  BY <1>t DEF TypeOK
  <2>4. p \in charged' => Accounted(p)'  BY DEF Accounted
  <2>5. QED  BY <2>2, <2>3, <2>4 DEF ChargeAccountedFor
<1>12. FallbackAfterChargeExplained'
  <2> SUFFICES ASSUME NEW s \in Runs, NEW i \in Orders,
                      job'[s][i].pc \in Active, job'[s][i].terminal = "emv", job'[s][i].first \in charged'
               PROVE  job'[s][i].first \in lost' \cup journal'
    BY DEF FallbackAfterChargeExplained
  <2>1. CASE <<s, i>> = <<r, o>>
    BY <2>1, <1>1, <1>t DEF TypeOK, Active
  <2>2. CASE <<s, i>> # <<r, o>>
    <3>1. job'[s][i] = job[s][i] /\ job[s][i].first # p  BY <2>2, <1>1, <1>4
    <3>2. QED  BY <3>1 DEF FallbackAfterChargeExplained
  <2>3. QED  BY <2>1, <2>2
<1>13. RenewedIsPaid'
  <2> SUFFICES ASSUME NEW i \in Orders, orders'[i].flag = "renewed"
               PROVE  \E q \in Payments : payments'[q].order = i /\ payments'[q].status = "success"
    BY DEF RenewedIsPaid
  <2>1. CASE orders[i].flag = "renewed"
    <3>1. PICK q \in Payments : payments[q].order = i /\ payments[q].status = "success"
      BY <2>1 DEF RenewedIsPaid
    <3>2. QED  BY <3>1, <1>2
  <2>2. CASE i = o /\ payments'[p].status = "success"
    BY <2>2, <1>2
  <2>3. QED  BY <2>1, <2>2
<1>14. QED  BY <1>1, <1>6, <1>7, <1>8, <1>10, <1>11, <1>12, <1>13


(* A payment a finalization settles.                                        *)
LEMMA FinalizedFacts ==
    ASSUME TypeOK, NEW p \in Payments, NEW o \in Orders, NEW ok \in BOOLEAN, Finalized(p, o, ok)
    PROVE  /\ payments'[p].status = IF ok THEN "success" ELSE "failed"
           /\ payments'[p].order = payments[p].order
           /\ \A q \in Payments \ {p} : payments'[q] = payments[q]
           /\ \A i \in Orders : orders'[i].flag = "renewed" =>
                 orders[i].flag = "renewed" \/ (i = o /\ ok)
<1>1. /\ payments'[p].status = IF ok THEN "success" ELSE "failed"
      /\ payments'[p].order = payments[p].order
      /\ \A q \in Payments \ {p} : payments'[q] = payments[q]
  BY DEF TypeOK, Finalized, PaymentRow
<1>2. \A i \in Orders : orders'[i].flag = "renewed" => orders[i].flag = "renewed" \/ (i = o /\ ok)
  BY DEF TypeOK, Finalized, Renewed, NotRenewed, OrderTable, OrderRow
<1>3. QED  BY <1>1, <1>2

LEMMA AnswerKeepsMoney ==
    ASSUME MoneyInv, TypeInv', NEW r \in Runs, NEW o \in Orders,
           \/ Approve(r, o) \/ Decline(r, o) \/ GatewayError(r, o) \/ NoCredential(r, o)
           \/ Rejected(r, o) \/ RejectedAgain(r, o)
    PROVE  MoneyInv'
<1> USE DEF MoneyInv
<1> DEFINE j == job[r][o]
           p == j.pay
<1>j. j \in Job /\ j.pc \in {"send", "resend"}
  BY DEF TypeInv, TypeOK, Approve, Decline, GatewayError, NoCredential, Rejected, RejectedAgain, Asking
<1>1. ASSUME NEW answer \in {"success", "declined", "gateway", "credential"}, NEW took \in BOOLEAN,
             answer = "success" => took,
             answer = "declined" => ~took /\ p \notin charged,
             Answer(r, o, answer, took)
      PROVE  MoneyInv'
  <2>1. PICK k \in Job : /\ Move(r, o, k) /\ k.pay = p /\ k.first = j.first /\ k.terminal = j.terminal
                         /\ k.pc = "finalize" /\ k.answer = answer
    <3> DEFINE k == [j EXCEPT !.pc = "finalize", !.answer = answer]
    <3>1. /\ k \in Job /\ k.pay = p /\ k.first = j.first /\ k.terminal = j.terminal
          /\ k.pc = "finalize" /\ k.answer = answer
      BY <1>j DEF Job, Active
    <3>2. Move(r, o, k)  BY <1>1 DEF Answer
    <3> HIDE DEF k
    <3>3. QED  BY <3>1, <3>2
  <2>2. charged' = IF took THEN charged \cup {p} ELSE charged
    BY <1>1 DEF Answer
  <2>3. lost' = IF answer \in {"gateway", "credential"} THEN lost \cup ({p} \cap charged') ELSE lost
    BY <1>1 DEF Answer
  <2>4. UNCHANGED <<orders, payments, journal, run, recon>>
    BY <1>1 DEF Answer
  <2>5. /\ charged' \in {charged, charged \cup {p}}
        /\ lost' \in {lost, lost \cup {p}}
        /\ answer = "success" => p \in charged'
        /\ answer # "success" /\ p \in charged' => p \in lost'
    BY <1>1, <2>2, <2>3
  <2> HIDE DEF j, p
  <2>6. p = job[r][o].pay /\ j = job[r][o]  BY DEF j, p
  <2>7. QED  BY <1>j, <2>1, <2>4, <2>5, <2>6, AskingKeepsMoney
<1>2. CASE Approve(r, o)  BY <1>1, <1>2 DEF Approve
<1>3. CASE Decline(r, o)  BY <1>1, <1>3 DEF Decline
<1>4. CASE GatewayError(r, o)  BY <1>1, <1>4 DEF GatewayError
<1>5. CASE NoCredential(r, o)  BY <1>1, <1>5 DEF NoCredential
<1>6. CASE RejectedAgain(r, o)  BY <1>1, <1>6 DEF RejectedAgain
<1>7. CASE Rejected(r, o)
  <2>1. PICK k \in Job : /\ Move(r, o, k) /\ k.pay = p /\ k.first = j.first /\ k.terminal = j.terminal
                         /\ k.pc = "resend"
    <3> DEFINE k == [j EXCEPT !.pc = "resend"]
    <3>1. /\ k \in Job /\ k.pay = p /\ k.first = j.first /\ k.terminal = j.terminal
          /\ k.pc = "resend"
      BY <1>j DEF Job, Active
    <3>2. Move(r, o, k)  BY <1>7 DEF Rejected
    <3> HIDE DEF k
    <3>3. QED  BY <3>1, <3>2
  <2>2. /\ charged' \in {charged, charged \cup {p}}
        /\ UNCHANGED <<orders, payments, journal, lost, run, recon>>
    BY <1>7 DEF Rejected
  <2> HIDE DEF j, p
  <2>3. p = job[r][o].pay /\ j = job[r][o]  BY DEF j, p
  <2>4. QED  BY <1>j, <2>1, <2>2, <2>3, AskingKeepsMoney
<1>8. QED  BY <1>2, <1>3, <1>4, <1>5, <1>6, <1>7


LEMMA FinalizeKeepsMoney ==
    ASSUME MoneyInv, TypeInv', NEW r \in Runs, NEW o \in Orders,
           FinalizeCommits(r, o) \/ FinalizeRollsBack(r, o) \/ CommitFails(r, o)
    PROVE  MoneyInv'
<1> USE DEF MoneyInv
<1>t. TypeOK  BY DEF TypeInv
<1>1. PICK j \in Job, p \in {job[r][o].pay} : j = job[r][o] /\ p = j.pay
  BY <1>t DEF TypeOK
<1>2. j.pc = "finalize" /\ Live(r, o)
  BY <1>1 DEF Live, FinalizeCommits, FinalizeRollsBack, CommitFails
<1>3. /\ p \in Payments /\ payments[p].order = o /\ payments[p].status = "pending"
      /\ p \notin journal
      /\ j.answer = "success" => p \in charged
      /\ j.answer # "success" /\ p \in charged => p \in lost
  BY <1>1, <1>2 DEF JobSound
<1>4. PICK ok \in BOOLEAN : ok = (j.answer = "success")  OBVIOUS
<1>5. ASSUME NEW k \in Job, Move(r, o, k),
             k.pc \in {"create", "done"}, k.pay = NoPayment, k.first \in {NoPayment, p},
             \/ Finalized(p, o, ok)
             \/ UNCHANGED <<payments, orders>>,
             journal' = journal \/ (ok /\ journal' = journal \cup {p}),
             ok => Finalized(p, o, ok) \/ journal' = journal \cup {p},
             ok /\ k.pc = "create" => journal' = journal \cup {p},
             UNCHANGED <<charged, lost, run, recon>>
      PROVE  MoneyInv'
  <2>1. /\ payments'[p].order = o
        /\ \A q \in Payments \ {p} : payments'[q] = payments[q]
        /\ \/ payments'[p].status = "pending" /\ UNCHANGED orders
              /\ ~Finalized(p, o, ok)
           \/ payments'[p].status = "success" /\ ok
           \/ payments'[p].status = "failed" /\ ~ok
        /\ \A i \in Orders : orders'[i].flag = "renewed" =>
              orders[i].flag = "renewed" \/ (i = o /\ payments'[p].status = "success")
    <3>1. CASE Finalized(p, o, ok)  BY <3>1, <1>3, <1>t, FinalizedFacts
    <3>2. CASE ~Finalized(p, o, ok)  BY <3>2, <1>5, <1>3
    <3>3. QED  BY <3>1, <3>2
  <2>2. /\ payments'[p].status \in {"pending", "success", "failed"}
        /\ payments'[p].status = "success" => p \in charged'
        /\ p \in journal' => p \in charged' /\ payments'[p].status # "failed"
        /\ p \in charged' => payments'[p].status = "success" \/ p \in journal' \/ p \in lost'
        /\ k.pc = "create" /\ p \in charged' => p \in lost' \cup journal'
    BY <2>1, <1>3, <1>4, <1>5
  <2>3. journal' \in {journal, journal \cup {p}}  BY <1>5
  <2>4. QED  BY <1>1, <1>2, <1>5, <2>1, <2>2, <2>3, LegEnds
<1>6. At("done") \in Job /\ At("done").pc = "done" /\ At("done").pay = NoPayment /\ At("done").first = NoPayment
  BY AtType DEF At
<1>7. PICK next \in Job : /\ next = NextLeg(j)
                          /\ next.pc \in {"create", "done"} /\ next.pay = NoPayment /\ next.first \in {NoPayment, p}
  BY <1>1, NextLegFacts
<1>8. CASE FinalizeCommits(r, o)
  <2>1. /\ Finalized(p, o, ok) /\ UNCHANGED <<charged, journal, lost, run, recon>>
        /\ Move(r, o, AfterCommit(j))
    BY <1>1, <1>4, <1>8 DEF FinalizeCommits
  <2>2. CASE j.answer \in {"success", "credential"}
    <3>1. Move(r, o, At("done"))  BY <2>1, <2>2 DEF AfterCommit
    <3>2. QED  BY <1>5, <1>6, <2>1, <3>1
  <2>3. CASE j.answer \notin {"success", "credential"}
    <3>1. Move(r, o, next) /\ ~ok  BY <2>1, <2>3, <1>4, <1>7 DEF AfterCommit
    <3>2. QED  BY <1>5, <1>7, <2>1, <3>1
  <2>4. QED  BY <2>2, <2>3
<1>9. CASE FinalizeRollsBack(r, o)
  <2>1. /\ UNCHANGED <<orders, payments, charged, lost, run, recon>>
        /\ Move(r, o, At("done")) /\ Journalled(j)
    BY <1>1, <1>9 DEF FinalizeRollsBack
  <2>2. journal' = IF ok THEN journal \cup {p} ELSE journal  BY <2>1, <1>1, <1>4 DEF Journalled
  <2>3. QED  BY <1>5, <1>6, <2>1, <2>2
<1>10. CASE CommitFails(r, o)
  <2>1. /\ Finalized(p, o, ok) \/ UNCHANGED <<payments, orders>>
        /\ UNCHANGED <<charged, lost, run, recon>>
        /\ Move(r, o, next) /\ Journalled(j)
    BY <1>1, <1>4, <1>7, <1>10 DEF CommitFails
  <2>2. journal' = IF ok THEN journal \cup {p} ELSE journal  BY <2>1, <1>1, <1>4 DEF Journalled
  <2>3. QED  BY <1>5, <1>7, <2>1, <2>2
<1>11. QED  BY <1>8, <1>9, <1>10

LEMMA PanicKeepsMoney ==
    ASSUME MoneyInv, TypeInv', NEW r \in Runs, NEW o \in Orders, Panic(r, o)
    PROVE  MoneyInv'
<1> USE DEF MoneyInv
<1>t. TypeOK  BY DEF TypeInv
<1>1. At("done") \in Job /\ At("done").pc = "done" /\ At("done").pay = NoPayment /\ At("done").first = NoPayment
  BY AtType DEF At
<1>2. Move(r, o, At("done")) /\ UNCHANGED <<orders, payments, journal, run, recon>>  BY DEF Panic
<1>3. PICK p : p = job[r][o].pay  OBVIOUS
<1>4. CASE Live(r, o)
  <2>1. /\ payments[p].order = o /\ payments[p].status = "pending"
        /\ p \notin journal
    BY <1>3, <1>4 DEF JobSound
  <2>2. PICK took \in SUBSET {p} : charged' = charged \cup took /\ lost' = lost \cup ({p} \cap (charged \cup took))
    BY <1>3, <1>4 DEF Panic, Dropped, Live
  <2>3. /\ charged' \in {charged, charged \cup {p}}
        /\ lost' \in {lost, lost \cup {p}}
        /\ p \in charged' => p \in lost'
    BY <2>2
  <2>4. QED  BY <1>1, <1>2, <1>3, <1>4, <2>1, <2>3, LegEnds
<1>5. CASE ~Live(r, o)
  <2>1. charged' = charged /\ lost' = lost
    BY <1>5 DEF Panic, Dropped, Live
  <2>2. /\ job'[r][o] = At("done")
        /\ \A s \in Runs, i \in Orders : <<s, i>> # <<r, o>> => job'[s][i] = job[s][i]
        /\ PhaseSound'
    BY <1>1, <1>2, WorkerMoves DEF Panic
  <2>3. \A s \in Runs, i \in Orders : Quiet(s, i)  BY <1>1, <1>5, <2>2 DEF Quiet, Live
  <2>4. QED  BY <1>2, <2>1, <2>2, <2>3, QuietStep DEF RowKept
<1>6. QED  BY <1>4, <1>5

(* The payments of a process that dies are charged or not; what was charged *)
(* is lost, and no worker of another process held them.                     *)
LEMMA CrashKeepsMoney ==
    ASSUME MoneyInv, TypeInv', NEW r \in Runs, Crash(r)
    PROVE  MoneyInv'
<1> USE DEF MoneyInv
<1>t. TypeOK  BY DEF TypeInv
<1>1. /\ \A i \in Orders : job'[r][i] = At("none")
      /\ \A s \in Runs \ {r} : job'[s] = job[s] /\ run'[s] = run[s]
  BY <1>t, StopType DEF Crash, Stop, TypeOK
<1>2. UNCHANGED <<orders, payments, journal, recon>>  BY DEF Crash
<1>3. PICK held : held = {job[r][o].pay : o \in {i \in Orders : Live(r, i)}}  OBVIOUS
<1>4. /\ charged \subseteq charged' /\ charged' \subseteq charged \cup held
      /\ lost' = lost \cup (held \cap charged')
  BY <1>3 DEF Crash, Dropped, Live
<1>5. \A p \in held : /\ p \in Payments /\ payments[p].status = "pending" /\ p \notin journal
                      /\ \A s \in Runs \ {r}, i \in Orders : Live(s, i) => job[s][i].pay # p
                      /\ \A s \in Runs, i \in Orders : job[s][i].pc \in Active => job[s][i].first # p
  BY <1>3 DEF JobSound, JobsApart, LegsApart
<1>6. \A s \in Runs, i \in Orders : job'[s][i].pc # "none" => s # r /\ job'[s][i] = job[s][i]
  BY <1>1 DEF At
<1>7. PhaseSound'
  BY <1>1 DEF PhaseSound, At, Active
<1>8. JobSound'
  BY <1>2, <1>4, <1>5, <1>6 DEF JobSound, Live
<1>9. JobsApart'  BY <1>6 DEF JobsApart, Live
<1>10. LegsApart'
  BY <1>2, <1>6 DEF LegsApart, Live, Active
<1>11. TablesSound' /\ JournalReconcilable' /\ SuccessIsCharged'
  BY <1>2, <1>4, <1>5 DEF TablesSound, JournalReconcilable, SuccessIsCharged
<1>12. ChargeAccountedFor'
  <2>1. \A q : InFlight(q) => InFlight(q)' \/ q \in held
    BY <1>1, <1>3 DEF InFlight, Live
  <2>2. \A q \in charged' : q \notin held => q \in charged  BY <1>4
  <2>3. \A q \in charged' : q \in held => Accounted(q)'  BY <1>4 DEF Accounted
  <2>4. \A q : q \notin held /\ Accounted(q) => Accounted(q)'  BY <1>2, <1>4, <2>1 DEF Accounted
  <2>5. QED  BY <2>2, <2>3, <2>4 DEF ChargeAccountedFor
<1>13. FallbackAfterChargeExplained'
  BY <1>2, <1>4, <1>5, <1>6 DEF FallbackAfterChargeExplained, Active
<1>14. RenewedIsPaid'  BY <1>2 DEF RenewedIsPaid
<1>15. QED  BY <1>7, <1>8, <1>9, <1>10, <1>11, <1>12, <1>13, <1>14

LEMMA ReconcileKeepsMoney ==
    ASSUME MoneyInv, TypeInv', ReconcileReads \/ ReconcileFinalizes
    PROVE  MoneyInv'
<1> USE DEF MoneyInv
<1>t. TypeOK /\ TypeOK'  BY DEF TypeInv
<1>1. UNCHANGED <<charged, journal, lost, run, job>>  BY DEF ReconcileReads, ReconcileFinalizes
<1>2. PhaseSound'  BY <1>1 DEF PhaseSound
<1>3. CASE UNCHANGED <<payments, orders>>
  <2>1. TablesSound'
    BY <1>3, <1>1 DEF TablesSound, ReconcileReads, ReconcileFinalizes, IdleRecon
  <2>2. JobSound' /\ JobsApart' /\ LegsApart'
    BY <1>3, <1>1 DEF JobSound, JobsApart, LegsApart, Live
  <2>3. JournalReconcilable' /\ SuccessIsCharged' /\ FallbackAfterChargeExplained' /\ RenewedIsPaid'
    BY <1>3, <1>1 DEF JournalReconcilable, SuccessIsCharged, FallbackAfterChargeExplained, RenewedIsPaid
  <2>4. ChargeAccountedFor'
    BY <1>3, <1>1 DEF ChargeAccountedFor, Accounted, InFlight
  <2>5. QED  BY <1>2, <2>1, <2>2, <2>3, <2>4
<1>4. CASE ~UNCHANGED <<payments, orders>>
  <2>1. recon.pc = "finalize" /\ Finalized(recon.pay, payments[recon.pay].order, TRUE) /\ recon' = IdleRecon
    BY <1>4 DEF ReconcileReads, ReconcileFinalizes
  <2>2. PICK p \in Payments, o \in Orders : p = recon.pay /\ o = payments[p].order
    BY <1>t, <2>1 DEF TablesSound, TypeOK
  <2>3. p \in journal /\ p \in charged
    BY <2>1, <2>2 DEF TablesSound, JournalReconcilable
  <2>4. /\ payments'[p].status = "success" /\ payments'[p].order = o
        /\ \A q \in Payments \ {p} : payments'[q] = payments[q]
        /\ \A i \in Orders : orders'[i].flag = "renewed" => orders[i].flag = "renewed" \/ i = o
    BY <1>t, <2>1, <2>2, FinalizedFacts
  <2>5. \A s \in Runs, i \in Orders : Live(s, i) => job[s][i].pay # p
    BY <2>3 DEF JobSound
  <2>6. JobSound'
    BY <1>1, <2>4, <2>5 DEF JobSound, Live
  <2>7. JobsApart' /\ LegsApart'
    BY <1>1, <2>4 DEF JobsApart, LegsApart, Live
  <2>8. TablesSound'
    BY <1>1, <2>1, <2>4, <1>t DEF TablesSound, IdleRecon, TypeOK
  <2>9. JournalReconcilable' /\ SuccessIsCharged'
    BY <1>1, <2>3, <2>4, <1>t DEF JournalReconcilable, SuccessIsCharged, TypeOK
  <2>10. FallbackAfterChargeExplained'
    BY <1>1 DEF FallbackAfterChargeExplained
  <2>11. ChargeAccountedFor'
    BY <1>1, <2>4, <1>t DEF ChargeAccountedFor, Accounted, InFlight, TypeOK
  <2>12. RenewedIsPaid'
    BY <2>2, <2>4 DEF RenewedIsPaid
  <2>13. QED  BY <1>2, <2>6, <2>7, <2>8, <2>9, <2>10, <2>11, <2>12
<1>5. QED  BY <1>3, <1>4

LEMMA CancelOrderKeepsMoney ==
    ASSUME MoneyInv, TypeInv', NEW o \in Orders, CancelOrder(o)
    PROVE  MoneyInv'
<1> USE DEF MoneyInv
<1>1. UNCHANGED <<month, payments, charged, journal, lost, run, job, recon>>  BY DEF CancelOrder
<1>2. \A i \in Orders : orders'[i].flag = orders[i].flag
  BY DEF CancelOrder, TypeInv, TypeOK, OrderTable, OrderRow
<1>3. PhaseSound' /\ \A s \in Runs, i \in Orders : Quiet(s, i)  BY <1>1 DEF PhaseSound, Quiet
<1>4. QED  BY <1>1, <1>2, <1>3, QuietStep DEF RowKept

LEMMA MoneyInvStep == MoneyInv /\ [Next]_vars => MoneyInv'
<1> SUFFICES ASSUME MoneyInv, [Next]_vars PROVE MoneyInv'  OBVIOUS
<1>1. TypeInv'  BY TypeInvStep DEF MoneyInv
<1>2. ASSUME NEW r \in Runs, NEW o \in Orders, Order(r, o)  PROVE MoneyInv'
  BY <1>1, <1>2, LoadKeepsMoney, CreateKeepsMoney, CreateFailsKeepsMoney, AnswerKeepsMoney,
     FinalizeKeepsMoney, PanicKeepsMoney DEF Order, Worker
<1>3. CASE UNCHANGED vars
  BY <1>3, <1>1 DEF vars, MoneyInv, PhaseSound, JobSound, JobsApart, LegsApart, Live, TablesSound,
     JournalReconcilable, SuccessIsCharged, ChargeAccountedFor, Accounted, InFlight,
     FallbackAfterChargeExplained, RenewedIsPaid
<1>4. QED
  BY <1>1, <1>2, <1>3, CommandKeepsMoney, CrashKeepsMoney, CancelOrderKeepsMoney, ReconcileKeepsMoney
  DEF Next

LEMMA MoneyInvAlways == Spec => []MoneyInv
BY MoneyInvInit, MoneyInvStep, PTL DEF Spec

-----------------------------------------------------------------------------

(* No charge the service was told about disappears, however many processes  *)
(* run, crash, panic or are cancelled: it is recorded, noted for reconcile, *)
(* or still in the hands of a worker.                                       *)
THEOREM ChargesAccountedFor == Spec => []ChargeAccountedFor
<1>1. MoneyInv => ChargeAccountedFor  BY DEF MoneyInv
<1>2. QED  BY <1>1, MoneyInvAlways, PTL

(* The books never claim money that was not taken.                          *)
THEOREM SuccessesAreCharged == Spec => []SuccessIsCharged
<1>1. MoneyInv => SuccessIsCharged  BY DEF MoneyInv
<1>2. QED  BY <1>1, MoneyInvAlways, PTL

(* The EMV leg follows a charged token leg only where the answer was lost   *)
(* or the commit of the finalization failed.                                *)
THEOREM FallbackExplained == Spec => []FallbackAfterChargeExplained
<1>1. MoneyInv => FallbackAfterChargeExplained  BY DEF MoneyInv
<1>2. QED  BY <1>1, MoneyInvAlways, PTL

(* reconcile never has to refuse a line the billing run wrote.              *)
THEOREM JournalStaysReconcilable == Spec => []JournalReconcilable
<1>1. MoneyInv => JournalReconcilable  BY DEF MoneyInv
<1>2. QED  BY <1>1, MoneyInvAlways, PTL

(* An order flagged renewed has been paid for.                              *)
THEOREM RenewedArePaid == Spec => []RenewedIsPaid
<1>1. MoneyInv => RenewedIsPaid  BY DEF MoneyInv
<1>2. QED  BY <1>1, MoneyInvAlways, PTL

=============================================================================
