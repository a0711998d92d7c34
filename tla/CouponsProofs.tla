--------------------------- MODULE CouponsProofs ---------------------------
(* The safety of Coupons for any members, administrators, requests and      *)
(* updates.                                                                 *)
EXTENDS Coupons, TLAPS

Txs == {IdleTx} \cup LockedTx \cup InsertedTx
Handlers == {IdleUpdate} \cup ReadUpdate \cup WriteUpdate

Open(row, at) == row.enabled /\ row.redeem_from <= at /\ at <= row.redeem_until

(* What a transaction has checked still holds, for the row is locked.       *)
TxAgrees ==
    \A q \in Requests :
        /\ redeem[q].pc = "locked" =>
            coupon # NoCoupon /\ redeem[q].row = coupon /\ Open(coupon, redeem[q].at)
        /\ redeem[q].pc = "inserted" =>
            /\ coupon # NoCoupon
            /\ Open(coupon, redeem[q].redemption.at)
            /\ Counted < coupon.max_redemptions
            /\ [start |-> redeem[q].redemption.start, end |-> redeem[q].redemption.end]
                 = BenefitWindow(coupon.benefit, redeem[q].redemption.at)

(* There is nothing to redeem before there is a coupon.                     *)
NobodyBefore == coupon = NoCoupon => Redeemed = {}

(* A row about to be written has passed Validate.                           *)
WritesValid == \A a \in Admins : update[a].pc = "write" => Validate(update[a].row)

(* Once somebody has redeemed, the rows the handlers hold have locked       *)
(* fields that were there, or under way, at the first redemption.           *)
HandlersOffer ==
    Redeemed # {} =>
        \A a \in Admins : update[a].pc # "idle" => LockedPart(update[a].row) \in offered

CouponInv ==
    /\ TypeOK
    /\ NobodyBefore
    /\ TxAgrees
    /\ RowValid
    /\ WritesValid
    /\ NoNewTerms
    /\ HandlersOffer

-----------------------------------------------------------------------------
(* An update applied to a row gives a row.                                  *)
LEMMA ApplyType ==
    ASSUME NEW row \in Coupon, NEW req \in Updates
    PROVE  applyCouponUpdate(row, req) \in Coupon
<1> DEFINE new == applyCouponUpdate(row, req)
<1>1. \A f \in DOMAIN req : f \in UpdateFields /\ req[f] \in Columns[f]
  BY CouponsAssumption
<1>2. /\ new.code \in Columns.code /\ new.type \in Columns.type
      /\ new.properties \in Columns.properties /\ new.enabled \in Columns.enabled
      /\ new.redeem_from \in Columns.redeem_from /\ new.redeem_until \in Columns.redeem_until
      /\ new.benefit \in Columns.benefit /\ new.countries \in Columns.countries
      /\ new.max_redemptions \in Columns.max_redemptions
  BY <1>1 DEF applyCouponUpdate, Coupon, UpdateFields, LockedFields
<1>3. new = [code |-> new.code, type |-> new.type, properties |-> new.properties,
             enabled |-> new.enabled, redeem_from |-> new.redeem_from,
             redeem_until |-> new.redeem_until, benefit |-> new.benefit,
             countries |-> new.countries, max_redemptions |-> new.max_redemptions]
  BY DEF applyCouponUpdate, Coupon
<1>. QED  BY <1>2, <1>3 DEF Coupon

(* One that names no locked field leaves them alone.                        *)
LEMMA ApplyKeepsLocked ==
    ASSUME NEW row \in Coupon, NEW req \in Updates, ~LocksTouched(req)
    PROVE  LockedPart(applyCouponUpdate(row, req)) = LockedPart(row)
<1>1. \A f \in LockedFields : f \notin DOMAIN req
  BY DEF LocksTouched
<1>2. DOMAIN row = {"code", "type", "properties", "enabled", "redeem_from", "redeem_until",
                    "benefit", "countries", "max_redemptions"}
  BY DEF Coupon
<1>3. \A f \in LockedFields : applyCouponUpdate(row, req)[f] = row[f]
  BY <1>1, <1>2 DEF applyCouponUpdate, LockedFields
<1>. QED  BY <1>3 DEF LockedPart

LEMMA WindowType ==
    ASSUME NEW b \in Columns.benefit, NEW at \in Days
    PROVE  BenefitWindow(b, at).start \in Int /\ BenefitWindow(b, at).end \in Int
BY CouponsAssumption DEF Columns, BenefitWindow, MonthStart, Days

LEMMA InitCoupon == Init => CouponInv
BY CouponsAssumption
   DEF Init, CouponInv, NobodyBefore, TypeOK, TxAgrees, RowValid, WritesValid, NoNewTerms, HandlersOffer,
       Redeemed, IdleTx, IdleUpdate, Days

(* The administrator's handlers: the rows they read and write.              *)
LEMMA HandlerSteps ==
    ASSUME CouponInv, NEW a \in Admins,
           \/ \E req \in Updates : ReadCoupon(a, req)
           \/ CountRedemptions(a)
           \/ UpdateFails(a)
    PROVE  CouponInv'
<1>1. /\ UNCHANGED <<coupon, redemptions, lock, redeem, now, offered>>
      /\ update' = [update EXCEPT ![a] = update'[a]]
      /\ update'[a] \in Handlers
      /\ update'[a].pc = "write" => Validate(update'[a].row)
      /\ Redeemed # {} /\ update'[a].pc # "idle" => LockedPart(update'[a].row) \in offered
  <2>1. CASE \E req \in Updates : ReadCoupon(a, req)
    <3>1. PICK req \in Updates : ReadCoupon(a, req)
      BY <2>1
    <3>2. update'[a] = [pc |-> "read", req |-> req, row |-> coupon]
      BY <3>1 DEF CouponInv, TypeOK, ReadCoupon
    <3>. QED  BY <3>1, <3>2 DEF CouponInv, TypeOK, ReadCoupon, Handlers, ReadUpdate, NoNewTerms
  <2>2. CASE CountRedemptions(a) /\ ~Refused(a)
    <3>1. update[a].req \in Updates /\ update[a].row \in Coupon
      BY <2>2 DEF CouponInv, TypeOK, CountRedemptions, IdleUpdate, ReadUpdate, WriteUpdate
    <3> DEFINE new == applyCouponUpdate(update[a].row, update[a].req)
    <3>2. /\ update' = [update EXCEPT ![a] = [pc |-> "write", req |-> update[a].req, row |-> new]]
          /\ UNCHANGED <<coupon, redemptions, lock, redeem, now, offered>>
      BY <2>2 DEF CountRedemptions
    <3>3. new \in Coupon
      BY <3>1, ApplyType
    <3>4. Validate(new)
      BY <2>2 DEF Refused
    <3>5. Redeemed # {} => LockedPart(new) \in offered
      BY <2>2, <3>1, ApplyKeepsLocked DEF Refused, CouponInv, HandlersOffer, CountRedemptions
    <3> HIDE DEF new
    <3>6. update'[a] = [pc |-> "write", req |-> update[a].req, row |-> new]
      BY <3>2 DEF CouponInv, TypeOK
    <3>7. update'[a] \in WriteUpdate
      BY <3>1, <3>3, <3>6 DEF WriteUpdate
    <3>8. update' = [update EXCEPT ![a] = update'[a]]
      BY <3>2, <3>6
    <3>. QED  BY <3>2, <3>4, <3>5, <3>6, <3>7, <3>8 DEF Handlers
  <2>3. CASE (CountRedemptions(a) /\ Refused(a)) \/ UpdateFails(a)
    BY <2>3 DEF CouponInv, TypeOK, CountRedemptions, UpdateFails, Handlers, IdleUpdate
  <2>. QED  BY <2>1, <2>2, <2>3
<1>2. TypeOK'
  BY <1>1 DEF CouponInv, TypeOK, Handlers
<1>3. (NobodyBefore /\ TxAgrees /\ RowValid /\ NoNewTerms)'
  BY <1>1 DEF CouponInv, NobodyBefore, TxAgrees, RowValid, NoNewTerms, Redeemed, Counted
<1>4. (WritesValid /\ HandlersOffer)'
  BY <1>1 DEF CouponInv, TypeOK, WritesValid, HandlersOffer, Redeemed
<1>. QED  BY <1>2, <1>3, <1>4 DEF CouponInv

(* The two statements that write the row find no transaction at work.       *)
LEMMA RowSteps ==
    ASSUME CouponInv, CreateCoupon \/ \E a \in Admins : UpdateCoupon(a)
    PROVE  CouponInv'
<1>1. CASE CreateCoupon
  BY <1>1, CouponsAssumption
     DEF CouponInv, NobodyBefore, CreateCoupon, TypeOK, TxAgrees, RowValid, WritesValid, NoNewTerms,
         HandlersOffer, Redeemed, Counted
<1>2. ASSUME NEW a \in Admins, UpdateCoupon(a) PROVE CouponInv'
  <2>1. /\ update[a].pc = "write" /\ update[a].row \in Coupon
        /\ \A q \in Requests : redeem[q].pc = "idle"
    BY <1>2, CouponsAssumption
       DEF CouponInv, TypeOK, UpdateCoupon, IdleUpdate, ReadUpdate, WriteUpdate
  <2>2. /\ coupon' \in {coupon, update[a].row}
        /\ UNCHANGED <<redemptions, lock, redeem, now, offered>>
        /\ update' = [update EXCEPT ![a] = IdleUpdate]
    BY <1>2 DEF UpdateCoupon, Written
  <2>3. TypeOK'
    BY <2>1, <2>2 DEF CouponInv, TypeOK
  <2>4. (NobodyBefore /\ TxAgrees /\ RowValid /\ NoNewTerms)'
    BY <2>1, <2>2, CouponsAssumption DEF CouponInv, TypeOK, NobodyBefore, TxAgrees, RowValid, WritesValid, NoNewTerms, HandlersOffer, Redeemed
  <2>5. (WritesValid /\ HandlersOffer)'
    BY <2>2 DEF CouponInv, TypeOK, WritesValid, HandlersOffer, Redeemed, IdleUpdate
  <2>. QED  BY <2>3, <2>4, <2>5 DEF CouponInv
<1>. QED  BY <1>1, <1>2

LEMMA RevokeStep ==
    ASSUME CouponInv, NEW m \in Members, RevokeRedemption(m)
    PROVE  CouponInv'
<1>1. redemptions[m] \in Redemption
  BY DEF CouponInv, TypeOK, RevokeRedemption, Redeemed
<1>2. [redemptions[m] EXCEPT !.revoked = TRUE] \in Redemption
  BY <1>1 DEF Redemption
<1>3. redemptions' = [redemptions EXCEPT ![m] = [redemptions[m] EXCEPT !.revoked = TRUE]]
  BY DEF RevokeRedemption
<1>4. redemptions' \in [Members -> Redemption \cup {NoRedemption}]
  BY <1>2, <1>3 DEF CouponInv, TypeOK
<1>5. Redeemed' = Redeemed
  BY <1>1, <1>2, <1>3, CouponsAssumption DEF CouponInv, TypeOK, Redeemed
<1>. QED
  BY <1>4, <1>5
     DEF CouponInv, NobodyBefore, RevokeRedemption, TypeOK, TxAgrees, RowValid, WritesValid, NoNewTerms,
         HandlersOffer, Counted

(* Whoever gets the lock is alone with the row.                             *)
LEMMA LockStep ==
    ASSUME CouponInv, NEW q \in Requests, NEW m \in Members, LockCoupon(q, m)
    PROVE  CouponInv'
<1>1. /\ redeem' = [redeem EXCEPT ![q] = [pc |-> "locked", member |-> m, row |-> coupon, at |-> now]]
      /\ lock = Nobody /\ lock' = q /\ coupon \in Coupon /\ Open(coupon, now)
      /\ UNCHANGED <<coupon, redemptions, update, now, offered>>
  BY DEF CouponInv, TypeOK, LockCoupon, Redeemable, Open
<1>2. TypeOK'
  <2>1. [pc |-> "locked", member |-> m, row |-> coupon, at |-> now] \in LockedTx
    BY <1>1 DEF CouponInv, TypeOK, LockedTx
  <2>2. redeem' \in [Requests -> Txs]
    BY <1>1, <2>1 DEF CouponInv, TypeOK, Txs
  <2>3. \A p \in Requests : redeem'[p].pc # "idle" <=> lock' = p
    BY <1>1, CouponsAssumption DEF CouponInv, TypeOK
  <2>. QED  BY <1>1, <2>2, <2>3 DEF CouponInv, TypeOK, Txs
<1>3. TxAgrees'
  BY <1>1, CouponsAssumption DEF CouponInv, TypeOK, TxAgrees, Open, Counted, Redeemed
<1>. QED
  BY <1>1, <1>2, <1>3 DEF CouponInv, NobodyBefore, RowValid, WritesValid, NoNewTerms, HandlersOffer, Redeemed

LEMMA InsertStep ==
    ASSUME CouponInv, NEW q \in Requests, InsertRedemption(q)
    PROVE  CouponInv'
<1> DEFINE w == BenefitWindow(coupon.benefit, redeem[q].at)
           r == [at |-> redeem[q].at, benefit |-> coupon.benefit,
                 start |-> w.start, end |-> w.end, revoked |-> FALSE]
<1>1. redeem[q] \in LockedTx /\ redeem[q].row = coupon /\ coupon \in Coupon /\ coupon # NoCoupon
  <2>1. redeem[q].pc = "locked" /\ redeem[q] \in {IdleTx} \cup LockedTx \cup InsertedTx
    BY DEF CouponInv, TypeOK, InsertRedemption
  <2>2. redeem[q] \in LockedTx
    BY <2>1 DEF IdleTx, LockedTx, InsertedTx
  <2>3. redeem[q].row = coupon /\ coupon # NoCoupon
    BY <2>1 DEF CouponInv, TxAgrees
  <2>. QED  BY <2>2, <2>3 DEF CouponInv, TypeOK
<1>2. /\ redeem' = [redeem EXCEPT ![q] = [pc |-> "inserted", member |-> redeem[q].member, redemption |-> r]]
      /\ Counted < coupon.max_redemptions
      /\ UNCHANGED <<coupon, redemptions, lock, update, now, offered>>
  BY <1>1 DEF InsertRedemption
<1>3. w.start \in Int /\ w.end \in Int
  BY <1>1, WindowType DEF Coupon, LockedTx
<1>4. [start |-> w.start, end |-> w.end] = w
  BY DEF BenefitWindow
<1>5. r \in Redemption
  BY <1>1, <1>3 DEF Redemption, LockedTx, Coupon
<1> HIDE DEF w
<1>6. TypeOK'
  <2>1. [pc |-> "inserted", member |-> redeem[q].member, redemption |-> r] \in InsertedTx
    BY <1>1, <1>5 DEF InsertedTx, LockedTx
  <2>2. redeem' \in [Requests -> Txs]
    BY <1>2, <2>1 DEF CouponInv, TypeOK, Txs
  <2>3. \A p \in Requests : redeem'[p].pc # "idle" <=> lock' = p
    BY <1>1, <1>2 DEF CouponInv, TypeOK, LockedTx
  <2>. QED  BY <1>2, <2>2, <2>3 DEF CouponInv, TypeOK, Txs
<1>7. TxAgrees'
  <2>1. Open(coupon, redeem[q].at)
    BY <1>1 DEF CouponInv, TxAgrees, LockedTx
  <2>2. redeem'[q].pc = "inserted" /\ redeem'[q].redemption = r
    BY <1>2 DEF CouponInv, TypeOK
  <2>3. \A p \in Requests \ {q} : redeem'[p].pc = "idle"
    BY <1>1, <1>2 DEF CouponInv, TypeOK, LockedTx
  <2>. QED
    BY <1>1, <1>2, <1>4, <2>1, <2>2, <2>3 DEF TxAgrees, Open, Counted, Redeemed, w
<1>. QED
  BY <1>2, <1>6, <1>7 DEF CouponInv, NobodyBefore, RowValid, WritesValid, NoNewTerms, HandlersOffer, Redeemed

(* The end of a transaction frees the row.                                  *)
LEMMA EndSteps ==
    ASSUME CouponInv, NEW q \in Requests, CommitRedemption(q) \/ RollBack(q)
    PROVE  CouponInv'
<1>1. /\ redeem' = [redeem EXCEPT ![q] = IdleTx] /\ lock = q /\ lock' = Nobody
      /\ UNCHANGED <<coupon, update, now>>
  BY DEF CouponInv, TypeOK, CommitRedemption, RollBack, Ends
<1>2. redemptions' \in [Members -> Redemption \cup {NoRedemption}]
  <2>1. CASE CommitRedemption(q)
    <3>1. redeem[q].redemption \in Redemption
      BY <2>1 DEF CouponInv, TypeOK, CommitRedemption, IdleTx, LockedTx, InsertedTx
    <3>. QED  BY <2>1, <3>1 DEF CouponInv, TypeOK, CommitRedemption
  <2>2. CASE RollBack(q)
    BY <2>2 DEF CouponInv, TypeOK, RollBack
  <2>. QED  BY <2>1, <2>2
<1>3. \A p \in Requests : redeem'[p].pc = "idle"
  BY <1>1 DEF CouponInv, TypeOK, IdleTx
<1>4. TypeOK'
  BY <1>1, <1>2, <1>3, CouponsAssumption DEF CouponInv, TypeOK, IdleTx
<1>5. (TxAgrees /\ RowValid /\ WritesValid)'
  BY <1>1, <1>3 DEF CouponInv, TxAgrees, RowValid, WritesValid
<1>7. NobodyBefore'
  <2>1. CASE CommitRedemption(q)
    BY <1>1, <2>1 DEF CouponInv, TxAgrees, NobodyBefore, CommitRedemption
  <2>2. CASE RollBack(q)
    BY <1>1, <2>2 DEF CouponInv, NobodyBefore, RollBack, Redeemed
  <2>. QED  BY <2>1, <2>2
<1>6. (NoNewTerms /\ HandlersOffer)'
  <2>1. CASE CommitRedemption(q) /\ Redeemed = {}
    <3>1. offered' = {LockedPart(coupon)} \cup Underway
      BY <2>1 DEF CommitRedemption
    <3>. QED  BY <1>1, <3>1 DEF NoNewTerms, HandlersOffer, Underway
  <2>2. CASE CommitRedemption(q) /\ Redeemed # {}
    BY <1>1, <2>2 DEF CouponInv, CommitRedemption, NoNewTerms, HandlersOffer
  <2>3. CASE RollBack(q)
    BY <1>1, <2>3 DEF CouponInv, RollBack, NoNewTerms, HandlersOffer, Redeemed
  <2>. QED  BY <2>1, <2>2, <2>3
<1>. QED  BY <1>4, <1>5, <1>6, <1>7 DEF CouponInv

LEMMA StepCoupon == CouponInv /\ [Next]_vars => CouponInv'
<1> SUFFICES ASSUME CouponInv, [Next]_vars PROVE CouponInv'
  OBVIOUS
<1>1. CASE Administration
  BY <1>1, HandlerSteps, RowSteps, RevokeStep DEF Administration
<1>2. CASE Redeeming
  BY <1>2, LockStep, InsertStep, EndSteps DEF Redeeming
<1>3. CASE Tick
  <2>1. now' \in Days
    BY <1>3, CouponsAssumption DEF Tick, Days, CouponInv, TypeOK
  <2>. QED
    BY <1>3, <2>1 DEF Tick, CouponInv, NobodyBefore, TypeOK, TxAgrees, RowValid, WritesValid, NoNewTerms,
              HandlersOffer, Redeemed, Counted
<1>4. CASE UNCHANGED vars
  BY <1>4 DEF vars, CouponInv, NobodyBefore, TypeOK, TxAgrees, RowValid, WritesValid, NoNewTerms,
              HandlersOffer, Redeemed, Counted
<1>. QED  BY <1>1, <1>2, <1>3, <1>4 DEF Next

THEOREM CouponSound == Spec => []CouponInv
BY InitCoupon, StepCoupon, PTL DEF Spec

(* Every reachable state of Coupons is well typed, and a redemption is past *)
(* its SELECT ... FOR UPDATE exactly while it holds the row's lock.         *)
THEOREM CouponTypeCorrect == Spec => []TypeOK
<1>1. CouponInv => TypeOK  BY DEF CouponInv
<1>. QED  BY <1>1, CouponSound, PTL

(* The row always passes Validate, whatever several administrators write    *)
(* from what they have read when.                                           *)
THEOREM RowsStayValid == Spec => []RowValid
<1>1. CouponInv => RowValid  BY DEF CouponInv
<1>. QED  BY <1>1, CouponSound, PTL

(* No request begun after the first redemption brings in another discount,  *)
(* benefit or code.                                                         *)
THEOREM TermsFrozenForNewcomers == Spec => []NoNewTerms
<1>1. CouponInv => NoNewTerms  BY DEF CouponInv
<1>. QED  BY <1>1, CouponSound, PTL

(* A redemption that appears has been granted by the row as it is when the  *)
(* transaction commits; in particular the cap holds.                        *)
THEOREM RedemptionsFollowTheRow == Spec => RedeemedByTheRow
<1>1. CouponInv /\ [Next]_vars => [GrantedByTheRow]_vars
  <2> SUFFICES ASSUME CouponInv, Next PROVE GrantedByTheRow
    OBVIOUS
  <2>1. ASSUME NEW q \in Requests, CommitRedemption(q) PROVE GrantedByTheRow
    BY <2>1 DEF GrantedByTheRow, CouponInv, TypeOK, TxAgrees, Open, Counted, Redeemed, CommitRedemption
  <2>2. ASSUME NEW n \in Members, RevokeRedemption(n) PROVE GrantedByTheRow
    BY <2>2 DEF GrantedByTheRow, CouponInv, TypeOK, RevokeRedemption, Redeemed
  <2>3. CASE redemptions' = redemptions
    BY <2>3 DEF GrantedByTheRow, Redeemed
  <2>4. \/ \E q \in Requests : CommitRedemption(q)
        \/ \E n \in Members : RevokeRedemption(n)
        \/ redemptions' = redemptions
    BY DEF Next, Administration, Redeeming, Tick, CreateCoupon, ReadCoupon, CountRedemptions,
           UpdateCoupon, UpdateFails, LockCoupon, InsertRedemption, RollBack
  <2>. QED  BY <2>1, <2>2, <2>3, <2>4
<1>. QED  BY <1>1, CouponSound, PTL DEF Spec, RedeemedByTheRow

-----------------------------------------------------------------------------
(* The benefit a member gets.                                               *)

BenefitLeft(r) ==
    OffsetMode(r.benefit) # (r.benefit.start # 0 /\ r.benefit.end # 0)
        => r.start < r.end /\ r.at <= r.end

(* A transaction's redemption has a benefit left from the moment it is      *)
(* inserted.                                                                *)
GrantInv ==
    /\ \A q \in Requests : redeem[q].pc = "inserted" => BenefitLeft(redeem[q].redemption)
    /\ BenefitNotOver

(* The month a day is in ends after the day, and so do the months that      *)
(* follow it.                                                               *)
LEMMA MonthsAhead ==
    ASSUME NEW at \in Days, NEW months \in Nat \ {0}
    PROVE  /\ MonthStart(at) < MonthStart(at) + months * DaysPerMonth
           /\ at <= MonthStart(at) + months * DaysPerMonth
<1>1. DaysPerMonth \in Nat \ {0} /\ at \in Nat  BY CouponsAssumption DEF Days
<1>2. at % DaysPerMonth \in 0 .. DaysPerMonth - 1  BY <1>1
<1>3. months * DaysPerMonth >= DaysPerMonth
  <2>1. PICK n \in Nat : months = n + 1
    <3>1. months - 1 \in Nat /\ months = (months - 1) + 1  OBVIOUS
    <3>. QED  BY <3>1
  <2>2. months * DaysPerMonth = n * DaysPerMonth + DaysPerMonth  BY <1>1, <2>1
  <2>3. n * DaysPerMonth \in Nat  BY <1>1
  <2>. QED  BY <1>1, <2>2, <2>3
<1>4. months * DaysPerMonth \in Nat  BY <1>1
<1> DEFINE span == months * DaysPerMonth
           part == at % DaysPerMonth
<1>5. span \in Nat /\ part \in Nat /\ part < DaysPerMonth /\ span >= DaysPerMonth
  BY <1>1, <1>2, <1>3, <1>4
<1> HIDE DEF span, part
<1>6. at - part < (at - part) + span /\ at <= (at - part) + span  BY <1>1, <1>5
<1>. QED  BY <1>6 DEF MonthStart, span, part

(* A row that passes Validate grants benefits that are not over.            *)
LEMMA ValidRowsGrant ==
    ASSUME NEW row \in Coupon, Validate(row), NEW at \in Days, Open(row, at), NEW r,
           r.at = at, r.benefit = row.benefit,
           [start |-> r.start, end |-> r.end] = BenefitWindow(row.benefit, at)
    PROVE  BenefitLeft(r)
<1> DEFINE b == row.benefit
<1>1. /\ b.start \in Nat /\ b.end \in Nat /\ b.months \in Nat
      /\ row.redeem_until \in Nat /\ at \in Nat
  BY DEF Coupon, Columns, Days
<1>2. r.start = BenefitWindow(b, at).start /\ r.end = BenefitWindow(b, at).end
  <2>1. [start |-> r.start, end |-> r.end].start = r.start
        /\ [start |-> r.start, end |-> r.end].end = r.end
    OBVIOUS
  <2>. QED  BY <2>1
<1>3. CASE b.start # 0 /\ b.end # 0 /\ ~OffsetMode(b)
  <2>1. r.start = b.start /\ r.end = b.end  BY <1>2, <1>3 DEF BenefitWindow
  <2>2. WindowMode(b) /\ row.redeem_until <= b.end
    <3>1. OffsetMode(b) # WindowMode(b) /\ (WindowMode(b) => row.redeem_until <= b.end)
      BY DEF Validate
    <3>2. WindowMode(b)  BY <1>3, <3>1 DEF WindowMode, OffsetMode
    <3>. QED  BY <3>1, <3>2
  <2>3. b.start < b.end /\ at <= b.end  BY <1>1, <2>2 DEF WindowMode, Open
  <2>. QED  BY <2>1, <2>3 DEF BenefitLeft
<1>4. CASE ~(b.start # 0 /\ b.end # 0) /\ OffsetMode(b)
  <2>1. r.start = MonthStart(at) /\ r.end = MonthStart(at) + b.months * DaysPerMonth
    BY <1>2, <1>4 DEF BenefitWindow
  <2>2. b.months \in Nat \ {0}  BY <1>1, <1>4 DEF OffsetMode
  <2>. QED  BY <2>1, <2>2, MonthsAhead DEF BenefitLeft
<1>5. CASE OffsetMode(b) <=> (b.start # 0 /\ b.end # 0)
  BY <1>5 DEF BenefitLeft, OffsetMode
<1>. QED  BY <1>3, <1>4, <1>5

LEMMA GrantInit == Init => GrantInv
<1> SUFFICES ASSUME Init PROVE GrantInv  OBVIOUS
<1>1. \A q \in Requests : redeem[q].pc = "idle"  BY DEF Init, IdleTx
<1>2. Redeemed = {}  BY DEF Init, Redeemed
<1>. QED  BY <1>1, <1>2 DEF GrantInv, BenefitNotOver

LEMMA GrantNext == CouponInv /\ GrantInv /\ [Next]_vars => GrantInv'
<1> SUFFICES ASSUME CouponInv, GrantInv, [Next]_vars PROVE GrantInv'
  OBVIOUS
<1>t. /\ redeem \in [Requests -> Txs] /\ coupon \in Coupon \cup {NoCoupon}
      /\ redemptions \in [Members -> Redemption \cup {NoRedemption}]
  BY DEF CouponInv, TypeOK, Txs
<1>r. BenefitNotOver <=> \A m \in Redeemed : BenefitLeft(redemptions[m])
  BY DEF BenefitNotOver, BenefitLeft
<1>p. BenefitNotOver' <=> \A m \in Redeemed' : BenefitLeft(redemptions'[m])
  BY DEF BenefitNotOver, BenefitLeft
<1>1. CASE UNCHANGED <<redemptions, redeem>>
  <2>1. Redeemed' = Redeemed  BY <1>1 DEF Redeemed
  <2>. QED  BY <1>1, <1>r, <1>p, <2>1 DEF GrantInv
<1>2. ASSUME NEW q \in Requests, NEW m \in Members, LockCoupon(q, m)  PROVE GrantInv'
  <2>1. redeem'[q].pc = "locked" /\ \A s \in Requests \ {q} : redeem'[s] = redeem[s]
    BY <1>2, <1>t DEF LockCoupon
  <2>2. redemptions' = redemptions /\ Redeemed' = Redeemed  BY <1>2 DEF LockCoupon, Redeemed
  <2>. QED  BY <1>r, <1>p, <2>1, <2>2 DEF GrantInv
<1>3. ASSUME NEW q \in Requests, InsertRedemption(q)  PROVE GrantInv'
  <2>1. redeem[q].pc = "locked" /\ redeem[q] \in LockedTx
    BY <1>3, <1>t DEF InsertRedemption, Txs, IdleTx, LockedTx, InsertedTx
  <2>2. /\ redeem[q].row = coupon /\ coupon \in Coupon /\ Validate(coupon)
        /\ Open(coupon, redeem[q].at) /\ redeem[q].at \in Days
    BY <1>t, <2>1 DEF CouponInv, TxAgrees, RowValid, LockedTx
  <2> DEFINE window == BenefitWindow(coupon.benefit, redeem[q].at)
             r == [at |-> redeem[q].at, benefit |-> coupon.benefit,
                   start |-> window.start, end |-> window.end, revoked |-> FALSE]
  <2>3. redeem' = [redeem EXCEPT ![q] = [pc |-> "inserted", member |-> redeem[q].member,
                                         redemption |-> r]]
    BY <1>3, <2>2 DEF InsertRedemption
  <2>4. redeem'[q].redemption = r /\ \A s \in Requests \ {q} : redeem'[s] = redeem[s]
    BY <1>t, <2>3
  <2>5. [start |-> r.start, end |-> r.end] = BenefitWindow(coupon.benefit, redeem[q].at)
    BY DEF BenefitWindow
  <2>6. r.at = redeem[q].at /\ r.benefit = coupon.benefit  OBVIOUS
  <2> HIDE DEF r
  <2>7. BenefitLeft(r)  BY <2>2, <2>5, <2>6, ValidRowsGrant
  <2>8. redemptions' = redemptions /\ Redeemed' = Redeemed  BY <1>3 DEF InsertRedemption, Redeemed
  <2>. QED  BY <1>r, <1>p, <2>4, <2>7, <2>8 DEF GrantInv
<1>4. ASSUME NEW q \in Requests, CommitRedemption(q)  PROVE GrantInv'
  <2>1. /\ redeem' = [redeem EXCEPT ![q] = IdleTx]
        /\ redeem[q].pc = "inserted"
        /\ redemptions' = [redemptions EXCEPT ![redeem[q].member] = redeem[q].redemption]
    BY <1>4 DEF CommitRedemption, Ends
  <2>2. BenefitLeft(redeem[q].redemption)  BY <2>1 DEF GrantInv
  <2>3. \A m \in Members : \/ redemptions'[m] = redemptions[m]
                           \/ redemptions'[m] = redeem[q].redemption
    BY <1>t, <2>1
  <2>4. \A m \in Redeemed' : BenefitLeft(redemptions'[m])
    BY <1>r, <2>2, <2>3 DEF Redeemed, GrantInv
  <2>5. redeem'[q].pc = "idle" /\ \A s \in Requests \ {q} : redeem'[s] = redeem[s]
    BY <1>t, <2>1 DEF IdleTx
  <2>. QED  BY <1>p, <2>4, <2>5 DEF GrantInv
<1>5. ASSUME NEW q \in Requests, RollBack(q)  PROVE GrantInv'
  <2>1. redeem' = [redeem EXCEPT ![q] = IdleTx] /\ redemptions' = redemptions /\ Redeemed' = Redeemed
    BY <1>5 DEF RollBack, Ends, Redeemed
  <2>2. redeem'[q].pc = "idle" /\ \A s \in Requests \ {q} : redeem'[s] = redeem[s]
    BY <1>t, <2>1 DEF IdleTx
  <2>. QED  BY <1>r, <1>p, <2>1, <2>2 DEF GrantInv
<1>6. ASSUME NEW m \in Members, RevokeRedemption(m)  PROVE GrantInv'
  <2>1. /\ redeem' = redeem /\ m \in Redeemed
        /\ redemptions' = [redemptions EXCEPT ![m].revoked = TRUE]
    BY <1>6 DEF RevokeRedemption
  <2>2. redemptions[m] \in Redemption  BY <1>t, <2>1 DEF Redeemed
  <2>3. /\ redemptions'[m].at = redemptions[m].at
        /\ redemptions'[m].benefit = redemptions[m].benefit
        /\ redemptions'[m].start = redemptions[m].start
        /\ redemptions'[m].end = redemptions[m].end
    BY <1>t, <2>1, <2>2 DEF Redemption, Redeemed
  <2>4. BenefitLeft(redemptions[m]) => BenefitLeft(redemptions'[m])
    BY <2>3 DEF BenefitLeft
  <2>5. \A n \in Members \ {m} : redemptions'[n] = redemptions[n]  BY <1>t, <2>1
  <2>6. \A n \in Redeemed' : BenefitLeft(redemptions'[n])
    BY <1>r, <2>1, <2>4, <2>5 DEF Redeemed, GrantInv
  <2>. QED  BY <1>p, <2>1, <2>6 DEF GrantInv
<1>7. \/ UNCHANGED <<redemptions, redeem>>
      \/ \E q \in Requests : \/ \E m \in Members : LockCoupon(q, m)
                             \/ InsertRedemption(q) \/ CommitRedemption(q) \/ RollBack(q)
      \/ \E m \in Members : RevokeRedemption(m)
  BY DEF Next, Administration, Redeeming, Tick, CreateCoupon, ReadCoupon, CountRedemptions,
         UpdateCoupon, UpdateFails, vars
<1>. QED  BY <1>1, <1>2, <1>3, <1>4, <1>5, <1>6, <1>7

(* Whoever redeems gets a benefit that is not over on that day: Validate    *)
(* wants the last day of redemption inside the benefit's dates, and the     *)
(* months of the other mode are counted from the day's own month            *)
(* (domain/coupon, Validate and BenefitWindow; repo/coupons.go,             *)
(* RedeemCoupon).                                                           *)
THEOREM BenefitsAhead == Spec => []BenefitNotOver
<1>1. GrantInv => BenefitNotOver  BY DEF GrantInv
<1>. QED  BY <1>1, CouponSound, GrantInit, GrantNext, PTL DEF Spec

=============================================================================
