------------------------------ MODULE Coupons ------------------------------
(* One discount coupon: the administrator's create and update handlers      *)
(* (api/coupon_handler.go), the rules both check (domain/coupon/coupon.go)  *)
(* and the redemptions, each a database transaction under the coupon's row  *)
(* lock (repo/coupons.go).                                                  *)
(*                                                                          *)
(* An update is three statements without a transaction: the row is read,    *)
(* its redemptions are counted, and the whole row is written back. A        *)
(* redemption locks the row, counts, inserts and commits; the UPDATE waits  *)
(* for the lock, the handler's SELECTs do not.                              *)
EXTENDS Integers, FiniteSets

CONSTANTS Members, Countries, Codes, Currencies,
          Requests,       \* redemptions that may be under way at once
          Admins,         \* update handlers that may be under way at once
          NewCoupons,     \* the rows an administrator may ask to create
          Updates,        \* the changes an administrator may ask for
          TakenCodes,     \* the codes of other coupons
          NoCountry, NoCurrency, NoCoupon, NoRedemption, Nobody,
          DaysPerMonth,
          LastDay         \* the clock stops here

(* The columns. Numbers and days are 0 where a column is NULL; day 0 is the *)
(* last one before the model's.                                             *)
Columns == [code |-> Codes,
            type |-> {"percent", "fixed_price"},
            properties |-> [discount_pct : Nat, fixed_price : Nat, currency : Currencies \cup {NoCurrency}],
            enabled |-> BOOLEAN,
            redeem_from |-> Nat,
            redeem_until |-> Nat,
            benefit |-> [start : Nat, end : Nat, months : Nat],
            countries |-> SUBSET Countries,
            max_redemptions |-> Nat]

Coupon == [code : Columns.code, type : Columns.type, properties : Columns.properties,
           enabled : Columns.enabled, redeem_from : Columns.redeem_from,
           redeem_until : Columns.redeem_until, benefit : Columns.benefit,
           countries : Columns.countries, max_redemptions : Columns.max_redemptions]

LockedFields == {"code", "type", "properties", "benefit"}

(* The fields an update may name. The benefit is one of them: its three     *)
(* columns are replaced as a unit.                                          *)
UpdateFields == LockedFields \cup {"enabled", "redeem_until", "countries", "max_redemptions"}

Days == 1 .. LastDay

(* A row of coupon_redemptions; at and benefit are what it was computed     *)
(* from.                                                                    *)
Redemption == [at : Days, benefit : Columns.benefit, start : Int, end : Int, revoked : BOOLEAN]

ASSUME CouponsAssumption ==
    /\ NewCoupons \subseteq Coupon
    /\ \A req \in Updates : \A f \in DOMAIN req : f \in UpdateFields /\ req[f] \in Columns[f]
    /\ NoCountry \notin Countries
    /\ NoCoupon \notin Coupon
    /\ NoRedemption \notin Redemption
    /\ Nobody \notin Requests
    /\ DaysPerMonth \in Nat \ {0}
    /\ LastDay \in Nat \ {0}

VARIABLES
    coupon,         \* the row of coupons
    redemptions,    \* coupon_redemptions: at most one row a member
    lock,           \* the request whose transaction has the row locked
    redeem,         \* each request's transaction
    update,         \* each administrator's handler
    now,
    offered         \* history: the locked fields the coupon had, or a handler
                    \* was about to write, at the first redemption

vars == <<coupon, redemptions, lock, redeem, update, now, offered>>

IdleTx == [pc |-> "idle"]

(* A transaction that holds the row, and one that has inserted.             *)
LockedTx == [pc : {"locked"}, member : Members, row : Coupon, at : Days]
InsertedTx == [pc : {"inserted"}, member : Members, redemption : Redemption]

IdleUpdate == [pc |-> "idle"]

(* A handler that has read the row, and one about to write.                 *)
ReadUpdate == [pc : {"read"}, req : Updates, row : Coupon]
WriteUpdate == [pc : {"write"}, req : Updates, row : Coupon]

Redeemed == {m \in Members : redemptions[m] # NoRedemption}

LockedPart(row) == [f \in LockedFields |-> row[f]]

TypeOK ==
    /\ coupon \in Coupon \cup {NoCoupon}
    /\ redemptions \in [Members -> Redemption \cup {NoRedemption}]
    /\ lock \in Requests \cup {Nobody}
    /\ redeem \in [Requests -> {IdleTx} \cup LockedTx \cup InsertedTx]
    /\ \A q \in Requests : redeem[q].pc # "idle" <=> lock = q
    /\ update \in [Admins -> {IdleUpdate} \cup ReadUpdate \cup WriteUpdate]
    /\ now \in Days

Init ==
    /\ coupon = NoCoupon
    /\ redemptions = [m \in Members |-> NoRedemption]
    /\ lock = Nobody
    /\ redeem = [q \in Requests |-> IdleTx]
    /\ update = [a \in Admins |-> IdleUpdate]
    /\ now = 1
    /\ offered = {}

-----------------------------------------------------------------------------
(* The rules of domain/coupon.                                              *)

ValidTerms(row) ==
    \/ /\ row.type = "percent"
       /\ row.properties.discount_pct \in 1 .. 99
    \/ /\ row.type = "fixed_price"
       /\ row.properties.fixed_price > 0
       /\ row.properties.currency # NoCurrency

OffsetMode(b) == b.months > 0
WindowMode(b) == b.start # 0 /\ b.end # 0 /\ b.start < b.end

Validate_AnyEnd(row) ==
    /\ ValidTerms(row)
    /\ row.max_redemptions >= 1
    /\ row.redeem_from < row.redeem_until
    /\ OffsetMode(row.benefit) # WindowMode(row.benefit)

Validate(row) ==
    /\ ValidTerms(row)
    /\ row.max_redemptions >= 1
    /\ row.redeem_from < row.redeem_until
    /\ OffsetMode(row.benefit) # WindowMode(row.benefit)
    /\ WindowMode(row.benefit) => row.redeem_until <= row.benefit.end

MonthStart(day) == day - (day % DaysPerMonth)

(* The dates win wherever both are there, valid or not.                     *)
BenefitWindow(b, at) ==
    IF b.start # 0 /\ b.end # 0
    THEN [start |-> b.start, end |-> b.end]
    ELSE [start |-> MonthStart(at), end |-> MonthStart(at) + b.months * DaysPerMonth]

countryAllowed(countries, country) == countries = {} \/ country \in countries

-----------------------------------------------------------------------------
(* The administrator. A code is generated until it is not another coupon's, *)
(* three times at most.                                                     *)
CreateCoupon ==
    /\ coupon = NoCoupon
    /\ \E row \in NewCoupons :
        /\ Validate(row)
        /\ row.enabled
        /\ row.code \notin TakenCodes
        /\ coupon' = row
    /\ UNCHANGED <<redemptions, lock, redeem, update, now, offered>>

ReadCoupon(a, req) ==
    /\ update[a].pc = "idle"
    /\ coupon # NoCoupon
    /\ update' = [update EXCEPT ![a] = [pc |-> "read", req |-> req, row |-> coupon]]
    /\ UNCHANGED <<coupon, redemptions, lock, redeem, now, offered>>

LocksTouched(req) == DOMAIN req \cap LockedFields # {}

applyCouponUpdate(row, req) ==
    [f \in DOMAIN row |-> IF f \in DOMAIN req THEN req[f] ELSE row[f]]

Refused_IgnoresCount(a) ==
    ~Validate(applyCouponUpdate(update[a].row, update[a].req))

Refused(a) ==
    \/ Redeemed # {} /\ LocksTouched(update[a].req)
    \/ ~Validate(applyCouponUpdate(update[a].row, update[a].req))

(* The redemptions are counted, and the request is applied to the row read  *)
(* before, or refused.                                                      *)
CountRedemptions(a) ==
    /\ update[a].pc = "read"
    /\ update' = [update EXCEPT ![a] =
                    IF Refused(a) THEN IdleUpdate
                    ELSE [pc |-> "write", req |-> update[a].req,
                          row |-> applyCouponUpdate(update[a].row, update[a].req)]]
    /\ UNCHANGED <<coupon, redemptions, lock, redeem, now, offered>>

Written_TouchedColumns(a) == applyCouponUpdate(coupon, update[a].req)

(* Every column is written, the ones the request does not name as they were *)
(* read.                                                                    *)
Written(a) == update[a].row

UpdateCoupon(a) ==
    /\ update[a].pc = "write"
    /\ lock = Nobody
    /\ coupon' = IF update[a].row.code \in TakenCodes THEN coupon ELSE Written(a)
    /\ update' = [update EXCEPT ![a] = IdleUpdate]
    /\ UNCHANGED <<redemptions, lock, redeem, now, offered>>

(* The request fails at one of its statements or is given up by its client. *)
UpdateFails(a) ==
    /\ update[a].pc # "idle"
    /\ update' = [update EXCEPT ![a] = IdleUpdate]
    /\ UNCHANGED <<coupon, redemptions, lock, redeem, now, offered>>

RevokeRedemption(m) ==
    /\ m \in Redeemed
    /\ ~redemptions[m].revoked
    /\ redemptions' = [redemptions EXCEPT ![m].revoked = TRUE]
    /\ UNCHANGED <<coupon, lock, redeem, update, now, offered>>

-----------------------------------------------------------------------------
(* A redemption. One that is refused right after the row was read rolls     *)
(* back and leaves no trace.                                                *)

Redeemable(row, country) ==
    /\ row.enabled
    /\ row.redeem_from <= now
    /\ now <= row.redeem_until
    /\ countryAllowed(row.countries, country)

LockCoupon_PlainSelect(q, m) ==
    /\ redeem[q].pc = "idle"
    /\ coupon # NoCoupon
    /\ \E country \in Countries \cup {NoCountry} : Redeemable(coupon, country)
    /\ redeem' = [redeem EXCEPT ![q] = [pc |-> "locked", member |-> m, row |-> coupon, at |-> now]]
    /\ UNCHANGED <<coupon, redemptions, lock, update, now, offered>>

LockCoupon(q, m) ==
    /\ redeem[q].pc = "idle"
    /\ lock = Nobody
    /\ coupon # NoCoupon
    /\ \E country \in Countries \cup {NoCountry} : Redeemable(coupon, country)
    /\ lock' = q
    /\ redeem' = [redeem EXCEPT ![q] = [pc |-> "locked", member |-> m, row |-> coupon, at |-> now]]
    /\ UNCHANGED <<coupon, redemptions, update, now, offered>>

(* Revoked redemptions keep their slots.                                    *)
Counted == Cardinality(Redeemed)

InsertRedemption(q) ==
    /\ redeem[q].pc = "locked"
    /\ LET m == redeem[q].member
           row == redeem[q].row
           window == BenefitWindow(row.benefit, redeem[q].at)
       IN  /\ Counted < row.max_redemptions
           /\ m \notin Redeemed
           /\ redeem' = [redeem EXCEPT ![q] =
                           [pc |-> "inserted", member |-> m,
                            redemption |-> [at |-> redeem[q].at, benefit |-> row.benefit,
                                            start |-> window.start, end |-> window.end,
                                            revoked |-> FALSE]]]
    /\ UNCHANGED <<coupon, redemptions, lock, update, now, offered>>

(* What the handlers at work would write into the locked fields from now on.*)
Underway == {LockedPart(update[a].row) : a \in {b \in Admins : update[b].pc # "idle"}}

(* The transaction is over, and its lock released.                          *)
Ends(q) ==
    /\ redeem' = [redeem EXCEPT ![q] = IdleTx]
    /\ lock' = Nobody

CommitRedemption(q) ==
    /\ redeem[q].pc = "inserted"
    /\ redemptions' = [redemptions EXCEPT ![redeem[q].member] = redeem[q].redemption]
    /\ offered' = IF Redeemed = {} THEN {LockedPart(coupon)} \cup Underway ELSE offered
    /\ Ends(q)
    /\ UNCHANGED <<coupon, update, now>>

(* Exhausted, redeemed already, or failed at a statement or the commit.     *)
RollBack(q) ==
    /\ redeem[q].pc # "idle"
    /\ Ends(q)
    /\ UNCHANGED <<coupon, redemptions, update, now, offered>>

Tick ==
    /\ now < LastDay
    /\ now' = now + 1
    /\ UNCHANGED <<coupon, redemptions, lock, redeem, update, offered>>

-----------------------------------------------------------------------------
Administration ==
    \/ CreateCoupon
    \/ \E a \in Admins : \/ \E req \in Updates : ReadCoupon(a, req)
                         \/ CountRedemptions(a)
                         \/ UpdateCoupon(a)
                         \/ UpdateFails(a)
    \/ \E m \in Members : RevokeRedemption(m)

Redeeming ==
    \E q \in Requests : \/ \E m \in Members : LockCoupon(q, m)
                        \/ InsertRedemption(q)
                        \/ CommitRedemption(q)
                        \/ RollBack(q)

Next == Administration \/ Redeeming \/ Tick

Spec == Init /\ [][Next]_vars

-----------------------------------------------------------------------------
(* However the handlers of several administrators interleave, the row is    *)
(* one that passes Validate: it is written whole, never put together from   *)
(* two requests.                                                            *)
RowValid == coupon # NoCoupon => Validate(coupon)

(* At its commit a redemption still agrees with the row as it is then: the  *)
(* coupon is enabled, in its redemption window, below its cap, and the      *)
(* benefit is the one it offers. The checks are made two statements         *)
(* earlier; what makes them good at the commit is the row lock (repo/       *)
(* coupons.go, RedeemCoupon).                                               *)
GrantedByTheRow ==
    \A m \in Members \ Redeemed :
        redemptions'[m] # NoRedemption =>
            LET r == redemptions'[m]
            IN  /\ coupon # NoCoupon
                /\ coupon.enabled
                /\ coupon.redeem_from <= r.at /\ r.at <= coupon.redeem_until
                /\ Cardinality(Redeemed) < coupon.max_redemptions
                /\ [start |-> r.start, end |-> r.end] = BenefitWindow(coupon.benefit, r.at)

RedeemedByTheRow == [][GrantedByTheRow]_vars

(* A member who redeems gets a benefit that is not over. Excepted is a row  *)
(* with both modes, which Validate lets pass when the dates are in the      *)
(* wrong order, and whose benefit is empty.                                 *)
BenefitNotOver ==
    \A m \in Redeemed :
        LET r == redemptions[m]
        IN  OffsetMode(r.benefit) # (r.benefit.start # 0 /\ r.benefit.end # 0)
                => r.start < r.end /\ r.at <= r.end

(* What is left of the lock on discount, benefit and code: after the first  *)
(* redemption they are what they were at it, or what a request begun before *)
(* it had read or was about to write. No later request brings in new ones.  *)
NoNewTerms == Redeemed # {} => LockedPart(coupon) \in offered

(* "Fields locked once the coupon has redemptions (§4): discount, benefit,  *)
(* code" (api/coupon_handler.go).                                           *)
LockedOnceRedeemed == [][Redeemed # {} => LockedPart(coupon') = LockedPart(coupon)]_vars

=============================================================================
