----------------------------- MODULE MCCoupons -----------------------------
(* Instances of Coupons for TLC.                                            *)
EXTENDS Coupons, TLC

Percent(p) == [discount_pct |-> p, fixed_price |-> 0, currency |-> NoCurrency]
FixedPrice(p) == [discount_pct |-> 0, fixed_price |-> p, currency |-> "USD"]
ForMonths(n) == [start |-> 0, end |-> 0, months |-> n]
Between(s, e) == [start |-> s, end |-> e, months |-> 0]

(* A coupon for one member in the first days.                               *)
MCCoupon == [code |-> "GIFT", type |-> "percent", properties |-> Percent(50), enabled |-> TRUE,
             redeem_from |-> 1, redeem_until |-> 3, benefit |-> ForMonths(1), countries |-> {},
             max_redemptions |-> 1]

(* With the benefit in months, or on fixed days; and two that the rules     *)
(* refuse.                                                                  *)
MCNewCoupons == {MCCoupon,
                 [MCCoupon EXCEPT !.benefit = Between(2, 3), !.countries = {"IL"}],
                 [MCCoupon EXCEPT !.benefit = Between(1, 2)],
                 [MCCoupon EXCEPT !.properties = FixedPrice(5)]}

(* The same, the coupon in months for two members.                          *)
MCSharedCoupons == (MCNewCoupons \ {MCCoupon}) \cup {[MCCoupon EXCEPT !.max_redemptions = 2]}

(* Several administrators' changes: of the discount, in two requests that   *)
(* only fit together, and of the cap.                                       *)
MCUpdates == {[type |-> "fixed_price", properties |-> FixedPrice(5)],
              [properties |-> Percent(20)],
              [max_redemptions |-> 1]}

(* Changes of the discount, one of them in two requests that only fit       *)
(* together, and of the benefit and code.                                   *)
MCTerms == {[type |-> "fixed_price", properties |-> FixedPrice(5)],
            [properties |-> Percent(20)],
            [benefit |-> Between(3, 4), code |-> "OTHER"]}

MCSymmetry == Permutations(Members) \cup Permutations(Requests) \cup Permutations(Admins)

=============================================================================
