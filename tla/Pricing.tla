------------------------------ MODULE Pricing ------------------------------
(* What a member pays a month (domain/pricing): one evaluation reads the    *)
(* profile, the spouse's, the donations of both from Priority, QuickBooks   *)
(* and Europe, the Help-Haver grant, the manual discount and the redeemed   *)
(* coupons, one after the other, while gifts are booked and taken back and  *)
(* administrators work on the same rows (module Discounts). A price stands  *)
(* only if every source answered. A billing run keeps what the accounting   *)
(* service answered for half an hour; a checkout asks anew.                 *)
(* Prices and gifts are in cents, amounts in NIS are in tenths of a cent:   *)
(* 10, 31 and 36 tenths are what a shekel, a dollar and a euro are worth.   *)
(* The code computes with float64: its rounding is far less than a tenth of *)
(* a cent and decides only where two amounts are equal, where either answer *)
(* is possible here. An account without a key is asked for no grant, manual *)
(* discount or coupon: those rows are found by the key, so it has none.     *)
EXTENDS Discounts, FiniteSetsExt

CONSTANTS
    CouponBenefits,  \* the coupons the member may redeem
    MaxChanges       \* gifts, coupons and answers that may change (a bound; each mix has its own)

VARIABLES
    household,   \* whom the evaluation is about
    gifts,       \* per donor record: the last 12 months' sum in its currency
    coupons,     \* the benefits of the member's active redemptions
    cache,       \* the accounting client's answers, in NIS
    eval,        \* where EvaluateV2Price stands and what it has read
    changes,     \* how many changes there were
    high, low,   \* history: the extremes of each gift since it could be read
    cheapest     \* history: the cheapest offer, in NIS, since the evaluation began

pricingVars == <<household, gifts, coupons, cache, eval, changes, high, low, cheapest>>
vars == <<discountVars, pricingVars>>

(* Which group and currency a country has: one of each kind stands for all. *)
countryToGroup == [c \in {"IL", "DE", "BG", "US", "AF", "TF"} |->
                      CASE c \in {"IL", "DE", "US"} -> "High"
                        [] c = "BG" -> "Medium"
                        [] c = "AF" -> "Low"
                        [] c = "TF" -> "Undefined"]

countryToCurrency == [c \in {"IL", "DE", "BG"} |-> IF c = "IL" THEN "NIS" ELSE "EUR"]

priceByCurrencyAndGroup ==
    [NIS |-> [Low |-> 60, Medium |-> 90, High |-> 180],
     EUR |-> [Low |-> 18, Medium |-> 27, High |-> 53],
     USD |-> [Low |-> 21, Medium |-> 31, High |-> 62]]

GetCountryBasePrice(country) ==
    LET group == IF country \in DOMAIN countryToGroup THEN countryToGroup[country] ELSE "High"
        currency == IF country \in DOMAIN countryToCurrency THEN countryToCurrency[country] ELSE "USD"
        prices == priceByCurrencyAndGroup[currency]
    IN [amount |-> 100 * (IF group \in DOMAIN prices THEN prices[group] ELSE 55),
        currency |-> currency]

toNIS(price) == price.amount * (CASE price.currency = "NIS" -> 10
                                  [] price.currency = "EUR" -> 36
                                  [] OTHER -> 31)

Base == GetCountryBasePrice(household.country)

(* Mutant: the percent are taken for units of currency.                     *)
PercentOff_Flat(pct) == [amount |-> Base.amount - 100 * pct, currency |-> Base.currency]

PercentOff(pct) == [amount |-> (Base.amount \div 100) * (100 - pct), currency |-> Base.currency]

DonationsDiscountAmtPct == 55

(* What a grant, a manual discount or a coupon makes of the base price. A   *)
(* fixed price keeps its own currency.                                      *)
BenefitPrice(benefit) ==
    IF benefit.type = "percent" THEN PercentOff(benefit.pct)
    ELSE [amount |-> benefit.amount, currency |-> benefit.currency]

Malformed(benefit) == benefit.type \notin {"percent", "fixed_price"}

-----------------------------------------------------------------------------
(* Donor records: a customer in Priority, an email in the other two.        *)

(* Priority's own code table knows three currencies and takes the rest for  *)
(* shekels; the other sources' unknown ones are taken for dollars.          *)
Booked(site, amount) ==
    LET currency == household.currency[site] IN
    toNIS([amount |-> amount,
           currency |-> IF site[1] = "priority" /\ currency \notin {"NIS", "USD", "EUR"}
                        THEN "NIS" ELSE currency])

SumSites(sites, of) == MapThenSumSet(LAMBDA site : Booked(site, of[site]), sites)

Priority(emails) == {<<"priority", c>> : c \in UNION {household.customers[e] : e \in emails}}
QuickBooks(emails) == {<<"quickbooks", e>> : e \in emails}
Europe(emails) == {<<"europe", e>> : e \in emails}

(* A household: who asks; the country; the emails of the member's profile   *)
(* and of the spouse's, and whether one is linked; the customers each email *)
(* leads to; the donor records, their currencies and the sums they may      *)
(* reach. The account's own email is "account".                             *)
Household(h) ==
    /\ h.caller \in {"checkout", "billing"} /\ h.linked \in BOOLEAN
    /\ DOMAIN h.customers = {"account"} \cup h.own \cup h.spouse
    /\ DOMAIN h.gifts = {<<"priority", c>> : c \in UNION {h.customers[e] : e \in DOMAIN h.customers}}
                        \cup QuickBooks(DOMAIN h.customers) \cup Europe(DOMAIN h.customers)
    /\ IsFiniteSet(DOMAIN h.gifts) /\ h.gifts \in [DOMAIN h.gifts -> Int]
    /\ DOMAIN h.currency = DOMAIN h.gifts /\ h.amounts \subseteq Int

(* What the handlers let an administrator grant: percent above 0 and up to  *)
(* 100 (whole ones here), or a price that is not negative.                  *)
Benefit(b) == \/ b.type = "percent" /\ b.pct \in 1 .. 100
              \/ b.type = "fixed_price" /\ b.amount \in Nat

ASSUME PricingAssumption ==
    /\ MaxChanges \in Nat
    /\ \A b \in GrantBenefits \cup ManualBenefits : Benefit(b)
    /\ \A b \in CouponBenefits : Malformed(b) \/ Benefit(b)
    /\ \A m \in Mixes : m.changes \in 0 .. MaxChanges /\ \A h \in m.homes : Household(h)

IdleEval == [at |-> "none", emails |-> {}, linked |-> FALSE, left |-> {},
             total |-> 0, eligible |-> FALSE, final |-> [amount |-> 0, currency |-> "NIS"],
             offers |-> {}, answered |-> {}, errors |-> {}]

Stages == {"none", "profile", "spouse", "customers", "receivables", "quickbooks", "europe",
           "hh_grants", "manual_discount", "coupons", "resolve", "priced", "refused"}

Sources == {"donations", "hh_grants", "manual_discount", "coupons"}

Over == eval.at \in {"priced", "refused"}

PricingInit ==
    /\ DiscountsInit
    /\ household \in mix.homes
    /\ gifts = household.gifts
    /\ coupons = {} /\ cache = <<>> /\ changes = 0
    /\ eval = IdleEval
    /\ high = gifts /\ low = gifts
    /\ cheapest = 0

(* The prices on offer at this moment besides the donations' one.           *)
Offers == {Base}
          \cup {BenefitPrice(b) : b \in {c \in coupons : ~Malformed(c)}}
          \cup UNION {{BenefitPrice(rows[t][i].benefit) : i \in Active(t)} : t \in Discounted}

CheapestOffer == Min({toNIS(p) : p \in Offers})

-----------------------------------------------------------------------------
(* EvaluateV2Price.                                                         *)

Unread == UNCHANGED <<discountVars, household, gifts, coupons, changes, high, low>>

Goto(stage) == eval' = [eval EXCEPT !.at = stage]

Refuse == Goto("refused")

Start ==
    /\ "evaluate" \in mix.ops
    /\ eval.at = "none"
    /\ Goto("profile")
    /\ IF household.caller = "checkout" THEN high' = gifts /\ low' = gifts ELSE UNCHANGED <<high, low>>
    /\ UNCHANGED <<discountVars, household, gifts, coupons, cache, changes>>

collectProfileEmails(emails, fallback) == IF emails = {} THEN fallback ELSE emails

(* A profile that is not found is none; any other error ends it.            *)
ReadProfile ==
    /\ eval.at = "profile"
    /\ \/ eval' = [eval EXCEPT !.at = IF household.linked THEN "spouse" ELSE "customers",
                               !.linked = household.linked,
                               !.emails = collectProfileEmails(household.own, {"account"})]
       \/ eval' = [eval EXCEPT !.at = "customers", !.emails = {"account"}]
       \/ Refuse
    /\ UNCHANGED cache /\ Unread

(* The spouse counts for the threshold even when the profile is not found.  *)
ReadSpouse ==
    /\ eval.at = "spouse"
    /\ \/ eval' = [eval EXCEPT !.at = "customers", !.emails = @ \cup household.spouse]
       \/ Goto("customers")
       \/ Refuse
    /\ UNCHANGED cache /\ Unread

ReadCustomers ==
    /\ eval.at = "customers"
    /\ eval' = [eval EXCEPT !.at = IF Priority(eval.emails) = {} THEN "quickbooks" ELSE "receivables",
                            !.left = eval.emails]
    /\ UNCHANGED cache /\ Unread

(* Mutant: the sum goes email by email.                                     *)
SumGroup_PerEmail(emails) ==
    MapThenSumSet(LAMBDA e : SumSites(Priority({e}), gifts), emails)

(* A customer several of the emails lead to is counted once.                *)
SumGroup(emails) == SumSites(Priority(emails), gifts)

ReadReceivables ==
    /\ eval.at = "receivables"
    /\ eval' = [eval EXCEPT !.at = "quickbooks", !.total = SumGroup(eval.emails)]
    /\ UNCHANGED cache /\ Unread

(* An answer of the accounting service: the client's own, if it keeps one.  *)
Answer(request, sites) ==
    IF request \in DOMAIN cache THEN cache[request] ELSE SumSites(sites, gifts)

Keep(request, answer) ==
    cache' = IF household.caller = "billing"
             THEN [r \in DOMAIN cache \cup {request} |->
                      IF r \in DOMAIN cache THEN cache[r] ELSE answer]
             ELSE cache

(* One request per email.                                                   *)
ReadQuickBooks ==
    /\ eval.at = "quickbooks"
    /\ \E e \in eval.left :
          LET answer == Answer(QuickBooks({e}), QuickBooks({e})) IN
          /\ eval' = [eval EXCEPT !.at = IF eval.left = {e} THEN "europe" ELSE "quickbooks",
                                  !.left = @ \ {e}, !.total = @ + answer]
          /\ Keep(QuickBooks({e}), answer)
    /\ Unread

(* Twelve months' base price, twice that for a couple.                      *)
Threshold(linked) == (IF linked THEN 24 ELSE 12) * toNIS(Base)

(* Whole shekels are added up without rounding; the rates are not whole.    *)
Exact ==
    /\ Base.currency = "NIS" /\ \A amount \in household.amounts : amount % 100 = 0
    /\ \A site \in DOMAIN household.gifts :
          household.currency[site] = "NIS" /\ household.gifts[site] % 100 = 0

(* A sum that is the threshold may be found less: 636 EUR are, to 12 * 53.  *)
Short(sum, linked) == IF Exact THEN sum < Threshold(linked) ELSE sum =< Threshold(linked)

(* All emails in one request; then the sums are judged.                     *)
ReadEurope ==
    /\ eval.at = "europe"
    /\ LET answer == Answer(Europe(eval.emails), Europe(eval.emails))
           total == eval.total + answer
       IN \E eligible \in BOOLEAN :
       LET price == IF eligible THEN PercentOff(DonationsDiscountAmtPct) ELSE Base IN
       /\ IF eligible THEN total >= Threshold(eval.linked) ELSE Short(total, eval.linked)
       /\ eval' = [eval EXCEPT !.at = "hh_grants", !.total = total, !.eligible = eligible,
                               !.answered = {"donations"}, !.final = price,
                               !.offers = {Base, price}]
       /\ Keep(Europe(eval.emails), answer)
    /\ Unread

(* Any request of the donations fails: they count for nothing, and are an   *)
(* error.                                                                   *)
DonationsFail ==
    /\ eval.at \in {"customers", "receivables", "quickbooks", "europe"}
    /\ eval' = [eval EXCEPT !.at = "hh_grants", !.errors = {"donations"}, !.final = Base,
                            !.offers = {Base}]
    /\ UNCHANGED cache /\ Unread

(* Mutant: amounts are compared whatever their currencies.                  *)
Cheaper_Amounts(offer, current) == offer.amount < current.amount

(* An offer replaces the price found so far when it is less, in NIS.        *)
Cheaper(offer, current) == toNIS(offer) < toNIS(current)

(* What it leaves: of equal prices in two currencies, either one.           *)
applyDiscount(offer, current) ==
    {IF Cheaper(offer, current) THEN offer ELSE current}
    \cup (IF toNIS(offer) = toNIS(current) THEN {offer, current} ELSE {})

NextStage(stage) == CASE stage = "hh_grants" -> "manual_discount"
                      [] stage = "manual_discount" -> "coupons"
                      [] stage = "coupons" -> "resolve"

(* applyHHDiscount, applyManualDiscount: the newest active row, or none.    *)
ReadDiscount ==
    /\ eval.at \in Discounted
    /\ LET offers == {BenefitPrice(rows[eval.at][i].benefit) : i \in GetActive(eval.at)}
       IN \E final \in IF offers = {} THEN {eval.final}
                       ELSE UNION {applyDiscount(p, eval.final) : p \in offers} :
             eval' = [eval EXCEPT !.at = NextStage(eval.at), !.answered = @ \cup {eval.at},
                                  !.offers = @ \cup offers, !.final = final]
    /\ UNCHANGED cache /\ Unread

(* The best of the coupons, if it is better; one that cannot be understood  *)
(* is skipped, and is an error.                                             *)
ReadCoupons ==
    /\ eval.at = "coupons"
    /\ LET bad == \E b \in coupons : Malformed(b)
           offers == {BenefitPrice(b) : b \in {c \in coupons : ~Malformed(c)}}
           best == {p \in offers : \A q \in offers : toNIS(p) =< toNIS(q)}
       IN \E final \in IF best = {} THEN {eval.final}
                       ELSE UNION {applyDiscount(p, eval.final) : p \in best} :
             eval' = [eval EXCEPT !.at = "resolve", !.final = final, !.offers = @ \cup offers,
                                  !.errors = IF bad THEN @ \cup {"coupons"} ELSE @,
                                  !.answered = IF bad THEN @ ELSE @ \cup {"coupons"}]
    /\ UNCHANGED cache /\ Unread

RowsFail ==
    /\ eval.at \in {"hh_grants", "manual_discount", "coupons"}
    /\ eval' = [eval EXCEPT !.at = NextStage(eval.at), !.errors = @ \cup {eval.at}]
    /\ UNCHANGED cache /\ Unread

(* Mutant: only the donations' error is looked for.                         *)
HasDiscountErrors_Donations(errors) == "donations" \in errors

HasDiscountErrors(errors) == errors # {}

(* Resolve, enforceCheckoutPrice: a price with an error is not charged.     *)
Resolve ==
    /\ eval.at = "resolve"
    /\ Goto(IF HasDiscountErrors(eval.errors) THEN "refused" ELSE "priced")
    /\ UNCHANGED cache /\ Unread

Evaluate ==
    \/ Start \/ ReadProfile \/ ReadSpouse
    \/ ReadCustomers \/ ReadReceivables \/ ReadQuickBooks \/ ReadEurope \/ DonationsFail
    \/ ReadDiscount \/ ReadCoupons \/ RowsFail \/ Resolve

-----------------------------------------------------------------------------
(* What happens meanwhile.                                                  *)

(* A gift is booked, corrected or taken back, or gets older than a year.    *)
Donate ==
    /\ changes < mix.changes /\ changes' = changes + 1
    /\ \E site \in DOMAIN gifts, amount \in household.amounts :
          /\ gifts[site] # amount
          /\ gifts' = [gifts EXCEPT ![site] = amount]
          /\ high' = [high EXCEPT ![site] = Max({@, amount})]
          /\ low' = [low EXCEPT ![site] = Min({@, amount})]
    /\ UNCHANGED <<discountVars, household, coupons, cache, eval>>

(* A coupon is redeemed, or its benefit ends (module Coupons).              *)
CouponChange ==
    /\ changes < mix.changes /\ changes' = changes + 1
    /\ \E b \in CouponBenefits : coupons' = IF b \in coupons THEN coupons \ {b} ELSE coupons \cup {b}
    /\ UNCHANGED <<discountVars, household, gifts, cache, eval, high, low>>

(* The billing run has asked for a record before, for a spouse or in an     *)
(* earlier attempt; the client forgets it after contributionCacheTTL.       *)
Cached ==
    /\ changes < mix.changes /\ changes' = changes + 1
    /\ household.caller = "billing"
    /\ \/ \E e \in household.own \cup household.spouse :
             /\ QuickBooks({e}) \notin DOMAIN cache
             /\ Keep(QuickBooks({e}), SumSites(QuickBooks({e}), gifts))
       \/ /\ Europe(household.own \cup household.spouse) \notin DOMAIN cache
          /\ Keep(Europe(household.own \cup household.spouse),
                  SumSites(Europe(household.own \cup household.spouse), gifts))
       \/ \E r \in DOMAIN cache : cache' = [q \in DOMAIN cache \ {r} |-> cache[q]]
    /\ UNCHANGED <<discountVars, household, gifts, coupons, eval, high, low>>

Administer == DiscountsNext /\ UNCHANGED <<household, gifts, coupons, cache, eval, changes, high, low>>

(* The behaviour ends with the evaluation (a bound).                        *)
PricingNext ==
    /\ ~Over
    /\ Evaluate \/ Donate \/ CouponChange \/ Cached \/ Administer
    /\ cheapest' = IF eval.at = "none" THEN CheapestOffer' ELSE Min({cheapest, CheapestOffer'})

PricingSpec == PricingInit /\ [][PricingNext]_vars

-----------------------------------------------------------------------------

TypeOK ==
    /\ DiscountsTypeOK
    /\ DOMAIN gifts = DOMAIN household.gifts /\ DOMAIN high = DOMAIN gifts /\ DOMAIN low = DOMAIN gifts
    /\ coupons \subseteq CouponBenefits
    /\ \A r \in DOMAIN cache : cache[r] \in Int
    /\ eval.at \in Stages /\ eval.errors \subseteq Sources /\ eval.answered \subseteq Sources
    /\ eval.left \subseteq eval.emails
    /\ eval.total \in Int /\ eval.final.amount \in Nat
    /\ cheapest \in Nat

(* The price is the least, in NIS, of all that was read, however the offers *)
(* came and whatever their currencies.                                      *)
PriceIsCheapest ==
    eval.at = "priced" => \A p \in eval.offers : toNIS(eval.final) =< toNIS(p)

(* Nobody is charged a price when one of its sources did not answer, or a   *)
(* coupon could not be read.                                                *)
NoPriceWhenUnknown == eval.at = "priced" => eval.answered = Sources

(* Each donor record that the emails lead to.                               *)
Counted == Priority(eval.emails) \cup QuickBooks(eval.emails) \cup Europe(eval.emails)

(* Over three systems read at three moments, some from a cache: who gets    *)
(* the donations' discount gave enough, each record counted once and at its *)
(* best while it could be read; who does not, did not, at its worst. The    *)
(* doc comment promises the discount to a sum of just the threshold too:    *)
(* only whole shekels are sure of it.                                       *)
EligibleEarned ==
    "donations" \in eval.answered =>
        IF eval.eligible THEN SumSites(Counted, high) >= Threshold(eval.linked)
        ELSE Short(SumSites(Counted, low), eval.linked)

(* The price is none that was not on offer at some moment of the            *)
(* evaluation: a grant ended before it began, or a discount that starts     *)
(* after it, makes nothing cheaper.                                         *)
NeverCheaperThanOwed ==
    eval.at = "priced" =>
        toNIS(eval.final) >= Min({cheapest} \cup (IF SumSites(Counted, high) >= Threshold(eval.linked)
                                                 THEN {toNIS(PercentOff(DonationsDiscountAmtPct))}
                                                 ELSE {}))
=============================================================================
