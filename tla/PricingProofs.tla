--------------------------- MODULE PricingProofs ---------------------------
(* Theorems of Discounts and Pricing, for any sessions, mixes, benefits and *)
(* households.                                                              *)
EXTENDS Pricing, FiniteSetTheorems, SequenceTheorems, WellFoundedInduction, TLAPS

-----------------------------------------------------------------------------
(* The inductive invariant of Discounts.                                    *)

StampOf(j, i) == IF j.op = "create" THEN requests[i].stamp ELSE rows[j.table][i].stamp

(* Every row to make room of that the transaction could see is among ids.   *)
Caught(j, ids) == \A i \in Superseded(j) : StampOf(j, i) =< j.seen => i \in ids

(* What a transaction knows, at the statement it comes to.                  *)
SessionFits(j) ==
    /\ j.op = "none" => j = IdleJob
    /\ j.op = "conclude" => j.table = "hh_grants" /\ j.target \in DOMAIN requests
    /\ j.op = "upsert" => j.table = "manual_discount"
                          /\ j.target \in {0} \cup DOMAIN rows["manual_discount"]
    /\ j.at = "claim" => j.op = "conclude"
    /\ j.op = "conclude" /\ j.at \in {"scan", "hold", "write"} =>
          requests[j.target].status = "requested"
    /\ j.at # "write" => j.held = {}
    /\ j.at = "hold" => Caught(j, j.scan)
    /\ j.at = "write" => Caught(j, j.held) /\ j.held \subseteq Superseded(j)
    /\ j.day =< today /\ j.seen =< writes

SessionsFit == \A s \in Sessions : SessionFits(session[s])

(* No row is locked by two transactions.                                    *)
Apart(j, k) ==
    /\ LockedRequests(j) \cap LockedRequests(k) = {}
    /\ \A t \in Discounted : LockedDiscounts(j, t) \cap LockedDiscounts(k, t) = {}

LocksDisjoint == \A s, o \in Sessions : s # o => Apart(session[s], session[o])

(* A row is written after its transaction's search, by a transaction that   *)
(* began today or before.                                                   *)
RequestHistory ==
    \A i \in DOMAIN requests :
        requests[i].stamp =< writes /\ requests[i].seen < requests[i].stamp

RowHistory ==
    \A t \in Discounted : \A i \in DOMAIN rows[t] :
        /\ rows[t][i].stamp =< writes /\ rows[t][i].seen < rows[t][i].stamp
        /\ rows[t][i].day =< today

RequestsApart ==
    \A p, q \in Pending : p # q => requests[p].stamp > requests[q].seen

(* A discount that a later writer could see does not hold on that writer's  *)
(* day: today plays no part, so that no tick can break it.                  *)
RowsApart ==
    \A t \in Discounted : \A g, h \in DOMAIN rows[t] :
        g # h /\ rows[t][g].stamp =< rows[t][h].seen => ~ActiveOn(rows[t][g], rows[t][h].day)

Grants == rows["hh_grants"]

(* Grants and approved requests correspond one to one.                      *)
GrantsFit ==
    /\ \A g \in DOMAIN Grants : Grants[g].request \in DOMAIN requests
                                /\ requests[Grants[g].request].status = "approved"
    /\ \A g, h \in DOMAIN Grants : Grants[g].request = Grants[h].request => g = h
    /\ \A id \in DOMAIN requests : requests[id].status = "approved" =>
          \E g \in DOMAIN Grants : Grants[g].request = id

DiscountsInv ==
    /\ DiscountsTypeOK
    /\ SessionsFit
    /\ LocksDisjoint
    /\ RequestHistory
    /\ RowHistory
    /\ RequestsApart
    /\ RowsApart
    /\ GrantsFit

-----------------------------------------------------------------------------
(* The inductive invariant of the evaluation.                               *)

Judged == {"hh_grants", "manual_discount", "coupons", "resolve", "priced"}

Priced(p) == p.amount \in Nat

Least(final, offers) ==
    /\ Priced(final)
    /\ \A p \in offers : Priced(p) /\ toNIS(final) =< toNIS(p)

(* Of what was read so far the price is the least.                          *)
LeastSoFar ==
    eval.at \in Judged => Least(eval.final, eval.offers)

(* The sources that come before a stage.                                    *)
Asked(stage) ==
    CASE stage = "hh_grants" -> {"donations"}
      [] stage = "manual_discount" -> {"donations", "hh_grants"}
      [] stage = "coupons" -> {"donations", "hh_grants", "manual_discount"}
      [] OTHER -> Sources

(* Each of them answered or failed.                                         *)
AnsweredOrFailed ==
    /\ eval.at \in Stages
    /\ eval.answered \subseteq Sources
    /\ eval.at \in Judged => Asked(eval.at) \subseteq eval.answered \cup eval.errors
    /\ eval.at = "priced" => eval.errors = {}

EvalShape == DOMAIN eval = DOMAIN IdleEval

PricingInv ==
    /\ DiscountsInv
    /\ EvalShape
    /\ coupons \subseteq CouponBenefits
    /\ LeastSoFar
    /\ AnsweredOrFailed

-----------------------------------------------------------------------------
(* The inductive invariant of the sums.                                     *)

(* A sum as the donors would have it at worst and at best.                  *)
Between(total, sites) ==
    /\ total \in Int
    /\ SumSites(sites, low) =< total /\ total =< SumSites(sites, high)

GiftsFit ==
    /\ Household(household)
    /\ {gifts, high, low} \subseteq [DOMAIN household.gifts -> Int]
    /\ \A site \in DOMAIN gifts : low[site] =< gifts[site] /\ gifts[site] =< high[site]

(* What the client keeps was true at some moment since high and low count.  *)
CacheFits ==
    /\ household.caller = "checkout" => DOMAIN cache = {}
    /\ \A r \in DOMAIN cache : r \subseteq DOMAIN gifts /\ Between(cache[r], r)

(* What the stages of the donations have added up.                          *)
TotalFits ==
    /\ eval.emails \subseteq DOMAIN household.customers
    /\ eval.left \subseteq eval.emails
    /\ eval.total \in Int
    /\ eval.at \in {"none", "profile", "spouse", "customers"} => eval.left = {} /\ eval.total = 0
    /\ eval.at = "receivables" => eval.left = eval.emails
    /\ eval.at \in {"quickbooks", "europe"} =>
          Between(eval.total, Priority(eval.emails) \cup QuickBooks(eval.emails \ eval.left))
    /\ eval.at = "europe" => eval.left = {}

(* Whether the member is eligible is known when the donations answered.     *)
VerdictFits ==
    /\ eval.at \notin Judged \cup {"refused"} => eval.answered = {}
    /\ eval.eligible => "donations" \in eval.answered
    /\ EligibleEarned

(* Each offer was on sale at some moment since the evaluation began.        *)
OnSale(p) ==
    \/ cheapest =< toNIS(p)
    \/ eval.eligible /\ p = PercentOff(DonationsDiscountAmtPct)

OffersFit ==
    /\ cheapest \in Nat
    /\ eval.at # "none" => cheapest =< CheapestOffer
    /\ eval.at \notin Judged \cup {"refused"} => eval.offers = {}
    /\ \A p \in eval.offers : OnSale(p)
    /\ eval.at \in Judged => eval.final \in eval.offers

SumsInv ==
    /\ GiftsFit
    /\ CacheFits
    /\ TotalFits
    /\ VerdictFits
    /\ OffersFit
    /\ eval.errors \subseteq Sources
    /\ Priced(eval.final)

-----------------------------------------------------------------------------
(* Least elements, and sums over finite sets.                               *)

(* f gives each subset of S the sum of w over it.                           *)
Pick(s) == CHOOSE x \in s : TRUE

Adds(f, S, w) ==
    f = [s \in SUBSET S |-> IF s = {} THEN 0 ELSE w[Pick(s)] + f[s \ {Pick(s)}]]

Sum(w, S) == (CHOOSE f : Adds(f, S, w))[S]

(* Among sets of natural numbers, and among subsets of a finite set, there  *)
(* is a least one: induction, without a predicate as a parameter.           *)
LEMMA LeastNumber ==
    ASSUME NEW N, N \subseteq Nat, N # {}
    PROVE  \E m \in N : \A k \in N : m =< k
<1>1. PICK R : R = {ss \in Nat \X Nat : ss[1] < ss[2]}
    OBVIOUS
<1>2. R = OpToRel(<, Nat)
    BY <1>1 DEF OpToRel
<1>3. IsWellFoundedOn(R, Nat)
    BY <1>2, NatLessThanWellFounded
<1>4. PICK m \in N : \A k \in N : ~(<<k, m>> \in R)
    BY <1>3, WFMin
<1>5. ASSUME NEW k \in N
      PROVE  m =< k
    <2>1. k \in Nat /\ m \in Nat /\ ~(<<k, m>> \in R)
        BY <1>4
    <2>2. k < m => <<k, m>> \in R
        BY <1>1, <2>1
    <2> QED
        BY <2>1, <2>2
<1> QED
    BY <1>5

LEMMA LeastSubset ==
    ASSUME NEW S, IsFiniteSet(S), NEW Bad, Bad \subseteq SUBSET S, Bad # {}
    PROVE  \E s \in Bad : \A t \in Bad : t \subseteq s => t = s
<1>1. \A s \in Bad : IsFiniteSet(s) /\ Cardinality(s) \in Nat
    BY FS_Subset, FS_CardinalityType
<1>2. PICK N : N = {Cardinality(s) : s \in Bad}
    OBVIOUS
<1>3. N \subseteq Nat /\ N # {}
    BY <1>1, <1>2
<1>4. PICK m \in N : \A k \in N : m =< k
    BY <1>3, LeastNumber
<1>5. PICK s \in Bad : Cardinality(s) = m
    BY <1>2
<1>6. ASSUME NEW t \in Bad, t \subseteq s, t # s
      PROVE  FALSE
    <2>1. Cardinality(t) < Cardinality(s)
        BY <1>1, <1>6, FS_Subset
    <2>2. Cardinality(t) \in N /\ Cardinality(t) \in Nat /\ Cardinality(s) \in Nat
        BY <1>1, <1>2
    <2> QED
        BY <1>4, <1>5, <2>1, <2>2
<1> QED
    BY <1>6

LEMMA PickIn ==
    ASSUME NEW s, s # {}
    PROVE  Pick(s) \in s /\ s \ {Pick(s)} \subseteq s /\ s \ {Pick(s)} # s
    BY DEF Pick

(* What f gives a set does not depend on f.                                 *)
LEMMA AddsUnique ==
    ASSUME NEW S, NEW T, NEW w, NEW f, NEW g, Adds(f, S, w), Adds(g, T, w),
           NEW s, s \subseteq S, s \subseteq T, IsFiniteSet(s)
    PROVE  f[s] = g[s]
<1>1. PICK Bad : Bad = {t \in SUBSET s : f[t] # g[t]}
    OBVIOUS
<1>2. ASSUME Bad # {}
      PROVE  FALSE
    <2>0. Bad \subseteq SUBSET s
        BY <1>1
    <2>1. PICK t \in Bad : \A u \in Bad : u \subseteq t => u = t
        BY <1>2, <2>0, LeastSubset
    <2>2. t \subseteq S /\ t \subseteq T /\ f[t] # g[t]
        BY <1>1
    <2>3. f[t] = IF t = {} THEN 0 ELSE w[Pick(t)] + f[t \ {Pick(t)}]
        BY <2>2 DEF Adds
    <2>4. g[t] = IF t = {} THEN 0 ELSE w[Pick(t)] + g[t \ {Pick(t)}]
        BY <2>2 DEF Adds
    <2>5. t # {}
        BY <2>2, <2>3, <2>4
    <2>6. f[t \ {Pick(t)}] = g[t \ {Pick(t)}]
        BY <1>1, <2>1, <2>5, PickIn
    <2> QED
        BY <2>2, <2>3, <2>4, <2>5, <2>6
<1> QED
    BY <1>1, <1>2

LEMMA AddsExists ==
    ASSUME NEW S, IsFiniteSet(S), NEW w
    PROVE  \E f : Adds(f, S, w)
<1>1. PICK Bad : Bad = {s \in SUBSET S : ~(\E f : Adds(f, s, w))}
    OBVIOUS
<1>2. ASSUME Bad # {}
      PROVE  FALSE
    <2>0. Bad \subseteq SUBSET S
        BY <1>1
    <2>1. PICK s \in Bad : \A u \in Bad : u \subseteq s => u = s
        BY <1>2, <2>0, LeastSubset
    <2>2. PICK h : h = [u \in SUBSET s |-> CHOOSE f : Adds(f, u, w)]
        OBVIOUS
    <2>3. ASSUME NEW u \in SUBSET s, u # s
          PROVE  Adds(h[u], u, w) /\ IsFiniteSet(u)
        <3>1. u \in SUBSET S /\ u \notin Bad
            BY <1>1, <2>1, <2>3
        <3>2. \E f : Adds(f, u, w)
            BY <1>1, <3>1
        <3>3. h[u] = CHOOSE f : Adds(f, u, w)
            BY <2>2
        <3> QED
            BY <3>1, <3>2, <3>3, FS_Subset
    <2>4. PICK g : g = [t \in SUBSET s |->
                           IF t = {} THEN 0 ELSE w[Pick(t)] + h[t \ {Pick(t)}][t \ {Pick(t)}]]
        OBVIOUS
    <2>5. ASSUME NEW u \in SUBSET s, u # s
          PROVE  g[u] = h[u][u]
        <3>1. h[u][u] = IF u = {} THEN 0 ELSE w[Pick(u)] + h[u][u \ {Pick(u)}]
            BY <2>3, <2>5 DEF Adds
        <3>2. CASE u = {}
            BY <2>4, <3>1, <3>2
        <3>3. CASE u # {}
            <4>1. PICK v : v = u \ {Pick(u)}
                OBVIOUS
            <4>2. v \in SUBSET s /\ v \subseteq u /\ v # s
                BY <2>5, <3>3, <4>1, PickIn
            <4>3. Adds(h[v], v, w) /\ IsFiniteSet(v) /\ Adds(h[u], u, w)
                BY <2>3, <2>5, <4>2
            <4>4. h[u][v] = h[v][v]
                BY <4>2, <4>3, AddsUnique
            <4> QED
                BY <2>4, <3>1, <3>3, <4>1, <4>4
        <3> QED
            BY <3>2, <3>3
    <2>6. \A t \in SUBSET s : t # {} => g[t \ {Pick(t)}] = h[t \ {Pick(t)}][t \ {Pick(t)}]
        <3> SUFFICES ASSUME NEW t \in SUBSET s, t # {}
                     PROVE  g[t \ {Pick(t)}] = h[t \ {Pick(t)}][t \ {Pick(t)}]
            OBVIOUS
        <3>1. t \ {Pick(t)} \in SUBSET s /\ t \ {Pick(t)} # s
            BY PickIn
        <3> QED
            BY <2>5, <3>1
    <2>7. Adds(g, s, w)
        <3>1. g = [t \in SUBSET s |-> IF t = {} THEN 0 ELSE w[Pick(t)] + g[t \ {Pick(t)}]]
            BY <2>4, <2>6
        <3> QED
            BY <3>1 DEF Adds
    <2> QED
        BY <1>1, <2>7
<1> QED
    BY <1>1, <1>2

LEMMA SumIs ==
    ASSUME NEW S, IsFiniteSet(S), NEW w, NEW T, S \subseteq T, NEW f, Adds(f, T, w)
    PROVE  f[S] = Sum(w, S)
<1>1. PICK g : g = CHOOSE h : Adds(h, S, w)
    OBVIOUS
<1>2. Adds(g, S, w)
    BY <1>1, AddsExists
<1>3. Sum(w, S) = g[S]
    BY <1>1 DEF Sum
<1> QED
    BY <1>2, <1>3, AddsUnique

LEMMA SumEmpty ==
    ASSUME NEW w
    PROVE  Sum(w, {}) = 0
<1>1. IsFiniteSet({})
    BY FS_EmptySet
<1>2. PICK f : Adds(f, {}, w)
    BY <1>1, AddsExists
<1>3. f[{}] = 0
    BY <1>2 DEF Adds
<1> QED
    BY <1>1, <1>2, <1>3, SumIs

LEMMA SumOfPick ==
    ASSUME NEW S, IsFiniteSet(S), S # {}, NEW w
    PROVE  Sum(w, S) = w[Pick(S)] + Sum(w, S \ {Pick(S)})
<1>1. PICK f : Adds(f, S, w)
    BY AddsExists
<1>2. f[S] = w[Pick(S)] + f[S \ {Pick(S)}]
    BY <1>1 DEF Adds
<1>3. S \ {Pick(S)} \subseteq S /\ IsFiniteSet(S \ {Pick(S)})
    BY FS_Subset
<1> QED
    BY <1>1, <1>2, <1>3, SumIs

LEMMA SumIsInt ==
    ASSUME NEW S, IsFiniteSet(S), NEW w, \A x \in S : w[x] \in Int
    PROVE  Sum(w, S) \in Int
<1>1. PICK Bad : Bad = {s \in SUBSET S : Sum(w, s) \notin Int}
    OBVIOUS
<1>2. ASSUME Bad # {}
      PROVE  FALSE
    <2>1. PICK s \in Bad : \A t \in Bad : t \subseteq s => t = s
        BY <1>1, <1>2, LeastSubset
    <2>2. s \subseteq S /\ IsFiniteSet(s) /\ Sum(w, s) \notin Int
        BY <1>1, FS_Subset
    <2>3. s # {}
        BY <2>2, SumEmpty
    <2>4. Sum(w, s \ {Pick(s)}) \in Int /\ w[Pick(s)] \in Int
        BY <1>1, <2>1, <2>2, <2>3, PickIn
    <2>5. Sum(w, s) = w[Pick(s)] + Sum(w, s \ {Pick(s)})
        BY <2>2, <2>3, SumOfPick
    <2> QED
        BY <2>2, <2>4, <2>5
<1> QED
    BY <1>1, <1>2

(* The order of the additions does not matter.                              *)
LEMMA SumWithout ==
    ASSUME NEW S, IsFiniteSet(S), NEW w, \A x \in S : w[x] \in Int, NEW z \in S
    PROVE  Sum(w, S) = w[z] + Sum(w, S \ {z})
<1>1. PICK Bad : Bad = {s \in SUBSET S : \E x \in s : Sum(w, s) # w[x] + Sum(w, s \ {x})}
    OBVIOUS
<1>2. ASSUME Bad # {}
      PROVE  FALSE
    <2>0. Bad \subseteq SUBSET S
        BY <1>1
    <2>1. PICK s \in Bad : \A t \in Bad : t \subseteq s => t = s
        BY <1>2, <2>0, LeastSubset
    <2>2. s \subseteq S /\ IsFiniteSet(s)
        BY <1>1, FS_Subset
    <2>3. PICK x \in s : Sum(w, s) # w[x] + Sum(w, s \ {x})
        BY <1>1
    <2>4. PICK y : y = Pick(s)
        OBVIOUS
    <2>5. y \in s /\ Sum(w, s) = w[y] + Sum(w, s \ {y})
        BY <2>2, <2>3, <2>4, PickIn, SumOfPick
    <2>6. x # y
        BY <2>3, <2>5
    <2>7. PICK r : r = (s \ {x}) \ {y}
        OBVIOUS
    <2>8. Sum(w, s \ {x}) = w[y] + Sum(w, r)
        <3>1. s \ {x} \in SUBSET S /\ s \ {x} \notin Bad /\ y \in s \ {x}
            BY <2>1, <2>2, <2>5, <2>6
        <3> QED
            BY <1>1, <2>7, <3>1
    <2>9. Sum(w, s \ {y}) = w[x] + Sum(w, r)
        <3>1. s \ {y} \in SUBSET S /\ s \ {y} \notin Bad /\ x \in s \ {y}
            BY <2>1, <2>2, <2>5, <2>6
        <3>2. (s \ {y}) \ {x} = r
            BY <2>7
        <3> QED
            BY <1>1, <3>1, <3>2
    <2>10. Sum(w, r) \in Int /\ w[x] \in Int /\ w[y] \in Int
        <3>1. r \subseteq S /\ IsFiniteSet(r)
            BY <2>2, <2>7, FS_Subset
        <3> QED
            BY <2>2, <2>5, <3>1, SumIsInt
    <2> QED
        BY <2>3, <2>5, <2>8, <2>9, <2>10
<1>3. S \notin Bad
    BY <1>2
<1> QED
    BY <1>1, <1>3

LEMMA SumMonotone ==
    ASSUME NEW S, IsFiniteSet(S), NEW v, NEW w,
           \A x \in S : v[x] \in Int /\ w[x] \in Int /\ v[x] =< w[x]
    PROVE  Sum(v, S) =< Sum(w, S)
<1>1. PICK Bad : Bad = {s \in SUBSET S : ~(Sum(v, s) =< Sum(w, s))}
    OBVIOUS
<1>2. ASSUME Bad # {}
      PROVE  FALSE
    <2>1. PICK s \in Bad : \A t \in Bad : t \subseteq s => t = s
        BY <1>1, <1>2, LeastSubset
    <2>2. s \subseteq S /\ IsFiniteSet(s) /\ ~(Sum(v, s) =< Sum(w, s))
        BY <1>1, FS_Subset
    <2>3. s # {}
        BY <2>2, SumEmpty
    <2>4. PICK x, r : x = Pick(s) /\ r = s \ {Pick(s)}
        OBVIOUS
    <2>5. x \in S /\ r \subseteq S /\ r \subseteq s /\ r # s
        BY <2>2, <2>3, <2>4, PickIn
    <2>6. Sum(v, r) =< Sum(w, r)
        BY <1>1, <2>1, <2>5
    <2>7. Sum(v, r) \in Int /\ Sum(w, r) \in Int
        BY <2>5, FS_Subset, SumIsInt
    <2>8. Sum(v, s) = v[x] + Sum(v, r) /\ Sum(w, s) = w[x] + Sum(w, r)
        BY <2>2, <2>3, <2>4, SumOfPick
    <2>9. v[x] \in Int /\ w[x] \in Int /\ v[x] =< w[x]
        BY <2>5
    <2> QED
        BY <2>2, <2>6, <2>7, <2>8, <2>9
<1>3. S \notin Bad
    BY <1>2
<1> QED
    BY <1>1, <1>3

LEMMA SumOfUnion ==
    ASSUME NEW S, NEW T, IsFiniteSet(S), IsFiniteSet(T), S \cap T = {},
           NEW w, \A x \in S \cup T : w[x] \in Int
    PROVE  Sum(w, S \cup T) = Sum(w, S) + Sum(w, T)
<1>1. PICK Bad : Bad = {t \in SUBSET T : Sum(w, S \cup t) # Sum(w, S) + Sum(w, t)}
    OBVIOUS
<1>0. Sum(w, S) \in Int
    BY SumIsInt
<1>2. ASSUME Bad # {}
      PROVE  FALSE
    <2>0. Bad \subseteq SUBSET T
        BY <1>1
    <2>1. PICK t \in Bad : \A u \in Bad : u \subseteq t => u = t
        BY <1>2, <2>0, LeastSubset
    <2>2. /\ t \subseteq T /\ IsFiniteSet(t) /\ IsFiniteSet(S \cup t)
          /\ Sum(w, S \cup t) # Sum(w, S) + Sum(w, t)
        BY <1>1, FS_Subset, FS_Union
    <2>3. t # {}
        <3>1. S \cup {} = S
            OBVIOUS
        <3> QED
            BY <1>0, <2>2, <3>1, SumEmpty
    <2>4. PICK x, r : x = Pick(t) /\ r = t \ {Pick(t)}
        OBVIOUS
    <2>5. x \in t /\ r \subseteq T /\ r \subseteq t /\ r # t
        BY <2>2, <2>3, <2>4, PickIn
    <2>6. Sum(w, S \cup r) = Sum(w, S) + Sum(w, r)
        BY <1>1, <2>1, <2>5
    <2>7. Sum(w, t) = w[x] + Sum(w, r)
        BY <2>2, <2>3, <2>4, SumOfPick
    <2>8. Sum(w, S \cup t) = w[x] + Sum(w, S \cup r)
        <3>1. (S \cup t) \ {x} = S \cup r
            BY <2>2, <2>4, <2>5
        <3>2. \A y \in S \cup t : w[y] \in Int
            BY <2>2
        <3> QED
            BY <2>2, <2>5, <3>1, <3>2, SumWithout
    <2>9. Sum(w, r) \in Int /\ w[x] \in Int
        BY <2>2, <2>5, FS_Subset, SumIsInt
    <2> QED
        BY <1>0, <2>2, <2>6, <2>7, <2>8, <2>9
<1>3. T \notin Bad
    BY <1>2
<1> QED
    BY <1>1, <1>3

-----------------------------------------------------------------------------
(* Sequences, as tables whose ids count from 1.                             *)

LEMMA SeqOf ==
    ASSUME NEW S, NEW n \in Nat, NEW f \in [1 .. n -> S]
    PROVE  f \in Seq(S) /\ Len(f) = n /\ DOMAIN f = 1 .. n
<1>1. f \in Seq(S)
    BY SeqDef
<1>2. DOMAIN f = 1 .. n
    OBVIOUS
<1>3. Len(f) = n
    BY <1>1, <1>2, LenProperties
<1> QED
    BY <1>1, <1>2, <1>3

LEMMA SeqIs ==
    ASSUME NEW S, NEW table \in Seq(S)
    PROVE  /\ Len(table) \in Nat /\ DOMAIN table = 1 .. Len(table)
           /\ \A i \in DOMAIN table : table[i] \in S
    BY LenProperties

LEMMA AppendIs ==
    ASSUME NEW S, NEW table \in Seq(S), NEW row \in S
    PROVE  LET new == Append(table, row) IN
           /\ new \in Seq(S) /\ Len(new) = Len(table) + 1
           /\ DOMAIN new = DOMAIN table \cup {Len(table) + 1}
           /\ Len(table) + 1 \notin DOMAIN table
           /\ \A i \in DOMAIN table : new[i] = table[i]
           /\ new[Len(table) + 1] = row
    BY LenProperties

-----------------------------------------------------------------------------
(* What a step may do to the rows: a pending request may be concluded or    *)
(* deleted, a discount ended earlier; a row written anew has a new stamp.   *)

RequestsGo ==
    /\ DOMAIN requests \subseteq DOMAIN requests'
    /\ \A i \in DOMAIN requests :
          /\ requests'[i].stamp = requests[i].stamp /\ requests'[i].seen = requests[i].seen
          /\ requests'[i].status = "requested" => requests[i].status = "requested"
    /\ \A i \in DOMAIN requests' \ DOMAIN requests : requests'[i].stamp > writes

(* The row is as it was, but for an earlier end.                            *)
EndedEarlier(new, old) ==
    /\ new.until =< old.until
    /\ new.from = old.from /\ new.stamp = old.stamp /\ new.seen = old.seen /\ new.day = old.day
    /\ new.request = old.request

RowsGo ==
    \A t \in Discounted :
        /\ DOMAIN rows[t] \subseteq DOMAIN rows'[t]
        /\ \A i \in DOMAIN rows'[t] :
              \/ rows'[t][i].stamp > writes
              \/ i \in DOMAIN rows[t] /\ EndedEarlier(rows'[t][i], rows[t][i])

(* What a transaction has locked is as it was.                              *)
Untouched(j) ==
    /\ \A i \in LockedRequests(j) : requests'[i] = requests[i]
    /\ \A t \in Discounted : \A i \in LockedDiscounts(j, t) : rows'[t][i] = rows[t][i]

LEMMA ActiveBefore ==
    ASSUME NEW new, NEW old, NEW day \in Nat, new.until \in Nat, old.until \in Nat,
           EndedEarlier(new, old), ActiveOn(new, day)
    PROVE  ActiveOn(old, day)
<1>1. new.until > day /\ new.until =< old.until /\ new.from = old.from /\ new.from =< day
    BY DEF EndedEarlier, ActiveOn
<1>2. old.until > day
    BY <1>1
<1> QED
    BY <1>1, <1>2 DEF ActiveOn

LEMMA DiscountsTypes ==
    ASSUME DiscountsAssumption, DiscountsTypeOK
    PROVE  /\ today \in Nat /\ writes \in Nat
           /\ DOMAIN requests = 1 .. Len(requests) /\ Len(requests) \in Nat
           /\ \A i \in DOMAIN requests :
                 /\ requests[i] \in HHRequest
                 /\ requests[i].stamp \in Nat /\ requests[i].seen \in Nat
           /\ \A t \in Discounted :
                 /\ DOMAIN rows[t] = 1 .. Len(rows[t]) /\ Len(rows[t]) \in Nat
                 /\ \A i \in DOMAIN rows[t] :
                       /\ rows[t][i] \in Discount
                       /\ rows[t][i].stamp \in Nat /\ rows[t][i].seen \in Nat
                       /\ rows[t][i].day \in Nat /\ rows[t][i].from \in Nat
                       /\ rows[t][i].until \in Nat
<1>1. today \in Nat /\ writes \in Nat
    BY DEF DiscountsTypeOK, Days, DiscountsAssumption
<1>2. /\ Len(requests) \in Nat /\ DOMAIN requests = 1 .. Len(requests)
      /\ \A i \in DOMAIN requests : requests[i] \in HHRequest
    BY SeqIs DEF DiscountsTypeOK
<1>3. \A r \in HHRequest : r.stamp \in Nat /\ r.seen \in Nat
    BY DEF HHRequest, DiscountsAssumption
<1>4. ASSUME NEW t \in Discounted
      PROVE  /\ Len(rows[t]) \in Nat /\ DOMAIN rows[t] = 1 .. Len(rows[t])
             /\ \A i \in DOMAIN rows[t] : rows[t][i] \in Discount
    <2>1. rows[t] \in Seq(Discount)
        BY DEF DiscountsTypeOK
    <2> QED
        BY <2>1, SeqIs
<1>5. \A r \in Discount : /\ r.stamp \in Nat /\ r.seen \in Nat /\ r.day \in Nat
                          /\ r.from \in Nat /\ r.until \in Nat
    BY DEF Discount, Days, DiscountsAssumption
<1> QED
    BY <1>1, <1>2, <1>3, <1>4, <1>5

LEMMA DiscountsTypesNext ==
    ASSUME DiscountsAssumption, DiscountsTypeOK'
    PROVE  /\ today' \in Nat /\ writes' \in Nat
           /\ DOMAIN requests' = 1 .. Len(requests') /\ Len(requests') \in Nat
           /\ \A i \in DOMAIN requests' :
                 /\ requests'[i] \in HHRequest
                 /\ requests'[i].stamp \in Nat /\ requests'[i].seen \in Nat
           /\ \A t \in Discounted :
                 /\ DOMAIN rows'[t] = 1 .. Len(rows'[t]) /\ Len(rows'[t]) \in Nat
                 /\ \A i \in DOMAIN rows'[t] :
                       /\ rows'[t][i] \in Discount
                       /\ rows'[t][i].stamp \in Nat /\ rows'[t][i].seen \in Nat
                       /\ rows'[t][i].day \in Nat /\ rows'[t][i].from \in Nat
                       /\ rows'[t][i].until \in Nat
<1>1. today' \in Nat /\ writes' \in Nat
    BY DEF DiscountsTypeOK, Days, DiscountsAssumption
<1>2. /\ Len(requests') \in Nat /\ DOMAIN requests' = 1 .. Len(requests')
      /\ \A i \in DOMAIN requests' : requests'[i] \in HHRequest
    BY SeqIs DEF DiscountsTypeOK
<1>3. \A r \in HHRequest : r.stamp \in Nat /\ r.seen \in Nat
    BY DEF HHRequest, DiscountsAssumption
<1>4. ASSUME NEW t \in Discounted
      PROVE  /\ Len(rows'[t]) \in Nat /\ DOMAIN rows'[t] = 1 .. Len(rows'[t])
             /\ \A i \in DOMAIN rows'[t] : rows'[t][i] \in Discount
    <2>1. rows'[t] \in Seq(Discount)
        BY DEF DiscountsTypeOK
    <2> QED
        BY <2>1, SeqIs
<1>5. \A r \in Discount : /\ r.stamp \in Nat /\ r.seen \in Nat /\ r.day \in Nat
                          /\ r.from \in Nat /\ r.until \in Nat
    BY DEF Discount, Days, DiscountsAssumption
<1> QED
    BY <1>1, <1>2, <1>3, <1>4, <1>5

LEMMA JobTypes ==
    ASSUME DiscountsAssumption, NEW j \in Job
    PROVE  /\ j.seen \in Nat /\ j.day \in Nat /\ j.table \in Discounted
           /\ j.held \subseteq 1 .. MaxRows /\ j.scan \subseteq 1 .. MaxRows
           /\ j.target \in Nat
    BY DEF Job, Days, DiscountsAssumption

LEMMA IdleSession ==
    ASSUME DiscountsAssumption, DiscountsTypeOK
    PROVE  /\ IdleJob \in Job /\ SessionFits(IdleJob)
           /\ LockedRequests(IdleJob) = {} /\ \A t : LockedDiscounts(IdleJob, t) = {}
<1>1. today >= 1 /\ writes >= 0
    BY DEF DiscountsTypeOK, Days, DiscountsAssumption
<1> QED
    BY <1>1 DEF IdleJob, Job, Days, Discounted, SessionFits, LockedRequests, LockedDiscounts,
                DiscountsAssumption

LEMMA IdleFits ==
    ASSUME DiscountsAssumption, DiscountsTypeOK'
    PROVE  SessionFits(IdleJob)'
<1>1. today' >= 1 /\ writes' >= 0
    BY DEF DiscountsTypeOK, Days, DiscountsAssumption
<1> QED
    BY <1>1 DEF IdleJob, SessionFits

LEMMA SessionKept ==
    ASSUME DiscountsAssumption, DiscountsTypeOK, DiscountsTypeOK', NEW j \in Job,
           SessionFits(j), RequestsGo, RowsGo, Untouched(j),
           today =< today', writes =< writes'
    PROVE  SessionFits(j)'
<1>1. /\ j.day =< today' /\ j.seen =< writes' /\ j.seen =< writes
    BY DiscountsTypes, DiscountsTypesNext, JobTypes DEF SessionFits
<1>2. /\ j.op = "conclude" => j.table = "hh_grants" /\ j.target \in DOMAIN requests'
      /\ j.op = "upsert" => j.table = "manual_discount"
                            /\ j.target \in {0} \cup DOMAIN rows'["manual_discount"]
    BY DEF SessionFits, RequestsGo, RowsGo, Discounted
<1>3. j.op = "conclude" /\ j.at \in {"scan", "hold", "write"} =>
         requests'[j.target].status = "requested"
    BY DEF SessionFits, Untouched, LockedRequests
<1>4. ASSUME NEW i \in Superseded(j)', StampOf(j, i)' =< j.seen
      PROVE  i \in Superseded(j) /\ StampOf(j, i) =< j.seen
    <2>1. CASE j.op = "create"
        <3>1. i \in DOMAIN requests' /\ requests'[i].status = "requested"
              /\ requests'[i].stamp =< j.seen
            BY <1>4, <2>1 DEF Superseded, Pending, StampOf
        <3>2. requests'[i].stamp =< writes /\ requests'[i].stamp \in Nat /\ writes \in Nat
            BY <1>1, <3>1, DiscountsTypes, DiscountsTypesNext, JobTypes
        <3>3. i \in DOMAIN requests
            BY <3>1, <3>2 DEF RequestsGo
        <3> QED
            BY <2>1, <3>1, <3>3 DEF RequestsGo, Superseded, Pending, StampOf
    <2>2. CASE j.op # "create"
        <3> DEFINE t == j.table
        <3>0. t \in Discounted
            BY JobTypes
        <3>1. /\ i \in DOMAIN rows'[t] /\ rows'[t][i].stamp =< j.seen
              /\ ActiveOn(rows'[t][i], j.day) /\ (j.op = "upsert" => i # j.target)
            BY <1>4, <2>2 DEF Superseded, StampOf
        <3>2. rows'[t][i].stamp =< writes /\ rows'[t][i].stamp \in Nat /\ writes \in Nat
            BY <1>1, <3>0, <3>1, DiscountsTypes, DiscountsTypesNext, JobTypes
        <3>3. i \in DOMAIN rows[t] /\ EndedEarlier(rows'[t][i], rows[t][i])
            BY <3>0, <3>1, <3>2 DEF RowsGo
        <3>4. rows'[t][i].until \in Nat /\ rows[t][i].until \in Nat /\ j.day \in Nat
            BY <3>0, <3>1, <3>3, DiscountsTypes, DiscountsTypesNext, JobTypes
        <3>5. ActiveOn(rows[t][i], j.day)
            BY <3>1, <3>3, <3>4, ActiveBefore
        <3>6. rows[t][i].stamp =< j.seen
            BY <3>1, <3>3 DEF EndedEarlier
        <3> QED
            BY <2>2, <3>1, <3>3, <3>5, <3>6 DEF Superseded, StampOf
    <2> QED
        BY <2>1, <2>2
<1>5. ASSUME NEW ids, Caught(j, ids)
      PROVE  Caught(j, ids)'
    BY <1>4, <1>5 DEF Caught
<1>6. ASSUME j.at = "write"
      PROVE  j.held \subseteq Superseded(j)'
    <2>1. j.held \subseteq Superseded(j) /\ j.op # "none"
        BY <1>6 DEF SessionFits, IdleJob
    <2>2. CASE j.op = "create"
        <3>1. \A i \in j.held : requests'[i] = requests[i]
            BY <2>2 DEF Untouched, LockedRequests
        <3> QED
            BY <2>1, <2>2, <3>1 DEF Superseded, Pending, RequestsGo
    <2>3. CASE j.op # "create"
        <3>0. j.table \in Discounted
            BY JobTypes
        <3>1. \A i \in j.held : rows'[j.table][i] = rows[j.table][i]
            BY <2>1, <2>3, <3>0 DEF Untouched, LockedDiscounts
        <3> QED
            BY <2>1, <2>3, <3>0, <3>1 DEF Superseded, RowsGo
    <2> QED
        BY <2>2, <2>3
<1>7. /\ j.at = "hold" => Caught(j, j.scan)'
      /\ j.at = "write" => Caught(j, j.held)'
    BY <1>5 DEF SessionFits
<1> QED
    BY <1>1, <1>2, <1>3, <1>6, <1>7 DEF SessionFits

-----------------------------------------------------------------------------
(* A session's own steps.                                                   *)

(* The sessions still fit when one of them is now j, and what it wrote left *)
(* alone what the others have locked.                                       *)
LEMMA SessionsGo ==
    ASSUME DiscountsAssumption, DiscountsInv, DiscountsTypeOK', NEW s \in Sessions, NEW j \in Job,
           session' = [session EXCEPT ![s] = j], SessionFits(j)',
           \A o \in Sessions \ {s} : Apart(j, session[o]) /\ Untouched(session[o]),
           RequestsGo, RowsGo, today =< today', writes =< writes'
    PROVE  SessionsFit' /\ LocksDisjoint'
<1>1. session \in [Sessions -> Job]
    BY DEF DiscountsInv, DiscountsTypeOK
<1>2. ASSUME NEW o \in Sessions
      PROVE  SessionFits(session[o])'
    <2>1. CASE o = s
        BY <1>1, <2>1
    <2>2. CASE o # s
        <3>1. PICK k \in Job : k = session[o]
            BY <1>1
        <3>2. session'[o] = k
            BY <1>1, <2>2, <3>1
        <3>3. SessionFits(k) /\ Untouched(k)
            BY <2>2, <3>1 DEF DiscountsInv, SessionsFit
        <3>4. SessionFits(k)'
            BY <3>3, SessionKept DEF DiscountsInv
        <3> QED
            BY <3>2, <3>4
    <2> QED
        BY <2>1, <2>2
<1>3. SessionsFit'
    BY <1>2 DEF SessionsFit
<1>4. ASSUME NEW a \in Sessions, NEW b \in Sessions, a # b
      PROVE  Apart(session'[a], session'[b])
    <2>1. CASE a # s /\ b # s
        BY <1>1, <1>4, <2>1 DEF DiscountsInv, LocksDisjoint
    <2>2. CASE a = s
        <3>1. session'[a] = j /\ session'[b] = session[b]
            BY <1>1, <1>4, <2>2
        <3> QED
            BY <1>4, <2>2, <3>1
    <2>3. CASE b = s
        <3>1. session'[b] = j /\ session'[a] = session[a]
            BY <1>1, <1>4, <2>3
        <3>2. Apart(j, session[a])
            BY <1>4, <2>3
        <3> QED
            BY <3>1, <3>2 DEF Apart
    <2> QED
        BY <2>1, <2>2, <2>3
<1>5. LocksDisjoint'
    BY <1>4 DEF LocksDisjoint
<1> QED
    BY <1>3, <1>5

LEMMA TablesStay ==
    ASSUME DiscountsAssumption, DiscountsTypeOK, UNCHANGED <<requests, rows>>
    PROVE  /\ RequestsGo /\ RowsGo
           /\ \A j : Untouched(j)
<1>1. \A t \in Discounted : \A i \in DOMAIN rows[t] : EndedEarlier(rows[t][i], rows[t][i])
    BY DiscountsTypes DEF EndedEarlier
<1> QED
    BY <1>1 DEF RequestsGo, RowsGo, Untouched

(* A step that writes no table.                                             *)
LEMMA SessionStep ==
    ASSUME DiscountsAssumption, DiscountsInv, NEW s \in Sessions, NEW j \in Job,
           session' = [session EXCEPT ![s] = j], SessionFits(j),
           \A o \in Sessions \ {s} : Apart(j, session[o]),
           UNCHANGED <<today, requests, rows, writes, mix>>
    PROVE  DiscountsInv'
<1>1. DiscountsTypeOK'
    BY DEF DiscountsInv, DiscountsTypeOK
<1>2. today =< today' /\ writes =< writes'
    BY DiscountsTypes DEF DiscountsInv
<1>3. /\ RequestsGo /\ RowsGo
      /\ \A k : Untouched(k)
    BY TablesStay DEF DiscountsInv
<1>4. SessionFits(j)'
    BY <1>1, <1>2, <1>3, SessionKept DEF DiscountsInv
<1>5. SessionsFit' /\ LocksDisjoint'
    BY <1>1, <1>2, <1>3, <1>4, SessionsGo
<1>6. RequestHistory' /\ RowHistory' /\ RequestsApart' /\ RowsApart' /\ GrantsFit'
    BY DEF DiscountsInv, RequestHistory, RowHistory, RequestsApart, RowsApart, GrantsFit, Grants,
           Pending
<1> QED
    BY <1>1, <1>5, <1>6 DEF DiscountsInv

LEMMA ReleaseStep ==
    ASSUME DiscountsAssumption, DiscountsInv, NEW s \in Sessions, Release(s),
           UNCHANGED <<today, requests, rows, writes, mix>>
    PROVE  DiscountsInv'
<1>1. IdleJob \in Job /\ SessionFits(IdleJob) /\ \A k : Apart(IdleJob, k)
    BY IdleSession DEF Apart, DiscountsInv
<1> QED
    BY <1>1, SessionStep DEF Release

LEMMA BeginStep ==
    ASSUME DiscountsAssumption, DiscountsInv, NEW s \in Sessions,
           NEW op, NEW at, NEW table \in Discounted, NEW target \in 0 .. MaxRows,
           Begin(s, op, at, table, target),
           \/ op \in {"create", "cancel"} /\ at = "scan"
           \/ op = "conclude" /\ at = "claim" /\ table = "hh_grants" /\ target \in DOMAIN requests
           \/ op = "upsert" /\ at = "scan" /\ table = "manual_discount"
              /\ target \in {0} \cup DOMAIN rows["manual_discount"]
    PROVE  DiscountsInv'
<1>1. today \in Days /\ writes \in 0 .. MaxWrites /\ 0 \in 0 .. MaxWrites
    BY DEF DiscountsInv, DiscountsTypeOK, DiscountsAssumption
<1>2. PICK j : j = [IdleJob EXCEPT !.op = op, !.at = at, !.table = table,
                                   !.target = target, !.day = today]
    OBVIOUS
<1>3. /\ j.op = op /\ j.at = at /\ j.table = table /\ j.target = target /\ j.day = today
      /\ j.seen = 0 /\ j.scan = {} /\ j.held = {}
    BY <1>2 DEF IdleJob
<1>4. j \in Job
    BY <1>1, <1>2 DEF IdleJob, Job
<1>5. today =< today /\ 0 =< writes
    BY <1>1, DiscountsTypes DEF DiscountsInv
<1>6. SessionFits(j)
    BY <1>3, <1>5 DEF SessionFits
<1>7. LockedRequests(j) = {} /\ \A t : LockedDiscounts(j, t) = {}
    BY <1>3 DEF LockedRequests, LockedDiscounts
<1>8. \A k : Apart(j, k)
    BY <1>7 DEF Apart
<1>9. session' = [session EXCEPT ![s] = j] /\ UNCHANGED <<today, requests, rows, writes, mix>>
    BY <1>2 DEF Begin
<1> QED
    BY <1>4, <1>6, <1>8, <1>9, SessionStep

LEMMA ClaimStep ==
    ASSUME DiscountsAssumption, DiscountsInv, NEW s \in Sessions, Claim(s)
    PROVE  DiscountsInv'
<1>1. PICK h \in Job : h = session[s]
    BY DEF DiscountsInv, DiscountsTypeOK
<1>2. SessionFits(h) /\ h.at = "claim" /\ h.op = "conclude"
    BY <1>1 DEF DiscountsInv, SessionsFit, SessionFits, Claim
<1>3. CASE ~Undecided(h.target)
    <2>1. Release(s) /\ UNCHANGED <<today, requests, rows, writes, mix>>
        BY <1>1, <1>3 DEF Claim
    <2> QED
        BY <2>1, ReleaseStep
<1>4. CASE Undecided(h.target)
    <2>1. PICK j : j = [h EXCEPT !.at = "scan"]
        OBVIOUS
    <2>2. /\ j \in Job /\ j.op = h.op /\ j.at = "scan" /\ j.table = h.table /\ j.target = h.target
          /\ j.day = h.day /\ j.seen = h.seen /\ j.scan = h.scan /\ j.held = h.held
        BY <2>1 DEF Job
    <2>3. SessionFits(j)
        BY <1>2, <1>4, <2>2 DEF SessionFits, Undecided
    <2>4. LockedRequests(j) = {h.target} /\ \A t : LockedDiscounts(j, t) = {}
        BY <1>2, <2>2 DEF LockedRequests, LockedDiscounts, SessionFits
    <2>5. \A o \in Sessions \ {s} : LockedRequests(session[o]) \cap {h.target} = {}
        BY <1>1 DEF Claim, RequestFree
    <2>6. \A o \in Sessions \ {s} : Apart(j, session[o])
        BY <2>4, <2>5 DEF Apart
    <2>7. session' = [session EXCEPT ![s] = j] /\ UNCHANGED <<today, requests, rows, writes, mix>>
        BY <1>1, <1>4, <2>1 DEF Claim
    <2> QED
        BY <2>2, <2>3, <2>6, <2>7, SessionStep
<1> QED
    BY <1>3, <1>4

LEMMA ScanStep ==
    ASSUME DiscountsAssumption, DiscountsInv, NEW s \in Sessions, Scan(s)
    PROVE  DiscountsInv'
<1>1. PICK h \in Job : h = session[s]
    BY DEF DiscountsInv, DiscountsTypeOK
<1>2. SessionFits(h) /\ h.at = "scan" /\ h.op # "none"
    BY <1>1 DEF DiscountsInv, SessionsFit, SessionFits, Scan, IdleJob
<1>3. Superseded(h) \subseteq 1 .. MaxRows
    <2>1. h.table \in Discounted
        BY JobTypes
    <2>2. DOMAIN requests \subseteq 1 .. MaxRows /\ DOMAIN rows[h.table] \subseteq 1 .. MaxRows
        BY <2>1, DiscountsTypes DEF DiscountsInv, DiscountsTypeOK, DiscountsAssumption
    <2> QED
        BY <2>2 DEF Superseded, Pending
<1>4. writes \in 0 .. MaxWrites /\ writes =< writes
    BY DiscountsTypes DEF DiscountsInv, DiscountsTypeOK
<1>5. PICK j : j = [h EXCEPT !.at = "hold", !.scan = Superseded(h), !.seen = writes]
    OBVIOUS
<1>6. /\ j.op = h.op /\ j.at = "hold" /\ j.table = h.table /\ j.target = h.target
      /\ j.day = h.day /\ j.seen = writes /\ j.scan = Superseded(h) /\ j.held = h.held
    BY <1>5 DEF Job
<1>7. j \in Job
    BY <1>3, <1>4, <1>5 DEF Job
<1>8. Superseded(j) = Superseded(h)
    BY <1>6 DEF Superseded
<1>9. SessionFits(j)
    BY <1>2, <1>4, <1>6, <1>8 DEF SessionFits, Caught
<1>10. /\ LockedRequests(j) = LockedRequests(h)
       /\ \A t : LockedDiscounts(j, t) = LockedDiscounts(h, t)
    BY <1>2, <1>6 DEF LockedRequests, LockedDiscounts
<1>11. \A o \in Sessions \ {s} : Apart(h, session[o])
    BY <1>1 DEF DiscountsInv, LocksDisjoint
<1>12. \A o \in Sessions \ {s} : Apart(j, session[o])
    BY <1>10, <1>11 DEF Apart
<1>13. session' = [session EXCEPT ![s] = j] /\ UNCHANGED <<today, requests, rows, writes, mix>>
    BY <1>1, <1>5 DEF Scan
<1> QED
    BY <1>7, <1>9, <1>12, <1>13, SessionStep

LEMMA HoldStep ==
    ASSUME DiscountsAssumption, DiscountsInv, NEW s \in Sessions, Hold(s)
    PROVE  DiscountsInv'
<1>1. PICK h \in Job : h = session[s]
    BY DEF DiscountsInv, DiscountsTypeOK
<1>2. SessionFits(h) /\ h.at = "hold" /\ h.op # "none"
    BY <1>1 DEF DiscountsInv, SessionsFit, SessionFits, Hold, IdleJob
<1>3. PICK held : held = h.scan \cap Superseded(h)
    OBVIOUS
<1>4. held \subseteq 1 .. MaxRows
    BY <1>3, JobTypes
<1>5. PICK j : j = [h EXCEPT !.at = "write", !.held = held, !.scan = {}]
    OBVIOUS
<1>6. /\ j.op = h.op /\ j.at = "write" /\ j.table = h.table /\ j.target = h.target
      /\ j.day = h.day /\ j.seen = h.seen /\ j.scan = {} /\ j.held = held
    BY <1>5 DEF Job
<1>7. j \in Job
    BY <1>4, <1>5 DEF Job
<1>8. Superseded(j) = Superseded(h) /\ \A i : StampOf(j, i) = StampOf(h, i)
    BY <1>6 DEF Superseded, StampOf
<1>9. Caught(h, h.scan)
    BY <1>2 DEF SessionFits
<1>10. Caught(j, held) /\ held \subseteq Superseded(j)
    BY <1>3, <1>6, <1>8, <1>9 DEF Caught
<1>11. SessionFits(j)
    BY <1>2, <1>6, <1>10 DEF SessionFits
<1>12. \A o \in Sessions \ {s} : Apart(h, session[o])
    BY <1>1 DEF DiscountsInv, LocksDisjoint
<1>13. ASSUME NEW o \in Sessions \ {s}
       PROVE  Apart(j, session[o])
    <2>1. Apart(h, session[o])
        BY <1>12
    <2>2. CASE h.op = "create"
        <3>1. LockedRequests(session[o]) \cap h.scan = {}
            BY <1>1, <2>2 DEF Hold, RequestFree
        <3>2. LockedRequests(j) \subseteq h.scan /\ \A t : LockedDiscounts(j, t) = {}
            BY <1>3, <1>6, <2>2 DEF LockedRequests, LockedDiscounts
        <3> QED
            BY <3>1, <3>2 DEF Apart
    <2>3. CASE h.op # "create"
        <3>1. LockedDiscounts(session[o], h.table) \cap h.scan = {}
            BY <1>1, <2>3 DEF Hold, DiscountFree
        <3>2. LockedRequests(j) = LockedRequests(h)
            BY <1>2, <1>6, <2>3 DEF LockedRequests
        <3>3. \A t : LockedDiscounts(j, t) \subseteq (IF t = h.table THEN h.scan ELSE {})
            BY <1>3, <1>6 DEF LockedDiscounts
        <3> QED
            BY <2>1, <3>1, <3>2, <3>3 DEF Apart
    <2> QED
        BY <2>2, <2>3
<1>14. session' = [session EXCEPT ![s] = j] /\ UNCHANGED <<today, requests, rows, writes, mix>>
    BY <1>1, <1>3, <1>5 DEF Hold
<1> QED
    BY <1>7, <1>11, <1>13, <1>14, SessionStep

-----------------------------------------------------------------------------
(* The steps that write the tables.                                         *)

LEMMA LockedExists ==
    ASSUME DiscountsInv, NEW o \in Sessions
    PROVE  /\ LockedRequests(session[o]) \subseteq DOMAIN requests
           /\ \A t \in Discounted : LockedDiscounts(session[o], t) \subseteq DOMAIN rows[t]
<1>1. SessionFits(session[o])
    BY DEF DiscountsInv, SessionsFit
<1> QED
    BY <1>1 DEF SessionFits, LockedRequests, LockedDiscounts, Superseded, Pending

(* What remains when the requests are written: who had them locked keeps    *)
(* them, and no request that a later one's search could see is pending.     *)
LEMMA RequestsWritten ==
    ASSUME DiscountsAssumption, DiscountsInv, DiscountsTypeOK', writes =< writes',
           DOMAIN requests \subseteq DOMAIN requests',
           \A i \in DOMAIN requests :
              /\ requests'[i].stamp = requests[i].stamp /\ requests'[i].seen = requests[i].seen
              /\ requests'[i].status = "requested" => requests[i].status = "requested",
           \A i \in DOMAIN requests' \ DOMAIN requests :
              /\ requests'[i].stamp = writes + 1 /\ writes' = writes + 1
              /\ requests'[i].seen =< writes
              /\ DOMAIN requests' \ DOMAIN requests = {i}
              /\ \A p \in Pending' \ {i} : requests'[p].stamp > requests'[i].seen
    PROVE  RequestsGo /\ RequestHistory' /\ RequestsApart'
<1>1. /\ writes \in Nat /\ writes' \in Nat
      /\ \A i \in DOMAIN requests : requests[i].stamp \in Nat /\ requests[i].seen \in Nat
      /\ \A i \in DOMAIN requests' : requests'[i].stamp \in Nat /\ requests'[i].seen \in Nat
    BY DiscountsTypes, DiscountsTypesNext DEF DiscountsInv
<1>2. \A i \in DOMAIN requests :
         requests[i].stamp =< writes /\ requests[i].seen < requests[i].stamp
    BY DEF DiscountsInv, RequestHistory
<1>3. RequestsGo
    <2>1. \A i \in DOMAIN requests' \ DOMAIN requests : requests'[i].stamp > writes
        BY <1>1
    <2> QED
        BY <2>1 DEF RequestsGo
<1>4. RequestHistory'
    <2>1. ASSUME NEW i \in DOMAIN requests'
          PROVE  requests'[i].stamp =< writes' /\ requests'[i].seen < requests'[i].stamp
        <3>1. CASE i \in DOMAIN requests
            BY <1>1, <1>2, <2>1, <3>1
        <3>2. CASE i \notin DOMAIN requests
            BY <1>1, <2>1, <3>2
        <3> QED
            BY <3>1, <3>2
    <2> QED
        BY <2>1 DEF RequestHistory
<1>5. RequestsApart'
    <2>1. ASSUME NEW p \in Pending', NEW q \in Pending', p # q
          PROVE  requests'[p].stamp > requests'[q].seen
        <3>0. p \in DOMAIN requests' /\ q \in DOMAIN requests'
            BY <2>1 DEF Pending
        <3>1. CASE q \notin DOMAIN requests
            BY <2>1, <3>0, <3>1
        <3>2. CASE q \in DOMAIN requests /\ p \notin DOMAIN requests
            <4>1. requests'[p].stamp = writes + 1 /\ requests'[q].seen < requests[q].stamp
                  /\ requests[q].stamp =< writes
                BY <1>2, <3>0, <3>2
            <4> QED
                BY <1>1, <3>0, <3>2, <4>1
        <3>3. CASE q \in DOMAIN requests /\ p \in DOMAIN requests
            <4>1. p \in Pending /\ q \in Pending
                BY <2>1, <3>3 DEF Pending
            <4>2. requests[p].stamp > requests[q].seen
                BY <2>1, <4>1 DEF DiscountsInv, RequestsApart
            <4> QED
                BY <3>3, <4>2
        <3> QED
            BY <3>1, <3>2, <3>3
    <2> QED
        BY <2>1 DEF RequestsApart
<1> QED
    BY <1>3, <1>4, <1>5

(* A row of a table as j's transaction has just written it.                 *)
Fresh(table, i) ==
    /\ table[i].stamp = writes + 1 /\ writes' = writes + 1
    /\ table[i].seen =< writes /\ table[i].day =< today
    /\ \A g \in DOMAIN table \ {i} :
          table[g].stamp =< table[i].seen => ~ActiveOn(table[g], table[i].day)

LEMMA RowsWritten ==
    ASSUME DiscountsAssumption, DiscountsInv, DiscountsTypeOK',
           writes =< writes', today =< today',
           NEW t \in Discounted, NEW table, rows' = [rows EXCEPT ![t] = table],
           DOMAIN rows[t] \subseteq DOMAIN table,
           \A i \in DOMAIN table : \/ i \in DOMAIN rows[t] /\ EndedEarlier(table[i], rows[t][i])
                                   \/ Fresh(table, i)
    PROVE  RowsGo /\ RowHistory' /\ RowsApart'
<1>1. /\ writes \in Nat /\ writes' \in Nat /\ today \in Nat /\ today' \in Nat
      /\ \A u \in Discounted : \A i \in DOMAIN rows[u] :
            /\ rows[u][i].stamp \in Nat /\ rows[u][i].seen \in Nat /\ rows[u][i].day \in Nat
            /\ rows[u][i].until \in Nat
      /\ \A u \in Discounted : \A i \in DOMAIN rows'[u] :
            /\ rows'[u][i].stamp \in Nat /\ rows'[u][i].seen \in Nat /\ rows'[u][i].day \in Nat
            /\ rows'[u][i].until \in Nat
    BY DiscountsTypes, DiscountsTypesNext DEF DiscountsInv
<1>2. /\ rows'[t] = table
      /\ \A u \in Discounted \ {t} : rows'[u] = rows[u]
    BY DEF DiscountsInv, DiscountsTypeOK
<1>3. ASSUME NEW u \in Discounted, NEW i \in DOMAIN rows'[u]
      PROVE  \/ i \in DOMAIN rows[u] /\ EndedEarlier(rows'[u][i], rows[u][i])
             \/ Fresh(rows'[u], i)
    <2>1. CASE u = t
        BY <1>2, <1>3, <2>1
    <2>2. CASE u # t
        <3>1. i \in DOMAIN rows[u] /\ rows'[u][i] = rows[u][i]
            BY <1>2, <1>3, <2>2
        <3>2. rows[u][i].until =< rows[u][i].until
            BY <1>1, <3>1
        <3> QED
            BY <3>1, <3>2 DEF EndedEarlier
    <2> QED
        BY <2>1, <2>2
<1>4. RowsGo
    <2>1. ASSUME NEW u \in Discounted
          PROVE  DOMAIN rows[u] \subseteq DOMAIN rows'[u]
        BY <1>2, <2>1
    <2>2. ASSUME NEW u \in Discounted, NEW i \in DOMAIN rows'[u], Fresh(rows'[u], i)
          PROVE  rows'[u][i].stamp > writes
        BY <1>1, <2>2 DEF Fresh
    <2> QED
        BY <1>3, <2>1, <2>2 DEF RowsGo
<1>5. \A u \in Discounted : \A i \in DOMAIN rows[u] :
         /\ rows[u][i].stamp =< writes /\ rows[u][i].seen < rows[u][i].stamp
         /\ rows[u][i].day =< today
    BY DEF DiscountsInv, RowHistory
<1>6. RowHistory'
    <2>1. ASSUME NEW u \in Discounted, NEW i \in DOMAIN rows'[u]
          PROVE  /\ rows'[u][i].stamp =< writes' /\ rows'[u][i].seen < rows'[u][i].stamp
                 /\ rows'[u][i].day =< today'
        <3>1. CASE i \in DOMAIN rows[u] /\ EndedEarlier(rows'[u][i], rows[u][i])
            <4>1. /\ rows'[u][i].stamp = rows[u][i].stamp /\ rows'[u][i].seen = rows[u][i].seen
                  /\ rows'[u][i].day = rows[u][i].day
                BY <3>1 DEF EndedEarlier
            <4> QED
                BY <1>1, <1>5, <2>1, <3>1, <4>1
        <3>2. CASE Fresh(rows'[u], i)
            <4>1. /\ rows'[u][i].stamp = writes + 1 /\ writes' = writes + 1
                  /\ rows'[u][i].seen =< writes /\ rows'[u][i].day =< today
                BY <3>2 DEF Fresh
            <4> QED
                BY <1>1, <2>1, <4>1
        <3> QED
            BY <1>3, <2>1, <3>1, <3>2
    <2> QED
        BY <2>1 DEF RowHistory
<1>7. RowsApart'
    <2>1. ASSUME NEW u \in Discounted, NEW g \in DOMAIN rows'[u], NEW h \in DOMAIN rows'[u], g # h,
                 rows'[u][g].stamp =< rows'[u][h].seen
          PROVE  ~ActiveOn(rows'[u][g], rows'[u][h].day)
        <3>1. CASE Fresh(rows'[u], h)
            BY <2>1, <3>1 DEF Fresh
        <3>2. CASE h \in DOMAIN rows[u] /\ EndedEarlier(rows'[u][h], rows[u][h])
            <4>1. rows'[u][h].seen = rows[u][h].seen /\ rows'[u][h].day = rows[u][h].day
                BY <3>2 DEF EndedEarlier
            <4>2. rows[u][h].seen < rows[u][h].stamp /\ rows[u][h].stamp =< writes
                BY <1>5, <3>2
            <4>3. rows'[u][g].stamp =< writes
                BY <1>1, <2>1, <3>2, <4>1, <4>2
            <4>4. ~Fresh(rows'[u], g)
                BY <1>1, <4>3 DEF Fresh
            <4>5. g \in DOMAIN rows[u] /\ EndedEarlier(rows'[u][g], rows[u][g])
                BY <1>3, <2>1, <4>4
            <4>6. ~ActiveOn(rows[u][g], rows[u][h].day)
                <5>1. rows[u][g].stamp =< rows[u][h].seen
                    BY <2>1, <4>1, <4>5 DEF EndedEarlier
                <5> QED
                    BY <2>1, <3>2, <4>5, <5>1 DEF DiscountsInv, RowsApart
            <4>7. /\ rows'[u][g].until \in Nat /\ rows[u][g].until \in Nat
                  /\ rows[u][h].day \in Nat
                BY <1>1, <2>1, <3>2, <4>5
            <4> QED
                BY <4>1, <4>5, <4>6, <4>7, ActiveBefore
        <3> QED
            BY <1>3, <2>1, <3>1, <3>2
    <2> QED
        BY <2>1 DEF RowsApart
<1> QED
    BY <1>4, <1>6, <1>7

LEMMA RequestsStay ==
    ASSUME DiscountsAssumption, DiscountsInv, UNCHANGED requests, writes =< writes',
           writes' \in Nat
    PROVE  RequestsGo /\ RequestHistory' /\ RequestsApart'
<1>1. RequestsGo
    BY DEF RequestsGo
<1>2. RequestsApart'
    BY DEF DiscountsInv, RequestsApart, Pending
<1>3. ASSUME NEW i \in DOMAIN requests
      PROVE  requests[i].stamp =< writes'
    <2>1. requests[i].stamp \in Nat /\ writes \in Nat /\ requests[i].stamp =< writes
        BY <1>3, DiscountsTypes DEF DiscountsInv, RequestHistory
    <2> QED
        BY <2>1
<1> QED
    BY <1>1, <1>2, <1>3 DEF DiscountsInv, RequestHistory

LEMMA RowsStay ==
    ASSUME DiscountsAssumption, DiscountsInv, UNCHANGED rows, writes =< writes', today =< today',
           writes' \in Nat, today' \in Nat
    PROVE  RowsGo /\ RowHistory' /\ RowsApart'
<1>1. RowsGo
    <2>1. \A t \in Discounted : \A i \in DOMAIN rows[t] : EndedEarlier(rows[t][i], rows[t][i])
        BY DiscountsTypes DEF EndedEarlier, DiscountsInv
    <2> QED
        BY <2>1 DEF RowsGo
<1>2. RowsApart'
    BY DEF DiscountsInv, RowsApart
<1>3. ASSUME NEW t \in Discounted, NEW i \in DOMAIN rows[t]
      PROVE  rows[t][i].stamp =< writes' /\ rows[t][i].day =< today'
    <2>1. /\ rows[t][i].stamp \in Nat /\ writes \in Nat /\ rows[t][i].stamp =< writes
          /\ rows[t][i].day \in Nat /\ today \in Nat /\ rows[t][i].day =< today
        BY <1>3, DiscountsTypes DEF DiscountsInv, RowHistory
    <2> QED
        BY <2>1
<1> QED
    BY <1>1, <1>2, <1>3 DEF DiscountsInv, RowHistory

LEMMA EndedIs ==
    ASSUME DiscountsAssumption, NEW table \in Seq(Discount), NEW ids, NEW day \in Days
    PROVE  LET ended == Ended(table, ids, day) IN
           /\ ended \in Seq(Discount) /\ Len(ended) = Len(table) /\ DOMAIN ended = DOMAIN table
           /\ \A i \in DOMAIN table :
                 /\ i \notin ids => ended[i] = table[i]
                 /\ i \in ids => ended[i] = [table[i] EXCEPT !.until = day - 1]
<1> DEFINE ended == Ended(table, ids, day)
<1>1. Len(table) \in Nat /\ DOMAIN table = 1 .. Len(table)
      /\ \A i \in DOMAIN table : table[i] \in Discount
    BY SeqIs
<1>2. day - 1 \in Nat
    BY DEF Days
<1>3. \A i \in DOMAIN table : [table[i] EXCEPT !.until = day - 1] \in Discount
    BY <1>1, <1>2 DEF Discount
<1>4. ended \in [1 .. Len(table) -> Discount]
    BY <1>1, <1>3 DEF Ended
<1>5. ended \in Seq(Discount) /\ Len(ended) = Len(table) /\ DOMAIN ended = DOMAIN table
    <2> HIDE DEF ended
    <2> QED
        BY <1>1, <1>4, SeqOf
<1>6. \A i \in DOMAIN table :
         /\ i \notin ids => ended[i] = table[i]
         /\ i \in ids => ended[i] = [table[i] EXCEPT !.until = day - 1]
    BY DEF Ended
<1> QED
    BY <1>5, <1>6

(* Room is made in j's table for a row of today's: of the discounts j could *)
(* see none holds on its day, but the one it will rewrite.                  *)
RoomFor(j, ended) ==
    /\ ended \in Seq(Discount) /\ Len(ended) = Len(rows[j.table])
    /\ DOMAIN ended = DOMAIN rows[j.table]
    /\ \A i \in DOMAIN ended : EndedEarlier(ended[i], rows[j.table][i])
    /\ \A i \in DOMAIN ended :
          ended[i].stamp =< j.seen => \/ ~ActiveOn(ended[i], j.day)
                                      \/ j.op = "upsert" /\ i = j.target
    /\ \A i \in DOMAIN ended \ j.held : ended[i] = rows[j.table][i]

LEMMA RoomMade ==
    ASSUME DiscountsAssumption, DiscountsInv, NEW s \in Sessions, NEW j \in Job, j = session[s],
           j.at = "write", j.op \in {"conclude", "cancel", "upsert"},
           NEW ended, ended = Ended(rows[j.table], j.held, j.day)
    PROVE  RoomFor(j, ended)
<1>1. PICK table : table = rows[j.table]
    OBVIOUS
<1>2. j.table \in Discounted /\ j.day \in Days
    BY DEF Job
<1>3. table \in Seq(Discount)
    BY <1>1, <1>2 DEF DiscountsInv, DiscountsTypeOK
<1>4. /\ ended \in Seq(Discount) /\ Len(ended) = Len(table) /\ DOMAIN ended = DOMAIN table
      /\ \A i \in DOMAIN table :
            /\ i \notin j.held => ended[i] = table[i]
            /\ i \in j.held => ended[i] = [table[i] EXCEPT !.until = j.day - 1]
    BY <1>1, <1>2, <1>3, EndedIs
<1>5. SessionFits(j)
    BY DEF DiscountsInv, SessionsFit
<1>6. /\ \A i \in Superseded(j) : StampOf(j, i) =< j.seen => i \in j.held
      /\ j.held \subseteq Superseded(j)
    BY <1>5 DEF SessionFits, Caught
<1>7. \A i \in DOMAIN table : table[i] \in Discount
    BY <1>3, SeqIs
<1>8. j.day \in Nat
    BY <1>2 DEF Days
<1>9. ASSUME NEW i \in DOMAIN ended, i \in j.held
      PROVE  EndedEarlier(ended[i], table[i]) /\ ~ActiveOn(ended[i], j.day)
    <2>1. PICK r \in Discount : r = table[i]
        BY <1>4, <1>7, <1>9
    <2>2. PICK e : e = [r EXCEPT !.until = j.day - 1]
        OBVIOUS
    <2>3. ended[i] = e
        BY <1>4, <1>9, <2>1, <2>2
    <2>4. /\ e.until = j.day - 1 /\ e.from = r.from /\ e.stamp = r.stamp /\ e.seen = r.seen
          /\ e.day = r.day /\ e.request = r.request
        BY <2>2 DEF Discount
    <2>5. r.until > j.day /\ r.until \in Nat
        <3>1. i \in Superseded(j)
            BY <1>6, <1>9
        <3>2. ActiveOn(r, j.day)
            BY <1>1, <2>1, <3>1 DEF Superseded
        <3>3. r.until \in Nat
            BY DEF Discount
        <3> QED
            BY <3>2, <3>3 DEF ActiveOn
    <2>6. e.until =< r.until /\ ~(e.until > j.day)
        BY <1>8, <2>4, <2>5
    <2>7. EndedEarlier(e, r)
        BY <2>4, <2>6 DEF EndedEarlier
    <2>8. ~ActiveOn(e, j.day)
        BY <2>6 DEF ActiveOn
    <2> QED
        BY <2>1, <2>3, <2>7, <2>8
<1>10. ASSUME NEW i \in DOMAIN ended, i \notin j.held
       PROVE  /\ EndedEarlier(ended[i], table[i])
              /\ ended[i].stamp =< j.seen => \/ ~ActiveOn(ended[i], j.day)
                                             \/ j.op = "upsert" /\ i = j.target
    <2>1. ended[i] = table[i] /\ i \in DOMAIN table
        BY <1>4, <1>10
    <2>2. table[i].until \in Nat
        BY <1>7, <2>1 DEF Discount
    <2>3. table[i].until =< table[i].until
        BY <2>2
    <2>4. EndedEarlier(ended[i], table[i])
        BY <2>1, <2>3 DEF EndedEarlier
    <2>5. ASSUME ended[i].stamp =< j.seen, ActiveOn(ended[i], j.day),
                 ~(j.op = "upsert" /\ i = j.target)
          PROVE  FALSE
        <3>1. i \in Superseded(j)
            BY <1>1, <2>1, <2>5 DEF Superseded
        <3>2. StampOf(j, i) =< j.seen
            BY <1>1, <2>1, <2>5 DEF StampOf
        <3> QED
            BY <1>6, <1>10, <3>1, <3>2
    <2> QED
        BY <2>4, <2>5
<1>11. ASSUME NEW i \in DOMAIN ended
       PROVE  /\ EndedEarlier(ended[i], table[i])
              /\ ended[i].stamp =< j.seen => \/ ~ActiveOn(ended[i], j.day)
                                             \/ j.op = "upsert" /\ i = j.target
    BY <1>9, <1>10, <1>11
<1> QED
    BY <1>1, <1>4, <1>11 DEF RoomFor

LEMMA CommitTypes ==
    ASSUME DiscountsAssumption, DiscountsInv, UNCHANGED mix, writes < mix.writes,
           writes' = writes + 1
    PROVE  writes' \in 0 .. MaxWrites /\ writes' \in Nat /\ writes =< writes' /\ writes \in Nat
<1>1. writes \in Nat /\ mix \in Mixes /\ MaxWrites \in Nat
    BY DiscountsTypes DEF DiscountsInv, DiscountsTypeOK, DiscountsAssumption
<1>2. mix.writes \in 0 .. MaxWrites
    BY <1>1 DEF DiscountsAssumption
<1> QED
    BY <1>1, <1>2

(* Neither the grants nor the approvals change.                             *)
LEMMA GrantsKept ==
    ASSUME DiscountsAssumption, DiscountsInv,
           DOMAIN rows'["hh_grants"] = DOMAIN rows["hh_grants"],
           \A g \in DOMAIN rows["hh_grants"] :
              rows'["hh_grants"][g].request = rows["hh_grants"][g].request,
           DOMAIN requests \subseteq DOMAIN requests',
           \A i \in DOMAIN requests :
              requests'[i].status = "approved" <=> requests[i].status = "approved",
           \A i \in DOMAIN requests' \ DOMAIN requests : requests'[i].status # "approved"
    PROVE  GrantsFit'
    BY DEF DiscountsInv, GrantsFit, Grants

LEMMA CreateStep ==
    ASSUME DiscountsAssumption, DiscountsInv, NEW s \in Sessions, CreateHHRequest(s)
    PROVE  DiscountsInv'
<1>1. PICK j \in Job : j = session[s]
    BY DEF DiscountsInv, DiscountsTypeOK
<1>2. SessionFits(j) /\ j.at = "write" /\ j.op = "create"
    BY <1>1 DEF DiscountsInv, SessionsFit, CreateHHRequest
<1>3. /\ writes' \in 0 .. MaxWrites /\ writes' \in Nat /\ writes =< writes' /\ writes \in Nat
      /\ writes' = writes + 1
    BY CommitTypes DEF CreateHHRequest, Commit
<1>4. PICK mid : mid = [i \in DOMAIN requests |->
                           IF i \in j.held THEN [requests[i] EXCEPT !.status = "deleted"]
                           ELSE requests[i]]
    OBVIOUS
<1>5. PICK new : new = [status |-> "requested", stamp |-> writes + 1, seen |-> j.seen]
    OBVIOUS
<1>6. new \in HHRequest /\ new.status = "requested" /\ new.stamp = writes + 1 /\ new.seen = j.seen
    BY <1>3, <1>5 DEF HHRequest, Job
<1>7. requests' = Append(mid, new)
    BY <1>1, <1>4, <1>5 DEF CreateHHRequest
<1>8. /\ Len(requests) \in Nat /\ DOMAIN requests = 1 .. Len(requests)
      /\ \A i \in DOMAIN requests : requests[i] \in HHRequest
    BY SeqIs DEF DiscountsInv, DiscountsTypeOK
<1>9. /\ mid \in Seq(HHRequest) /\ Len(mid) = Len(requests) /\ DOMAIN mid = DOMAIN requests
    <2>1. \A i \in DOMAIN requests : [requests[i] EXCEPT !.status = "deleted"] \in HHRequest
        BY <1>8 DEF HHRequest
    <2>2. mid \in [1 .. Len(requests) -> HHRequest]
        BY <1>4, <1>8, <2>1
    <2> QED
        BY <1>8, <2>2, SeqOf
<1>10. PICK n : n = Len(requests) + 1
    OBVIOUS
<1>11. /\ requests' \in Seq(HHRequest) /\ Len(requests') = n
       /\ DOMAIN requests' = DOMAIN requests \cup {n} /\ n \notin DOMAIN requests
       /\ \A i \in DOMAIN requests : requests'[i] = mid[i]
       /\ requests'[n] = new
    BY <1>6, <1>7, <1>9, <1>10, AppendIs
<1>12. \A i \in DOMAIN requests :
          /\ i \notin j.held => requests'[i] = requests[i]
          /\ i \in j.held => /\ requests'[i].status = "deleted"
                             /\ requests'[i].stamp = requests[i].stamp
                             /\ requests'[i].seen = requests[i].seen
    BY <1>4, <1>8, <1>11 DEF HHRequest
<1>13. UNCHANGED <<today, rows, mix>> /\ session' = [session EXCEPT ![s] = IdleJob]
    BY DEF CreateHHRequest, Commit, Release
<1>14. IdleJob \in Job
    BY IdleSession DEF DiscountsInv
<1>15. DiscountsTypeOK'
    <2>1. n =< MaxRows
        BY <1>8, <1>10 DEF CreateHHRequest, DiscountsAssumption
    <2>2. session' \in [Sessions -> Job]
        BY <1>13, <1>14 DEF DiscountsInv, DiscountsTypeOK
    <2> QED
        BY <1>3, <1>11, <1>13, <2>1, <2>2 DEF DiscountsInv, DiscountsTypeOK
<1>16. j.held \subseteq Pending /\ \A i \in Pending : requests[i].stamp =< j.seen => i \in j.held
    BY <1>2 DEF SessionFits, Superseded, Caught, StampOf
<1>17. j.seen =< writes /\ j.seen \in Nat
    BY <1>2, JobTypes DEF SessionFits
<1>18. \A p \in Pending' \ {n} : requests'[p].stamp > new.seen
    <2>1. ASSUME NEW p \in Pending' \ {n}
          PROVE  requests'[p].stamp > new.seen
        <3>1. p \in DOMAIN requests /\ requests'[p].status = "requested"
            BY <1>11, <2>1 DEF Pending
        <3>2. p \notin j.held /\ requests'[p] = requests[p]
            BY <1>12, <3>1
        <3>3. ~(requests[p].stamp =< j.seen)
            BY <1>16, <3>1, <3>2 DEF Pending
        <3>4. requests[p].stamp \in Nat
            BY <3>1, DiscountsTypes DEF DiscountsInv
        <3> QED
            BY <1>6, <1>17, <3>2, <3>3, <3>4
    <2> QED
        BY <2>1
<1>19. RequestsGo /\ RequestHistory' /\ RequestsApart'
    <2>1. \A i \in DOMAIN requests :
             /\ requests'[i].stamp = requests[i].stamp /\ requests'[i].seen = requests[i].seen
             /\ requests'[i].status = "requested" => requests[i].status = "requested"
        BY <1>12
    <2>2. \A i \in DOMAIN requests' \ DOMAIN requests :
             /\ requests'[i].stamp = writes + 1 /\ writes' = writes + 1
             /\ requests'[i].seen =< writes
             /\ DOMAIN requests' \ DOMAIN requests = {i}
             /\ \A p \in Pending' \ {i} : requests'[p].stamp > requests'[i].seen
        BY <1>3, <1>6, <1>11, <1>17, <1>18
    <2>3. DOMAIN requests \subseteq DOMAIN requests'
        BY <1>11
    <2> QED
        BY <1>3, <1>15, <2>1, <2>2, <2>3, RequestsWritten
<1>24. today =< today' /\ today' \in Nat
    BY <1>13, DiscountsTypes DEF DiscountsInv
<1>20. RowsGo /\ RowHistory' /\ RowsApart'
    BY <1>3, <1>13, <1>24, RowsStay
<1>21. GrantsFit'
    <2>1. \A i \in DOMAIN requests :
             requests'[i].status = "approved" <=> requests[i].status = "approved"
        BY <1>12, <1>16 DEF Pending
    <2>2. \A i \in DOMAIN requests' \ DOMAIN requests : requests'[i].status # "approved"
        BY <1>6, <1>11
    <2>3. DOMAIN requests \subseteq DOMAIN requests'
        BY <1>11
    <2> QED
        BY <1>13, <2>1, <2>2, <2>3, GrantsKept
<1>22. ASSUME NEW o \in Sessions \ {s}
       PROVE  Apart(IdleJob, session[o]) /\ Untouched(session[o])
    <2>1. Apart(IdleJob, session[o])
        BY IdleSession DEF Apart, DiscountsInv
    <2>2. LockedRequests(session[o]) \cap j.held = {}
        BY <1>1, <1>2 DEF DiscountsInv, LocksDisjoint, Apart, LockedRequests
    <2>3. LockedRequests(session[o]) \subseteq DOMAIN requests
        BY LockedExists
    <2> QED
        BY <1>12, <1>13, <2>1, <2>2, <2>3 DEF Untouched
<1>23. SessionFits(IdleJob)'
    BY <1>15, IdleFits
<1>25. SessionsFit' /\ LocksDisjoint'
    BY <1>3, <1>13, <1>14, <1>15, <1>19, <1>20, <1>22, <1>23, <1>24, SessionsGo
<1> QED
    BY <1>15, <1>19, <1>20, <1>21, <1>25 DEF DiscountsInv

(* A request's decision: conclude's, or a denial.                           *)
LEMMA DecisionIs ==
    ASSUME DiscountsAssumption, DiscountsInv, NEW id \in DOMAIN requests,
           NEW status \in {"approved", "denied"}, requests[id].status = "requested",
           requests' = [requests EXCEPT ![id].status = status]
    PROVE  /\ requests' \in Seq(HHRequest) /\ Len(requests') = Len(requests)
           /\ DOMAIN requests' = DOMAIN requests
           /\ \A i \in DOMAIN requests :
                 /\ i # id => requests'[i] = requests[i]
                 /\ requests'[i].stamp = requests[i].stamp /\ requests'[i].seen = requests[i].seen
           /\ requests'[id].status = status
<1>1. /\ Len(requests) \in Nat /\ DOMAIN requests = 1 .. Len(requests)
      /\ \A i \in DOMAIN requests : requests[i] \in HHRequest
    BY SeqIs DEF DiscountsInv, DiscountsTypeOK
<1>2. PICK r \in HHRequest : r = requests[id]
    BY <1>1
<1>3. PICK d : d = [r EXCEPT !.status = status]
    OBVIOUS
<1>4. d \in HHRequest /\ d.status = status /\ d.stamp = r.stamp /\ d.seen = r.seen
    BY <1>3 DEF HHRequest
<1>5. requests' = [requests EXCEPT ![id] = d]
    BY <1>2, <1>3
<1>6. requests \in [1 .. Len(requests) -> HHRequest]
    BY <1>1, LenProperties DEF DiscountsInv, DiscountsTypeOK
<1>7. requests' \in [1 .. Len(requests) -> HHRequest]
    BY <1>4, <1>5, <1>6
<1>8. /\ requests' \in Seq(HHRequest) /\ Len(requests') = Len(requests)
      /\ DOMAIN requests' = DOMAIN requests
    BY <1>1, <1>7, SeqOf
<1>9. \A i \in DOMAIN requests : requests'[i] = IF i = id THEN d ELSE requests[i]
    BY <1>5
<1> QED
    BY <1>2, <1>4, <1>8, <1>9

LEMMA DenyStep ==
    ASSUME DiscountsAssumption, DiscountsInv, NEW id \in DOMAIN requests, Deny(id)
    PROVE  DiscountsInv'
<1>1. /\ requests[id].status = "requested"
      /\ \A o \in Sessions : id \notin LockedRequests(session[o])
      /\ requests' = [requests EXCEPT ![id].status = "denied"]
      /\ UNCHANGED <<today, rows, session, mix>>
    BY DEF Deny, Undecided
<1>2. /\ writes' \in 0 .. MaxWrites /\ writes' \in Nat /\ writes =< writes'
      /\ today =< today' /\ today' \in Nat
    BY <1>1, CommitTypes, DiscountsTypes DEF Deny, DiscountsInv
<1>3. /\ requests' \in Seq(HHRequest) /\ Len(requests') = Len(requests)
      /\ DOMAIN requests' = DOMAIN requests
      /\ \A i \in DOMAIN requests :
            /\ i # id => requests'[i] = requests[i]
            /\ requests'[i].stamp = requests[i].stamp /\ requests'[i].seen = requests[i].seen
      /\ requests'[id].status = "denied"
    <2>1. "denied" \in {"approved", "denied"}
        OBVIOUS
    <2> QED
        BY <1>1, <2>1, DecisionIs
<1>4. DiscountsTypeOK'
    BY <1>1, <1>2, <1>3 DEF DiscountsInv, DiscountsTypeOK
<1>5. RequestsGo /\ RequestHistory' /\ RequestsApart'
    BY <1>2, <1>3, <1>4, RequestsWritten
<1>6. RowsGo /\ RowHistory' /\ RowsApart'
    BY <1>1, <1>2, RowsStay
<1>7. GrantsFit'
    <2>1. \A i \in DOMAIN requests :
             requests'[i].status = "approved" <=> requests[i].status = "approved"
        BY <1>1, <1>3
    <2> QED
        BY <1>1, <1>3, <2>1, GrantsKept
<1>8. SessionsFit'
    <2>1. ASSUME NEW o \in Sessions
          PROVE  SessionFits(session[o])'
        <3>1. PICK k \in Job : k = session[o]
            BY DEF DiscountsInv, DiscountsTypeOK
        <3>2. Untouched(k)
            <4>1. LockedRequests(k) \subseteq DOMAIN requests /\ id \notin LockedRequests(k)
                BY <1>1, <3>1, LockedExists
            <4> QED
                BY <1>1, <1>3, <4>1 DEF Untouched
        <3>3. SessionFits(k)
            BY <3>1 DEF DiscountsInv, SessionsFit
        <3>4. SessionFits(k)'
            BY <1>2, <1>4, <1>5, <1>6, <3>2, <3>3, SessionKept DEF DiscountsInv
        <3> QED
            BY <1>1, <3>1, <3>4
    <2> QED
        BY <2>1 DEF SessionsFit
<1>9. LocksDisjoint'
    BY <1>1 DEF DiscountsInv, LocksDisjoint
<1> QED
    BY <1>4, <1>5, <1>6, <1>7, <1>8, <1>9 DEF DiscountsInv

LEMMA TickStep ==
    ASSUME DiscountsAssumption, DiscountsInv, Tick
    PROVE  DiscountsInv'
<1>1. UNCHANGED <<requests, rows, writes, session, mix>>
    BY DEF Tick
<1>2. today' \in Days /\ today =< today' /\ today' \in Nat
    BY DEF Tick, DiscountsInv, DiscountsTypeOK, Days, DiscountsAssumption
<1>3. DiscountsTypeOK'
    BY <1>1, <1>2 DEF DiscountsInv, DiscountsTypeOK
<1>4. writes =< writes' /\ writes' \in Nat
    BY <1>1, DiscountsTypes DEF DiscountsInv
<1>5. RequestsGo /\ RequestHistory' /\ RequestsApart'
    BY <1>1, <1>4, RequestsStay
<1>6. RowsGo /\ RowHistory' /\ RowsApart'
    BY <1>1, <1>2, <1>4, RowsStay
<1>7. SessionsFit'
    <2>1. ASSUME NEW o \in Sessions
          PROVE  SessionFits(session[o])'
        <3>1. PICK k \in Job : k = session[o]
            BY DEF DiscountsInv, DiscountsTypeOK
        <3>2. SessionFits(k) /\ Untouched(k)
            BY <1>1, <3>1 DEF DiscountsInv, SessionsFit, Untouched
        <3>3. SessionFits(k)'
            BY <1>2, <1>3, <1>4, <1>5, <1>6, <3>2, SessionKept DEF DiscountsInv
        <3> QED
            BY <1>1, <3>1, <3>3
    <2> QED
        BY <2>1 DEF SessionsFit
<1>8. LocksDisjoint' /\ GrantsFit'
    BY <1>1 DEF DiscountsInv, LocksDisjoint, GrantsFit, Grants
<1> QED
    BY <1>3, <1>5, <1>6, <1>7, <1>8 DEF DiscountsInv

LEMMA CancelStep ==
    ASSUME DiscountsAssumption, DiscountsInv, NEW s \in Sessions, Cancel(s)
    PROVE  DiscountsInv'
<1>1. PICK j \in Job : j = session[s]
    BY DEF DiscountsInv, DiscountsTypeOK
<1>2. SessionFits(j) /\ j.at = "write" /\ j.op = "cancel" /\ j.table \in Discounted
    BY <1>1, JobTypes DEF DiscountsInv, SessionsFit, Cancel
<1>3. PICK ended : ended = Ended(rows[j.table], j.held, j.day)
    OBVIOUS
<1>4. /\ ended \in Seq(Discount) /\ Len(ended) = Len(rows[j.table])
      /\ DOMAIN ended = DOMAIN rows[j.table]
      /\ \A i \in DOMAIN ended : EndedEarlier(ended[i], rows[j.table][i])
      /\ \A i \in DOMAIN ended \ j.held : ended[i] = rows[j.table][i]
    <2>1. j.op \in {"conclude", "cancel", "upsert"}
        BY <1>2
    <2>2. RoomFor(j, ended)
        BY <1>1, <1>2, <1>3, <2>1, RoomMade
    <2> QED
        BY <2>2 DEF RoomFor
<1>5. /\ rows' = [rows EXCEPT ![j.table] = ended]
      /\ UNCHANGED <<today, requests, mix>>
      /\ session' = [session EXCEPT ![s] = IdleJob]
    BY <1>1, <1>3 DEF Cancel, Commit, Release
<1>6. writes' \in 0 .. MaxWrites /\ writes' \in Nat /\ writes =< writes'
    <2>1. CASE writes' = writes
        BY <2>1, DiscountsTypes DEF DiscountsInv, DiscountsTypeOK
    <2>2. CASE writes' # writes
        BY <2>2, CommitTypes DEF Cancel, Commit
    <2> QED
        BY <2>1, <2>2
<1>7. today =< today' /\ today' \in Nat
    BY <1>5, DiscountsTypes DEF DiscountsInv
<1>8. IdleJob \in Job
    BY IdleSession DEF DiscountsInv
<1>9. /\ rows'[j.table] = ended /\ \A t \in Discounted \ {j.table} : rows'[t] = rows[t]
      /\ rows' \in [Discounted -> Seq(Discount)]
    BY <1>2, <1>4, <1>5 DEF DiscountsInv, DiscountsTypeOK
<1>10. DiscountsTypeOK'
    <2>1. session' \in [Sessions -> Job]
        BY <1>5, <1>8 DEF DiscountsInv, DiscountsTypeOK
    <2>2. \A t \in Discounted : Len(rows'[t]) =< MaxRows
        BY <1>2, <1>4, <1>9 DEF DiscountsInv, DiscountsTypeOK
    <2> QED
        BY <1>5, <1>6, <1>9, <2>1, <2>2 DEF DiscountsInv, DiscountsTypeOK
<1>11. RequestsGo /\ RequestHistory' /\ RequestsApart'
    BY <1>5, <1>6, RequestsStay
<1>12. RowsGo /\ RowHistory' /\ RowsApart'
    BY <1>2, <1>4, <1>5, <1>6, <1>7, <1>10, RowsWritten
<1>13. GrantsFit'
    <2>1. /\ DOMAIN rows'["hh_grants"] = DOMAIN rows["hh_grants"]
          /\ \A g \in DOMAIN rows["hh_grants"] :
                rows'["hh_grants"][g].request = rows["hh_grants"][g].request
        <3>1. CASE j.table = "hh_grants"
            BY <1>4, <1>9, <3>1 DEF EndedEarlier
        <3>2. CASE j.table # "hh_grants"
            BY <1>9, <3>2 DEF Discounted
        <3> QED
            BY <3>1, <3>2
    <2> QED
        BY <1>5, <2>1, GrantsKept
<1>14. ASSUME NEW o \in Sessions \ {s}
       PROVE  Apart(IdleJob, session[o]) /\ Untouched(session[o])
    <2>1. Apart(IdleJob, session[o])
        BY IdleSession DEF Apart, DiscountsInv
    <2>2. LockedDiscounts(session[o], j.table) \cap j.held = {}
        BY <1>1, <1>2 DEF DiscountsInv, LocksDisjoint, Apart, LockedDiscounts
    <2>3. LockedDiscounts(session[o], j.table) \subseteq DOMAIN rows[j.table]
        BY <1>2, LockedExists
    <2>4. ASSUME NEW t \in Discounted, NEW i \in LockedDiscounts(session[o], t)
          PROVE  rows'[t][i] = rows[t][i]
        BY <1>4, <1>9, <2>2, <2>3, <2>4
    <2> QED
        BY <1>5, <2>1, <2>4 DEF Untouched
<1>15. SessionFits(IdleJob)'
    BY <1>10, IdleFits
<1>16. SessionsFit' /\ LocksDisjoint'
    BY <1>5, <1>6, <1>7, <1>8, <1>10, <1>11, <1>12, <1>14, <1>15, SessionsGo
<1> QED
    BY <1>10, <1>11, <1>12, <1>13, <1>16 DEF DiscountsInv

LEMMA NewDiscountIs ==
    ASSUME DiscountsAssumption, NEW j \in Job, NEW benefit \in GrantBenefits \cup ManualBenefits,
           NEW from \in Days, NEW until \in 2 .. LastDay + 1, NEW request \in 0 .. MaxRows,
           writes + 1 \in 0 .. MaxWrites,
           NEW new, new = NewDiscount(j, benefit, from, until, request)
    PROVE  /\ new \in Discount /\ new.stamp = writes + 1 /\ new.seen = j.seen
           /\ new.day = j.day /\ new.request = request
<1>1. until \in Nat
    BY DEF DiscountsAssumption
<1>2. j.seen \in 0 .. MaxWrites /\ j.day \in Days
    BY DEF Job
<1> QED
    BY <1>1, <1>2 DEF NewDiscount, Discount

LEMMA ConcludeStep ==
    ASSUME DiscountsAssumption, DiscountsInv, NEW s \in Sessions, ConcludeHHRequest(s)
    PROVE  DiscountsInv'
<1>1. PICK j \in Job : j = session[s]
    BY DEF DiscountsInv, DiscountsTypeOK
<1>2. /\ SessionFits(j) /\ j.at = "write" /\ j.op = "conclude" /\ j.table = "hh_grants"
      /\ "hh_grants" \in Discounted
    BY <1>1 DEF DiscountsInv, SessionsFit, ConcludeHHRequest, SessionFits, Discounted
<1>3. PICK ended : ended = Ended(rows["hh_grants"], j.held, j.day)
    OBVIOUS
<1>4. PICK benefit \in GrantBenefits, from \in Days, until \in 2 .. LastDay + 1 :
         rows' = [rows EXCEPT !["hh_grants"] =
                    Append(ended, NewDiscount(j, benefit, from, until, j.target))]
    BY <1>1, <1>3 DEF ConcludeHHRequest
<1>5. PICK new : new = NewDiscount(j, benefit, from, until, j.target)
    OBVIOUS
<1>6. /\ writes' \in 0 .. MaxWrites /\ writes' \in Nat /\ writes =< writes' /\ writes \in Nat
      /\ writes' = writes + 1
    BY CommitTypes DEF ConcludeHHRequest, Commit
<1>7. /\ new \in Discount /\ new.stamp = writes + 1 /\ new.seen = j.seen
      /\ new.day = j.day /\ new.request = j.target
    <2>1. j.target \in 0 .. MaxRows
        BY DEF Job
    <2>2. benefit \in GrantBenefits \cup ManualBenefits /\ writes + 1 \in 0 .. MaxWrites
        BY <1>6
    <2> QED
        BY <1>5, <2>1, <2>2, NewDiscountIs
<1>8. /\ ended \in Seq(Discount) /\ Len(ended) = Len(rows["hh_grants"])
      /\ DOMAIN ended = DOMAIN rows["hh_grants"]
      /\ \A i \in DOMAIN ended : EndedEarlier(ended[i], rows["hh_grants"][i])
      /\ \A i \in DOMAIN ended : ended[i].stamp =< j.seen => ~ActiveOn(ended[i], j.day)
      /\ \A i \in DOMAIN ended \ j.held : ended[i] = rows["hh_grants"][i]
    <2>1. j.op \in {"conclude", "cancel", "upsert"} /\ j.op # "upsert"
        BY <1>2
    <2>2. ended = Ended(rows[j.table], j.held, j.day)
        BY <1>2, <1>3
    <2>3. RoomFor(j, ended)
        BY <1>1, <1>2, <2>1, <2>2, RoomMade
    <2> QED
        BY <1>2, <2>1, <2>3 DEF RoomFor
<1>9. PICK table : table = Append(ended, new)
    OBVIOUS
<1>10. PICK n : n = Len(ended) + 1
    OBVIOUS
<1>11. /\ table \in Seq(Discount) /\ Len(table) = n
       /\ DOMAIN table = DOMAIN ended \cup {n} /\ n \notin DOMAIN ended
       /\ \A i \in DOMAIN ended : table[i] = ended[i]
       /\ table[n] = new
    BY <1>7, <1>8, <1>9, <1>10, AppendIs
<1>12. /\ rows' = [rows EXCEPT !["hh_grants"] = table]
       /\ UNCHANGED <<today, mix>>
       /\ session' = [session EXCEPT ![s] = IdleJob]
       /\ requests' = [requests EXCEPT ![j.target].status = "approved"]
    BY <1>1, <1>4, <1>5, <1>9 DEF ConcludeHHRequest, Commit, Release
<1>13. today =< today' /\ today' \in Nat
    BY <1>12, DiscountsTypes DEF DiscountsInv
<1>14. IdleJob \in Job
    BY IdleSession DEF DiscountsInv
<1>15. /\ rows'["hh_grants"] = table
       /\ rows'["manual_discount"] = rows["manual_discount"]
       /\ rows' \in [Discounted -> Seq(Discount)]
    BY <1>2, <1>11, <1>12 DEF DiscountsInv, DiscountsTypeOK, Discounted
<1>16. j.target \in DOMAIN requests /\ requests[j.target].status = "requested"
    BY <1>2 DEF SessionFits
<1>17. /\ requests' \in Seq(HHRequest) /\ Len(requests') = Len(requests)
       /\ DOMAIN requests' = DOMAIN requests
       /\ \A i \in DOMAIN requests :
             /\ i # j.target => requests'[i] = requests[i]
             /\ requests'[i].stamp = requests[i].stamp /\ requests'[i].seen = requests[i].seen
       /\ requests'[j.target].status = "approved"
    <2>1. "approved" \in {"approved", "denied"}
        OBVIOUS
    <2> QED
        BY <1>12, <1>16, <2>1, DecisionIs
<1>18. DiscountsTypeOK'
    <2>1. session' \in [Sessions -> Job]
        BY <1>12, <1>14 DEF DiscountsInv, DiscountsTypeOK
    <2>2. n =< MaxRows
        <3>1. Len(rows["hh_grants"]) \in Nat /\ Len(rows["hh_grants"]) < MaxRows
            BY <1>2, DiscountsTypes DEF ConcludeHHRequest, DiscountsInv
        <3> QED
            BY <1>8, <1>10, <3>1 DEF DiscountsAssumption
    <2>3. \A t \in Discounted : Len(rows'[t]) =< MaxRows
        BY <1>11, <1>15, <2>2 DEF DiscountsInv, DiscountsTypeOK, Discounted
    <2> QED
        BY <1>6, <1>12, <1>15, <1>17, <2>1, <2>3 DEF DiscountsInv, DiscountsTypeOK
<1>19. RequestsGo /\ RequestHistory' /\ RequestsApart'
    <2>1. \A i \in DOMAIN requests :
             requests'[i].status = "requested" => requests[i].status = "requested"
        BY <1>16, <1>17
    <2> QED
        BY <1>6, <1>17, <1>18, <2>1, RequestsWritten
<1>20. RowsGo /\ RowHistory' /\ RowsApart'
    <2>1. j.seen =< writes /\ j.day =< today
        BY <1>2 DEF SessionFits
    <2>2. Fresh(table, n)
        <3>1. \A g \in DOMAIN table \ {n} :
                 table[g].stamp =< table[n].seen => ~ActiveOn(table[g], table[n].day)
            BY <1>7, <1>8, <1>11
        <3> QED
            BY <1>6, <1>7, <1>11, <2>1, <3>1 DEF Fresh
    <2>3. \A i \in DOMAIN table :
             \/ i \in DOMAIN rows["hh_grants"] /\ EndedEarlier(table[i], rows["hh_grants"][i])
             \/ Fresh(table, i)
        BY <1>8, <1>11, <2>2
    <2>4. DOMAIN rows["hh_grants"] \subseteq DOMAIN table
        BY <1>8, <1>11
    <2> QED
        BY <1>2, <1>6, <1>12, <1>13, <1>18, <2>3, <2>4, RowsWritten
<1>21. GrantsFit'
    <2>1. /\ \A g \in DOMAIN Grants : Grants[g].request \in DOMAIN requests
                                /\ requests[Grants[g].request].status = "approved"
          /\ \A g, h \in DOMAIN Grants : Grants[g].request = Grants[h].request => g = h
          /\ \A id \in DOMAIN requests : requests[id].status = "approved" =>
                \E g \in DOMAIN Grants : Grants[g].request = id
        BY DEF DiscountsInv, GrantsFit
    <2>2. /\ DOMAIN table = DOMAIN Grants \cup {n} /\ n \notin DOMAIN Grants
          /\ \A g \in DOMAIN Grants : table[g].request = Grants[g].request
          /\ table[n].request = j.target
        BY <1>7, <1>8, <1>11 DEF EndedEarlier, Grants
    <2>3. \A g \in DOMAIN Grants : Grants[g].request # j.target
        BY <1>16, <2>1
    <2>4. \A g \in DOMAIN table : table[g].request \in DOMAIN requests'
                                  /\ requests'[table[g].request].status = "approved"
        BY <1>16, <1>17, <2>1, <2>2, <2>3
    <2>5. \A g, h \in DOMAIN table : table[g].request = table[h].request => g = h
        BY <2>1, <2>2, <2>3
    <2>6. ASSUME NEW id \in DOMAIN requests', requests'[id].status = "approved"
          PROVE  \E g \in DOMAIN table : table[g].request = id
        <3>1. CASE id = j.target
            BY <2>2, <3>1
        <3>2. CASE id # j.target
            <4>1. requests[id].status = "approved" /\ id \in DOMAIN requests
                BY <1>17, <2>6, <3>2
            <4>2. PICK g \in DOMAIN Grants : Grants[g].request = id
                BY <2>1, <4>1
            <4> QED
                BY <2>2, <4>2
        <3> QED
            BY <3>1, <3>2
    <2> QED
        BY <1>15, <2>4, <2>5, <2>6 DEF GrantsFit, Grants
<1>22. ASSUME NEW o \in Sessions \ {s}
       PROVE  Apart(IdleJob, session[o]) /\ Untouched(session[o])
    <2>1. Apart(IdleJob, session[o])
        BY IdleSession DEF Apart, DiscountsInv
    <2>2. Apart(j, session[o])
        BY <1>1 DEF DiscountsInv, LocksDisjoint
    <2>3. /\ LockedDiscounts(session[o], "hh_grants") \cap j.held = {}
          /\ j.target \notin LockedRequests(session[o])
        BY <1>2, <2>2 DEF Apart, LockedDiscounts, LockedRequests
    <2>4. /\ LockedDiscounts(session[o], "hh_grants") \subseteq DOMAIN rows["hh_grants"]
          /\ LockedRequests(session[o]) \subseteq DOMAIN requests
        BY <1>2, LockedExists
    <2>5. \A i \in LockedRequests(session[o]) : requests'[i] = requests[i]
        BY <1>17, <2>3, <2>4
    <2>6. \A i \in LockedDiscounts(session[o], "hh_grants") :
             rows'["hh_grants"][i] = rows["hh_grants"][i]
        BY <1>8, <1>11, <1>15, <2>3, <2>4
    <2> QED
        BY <1>15, <2>1, <2>5, <2>6 DEF Untouched, Discounted
<1>23. SessionFits(IdleJob)'
    BY <1>18, IdleFits
<1>24. SessionsFit' /\ LocksDisjoint'
    BY <1>6, <1>12, <1>13, <1>14, <1>18, <1>19, <1>20, <1>22, <1>23, SessionsGo
<1> QED
    BY <1>18, <1>19, <1>20, <1>21, <1>24 DEF DiscountsInv

LEMMA UpsertStep ==
    ASSUME DiscountsAssumption, DiscountsInv, NEW s \in Sessions, UpsertManualDiscount(s)
    PROVE  DiscountsInv'
<1>1. PICK j \in Job : j = session[s]
    BY DEF DiscountsInv, DiscountsTypeOK
<1>2. /\ SessionFits(j) /\ j.at = "write" /\ j.op = "upsert" /\ j.table = "manual_discount"
      /\ "manual_discount" \in Discounted
    BY <1>1 DEF DiscountsInv, SessionsFit, UpsertManualDiscount, SessionFits, Discounted
<1>3. PICK ended : ended = Ended(rows["manual_discount"], j.held, j.day)
    OBVIOUS
<1>4. PICK benefit \in ManualBenefits, from \in Days, until \in 2 .. LastDay + 1 :
         LET new == NewDiscount(j, benefit, from, until, 0) IN
         IF j.target # 0
         THEN rows' = [rows EXCEPT !["manual_discount"] = [ended EXCEPT ![j.target] = new]]
         ELSE /\ Len(ended) < MaxRows
              /\ rows' = [rows EXCEPT !["manual_discount"] = Append(ended, new)]
    BY <1>1, <1>3 DEF UpsertManualDiscount
<1>5. PICK new : new = NewDiscount(j, benefit, from, until, 0)
    OBVIOUS
<1>6. /\ writes' \in 0 .. MaxWrites /\ writes' \in Nat /\ writes =< writes' /\ writes \in Nat
      /\ writes' = writes + 1
    BY CommitTypes DEF UpsertManualDiscount, Commit
<1>7. /\ new \in Discount /\ new.stamp = writes + 1 /\ new.seen = j.seen /\ new.day = j.day
    <2>1. 0 \in 0 .. MaxRows
        BY DEF DiscountsAssumption
    <2>2. benefit \in GrantBenefits \cup ManualBenefits /\ writes + 1 \in 0 .. MaxWrites
        BY <1>6
    <2> QED
        BY <1>5, <2>1, <2>2, NewDiscountIs
<1>8. /\ ended \in Seq(Discount) /\ Len(ended) = Len(rows["manual_discount"])
      /\ DOMAIN ended = DOMAIN rows["manual_discount"]
      /\ \A i \in DOMAIN ended : EndedEarlier(ended[i], rows["manual_discount"][i])
      /\ \A i \in DOMAIN ended :
            ended[i].stamp =< j.seen => ~ActiveOn(ended[i], j.day) \/ i = j.target
      /\ \A i \in DOMAIN ended \ j.held : ended[i] = rows["manual_discount"][i]
    <2>1. j.op \in {"conclude", "cancel", "upsert"}
        BY <1>2
    <2>2. ended = Ended(rows[j.table], j.held, j.day)
        BY <1>2, <1>3
    <2>3. RoomFor(j, ended)
        BY <1>1, <1>2, <2>1, <2>2, RoomMade
    <2> QED
        BY <1>2, <2>3 DEF RoomFor
<1>9. Len(ended) \in Nat /\ Len(ended) =< MaxRows /\ DOMAIN ended = 1 .. Len(ended)
      /\ j.target \in {0} \cup DOMAIN ended
    <2>1. Len(rows["manual_discount"]) =< MaxRows
        BY <1>2 DEF DiscountsInv, DiscountsTypeOK
    <2>2. j.target \in {0} \cup DOMAIN rows["manual_discount"]
        BY <1>2 DEF SessionFits
    <2> QED
        BY <1>8, <2>1, <2>2, SeqIs
<1>10. PICK table : table = IF j.target # 0 THEN [ended EXCEPT ![j.target] = new]
                            ELSE Append(ended, new)
    OBVIOUS
<1>11. PICK n : n = IF j.target # 0 THEN j.target ELSE Len(ended) + 1
    OBVIOUS
<1>12. /\ table \in Seq(Discount) /\ Len(table) =< MaxRows
       /\ DOMAIN table = DOMAIN ended \cup {n}
       /\ \A i \in DOMAIN ended \ {n} : table[i] = ended[i]
       /\ table[n] = new
    <2>1. CASE j.target # 0
        <3>1. table = [ended EXCEPT ![j.target] = new] /\ n = j.target /\ n \in DOMAIN ended
            BY <1>9, <1>10, <1>11, <2>1
        <3>2. ended \in [1 .. Len(ended) -> Discount]
            BY <1>8, <1>9, LenProperties
        <3>3. table \in [1 .. Len(ended) -> Discount]
            BY <1>7, <3>1, <3>2
        <3>4. table \in Seq(Discount) /\ Len(table) = Len(ended) /\ DOMAIN table = DOMAIN ended
            BY <1>9, <3>3, SeqOf
        <3>5. /\ \A i \in DOMAIN ended \ {n} : table[i] = ended[i]
              /\ table[n] = new
            BY <3>1
        <3> QED
            BY <1>9, <3>1, <3>4, <3>5
    <2>2. CASE j.target = 0
        <3>1. table = Append(ended, new) /\ n = Len(ended) + 1 /\ Len(ended) < MaxRows
            BY <1>4, <1>10, <1>11, <2>2
        <3>2. /\ table \in Seq(Discount) /\ Len(table) = n
              /\ DOMAIN table = DOMAIN ended \cup {n} /\ n \notin DOMAIN ended
              /\ \A i \in DOMAIN ended : table[i] = ended[i]
              /\ table[n] = new
            BY <1>7, <1>8, <3>1, AppendIs
        <3>3. n =< MaxRows
            BY <1>9, <3>1 DEF DiscountsAssumption
        <3> QED
            BY <3>2, <3>3
    <2> QED
        BY <2>1, <2>2
<1>13. /\ rows' = [rows EXCEPT !["manual_discount"] = table]
       /\ UNCHANGED <<today, requests, mix>>
       /\ session' = [session EXCEPT ![s] = IdleJob]
    BY <1>4, <1>5, <1>10 DEF UpsertManualDiscount, Commit, Release
<1>14. today =< today' /\ today' \in Nat
    BY <1>13, DiscountsTypes DEF DiscountsInv
<1>15. IdleJob \in Job
    BY IdleSession DEF DiscountsInv
<1>16. /\ rows'["manual_discount"] = table
       /\ rows'["hh_grants"] = rows["hh_grants"]
       /\ rows' \in [Discounted -> Seq(Discount)]
    BY <1>2, <1>12, <1>13 DEF DiscountsInv, DiscountsTypeOK, Discounted
<1>17. DiscountsTypeOK'
    <2>1. session' \in [Sessions -> Job]
        BY <1>13, <1>15 DEF DiscountsInv, DiscountsTypeOK
    <2>2. \A t \in Discounted : Len(rows'[t]) =< MaxRows
        BY <1>12, <1>16 DEF DiscountsInv, DiscountsTypeOK, Discounted
    <2> QED
        BY <1>6, <1>13, <1>16, <2>1, <2>2 DEF DiscountsInv, DiscountsTypeOK
<1>18. RequestsGo /\ RequestHistory' /\ RequestsApart'
    BY <1>6, <1>13, RequestsStay
<1>19. RowsGo /\ RowHistory' /\ RowsApart'
    <2>1. j.seen =< writes /\ j.day =< today
        BY <1>2 DEF SessionFits
    <2>2. Fresh(table, n)
        <3>1. ASSUME NEW g \in DOMAIN table \ {n}, table[g].stamp =< table[n].seen
              PROVE  ~ActiveOn(table[g], table[n].day)
            <4>1. g \in DOMAIN ended /\ table[g] = ended[g] /\ table[n] = new
                BY <1>12, <3>1
            <4>2. g # j.target
                <5>1. g # 0
                    BY <1>9, <4>1
                <5> QED
                    BY <1>11, <3>1, <5>1
            <4> QED
                BY <1>7, <1>8, <3>1, <4>1, <4>2
        <3> QED
            BY <1>6, <1>7, <1>12, <2>1, <3>1 DEF Fresh
    <2>3. \A i \in DOMAIN table :
             \/ /\ i \in DOMAIN rows["manual_discount"]
                /\ EndedEarlier(table[i], rows["manual_discount"][i])
             \/ Fresh(table, i)
        BY <1>8, <1>12, <2>2
    <2>4. DOMAIN rows["manual_discount"] \subseteq DOMAIN table
        BY <1>8, <1>12
    <2> QED
        BY <1>2, <1>6, <1>13, <1>14, <1>17, <2>3, <2>4, RowsWritten
<1>20. GrantsFit'
    BY <1>13, <1>16, GrantsKept
<1>21. ASSUME NEW o \in Sessions \ {s}
       PROVE  Apart(IdleJob, session[o]) /\ Untouched(session[o])
    <2>1. Apart(IdleJob, session[o])
        BY IdleSession DEF Apart, DiscountsInv
    <2>2. Apart(j, session[o])
        BY <1>1 DEF DiscountsInv, LocksDisjoint
    <2>3. LockedDiscounts(session[o], "manual_discount") \cap j.held = {}
        BY <1>2, <2>2 DEF Apart, LockedDiscounts
    <2>4. LockedDiscounts(session[o], "manual_discount") \subseteq DOMAIN ended
        BY <1>2, <1>8, LockedExists
    <2>5. j.target \notin LockedDiscounts(session[o], "manual_discount")
        BY <1>1, <1>2 DEF UpsertManualDiscount, DiscountFree
    <2>6. n \notin LockedDiscounts(session[o], "manual_discount")
        <3>1. Len(ended) + 1 \notin DOMAIN ended
            BY <1>9
        <3> QED
            BY <1>11, <2>4, <2>5, <3>1
    <2>7. \A i \in LockedDiscounts(session[o], "manual_discount") :
             rows'["manual_discount"][i] = rows["manual_discount"][i]
        BY <1>8, <1>12, <1>16, <2>3, <2>4, <2>6
    <2> QED
        BY <1>13, <1>16, <2>1, <2>7 DEF Untouched, Discounted
<1>22. SessionFits(IdleJob)'
    BY <1>17, IdleFits
<1>23. SessionsFit' /\ LocksDisjoint'
    BY <1>6, <1>13, <1>14, <1>15, <1>17, <1>18, <1>19, <1>21, <1>22, SessionsGo
<1> QED
    BY <1>17, <1>18, <1>19, <1>20, <1>23 DEF DiscountsInv

-----------------------------------------------------------------------------
(* Discounts keeps its invariant.                                           *)

LEMMA DiscountsStart ==
    ASSUME DiscountsAssumption, DiscountsInit
    PROVE  DiscountsInv
<1>1. /\ <<>> \in Seq(HHRequest) /\ <<>> \in Seq(Discount)
      /\ DOMAIN <<>> = {} /\ Len(<<>>) = 0
    OBVIOUS
<1>2. /\ DOMAIN requests = {} /\ Len(requests) = 0 /\ requests \in Seq(HHRequest)
      /\ rows \in [Discounted -> Seq(Discount)]
      /\ \A t \in Discounted : DOMAIN rows[t] = {} /\ Len(rows[t]) = 0
    BY <1>1 DEF DiscountsInit
<1>3. today \in Days /\ 0 =< MaxRows /\ writes \in 0 .. MaxWrites /\ 0 \in 0 .. MaxWrites
      /\ 0 \in 0 .. MaxRows /\ 1 \in Days
    BY DEF DiscountsInit, Days, DiscountsAssumption
<1>4. IdleJob \in Job
    BY <1>3 DEF IdleJob, Job, Discounted
<1>5. DiscountsTypeOK
    BY <1>2, <1>3, <1>4 DEF DiscountsInit, DiscountsTypeOK
<1>6. SessionFits(IdleJob) /\ \A k : Apart(IdleJob, k)
    BY <1>5, IdleSession DEF Apart
<1>7. SessionsFit /\ LocksDisjoint
    BY <1>6 DEF DiscountsInit, SessionsFit, LocksDisjoint
<1>8. RequestHistory /\ RowHistory /\ RequestsApart /\ RowsApart
    BY <1>2 DEF RequestHistory, RowHistory, RequestsApart, RowsApart, Pending
<1>9. GrantsFit
    BY <1>2 DEF GrantsFit, Grants, Discounted
<1> QED
    BY <1>5, <1>7, <1>8, <1>9 DEF DiscountsInv

LEMMA DiscountsStep ==
    ASSUME DiscountsAssumption, DiscountsInv, DiscountsNext
    PROVE  DiscountsInv'
<1>1. ASSUME NEW s \in Sessions, Transaction(s)
      PROVE  DiscountsInv'
    <2>0. /\ 0 \in 0 .. MaxRows /\ "hh_grants" \in Discounted /\ "manual_discount" \in Discounted
          /\ DOMAIN requests \subseteq 1 .. MaxRows
          /\ DOMAIN rows["manual_discount"] \subseteq 1 .. MaxRows
        <3>1. "manual_discount" \in Discounted /\ "hh_grants" \in Discounted
            BY DEF Discounted
        <3> QED
            BY <3>1, DiscountsTypes DEF DiscountsInv, DiscountsTypeOK, DiscountsAssumption
    <2>1. CASE BeginCreate(s)
        BY <2>0, <2>1, BeginStep DEF BeginCreate
    <2>2. CASE BeginConclude(s)
        <3>1. PICK id \in DOMAIN requests : Begin(s, "conclude", "claim", "hh_grants", id)
            BY <2>2 DEF BeginConclude
        <3> QED
            BY <2>0, <3>1, BeginStep
    <2>3. CASE BeginCancel(s)
        <3>1. PICK t \in mix.tables : Begin(s, "cancel", "scan", t, 0)
            BY <2>3 DEF BeginCancel
        <3>2. t \in Discounted
            BY DEF DiscountsInv, DiscountsTypeOK, DiscountsAssumption
        <3> QED
            BY <2>0, <3>1, <3>2, BeginStep
    <2>4. CASE BeginUpsert(s)
        <3>1. PICK id \in {0} \cup DOMAIN rows["manual_discount"] :
                 Begin(s, "upsert", "scan", "manual_discount", id)
            BY <2>4 DEF BeginUpsert
        <3>2. id \in 0 .. MaxRows
            BY <2>0
        <3> QED
            BY <2>0, <3>1, <3>2, BeginStep
    <2>5. CASE Claim(s)
        BY <2>5, ClaimStep
    <2>6. CASE Scan(s)
        BY <2>6, ScanStep
    <2>7. CASE Hold(s)
        BY <2>7, HoldStep
    <2>8. CASE CreateHHRequest(s)
        BY <2>8, CreateStep
    <2>9. CASE ConcludeHHRequest(s)
        BY <2>9, ConcludeStep
    <2>10. CASE Cancel(s)
        BY <2>10, CancelStep
    <2>11. CASE UpsertManualDiscount(s)
        BY <2>11, UpsertStep
    <2>12. CASE Rollback(s)
        BY <2>12, ReleaseStep DEF Rollback
    <2> QED
        BY <1>1, <2>1, <2>2, <2>3, <2>4, <2>5, <2>6, <2>7, <2>8, <2>9, <2>10, <2>11, <2>12
           DEF Transaction
<1>2. ASSUME NEW id \in DOMAIN requests, Deny(id)
      PROVE  DiscountsInv'
    BY <1>2, DenyStep
<1>3. CASE Tick
    BY <1>3, TickStep
<1> QED
    BY <1>1, <1>2, <1>3 DEF DiscountsNext

LEMMA DiscountsStutter ==
    ASSUME DiscountsInv, UNCHANGED discountVars
    PROVE  DiscountsInv'
<1>1. UNCHANGED <<today, requests, rows, writes, session, mix>>
    BY DEF discountVars
<1>2. DiscountsTypeOK' /\ RequestHistory' /\ RowHistory' /\ LocksDisjoint'
    BY <1>1 DEF DiscountsInv, DiscountsTypeOK, RequestHistory, RowHistory, LocksDisjoint
<1>3. RequestsApart' /\ RowsApart' /\ GrantsFit'
    BY <1>1 DEF DiscountsInv, RequestsApart, RowsApart, GrantsFit, Grants, Pending
<1>4. \A j : SessionFits(j) <=> SessionFits(j)'
    <2>1. \A j : Superseded(j) = Superseded(j)' /\ \A i : StampOf(j, i) = StampOf(j, i)'
        BY <1>1 DEF Superseded, StampOf, Pending
    <2>2. \A j, ids : Caught(j, ids) <=> Caught(j, ids)'
        BY <1>1, <2>1 DEF Caught
    <2> QED
        BY <1>1, <2>1, <2>2 DEF SessionFits
<1>5. SessionsFit'
    BY <1>1, <1>4 DEF DiscountsInv, SessionsFit
<1> QED
    BY <1>2, <1>3, <1>5 DEF DiscountsInv

(* What the invariant says of the grants and of what holds today.           *)
LEMMA GrantsMatch ==
    ASSUME DiscountsAssumption, DiscountsInv
    PROVE  GrantsMatchRequests
<1>1. /\ \A g \in DOMAIN Grants : Grants[g].request \in DOMAIN requests
                            /\ requests[Grants[g].request].status = "approved"
      /\ \A g, h \in DOMAIN Grants : Grants[g].request = Grants[h].request => g = h
      /\ \A id \in DOMAIN requests : requests[id].status = "approved" =>
            \E g \in DOMAIN Grants : Grants[g].request = id
    BY DEF DiscountsInv, GrantsFit
<1>2. ASSUME NEW id \in DOMAIN requests
      PROVE  Cardinality({g \in DOMAIN Grants : Grants[g].request = id})
             = IF requests[id].status = "approved" THEN 1 ELSE 0
    <2>1. CASE requests[id].status = "approved"
        <3>1. PICK g \in DOMAIN Grants : Grants[g].request = id
            BY <1>1, <2>1
        <3>2. {h \in DOMAIN Grants : Grants[h].request = id} = {g}
            BY <1>1, <3>1
        <3> QED
            BY <2>1, <3>2, FS_Singleton
    <2>2. CASE requests[id].status # "approved"
        <3>1. {h \in DOMAIN Grants : Grants[h].request = id} = {}
            BY <1>1, <2>2
        <3> QED
            BY <2>2, <3>1, FS_EmptySet
    <2> QED
        BY <2>1, <2>2
<1> QED
    BY <1>2 DEF GrantsMatchRequests, Grants

LEMMA OneHoldsNow ==
    ASSUME DiscountsAssumption, DiscountsInv
    PROVE  OneHolds
<1>1. \A p, q \in Pending : p # q => requests[p].stamp > requests[q].seen
    BY DEF DiscountsInv, RequestsApart
<1>2. ASSUME NEW t \in Discounted, NEW g \in Active(t), NEW h \in Active(t), g # h,
             rows[t][g].stamp =< rows[t][h].seen
      PROVE  rows[t][g].from > rows[t][h].day
    <2>1. g \in DOMAIN rows[t] /\ h \in DOMAIN rows[t] /\ ActiveOn(rows[t][g], today)
        BY <1>2 DEF Active
    <2>2. ~ActiveOn(rows[t][g], rows[t][h].day)
        BY <1>2, <2>1 DEF DiscountsInv, RowsApart
    <2>3. /\ rows[t][g].until \in Nat /\ rows[t][g].from \in Nat /\ rows[t][h].day \in Nat
          /\ today \in Nat /\ rows[t][h].day =< today
        BY <2>1, DiscountsTypes DEF DiscountsInv, RowHistory
    <2>4. rows[t][g].until > today
        BY <2>1 DEF ActiveOn
    <2>5. ~(rows[t][g].until > rows[t][h].day /\ rows[t][g].from =< rows[t][h].day)
        BY <2>2 DEF ActiveOn
    <2> QED
        BY <2>3, <2>4, <2>5
<1> QED
    BY <1>1, <1>2 DEF OneHolds

-----------------------------------------------------------------------------
(* Prices.                                                                  *)

LEMMA NISIsNat ==
    ASSUME NEW p, Priced(p)
    PROVE  toNIS(p) \in Nat
<1>1. PICK n \in Nat : n = p.amount
    BY DEF Priced
<1>2. \A rate \in {10, 36, 31} : n * rate \in Nat
    BY <1>1
<1> QED
    BY <1>1, <1>2 DEF toNIS

(* The base price is in whole units of its currency.                        *)
LEMMA BaseIsWhole ==
    \E n \in Nat : Base.amount = 100 * n
<1>1. PICK group : group = IF household.country \in DOMAIN countryToGroup
                           THEN countryToGroup[household.country] ELSE "High"
    OBVIOUS
<1>2. PICK currency : currency = IF household.country \in DOMAIN countryToCurrency
                                 THEN countryToCurrency[household.country] ELSE "USD"
    OBVIOUS
<1>3. currency \in {"NIS", "EUR", "USD"}
    BY <1>2 DEF countryToCurrency
<1>4. PICK prices : prices = priceByCurrencyAndGroup[currency]
    OBVIOUS
<1>5. \A g \in DOMAIN prices : prices[g] \in Nat
    BY <1>3, <1>4 DEF priceByCurrencyAndGroup
<1>6. PICK n : n = IF group \in DOMAIN prices THEN prices[group] ELSE 55
    OBVIOUS
<1>7. n \in Nat
    BY <1>5, <1>6
<1>8. Base.amount = 100 * n
    BY <1>1, <1>2, <1>4, <1>6 DEF Base, GetCountryBasePrice
<1> QED
    BY <1>7, <1>8

LEMMA PercentIsPriced ==
    ASSUME NEW pct \in 1 .. 100
    PROVE  /\ Priced(Base) /\ Priced(PercentOff(pct))
           /\ pct = DonationsDiscountAmtPct => toNIS(PercentOff(pct)) =< toNIS(Base)
<1>1. PICK n \in Nat : Base.amount = 100 * n
    BY BaseIsWhole
<1>2. PICK k : k = 100 - pct
    OBVIOUS
<1>3. k \in Nat
    BY <1>2
<1>4. n * k \in Nat
    BY <1>3
<1>5. (100 * n) \div 100 = n
    OBVIOUS
<1>6. PercentOff(pct).amount = n * k /\ PercentOff(pct).currency = Base.currency
    BY <1>1, <1>2, <1>5 DEF PercentOff
<1>7. Priced(Base) /\ Priced(PercentOff(pct))
    BY <1>1, <1>4, <1>6 DEF Priced
<1>8. ASSUME pct = DonationsDiscountAmtPct
      PROVE  toNIS(PercentOff(pct)) =< toNIS(Base)
    <2>1. PercentOff(pct).amount = 45 * n
        BY <1>2, <1>6, <1>8 DEF DonationsDiscountAmtPct
    <2>2. \A rate \in {10, 36, 31} : (45 * n) * rate =< (100 * n) * rate
        OBVIOUS
    <2> QED
        BY <1>1, <1>6, <2>1, <2>2 DEF toNIS
<1> QED
    BY <1>7, <1>8

LEMMA BenefitIsPriced ==
    ASSUME NEW b, Benefit(b)
    PROVE  Priced(BenefitPrice(b))
<1>1. CASE b.type = "percent"
    <2>1. b.pct \in 1 .. 100
        BY <1>1 DEF Benefit
    <2> QED
        BY <1>1, <2>1, PercentIsPriced DEF BenefitPrice
<1>2. CASE b.type # "percent"
    BY <1>2 DEF Benefit, BenefitPrice, Priced
<1> QED
    BY <1>1, <1>2

LEMMA Replaced ==
    ASSUME NEW offer, NEW current, Priced(offer), Priced(current),
           NEW left \in applyDiscount(offer, current)
    PROVE  /\ left \in {offer, current} /\ Priced(left)
           /\ toNIS(left) =< toNIS(offer) /\ toNIS(left) =< toNIS(current)
<1>1. toNIS(offer) \in Nat /\ toNIS(current) \in Nat
    BY NISIsNat
<1>2. CASE left = offer /\ (toNIS(offer) < toNIS(current) \/ toNIS(offer) = toNIS(current))
    BY <1>1, <1>2
<1>3. CASE left = current /\ ~(toNIS(offer) < toNIS(current))
    BY <1>1, <1>3
<1> QED
    BY <1>1, <1>2, <1>3 DEF applyDiscount, Cheaper

LEMMA CheapestExists ==
    ASSUME NEW offers, offers # {}, \A p \in offers : Priced(p)
    PROVE  \E p \in offers : \A q \in offers : toNIS(p) =< toNIS(q)
<1>1. PICK amounts : amounts = {toNIS(p) : p \in offers}
    OBVIOUS
<1>2. amounts \subseteq Nat /\ amounts # {}
    BY <1>1, NISIsNat
<1>3. PICK m \in amounts : \A k \in amounts : m =< k
    BY <1>2, LeastNumber
<1>4. PICK p \in offers : toNIS(p) = m
    BY <1>1
<1>5. \A q \in offers : toNIS(q) \in amounts
    BY <1>1
<1> QED
    BY <1>3, <1>4, <1>5

-----------------------------------------------------------------------------
(* The evaluation keeps its invariant.                                      *)

LEMMA LeastBoth ==
    ASSUME NEW final, NEW offers, Least(final, offers), NEW offer, Priced(offer),
           NEW new \in applyDiscount(offer, final),
           NEW more, \A p \in more : Priced(p) /\ toNIS(offer) =< toNIS(p)
    PROVE  Least(new, offers \cup more)
<1>1. Priced(new) /\ toNIS(new) =< toNIS(offer) /\ toNIS(new) =< toNIS(final)
    BY Replaced DEF Least
<1>2. toNIS(new) \in Nat /\ toNIS(offer) \in Nat /\ toNIS(final) \in Nat
    BY <1>1, NISIsNat DEF Least
<1>3. ASSUME NEW p \in offers \cup more
      PROVE  Priced(p) /\ toNIS(new) =< toNIS(p)
    <2>1. Priced(p) /\ toNIS(p) \in Nat
        BY NISIsNat DEF Least
    <2>2. toNIS(final) =< toNIS(p) \/ toNIS(offer) =< toNIS(p)
        BY DEF Least
    <2> QED
        BY <1>1, <1>2, <2>1, <2>2
<1> QED
    BY <1>1, <1>3 DEF Least

EvalFits ==
    /\ EvalShape
    /\ LeastSoFar
    /\ AnsweredOrFailed

(* A step that changes no more of the evaluation than what the stages       *)
(* before the first price are about.                                        *)
LEMMA NotJudgedYet ==
    ASSUME EvalFits, DOMAIN eval' = DOMAIN eval, eval'.at \in Stages \ Judged,
           eval'.answered = eval.answered
    PROVE  EvalFits'
    BY DEF EvalFits, EvalShape, LeastSoFar, AnsweredOrFailed, Judged

LEMMA Fields ==
    ASSUME EvalShape
    PROVE  DOMAIN eval = {"at", "emails", "linked", "left", "total", "eligible", "final", "offers",
                          "answered", "errors"}
    BY DEF EvalShape, IdleEval

(* Before the donations are judged there are no answers and no prices.      *)
LEMMA EarlyStages ==
    ASSUME EvalShape,
           Start \/ ReadProfile \/ ReadSpouse \/ ReadCustomers \/ ReadReceivables \/ ReadQuickBooks
    PROVE  /\ DOMAIN eval' = DOMAIN eval
           /\ eval'.at \in {"profile", "spouse", "customers", "receivables", "quickbooks", "europe",
                            "refused"}
           /\ eval'.answered = eval.answered /\ eval'.eligible = eval.eligible
           /\ eval'.offers = eval.offers /\ eval'.final = eval.final /\ eval'.errors = eval.errors
<1>0. DOMAIN eval = {"at", "emails", "linked", "left", "total", "eligible", "final", "offers",
                     "answered", "errors"}
    BY Fields
<1>1. CASE Start
    BY <1>0, <1>1 DEF Start, Goto
<1>2. CASE ReadProfile
    BY <1>0, <1>2 DEF ReadProfile, Refuse, Goto
<1>3. CASE ReadSpouse
    BY <1>0, <1>3 DEF ReadSpouse, Refuse, Goto
<1>4. CASE ReadCustomers
    BY <1>0, <1>4 DEF ReadCustomers
<1>5. CASE ReadReceivables
    BY <1>0, <1>5 DEF ReadReceivables
<1>6. CASE ReadQuickBooks
    <2>1. PICK at \in {"quickbooks", "europe"} : \E left, total :
             eval' = [eval EXCEPT !.at = at, !.left = left, !.total = total]
        BY <1>6 DEF ReadQuickBooks
    <2> QED
        BY <1>0, <2>1
<1> QED
    BY <1>1, <1>2, <1>3, <1>4, <1>5, <1>6

LEMMA EarlyStep ==
    ASSUME EvalFits,
           Start \/ ReadProfile \/ ReadSpouse \/ ReadCustomers \/ ReadReceivables \/ ReadQuickBooks
    PROVE  EvalFits'
<1>1. DOMAIN eval' = DOMAIN eval /\ eval'.answered = eval.answered /\ eval'.at \in Stages \ Judged
    BY EarlyStages DEF EvalFits, Stages, Judged
<1> QED
    BY <1>1, NotJudgedYet

(* The invariant in terms of the evaluation's fields.                       *)
LEMMA FieldsFit ==
    ASSUME DOMAIN eval' = DOMAIN IdleEval, eval'.at \in Stages, eval'.answered \subseteq Sources,
           eval'.at \in Judged => /\ Least(eval'.final, eval'.offers)
                                  /\ Asked(eval'.at) \subseteq eval'.answered \cup eval'.errors,
           eval'.at = "priced" => eval'.errors = {}
    PROVE  EvalFits'
    BY DEF EvalFits, EvalShape, LeastSoFar, AnsweredOrFailed, Least

LEMMA JudgedStep ==
    ASSUME EvalFits, ReadEurope \/ DonationsFail
    PROVE  EvalFits'
<1>1. DOMAIN eval = {"at", "emails", "linked", "left", "total", "eligible", "final", "offers",
                     "answered", "errors"}
    BY Fields DEF EvalFits
<1>2. PICK price : price = PercentOff(DonationsDiscountAmtPct)
    OBVIOUS
<1>3. Priced(Base) /\ Priced(price) /\ toNIS(price) =< toNIS(Base)
    <2>1. DonationsDiscountAmtPct \in 1 .. 100
        BY DEF DonationsDiscountAmtPct
    <2> QED
        BY <1>2, <2>1, PercentIsPriced
<1>4. toNIS(Base) \in Nat /\ toNIS(price) \in Nat
    BY <1>3, NISIsNat
<1>5. Least(Base, {Base}) /\ Least(price, {Base, price})
    BY <1>3, <1>4 DEF Least
<1>6. CASE ReadEurope
    <2>1. PICK total, eligible, final :
             /\ final \in {Base, price}
             /\ eval' = [eval EXCEPT !.at = "hh_grants", !.total = total, !.eligible = eligible,
                                     !.answered = {"donations"}, !.final = final,
                                     !.offers = {Base, final}]
        BY <1>2, <1>6 DEF ReadEurope
    <2>2. Least(final, {Base, final})
        <3>1. CASE final = Base
            BY <1>5, <3>1
        <3>2. CASE final = price
            BY <1>5, <3>2
        <3> QED
            BY <2>1, <3>1, <3>2
    <2>3. /\ DOMAIN eval' = DOMAIN eval /\ eval'.at = "hh_grants" /\ eval'.answered = {"donations"}
          /\ eval'.final = final /\ eval'.offers = {Base, final}
        BY <1>1, <2>1
    <2> QED
        BY <2>2, <2>3, FieldsFit DEF EvalFits, EvalShape, Stages, Sources, Asked
<1>7. CASE DonationsFail
    <2>1. /\ DOMAIN eval' = DOMAIN eval /\ eval'.at = "hh_grants" /\ eval'.errors = {"donations"}
          /\ eval'.final = Base /\ eval'.offers = {Base} /\ eval'.answered = eval.answered
        BY <1>1, <1>7 DEF DonationsFail
    <2>2. eval'.answered \subseteq Sources
        BY <2>1 DEF EvalFits, AnsweredOrFailed
    <2> QED
        BY <1>5, <2>1, <2>2, FieldsFit DEF EvalFits, EvalShape, Stages, Asked
<1> QED
    BY <1>6, <1>7

(* The rows on offer can be priced: an administrator's are validated.       *)
LEMMA RowsArePriced ==
    ASSUME DiscountsAssumption, PricingAssumption, DiscountsInv,
           NEW t \in Discounted, NEW i \in DOMAIN rows[t]
    PROVE  Priced(BenefitPrice(rows[t][i].benefit))
<1>1. rows[t][i] \in Discount
    BY DiscountsTypes DEF DiscountsInv
<1>2. rows[t][i].benefit \in GrantBenefits \cup ManualBenefits
    BY <1>1 DEF Discount
<1>3. Benefit(rows[t][i].benefit)
    BY <1>2 DEF PricingAssumption
<1> QED
    BY <1>3, BenefitIsPriced

LEMMA DiscountStep ==
    ASSUME DiscountsAssumption, PricingAssumption, DiscountsInv, EvalFits, ReadDiscount
    PROVE  EvalFits'
<1>1. DOMAIN eval = {"at", "emails", "linked", "left", "total", "eligible", "final", "offers",
                     "answered", "errors"}
    BY Fields DEF EvalFits
<1>2. PICK t \in Discounted : t = eval.at
    BY DEF ReadDiscount
<1> DEFINE offers == {BenefitPrice(rows[eval.at][i].benefit) : i \in GetActive(eval.at)}
<1>3. PICK final \in IF offers = {} THEN {eval.final}
                      ELSE UNION {applyDiscount(p, eval.final) : p \in offers} :
         eval' = [eval EXCEPT !.at = NextStage(eval.at), !.answered = @ \cup {eval.at},
                              !.offers = @ \cup offers, !.final = final]
    BY DEF ReadDiscount
<1>4. offers = {BenefitPrice(rows[t][i].benefit) : i \in GetActive(t)}
    BY <1>2
<1> HIDE DEF offers
<1>5. eval' = [eval EXCEPT !.at = NextStage(t), !.answered = @ \cup {t},
                           !.offers = @ \cup offers, !.final = final]
    BY <1>2, <1>3
<1>6. /\ DOMAIN eval' = DOMAIN eval /\ eval'.at = NextStage(t)
      /\ eval'.answered = eval.answered \cup {t} /\ eval'.errors = eval.errors
      /\ eval'.offers = eval.offers \cup offers /\ eval'.final = final
    BY <1>1, <1>5
<1>7. Least(eval.final, eval.offers) /\ Asked(t) \subseteq eval.answered \cup eval.errors
      /\ eval.answered \subseteq Sources
    BY <1>2 DEF EvalFits, LeastSoFar, AnsweredOrFailed, Least, Discounted, Judged
<1>8. \A p \in offers : Priced(p)
    <2>1. GetActive(t) \subseteq DOMAIN rows[t]
        BY DEF GetActive, Active
    <2> QED
        BY <1>4, <2>1, RowsArePriced
<1>9. \A p, q \in offers : p = q
    <2>1. \A i, k \in GetActive(t) : i =< k /\ k =< i /\ i \in Nat /\ k \in Nat
        <3>1. DOMAIN rows[t] \subseteq Nat
            BY DiscountsTypes DEF DiscountsInv
        <3> QED
            BY <3>1 DEF GetActive, Active
    <2>2. \A i, k \in GetActive(t) : i = k
        BY <2>1
    <2> QED
        BY <1>4, <2>2
<1>10. Least(final, eval.offers \cup offers)
    <2>1. CASE offers = {}
        BY <1>3, <1>7, <2>1 DEF Least
    <2>2. CASE offers # {}
        <3>1. PICK offer \in offers : final \in applyDiscount(offer, eval.final)
            BY <1>3, <2>2
        <3>2. toNIS(offer) \in Nat
            BY <1>8, NISIsNat
        <3>3. \A p \in offers : Priced(p) /\ toNIS(offer) =< toNIS(p)
            BY <1>8, <1>9, <3>2
        <3> QED
            BY <1>7, <1>8, <3>1, <3>3, LeastBoth
    <2> QED
        BY <2>1, <2>2
<1>11. /\ NextStage(t) \in {"manual_discount", "coupons"}
       /\ Asked(NextStage(t)) \subseteq Asked(t) \cup {t} /\ t \in Sources
    BY DEF NextStage, Asked, Discounted, Sources
<1> QED
    BY <1>6, <1>7, <1>10, <1>11, FieldsFit DEF EvalFits, EvalShape, Stages

LEMMA CouponsStep ==
    ASSUME DiscountsAssumption, PricingAssumption, coupons \subseteq CouponBenefits, EvalFits,
           ReadCoupons
    PROVE  EvalFits'
<1>1. DOMAIN eval = {"at", "emails", "linked", "left", "total", "eligible", "final", "offers",
                     "answered", "errors"}
    BY Fields DEF EvalFits
<1> DEFINE offers == {BenefitPrice(b) : b \in {c \in coupons : ~Malformed(c)}}
           best == {p \in offers : \A q \in offers : toNIS(p) =< toNIS(q)}
           bad == \E b \in coupons : Malformed(b)
<1>2. PICK final \in IF best = {} THEN {eval.final}
                     ELSE UNION {applyDiscount(p, eval.final) : p \in best} :
         eval' = [eval EXCEPT !.at = "resolve", !.final = final, !.offers = @ \cup offers,
                              !.errors = IF bad THEN @ \cup {"coupons"} ELSE @,
                              !.answered = IF bad THEN @ ELSE @ \cup {"coupons"}]
    BY DEF ReadCoupons
<1>3. /\ offers = {BenefitPrice(b) : b \in {c \in coupons : ~Malformed(c)}}
      /\ best = {p \in offers : \A q \in offers : toNIS(p) =< toNIS(q)}
    OBVIOUS
<1> HIDE DEF offers, best, bad
<1>4. PICK errors, answered :
         /\ \/ errors = eval.errors \cup {"coupons"} /\ answered = eval.answered
            \/ errors = eval.errors /\ answered = eval.answered \cup {"coupons"}
         /\ eval' = [eval EXCEPT !.at = "resolve", !.final = final, !.offers = @ \cup offers,
                                 !.errors = errors, !.answered = answered]
    <2>1. CASE bad
        BY <1>2, <2>1
    <2>2. CASE ~bad
        BY <1>2, <2>2
    <2> QED
        BY <2>1, <2>2
<1>5. /\ DOMAIN eval' = DOMAIN eval /\ eval'.at = "resolve"
      /\ eval'.offers = eval.offers \cup offers /\ eval'.final = final
      /\ eval'.errors = errors /\ eval'.answered = answered
    BY <1>1, <1>4
<1>7. /\ Least(eval.final, eval.offers)
      /\ Asked("coupons") \subseteq eval.answered \cup eval.errors
      /\ eval.answered \subseteq Sources
    BY DEF ReadCoupons, EvalFits, LeastSoFar, AnsweredOrFailed, Least, Judged
<1>8. \A p \in offers : Priced(p)
    <2>1. \A b \in coupons : ~Malformed(b) => Benefit(b)
        BY DEF PricingAssumption
    <2> QED
        BY <1>3, <2>1, BenefitIsPriced
<1>9. Least(final, eval.offers \cup offers)
    <2>1. CASE best = {}
        <3>1. offers = {}
            BY <1>3, <1>8, <2>1, CheapestExists
        <3> QED
            BY <1>2, <1>7, <2>1, <3>1 DEF Least
    <2>2. CASE best # {}
        <3>1. PICK offer \in best : final \in applyDiscount(offer, eval.final)
            BY <1>2, <2>2
        <3>2. /\ Priced(offer)
              /\ \A p \in offers : Priced(p) /\ toNIS(offer) =< toNIS(p)
            BY <1>3, <1>8, <3>1
        <3> QED
            BY <1>7, <3>1, <3>2, LeastBoth
    <2> QED
        BY <2>1, <2>2
<1>10. /\ Asked("resolve") = Asked("coupons") \cup {"coupons"}
       /\ "coupons" \in Sources /\ "resolve" \in Stages
    BY DEF Asked, Sources, Stages
<1>11. /\ Asked("resolve") \subseteq eval'.answered \cup eval'.errors
       /\ eval'.answered \subseteq Sources
    BY <1>4, <1>5, <1>7, <1>10
<1> QED
    BY <1>5, <1>9, <1>10, <1>11, FieldsFit DEF EvalFits, EvalShape

LEMMA LateStep ==
    ASSUME EvalFits, RowsFail \/ Resolve
    PROVE  EvalFits'
<1>1. DOMAIN eval = {"at", "emails", "linked", "left", "total", "eligible", "final", "offers",
                     "answered", "errors"}
    BY Fields DEF EvalFits
<1>2. eval.at \in Judged /\ eval.at # "priced"
    BY DEF RowsFail, Resolve, Judged
<1>3. /\ Least(eval.final, eval.offers)
      /\ Asked(eval.at) \subseteq eval.answered \cup eval.errors
      /\ eval.answered \subseteq Sources
    BY <1>2 DEF EvalFits, LeastSoFar, AnsweredOrFailed, Least
<1>4. /\ DOMAIN eval' = DOMAIN eval /\ eval'.answered = eval.answered
      /\ eval'.final = eval.final /\ eval'.offers = eval.offers
    BY <1>1 DEF RowsFail, Resolve, Goto
<1>5. CASE RowsFail
    <2>1. PICK stage : stage = eval.at
        OBVIOUS
    <2>2. /\ stage \in {"hh_grants", "manual_discount", "coupons"}
          /\ eval'.at = NextStage(stage) /\ eval'.errors = eval.errors \cup {stage}
        BY <1>1, <1>5, <2>1 DEF RowsFail
    <2>3. /\ NextStage(stage) \in {"manual_discount", "coupons", "resolve"}
          /\ Asked(NextStage(stage)) \subseteq Asked(stage) \cup {stage}
        BY <2>2 DEF NextStage, Asked, Sources
    <2> QED
        BY <1>3, <1>4, <2>1, <2>2, <2>3, FieldsFit DEF EvalFits, EvalShape, Stages
<1>6. CASE Resolve
    <2>1. /\ eval.at = "resolve" /\ eval'.errors = eval.errors
          /\ eval'.at = IF eval.errors # {} THEN "refused" ELSE "priced"
        BY <1>1, <1>6 DEF Resolve, Goto, HasDiscountErrors
    <2>2. Asked("priced") = Asked("resolve") /\ "refused" \notin Judged
          /\ "refused" \in Stages /\ "priced" \in Stages
        BY DEF Asked, Judged, Stages
    <2> QED
        BY <1>3, <1>4, <2>1, <2>2, FieldsFit DEF EvalFits, EvalShape
<1> QED
    BY <1>5, <1>6

LEMMA EvaluateStep ==
    ASSUME DiscountsAssumption, PricingAssumption, PricingInv, Evaluate
    PROVE  PricingInv'
<1>1. EvalFits
    BY DEF PricingInv, EvalFits
<1>2. EvalFits'
    BY <1>1, EarlyStep, JudgedStep, DiscountStep, CouponsStep, LateStep DEF Evaluate, PricingInv
<1>3. UNCHANGED <<discountVars, coupons>>
    BY DEF Evaluate, Start, ReadProfile, ReadSpouse, ReadCustomers, ReadReceivables,
           ReadQuickBooks, ReadEurope, DonationsFail, ReadDiscount, ReadCoupons, RowsFail,
           Resolve, Unread
<1>4. DiscountsInv'
    BY <1>3, DiscountsStutter DEF PricingInv
<1> QED
    BY <1>2, <1>3, <1>4 DEF PricingInv, EvalFits

LEMMA PricingStart ==
    ASSUME DiscountsAssumption, PricingInit
    PROVE  PricingInv
<1>1. DiscountsInv
    BY DiscountsStart DEF PricingInit
<1> QED
    BY <1>1 DEF PricingInit, PricingInv, EvalShape, LeastSoFar, AnsweredOrFailed, IdleEval,
                Judged, Stages

LEMMA PricingStep ==
    ASSUME DiscountsAssumption, PricingAssumption, PricingInv, [PricingNext]_vars
    PROVE  PricingInv'
<1>1. CASE Evaluate
    BY <1>1, EvaluateStep
<1>2. CASE Donate \/ CouponChange \/ Cached \/ UNCHANGED vars
    <2>1. UNCHANGED <<discountVars, eval>> /\ coupons' \subseteq CouponBenefits
        BY <1>2 DEF Donate, CouponChange, Cached, vars, pricingVars, PricingInv
    <2>2. DiscountsInv'
        BY <2>1, DiscountsStutter DEF PricingInv
    <2> QED
        BY <2>1, <2>2 DEF PricingInv, EvalShape, LeastSoFar, AnsweredOrFailed
<1>3. CASE Administer
    <2>1. UNCHANGED <<coupons, eval>> /\ DiscountsNext
        BY <1>3 DEF Administer
    <2>2. DiscountsInv'
        BY <2>1, DiscountsStep DEF PricingInv
    <2> QED
        BY <2>1, <2>2 DEF PricingInv, EvalShape, LeastSoFar, AnsweredOrFailed
<1> QED
    BY <1>1, <1>2, <1>3 DEF PricingNext

LEMMA PricingInvariant ==
    PricingSpec => []PricingInv
<1>1. PricingInit => PricingInv
    BY DiscountsAssumption, PricingStart
<1>2. PricingInv /\ [PricingNext]_vars => PricingInv'
    BY DiscountsAssumption, PricingAssumption, PricingStep
<1> QED
    BY <1>1, <1>2, PTL DEF PricingSpec

-----------------------------------------------------------------------------
(* Sums of gifts.                                                           *)

(* What each donor record is worth in NIS, and the model's sums.            *)
Worth(of) == [site \in DOMAIN of |-> Booked(site, of[site])]

LEMMA SitesSum ==
    ASSUME NEW sites, NEW of, IsFiniteSet(sites), sites \subseteq DOMAIN of
    PROVE  SumSites(sites, of) = Sum(Worth(of), sites)
<1> DEFINE Totals(f) ==
        f = [s \in SUBSET sites |->
                IF s = {} THEN 0 ELSE Booked(Pick(s), of[Pick(s)]) + f[s \ {Pick(s)}]]
<1>1. SumSites(sites, of) = (CHOOSE f : Totals(f))[sites]
    BY DEF SumSites, MapThenSumSet, MapThenFoldSet, Pick
<1>2. \A s \in SUBSET sites : s # {} => Worth(of)[Pick(s)] = Booked(Pick(s), of[Pick(s)])
    <2> SUFFICES ASSUME NEW s \in SUBSET sites, s # {}
                 PROVE  Worth(of)[Pick(s)] = Booked(Pick(s), of[Pick(s)])
        OBVIOUS
    <2>1. Pick(s) \in DOMAIN of
        BY PickIn
    <2> QED
        BY <2>1 DEF Worth
<1>3. \A f : Totals(f) <=> Adds(f, sites, Worth(of))
    BY <1>2 DEF Adds
<1>4. \E f : Totals(f)
    BY <1>3, AddsExists
<1> HIDE DEF Totals
<1>5. PICK g : g = CHOOSE f : Totals(f)
    OBVIOUS
<1>6. Totals(g)
    BY <1>4, <1>5
<1> QED
    BY <1>1, <1>3, <1>5, <1>6, SumIs
LEMMA BookedGrows ==
    ASSUME NEW site, NEW a \in Int, NEW b \in Int, a =< b
    PROVE  Booked(site, a) \in Int /\ Booked(site, a) =< Booked(site, b)
<1>1. PICK currency : currency =
         IF site[1] = "priority" /\ household.currency[site] \notin {"NIS", "USD", "EUR"}
         THEN "NIS" ELSE household.currency[site]
    OBVIOUS
<1>2. \A c \in Int : Booked(site, c) = toNIS([amount |-> c, currency |-> currency])
    BY <1>1 DEF Booked
<1>3. PICK rate \in {10, 36, 31} :
         \A c \in Int : toNIS([amount |-> c, currency |-> currency]) = c * rate
    BY DEF toNIS
<1>4. /\ a * rate \in Int /\ b * rate \in Int /\ a * rate =< b * rate
    OBVIOUS
<1> QED
    BY <1>2, <1>3, <1>4

LEMMA SitesFinite ==
    ASSUME GiftsFit, NEW sites, sites \subseteq DOMAIN household.gifts
    PROVE  IsFiniteSet(sites)
    BY FS_Subset DEF GiftsFit, Household

LEMMA SitesSumIsInt ==
    ASSUME GiftsFit, NEW of \in [DOMAIN household.gifts -> Int],
           NEW sites, sites \subseteq DOMAIN household.gifts
    PROVE  SumSites(sites, of) \in Int
<1>1. IsFiniteSet(sites) /\ sites \subseteq DOMAIN of
    BY SitesFinite
<1>2. SumSites(sites, of) = Sum(Worth(of), sites)
    BY <1>1, SitesSum
<1>3. ASSUME NEW site \in sites
      PROVE  Worth(of)[site] \in Int
    <2>1. of[site] \in Int /\ of[site] =< of[site]
        OBVIOUS
    <2> QED
        BY <2>1, BookedGrows DEF Worth
<1> QED
    BY <1>1, <1>2, <1>3, SumIsInt

LEMMA SitesSumGrows ==
    ASSUME GiftsFit, NEW of \in [DOMAIN household.gifts -> Int],
           NEW on \in [DOMAIN household.gifts -> Int],
           NEW sites, sites \subseteq DOMAIN household.gifts,
           \A site \in sites : of[site] =< on[site]
    PROVE  SumSites(sites, of) =< SumSites(sites, on)
<1>1. IsFiniteSet(sites) /\ sites \subseteq DOMAIN of /\ sites \subseteq DOMAIN on
    BY SitesFinite
<1>2. /\ SumSites(sites, of) = Sum(Worth(of), sites)
      /\ SumSites(sites, on) = Sum(Worth(on), sites)
    BY <1>1, SitesSum
<1>3. ASSUME NEW site \in sites
      PROVE  /\ Worth(of)[site] \in Int /\ Worth(on)[site] \in Int
             /\ Worth(of)[site] =< Worth(on)[site]
    <2>1. of[site] \in Int /\ on[site] \in Int /\ of[site] =< on[site] /\ on[site] =< on[site]
        OBVIOUS
    <2>2. Worth(of)[site] = Booked(site, of[site]) /\ Worth(on)[site] = Booked(site, on[site])
        BY DEF Worth
    <2>3. Booked(site, of[site]) \in Int /\ Booked(site, of[site]) =< Booked(site, on[site])
        BY <2>1, BookedGrows
    <2>4. Booked(site, on[site]) \in Int
        BY <2>1, BookedGrows
    <2> QED
        BY <2>2, <2>3, <2>4
<1>4. Sum(Worth(of), sites) =< Sum(Worth(on), sites)
    BY <1>1, <1>3, SumMonotone
<1> QED
    BY <1>2, <1>4

LEMMA SitesSumOfUnion ==
    ASSUME GiftsFit, NEW of \in [DOMAIN household.gifts -> Int],
           NEW sites, sites \subseteq DOMAIN household.gifts,
           NEW more, more \subseteq DOMAIN household.gifts, sites \cap more = {}
    PROVE  SumSites(sites \cup more, of) = SumSites(sites, of) + SumSites(more, of)
<1>1. /\ IsFiniteSet(sites) /\ IsFiniteSet(more) /\ IsFiniteSet(sites \cup more)
      /\ sites \subseteq DOMAIN of /\ more \subseteq DOMAIN of /\ sites \cup more \subseteq DOMAIN of
    BY SitesFinite
<1>2. /\ SumSites(sites, of) = Sum(Worth(of), sites)
      /\ SumSites(more, of) = Sum(Worth(of), more)
      /\ SumSites(sites \cup more, of) = Sum(Worth(of), sites \cup more)
    BY <1>1, SitesSum
<1>3. ASSUME NEW site \in sites \cup more
      PROVE  Worth(of)[site] \in Int
    <2>1. of[site] \in Int /\ of[site] =< of[site] /\ site \in DOMAIN of
        OBVIOUS
    <2> QED
        BY <2>1, BookedGrows DEF Worth
<1>4. Sum(Worth(of), sites \cup more) = Sum(Worth(of), sites) + Sum(Worth(of), more)
    BY <1>1, <1>3, SumOfUnion
<1> QED
    BY <1>2, <1>4

LEMMA SitesSumNext ==
    ASSUME NEW sites, NEW of, household' = household
    PROVE  SumSites(sites, of)' = SumSites(sites, of)
    BY DEF SumSites, MapThenSumSet, MapThenFoldSet, Booked


(* A sum of what the gifts are now.                                         *)
LEMMA SumIsBetween ==
    ASSUME GiftsFit, NEW sites, sites \subseteq DOMAIN household.gifts
    PROVE  Between(SumSites(sites, gifts), sites)
<1>1. {gifts, high, low} \subseteq [DOMAIN household.gifts -> Int]
    BY DEF GiftsFit
<1>2. \A site \in sites : low[site] =< gifts[site] /\ gifts[site] =< high[site]
    BY <1>1 DEF GiftsFit
<1>3. SumSites(sites, low) =< SumSites(sites, gifts)
    BY <1>1, <1>2, SitesSumGrows
<1>4. SumSites(sites, gifts) =< SumSites(sites, high)
    BY <1>1, <1>2, SitesSumGrows
<1> QED
    BY <1>1, <1>3, <1>4, SitesSumIsInt DEF Between

LEMMA BetweenSum ==
    ASSUME GiftsFit, NEW s, NEW t, NEW sites, sites \subseteq DOMAIN household.gifts,
           NEW more, more \subseteq DOMAIN household.gifts, sites \cap more = {},
           Between(s, sites), Between(t, more)
    PROVE  Between(s + t, sites \cup more)
<1>1. low \in [DOMAIN household.gifts -> Int] /\ high \in [DOMAIN household.gifts -> Int]
    BY DEF GiftsFit
<1>2. /\ SumSites(sites \cup more, low) = SumSites(sites, low) + SumSites(more, low)
      /\ SumSites(sites \cup more, high) = SumSites(sites, high) + SumSites(more, high)
    BY <1>1, SitesSumOfUnion
<1>3. /\ SumSites(sites, low) \in Int /\ SumSites(more, low) \in Int
      /\ SumSites(sites, high) \in Int /\ SumSites(more, high) \in Int
    BY <1>1, SitesSumIsInt
<1> QED
    BY <1>2, <1>3 DEF Between

LEMMA SumOfNone ==
    ASSUME NEW of
    PROVE  SumSites({}, of) = 0
<1>1. IsFiniteSet({})
    BY FS_EmptySet
<1> QED
    BY <1>1, SitesSum, SumEmpty

(* The extremes a sum lies between only widen.                              *)
Widened ==
    /\ household' = household
    /\ \A site \in DOMAIN household.gifts : low'[site] =< low[site] /\ high[site] =< high'[site]

LEMMA SumsWiden ==
    ASSUME GiftsFit, GiftsFit', Widened, NEW sites, sites \subseteq DOMAIN household.gifts
    PROVE  /\ SumSites(sites, low)' =< SumSites(sites, low)
           /\ SumSites(sites, high) =< SumSites(sites, high)'
           /\ SumSites(sites, low) \in Int /\ SumSites(sites, high) \in Int
           /\ SumSites(sites, low)' \in Int /\ SumSites(sites, high)' \in Int
<1>1. PICK l, h : l = low' /\ h = high'
    OBVIOUS
<1>2. /\ low \in [DOMAIN household.gifts -> Int] /\ high \in [DOMAIN household.gifts -> Int]
      /\ l \in [DOMAIN household.gifts -> Int] /\ h \in [DOMAIN household.gifts -> Int]
    BY <1>1 DEF GiftsFit, Widened
<1>3. \A site \in sites : l[site] =< low[site] /\ high[site] =< h[site]
    BY <1>1 DEF Widened
<1>4. SumSites(sites, l) =< SumSites(sites, low) /\ SumSites(sites, high) =< SumSites(sites, h)
    BY <1>2, <1>3, SitesSumGrows
<1>5. /\ SumSites(sites, l) \in Int /\ SumSites(sites, low) \in Int
      /\ SumSites(sites, high) \in Int /\ SumSites(sites, h) \in Int
    BY <1>2, SitesSumIsInt
<1>6. SumSites(sites, l)' = SumSites(sites, l) /\ SumSites(sites, h)' = SumSites(sites, h)
    BY SitesSumNext DEF Widened
<1>7. SumSites(sites, low)' = SumSites(sites, l)'
    BY <1>1
<1>8. SumSites(sites, high)' = SumSites(sites, h)'
    BY <1>1
<1> QED
    BY <1>4, <1>5, <1>6, <1>7, <1>8

LEMMA BetweenKept ==
    ASSUME GiftsFit, GiftsFit', Widened, NEW sites, sites \subseteq DOMAIN household.gifts,
           NEW total, Between(total, sites)
    PROVE  Between(total, sites)'
    BY SumsWiden DEF Between

-----------------------------------------------------------------------------
(* The sums keep their invariant.                                           *)

LEMMA GiftsStep ==
    ASSUME GiftsFit, [PricingNext]_vars
    PROVE  /\ GiftsFit' /\ household' = household
           /\ Widened \/ (Start /\ household.caller = "checkout")
<1>1. CASE Donate
    <2>1. PICK site \in DOMAIN gifts, amount \in household.amounts :
             /\ gifts' = [gifts EXCEPT ![site] = amount]
             /\ high' = [high EXCEPT ![site] = Max({@, amount})]
             /\ low' = [low EXCEPT ![site] = Min({@, amount})]
        BY <1>1 DEF Donate
    <2>2. household' = household
        BY <1>1 DEF Donate
    <2>3. PICK dom : dom = DOMAIN household.gifts
        OBVIOUS
    <2>4. /\ gifts \in [dom -> Int] /\ high \in [dom -> Int] /\ low \in [dom -> Int]
          /\ site \in dom /\ amount \in Int
          /\ \A x \in dom : low[x] =< gifts[x] /\ gifts[x] =< high[x]
        BY <2>1, <2>3 DEF GiftsFit, Household
    <2>5. \A a \in Int : /\ Max({a, amount}) \in Int /\ a =< Max({a, amount}) /\ amount =< Max({a, amount})
                         /\ Min({a, amount}) \in Int /\ Min({a, amount}) =< a /\ Min({a, amount}) =< amount
        <3> SUFFICES ASSUME NEW a \in Int
                     PROVE  /\ Max({a, amount}) = (IF a >= amount THEN a ELSE amount)
                            /\ Min({a, amount}) = (IF a =< amount THEN a ELSE amount)
            BY <2>4
        <3> QED
            BY <2>4 DEF Max, Min
    <2>6. PICK hi, lo : hi = Max({high[site], amount}) /\ lo = Min({low[site], amount})
        OBVIOUS
    <2>7. /\ hi \in Int /\ lo \in Int /\ amount =< hi /\ lo =< amount
          /\ high[site] =< hi /\ lo =< low[site]
        BY <2>4, <2>5, <2>6
    <2>8. /\ gifts' = [gifts EXCEPT ![site] = amount] /\ high' = [high EXCEPT ![site] = hi]
          /\ low' = [low EXCEPT ![site] = lo]
        BY <2>1, <2>6
    <2>9. /\ gifts' \in [dom -> Int] /\ high' \in [dom -> Int] /\ low' \in [dom -> Int]
          /\ \A x \in dom : low'[x] =< gifts'[x] /\ gifts'[x] =< high'[x]
          /\ \A x \in dom : low'[x] =< low[x] /\ high[x] =< high'[x]
        BY <2>4, <2>7, <2>8
    <2>10. Household(household)'
        BY <2>2 DEF GiftsFit
    <2> QED
        BY <2>2, <2>3, <2>9, <2>10 DEF GiftsFit, Widened
<1>2. CASE UNCHANGED <<household, gifts, high, low>>
    <2>1. GiftsFit'
        BY <1>2 DEF GiftsFit
    <2>2. \A site \in DOMAIN household.gifts : low[site] \in Int /\ high[site] \in Int
        BY DEF GiftsFit
    <2> QED
        BY <1>2, <2>1, <2>2 DEF Widened
<1>3. CASE Start /\ ~(UNCHANGED <<household, gifts, high, low>>)
    <2>1. /\ household.caller = "checkout" /\ UNCHANGED <<household, gifts>>
          /\ high' = gifts /\ low' = gifts
        BY <1>3 DEF Start
    <2>2. Household(household)'
        BY <2>1 DEF GiftsFit
    <2>3. gifts \in [DOMAIN household.gifts -> Int]
        BY DEF GiftsFit
    <2>4. GiftsFit'
        BY <2>1, <2>2, <2>3 DEF GiftsFit
    <2> QED
        BY <1>3, <2>1, <2>4
<1>4. Donate \/ UNCHANGED <<household, gifts, high, low>> \/ Start
    BY DEF PricingNext, Evaluate, ReadProfile, ReadSpouse, ReadCustomers, ReadReceivables,
           ReadQuickBooks, ReadEurope, DonationsFail, ReadDiscount, ReadCoupons, RowsFail,
           Resolve, Unread, CouponChange, Cached, Administer, vars, pricingVars
<1> QED
    BY <1>1, <1>2, <1>3, <1>4

(* The donor records that emails lead to.                                   *)
LEMMA EmailsLead ==
    ASSUME GiftsFit, NEW emails, emails \subseteq DOMAIN household.customers
    PROVE  /\ Priority(emails) \subseteq DOMAIN household.gifts
           /\ QuickBooks(emails) \subseteq DOMAIN household.gifts
           /\ Europe(emails) \subseteq DOMAIN household.gifts
           /\ (Priority(emails) \cup QuickBooks(emails)) \cap Europe(emails) = {}
           /\ \A some \in SUBSET emails : Priority(emails) \cap QuickBooks(some) = {}
<1>1. DOMAIN household.gifts =
         {<<"priority", c>> : c \in UNION {household.customers[e] : e \in DOMAIN household.customers}}
         \cup QuickBooks(DOMAIN household.customers) \cup Europe(DOMAIN household.customers)
    BY DEF GiftsFit, Household
<1> QED
    BY <1>1 DEF Priority, QuickBooks, Europe

LEMMA AnswerFits ==
    ASSUME GiftsFit, CacheFits, NEW sites, sites \subseteq DOMAIN household.gifts
    PROVE  Between(Answer(sites, sites), sites)
    BY SumIsBetween DEF Answer, CacheFits

LEMMA KeepStep ==
    ASSUME GiftsFit, GiftsFit', Widened, CacheFits, NEW request,
           request \subseteq DOMAIN household.gifts, NEW answer, Between(answer, request),
           Keep(request, answer)
    PROVE  CacheFits'
<1>1. DOMAIN gifts = DOMAIN household.gifts /\ DOMAIN gifts' = DOMAIN gifts
    BY DEF GiftsFit, Widened
<1>2. CASE household.caller = "billing"
    <2>1. cache' = [r \in DOMAIN cache \cup {request} |->
                       IF r \in DOMAIN cache THEN cache[r] ELSE answer]
        BY <1>2 DEF Keep
    <2>2. ASSUME NEW r \in DOMAIN cache'
          PROVE  r \subseteq DOMAIN gifts' /\ Between(cache[r], r)'
        <3>1. PICK kept : kept = cache'[r]
            OBVIOUS
        <3>2. r \subseteq DOMAIN household.gifts /\ Between(kept, r)
            BY <1>1, <2>1, <3>1 DEF CacheFits
        <3>3. Between(kept, r)'
            BY <3>2, BetweenKept
        <3> QED
            BY <1>1, <3>1, <3>2, <3>3 DEF Between
    <2> QED
        BY <1>2, <2>2 DEF CacheFits, Widened
<1>3. CASE household.caller # "billing"
    <2>1. household.caller = "checkout" /\ DOMAIN cache = {} /\ cache' = cache
        BY <1>3 DEF GiftsFit, Household, CacheFits, Keep
    <2> QED
        BY <2>1 DEF CacheFits
<1> QED
    BY <1>2, <1>3

LEMMA CacheStep ==
    ASSUME GiftsFit, CacheFits, TotalFits, [PricingNext]_vars
    PROVE  CacheFits'
<1>1. GiftsFit' /\ household' = household /\ (Widened \/ (Start /\ household.caller = "checkout"))
    BY GiftsStep
<1>2. /\ household.own \cup household.spouse \subseteq DOMAIN household.customers
      /\ eval.left \subseteq DOMAIN household.customers
      /\ eval.emails \subseteq DOMAIN household.customers
    BY DEF GiftsFit, Household, TotalFits
<1>3. ASSUME \A r \in DOMAIN cache' : r \in DOMAIN cache /\ cache'[r] = cache[r]
      PROVE  CacheFits'
    <2>1. CASE household.caller = "checkout"
        <3>1. DOMAIN cache' = {}
            BY <1>3, <2>1 DEF CacheFits
        <3> QED
            BY <3>1 DEF CacheFits
    <2>2. CASE Widened /\ household.caller # "checkout"
        <3>1. DOMAIN gifts = DOMAIN household.gifts /\ DOMAIN gifts' = DOMAIN gifts
            BY <1>1 DEF GiftsFit
        <3>2. ASSUME NEW r \in DOMAIN cache'
              PROVE  r \subseteq DOMAIN gifts' /\ Between(cache[r], r)'
            <4>1. PICK kept : kept = cache'[r]
                OBVIOUS
            <4>2. r \subseteq DOMAIN household.gifts /\ Between(kept, r)
                BY <1>3, <3>1, <4>1 DEF CacheFits
            <4>3. Between(kept, r)'
                BY <1>1, <2>2, <4>2, BetweenKept
            <4> QED
                BY <3>1, <4>1, <4>2, <4>3 DEF Between
        <3> QED
            BY <1>1, <2>2, <3>2 DEF CacheFits
    <2> QED
        BY <1>1, <2>1, <2>2
<1>4. CASE UNCHANGED cache
    BY <1>3, <1>4
<1>5. CASE ~Start /\ \E emails \in SUBSET DOMAIN household.customers :
              \/ Keep(QuickBooks(emails), Answer(QuickBooks(emails), QuickBooks(emails)))
              \/ Keep(Europe(emails), Answer(Europe(emails), Europe(emails)))
    <2>1. PICK emails \in SUBSET DOMAIN household.customers :
              \/ Keep(QuickBooks(emails), Answer(QuickBooks(emails), QuickBooks(emails)))
              \/ Keep(Europe(emails), Answer(Europe(emails), Europe(emails)))
        BY <1>5
    <2>2. PICK request \in {QuickBooks(emails), Europe(emails)} :
              Keep(request, Answer(request, request))
        BY <2>1
    <2>3. request \subseteq DOMAIN household.gifts
        BY <2>2, EmailsLead
    <2>4. PICK answer : answer = Answer(request, request)
        OBVIOUS
    <2>5. Between(answer, request) /\ Keep(request, answer)
        BY <2>2, <2>3, <2>4, AnswerFits
    <2> QED
        BY <1>1, <1>5, <2>3, <2>5, KeepStep
<1>6. CASE ReadQuickBooks
    <2>1. PICK e \in eval.left :
             Keep(QuickBooks({e}), Answer(QuickBooks({e}), QuickBooks({e})))
        BY <1>6 DEF ReadQuickBooks
    <2> QED
        BY <1>2, <1>5, <1>6, <2>1 DEF Start, ReadQuickBooks
<1>7. CASE ReadEurope
    <2>1. Keep(Europe(eval.emails), Answer(Europe(eval.emails), Europe(eval.emails)))
        BY <1>7 DEF ReadEurope
    <2> QED
        BY <1>2, <1>5, <1>7, <2>1 DEF Start, ReadEurope
<1>8. CASE Cached
    <2>1. ~Start \/ UNCHANGED cache
        BY DEF Start
    <2>2. CASE \E e \in household.own \cup household.spouse :
                  /\ QuickBooks({e}) \notin DOMAIN cache
                  /\ Keep(QuickBooks({e}), SumSites(QuickBooks({e}), gifts))
        BY <1>2, <1>4, <1>5, <2>1, <2>2 DEF Answer
    <2>3. CASE /\ Europe(household.own \cup household.spouse) \notin DOMAIN cache
               /\ Keep(Europe(household.own \cup household.spouse),
                       SumSites(Europe(household.own \cup household.spouse), gifts))
        BY <1>2, <1>4, <1>5, <2>1, <2>3 DEF Answer
    <2>4. CASE \E r \in DOMAIN cache : cache' = [q \in DOMAIN cache \ {r} |-> cache[q]]
        BY <1>3, <2>4
    <2> QED
        BY <1>8, <2>2, <2>3, <2>4 DEF Cached
<1> QED
    BY <1>4, <1>6, <1>7, <1>8
    DEF PricingNext, Evaluate, Start, ReadProfile, ReadSpouse, ReadCustomers, ReadReceivables,
        DonationsFail, ReadDiscount, ReadCoupons, RowsFail, Resolve, Donate, CouponChange,
        Administer, vars, pricingVars

(* A step after the donations, or one that leaves their stages alone.       *)
LEMMA TotalOver ==
    ASSUME TotalFits, household' = household, eval'.emails = eval.emails,
           eval'.left = eval.left, eval'.total \in Int, eval'.at \in Judged \cup {"refused"}
    PROVE  TotalFits'
    BY DEF TotalFits, Judged

LEMMA TotalStays ==
    ASSUME GiftsFit, GiftsFit', Widened, TotalFits, UNCHANGED eval
    PROVE  TotalFits'
<1>1. PICK total, sites :
         total = eval.total /\ sites = Priority(eval.emails) \cup QuickBooks(eval.emails \ eval.left)
    OBVIOUS
<1>2. total = eval'.total /\ sites = (Priority(eval.emails) \cup QuickBooks(eval.emails \ eval.left))'
    BY <1>1 DEF Widened, Priority, QuickBooks
<1>3. sites \subseteq DOMAIN household.gifts
    <2>1. eval.emails \subseteq DOMAIN household.customers
          /\ eval.emails \ eval.left \subseteq DOMAIN household.customers
        BY DEF TotalFits
    <2> QED
        BY <1>1, <2>1, EmailsLead
<1>4. eval.at \in {"quickbooks", "europe"} => Between(total, sites)'
    BY <1>1, <1>3, BetweenKept DEF TotalFits
<1>5. Between(total, sites)' =
      Between(eval.total, Priority(eval.emails) \cup QuickBooks(eval.emails \ eval.left))'
    BY <1>2 DEF Between
<1> QED
    BY <1>4, <1>5 DEF TotalFits, Widened

(* The stage that comes to be, with its sum.                                *)
LEMMA TotalIs ==
    ASSUME GiftsFit, GiftsFit', Widened, eval'.emails \subseteq DOMAIN household.customers,
           eval'.left \subseteq eval'.emails, eval'.at \in {"quickbooks", "europe"},
           eval'.at = "europe" => eval'.left = {}, NEW total, total = eval'.total,
           NEW sites, sites = Priority(eval'.emails) \cup QuickBooks(eval'.emails \ eval'.left),
           Between(total, sites)
    PROVE  TotalFits'
<1>1. sites = (Priority(eval.emails) \cup QuickBooks(eval.emails \ eval.left))'
    BY DEF Widened, Priority, QuickBooks
<1>2. sites \subseteq DOMAIN household.gifts
    <2>1. eval'.emails \ eval'.left \subseteq DOMAIN household.customers
        OBVIOUS
    <2> QED
        BY <2>1, EmailsLead
<1>3. Between(total, sites)'
    BY <1>2, BetweenKept
<1>4. Between(eval.total, Priority(eval.emails) \cup QuickBooks(eval.emails \ eval.left))'
    BY <1>1, <1>3 DEF Between
<1>5. total \in Int
    BY DEF Between
<1> QED
    BY <1>4, <1>5 DEF TotalFits, Widened

LEMMA TotalStep ==
    ASSUME EvalShape, GiftsFit, CacheFits, TotalFits, [PricingNext]_vars
    PROVE  TotalFits'
<1>1. GiftsFit' /\ household' = household /\ (~Start => Widened)
    BY GiftsStep
<1>2. DOMAIN eval = {"at", "emails", "linked", "left", "total", "eligible", "final", "offers",
                     "answered", "errors"}
    BY Fields
<1>3. /\ household.own \subseteq DOMAIN household.customers
      /\ household.spouse \subseteq DOMAIN household.customers
      /\ "account" \in DOMAIN household.customers
    BY DEF GiftsFit, Household
<1>4. CASE UNCHANGED eval /\ ~Start
    BY <1>1, <1>4, TotalStays
<1>5. CASE Start \/ ReadProfile \/ ReadSpouse
    <2>1. /\ eval.at \in {"none", "profile", "spouse"} /\ eval.left = {} /\ eval.total = 0
          /\ eval.emails \subseteq DOMAIN household.customers
        BY <1>5 DEF Start, ReadProfile, ReadSpouse, TotalFits
    <2>2. /\ eval'.left = {} /\ eval'.total = 0
          /\ eval'.at \in {"profile", "spouse", "customers", "refused"}
          /\ eval'.emails \subseteq DOMAIN household.customers
        <3>1. CASE Start
            BY <1>2, <2>1, <3>1 DEF Start, Goto
        <3>2. CASE ReadProfile
            <4>1. PICK own : own = collectProfileEmails(household.own, {"account"})
                OBVIOUS
            <4>2. own \subseteq DOMAIN household.customers
                BY <1>3, <4>1 DEF collectProfileEmails
            <4>3. /\ eval'.left = eval.left /\ eval'.total = eval.total
                  /\ eval'.at \in {"spouse", "customers", "refused"}
                  /\ eval'.emails \in {own, {"account"}, eval.emails}
                <5>1. CASE eval' = [eval EXCEPT !.at = IF household.linked THEN "spouse" ELSE "customers",
                                                !.linked = household.linked, !.emails = own]
                    BY <1>2, <5>1
                <5>2. CASE eval' = [eval EXCEPT !.at = "customers", !.emails = {"account"}]
                    BY <1>2, <5>2
                <5>3. CASE Refuse
                    BY <1>2, <5>3 DEF Refuse, Goto
                <5> QED
                    BY <3>2, <4>1, <5>1, <5>2, <5>3 DEF ReadProfile
            <4> QED
                BY <1>3, <2>1, <4>2, <4>3
        <3>3. CASE ReadSpouse
            BY <1>2, <1>3, <2>1, <3>3 DEF ReadSpouse, Refuse, Goto
        <3> QED
            BY <1>5, <3>1, <3>2, <3>3
    <2> QED
        BY <1>1, <2>2 DEF TotalFits
<1>6. CASE ReadCustomers
    <2>1. ~Start /\ eval.total = 0 /\ eval.emails \subseteq DOMAIN household.customers
        BY <1>6 DEF ReadCustomers, Start, TotalFits
    <2>2. /\ eval'.at = IF Priority(eval.emails) = {} THEN "quickbooks" ELSE "receivables"
          /\ eval'.left = eval.emails /\ eval'.emails = eval.emails /\ eval'.total = 0
        BY <1>2, <1>6, <2>1 DEF ReadCustomers
    <2>3. CASE Priority(eval.emails) = {}
        <3>1. Priority(eval'.emails) \cup QuickBooks(eval'.emails \ eval'.left) = {}
            BY <2>2, <2>3 DEF QuickBooks, Priority
        <3>2. Between(0, {})
            BY SumOfNone DEF Between
        <3> QED
            BY <1>1, <2>1, <2>2, <2>3, <3>1, <3>2, TotalIs
    <2>4. CASE Priority(eval.emails) # {}
        BY <1>1, <2>1, <2>2, <2>4 DEF TotalFits
    <2> QED
        BY <2>3, <2>4
<1>7. CASE ReadReceivables
    <2>1. /\ ~Start /\ eval.left = eval.emails
          /\ eval.emails \subseteq DOMAIN household.customers
        BY <1>7 DEF ReadReceivables, Start, TotalFits
    <2>2. PICK total, sites :
             total = SumSites(Priority(eval.emails), gifts) /\ sites = Priority(eval.emails)
        OBVIOUS
    <2>3. /\ eval'.at = "quickbooks" /\ eval'.left = eval.emails
          /\ eval'.emails = eval.emails /\ eval'.total = total
        BY <1>2, <1>7, <2>1, <2>2 DEF ReadReceivables, SumGroup
    <2>4. Between(total, sites)
        BY <2>1, <2>2, EmailsLead, SumIsBetween
    <2>5. sites = Priority(eval'.emails) \cup QuickBooks(eval'.emails \ eval'.left)
        BY <2>2, <2>3 DEF QuickBooks
    <2> QED
        BY <1>1, <2>1, <2>3, <2>4, <2>5, TotalIs
<1>8. CASE ReadQuickBooks
    <2>1. /\ ~Start /\ eval.left \subseteq eval.emails
          /\ eval.emails \subseteq DOMAIN household.customers
        BY <1>8 DEF ReadQuickBooks, Start, TotalFits
    <2>2. PICK e \in eval.left :
             eval' = [eval EXCEPT !.at = IF eval.left = {e} THEN "europe" ELSE "quickbooks",
                                  !.left = @ \ {e},
                                  !.total = @ + Answer(QuickBooks({e}), QuickBooks({e}))]
        BY <1>8 DEF ReadQuickBooks
    <2>3. PICK answer, total, sites :
             /\ answer = Answer(QuickBooks({e}), QuickBooks({e})) /\ total = eval.total
             /\ sites = Priority(eval.emails) \cup QuickBooks(eval.emails \ eval.left)
        OBVIOUS
    <2>4. /\ eval'.at = (IF eval.left = {e} THEN "europe" ELSE "quickbooks")
          /\ eval'.left = eval.left \ {e} /\ eval'.emails = eval.emails
          /\ eval'.total = total + answer
        BY <1>2, <2>2, <2>3
    <2>5. /\ sites \subseteq DOMAIN household.gifts
          /\ QuickBooks({e}) \subseteq DOMAIN household.gifts
          /\ sites \cap QuickBooks({e}) = {}
        <3>1. /\ {e} \subseteq eval.emails /\ {e} \subseteq DOMAIN household.customers
              /\ eval.emails \ eval.left \subseteq DOMAIN household.customers
            BY <2>1
        <3>2. Priority(eval.emails) \cap QuickBooks({e}) = {}
            BY <2>1, <3>1, EmailsLead
        <3>3. QuickBooks(eval.emails \ eval.left) \cap QuickBooks({e}) = {}
            BY <2>2 DEF QuickBooks
        <3> QED
            BY <2>1, <2>3, <3>1, <3>2, <3>3, EmailsLead
    <2>6. Between(total, sites) /\ Between(answer, QuickBooks({e}))
        <3>1. Between(total, sites)
            BY <1>8, <2>3 DEF ReadQuickBooks, TotalFits
        <3>2. Between(answer, QuickBooks({e}))
            BY <2>3, <2>5, AnswerFits
        <3> QED
            BY <3>1, <3>2
    <2>7. Between(total + answer, sites \cup QuickBooks({e}))
        BY <2>5, <2>6, BetweenSum
    <2>8. sites \cup QuickBooks({e}) =
          Priority(eval'.emails) \cup QuickBooks(eval'.emails \ eval'.left)
        <3>1. QuickBooks(eval.emails \ (eval.left \ {e})) =
              QuickBooks(eval.emails \ eval.left) \cup QuickBooks({e})
            BY <2>1, <2>2 DEF QuickBooks
        <3> QED
            BY <2>3, <2>4, <3>1
    <2>9. PICK sum, all : sum = total + answer /\ all = sites \cup QuickBooks({e})
        OBVIOUS
    <2> QED
        BY <1>1, <2>1, <2>4, <2>7, <2>8, <2>9, TotalIs
<1>9. CASE ReadEurope
    <2>1. ~Start /\ eval.emails \subseteq DOMAIN household.customers
        BY <1>9 DEF ReadEurope, Start, TotalFits
    <2>2. eval.total \in Int /\ Answer(Europe(eval.emails), Europe(eval.emails)) \in Int
        <3>1. Between(Answer(Europe(eval.emails), Europe(eval.emails)), Europe(eval.emails))
            BY <2>1, EmailsLead, AnswerFits
        <3> QED
            BY <3>1 DEF Between, TotalFits
    <2>3. /\ eval'.at = "hh_grants" /\ eval'.emails = eval.emails /\ eval'.left = eval.left
          /\ eval'.total = eval.total + Answer(Europe(eval.emails), Europe(eval.emails))
        BY <1>2, <1>9 DEF ReadEurope
    <2> QED
        BY <1>1, <2>2, <2>3, TotalOver DEF Judged
<1>10. CASE DonationsFail \/ ReadDiscount \/ ReadCoupons \/ RowsFail \/ Resolve
    <2>1. /\ eval'.emails = eval.emails /\ eval'.left = eval.left /\ eval'.total = eval.total
        BY <1>2, <1>10 DEF DonationsFail, ReadDiscount, ReadCoupons, RowsFail, Resolve, Goto
    <2>2. eval'.at \in Judged \cup {"refused"}
        BY <1>2, <1>10 DEF DonationsFail, ReadDiscount, ReadCoupons, RowsFail, Resolve, Goto,
                           NextStage, Judged, Discounted
    <2>3. eval.total \in Int
        BY DEF TotalFits
    <2> QED
        BY <1>1, <2>1, <2>2, <2>3, TotalOver
<1>11. Start \/ UNCHANGED eval \/ Evaluate
    BY DEF PricingNext, Donate, CouponChange, Cached, Administer, vars, pricingVars
<1> QED
    BY <1>4, <1>5, <1>6, <1>7, <1>8, <1>9, <1>10, <1>11 DEF Evaluate

LEMMA ThresholdIs ==
    ASSUME NEW linked
    PROVE  Threshold(linked) \in Nat
<1>1. 1 \in 1 .. 100
    OBVIOUS
<1>2. toNIS(Base) \in Nat
    BY <1>1, PercentIsPriced, NISIsNat
<1> QED
    BY <1>2 DEF Threshold

LEMMA BaseStays ==
    ASSUME household' = household
    PROVE  /\ Base' = Base
           /\ \A linked : Threshold(linked)' = Threshold(linked)
           /\ Exact' = Exact
           /\ \A pct : PercentOff(pct)' = PercentOff(pct)
<1>1. Base' = Base
    BY DEF Base
<1> QED
    BY <1>1 DEF Threshold, Exact, PercentOff

LEMMA CountedSites ==
    ASSUME GiftsFit, TotalFits
    PROVE  Counted \subseteq DOMAIN household.gifts
<1>1. eval.emails \subseteq DOMAIN household.customers
    BY DEF TotalFits
<1> QED
    BY <1>1, EmailsLead DEF Counted

LEMMA CountedStays ==
    ASSUME household' = household, eval'.emails = eval.emails
    PROVE  Counted' = Counted
    BY DEF Counted, Priority, QuickBooks, Europe

(* Once known it stands: the extremes only widen.                           *)
LEMMA VerdictStays ==
    ASSUME GiftsFit, GiftsFit', Widened, TotalFits, VerdictFits,
           eval'.emails = eval.emails, eval'.linked = eval.linked,
           eval'.eligible = eval.eligible,
           "donations" \in eval'.answered <=> "donations" \in eval.answered,
           eval'.at \notin Judged \cup {"refused"} => eval'.answered = {}
    PROVE  VerdictFits'
<1>1. PICK sites, linked : sites = Counted /\ linked = eval.linked
    OBVIOUS
<1>2. /\ sites = Counted' /\ sites \subseteq DOMAIN household.gifts
      /\ Threshold(linked)' = Threshold(linked) /\ Threshold(linked) \in Nat
      /\ Exact' = Exact
    BY <1>1, CountedSites, CountedStays, BaseStays, ThresholdIs DEF Widened
<1>3. /\ SumSites(sites, low)' =< SumSites(sites, low)
      /\ SumSites(sites, high) =< SumSites(sites, high)'
      /\ SumSites(sites, low) \in Int /\ SumSites(sites, high) \in Int
      /\ SumSites(sites, low)' \in Int /\ SumSites(sites, high)' \in Int
    BY <1>2, SumsWiden
<1>4. "donations" \in eval.answered =>
         IF eval.eligible THEN SumSites(sites, high) >= Threshold(linked)
         ELSE Short(SumSites(sites, low), linked)
    BY <1>1 DEF VerdictFits, EligibleEarned
<1>5. "donations" \in eval'.answered =>
         IF eval'.eligible THEN SumSites(sites, high)' >= Threshold(linked)'
         ELSE Short(SumSites(sites, low), linked)'
    BY <1>2, <1>3, <1>4 DEF Short
<1>6. EligibleEarned'
    BY <1>1, <1>2, <1>5 DEF EligibleEarned
<1> QED
    BY <1>6 DEF VerdictFits

LEMMA VerdictStep ==
    ASSUME EvalShape, GiftsFit, CacheFits, TotalFits, VerdictFits, [PricingNext]_vars
    PROVE  VerdictFits'
<1>1. GiftsFit' /\ household' = household /\ (~Start => Widened)
    BY GiftsStep
<1>2. DOMAIN eval = {"at", "emails", "linked", "left", "total", "eligible", "final", "offers",
                     "answered", "errors"}
    BY Fields
<1>3. CASE UNCHANGED eval /\ ~Start
    BY <1>1, <1>3, VerdictStays DEF VerdictFits
<1>4. CASE Start \/ ReadProfile \/ ReadSpouse \/ ReadCustomers \/ ReadReceivables
           \/ ReadQuickBooks \/ DonationsFail
    <2>1. eval.answered = {}
        BY <1>4 DEF VerdictFits, Judged, Start, ReadProfile, ReadSpouse, ReadCustomers,
                    ReadReceivables, ReadQuickBooks, DonationsFail
    <2>2. eval'.answered = eval.answered /\ eval'.eligible = eval.eligible
        <3>1. CASE DonationsFail
            BY <1>2, <3>1 DEF DonationsFail
        <3>2. CASE ~DonationsFail
            BY <1>4, <3>2, EarlyStages
        <3> QED
            BY <3>1, <3>2
    <2>3. ~eval.eligible
        BY <2>1 DEF VerdictFits
    <2> QED
        BY <2>1, <2>2, <2>3 DEF VerdictFits, EligibleEarned
<1>5. CASE ReadEurope
    <2>1. /\ ~Start /\ eval.emails \subseteq DOMAIN household.customers
          /\ eval.at = "europe" /\ eval.left = {}
        BY <1>5 DEF ReadEurope, Start, TotalFits
    <2>2. PICK answer, total, first, sites, linked :
             /\ answer = Answer(Europe(eval.emails), Europe(eval.emails))
             /\ total = eval.total + answer /\ sites = Counted /\ linked = eval.linked
             /\ first = Priority(eval.emails) \cup QuickBooks(eval.emails)
        OBVIOUS
    <2>3. /\ eval'.at = "hh_grants"
          /\ IF eval'.eligible THEN total >= Threshold(linked) ELSE Short(total, linked)
          /\ eval'.answered = {"donations"} /\ eval'.emails = eval.emails
          /\ eval'.linked = linked
        BY <1>2, <1>5, <2>2 DEF ReadEurope
    <2>4. Between(total, sites)
        <3>1. first \subseteq DOMAIN household.gifts
              /\ Europe(eval.emails) \subseteq DOMAIN household.gifts
              /\ first \cap Europe(eval.emails) = {}
            BY <2>1, <2>2, EmailsLead
        <3>2. Between(answer, Europe(eval.emails))
            BY <2>2, <3>1, AnswerFits
        <3>3. eval.emails \ eval.left = eval.emails
            BY <2>1
        <3>4. Between(eval.total, first)
            BY <2>1, <2>2, <3>3 DEF TotalFits
        <3>5. sites = first \cup Europe(eval.emails)
            BY <2>2 DEF Counted
        <3> QED
            BY <2>2, <3>1, <3>2, <3>4, <3>5, BetweenSum
    <2>5. /\ sites = Counted' /\ sites \subseteq DOMAIN household.gifts
          /\ Threshold(linked)' = Threshold(linked) /\ Threshold(linked) \in Nat
          /\ Exact' = Exact
        BY <1>1, <2>2, <2>3, CountedSites, CountedStays, BaseStays, ThresholdIs
    <2>6. Between(total, sites)'
        BY <1>1, <2>1, <2>4, <2>5, BetweenKept
    <2>7. /\ total \in Int
          /\ SumSites(sites, low)' =< total /\ total =< SumSites(sites, high)'
          /\ SumSites(sites, low)' \in Int /\ SumSites(sites, high)' \in Int
        BY <1>1, <2>1, <2>5, <2>6, SumsWiden DEF Between
    <2>8. IF eval'.eligible THEN SumSites(sites, high)' >= Threshold(linked)'
          ELSE Short(SumSites(sites, low), linked)'
        <3>1. PICK lows, highs, least : /\ lows = SumSites(sites, low)' /\ highs = SumSites(sites, high)'
                                        /\ least = Threshold(linked)
            OBVIOUS
        <3>2. /\ total >= least => highs >= least
              /\ total < least => lows < least
              /\ total =< least => lows =< least
            BY <2>5, <2>7, <3>1
        <3> QED
            BY <2>3, <2>5, <3>1, <3>2 DEF Short
    <2>9. EligibleEarned'
        BY <2>3, <2>5, <2>8 DEF EligibleEarned
    <2> QED
        BY <2>3, <2>9 DEF VerdictFits, Judged
<1>6. CASE ReadDiscount \/ ReadCoupons \/ RowsFail \/ Resolve
    <2>1. /\ eval'.emails = eval.emails /\ eval'.linked = eval.linked
          /\ eval'.eligible = eval.eligible /\ ~Start
        BY <1>2, <1>6 DEF ReadDiscount, ReadCoupons, RowsFail, Resolve, Goto, Start, Discounted
    <2>2. eval'.at \in Judged \cup {"refused"}
        BY <1>2, <1>6 DEF ReadDiscount, ReadCoupons, RowsFail, Resolve, Goto, NextStage, Judged,
                          Discounted
    <2>3. "donations" \in eval'.answered <=> "donations" \in eval.answered
        <3>1. CASE ReadCoupons
            <4> DEFINE bad == \E b \in coupons : Malformed(b)
            <4>1. PICK final, offers :
                     eval' = [eval EXCEPT !.at = "resolve", !.final = final, !.offers = @ \cup offers,
                                          !.errors = IF bad THEN @ \cup {"coupons"} ELSE @,
                                          !.answered = IF bad THEN @ ELSE @ \cup {"coupons"}]
                BY <3>1 DEF ReadCoupons
            <4> HIDE DEF bad
            <4> QED
                BY <1>2, <4>1
        <3>2. CASE ReadDiscount
            <4>1. PICK t \in Discounted : \E at, offers, final :
                     eval' = [eval EXCEPT !.at = at, !.answered = @ \cup {t}, !.offers = offers,
                                          !.final = final]
                BY <3>2 DEF ReadDiscount
            <4> QED
                BY <1>2, <4>1 DEF Discounted
        <3>3. CASE RowsFail \/ Resolve
            BY <1>2, <3>3 DEF RowsFail, Resolve, Goto
        <3> QED
            BY <1>6, <3>1, <3>2, <3>3
    <2> QED
        BY <1>1, <2>1, <2>2, <2>3, VerdictStays
<1>7. Start \/ UNCHANGED eval \/ Evaluate
    BY DEF PricingNext, Donate, CouponChange, Cached, Administer, vars, pricingVars
<1> QED
    BY <1>3, <1>4, <1>5, <1>6, <1>7 DEF Evaluate

LEMMA MinIs ==
    ASSUME NEW N, N \subseteq Nat, N # {}
    PROVE  Min(N) \in N /\ \A k \in N : Min(N) =< k
<1>1. \E m \in N : \A k \in N : m =< k
    BY LeastNumber
<1> QED
    BY <1>1 DEF Min

LEMMA OffersArePriced ==
    ASSUME DiscountsAssumption, PricingAssumption, DiscountsInv, coupons \subseteq CouponBenefits
    PROVE  CheapestOffer \in Nat /\ \A p \in Offers : Priced(p) /\ CheapestOffer =< toNIS(p)
<1>1. \A p \in Offers : Priced(p)
    <2>1. 1 \in 1 .. 100 /\ Priced(Base)
        BY PercentIsPriced
    <2>2. \A t \in Discounted : \A i \in Active(t) : Priced(BenefitPrice(rows[t][i].benefit))
        <3>1. \A t \in Discounted : Active(t) \subseteq DOMAIN rows[t]
            BY DEF Active
        <3> QED
            BY <3>1, RowsArePriced
    <2>3. \A b \in coupons : ~Malformed(b) => Priced(BenefitPrice(b))
        <3>1. \A b \in coupons : ~Malformed(b) => Benefit(b)
            BY DEF PricingAssumption
        <3> QED
            BY <3>1, BenefitIsPriced
    <2>4. ASSUME NEW p \in Offers
          PROVE  \/ p = Base
                 \/ \E t \in Discounted : \E i \in Active(t) : p = BenefitPrice(rows[t][i].benefit)
                 \/ \E b \in coupons : ~Malformed(b) /\ p = BenefitPrice(b)
        <3>1. PICK ofRows, ofCoupons :
                 /\ ofRows = {{BenefitPrice(rows[t][i].benefit) : i \in Active(t)} : t \in Discounted}
                 /\ ofCoupons = {BenefitPrice(b) : b \in {c \in coupons : ~Malformed(c)}}
            OBVIOUS
        <3>2. Offers = {Base} \cup ofCoupons \cup UNION ofRows
            BY <3>1 DEF Offers
        <3>3. CASE p \in UNION ofRows
            <4>1. PICK some \in ofRows : p \in some
                BY <3>3
            <4>2. PICK t \in Discounted : some = {BenefitPrice(rows[t][i].benefit) : i \in Active(t)}
                BY <3>1
            <4> QED
                BY <4>1, <4>2
        <3>4. CASE p \in ofCoupons
            BY <3>1, <3>4
        <3>5. p = Base \/ p \in UNION ofRows \/ p \in ofCoupons
            BY <3>2
        <3> QED
            BY <3>3, <3>4, <3>5, Zenon
    <2> QED
        BY <2>1, <2>2, <2>3, <2>4
<1>2. PICK amounts : amounts = {toNIS(p) : p \in Offers}
    OBVIOUS
<1>3. amounts \subseteq Nat /\ Base \in Offers
    BY <1>1, <1>2, NISIsNat DEF Offers
<1>4. toNIS(Base) \in amounts
    BY <1>2, <1>3
<1>5. Min(amounts) \in amounts /\ \A k \in amounts : Min(amounts) =< k
    BY <1>3, <1>4, MinIs
<1>6. CheapestOffer = Min(amounts)
    BY <1>2 DEF CheapestOffer
<1> QED
    BY <1>1, <1>2, <1>3, <1>5, <1>6

LEMMA PricedWhenFit ==
    DiscountsInv /\ coupons \subseteq CouponBenefits => CheapestOffer \in Nat
    BY DiscountsAssumption, PricingAssumption, OffersArePriced

LEMMA PricedWhenFitNext ==
    (DiscountsInv /\ coupons \subseteq CouponBenefits => CheapestOffer \in Nat)'
    BY PricedWhenFit, PTL

LEMMA CheapestStays ==
    ASSUME UNCHANGED vars
    PROVE  CheapestOffer' = CheapestOffer
<1>1. UNCHANGED <<today, rows, household, coupons>>
    BY DEF vars, pricingVars, discountVars
<1>2. Base' = Base /\ \A b : BenefitPrice(b)' = BenefitPrice(b)
    BY <1>1, BaseStays DEF BenefitPrice
<1>3. \A t : Active(t)' = Active(t)
    BY <1>1 DEF Active
<1>4. UNION {{BenefitPrice(rows[t][i].benefit) : i \in Active(t)} : t \in Discounted}'
      = UNION {{BenefitPrice(rows[t][i].benefit) : i \in Active(t)} : t \in Discounted}
    BY <1>1, <1>2, <1>3
<1>5. Offers' = Offers
    BY <1>1, <1>2, <1>4 DEF Offers
<1> QED
    BY <1>5 DEF CheapestOffer

(* The cheapest offer since the evaluation began can only get cheaper.      *)
CheapestGoes ==
    /\ cheapest' \in Nat
    /\ eval'.at # "none" => cheapest' =< CheapestOffer'
    /\ eval.at # "none" => cheapest' =< cheapest

LEMMA CheapestStep ==
    ASSUME PricingInv, PricingInv', OffersFit, [PricingNext]_vars
    PROVE  CheapestGoes
<1>1. CheapestOffer' \in Nat
    BY PricedWhenFitNext DEF PricingInv
<1>2. cheapest \in Nat /\ (eval.at # "none" => cheapest =< CheapestOffer)
    BY DEF OffersFit
<1>3. CASE UNCHANGED vars
    BY <1>2, <1>3, CheapestStays DEF CheapestGoes, vars, pricingVars
<1>4. CASE PricingNext
    <2>1. PICK c : c = CheapestOffer'
        OBVIOUS
    <2>2. cheapest' = IF eval.at = "none" THEN c ELSE Min({cheapest, c})
        BY <1>4, <2>1 DEF PricingNext
    <2>3. Min({cheapest, c}) \in {cheapest, c} /\ \A k \in {cheapest, c} : Min({cheapest, c}) =< k
        BY <1>1, <1>2, <2>1, MinIs
    <2>4. CASE eval.at = "none"
        BY <1>1, <2>1, <2>2, <2>4 DEF CheapestGoes
    <2>5. CASE eval.at # "none"
        BY <1>1, <1>2, <2>1, <2>2, <2>3, <2>5 DEF CheapestGoes
    <2> QED
        BY <2>4, <2>5
<1> QED
    BY <1>3, <1>4

(* What was on sale keeps having been.                                      *)
LEMMA StillOnSale ==
    ASSUME OffersFit, CheapestGoes, eval.at # "none", household' = household,
           eval.eligible => eval'.eligible, NEW p, Priced(p), OnSale(p)
    PROVE  OnSale(p)'
<1>1. PercentOff(DonationsDiscountAmtPct)' = PercentOff(DonationsDiscountAmtPct)
    BY BaseStays DEF DonationsDiscountAmtPct
<1>2. toNIS(p) \in Nat /\ cheapest \in Nat /\ cheapest' \in Nat /\ cheapest' =< cheapest
    BY NISIsNat DEF OffersFit, CheapestGoes
<1> QED
    BY <1>1, <1>2 DEF OnSale

(* More offers are read, among those of the moment.                         *)
LEMMA OffersGrow ==
    ASSUME DiscountsAssumption, PricingAssumption, PricingInv, OffersFit, CheapestGoes,
           household' = household, eval.at \in Judged, eval'.eligible = eval.eligible,
           eval'.at \in Judged \cup {"refused"},
           NEW new, new \subseteq Offers, eval'.offers = eval.offers \cup new,
           eval'.final \in eval'.offers
    PROVE  OffersFit'
<1>1. eval.at # "none" /\ eval'.at # "none"
    BY DEF Judged
<1>2. ASSUME NEW p \in eval.offers
      PROVE  OnSale(p)'
    <2>1. Priced(p) /\ OnSale(p)
        BY DEF PricingInv, LeastSoFar, Least, OffersFit
    <2> QED
        BY <1>1, <2>1, StillOnSale
<1>3. ASSUME NEW p \in new
      PROVE  OnSale(p)'
    <2>1. Priced(p) /\ CheapestOffer =< toNIS(p) /\ CheapestOffer \in Nat
        BY OffersArePriced DEF PricingInv
    <2>2. toNIS(p) \in Nat /\ cheapest \in Nat /\ cheapest =< CheapestOffer
        BY <1>1, <2>1, NISIsNat DEF OffersFit
    <2>3. OnSale(p)
        BY <2>1, <2>2 DEF OnSale
    <2> QED
        BY <1>1, <2>1, <2>3, StillOnSale
<1>4. \A p \in eval'.offers : OnSale(p)'
    BY <1>2, <1>3
<1> QED
    BY <1>1, <1>4 DEF OffersFit, CheapestGoes

(* No offer is read.                                                        *)
LEMMA OffersStay ==
    ASSUME PricingInv, OffersFit, CheapestGoes, household' = household,
           eval'.offers = eval.offers, eval'.final = eval.final, eval'.eligible = eval.eligible,
           eval.at \in Judged \cup {"refused"} => eval'.at \in Judged \cup {"refused"},
           eval'.at \in Judged => eval.at \in Judged,
           eval.at = "refused" => UNCHANGED vars
    PROVE  OffersFit'
<1>1. CASE eval.at \notin Judged \cup {"refused"}
    BY <1>1 DEF OffersFit, CheapestGoes
<1>2. CASE eval.at \in Judged
    <2>1. ASSUME NEW p \in eval.offers
          PROVE  OnSale(p)'
        <3>1. Priced(p) /\ OnSale(p) /\ eval.at # "none"
            BY <1>2 DEF PricingInv, LeastSoFar, Least, OffersFit, Judged
        <3> QED
            BY <3>1, StillOnSale
    <2> QED
        BY <1>2, <2>1 DEF OffersFit, CheapestGoes
<1>3. CASE eval.at = "refused"
    <2>1. UNCHANGED <<eval, cheapest>> /\ \A p : OnSale(p)' = OnSale(p)
        <3>1. UNCHANGED <<eval, cheapest>>
            BY <1>3 DEF vars, pricingVars
        <3>2. PercentOff(DonationsDiscountAmtPct)' = PercentOff(DonationsDiscountAmtPct)
            BY BaseStays DEF DonationsDiscountAmtPct
        <3> QED
            BY <3>1, <3>2 DEF OnSale
    <2> QED
        BY <1>3, <2>1 DEF OffersFit, CheapestGoes
<1> QED
    BY <1>1, <1>2, <1>3

LEMMA OffersStep ==
    ASSUME DiscountsAssumption, PricingAssumption, PricingInv, PricingInv', VerdictFits,
           OffersFit, CheapestGoes, household' = household, [PricingNext]_vars
    PROVE  OffersFit'
<1>1. DOMAIN eval = {"at", "emails", "linked", "left", "total", "eligible", "final", "offers",
                     "answered", "errors"}
    BY Fields DEF PricingInv
<1>2. CASE UNCHANGED vars
    <2>1. UNCHANGED eval
        BY <1>2 DEF vars, pricingVars
    <2> QED
        BY <1>2, <2>1, OffersStay
<1>3. CASE PricingNext /\ UNCHANGED eval
    <2>1. eval.at # "refused"
        BY <1>3 DEF PricingNext, Over
    <2> QED
        BY <1>3, <2>1, OffersStay
<1>4. CASE Start \/ ReadProfile \/ ReadSpouse \/ ReadCustomers \/ ReadReceivables
           \/ ReadQuickBooks \/ RowsFail \/ Resolve
    <2>1. CASE RowsFail \/ Resolve
        <3>1. /\ eval.at \in Judged \ {"priced"} /\ eval.at # "refused"
              /\ eval'.at \in Judged \cup {"refused"}
              /\ eval'.offers = eval.offers /\ eval'.final = eval.final
              /\ eval'.eligible = eval.eligible
            BY <1>1, <2>1 DEF RowsFail, Resolve, Goto, NextStage, Judged
        <3> QED
            BY <3>1, OffersStay
    <2>2. CASE ~(RowsFail \/ Resolve)
        <3>1. eval.at \notin Judged \cup {"refused"}
            BY <1>4, <2>2 DEF Judged, Start, ReadProfile, ReadSpouse, ReadCustomers,
                              ReadReceivables, ReadQuickBooks
        <3>2. /\ eval'.offers = eval.offers /\ eval'.final = eval.final
              /\ eval'.eligible = eval.eligible /\ eval'.at \notin Judged
            BY <1>4, <2>2, EarlyStages DEF Judged, PricingInv
        <3> QED
            BY <3>1, <3>2, OffersStay
    <2> QED
        BY <2>1, <2>2
<1>5. CASE ReadEurope \/ DonationsFail
    <2>1. eval.at # "none" /\ ~eval.eligible
        BY <1>5 DEF ReadEurope, DonationsFail, VerdictFits, Judged
    <2>2. PICK price : price = PercentOff(DonationsDiscountAmtPct)
        OBVIOUS
    <2>3. PICK final \in {Base, price} :
             /\ eval'.final = final /\ eval'.offers = {Base, final}
             /\ final = Base \/ eval'.eligible
        <3>1. CASE ReadEurope
            <4>1. PICK total, eligible :
                     eval' = [eval EXCEPT !.at = "hh_grants", !.total = total, !.eligible = eligible,
                                            !.answered = {"donations"},
                                            !.final = IF eligible THEN price ELSE Base,
                                            !.offers = {Base, IF eligible THEN price ELSE Base}]
                BY <2>2, <3>1 DEF ReadEurope
            <4>2. /\ eval'.final = (IF eligible THEN price ELSE Base)
                  /\ eval'.offers = {Base, IF eligible THEN price ELSE Base}
                  /\ eval'.eligible = eligible
                BY <1>1, <4>1
            <4>3. CASE eligible
                BY <4>2, <4>3
            <4>4. CASE ~eligible
                BY <4>2, <4>4
            <4> QED
                BY <4>3, <4>4
        <3>2. CASE DonationsFail
            BY <1>1, <3>2 DEF DonationsFail
        <3> QED
            BY <1>5, <3>1, <3>2
    <2>4. eval'.at = "hh_grants"
        BY <1>1, <1>5 DEF ReadEurope, DonationsFail
    <2>5. OnSale(Base)'
        <3>1. PICK base : base = Base
            OBVIOUS
        <3>2. Base \in Offers /\ 1 \in 1 .. 100
            BY DEF Offers
        <3>3. Priced(base) /\ CheapestOffer =< toNIS(base) /\ CheapestOffer \in Nat
            BY <3>1, <3>2, OffersArePriced DEF PricingInv
        <3>4. toNIS(base) \in Nat /\ cheapest \in Nat /\ cheapest =< CheapestOffer
              /\ cheapest' \in Nat /\ cheapest' =< cheapest
            BY <2>1, <3>3, NISIsNat DEF OffersFit, CheapestGoes
        <3>5. cheapest' =< toNIS(base) /\ Base' = base
            BY <3>1, <3>3, <3>4, BaseStays
        <3> QED
            BY <3>5 DEF OnSale
    <2>6. final # Base => OnSale(final)'
        <3>1. PercentOff(DonationsDiscountAmtPct)' = PercentOff(DonationsDiscountAmtPct)
            BY BaseStays DEF DonationsDiscountAmtPct
        <3> QED
            BY <2>2, <2>3, <3>1 DEF OnSale
    <2>7. Base' = Base
        BY BaseStays
    <2>8. \A p \in {Base, final} : OnSale(p)'
        BY <2>5, <2>6, <2>7 DEF OnSale
    <2> QED
        BY <2>3, <2>4, <2>8 DEF OffersFit, CheapestGoes, Judged
<1>6. CASE ReadDiscount
    <2>1. PICK t \in Discounted : t = eval.at
        BY <1>6 DEF ReadDiscount
    <2> DEFINE new == {BenefitPrice(rows[eval.at][i].benefit) : i \in GetActive(eval.at)}
    <2>2. new = {BenefitPrice(rows[t][i].benefit) : i \in GetActive(t)}
        BY <2>1
    <2>3. PICK final \in IF new = {} THEN {eval.final}
                          ELSE UNION {applyDiscount(p, eval.final) : p \in new} :
             eval' = [eval EXCEPT !.at = NextStage(eval.at), !.answered = @ \cup {eval.at},
                                  !.offers = @ \cup new, !.final = final]
        BY <1>6 DEF ReadDiscount
    <2> HIDE DEF new
    <2>4. eval' = [eval EXCEPT !.at = NextStage(t), !.answered = @ \cup {t},
                               !.offers = @ \cup new, !.final = final]
        BY <2>1, <2>3
    <2>5. /\ eval'.at = NextStage(t) /\ eval'.offers = eval.offers \cup new
          /\ eval'.final = final /\ eval'.eligible = eval.eligible
        BY <1>1, <2>4
    <2>6. eval.at \in Judged /\ eval'.at \in Judged
        BY <2>1, <2>5 DEF Discounted, NextStage, Judged
    <2>7. new \subseteq Offers
        <3>1. GetActive(t) \subseteq Active(t)
            BY DEF GetActive
        <3>2. new \subseteq {BenefitPrice(rows[t][i].benefit) : i \in Active(t)}
            BY <2>2, <3>1
        <3>3. PICK ofRows : ofRows = {{BenefitPrice(rows[u][i].benefit) : i \in Active(u)} : u \in Discounted}
            OBVIOUS
        <3>4. {BenefitPrice(rows[t][i].benefit) : i \in Active(t)} \in ofRows
            BY <3>3
        <3>5. UNION ofRows \subseteq Offers
            BY <3>3 DEF Offers
        <3> QED
            BY <3>2, <3>4, <3>5
    <2>8. final \in eval.offers \cup new
        <3>1. eval.final \in eval.offers
            BY <2>6 DEF OffersFit
        <3> QED
            BY <2>3, <3>1 DEF applyDiscount
    <2> QED
        BY <2>5, <2>6, <2>7, <2>8, OffersGrow
<1>7. CASE ReadCoupons
    <2> DEFINE new == {BenefitPrice(b) : b \in {c \in coupons : ~Malformed(c)}}
               best == {p \in new : \A q \in new : toNIS(p) =< toNIS(q)}
               bad == \E b \in coupons : Malformed(b)
    <2>1. PICK final \in IF best = {} THEN {eval.final}
                         ELSE UNION {applyDiscount(p, eval.final) : p \in best} :
             eval' = [eval EXCEPT !.at = "resolve", !.final = final, !.offers = @ \cup new,
                                  !.errors = IF bad THEN @ \cup {"coupons"} ELSE @,
                                  !.answered = IF bad THEN @ ELSE @ \cup {"coupons"}]
        BY <1>7 DEF ReadCoupons
    <2>2. new \subseteq Offers /\ best \subseteq new
        BY DEF Offers
    <2> HIDE DEF new, best, bad
    <2>3. /\ eval'.at = "resolve" /\ eval'.offers = eval.offers \cup new
          /\ eval'.final = final /\ eval'.eligible = eval.eligible
        BY <1>1, <2>1
    <2>4. eval.at \in Judged /\ eval'.at \in Judged
        BY <1>7, <2>3 DEF ReadCoupons, Judged
    <2>5. final \in eval.offers \cup new
        <3>1. eval.final \in eval.offers
            BY <2>4 DEF OffersFit
        <3> QED
            BY <2>1, <2>2, <3>1 DEF applyDiscount
    <2> QED
        BY <2>2, <2>3, <2>4, <2>5, OffersGrow
<1>8. (PricingNext /\ UNCHANGED eval) \/ Evaluate \/ UNCHANGED vars
    BY DEF PricingNext, Donate, CouponChange, Cached, Administer
<1> QED
    BY <1>2, <1>3, <1>4, <1>5, <1>6, <1>7, <1>8 DEF Evaluate

LEMMA FinalStep ==
    ASSUME EvalShape, LeastSoFar', eval.errors \subseteq Sources, Priced(eval.final),
           [PricingNext]_vars
    PROVE  eval'.errors \subseteq Sources /\ Priced(eval'.final)
<1>1. DOMAIN eval = {"at", "emails", "linked", "left", "total", "eligible", "final", "offers",
                     "answered", "errors"}
    BY Fields
<1>2. CASE UNCHANGED eval
    BY <1>2
<1>3. CASE Start \/ ReadProfile \/ ReadSpouse \/ ReadCustomers \/ ReadReceivables
           \/ ReadQuickBooks
    BY <1>3, EarlyStages
<1>4. CASE Resolve
    BY <1>1, <1>4 DEF Resolve, Goto
<1>5. CASE ReadEurope \/ DonationsFail \/ ReadDiscount \/ ReadCoupons \/ RowsFail
    <2>1. eval'.at \in Judged
        BY <1>1, <1>5 DEF ReadEurope, DonationsFail, ReadDiscount, ReadCoupons, RowsFail,
                          NextStage, Judged, Discounted
    <2>2. Priced(eval'.final)
        BY <2>1 DEF LeastSoFar, Least
    <2>3. eval'.errors \subseteq Sources
        <3>1. CASE ReadCoupons
            <4> DEFINE bad == \E b \in coupons : Malformed(b)
            <4>1. PICK final, offers :
                     eval' = [eval EXCEPT !.at = "resolve", !.final = final, !.offers = @ \cup offers,
                                          !.errors = IF bad THEN @ \cup {"coupons"} ELSE @,
                                          !.answered = IF bad THEN @ ELSE @ \cup {"coupons"}]
                BY <3>1 DEF ReadCoupons
            <4> HIDE DEF bad
            <4>2. eval'.errors \in {eval.errors, eval.errors \cup {"coupons"}}
                BY <1>1, <4>1
            <4> QED
                BY <4>2 DEF Sources
        <3>2. CASE ReadEurope \/ ReadDiscount
            BY <1>1, <3>2 DEF ReadEurope, ReadDiscount
        <3>3. CASE DonationsFail
            BY <1>1, <3>3 DEF DonationsFail, Sources
        <3>4. CASE RowsFail
            <4>1. PICK stage : stage = eval.at
                OBVIOUS
            <4>2. stage \in Sources /\ eval'.errors = eval.errors \cup {stage}
                BY <1>1, <3>4, <4>1 DEF RowsFail, Sources
            <4> QED
                BY <4>2
        <3> QED
            BY <1>5, <3>1, <3>2, <3>3, <3>4
    <2> QED
        BY <2>2, <2>3
<1>6. UNCHANGED eval \/ Evaluate
    BY DEF PricingNext, Donate, CouponChange, Cached, Administer, vars, pricingVars
<1> QED
    BY <1>2, <1>3, <1>4, <1>5, <1>6 DEF Evaluate

LEMMA SumsStart ==
    ASSUME PricingAssumption, DiscountsAssumption, PricingInit
    PROVE  SumsInv
<1>1. Household(household)
    <2>1. mix \in Mixes
        BY DEF PricingInit, DiscountsInit
    <2> QED
        BY <2>1 DEF PricingInit, PricingAssumption
<1>2. GiftsFit
    <2>1. /\ gifts = household.gifts /\ high = gifts /\ low = gifts
          /\ gifts \in [DOMAIN household.gifts -> Int]
        BY <1>1 DEF PricingInit, Household
    <2>2. \A site \in DOMAIN gifts : gifts[site] =< gifts[site]
        BY <2>1
    <2> QED
        BY <1>1, <2>1, <2>2 DEF GiftsFit
<1>3. CacheFits
    BY DEF PricingInit, CacheFits
<1>4. /\ eval.at = "none" /\ eval.emails = {} /\ eval.left = {} /\ eval.total = 0
      /\ eval.eligible = FALSE /\ eval.final.amount = 0 /\ eval.offers = {}
      /\ eval.answered = {} /\ eval.errors = {} /\ cheapest = 0
    BY DEF PricingInit, IdleEval
<1> QED
    BY <1>2, <1>3, <1>4 DEF SumsInv, TotalFits, VerdictFits, EligibleEarned, OffersFit, Judged, Priced

LEMMA SumsStep ==
    ASSUME DiscountsAssumption, PricingAssumption, PricingInv, PricingInv', SumsInv,
           [PricingNext]_vars
    PROVE  SumsInv'
<1>1. EvalShape /\ LeastSoFar'
    BY DEF PricingInv
<1>2. /\ GiftsFit /\ CacheFits /\ TotalFits /\ VerdictFits /\ OffersFit
      /\ eval.errors \subseteq Sources /\ Priced(eval.final)
    BY DEF SumsInv
<1>3. GiftsFit' /\ household' = household
    BY <1>2, GiftsStep
<1>4. CacheFits'
    BY <1>2, CacheStep
<1>5. TotalFits'
    BY <1>1, <1>2, TotalStep
<1>6. VerdictFits'
    BY <1>1, <1>2, VerdictStep
<1>7. OffersFit'
    BY <1>2, <1>3, CheapestStep, OffersStep
<1>8. eval'.errors \subseteq Sources /\ Priced(eval'.final)
    BY <1>1, <1>2, FinalStep
<1>9. Priced(eval.final)'
    BY <1>8 DEF Priced
<1> QED
    BY <1>3, <1>4, <1>5, <1>6, <1>7, <1>8, <1>9 DEF SumsInv

LEMMA SumsInvariant ==
    PricingSpec => [](PricingInv /\ SumsInv)
<1>1. PricingInit => PricingInv /\ SumsInv
    BY DiscountsAssumption, PricingAssumption, PricingStart, SumsStart
<1>2. PricingInv /\ SumsInv /\ [PricingNext]_vars => (PricingInv /\ SumsInv)'
    BY DiscountsAssumption, PricingAssumption, PricingStep, SumsStep
<1> QED
    BY <1>1, <1>2, PTL DEF PricingSpec

-----------------------------------------------------------------------------

(* The rows the handlers write, and what their transactions hold of them,   *)
(* are well-formed, and each table keeps within its ids.                    *)
THEOREM DiscountsTypeCorrect == PricingSpec => []DiscountsTypeOK
<1>1. PricingInv => DiscountsTypeOK
    BY DEF PricingInv, DiscountsInv
<1> QED
    BY <1>1, PricingInvariant, PTL

(* ConcludeHHRequest updates a request and inserts its grant in one         *)
(* transaction: however approvals, denials and newer requests interleave,   *)
(* an approved request has exactly one grant and any other has none.        *)
THEOREM GrantsAndApprovals == PricingSpec => []GrantsMatchRequests
<1>1. PricingInv => GrantsMatchRequests
    BY DiscountsAssumption, GrantsMatch DEF PricingInv
<1> QED
    BY <1>1, PricingInvariant, PTL

(* Each handler ends or deletes the older rows before it inserts its own:   *)
(* two pending requests, or two discounts of a kind that hold today, only   *)
(* come of writers that could not see each other's rows, or of a discount   *)
(* that had not started when the later writer began.                        *)
THEOREM OneDiscountHolds == PricingSpec => []OneHolds
<1>1. PricingInv => OneHolds
    BY DiscountsAssumption, OneHoldsNow DEF PricingInv
<1> QED
    BY <1>1, PricingInvariant, PTL

(* EvaluateV2Price keeps the lower price at each source, compared in NIS:   *)
(* what it resolves to is the least of everything it read, whatever the     *)
(* currencies and however rows and coupons change between the reads.        *)
THEOREM LeastPriceCharged == PricingSpec => []PriceIsCheapest
<1>1. PricingInv => PriceIsCheapest
    BY DEF PricingInv, LeastSoFar, Least, PriceIsCheapest, Judged
<1> QED
    BY <1>1, PricingInvariant, PTL

(* A failed source leaves an error behind and HasDiscountErrors refuses the *)
(* price: one that is charged had an answer of all four sources.            *)
THEOREM PricedFromAllSources == PricingSpec => []NoPriceWhenUnknown
<1>1. PricingInv => NoPriceWhenUnknown
    BY DEF PricingInv, AnsweredOrFailed, NoPriceWhenUnknown, Judged, Asked
<1> QED
    BY <1>1, PricingInvariant, PTL

(* Every reachable state of an evaluation is well typed, for any members,   *)
(* households, gifts and answers of the accounting service.                 *)
THEOREM PricingTypeCorrect == PricingSpec => []TypeOK
<1>1. PricingInv /\ SumsInv => TypeOK
    BY DEF PricingInv, SumsInv, DiscountsInv, GiftsFit, CacheFits, Between, AnsweredOrFailed,
           TotalFits, OffersFit, Priced, TypeOK
<1> QED
    BY <1>1, SumsInvariant, PTL

(* fetchDonationSums adds up Priority, QuickBooks and Europe, read one      *)
(* after the other and some out of the client's cache: each donor record    *)
(* counts once, so who is found eligible gave enough at the records' best,  *)
(* and who is not did not at their worst, or gave just the threshold, which *)
(* rounding may find less; for any emails and shared customers.             *)
THEOREM DonationsCountedOnce == PricingSpec => []EligibleEarned
<1>1. PricingInv /\ SumsInv => EligibleEarned
    BY DEF SumsInv, VerdictFits
<1> QED
    BY <1>1, SumsInvariant, PTL

(* EvaluateV2Price takes its price from grants, discounts and coupons read  *)
(* at different moments: whatever ends or starts meanwhile, it is none that *)
(* was not on offer at some moment since the evaluation began, but for the  *)
(* donations' discount of a member who earned it.                           *)
THEOREM PriceWasOwed == PricingSpec => []NeverCheaperThanOwed
<1>1. ASSUME PricingInv, SumsInv, eval.at = "priced"
      PROVE  NeverCheaperThanOwed
    <2>1. /\ eval.final \in eval.offers /\ OnSale(eval.final) /\ cheapest \in Nat
          /\ Priced(eval.final)
        BY <1>1 DEF SumsInv, OffersFit, Judged
    <2>2. PICK earned : earned = IF SumSites(Counted, high) >= Threshold(eval.linked)
                                 THEN {toNIS(PercentOff(DonationsDiscountAmtPct))} ELSE {}
        OBVIOUS
    <2>3. toNIS(eval.final) \in Nat /\ toNIS(PercentOff(DonationsDiscountAmtPct)) \in Nat
        <3>1. Priced(PercentOff(DonationsDiscountAmtPct))
            BY PercentIsPriced DEF DonationsDiscountAmtPct
        <3> QED
            BY <2>1, <3>1, NISIsNat
    <2>4. {cheapest} \cup earned \subseteq Nat /\ {cheapest} \cup earned # {}
        BY <2>1, <2>2, <2>3
    <2>5. PICK least : least = Min({cheapest} \cup earned)
        OBVIOUS
    <2>6. least \in Nat /\ \A k \in {cheapest} \cup earned : least =< k
        BY <2>4, <2>5, MinIs
    <2>7. cheapest =< toNIS(eval.final) \/ toNIS(eval.final) \in earned
        <3>1. CASE eval.eligible /\ eval.final = PercentOff(DonationsDiscountAmtPct)
            <4>1. SumSites(Counted, high) >= Threshold(eval.linked)
                BY <1>1, <3>1 DEF SumsInv, VerdictFits, EligibleEarned
            <4> QED
                BY <2>2, <3>1, <4>1
        <3> QED
            BY <2>1, <3>1 DEF OnSale
    <2>8. toNIS(eval.final) >= least
        BY <2>1, <2>3, <2>6, <2>7
    <2> QED
        BY <2>2, <2>5, <2>8 DEF NeverCheaperThanOwed
<1>2. PricingInv /\ SumsInv => NeverCheaperThanOwed
    BY <1>1 DEF NeverCheaperThanOwed
<1> QED
    BY <1>2, SumsInvariant, PTL

=============================================================================
