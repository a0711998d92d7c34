----------------------------- MODULE MCPricing -----------------------------
(* Requests and grants under two administrators; manual discounts under     *)
(* two; and one evaluation while one administrator grants, discounts and    *)
(* cancels: for a couple in Israel with a customer they share, at a         *)
(* checkout; for a Bulgarian one, in a billing run; for a German who gave a *)
(* year's price in euros; and for a member of a country the tables do not   *)
(* price, with gifts in an unknown currency.                                *)
EXTENDS Pricing

CONSTANTS s1, s2

(* Sums in place of a household's gifts: nothing, and a year of membership. *)
Home(caller, country, own, linked, spouse, customers, currency, year) ==
    LET emails == {"account"} \cup own \cup spouse
        sites == {<<"priority", c>> : c \in UNION {customers[e] : e \in emails}}
                 \cup QuickBooks(emails) \cup Europe(emails)
    IN [caller |-> caller, country |-> country, own |-> own, linked |-> linked, spouse |-> spouse,
        customers |-> customers, gifts |-> [s \in sites |-> 0],
        currency |-> [s \in sites |-> currency], amounts |-> {0, year}]

Israel == Home("checkout", "IL", {"account"}, TRUE, {"spouse"},
               [e \in {"account", "spouse"} |-> {"shared"}], "NIS", 1200 * 180)

Bulgaria == Home("billing", "BG", {"account"}, TRUE, {"spouse"},
                 [e \in {"account", "spouse"} |-> IF e = "spouse" THEN {"c"} ELSE {}], "EUR", 2400 * 27)

Unpriced == Home("checkout", "TF", {}, FALSE, {}, [e \in {"account"} |-> {"c"}], "other", 1200 * 55)

Germany == Home("checkout", "DE", {"account"}, FALSE, {}, [e \in {"account"} |-> {}], "EUR", 1200 * 53)

MCMixes ==
    {[ops |-> {"create", "conclude", "deny", "cancel", "tick"}, tables |-> {"hh_grants"},
      sessions |-> {s1, s2}, homes |-> {Israel}, writes |-> 4, changes |-> 0],
     [ops |-> {"upsert", "cancel", "tick"}, tables |-> {"manual_discount"},
      sessions |-> {s1, s2}, homes |-> {Israel}, writes |-> 3, changes |-> 0],
     [ops |-> {"create", "conclude", "evaluate", "tick"}, tables |-> {"hh_grants"},
      sessions |-> {s1}, homes |-> {Israel}, writes |-> 2, changes |-> 1],
     [ops |-> {"upsert", "cancel", "evaluate"}, tables |-> {"manual_discount"},
      sessions |-> {s1}, homes |-> {Bulgaria}, writes |-> 2, changes |-> 1],
     [ops |-> {"evaluate"}, tables |-> {}, sessions |-> {}, homes |-> {Israel, Bulgaria, Germany, Unpriced},
      writes |-> 0, changes |-> 3]}

MCGrantBenefits == {[type |-> "percent", pct |-> 60]}

MCManualBenefits == {[type |-> "fixed_price", amount |-> 2000, currency |-> "USD"]}

MCCouponBenefits == {[type |-> "percent", pct |-> 50], [type |-> "unknown"],
                     [type |-> "fixed_price", amount |-> 5000, currency |-> "NIS"]}
=============================================================================
