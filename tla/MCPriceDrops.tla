----------------------------- MODULE MCPriceDrops -----------------------------
(* A is sold at the full price, 20 % below it, 20 % below it by a promotion    *)
(* that says so, at 30 % of it, or not at all; B a fifth of A's price, with a  *)
(* fall that is larger in percent and smaller in amount.  Days of two ticks,   *)
(* a window of a day and a half, an offer is stale after a day.                *)
EXTENDS PriceDrops

MCOffers == <<"A", "B">>
Ab(a, b) == [o \in {"A", "B"} |-> IF o = "A" THEN a ELSE b]
MCAnswers == {Ab("full", "small"), Ab("full", "smallCut"), Ab("cut", "small"), Ab("cut", "smallCut"),
              Ab("promo", None), Ab("slip", "small"), Ab("gone", None), Ab(None, "small")}
MCPrice == [full |-> 15000, cut |-> 12000, promo |-> 12000, slip |-> 4500, gone |-> None,
            small |-> 3000, smallCut |-> 1900]
MCList == [q \in Quotes |-> IF q = "promo" THEN 15000 ELSE MCPrice[q]]
MCPromo == [q \in Quotes |-> IF q = "promo" THEN 20 ELSE None]
MCAvailable == [q \in Quotes |-> q # "gone"]
MCRules == [minPercentDrop |-> 1000, minAmountDrop |-> 1000, window |-> 3, maxAge |-> 2,
            maxPercentDrop |-> 6000, limit |-> 1]
===============================================================================
