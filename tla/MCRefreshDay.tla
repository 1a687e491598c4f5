----------------------------- MODULE MCRefreshDay -----------------------------
(* Two stores: A is searched through VTEX, shares the cap and has one        *)
(* allowed department of two categories; B is searched as Coto, has one      *)
(* category and its own quota.  The frozen plan has one short text search,   *)
(* which needs A's hash: the configured one is no store's, and A's           *)
(* storefront offers one that passes the probe and one that does not.        *)
(* The trees may change: A drops one of the two categories, or takes it back. *)
EXTENDS RefreshDay

MCSources == <<"A", "B">>
MCTreeOf(children) ==
    [A |-> << [id |-> 1, name |-> "almacen", children |-> children],
              [id |-> 3, name |-> "hogar", children |-> <<>>] >>,
     B |-> << [id |-> 7, name |-> "vinos", children |-> <<>>] >>]
MCTree ==
    LET aceites == [id |-> 11, name |-> "aceites"]
        arroz == [id |-> 12, name |-> "arroz"]
    IN [first |-> MCTreeOf(<<aceites, arroz>>), shrunk |-> MCTreeOf(<<arroz>>)]
MCAllowlist == [A |-> {"almacen"}, B |-> {"vinos"}]
MCOverride == [A |-> 0, B |-> 3]
MCFrozenPlan == << [source |-> "A", term |-> "aceites", path |-> <<>>, wide |-> FALSE] >>
MCWords == [n \in {"aceites", "arroz", "vinos"} |-> IF n = "vinos" THEN <<"vino">> ELSE <<>>]

MCOffers == {"o1", "o2"}
MCStoreOf == [o1 |-> "A", o2 |-> "B"]

\* A refused price listed first, an offer sold out before the second page
\* fails, a store that cannot be reached, and a record without a GTIN.
MCAnswersTo ==
    [aceites |-> {Answer(<< <<"o1", "spike">>, <<"o1", "priced">> >>, 0),
                  Answer(<< <<"o1", "soldout">>, <<"o1", "priced">> >>, 2),
                  Answer(<<>>, 1)},
     arroz |-> {Answer(<< <<"o1", "priced">>, <<"o1", "soldout">> >>, 0), Answer(<<>>, 1)},
     vinos |-> {Answer(<< <<"o2", "priced">> >>, 0), Answer(<< <<"o2", "junk">> >>, 0)}]

MCAccepts == [A |-> {"hA"}, B |-> {"hB"}]
MCOffered == [A |-> {"hX", "hA"}, B |-> {}]
MCRefreshSources == <<"B", "A">>
===============================================================================
