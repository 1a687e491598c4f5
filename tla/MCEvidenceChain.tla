--------------------------- MODULE MCEvidenceChain ---------------------------
(* One store the writer supports with two offers, and one it does not with     *)
(* one offer.                                                                  *)
EXTENDS EvidenceChain

MCRows == {1, 2, 3}
MCStoreOf == [r \in MCRows |-> IF r = 3 THEN "dia" ELSE "mas"]

Good == [n |-> 1, ean |-> TRUE, sku |-> TRUE, host |-> TRUE, available |-> TRUE, price |-> 10]
\* The gate's guards let a sold out product pass, the audit does not.
SoldOut == [Good EXCEPT !.available = FALSE]
TooDear == [Good EXCEPT !.price = 100]
MCAnswers == {Good, SoldOut, TooDear}

\* Stand-ins for the numbers at which floating point rounds up, the least of which
\* are 25 rows at 28 % and a target of 21 with 7 viable rows of 10.
MCSharesUp == {<<2, 50>>}
MCScansUp == {<<2, 2, 2>>}

Stop == [given |-> TRUE, wellFormed |-> TRUE, stop |-> TRUE, expires |-> 0, signed |-> TRUE]
NoSource == [s \in {} |-> NoEntry]
Control(global, sources) ==
    [gen |-> 1, schema |-> TRUE, global |-> global, sources |-> sources]
MCControls ==
    {Control(NoEntry, NoSource),
     Control([Stop EXCEPT !.expires = 3], NoSource),
     Control(NoEntry, [s \in {"mas"} |-> [Stop EXCEPT !.signed = FALSE]]),
     Control(NoEntry, [s \in {"dia"} |-> Stop]),
     Control(NoEntry, [s \in {"dia"} |-> [Stop EXCEPT !.wellFormed = FALSE]])}
=============================================================================
