----------------------------- MODULE MCIngestion -----------------------------
(* Two stores and six quotes, among them a plain one, one with a third       *)
(* decimal that the column rounds to it, one without a price and one whose   *)
(* price is a spike.  "Five" is two, the widest scan two as well.            *)
EXTENDS Ingestion

MCStoredAs == [q \in Quotes |-> IF q = "fine" THEN "plain" ELSE q]
MCDefaultTerms == <<"leche", "pan">>

Both(a, dia) == [s \in Sources |-> [e \in Eans |-> (IF s = "a" THEN a ELSE dia)[e]]]
Pair(x, y) == [e \in Eans |-> CASE e = "e1" -> x [] e = "e2" -> y [] OTHER -> None]

World(sold, listed) == [shelf |-> sold, offers |-> listed]
Listed == Both(Pair("old", "plain"), Pair("old", None))
MCWorlds ==
    {World(Both(Pair("plain", "plain"), Pair("garbled", None)), Listed),
     World(Both([e \in Eans |-> "plain"], Pair(None, None)), Both(Pair("old", None), Pair(None, None))),
     World(Both(Pair("plain", "spike"), Pair(None, None)), Listed)}
MCMoves == {<<"a", "e1", "fine">>, <<"a", "e1", "free">>}
MCOtherWrites == {<<"a", "e1", "plain">>}

Flags(mode, dry, filter, write, selection, count, scan, expected, hash) ==
    [mode |-> mode, dryRun |-> dry, confirmed |-> TRUE, allSources |-> FALSE,
     filter |-> filter, terms |-> <<"leche">>, expected |-> expected, hash |-> hash,
     writeMode |-> write, selection |-> selection, count |-> count, scan |-> scan]

Fresh == "refresh-existing"
MCCommands ==
    {[Flags("of", FALSE, <<"a">>, "phase4-count5", "strict", 1, 0, "none", "none")
        EXCEPT !.terms = None],
     Flags("active", TRUE, None, "phase4-count5", "strict", 1, 0, "none", "none"),
     Flags("active", FALSE, <<"a", "dia">>, Fresh, "strict", 2, 0, "all", "audit"),
     Flags("active", FALSE, <<"a">>, "phase4-count5", "strict", 2, 0, "all", "none"),
     Flags("active", FALSE, <<"a">>, Fresh, "strict", 2, 0, "all", "audit"),
     Flags("active", FALSE, <<"a">>, Fresh, "strict", 2, 0, "all", "none"),
     Flags("active", FALSE, <<"a">>, Fresh, "existing-only", 1, 2, "some", "audit")}

Ask(s, mode, selection, count, missing, waived) ==
    [source |-> s, term |-> "leche", mode |-> mode, selection |-> selection,
     count |-> count, scan |-> 2, missing |-> missing, waived |-> waived]

MCAuditRequests ==
    {Ask("a", "refresh-existing", "strict", 2, {}, {}),
     Ask("a", "refresh-existing", "existing-only", 1, {}, {}),
     Ask("a", "phase4-count5", "strict", 2, {"e2"}, {}),
     Ask("dia", "refresh-existing", "strict", 1, {}, {"e1"})}
===============================================================================
