----------------------------- MODULE MCReconcile -----------------------------
(* Two stores, two products, two SKUs: the smallest catalog in which stores  *)
(* swap, contest and drop a SKU while two writers reconcile their runs.      *)
EXTENDS Reconcile, TLC

CONSTANTS s1, s2, e1, e2, k1, k2, q1, q2, t1, t2, r1, r2, r3, w1, w2

MCSources == {s1, s2}
MCEans == {e1, e2}
MCSkus == {k1, k2}
MCQuotes == {q1, q2}
MCTexts == {t1, t2}
MCRuns == {r1, r2, r3}
MCWriters == {w1, w2}
MCSourceOf == r1 :> s1 @@ r2 :> s1 @@ r3 :> s2

MCRow(e, q, k, b, c, n, v) ==
    [ean |-> e, quote |-> q, sku |-> k, brand |-> b, category |-> c,
     score |-> n, verdict |-> v]

MCFetches ==
  { {MCRow(e1, q1, k1, None, t1, 2, "PENDING")},
    {MCRow(e1, q2, k1, t1, None, 1, "PENDING"), MCRow(e2, q1, k2, t1, t2, 1, "PENDING")},
    {MCRow(e1, q1, k2, t2, t2, 2, "PENDING"), MCRow(e2, q2, k1, None, None, 2, "PENDING")},
    {MCRow(e1, q1, k1, t1, t1, 1, "PENDING"), MCRow(e2, q1, k1, t2, None, 1, "PENDING")},
    {MCRow(e1, q2, k2, t2, t2, 1, "REJECTED"), MCRow(e2, q2, None, t2, t1, 2, "PENDING")} }

\* One store only, for the runs in which a third transaction must fit.
MCOneSource == {s1}
MCOneSourceOf == [r \in MCRuns |-> s1]
MCOneSourceFetches ==
  { {MCRow(e1, q1, k1, None, t1, 1, "PENDING")},
    {MCRow(e1, q2, k1, t1, None, 1, "PENDING"), MCRow(e2, q1, k2, t1, t2, 1, "PENDING")},
    {MCRow(e1, q1, k2, t2, t2, 1, "PENDING"), MCRow(e2, q2, k1, None, None, 1, "PENDING")},
    {MCRow(e1, q2, k1, t1, t1, 1, "REJECTED"), MCRow(e2, q1, k1, t2, None, 1, "PENDING")} }

WriterSymmetry == Permutations(MCWriters)
=============================================================================
