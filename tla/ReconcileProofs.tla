--------------------------- MODULE ReconcileProofs ---------------------------
(***************************************************************************)
(* What Reconcile's runs check on two products holds for every catalog:    *)
(* first whatever the order of the reconciliations (Spec), then while the  *)
(* runs of a store are reconciled in the order they were acquired in       *)
(* (SpecInOrder), for any stores, batches and writers.                     *)
(***************************************************************************)
EXTENDS Reconcile, TLAPS

-----------------------------------------------------------------------------
(* Types of the tables a chunk produces.                                    *)

\* No open transaction is a transaction record.
LEMMA NoTxType == NoTx \in TxRecord
  BY DEF NoTx, TxRecord, Modes

\* The product upsert yields product rows.
LEMMA ProductsType ==
    ASSUME NEW P \in SUBSET Product, NEW M \in SUBSET Candidate
    PROVE  UpsertProducts(P, M) \in SUBSET Product
<1>1. ASSUME NEW m \in M PROVE NewProduct(m) \in Product
  BY DEF NewProduct, Product, Candidate, Fetched
<1>2. ASSUME NEW p \in P, NEW m \in M PROVE Merged(p, m) \in Product
  BY DEF Merged, Product, Candidate, Fetched, OrNull
<1>3. QED
  BY <1>1, <1>2 DEF UpsertProducts

\* Releasing SKUs and upserting offers yields offer rows.
LEMMA OffersType ==
    ASSUME started \in [Runs -> Nat],
           NEW O \in SUBSET Offer, NEW C \in SUBSET Candidate, NEW K
    PROVE  UpsertOffers(O, C, K) \in SUBSET Offer
<1>1. ASSUME NEW o \in O PROVE Released(o, K) \in Offer
  BY DEF Released, Offer, OrNull
<1>2. ASSUME NEW c \in C PROVE OfferRow(c, K) \in Offer
  BY ConstantsOK DEF OfferRow, Offer, Store, Instant, Candidate, Fetched, OrNull
<1>3. QED
  BY <1>1, <1>2 DEF UpsertOffers

\* The points a chunk adds are price-history rows.
LEMMA PointsType ==
    ASSUME started \in [Runs -> Nat],
           NEW H \in SUBSET History, NEW C \in SUBSET Candidate, NEW n \in Nat
    PROVE  H \cup NewPoints(H, C, n) \in SUBSET History
  BY ConstantsOK DEF NewPoints, Point, History, Store, Instant, Candidate, Fetched

\* What loadCandidates returns is candidates.
LEMMA CandidatesType ==
    ASSUME staging \in [Runs -> SUBSET Fetched], NEW R \in SUBSET Runs
    PROVE  Candidates(R) \in SUBSET Candidate
  BY DEF Candidates, Candidate

-----------------------------------------------------------------------------
\* Every variable of the reconcile pipeline keeps its type in every state.
THEOREM TypeCorrect == Spec => []TypeOK
<1>1. Init => TypeOK
  BY NoTxType DEF Init, TypeOK
<1>2. TypeOK /\ [Next]_vars => TypeOK'
  <2> SUFFICES ASSUME TypeOK, [Next]_vars PROVE TypeOK'
    OBVIOUS
  <2>1. CASE UNCHANGED vars
    BY <2>1 DEF TypeOK, vars, catalog
  <2>2. ASSUME NEW r \in Runs, NEW f \in Fetches, Acquire(r, f) PROVE TypeOK'
    <3>1. f \in SUBSET Fetched
      BY ConstantsOK
    <3>2. QED
      BY <2>2, <3>1 DEF TypeOK, Acquire, catalog
  <2>3. ASSUME NEW w \in Writers, NEW R \in SUBSET Runs, NEW mode \in Modes,
               Begin(w, R, mode)
        PROVE  TypeOK'
    <3>1. Candidates(R) \in SUBSET Candidate
      BY CandidatesType DEF TypeOK
    <3>2. QED
      BY <2>3, <3>1 DEF TypeOK, TxRecord, Begin, catalog
  <2>4. ASSUME NEW w \in Writers, Chunk(w) PROVE TypeOK'
    <3> PICK C \in SUBSET tx[w].todo :
            \E K \in Owners(C), M \in Canonicals(C) :
                tx' = [tx EXCEPT ![w] = ApplyChunk(tx[w], C, K, M)]
      BY <2>4 DEF Chunk
    <3> PICK K \in Owners(C), M \in Canonicals(C) :
            tx' = [tx EXCEPT ![w] = ApplyChunk(tx[w], C, K, M)]
      OBVIOUS
    <3>1. ApplyChunk(tx[w], C, K, M) \in TxRecord
      <4>1. tx[w] \in TxRecord
        BY DEF TypeOK
      <4>2. C \in SUBSET Candidate /\ M \in SUBSET Candidate
        BY <4>1 DEF TxRecord, Canonicals
      <4>3. UpsertProducts(tx[w].products, M) \in SUBSET Product
        BY <4>1, <4>2, ProductsType DEF TxRecord
      <4>4. UpsertOffers(tx[w].offers, C, K) \in SUBSET Offer
        BY <4>1, <4>2, OffersType DEF TxRecord, TypeOK
      <4>5. tx[w].history \cup NewPoints(tx[w].history, C, tx[w].id) \in SUBSET History
        BY <4>1, <4>2, PointsType DEF TxRecord, TypeOK
      <4>6. QED
        BY <4>1, <4>2, <4>3, <4>4, <4>5 DEF ApplyChunk, TxRecord
    <3>2. QED
      BY <2>4, <3>1 DEF TypeOK, Chunk, catalog
  <2>5. ASSUME NEW w \in Writers, Commit(w) PROVE TypeOK'
    BY <2>5, NoTxType DEF TypeOK, TxRecord, Commit
  <2>6. ASSUME NEW w \in Writers, Rollback(w) PROVE TypeOK'
    BY <2>6, NoTxType DEF TypeOK, Rollback, catalog
  <2>7. QED
    BY <2>1, <2>2, <2>3, <2>4, <2>5, <2>6
       DEF Next, AcquireSome, BeginSome, Work
<1>3. QED
  BY <1>1, <1>2, PTL DEF Spec

-----------------------------------------------------------------------------
(* SKU uniqueness.  Inside a chunk no two candidates name the same offer,   *)
(* because a batch has one run per store and a run one row per EAN; that is *)
(* what makes the statement-level argument inductive.                       *)

StagingKeyed ==
    \A r \in Runs : \A x, y \in staging[r] : x.ean = y.ean => x = y

Keyed(C) ==
    \A c, d \in C : Store(c) = Store(d) /\ c.row.ean = d.row.ean => c = d

SkuInv ==
    /\ TypeOK
    /\ StagingKeyed
    /\ \A w \in Writers : Keyed(tx[w].todo)
    /\ SkuUnique

\* A batch has at most one candidate per store and EAN: one run per store, one
\* staged row per EAN.
LEMMA CandidatesKeyed ==
    ASSUME StagingKeyed, NEW R \in SUBSET Runs, IsBatch(R)
    PROVE  Keyed(Candidates(R))
  BY DEF StagingKeyed, IsBatch, Keyed, Candidates, Store

\* The statements of a chunk keep one offer per store and EAN.
LEMMA UpsertKeepsKeys ==
    ASSUME NEW O \in SUBSET Offer, NEW C \in SUBSET Candidate, NEW K,
           OneOfferPerKey(O), Keyed(C)
    PROVE  OneOfferPerKey(UpsertOffers(O, C, K))
<1>1. \A o \in O : Released(o, K).source = o.source /\ Released(o, K).ean = o.ean
  BY DEF Released, Offer
<1>2. \A c \in C : SameOffer(OfferRow(c, K), c)
  BY DEF OfferRow, SameOffer
<1>3. QED
  BY <1>1, <1>2 DEF UpsertOffers, OneOfferPerKey, Keyed, SameOffer, OfferRow

\* The statements of a chunk keep one EAN per store SKU: a released offer holds
\* no SKU an owner claims, and no two owners claim the same one.
LEMMA UpsertKeepsSkus ==
    ASSUME NEW O \in SUBSET Offer, NEW C \in SUBSET Candidate, NEW K \in Owners(C),
           OneEanPerSku(O)
    PROVE  OneEanPerSku(UpsertOffers(O, C, K))
<1> DEFINE Old == {x \in O : \A c \in C : ~SameOffer(x, c)}
<1>1. SUFFICES ASSUME NEW o \in UpsertOffers(O, C, K), NEW p \in UpsertOffers(O, C, K),
                      o.source = p.source, o.sku = p.sku, o.sku # None
               PROVE  o = p
  BY DEF OneEanPerSku
<1>2. ASSUME NEW x \in Old PROVE Released(x, K).source = x.source
  BY DEF Released, Offer
<1>3. ASSUME NEW x \in Old, Released(x, K).sku # None
      PROVE  /\ Released(x, K) = x
             /\ \A k \in K : ~(Store(k) = x.source /\ k.row.sku = x.sku)
  <2>1. ~\E k \in K : Store(k) = x.source /\ k.row.sku = x.sku /\ k.row.ean # x.ean
    BY <1>3 DEF Released, Offer
  <2>2. K \subseteq C
    BY DEF Owners
  <2>3. QED
    BY <2>1, <2>2 DEF Released, SameOffer
<1>4. ASSUME NEW c \in C, OfferRow(c, K).sku # None
      PROVE  c \in K /\ OfferRow(c, K).sku = c.row.sku /\ OfferRow(c, K).source = Store(c)
  BY <1>4 DEF OfferRow
<1>5. ASSUME NEW x \in Old, NEW c \in C,
             Released(x, K).source = OfferRow(c, K).source,
             Released(x, K).sku = OfferRow(c, K).sku,
             OfferRow(c, K).sku # None
      PROVE  FALSE
  BY <1>2, <1>3, <1>4, <1>5
<1>6. ASSUME NEW c \in C, NEW d \in C,
             OfferRow(c, K).source = OfferRow(d, K).source,
             OfferRow(c, K).sku = OfferRow(d, K).sku,
             OfferRow(c, K).sku # None
      PROVE  c = d
  <2>1. c \in K /\ d \in K /\ SameSku(c, d) /\ c.row.sku # None
    BY <1>4, <1>6 DEF SameSku
  <2>2. PICK k \in K : SameSku(k, c) /\ \A j \in K : SameSku(j, c) => j = k
    BY <2>1 DEF Owners
  <2>3. SameSku(d, c) /\ SameSku(c, c)
    BY <2>1 DEF SameSku
  <2>4. QED
    BY <2>1, <2>2, <2>3
<1>7. CASE o \in {Released(x, K) : x \in Old} /\ p \in {Released(x, K) : x \in Old}
  BY <1>1, <1>3, <1>7 DEF OneEanPerSku
<1>8. CASE o \in {Released(x, K) : x \in Old} /\ p \in {OfferRow(c, K) : c \in C}
  BY <1>1, <1>5, <1>8
<1>9. CASE o \in {OfferRow(c, K) : c \in C} /\ p \in {Released(x, K) : x \in Old}
  BY <1>1, <1>5, <1>9
<1>10. CASE o \in {OfferRow(c, K) : c \in C} /\ p \in {OfferRow(c, K) : c \in C}
  BY <1>1, <1>6, <1>10
<1>11. QED
  BY <1>7, <1>8, <1>9, <1>10 DEF UpsertOffers

\* No SKU of a store ever names two offers, committed or not: whatever the
\* stores report, the unique index on (supermarket_id, sku_id) never fires.
THEOREM SkuUniqueCorrect == Spec => []SkuUnique
<1>1. Init => SkuInv
  <2> SUFFICES ASSUME Init PROVE SkuInv
    OBVIOUS
  <2>1. TypeOK
    BY NoTxType DEF Init, TypeOK
  <2>2. QED
    BY <2>1 DEF Init, SkuInv, StagingKeyed, Keyed, SkuUnique, OneOfferPerKey,
                OneEanPerSku, NoTx
<1>2. SkuInv /\ TypeOK' /\ [Next]_vars => SkuInv'
  <2> SUFFICES ASSUME SkuInv, TypeOK', [Next]_vars PROVE SkuInv'
    OBVIOUS
  <2> USE DEF SkuInv
  <2>1. CASE UNCHANGED vars
    BY <2>1 DEF vars, catalog, StagingKeyed, Keyed, Store, SkuUnique,
                OneOfferPerKey, OneEanPerSku
  <2>2. ASSUME NEW r \in Runs, NEW f \in Fetches, Acquire(r, f) PROVE SkuInv'
    <3>1. StagingKeyed'
      BY <2>2, ConstantsOK DEF Acquire, StagingKeyed, TypeOK
    <3>2. QED
      BY <2>2, <3>1 DEF Acquire, catalog, Keyed, Store, SkuUnique,
                        OneOfferPerKey, OneEanPerSku
  <2>3. ASSUME NEW w \in Writers, NEW R \in SUBSET Runs, NEW mode \in Modes,
               Begin(w, R, mode)
        PROVE  SkuInv'
    <3>1. Keyed(Candidates(R))
      BY <2>3, CandidatesKeyed DEF Begin
    <3>2. /\ tx'[w].todo = Candidates(R) /\ tx'[w].offers = offers
          /\ \A v \in Writers \ {w} : tx'[v] = tx[v]
      BY <2>3 DEF Begin, TypeOK
    <3>3. \A v \in Writers : Keyed(tx'[v].todo)
      BY <3>1, <3>2
    <3>4. \A v \in Writers : OneOfferPerKey(tx'[v].offers) /\ OneEanPerSku(tx'[v].offers)
      BY <3>2 DEF SkuUnique
    <3>5. UNCHANGED <<staging, offers>>
      BY <2>3 DEF Begin, catalog
    <3>6. QED
      BY <3>3, <3>4, <3>5 DEF StagingKeyed, SkuUnique, OneOfferPerKey,
                              OneEanPerSku, Keyed, Store
  <2>4. ASSUME NEW w \in Writers, Chunk(w) PROVE SkuInv'
    <3> PICK C \in SUBSET tx[w].todo :
            \E K \in Owners(C), M \in Canonicals(C) :
                tx' = [tx EXCEPT ![w] = ApplyChunk(tx[w], C, K, M)]
      BY <2>4 DEF Chunk
    <3> PICK K \in Owners(C), M \in Canonicals(C) :
            tx' = [tx EXCEPT ![w] = ApplyChunk(tx[w], C, K, M)]
      OBVIOUS
    <3>1. /\ tx'[w].todo = tx[w].todo \ C
          /\ tx'[w].offers = UpsertOffers(tx[w].offers, C, K)
          /\ \A v \in Writers \ {w} : tx'[v] = tx[v]
      BY DEF ApplyChunk, TypeOK, TxRecord
    <3>2. tx[w].offers \in SUBSET Offer /\ C \in SUBSET Candidate
      BY DEF TypeOK, TxRecord
    <3>3. Keyed(C) /\ Keyed(tx[w].todo \ C)
      BY DEF Keyed
    <3>4. OneOfferPerKey(tx'[w].offers)
      BY <3>1, <3>2, <3>3, UpsertKeepsKeys DEF SkuUnique
    <3>5. OneEanPerSku(tx'[w].offers)
      BY <3>1, <3>2, UpsertKeepsSkus DEF SkuUnique
    <3>6. \A v \in Writers : /\ Keyed(tx'[v].todo)
                             /\ OneOfferPerKey(tx'[v].offers)
                             /\ OneEanPerSku(tx'[v].offers)
      BY <3>1, <3>3, <3>4, <3>5 DEF SkuUnique
    <3>7. UNCHANGED <<staging, offers>>
      BY <2>4 DEF Chunk, catalog
    <3>8. QED
      BY <3>6, <3>7 DEF StagingKeyed, SkuUnique, OneOfferPerKey, OneEanPerSku,
                        Keyed, Store
  <2>5. ASSUME NEW w \in Writers, Commit(w) \/ Rollback(w) PROVE SkuInv'
    <3>1. /\ tx'[w] = NoTx
          /\ \A v \in Writers \ {w} : tx'[v] = tx[v]
          /\ offers' = offers \/ offers' = tx[w].offers
          /\ staging' = staging
      BY <2>5 DEF Commit, Rollback, catalog, TypeOK
    <3>2. Keyed(NoTx.todo) /\ OneOfferPerKey(NoTx.offers) /\ OneEanPerSku(NoTx.offers)
      BY DEF NoTx, Keyed, OneOfferPerKey, OneEanPerSku
    <3>3. \A v \in Writers : /\ Keyed(tx'[v].todo)
                             /\ OneOfferPerKey(tx'[v].offers)
                             /\ OneEanPerSku(tx'[v].offers)
      BY <3>1, <3>2 DEF SkuUnique
    <3>4. OneOfferPerKey(offers') /\ OneEanPerSku(offers')
      BY <3>1 DEF SkuUnique
    <3>5. QED
      BY <3>1, <3>3, <3>4 DEF StagingKeyed, SkuUnique, OneOfferPerKey,
                              OneEanPerSku, Keyed, Store
  <2>6. QED
    BY <2>1, <2>2, <2>3, <2>4, <2>5 DEF Next, AcquireSome, BeginSome, Work
<1>3. QED
  BY <1>1, <1>2, TypeCorrect, PTL DEF Spec, SkuInv
-----------------------------------------------------------------------------
(* Offers are observations.  An uncommitted offer shows a committed row or  *)
(* one the transaction has loaded; a run's instant never changes once it is *)
(* set, so what an offer shows stays true of the row it came from.          *)

Admitted(c) == c.row.verdict = "PENDING" /\ started[c.run] > 0

ObservedIn(O, S) == \A o \in O : \E c \in S : Shows(o, c)

ObservationInv ==
    /\ TypeOK
    /\ \A c \in promoted : Admitted(c)
    /\ ObservedIn(offers, promoted)
    /\ \A w \in Writers :
        /\ tx[w].todo \subseteq tx[w].rows
        /\ \A c \in tx[w].rows : Admitted(c)
        /\ ObservedIn(tx[w].offers, promoted \cup tx[w].rows)

\* Every candidate of a batch was acquired and passed the gates.
LEMMA CandidatesAdmitted ==
    ASSUME NEW R \in SUBSET Runs, IsBatch(R)
    PROVE  \A c \in Candidates(R) : Admitted(c)
  BY DEF IsBatch, Candidates, Admitted

\* The upsert keeps every offer the image of a candidate: released offers keep
\* quote and instant, written ones take both from one candidate.
LEMMA UpsertObserved ==
    ASSUME NEW O \in SUBSET Offer, NEW S, NEW C \in SUBSET S, NEW K, ObservedIn(O, S)
    PROVE  ObservedIn(UpsertOffers(O, C, K), S)
<1>1. ASSUME NEW o \in O PROVE \E c \in S : Shows(Released(o, K), c)
  <2>1. PICK c \in S : Shows(o, c)
    BY DEF ObservedIn
  <2>2. Shows(Released(o, K), c)
    BY <2>1 DEF Released, Shows, SameOffer, Offer
  <2>3. QED
    BY <2>2
<1>2. \A c \in C : Shows(OfferRow(c, K), c)
  BY DEF OfferRow, Shows, SameOffer
<1>3. QED
  BY <1>1, <1>2 DEF UpsertOffers, ObservedIn

\* Every offer shows the quote and the instant of one admitted, promoted
\* staging row: prices are never mixed and never dated by the pipeline.
THEOREM OfferIsObservationCorrect == Spec => []OfferIsObservation
<1>1. Init => ObservationInv
  <2> SUFFICES ASSUME Init PROVE ObservationInv
    OBVIOUS
  <2>1. TypeOK
    BY NoTxType DEF Init, TypeOK
  <2>2. QED
    BY <2>1 DEF Init, ObservationInv, ObservedIn, NoTx
<1>2. ObservationInv /\ TypeOK' /\ [Next]_vars => ObservationInv'
  <2> SUFFICES ASSUME ObservationInv, TypeOK', [Next]_vars PROVE ObservationInv'
    OBVIOUS
  <2> USE DEF ObservationInv
  <2>1. CASE UNCHANGED vars
    BY <2>1 DEF vars, catalog, Admitted, ObservedIn, Shows, SameOffer, Store, Instant
  <2>2. ASSUME NEW r \in Runs, NEW f \in Fetches, Acquire(r, f) PROVE ObservationInv'
    <3>1. \A c : c.run \in Runs /\ Admitted(c) => started'[c.run] = started[c.run]
      BY <2>2 DEF Acquire, Admitted, TypeOK
    <3>2. promoted \subseteq Candidate /\ \A w \in Writers : tx[w].rows \subseteq Candidate
      BY DEF TypeOK, TxRecord
    <3>3. \A S \in SUBSET Candidate :
            (\A c \in S : Admitted(c)) =>
              /\ \A c \in S : Admitted(c)'
              /\ \A O : ObservedIn(O, S) => \A o \in O : \E c \in S : Shows(o, c)'
      BY <3>1 DEF Candidate, Admitted, ObservedIn, Shows, SameOffer, Store, Instant
    <3>4. UNCHANGED <<promoted, offers, tx>>
      BY <2>2 DEF Acquire, catalog
    <3>5. (\A c \in promoted : Admitted(c))' /\ ObservedIn(offers, promoted)'
      BY <3>2, <3>3, <3>4 DEF ObservedIn
    <3>6. ASSUME NEW w \in Writers
          PROVE  /\ (tx[w].todo \subseteq tx[w].rows)'
                 /\ (\A c \in tx[w].rows : Admitted(c))'
                 /\ ObservedIn(tx[w].offers, promoted \cup tx[w].rows)'
      BY <3>2, <3>3, <3>4 DEF ObservedIn
    <3>7. QED
      BY <3>5, <3>6
  <2>3. ASSUME NEW w \in Writers, NEW R \in SUBSET Runs, NEW mode \in Modes,
               Begin(w, R, mode)
        PROVE  ObservationInv'
    <3>1. \A c \in Candidates(R) : Admitted(c)
      BY <2>3, CandidatesAdmitted DEF Begin
    <3>2. /\ tx'[w].todo = Candidates(R) /\ tx'[w].rows = Candidates(R)
          /\ tx'[w].offers = offers
          /\ \A v \in Writers \ {w} : tx'[v] = tx[v]
      BY <2>3 DEF Begin, TypeOK
    <3>3. UNCHANGED <<started, promoted, offers>>
      BY <2>3 DEF Begin, catalog
    <3>4. QED
      BY <3>1, <3>2, <3>3 DEF Admitted, ObservedIn, Shows, SameOffer, Store, Instant
  <2>4. ASSUME NEW w \in Writers, Chunk(w) PROVE ObservationInv'
    <3> PICK C \in SUBSET tx[w].todo :
            \E K \in Owners(C), M \in Canonicals(C) :
                tx' = [tx EXCEPT ![w] = ApplyChunk(tx[w], C, K, M)]
      BY <2>4 DEF Chunk
    <3> PICK K \in Owners(C), M \in Canonicals(C) :
            tx' = [tx EXCEPT ![w] = ApplyChunk(tx[w], C, K, M)]
      OBVIOUS
    <3>1. /\ tx'[w].todo = tx[w].todo \ C
          /\ tx'[w].rows = tx[w].rows
          /\ tx'[w].offers = UpsertOffers(tx[w].offers, C, K)
          /\ \A v \in Writers \ {w} : tx'[v] = tx[v]
      BY DEF ApplyChunk, TypeOK, TxRecord
    <3>2. tx[w].offers \in SUBSET Offer /\ C \subseteq promoted \cup tx[w].rows
      BY DEF TypeOK, TxRecord
    <3>3. ObservedIn(tx'[w].offers, promoted \cup tx[w].rows)
      BY <3>1, <3>2, UpsertObserved
    <3>4. UNCHANGED <<started, promoted, offers>>
      BY <2>4 DEF Chunk, catalog
    <3>5. QED
      BY <3>1, <3>3, <3>4 DEF Admitted, ObservedIn, Shows, SameOffer, Store, Instant
  <2>5. ASSUME NEW w \in Writers, Commit(w) PROVE ObservationInv'
    <3>1. /\ tx'[w] = NoTx
          /\ \A v \in Writers \ {w} : tx'[v] = tx[v]
          /\ offers' = tx[w].offers
          /\ promoted' = promoted \cup tx[w].rows
          /\ started' = started
      BY <2>5 DEF Commit, TypeOK
    <3>2. ASSUME NEW v \in Writers
          PROVE  ObservedIn(tx[v].offers, promoted' \cup tx[v].rows)
      BY <3>1 DEF ObservedIn
    <3>3. NoTx.todo = {} /\ NoTx.rows = {} /\ NoTx.offers = {}
      BY DEF NoTx
    <3>4. (\A c \in promoted : Admitted(c))' /\ ObservedIn(offers, promoted)'
      BY <3>1 DEF Admitted, ObservedIn, Shows, SameOffer, Store, Instant
    <3>5. ASSUME NEW v \in Writers
          PROVE  /\ (tx[v].todo \subseteq tx[v].rows)'
                 /\ (\A c \in tx[v].rows : Admitted(c))'
                 /\ ObservedIn(tx[v].offers, promoted \cup tx[v].rows)'
      BY <3>1, <3>2, <3>3 DEF Admitted, ObservedIn, Shows, SameOffer, Store, Instant
    <3>6. QED
      BY <3>4, <3>5
  <2>6. ASSUME NEW w \in Writers, Rollback(w) PROVE ObservationInv'
    <3>1. /\ tx'[w] = NoTx
          /\ \A v \in Writers \ {w} : tx'[v] = tx[v]
          /\ UNCHANGED <<offers, promoted, started>>
      BY <2>6 DEF Rollback, catalog, TypeOK
    <3>2. NoTx.todo = {} /\ NoTx.rows = {} /\ NoTx.offers = {}
      BY DEF NoTx
    <3>3. QED
      BY <3>1, <3>2 DEF Admitted, ObservedIn, Shows, SameOffer, Store, Instant
  <2>7. QED
    BY <2>1, <2>2, <2>3, <2>4, <2>5, <2>6
       DEF Next, AcquireSome, BeginSome, Work
<1>3. ObservationInv => OfferIsObservation
  BY DEF ObservationInv, OfferIsObservation, ObservedIn, Admitted
<1>4. QED
  BY <1>1, <1>2, <1>3, TypeCorrect, PTL DEF Spec
-----------------------------------------------------------------------------
(* Promoted rows stay visible.  This one needs the advisory lock: a second   *)
(* open transaction would commit tables that lack the first one's rows.      *)

VisibleInv ==
    /\ TypeOK
    /\ \A v, w \in Writers : IsOpen(v) /\ IsOpen(w) => v = w
    /\ \A c \in promoted : Visible(c, products, offers)
    /\ \A w \in Writers : IsOpen(w) =>
        \A c \in promoted \cup (tx[w].rows \ tx[w].todo) :
            Visible(c, tx[w].products, tx[w].offers)

\* The product upsert drops no EAN and leaves one for every candidate.
LEMMA UpsertProductsVisible ==
    ASSUME NEW P \in SUBSET Product, NEW C \in SUBSET Candidate, NEW M \in Canonicals(C)
    PROVE  /\ \A p \in P : \E q \in UpsertProducts(P, M) : q.ean = p.ean
           /\ \A c \in C : \E q \in UpsertProducts(P, M) : q.ean = c.row.ean
<1>1. \A p \in P, m \in M : Merged(p, m).ean = p.ean
  BY DEF Merged, Product
<1>2. \A m \in M : NewProduct(m).ean = m.row.ean
  BY DEF NewProduct
<1>3. ASSUME NEW p \in P, NEW m \in M, p.ean = m.row.ean
      PROVE  Merged(p, m) \in UpsertProducts(P, M)
  <2>1. <<p, m>> \in {y \in P \X M : y[1].ean = y[2].row.ean}
    BY <1>3
  <2>2. QED
    BY <2>1 DEF UpsertProducts
<1>4. ASSUME NEW p \in P PROVE \E q \in UpsertProducts(P, M) : q.ean = p.ean
  <2>1. CASE \A m \in M : m.row.ean # p.ean
    BY <2>1 DEF UpsertProducts
  <2>2. CASE \E m \in M : m.row.ean = p.ean
    BY <2>2, <1>1, <1>3
  <2>3. QED
    BY <2>1, <2>2
<1>5. ASSUME NEW m \in M PROVE \E q \in UpsertProducts(P, M) : q.ean = m.row.ean
  <2>1. CASE \A p \in P : p.ean # m.row.ean
    BY <2>1, <1>2 DEF UpsertProducts
  <2>2. CASE \E p \in P : p.ean = m.row.ean
    BY <2>2, <1>1, <1>3
  <2>3. QED
    BY <2>1, <2>2
<1>6. QED
  BY <1>4, <1>5 DEF Canonicals

\* The offer upsert drops no (store, EAN) pair and leaves one for every candidate.
LEMMA UpsertOffersVisible ==
    ASSUME NEW O \in SUBSET Offer, NEW C \in SUBSET Candidate, NEW K
    PROVE  /\ \A c : (\E o \in O : SameOffer(o, c)) =>
                        \E n \in UpsertOffers(O, C, K) : SameOffer(n, c)
           /\ \A c \in C : \E n \in UpsertOffers(O, C, K) : SameOffer(n, c)
<1>1. \A o \in O : Released(o, K).source = o.source /\ Released(o, K).ean = o.ean
  BY DEF Released, Offer
<1>2. \A c \in C : OfferRow(c, K) \in UpsertOffers(O, C, K) /\ SameOffer(OfferRow(c, K), c)
  BY DEF UpsertOffers, OfferRow, SameOffer
<1>3. ASSUME NEW c, NEW o \in O, SameOffer(o, c)
      PROVE  \E n \in UpsertOffers(O, C, K) : SameOffer(n, c)
  <2>1. CASE \A d \in C : ~SameOffer(o, d)
    BY <2>1, <1>1, <1>3 DEF UpsertOffers, SameOffer
  <2>2. CASE \E d \in C : SameOffer(o, d)
    <3>1. PICK d \in C : SameOffer(o, d)
      BY <2>2
    <3>2. SameOffer(OfferRow(d, K), c)
      BY <1>2, <1>3, <3>1 DEF SameOffer
    <3>3. QED
      BY <1>2, <3>2
  <2>3. QED
    BY <2>1, <2>2
<1>4. QED
  BY <1>2, <1>3

\* A promoted staging row never loses its product or its offer, whatever
\* transactions later commit or roll back.
THEOREM PromotedIsVisibleCorrect == Spec => []PromotedIsVisible
<1>1. Init => VisibleInv
  <2> SUFFICES ASSUME Init PROVE VisibleInv
    OBVIOUS
  <2>1. TypeOK
    BY NoTxType DEF Init, TypeOK
  <2>2. QED
    BY <2>1 DEF Init, VisibleInv, IsOpen, NoTx
<1>2. VisibleInv /\ TypeOK' /\ [Next]_vars => VisibleInv'
  <2> SUFFICES ASSUME VisibleInv, TypeOK', [Next]_vars PROVE VisibleInv'
    OBVIOUS
  <2> USE DEF VisibleInv
  <2>1. CASE UNCHANGED vars
    BY <2>1 DEF vars, catalog, IsOpen, Visible, SameOffer, Store
  <2>2. ASSUME NEW r \in Runs, NEW f \in Fetches, Acquire(r, f) PROVE VisibleInv'
    BY <2>2 DEF Acquire, catalog, IsOpen, Visible, SameOffer, Store
  <2>3. ASSUME NEW w \in Writers, NEW R \in SUBSET Runs, NEW mode \in Modes,
               Begin(w, R, mode)
        PROVE  VisibleInv'
    <3>1. /\ tx'[w].rows = tx'[w].todo
          /\ tx'[w].products = products /\ tx'[w].offers = offers
          /\ \A v \in Writers \ {w} : tx'[v] = tx[v]
      BY <2>3 DEF Begin, TypeOK
    <3>2. \A v \in Writers : ~IsOpen(v)
      BY <2>3 DEF Begin, LockFree
    <3>3. UNCHANGED <<promoted, products, offers>>
      BY <2>3 DEF Begin, catalog
    <3>4. QED
      BY <3>1, <3>2, <3>3 DEF IsOpen, Visible, SameOffer, Store
  <2>4. ASSUME NEW w \in Writers, Chunk(w) PROVE VisibleInv'
    <3> PICK C \in SUBSET tx[w].todo :
            \E K \in Owners(C), M \in Canonicals(C) :
                tx' = [tx EXCEPT ![w] = ApplyChunk(tx[w], C, K, M)]
      BY <2>4 DEF Chunk
    <3> PICK K \in Owners(C), M \in Canonicals(C) :
            tx' = [tx EXCEPT ![w] = ApplyChunk(tx[w], C, K, M)]
      OBVIOUS
    <3>1. /\ tx'[w].runs = tx[w].runs
          /\ tx'[w].rows = tx[w].rows
          /\ tx'[w].todo = tx[w].todo \ C
          /\ tx'[w].products = UpsertProducts(tx[w].products, M)
          /\ tx'[w].offers = UpsertOffers(tx[w].offers, C, K)
          /\ \A v \in Writers \ {w} : tx'[v] = tx[v]
      BY DEF ApplyChunk, TypeOK, TxRecord
    <3>2. /\ tx[w].offers \in SUBSET Offer /\ tx[w].products \in SUBSET Product
          /\ C \in SUBSET Candidate /\ IsOpen(w)
      BY <2>4 DEF TypeOK, TxRecord, Chunk
    <3>3. \A c \in C : Visible(c, tx'[w].products, tx'[w].offers)
      BY <3>1, <3>2, UpsertProductsVisible, UpsertOffersVisible DEF Visible
    <3>4. \A c : Visible(c, tx[w].products, tx[w].offers) =>
                    Visible(c, tx'[w].products, tx'[w].offers)
      <4>1. ASSUME NEW c, Visible(c, tx[w].products, tx[w].offers)
            PROVE  Visible(c, tx'[w].products, tx'[w].offers)
        <5>1. \E p \in tx'[w].products : p.ean = c.row.ean
          BY <3>1, <3>2, <4>1, UpsertProductsVisible DEF Visible
        <5>2. \E o \in tx'[w].offers : SameOffer(o, c)
          BY <3>1, <3>2, <4>1, UpsertOffersVisible DEF Visible
        <5>3. QED
          BY <5>1, <5>2 DEF Visible
      <4>2. QED
        BY <4>1
    <3>5. \A c \in promoted \cup (tx[w].rows \ (tx[w].todo \ C)) :
            Visible(c, tx'[w].products, tx'[w].offers)
      BY <3>2, <3>3, <3>4
    <3>6. UNCHANGED <<promoted, products, offers>>
      BY <2>4 DEF Chunk, catalog
    <3>7. QED
      BY <3>1, <3>5, <3>6 DEF IsOpen, Visible, SameOffer, Store
  <2>5. ASSUME NEW w \in Writers, Commit(w) PROVE VisibleInv'
    <3>1. /\ IsOpen(w)
          /\ \A c \in promoted \cup tx[w].rows : Visible(c, tx[w].products, tx[w].offers)
          /\ \A v \in Writers \ {w} : ~IsOpen(v)
      BY <2>5 DEF Commit
    <3>2. /\ tx'[w].runs = {}
          /\ \A v \in Writers \ {w} : tx'[v] = tx[v]
          /\ products' = tx[w].products /\ offers' = tx[w].offers
          /\ promoted' = promoted \cup tx[w].rows
      BY <2>5 DEF Commit, TypeOK, NoTx
    <3>3. \A v \in Writers : tx'[v].runs = {}
      BY <3>1, <3>2 DEF IsOpen
    <3>4. (\A c \in promoted : Visible(c, products, offers))'
      BY <3>1, <3>2 DEF Visible, SameOffer, Store
    <3>5. QED
      BY <3>3, <3>4 DEF IsOpen
  <2>6. ASSUME NEW w \in Writers, Rollback(w) PROVE VisibleInv'
    <3>1. /\ tx'[w].runs = {}
          /\ \A v \in Writers \ {w} : tx'[v] = tx[v]
          /\ UNCHANGED <<promoted, products, offers>>
      BY <2>6 DEF Rollback, catalog, TypeOK, NoTx
    <3>2. QED
      BY <3>1 DEF IsOpen, Visible, SameOffer, Store
  <2>7. QED
    BY <2>1, <2>2, <2>3, <2>4, <2>5, <2>6
       DEF Next, AcquireSome, BeginSome, Work
<1>3. VisibleInv => PromotedIsVisible
  BY DEF VisibleInv, PromotedIsVisible
<1>4. QED
  BY <1>1, <1>2, <1>3, TypeCorrect, PTL DEF Spec

-----------------------------------------------------------------------------
(* The history has the current price.  The offers and the points of one      *)
(* transaction are changed together, so the claim is made of its tables too. *)

Charted(O, H) == \A o \in O : \E h \in PointsOf(H, o.source, o.ean) : h.quote = o.quote

ChartInv ==
    /\ TypeOK
    /\ Charted(offers, history)
    /\ \A w \in Writers : Charted(tx[w].offers, tx[w].history)

\* A candidate whose quote is not the newest point adds one; a released offer
\* keeps its quote.
LEMMA UpsertCharted ==
    ASSUME NEW O \in SUBSET Offer, NEW H, NEW C, NEW K, NEW n, Charted(O, H)
    PROVE  Charted(UpsertOffers(O, C, K), H \cup NewPoints(H, C, n))
<1> DEFINE New == H \cup NewPoints(H, C, n)
<1>1. ASSUME NEW o \in O
      PROVE  \E h \in PointsOf(New, Released(o, K).source, Released(o, K).ean) :
                h.quote = Released(o, K).quote
  <2>1. /\ Released(o, K).source = o.source /\ Released(o, K).ean = o.ean
        /\ Released(o, K).quote = o.quote
    BY DEF Released, Offer
  <2>2. PICK h \in PointsOf(H, o.source, o.ean) : h.quote = o.quote
    BY DEF Charted
  <2>3. h \in PointsOf(New, o.source, o.ean)
    BY DEF PointsOf
  <2>4. QED
    BY <2>1, <2>2, <2>3
<1>2. ASSUME NEW c \in C
      PROVE  \E h \in PointsOf(New, Store(c), c.row.ean) : h.quote = c.row.quote
  <2>1. CASE c.row.quote \in LatestQuotes(H, Store(c), c.row.ean)
    BY <2>1 DEF LatestQuotes, PointsOf
  <2>2. CASE c.row.quote \notin LatestQuotes(H, Store(c), c.row.ean)
    <3>1. Point(c, n) \in New
      BY <2>2 DEF NewPoints
    <3>2. /\ Point(c, n).source = Store(c) /\ Point(c, n).ean = c.row.ean
          /\ Point(c, n).quote = c.row.quote
      BY DEF Point
    <3>3. QED
      BY <3>1, <3>2 DEF PointsOf
  <2>3. QED
    BY <2>1, <2>2
<1>3. \A c \in C : /\ OfferRow(c, K).source = Store(c) /\ OfferRow(c, K).ean = c.row.ean
                   /\ OfferRow(c, K).quote = c.row.quote
  BY DEF OfferRow
<1> HIDE DEF New
<1>4. Charted(UpsertOffers(O, C, K), New)
  BY <1>1, <1>2, <1>3 DEF Charted, UpsertOffers
<1>5. QED
  BY <1>4 DEF New

\* The quote an offer shows is among the points of its history, in whatever
\* order runs are reconciled.
THEOREM OfferQuoteIsInHistoryCorrect == Spec => []OfferQuoteIsInHistory
<1>1. Init => ChartInv
  BY NoTxType DEF Init, TypeOK, ChartInv, Charted, NoTx
<1>2. ChartInv /\ TypeOK' /\ [Next]_vars => ChartInv'
  <2> SUFFICES ASSUME ChartInv, TypeOK', [Next]_vars PROVE ChartInv'
    OBVIOUS
  <2> USE DEF ChartInv
  <2>1. CASE UNCHANGED vars
    BY <2>1 DEF vars, catalog, Charted, PointsOf
  <2>2. ASSUME NEW r \in Runs, NEW f \in Fetches, Acquire(r, f) PROVE ChartInv'
    BY <2>2 DEF Acquire, catalog, Charted, PointsOf
  <2>3. ASSUME NEW w \in Writers, NEW R \in SUBSET Runs, NEW mode \in Modes,
               Begin(w, R, mode)
        PROVE  ChartInv'
    <3>1. /\ tx'[w].offers = offers /\ tx'[w].history = history
          /\ \A v \in Writers \ {w} : tx'[v] = tx[v]
          /\ UNCHANGED <<offers, history>>
      BY <2>3 DEF Begin, TypeOK, catalog
    <3>2. QED
      BY <3>1 DEF Charted, PointsOf
  <2>4. ASSUME NEW w \in Writers, Chunk(w) PROVE ChartInv'
    <3> PICK C \in SUBSET tx[w].todo :
            \E K \in Owners(C), M \in Canonicals(C) :
                tx' = [tx EXCEPT ![w] = ApplyChunk(tx[w], C, K, M)]
      BY <2>4 DEF Chunk
    <3> PICK K \in Owners(C), M \in Canonicals(C) :
            tx' = [tx EXCEPT ![w] = ApplyChunk(tx[w], C, K, M)]
      OBVIOUS
    <3>1. /\ tx'[w].offers = UpsertOffers(tx[w].offers, C, K)
          /\ tx'[w].history = tx[w].history \cup NewPoints(tx[w].history, C, tx[w].id)
          /\ \A v \in Writers \ {w} : tx'[v] = tx[v]
      BY DEF ApplyChunk, TypeOK, TxRecord
    <3>2. tx[w].offers \in SUBSET Offer
      BY DEF TypeOK, TxRecord
    <3>3. Charted(tx'[w].offers, tx'[w].history)
      BY <3>1, <3>2, UpsertCharted
    <3>4. UNCHANGED <<offers, history>>
      BY <2>4 DEF Chunk, catalog
    <3>5. QED
      BY <3>1, <3>3, <3>4 DEF Charted, PointsOf
  <2>5. ASSUME NEW w \in Writers, Commit(w) \/ Rollback(w) PROVE ChartInv'
    <3>1. /\ tx'[w] = NoTx
          /\ \A v \in Writers \ {w} : tx'[v] = tx[v]
          /\ \/ UNCHANGED <<offers, history>>
             \/ offers' = tx[w].offers /\ history' = tx[w].history
      BY <2>5 DEF Commit, Rollback, catalog, TypeOK
    <3>2. NoTx.offers = {}
      BY DEF NoTx
    <3>3. QED
      BY <3>1, <3>2 DEF Charted, PointsOf
  <2>6. QED
    BY <2>1, <2>2, <2>3, <2>4, <2>5 DEF Next, AcquireSome, BeginSome, Work
<1>3. ChartInv => OfferQuoteIsInHistory
  BY DEF ChartInv, Charted, OfferQuoteIsInHistory
<1>4. QED
  BY <1>1, <1>2, <1>3, TypeCorrect, PTL DEF Spec

-----------------------------------------------------------------------------
(* What a commit does to products and offers.  Both claims compare the       *)
(* tables of the lock holder with the committed ones, which nobody else can  *)
(* change before it commits.                                                 *)

KeptIn(P, Q) ==
    \A p \in P : \E q \in Q :
        /\ q.ean = p.ean
        /\ p.brand # None => q.brand = p.brand
        /\ p.category # None => q.category # None

SameEans(P, Q) == {p.ean : p \in P} = {q.ean : q \in Q}

SameKeys(O, N) == {<<o.source, o.ean>> : o \in O} = {<<o.source, o.ean>> : o \in N}

MergeInv ==
    /\ TypeOK
    /\ \A v, w \in Writers : IsOpen(v) /\ IsOpen(w) => v = w
    /\ \A w \in Writers : IsOpen(w) =>
        /\ KeptIn(products, tx[w].products)
        /\ tx[w].mode = "refresh-existing" =>
            /\ SameEans(products, tx[w].products) /\ SameKeys(offers, tx[w].offers)
            /\ \A c \in tx[w].todo : Visible(c, tx[w].products, tx[w].offers)

\* The protective merge keeps every product.
LEMMA UpsertKeeps ==
    ASSUME NEW P \in SUBSET Product, NEW M
    PROVE  KeptIn(P, UpsertProducts(P, M))
<1> SUFFICES ASSUME NEW p \in P
             PROVE  \E q \in UpsertProducts(P, M) :
                      /\ q.ean = p.ean
                      /\ p.brand # None => q.brand = p.brand
                      /\ p.category # None => q.category # None
  BY DEF KeptIn
<1>1. CASE \A m \in M : m.row.ean # p.ean
  BY <1>1 DEF UpsertProducts
<1>2. CASE \E m \in M : m.row.ean = p.ean
  <2>1. PICK m \in M : m.row.ean = p.ean
    BY <1>2
  <2>2. <<p, m>> \in {y \in P \X M : y[1].ean = y[2].row.ean}
    BY <2>1
  <2>3. Merged(p, m) \in UpsertProducts(P, M)
    BY <2>2 DEF UpsertProducts
  <2>4. /\ Merged(p, m).ean = p.ean
        /\ p.brand # None => Merged(p, m).brand = p.brand
        /\ p.category # None => Merged(p, m).category # None
    BY DEF Merged, Product
  <2>5. QED
    BY <2>3, <2>4
<1>3. QED
  BY <1>1, <1>2

\* Keeping is transitive: the merges of several chunks are one.
LEMMA KeptTwice ==
    ASSUME NEW P, NEW Q, NEW R, KeptIn(P, Q), KeptIn(Q, R)
    PROVE  KeptIn(P, R)
BY DEF KeptIn

\* Where every candidate has its product, the upsert creates none.
LEMMA UpsertCreatesNoProduct ==
    ASSUME NEW P \in SUBSET Product, NEW M \in SUBSET Candidate,
           \A m \in M : \E p \in P : p.ean = m.row.ean
    PROVE  SameEans(P, UpsertProducts(P, M))
<1>1. \A p \in P, m \in M : Merged(p, m).ean = p.ean
  BY DEF Merged, Product
<1>2. ASSUME NEW q \in UpsertProducts(P, M) PROVE \E p \in P : p.ean = q.ean
  BY <1>1 DEF UpsertProducts
<1>3. \A p \in P : \E q \in UpsertProducts(P, M) : q.ean = p.ean
  BY UpsertKeeps DEF KeptIn
<1>4. QED
  BY <1>2, <1>3 DEF SameEans

\* And where every candidate has its offer, no offer.
LEMMA UpsertCreatesNoOffer ==
    ASSUME NEW O \in SUBSET Offer, NEW C \in SUBSET Candidate, NEW K,
           \A c \in C : \E o \in O : SameOffer(o, c)
    PROVE  SameKeys(O, UpsertOffers(O, C, K))
<1> DEFINE N == UpsertOffers(O, C, K)
<1>1. \A o \in O : Released(o, K).source = o.source /\ Released(o, K).ean = o.ean
  BY DEF Released, Offer
<1>2. ASSUME NEW n \in N PROVE \E o \in O : o.source = n.source /\ o.ean = n.ean
  BY <1>1 DEF UpsertOffers, OfferRow, SameOffer
<1>3. ASSUME NEW o \in O PROVE \E n \in N : n.source = o.source /\ n.ean = o.ean
  <2>1. CASE \A c \in C : ~SameOffer(o, c)
    <3>1. Released(o, K) \in N
      BY <2>1 DEF UpsertOffers
    <3>2. QED
      BY <1>1, <3>1
  <2>2. CASE \E c \in C : SameOffer(o, c)
    <3>1. PICK c \in C : SameOffer(o, c)
      BY <2>2
    <3>2. OfferRow(c, K) \in N
      BY DEF UpsertOffers
    <3>3. OfferRow(c, K).source = o.source /\ OfferRow(c, K).ean = o.ean
      BY <3>1 DEF OfferRow, SameOffer
    <3>4. QED
      BY <3>2, <3>3
  <2>3. QED
    BY <2>1, <2>2
<1> HIDE DEF N
<1>4. SameKeys(O, N)
  <2>1. \A o \in O : <<o.source, o.ean>> \in {<<n.source, n.ean>> : n \in N}
    BY <1>3
  <2>2. \A n \in N : <<n.source, n.ean>> \in {<<o.source, o.ean>> : o \in O}
    BY <1>2
  <2>3. QED
    BY <2>1, <2>2, Zenon DEF SameKeys
<1>5. QED
  BY <1>4 DEF N

\* The initial states satisfy the invariant.
LEMMA MergeInitInv == Init => MergeInv
BY NoTxType DEF Init, TypeOK, MergeInv, IsOpen, NoTx

\* Every statement of a transaction keeps the invariant.
LEMMA MergeNextInv == MergeInv /\ TypeOK' /\ [Next]_vars => MergeInv'
<1> SUFFICES ASSUME MergeInv, TypeOK', [Next]_vars PROVE MergeInv'
  OBVIOUS
<1> USE DEF MergeInv
<1>1. CASE UNCHANGED vars
  BY <1>1 DEF vars, catalog, IsOpen, Visible, SameOffer, Store
<1>2. ASSUME NEW r \in Runs, NEW f \in Fetches, Acquire(r, f) PROVE MergeInv'
  BY <1>2 DEF Acquire, catalog, IsOpen, Visible, SameOffer, Store
<1>3. ASSUME NEW w \in Writers, NEW R \in SUBSET Runs, NEW mode \in Modes,
             Begin(w, R, mode)
      PROVE  MergeInv'
  <2>1. /\ tx'[w].mode = mode /\ tx'[w].todo = Candidates(R)
        /\ tx'[w].products = products /\ tx'[w].offers = offers
        /\ \A v \in Writers \ {w} : tx'[v] = tx[v]
    BY <1>3 DEF Begin, TypeOK
  <2>2. \A v \in Writers : ~IsOpen(v)
    BY <1>3 DEF Begin, LockFree
  <2>3. UNCHANGED <<products, offers>> /\ Preflight(mode, Candidates(R))
    BY <1>3 DEF Begin, catalog
  <2>4. KeptIn(products, products) /\ SameEans(products, products)
        /\ SameKeys(offers, offers)
    BY DEF KeptIn, SameEans, SameKeys
  <2>5. mode = "refresh-existing" => \A c \in Candidates(R) : Visible(c, products, offers)
    BY <2>3 DEF Preflight, Visible
  <2>6. QED
    BY <2>1, <2>2, <2>3, <2>4, <2>5 DEF IsOpen, Visible, SameOffer, Store
<1>4. ASSUME NEW w \in Writers, Chunk(w) PROVE MergeInv'
  <2> PICK C \in SUBSET tx[w].todo :
          \E K \in Owners(C), M \in Canonicals(C) :
              tx' = [tx EXCEPT ![w] = ApplyChunk(tx[w], C, K, M)]
    BY <1>4 DEF Chunk
  <2> PICK K \in Owners(C), M \in Canonicals(C) :
          tx' = [tx EXCEPT ![w] = ApplyChunk(tx[w], C, K, M)]
    OBVIOUS
  <2> DEFINE P == tx[w].products
             O == tx[w].offers
             Q == UpsertProducts(P, M)
             N == UpsertOffers(O, C, K)
  <2>1. /\ tx'[w].runs = tx[w].runs /\ tx'[w].mode = tx[w].mode
        /\ tx'[w].todo = tx[w].todo \ C
        /\ tx'[w].products = Q /\ tx'[w].offers = N
        /\ \A v \in Writers \ {w} : tx'[v] = tx[v]
    BY DEF ApplyChunk, TypeOK, TxRecord
  <2>2. /\ O \in SUBSET Offer /\ P \in SUBSET Product /\ C \in SUBSET Candidate
        /\ M \in SUBSET Candidate /\ M \subseteq C /\ IsOpen(w)
    BY <1>4 DEF TypeOK, TxRecord, Chunk, Canonicals
  <2>3. UNCHANGED <<products, offers>>
    BY <1>4 DEF Chunk, catalog
  <2>4. KeptIn(products, Q)
    BY <2>2, UpsertKeeps, KeptTwice
  <2>5. ASSUME tx[w].mode = "refresh-existing"
        PROVE  /\ SameEans(products, Q) /\ SameKeys(offers, N)
               /\ \A c \in tx[w].todo : Visible(c, Q, N)
    <3>1. SameEans(P, Q)
      BY <2>2, <2>5, UpsertCreatesNoProduct DEF Visible
    <3>2. SameKeys(O, N)
      BY <2>2, <2>5, UpsertCreatesNoOffer DEF Visible
    <3>3. \A c \in tx[w].todo : Visible(c, Q, N)
      BY <2>2, <2>5, UpsertProductsVisible, UpsertOffersVisible DEF Visible
    <3>4. SameEans(products, P) /\ SameKeys(offers, O)
      BY <2>2, <2>5
    <3>5. QED
      BY <3>1, <3>2, <3>3, <3>4 DEF SameEans, SameKeys
  <2> HIDE DEF P, O, Q, N
  <2>6. IsOpen(w)' /\ \A v \in Writers : IsOpen(v)' => v = w
    BY <2>1, <2>2 DEF IsOpen
  <2>7. /\ KeptIn(products', tx'[w].products)
        /\ tx'[w].mode = "refresh-existing" =>
            /\ SameEans(products', tx'[w].products) /\ SameKeys(offers', tx'[w].offers)
            /\ \A c \in tx'[w].todo : Visible(c, tx'[w].products, tx'[w].offers)
    BY <2>1, <2>3, <2>4, <2>5
  <2>8. QED
    BY <2>6, <2>7 DEF Visible, SameOffer, Store
<1>5. ASSUME NEW w \in Writers, Commit(w) \/ Rollback(w) PROVE MergeInv'
  <2>1. IsOpen(w) /\ tx'[w].runs = {} /\ \A v \in Writers \ {w} : tx'[v] = tx[v]
    BY <1>5 DEF Commit, Rollback, TypeOK, NoTx
  <2>2. \A v \in Writers : ~IsOpen(v)'
    BY <2>1 DEF IsOpen
  <2>3. QED
    BY <2>2 DEF IsOpen
<1>6. QED
  BY <1>1, <1>2, <1>3, <1>4, <1>5 DEF Next, AcquireSome, BeginSome, Work

\* Products change at a commit only.
LEMMA OnlyCommits ==
    ASSUME MergeInv, [Next]_vars, products' # products
    PROVE  \E w \in Writers : Commit(w)
BY DEF Next, AcquireSome, BeginSome, Work, Acquire, Begin, Chunk, Rollback, vars, catalog

\* A known brand is never blanked or replaced, a category never goes back to
\* blank, across the runs of all stores.
THEOREM ProtectiveMergeCorrect == Spec => ProtectiveMerge
<1>1. ASSUME MergeInv, [Next]_vars PROVE KeptIn(products, products')
  <2>1. CASE products' = products
    BY <2>1 DEF KeptIn
  <2>2. CASE products' # products
    <3>1. PICK w \in Writers : Commit(w)
      BY <1>1, <2>2, OnlyCommits
    <3>2. IsOpen(w) /\ products' = tx[w].products
      BY <3>1 DEF Commit
    <3>3. QED
      BY <1>1, <3>2 DEF MergeInv
  <2>3. QED
    BY <2>1, <2>2
<1>2. Spec => [][KeptIn(products, products')]_vars
  BY <1>1, MergeInitInv, MergeNextInv, TypeCorrect, PTL DEF Spec
<1>3. QED
  BY <1>2 DEF ProtectiveMerge, KeptIn

\* A refresh-existing transaction creates no product and no offer.
THEOREM RefreshExistingCorrect == Spec => RefreshExistingCreatesNothing
<1> DEFINE Creates(w) ==
      Commit(w) /\ tx[w].mode = "refresh-existing" =>
        /\ {p.ean : p \in products'} = {p.ean : p \in products}
        /\ {<<o.source, o.ean>> : o \in offers'} = {<<o.source, o.ean>> : o \in offers}
<1>1. ASSUME MergeInv PROVE \A w \in Writers : Creates(w)
  <2> SUFFICES ASSUME NEW w \in Writers, Commit(w), tx[w].mode = "refresh-existing"
               PROVE  SameEans(products, products') /\ SameKeys(offers, offers')
    BY DEF SameEans, SameKeys
  <2>1. IsOpen(w) /\ products' = tx[w].products /\ offers' = tx[w].offers
    BY DEF Commit
  <2>2. QED
    BY <1>1, <2>1 DEF MergeInv
<1>2. Spec => [][\A w \in Writers : Creates(w)]_vars
  BY <1>1, MergeInitInv, MergeNextInv, TypeCorrect, PTL DEF Spec
<1>3. QED
  BY <1>2 DEF RefreshExistingCreatesNothing

-----------------------------------------------------------------------------
(* Runs reconciled in the order they were acquired in.  The argument is     *)
(* about one set of tables and the candidates they hold (Tables): every     *)
(* offer shows the newest of its candidates, and its history ends with that *)
(* quote.  A chunk that is in order (Fits) keeps that; and a chunk is in    *)
(* order because the lock keeps other commits out from the moment the order *)
(* was looked at.                                                           *)

SameKey(c, d) == Store(c) = Store(d) /\ c.row.ean = d.row.ean

\* Every offer shows the newest candidate of its key; at gives a run's instant.
Newest(O, S, at) ==
    /\ \A o \in O : \E c \in S :
        SameOffer(o, c) /\ o.quote = c.row.quote /\ o.at = at[c.run]
    /\ \A o \in O, c \in S : SameOffer(o, c) => at[c.run] <= o.at
    /\ \A c \in S : \E o \in O : SameOffer(o, c)

\* Points belong to offers, none is newer than its offer, and the newest has the
\* offer's quote.
Ends(O, H) ==
    /\ \A h \in H : \E o \in O : o.source = h.source /\ o.ean = h.ean
    /\ \A o \in O : /\ o.quote \in LatestQuotes(H, o.source, o.ean)
                    /\ \A h \in PointsOf(H, o.source, o.ean) : h.at <= o.at

\* Successive points of one offer differ.
Changes(H) ==
    \A g, h \in H :
        /\ g # h /\ g.source = h.source /\ g.ean = h.ean /\ g.at <= h.at
        /\ \A x \in PointsOf(H, g.source, g.ean) : x.at <= g.at \/ x.at >= h.at
        => g.at < h.at /\ g.quote # h.quote

Tables(O, H, S, at) == Newest(O, S, at) /\ Ends(O, H) /\ Changes(H)

\* The candidates of a chunk are no older than those the tables hold, and of the
\* same instant only if they are the same.
Fits(C, S, at) ==
    /\ Keyed(C)
    /\ \A s \in S, c \in C : SameKey(s, c) =>
        /\ at[s.run] <= at[c.run]
        /\ at[s.run] = at[c.run] => s.row.quote = c.row.quote

-----------------------------------------------------------------------------
(* One chunk.                                                               *)

\* Only the instants of the candidates matter.
LEMMA TablesInstants ==
    ASSUME NEW O, NEW H, NEW S, NEW at, NEW bt, Tables(O, H, S, at),
           \A c \in S : bt[c.run] = at[c.run]
    PROVE  Tables(O, H, S, bt)
BY DEF Tables, Newest

\* What the upsert does to one offer.
LEMMA UpsertRows ==
    ASSUME NEW O \in SUBSET Offer, NEW C, NEW K
    PROVE  /\ \A n \in UpsertOffers(O, C, K) :
                \/ \E o \in O : /\ \A c \in C : ~SameOffer(o, c)
                                /\ n.source = o.source /\ n.ean = o.ean
                                /\ n.quote = o.quote /\ n.at = o.at
                \/ \E c \in C : /\ n.source = Store(c) /\ n.ean = c.row.ean
                                /\ n.quote = c.row.quote /\ n.at = started[c.run]
           /\ \A o \in O : (\A c \in C : ~SameOffer(o, c)) =>
                \E n \in UpsertOffers(O, C, K) :
                    /\ n.source = o.source /\ n.ean = o.ean
                    /\ n.quote = o.quote /\ n.at = o.at
           /\ \A c \in C : \E n \in UpsertOffers(O, C, K) :
                /\ n.source = Store(c) /\ n.ean = c.row.ean
                /\ n.quote = c.row.quote /\ n.at = started[c.run]
<1> DEFINE N == UpsertOffers(O, C, K)
           Old == {x \in O : \A c \in C : ~SameOffer(x, c)}
<1>1. \A o \in O : /\ Released(o, K).source = o.source /\ Released(o, K).ean = o.ean
                   /\ Released(o, K).quote = o.quote /\ Released(o, K).at = o.at
  BY DEF Released, Offer
<1>2. \A c \in C : /\ OfferRow(c, K).source = Store(c) /\ OfferRow(c, K).ean = c.row.ean
                   /\ OfferRow(c, K).quote = c.row.quote
                   /\ OfferRow(c, K).at = started[c.run]
  BY DEF OfferRow, Instant
<1>3. N = {Released(o, K) : o \in Old} \cup {OfferRow(c, K) : c \in C}
  BY DEF UpsertOffers
<1> HIDE DEF N
<1>4. ASSUME NEW n \in N
      PROVE  \/ \E o \in Old : n = Released(o, K)
             \/ \E c \in C : n = OfferRow(c, K)
  BY <1>3
<1>5. (\A o \in Old : Released(o, K) \in N) /\ \A c \in C : OfferRow(c, K) \in N
  BY <1>3
<1>6. \A n \in N :
        \/ \E o \in O : /\ \A c \in C : ~SameOffer(o, c)
                        /\ n.source = o.source /\ n.ean = o.ean
                        /\ n.quote = o.quote /\ n.at = o.at
        \/ \E c \in C : /\ n.source = Store(c) /\ n.ean = c.row.ean
                        /\ n.quote = c.row.quote /\ n.at = started[c.run]
  BY <1>1, <1>2, <1>4
<1>7. \A o \in O : (\A c \in C : ~SameOffer(o, c)) =>
        \E n \in N : n.source = o.source /\ n.ean = o.ean /\ n.quote = o.quote /\ n.at = o.at
  BY <1>1, <1>5
<1>8. \A c \in C : \E n \in N :
        /\ n.source = Store(c) /\ n.ean = c.row.ean
        /\ n.quote = c.row.quote /\ n.at = started[c.run]
  BY <1>2, <1>5
<1>9. QED
  BY <1>6, <1>7, <1>8 DEF N

\* No offer is dropped.
LEMMA UpsertDropsNothing ==
    ASSUME NEW O \in SUBSET Offer, NEW C, NEW K, NEW o \in O
    PROVE  \E n \in UpsertOffers(O, C, K) : n.source = o.source /\ n.ean = o.ean
<1>1. CASE \A c \in C : ~SameOffer(o, c)
  BY <1>1, UpsertRows
<1>2. CASE \E c \in C : SameOffer(o, c)
  <2>1. PICK c \in C : o.source = Store(c) /\ o.ean = c.row.ean
    BY <1>2 DEF SameOffer
  <2>2. PICK n \in UpsertOffers(O, C, K) : n.source = Store(c) /\ n.ean = c.row.ean
    BY UpsertRows
  <2>3. QED
    BY <2>1, <2>2
<1>3. QED
  BY <1>1, <1>2

\* After a chunk in order every offer shows the newest candidate.
LEMMA ChunkNewest ==
    ASSUME started \in [Runs -> Nat],
           NEW O \in SUBSET Offer, NEW S \in SUBSET Candidate,
           NEW C \in SUBSET Candidate, NEW K,
           Newest(O, S, started), Fits(C, S, started)
    PROVE  Newest(UpsertOffers(O, C, K), S \cup C, started)
<1> DEFINE N == UpsertOffers(O, C, K)
<1>1. ASSUME NEW n \in N
      PROVE  /\ \E c \in S \cup C : /\ SameOffer(n, c) /\ n.quote = c.row.quote
                                    /\ n.at = started[c.run]
             /\ \A c \in S \cup C : SameOffer(n, c) => started[c.run] <= n.at
  <2>1. CASE \E o \in O : /\ \A c \in C : ~SameOffer(o, c)
                          /\ n.source = o.source /\ n.ean = o.ean
                          /\ n.quote = o.quote /\ n.at = o.at
    BY <2>1 DEF Newest, SameOffer
  <2>2. CASE \E c \in C : /\ n.source = Store(c) /\ n.ean = c.row.ean
                          /\ n.quote = c.row.quote /\ n.at = started[c.run]
    <3>1. PICK c \in C : /\ n.source = Store(c) /\ n.ean = c.row.ean
                         /\ n.quote = c.row.quote /\ n.at = started[c.run]
      BY <2>2
    <3>2. \A d \in S : SameOffer(n, d) => started[d.run] <= n.at
      BY <3>1 DEF Fits, SameKey, SameOffer
    <3>3. \A d \in C : SameOffer(n, d) => d = c
      BY <3>1 DEF Fits, Keyed, SameOffer
    <3>4. started[c.run] \in Nat
      BY DEF Candidate
    <3>5. QED
      BY <3>1, <3>2, <3>3, <3>4 DEF SameOffer
  <2>3. QED
    BY <2>1, <2>2, UpsertRows
<1>2. ASSUME NEW c \in S \cup C PROVE \E n \in N : SameOffer(n, c)
  <2>1. CASE c \in C
    BY <2>1, UpsertRows DEF SameOffer
  <2>2. CASE c \in S
    <3>1. PICK o \in O : SameOffer(o, c)
      BY <2>2 DEF Newest
    <3>2. PICK n \in N : n.source = o.source /\ n.ean = o.ean
      BY UpsertDropsNothing
    <3>3. QED
      BY <3>1, <3>2 DEF SameOffer
  <2>3. QED
    BY <2>1, <2>2
<1> HIDE DEF N
<1>3. Newest(N, S \cup C, started)
  BY <1>1, <1>2 DEF Newest
<1>4. QED
  BY <1>3 DEF N

\* A point is added only for a candidate that comes after all points of its offer.
LEMMA ChunkPoints ==
    ASSUME started \in [Runs -> Nat],
           NEW O \in SUBSET Offer, NEW H \in SUBSET History, NEW S \in SUBSET Candidate,
           NEW C \in SUBSET Candidate,
           Newest(O, S, started), Ends(O, H), Fits(C, S, started), NEW c \in C
    PROVE  /\ \A h \in PointsOf(H, Store(c), c.row.ean) : h.at <= started[c.run]
           /\ c.row.quote \notin LatestQuotes(H, Store(c), c.row.ean) =>
                \A h \in PointsOf(H, Store(c), c.row.ean) : h.at < started[c.run]
<1>1. started[c.run] \in Nat
  BY DEF Candidate
<1>2. ASSUME NEW h \in PointsOf(H, Store(c), c.row.ean)
      PROVE  /\ h.at <= started[c.run]
             /\ c.row.quote \notin LatestQuotes(H, Store(c), c.row.ean) =>
                  h.at # started[c.run]
  <2>1. PICK o \in O : o.source = Store(c) /\ o.ean = c.row.ean
    BY DEF Ends, PointsOf
  <2>2. h.at <= o.at /\ o.quote \in LatestQuotes(H, Store(c), c.row.ean)
    BY <2>1 DEF Ends
  <2>3. PICK s \in S : SameOffer(o, s) /\ o.quote = s.row.quote /\ o.at = started[s.run]
    BY DEF Newest
  <2>4. /\ started[s.run] <= started[c.run]
        /\ started[s.run] = started[c.run] => s.row.quote = c.row.quote
    BY <2>1, <2>3 DEF Fits, SameKey, SameOffer
  <2>5. h.at \in Nat /\ started[s.run] \in Nat
    BY DEF PointsOf, History, Candidate
  <2>6. QED
    BY <1>1, <2>2, <2>3, <2>4, <2>5
<1>3. \A h \in PointsOf(H, Store(c), c.row.ean) : h.at \in Nat
  BY DEF PointsOf, History
<1>4. QED
  BY <1>1, <1>2, <1>3

\* So the history of every offer still ends with its quote.
LEMMA ChunkEnds ==
    ASSUME started \in [Runs -> Nat],
           NEW O \in SUBSET Offer, NEW H \in SUBSET History, NEW S \in SUBSET Candidate,
           NEW C \in SUBSET Candidate, NEW K, NEW k,
           Newest(O, S, started), Ends(O, H), Fits(C, S, started)
    PROVE  Ends(UpsertOffers(O, C, K), H \cup NewPoints(H, C, k))
<1> DEFINE N == UpsertOffers(O, C, K)
           G == H \cup NewPoints(H, C, k)
<1>1. ASSUME NEW g \in G
      PROVE  \/ g \in H
             \/ \E c \in C : /\ g = Point(c, k)
                             /\ c.row.quote \notin LatestQuotes(H, Store(c), c.row.ean)
  BY DEF NewPoints
<1>2. \A c : /\ Point(c, k).source = Store(c) /\ Point(c, k).ean = c.row.ean
             /\ Point(c, k).quote = c.row.quote /\ Point(c, k).at = started[c.run]
  BY DEF Point, Instant
<1>3. \A c \in C : c.row.quote \notin LatestQuotes(H, Store(c), c.row.ean) => Point(c, k) \in G
  BY DEF NewPoints
<1>4. ASSUME NEW g \in G PROVE \E n \in N : n.source = g.source /\ n.ean = g.ean
  <2>1. CASE g \in H
    <3>1. PICK o \in O : o.source = g.source /\ o.ean = g.ean
      BY <2>1 DEF Ends
    <3>2. PICK n \in N : n.source = o.source /\ n.ean = o.ean
      BY UpsertDropsNothing
    <3>3. QED
      BY <3>1, <3>2
  <2>2. CASE \E c \in C : g = Point(c, k)
    <3>1. PICK c \in C : g = Point(c, k)
      BY <2>2
    <3>2. PICK n \in N : n.source = Store(c) /\ n.ean = c.row.ean
      BY UpsertRows
    <3>3. QED
      BY <1>2, <3>1, <3>2
  <2>3. QED
    BY <1>1, <2>1, <2>2
<1>5. ASSUME NEW n \in N, NEW o \in O, \A c \in C : ~SameOffer(o, c),
             n.source = o.source, n.ean = o.ean, n.quote = o.quote, n.at = o.at
      PROVE  /\ n.quote \in LatestQuotes(G, n.source, n.ean)
             /\ \A h \in PointsOf(G, n.source, n.ean) : h.at <= n.at
  <2>1. PointsOf(G, o.source, o.ean) = PointsOf(H, o.source, o.ean)
    <3>1. ASSUME NEW g \in PointsOf(G, o.source, o.ean) PROVE g \in H
      BY <1>1, <1>2, <1>5 DEF PointsOf, SameOffer
    <3>2. QED
      BY <3>1 DEF PointsOf
  <2>2. LatestQuotes(G, o.source, o.ean) = LatestQuotes(H, o.source, o.ean)
    BY <2>1 DEF LatestQuotes
  <2>3. QED
    BY <1>5, <2>1, <2>2 DEF Ends
<1>6. ASSUME NEW n \in N, NEW c \in C, n.source = Store(c), n.ean = c.row.ean,
             n.quote = c.row.quote, n.at = started[c.run]
      PROVE  /\ n.quote \in LatestQuotes(G, n.source, n.ean)
             /\ \A h \in PointsOf(G, n.source, n.ean) : h.at <= n.at
  <2>1. started[c.run] \in Nat
    BY DEF Candidate
  <2>2. ASSUME NEW h \in PointsOf(G, Store(c), c.row.ean)
        PROVE  h \in PointsOf(H, Store(c), c.row.ean) \/ h = Point(c, k)
    <3>1. ASSUME NEW d \in C, h = Point(d, k) PROVE d = c
      BY <1>2, <3>1 DEF PointsOf, Fits, Keyed
    <3>2. QED
      BY <1>1, <3>1 DEF PointsOf
  <2>3. ASSUME NEW h \in PointsOf(G, Store(c), c.row.ean) PROVE h.at <= started[c.run]
    <3>1. CASE h \in PointsOf(H, Store(c), c.row.ean)
      BY <3>1, ChunkPoints
    <3>2. CASE h = Point(c, k)
      BY <1>2, <2>1, <3>2
    <3>3. QED
      BY <2>2, <3>1, <3>2
  <2>4. CASE c.row.quote \in LatestQuotes(H, Store(c), c.row.ean)
    <3>1. \A h \in PointsOf(G, Store(c), c.row.ean) : h \in PointsOf(H, Store(c), c.row.ean)
      <4>1. ASSUME NEW h \in PointsOf(G, Store(c), c.row.ean), h \notin H PROVE FALSE
        <5>1. PICK d \in C : /\ h = Point(d, k)
                             /\ d.row.quote \notin LatestQuotes(H, Store(d), d.row.ean)
          BY <1>1, <4>1 DEF PointsOf
        <5>2. d = c
          BY <1>2, <5>1 DEF PointsOf, Fits, Keyed
        <5>3. QED
          BY <2>4, <5>1, <5>2
      <4>2. QED
        BY <4>1 DEF PointsOf
    <3>2. PointsOf(G, Store(c), c.row.ean) = PointsOf(H, Store(c), c.row.ean)
      BY <3>1 DEF PointsOf
    <3>3. c.row.quote \in LatestQuotes(G, Store(c), c.row.ean)
      BY <2>4, <3>2 DEF LatestQuotes
    <3>4. QED
      BY <1>6, <2>3, <3>3
  <2>5. CASE c.row.quote \notin LatestQuotes(H, Store(c), c.row.ean)
    <3>1. Point(c, k) \in PointsOf(G, Store(c), c.row.ean)
      BY <1>2, <1>3, <2>5 DEF PointsOf
    <3>2. c.row.quote \in LatestQuotes(G, Store(c), c.row.ean)
      BY <1>2, <2>3, <3>1 DEF LatestQuotes
    <3>3. QED
      BY <1>6, <2>3, <3>2
  <2>6. QED
    BY <2>4, <2>5
<1> HIDE DEF N, G
<1>7. Ends(N, G)
  <2>1. ASSUME NEW n \in N
        PROVE  /\ n.quote \in LatestQuotes(G, n.source, n.ean)
               /\ \A h \in PointsOf(G, n.source, n.ean) : h.at <= n.at
    <3>1. CASE \E o \in O : /\ \A c \in C : ~SameOffer(o, c)
                            /\ n.source = o.source /\ n.ean = o.ean
                            /\ n.quote = o.quote /\ n.at = o.at
      BY <3>1, <1>5
    <3>2. CASE \E c \in C : /\ n.source = Store(c) /\ n.ean = c.row.ean
                            /\ n.quote = c.row.quote /\ n.at = started[c.run]
      BY <3>2, <1>6
    <3>3. QED
      BY <3>1, <3>2, UpsertRows DEF N
  <2>2. QED
    BY <1>4, <2>1 DEF Ends
<1>8. QED
  BY <1>7 DEF N, G

\* And its successive points still differ.
LEMMA ChunkChanges ==
    ASSUME started \in [Runs -> Nat],
           NEW O \in SUBSET Offer, NEW H \in SUBSET History, NEW S \in SUBSET Candidate,
           NEW C \in SUBSET Candidate, NEW k,
           Newest(O, S, started), Ends(O, H), Changes(H), Fits(C, S, started)
    PROVE  Changes(H \cup NewPoints(H, C, k))
<1> DEFINE G == H \cup NewPoints(H, C, k)
           Fresh(c) == c.row.quote \notin LatestQuotes(H, Store(c), c.row.ean)
<1>1. ASSUME NEW g \in G PROVE g \in H \/ \E c \in C : g = Point(c, k) /\ Fresh(c)
  BY DEF NewPoints
<1>2. \A c : /\ Point(c, k).source = Store(c) /\ Point(c, k).ean = c.row.ean
             /\ Point(c, k).quote = c.row.quote /\ Point(c, k).at = started[c.run]
  BY DEF Point, Instant
<1>3. H \subseteq G
  OBVIOUS
<1> HIDE DEF G
<1> SUFFICES ASSUME NEW g \in G, NEW h \in G,
                    g # h, g.source = h.source, g.ean = h.ean, g.at <= h.at,
                    \A x \in PointsOf(G, g.source, g.ean) : x.at <= g.at \/ x.at >= h.at
             PROVE  g.at < h.at /\ g.quote # h.quote
  BY DEF Changes, G
<1>4. CASE g \in H /\ h \in H
  <2>1. \A x \in PointsOf(H, g.source, g.ean) : x.at <= g.at \/ x.at >= h.at
    BY <1>3 DEF PointsOf
  <2>2. QED
    BY <1>4, <2>1 DEF Changes
<1>5. CASE g \in H /\ \E c \in C : h = Point(c, k) /\ Fresh(c)
  <2>1. PICK c \in C : h = Point(c, k) /\ Fresh(c)
    BY <1>5
  <2>2. h.source = Store(c) /\ h.ean = c.row.ean /\ h.quote = c.row.quote
        /\ h.at = started[c.run]
    BY <1>2, <2>1
  <2>3. g \in PointsOf(H, Store(c), c.row.ean)
    BY <1>5, <2>2 DEF PointsOf
  <2>4. \A x \in PointsOf(H, Store(c), c.row.ean) : x.at < started[c.run]
    BY <2>1, ChunkPoints
  <2>5. \A x \in PointsOf(H, Store(c), c.row.ean) : x.at <= g.at
    <3>1. ASSUME NEW x \in PointsOf(H, Store(c), c.row.ean) PROVE x.at <= g.at
      <4>1. x \in PointsOf(G, g.source, g.ean)
        BY <1>3, <2>3 DEF PointsOf
      <4>2. x.at <= g.at \/ x.at >= started[c.run]
        BY <2>2, <4>1
      <4>3. x.at < started[c.run] /\ x.at \in Nat /\ started[c.run] \in Nat
        BY <2>4 DEF PointsOf, History, Candidate
      <4>4. QED
        BY <4>2, <4>3
    <3>2. QED
      BY <3>1
  <2>6. g.quote \in LatestQuotes(H, Store(c), c.row.ean)
    BY <2>3, <2>5 DEF LatestQuotes
  <2>7. g.quote # h.quote
    BY <2>1, <2>2, <2>6
  <2>8. QED
    BY <2>2, <2>3, <2>4, <2>7
<1>6. CASE h \in H /\ \E c \in C : g = Point(c, k) /\ Fresh(c)
  <2>1. PICK c \in C : g = Point(c, k) /\ Fresh(c)
    BY <1>6
  <2>2. h \in PointsOf(H, Store(c), c.row.ean) /\ g.at = started[c.run]
    BY <1>2, <1>6, <2>1 DEF PointsOf
  <2>3. h.at < started[c.run] /\ h.at \in Nat /\ started[c.run] \in Nat
    BY <2>1, <2>2, ChunkPoints DEF PointsOf, History, Candidate
  <2>4. QED
    BY <2>2, <2>3
<1>7. CASE (\E c \in C : g = Point(c, k)) /\ (\E d \in C : h = Point(d, k))
  <2>1. PICK c \in C, d \in C : g = Point(c, k) /\ h = Point(d, k)
    BY <1>7
  <2>2. c = d
    BY <1>2, <2>1 DEF Fits, Keyed
  <2>3. QED
    BY <2>1, <2>2
<1>8. QED
  BY <1>1, <1>4, <1>5, <1>6, <1>7

\* A chunk brings no offer back in time.
Ahead(O, N) ==
    \A o \in O : \E n \in N : n.source = o.source /\ n.ean = o.ean /\ n.at >= o.at

\* Several chunks are as good as one.
LEMMA AheadTwice ==
    ASSUME NEW O \in SUBSET Offer, NEW N \in SUBSET Offer, NEW M \in SUBSET Offer,
           Ahead(O, N), Ahead(N, M)
    PROVE  Ahead(O, M)
<1> SUFFICES ASSUME NEW o \in O
             PROVE  \E m \in M : m.source = o.source /\ m.ean = o.ean /\ m.at >= o.at
  BY DEF Ahead
<1>1. PICK n \in N : n.source = o.source /\ n.ean = o.ean /\ n.at >= o.at
  BY DEF Ahead
<1>2. PICK m \in M : m.source = n.source /\ m.ean = n.ean /\ m.at >= n.at
  BY DEF Ahead
<1>3. o.at \in Nat /\ n.at \in Nat /\ m.at \in Nat
  BY DEF Offer
<1>4. QED
  BY <1>1, <1>2, <1>3

\* A row of a chunk in order replaces an older one.
LEMMA ChunkAhead ==
    ASSUME started \in [Runs -> Nat],
           NEW O \in SUBSET Offer, NEW S \in SUBSET Candidate,
           NEW C \in SUBSET Candidate, NEW K,
           Newest(O, S, started), Fits(C, S, started)
    PROVE  Ahead(O, UpsertOffers(O, C, K))
<1> DEFINE N == UpsertOffers(O, C, K)
<1>1. ASSUME NEW o \in O
      PROVE  \E n \in N : n.source = o.source /\ n.ean = o.ean /\ n.at >= o.at
  <2>1. CASE \A c \in C : ~SameOffer(o, c)
    <3>1. PICK n \in N : n.source = o.source /\ n.ean = o.ean /\ n.at = o.at
      BY <2>1, UpsertRows
    <3>2. o.at \in Nat
      BY DEF Offer
    <3>3. QED
      BY <3>1, <3>2
  <2>2. CASE \E c \in C : SameOffer(o, c)
    <3>1. PICK c \in C : SameOffer(o, c)
      BY <2>2
    <3>2. PICK s \in S : SameOffer(o, s) /\ o.at = started[s.run]
      BY DEF Newest
    <3>3. started[s.run] <= started[c.run]
      BY <3>1, <3>2 DEF Fits, SameKey, SameOffer
    <3>4. PICK n \in N : n.source = Store(c) /\ n.ean = c.row.ean /\ n.at = started[c.run]
      BY UpsertRows
    <3>5. started[s.run] \in Nat /\ started[c.run] \in Nat
      BY DEF Candidate
    <3>6. QED
      BY <3>1, <3>2, <3>3, <3>4, <3>5 DEF SameOffer
  <2>3. QED
    BY <2>1, <2>2
<1> HIDE DEF N
<1>2. Ahead(O, N)
  BY <1>1 DEF Ahead
<1>3. QED
  BY <1>2 DEF N

\* What an offer is apart from its SKU.
Stripped(O) == {[o EXCEPT !.sku = None] : o \in O}

\* Two offers that differ in their SKU only.
LEMMA SameStripped ==
    ASSUME NEW o \in Offer, NEW n \in Offer,
           n.source = o.source, n.ean = o.ean, n.quote = o.quote, n.at = o.at
    PROVE  [n EXCEPT !.sku = None] = [o EXCEPT !.sku = None]
BY DEF Offer

\* Two tables whose offers differ in their SKUs only.
LEMMA StrippedEqual ==
    ASSUME NEW O \in SUBSET Offer, NEW N \in SUBSET Offer,
           \A n \in N : \E o \in O : /\ n.source = o.source /\ n.ean = o.ean
                                     /\ n.quote = o.quote /\ n.at = o.at,
           \A o \in O : \E n \in N : /\ n.source = o.source /\ n.ean = o.ean
                                     /\ n.quote = o.quote /\ n.at = o.at
    PROVE  Stripped(N) = Stripped(O)
<1>1. ASSUME NEW n \in N PROVE [n EXCEPT !.sku = None] \in Stripped(O)
  <2>1. PICK o \in O : /\ n.source = o.source /\ n.ean = o.ean
                       /\ n.quote = o.quote /\ n.at = o.at
    OBVIOUS
  <2>2. [n EXCEPT !.sku = None] = [o EXCEPT !.sku = None]
    BY <2>1, SameStripped
  <2>3. QED
    BY <2>2, Zenon DEF Stripped
<1>2. ASSUME NEW o \in O PROVE [o EXCEPT !.sku = None] \in Stripped(N)
  <2>1. PICK n \in N : /\ n.source = o.source /\ n.ean = o.ean
                       /\ n.quote = o.quote /\ n.at = o.at
    OBVIOUS
  <2>2. [n EXCEPT !.sku = None] = [o EXCEPT !.sku = None]
    BY <2>1, SameStripped
  <2>3. QED
    BY <2>2, Zenon DEF Stripped
<1>3. QED
  BY <1>1, <1>2, Zenon DEF Stripped

\* Candidates the tables hold already write nothing new.
LEMMA ChunkReplay ==
    ASSUME started \in [Runs -> Nat],
           NEW O \in SUBSET Offer, NEW H \in SUBSET History, NEW S \in SUBSET Candidate,
           NEW C \in SUBSET S, NEW K, NEW k,
           Newest(O, S, started), Ends(O, H), Fits(C, S, started)
    PROVE  /\ NewPoints(H, C, k) = {}
           /\ Stripped(UpsertOffers(O, C, K)) = Stripped(O)
<1> DEFINE N == UpsertOffers(O, C, K)
<1>1. ASSUME NEW o \in O, NEW c \in C, SameOffer(o, c)
      PROVE  o.quote = c.row.quote /\ o.at = started[c.run]
  <2>1. PICK s \in S : SameOffer(o, s) /\ o.quote = s.row.quote /\ o.at = started[s.run]
    BY DEF Newest
  <2>2. /\ started[s.run] <= started[c.run]
        /\ started[s.run] = started[c.run] => s.row.quote = c.row.quote
    BY <1>1, <2>1 DEF Fits, SameKey, SameOffer
  <2>3. started[c.run] <= o.at
    BY <1>1 DEF Newest
  <2>4. started[s.run] \in Nat /\ started[c.run] \in Nat
    BY DEF Candidate
  <2>5. QED
    BY <2>1, <2>2, <2>3, <2>4
<1>2. \A c \in C : \E o \in O : SameOffer(o, c)
  BY DEF Newest
<1>3. ASSUME NEW c \in C PROVE c.row.quote \in LatestQuotes(H, Store(c), c.row.ean)
  BY <1>1, <1>2 DEF Ends, SameOffer
<1>4. NewPoints(H, C, k) = {}
  BY <1>3 DEF NewPoints
<1>5. N \in SUBSET Offer
  BY OffersType
<1>6. ASSUME NEW n \in N
      PROVE  \E o \in O : /\ n.source = o.source /\ n.ean = o.ean
                          /\ n.quote = o.quote /\ n.at = o.at
  <2>1. CASE \E c \in C : /\ n.source = Store(c) /\ n.ean = c.row.ean
                          /\ n.quote = c.row.quote /\ n.at = started[c.run]
    BY <2>1, <1>1, <1>2 DEF SameOffer
  <2>2. QED
    BY <2>1, UpsertRows
<1>7. ASSUME NEW o \in O
      PROVE  \E n \in N : /\ n.source = o.source /\ n.ean = o.ean
                          /\ n.quote = o.quote /\ n.at = o.at
  <2>1. CASE \E c \in C : SameOffer(o, c)
    <3>1. PICK c \in C : SameOffer(o, c)
      BY <2>1
    <3>2. PICK n \in N : /\ n.source = Store(c) /\ n.ean = c.row.ean
                         /\ n.quote = c.row.quote /\ n.at = started[c.run]
      BY UpsertRows
    <3>3. o.quote = c.row.quote /\ o.at = started[c.run]
      BY <1>1, <3>1
    <3>4. QED
      BY <3>1, <3>2, <3>3 DEF SameOffer
  <2>2. QED
    BY <2>1, UpsertRows
<1> HIDE DEF N
<1>8. Stripped(N) = Stripped(O)
  BY <1>5, <1>6, <1>7, StrippedEqual
<1>9. QED
  BY <1>4, <1>8 DEF N

-----------------------------------------------------------------------------
(* The invariant.                                                           *)

\* The candidate is what its run left in staging.
Staged(c) == started[c.run] > 0 /\ c.row \in staging[c.run]

\* What the tables of the transaction hold.
Held(w) == promoted \cup (tx[w].rows \ tx[w].todo)

\* The lock holder's batch comes after everything committed, its tables are ahead
\* of the committed ones, and a replay has not changed them.
OpenInv(w) ==
    /\ tx[w].todo \subseteq tx[w].rows
    /\ Keyed(tx[w].rows)
    /\ \A c \in tx[w].rows : Staged(c)
    /\ \A s \in promoted, c \in tx[w].rows :
         Store(s) = Store(c) => started[s.run] <= started[c.run]
    /\ Tables(tx[w].offers, tx[w].history, Held(w), started)
    /\ Ahead(offers, tx[w].offers)
    /\ tx[w].rows \subseteq promoted =>
         tx[w].history = history /\ Stripped(tx[w].offers) = Stripped(offers)

OrderInv ==
    /\ TypeOK
    /\ StagingKeyed
    /\ \A r \in Runs : started[r] <= clock
    /\ \A r, q \in Runs : started[r] = started[q] /\ started[r] > 0 => r = q
    /\ \A v, w \in Writers : IsOpen(v) /\ IsOpen(w) => v = w
    /\ \A c \in promoted : Staged(c)
    /\ Tables(offers, history, promoted, started)
    /\ \A w \in Writers : IsOpen(w) => OpenInv(w)

\* The initial states satisfy the invariant.
LEMMA OrderInitInv == Init => OrderInv
<1> SUFFICES ASSUME Init PROVE OrderInv
  OBVIOUS
<1>1. TypeOK
  BY NoTxType DEF Init, TypeOK
<1>2. Tables(offers, history, promoted, started)
  BY DEF Init, Tables, Newest, Ends, Changes
<1>3. \A w \in Writers : ~IsOpen(w)
  BY DEF Init, IsOpen, NoTx
<1>4. QED
  BY <1>1, <1>2, <1>3 DEF Init, OrderInv, StagingKeyed

\* A chunk of the lock holder is in order.
LEMMA ChunkFits ==
    ASSUME OrderInv, NEW w \in Writers, IsOpen(w), NEW C \in SUBSET tx[w].todo
    PROVE  Fits(C, Held(w), started)
<1> USE DEF OrderInv
<1>1. OpenInv(w)
  OBVIOUS
<1>2. Keyed(tx[w].rows) /\ C \subseteq tx[w].rows
  BY <1>1 DEF OpenInv
<1>3. Keyed(C)
  BY <1>2 DEF Keyed
<1>4. ASSUME NEW s \in Held(w), NEW c \in C, SameKey(s, c)
      PROVE  /\ started[s.run] <= started[c.run]
             /\ started[s.run] = started[c.run] => s.row.quote = c.row.quote
  <2>1. CASE s \in promoted
    <3>1. s.run \in Runs /\ c.run \in Runs /\ Staged(s) /\ Staged(c)
      BY <1>1, <1>2, <2>1 DEF OpenInv, TypeOK, TxRecord, Candidate
    <3>2. started[s.run] <= started[c.run]
      BY <1>1, <1>2, <1>4, <2>1 DEF OpenInv, SameKey
    <3>3. ASSUME started[s.run] = started[c.run] PROVE s.row = c.row
      BY <1>4, <3>1, <3>3 DEF Staged, StagingKeyed, SameKey
    <3>4. QED
      BY <3>2, <3>3
  <2>2. CASE s \in tx[w].rows \ tx[w].todo
    BY <1>2, <1>4, <2>2 DEF Keyed, SameKey
  <2>3. QED
    BY <2>1, <2>2 DEF Held
<1>5. QED
  BY <1>3, <1>4 DEF Fits

\* A new run is of no candidate that is there already.
LEMMA AcquireOrder ==
    ASSUME OrderInv, TypeOK', NEW r \in Runs, NEW f \in Fetches, Acquire(r, f)
    PROVE  OrderInv'
<1> USE DEF OrderInv
<1>1. /\ started[r] = 0 /\ clock' = clock + 1 /\ clock \in Nat
      /\ started' = [started EXCEPT ![r] = clock + 1]
      /\ staging' = [staging EXCEPT ![r] = f]
      /\ UNCHANGED <<promoted, products, offers, history, opened, tx>>
  BY DEF Acquire, catalog, TypeOK
<1>2. started \in [Runs -> Nat] /\ staging \in [Runs -> SUBSET Fetched]
  BY DEF TypeOK
<1>3. StagingKeyed'
  BY <1>1, <1>2, ConstantsOK DEF StagingKeyed
<1>4. /\ \A q \in Runs : started'[q] <= clock'
      /\ \A p, q \in Runs : started'[p] = started'[q] /\ started'[p] > 0 => p = q
  BY <1>1, <1>2
<1>5. ASSUME NEW c \in Candidate, Staged(c)
      PROVE  started'[c.run] = started[c.run] /\ Staged(c)'
  BY <1>1, <1>2, <1>5 DEF Candidate, Staged
<1>6. (\A c \in promoted : Staged(c))' /\ Tables(offers, history, promoted, started)'
  <2>1. \A c \in promoted : started'[c.run] = started[c.run] /\ Staged(c)'
    BY <1>5 DEF TypeOK
  <2>2. Tables(offers, history, promoted, started')
    BY <2>1, TablesInstants
  <2>3. QED
    BY <1>1, <2>1, <2>2
<1>7. ASSUME NEW w \in Writers, IsOpen(w) PROVE OpenInv(w)'
  <2>1. OpenInv(w)
    BY <1>7
  <2>2. \A c \in promoted \cup tx[w].rows :
          started'[c.run] = started[c.run] /\ Staged(c)'
    BY <1>5, <2>1 DEF TypeOK, TxRecord, OpenInv
  <2>3. Tables(tx[w].offers, tx[w].history, Held(w), started')
    BY <2>1, <2>2, TablesInstants DEF OpenInv, Held
  <2>4. Held(w)' = Held(w)
    BY <1>1 DEF Held
  <2>5. Tables(tx[w].offers, tx[w].history, Held(w), started)'
    BY <1>1, <2>3, <2>4
  <2>6. QED
    BY <1>1, <2>1, <2>2, <2>5 DEF OpenInv
<1>8. QED
  BY <1>1, <1>3, <1>4, <1>6, <1>7 DEF IsOpen

\* The order of a batch is looked at under the lock.
LEMMA BeginOrder ==
    ASSUME OrderInv, TypeOK', NEW w \in Writers, NEW R \in SUBSET Runs, NEW mode \in Modes,
           InOrder(R), Begin(w, R, mode)
    PROVE  OrderInv'
<1> USE DEF OrderInv
<1> DEFINE C == Candidates(R)
<1>1. /\ tx'[w].rows = C /\ tx'[w].todo = C
      /\ tx'[w].offers = offers /\ tx'[w].history = history
      /\ \A v \in Writers \ {w} : tx'[v] = tx[v]
      /\ UNCHANGED <<clock, started, staging, promoted, products, offers, history>>
      /\ IsBatch(R)
  BY DEF Begin, TypeOK, catalog
<1>2. \A v \in Writers : ~IsOpen(v)
  BY DEF Begin, LockFree
<1>3. Keyed(C)
  BY <1>1, CandidatesKeyed
<1>4. ASSUME NEW c \in C PROVE Staged(c) /\ c.run \in R
  BY <1>1 DEF Candidates, Staged, IsBatch
<1>5. ASSUME NEW s \in promoted, NEW c \in C, Store(s) = Store(c)
      PROVE  started[s.run] <= started[c.run]
  <2>1. s.run \in Runs /\ Reconciled(s.run)
    BY DEF TypeOK, Candidate, Reconciled
  <2>2. QED
    BY <1>4, <1>5, <2>1 DEF InOrder, Store
<1>6. Held(w)' = promoted
  BY <1>1 DEF Held
<1>7. Ahead(offers, offers)
  BY DEF Ahead, TypeOK, Offer
<1> HIDE DEF C
<1>8. OpenInv(w)'
  <2>1. Tables(tx[w].offers, tx[w].history, Held(w), started)'
    BY <1>1, <1>6
  <2>2. (Ahead(offers, tx[w].offers))'
    BY <1>1, <1>7
  <2>3. (\A c \in tx[w].rows : Staged(c))'
    BY <1>1, <1>4 DEF Staged
  <2>4. (Keyed(tx[w].rows))'
    BY <1>1, <1>3 DEF Keyed, Store
  <2>5. QED
    BY <1>1, <1>5, <2>1, <2>2, <2>3, <2>4 DEF OpenInv, Store
<1>9. Tables(offers, history, promoted, started)'
  BY <1>1
<1>10. QED
  BY <1>1, <1>2, <1>8, <1>9 DEF IsOpen, StagingKeyed, Staged

\* A chunk keeps everything the invariant says of the lock holder's tables.
LEMMA ChunkOrder ==
    ASSUME OrderInv, TypeOK', NEW w \in Writers, Chunk(w)
    PROVE  OrderInv'
<1> USE DEF OrderInv
<1> PICK C \in SUBSET tx[w].todo :
        \E K \in Owners(C), M \in Canonicals(C) :
            tx' = [tx EXCEPT ![w] = ApplyChunk(tx[w], C, K, M)]
  BY DEF Chunk
<1> PICK K \in Owners(C), M \in Canonicals(C) :
        tx' = [tx EXCEPT ![w] = ApplyChunk(tx[w], C, K, M)]
  OBVIOUS
<1> DEFINE O == tx[w].offers
           H == tx[w].history
           N == UpsertOffers(O, C, K)
           G == H \cup NewPoints(H, C, tx[w].id)
           S == Held(w)
<1>1. /\ tx'[w].runs = tx[w].runs /\ tx'[w].rows = tx[w].rows
      /\ tx'[w].todo = tx[w].todo \ C
      /\ tx'[w].offers = N /\ tx'[w].history = G
      /\ \A v \in Writers \ {w} : tx'[v] = tx[v]
  BY DEF ApplyChunk, TypeOK, TxRecord
<1>2. /\ IsOpen(w)
      /\ UNCHANGED <<clock, started, staging, promoted, products, offers, history>>
  BY DEF Chunk, catalog
<1>3. OpenInv(w)
  BY <1>2
<1>4. /\ started \in [Runs -> Nat] /\ O \in SUBSET Offer /\ H \in SUBSET History
      /\ offers \in SUBSET Offer
      /\ C \in SUBSET Candidate /\ S \in SUBSET Candidate
  BY DEF TypeOK, TxRecord, Held
<1>5. Newest(O, S, started) /\ Ends(O, H) /\ Changes(H)
  BY <1>3 DEF OpenInv, Tables
<1>6. Fits(C, S, started)
  BY <1>2, ChunkFits
<1>7. N \in SUBSET Offer
  BY <1>4, OffersType
<1>8. Tables(N, G, S \cup C, started)
  BY <1>4, <1>5, <1>6, ChunkNewest, ChunkEnds, ChunkChanges DEF Tables
<1>9. Ahead(offers, N)
  BY <1>3, <1>4, <1>5, <1>6, <1>7, ChunkAhead, AheadTwice DEF OpenInv
<1>10. ASSUME tx[w].rows \subseteq promoted
       PROVE  G = history /\ Stripped(N) = Stripped(offers)
  <2>1. C \in SUBSET S
    BY <1>3, <1>10 DEF OpenInv, Held
  <2>2. H = history /\ Stripped(O) = Stripped(offers)
    BY <1>3, <1>10 DEF OpenInv
  <2> HIDE DEF O, H, S
  <2>3. NewPoints(H, C, tx[w].id) = {}
    BY <1>4, <1>5, <1>6, <2>1, ChunkReplay
  <2>4. Stripped(UpsertOffers(O, C, K)) = Stripped(O)
    BY <1>4, <1>5, <1>6, <2>1, ChunkReplay
  <2>5. QED
    BY <2>2, <2>3, <2>4
<1>11. Held(w)' = S \cup C
  BY <1>1, <1>2, <1>3 DEF Held, OpenInv
<1> HIDE DEF O, H, N, G, S
<1>12. OpenInv(w)'
  <2>1. Tables(tx[w].offers, tx[w].history, Held(w), started)'
    BY <1>1, <1>2, <1>8, <1>11
  <2>2. (Ahead(offers, tx[w].offers))'
    BY <1>1, <1>2, <1>9
  <2>3. (tx[w].rows \subseteq promoted =>
           tx[w].history = history /\ Stripped(tx[w].offers) = Stripped(offers))'
    BY <1>1, <1>2, <1>10
  <2>4. /\ tx[w].todo \subseteq tx[w].rows
        /\ Keyed(tx[w].rows) /\ \A c \in tx[w].rows : Staged(c)
        /\ \A s \in promoted, c \in tx[w].rows :
             Store(s) = Store(c) => started[s.run] <= started[c.run]
    BY <1>3 DEF OpenInv
  <2>5. QED
    BY <1>1, <1>2, <2>1, <2>2, <2>3, <2>4 DEF OpenInv, Keyed, Store, Staged
<1>13. \A v \in Writers : IsOpen(v)' => v = w
  BY <1>1, <1>2 DEF IsOpen
<1>14. Tables(offers, history, promoted, started)' /\ (\A c \in promoted : Staged(c))'
  BY <1>2 DEF Staged
<1>15. QED
  BY <1>2, <1>12, <1>13, <1>14 DEF StagingKeyed

\* A commit puts the lock holder's tables in place.
LEMMA CommitOrder ==
    ASSUME OrderInv, TypeOK', NEW w \in Writers, Commit(w)
    PROVE  OrderInv'
<1> USE DEF OrderInv
<1>1. /\ IsOpen(w) /\ tx[w].todo = {}
      /\ offers' = tx[w].offers /\ history' = tx[w].history
      /\ promoted' = promoted \cup tx[w].rows
      /\ UNCHANGED <<clock, started, staging>>
      /\ tx'[w].runs = {} /\ \A v \in Writers \ {w} : tx'[v] = tx[v]
  BY DEF Commit, TypeOK, NoTx
<1>2. OpenInv(w) /\ \A v \in Writers \ {w} : ~IsOpen(v)
  BY <1>1
<1>3. \A v \in Writers : ~IsOpen(v)'
  BY <1>1, <1>2 DEF IsOpen
<1>4. Held(w) = promoted'
  BY <1>1 DEF Held
<1>5. Tables(offers, history, promoted, started)'
  BY <1>1, <1>2, <1>4 DEF OpenInv
<1>6. (\A c \in promoted : Staged(c))'
  BY <1>1, <1>2 DEF OpenInv, Staged
<1>7. QED
  BY <1>1, <1>3, <1>5, <1>6 DEF StagingKeyed

\* A rollback leaves the committed tables alone.
LEMMA RollbackOrder ==
    ASSUME OrderInv, TypeOK', NEW w \in Writers, Rollback(w)
    PROVE  OrderInv'
<1> USE DEF OrderInv
<1>1. /\ UNCHANGED <<clock, started, staging, promoted, offers, history>>
      /\ IsOpen(w)
      /\ tx'[w].runs = {} /\ \A v \in Writers \ {w} : tx'[v] = tx[v]
  BY DEF Rollback, TypeOK, NoTx, catalog
<1>2. \A v \in Writers : ~IsOpen(v)'
  BY <1>1 DEF IsOpen
<1>3. Tables(offers, history, promoted, started)' /\ (\A c \in promoted : Staged(c))'
  BY <1>1 DEF Staged
<1>4. QED
  BY <1>1, <1>2, <1>3 DEF StagingKeyed

\* Every step of a behaviour in order preserves it.
LEMMA OrderNextInv == OrderInv /\ TypeOK' /\ [NextInOrder]_vars => OrderInv'
<1> SUFFICES ASSUME OrderInv, TypeOK', [NextInOrder]_vars PROVE OrderInv'
  OBVIOUS
<1>1. CASE AcquireSome
  BY <1>1, AcquireOrder DEF AcquireSome
<1>2. ASSUME NEW w \in Writers, BeginInOrder(w) PROVE OrderInv'
  BY <1>2, BeginOrder DEF BeginInOrder
<1>3. ASSUME NEW w \in Writers, Work(w) PROVE OrderInv'
  BY <1>3, ChunkOrder, CommitOrder, RollbackOrder DEF Work
<1>4. CASE UNCHANGED vars
  <2>1. UNCHANGED <<clock, started, staging, promoted, offers, history, tx>>
    BY <1>4 DEF vars, catalog
  <2>2. Tables(offers, history, promoted, started)' /\ (\A c \in promoted : Staged(c))'
    BY <2>1 DEF OrderInv, Staged
  <2>3. ASSUME NEW w \in Writers, IsOpen(w) PROVE OpenInv(w)'
    <3>1. OpenInv(w) /\ Held(w)' = Held(w)
      BY <2>1, <2>3 DEF OrderInv, Held
    <3>2. QED
      BY <2>1, <3>1 DEF OpenInv, Staged
  <2>4. QED
    BY <2>1, <2>2, <2>3 DEF OrderInv, IsOpen, StagingKeyed
<1>5. QED
  BY <1>1, <1>2, <1>3, <1>4 DEF NextInOrder

\* A behaviour in order is a behaviour.
LEMMA InOrderIsSpec == SpecInOrder => Spec
<1>1. [NextInOrder]_vars => [Next]_vars
  BY DEF NextInOrder, Next, BeginInOrder, BeginSome
<1>2. QED
  BY <1>1, PTL DEF SpecInOrder, Spec

\* So it always holds.
LEMMA OrderInvariant == SpecInOrder => []OrderInv
BY OrderInitInv, OrderNextInv, InOrderIsSpec, TypeCorrect, PTL DEF SpecInOrder

-----------------------------------------------------------------------------
\* In order, the price shown is the newest point of the price history.
THEOREM OfferIsLatestPointCorrect == SpecInOrder => []OfferIsLatestPoint
<1>1. OrderInv => OfferIsLatestPoint
  BY DEF OrderInv, Tables, Ends, OfferIsLatestPoint
<1>2. QED
  BY <1>1, OrderInvariant, PTL

\* In order, the history records changes only.
THEOREM HistoryRecordsChangesCorrect == SpecInOrder => []HistoryRecordsChanges
<1>1. OrderInv => HistoryRecordsChanges
  BY DEF OrderInv, Tables, Changes, HistoryRecordsChanges, Successive
<1>2. QED
  BY <1>1, OrderInvariant, PTL

\* Offers change at a commit only.
LEMMA OffersChangeAtCommits ==
    ASSUME [NextInOrder]_vars, offers' # offers
    PROVE  \E w \in Writers : Commit(w)
BY DEF NextInOrder, AcquireSome, BeginInOrder, Work, Acquire, Begin, Chunk, Rollback,
       vars, catalog

\* In order, last_checked_at never goes back and no offer is dropped.
THEOREM LastCheckedCorrect == SpecInOrder => LastCheckedNeverGoesBack
<1>1. ASSUME OrderInv, [NextInOrder]_vars PROVE Ahead(offers, offers')
  <2>1. CASE offers' = offers
    BY <1>1, <2>1 DEF Ahead, OrderInv, TypeOK, Offer
  <2>2. CASE offers' # offers
    <3>1. PICK w \in Writers : Commit(w)
      BY <1>1, <2>2, OffersChangeAtCommits
    <3>2. IsOpen(w) /\ offers' = tx[w].offers
      BY <3>1 DEF Commit
    <3>3. QED
      BY <1>1, <3>2 DEF OrderInv, OpenInv
  <2>3. QED
    BY <2>1, <2>2
<1>2. SpecInOrder => [][Ahead(offers, offers')]_vars
  BY <1>1, OrderInvariant, PTL DEF SpecInOrder
<1>3. QED
  BY <1>2 DEF LastCheckedNeverGoesBack, Ahead

\* In order, replaying what is promoted writes no point and moves no price.
THEOREM ReplayCorrect == SpecInOrder => ReplayChangesNothing
<1> DEFINE Replay(w) ==
      Commit(w) /\ tx[w].rows \subseteq promoted =>
        /\ history' = history
        /\ {[o EXCEPT !.sku = None] : o \in offers'} =
           {[o EXCEPT !.sku = None] : o \in offers}
<1>1. ASSUME OrderInv PROVE \A w \in Writers : Replay(w)
  <2> SUFFICES ASSUME NEW w \in Writers, Commit(w), tx[w].rows \subseteq promoted
               PROVE  history' = history /\ Stripped(offers') = Stripped(offers)
    BY Zenon DEF Stripped
  <2>1. IsOpen(w) /\ offers' = tx[w].offers /\ history' = tx[w].history
    BY DEF Commit
  <2>2. QED
    BY <1>1, <2>1 DEF OrderInv, OpenInv
<1>2. SpecInOrder => [][\A w \in Writers : Replay(w)]_vars
  BY <1>1, OrderInvariant, PTL DEF SpecInOrder
<1>3. QED
  BY <1>2 DEF ReplayChangesNothing
=============================================================================
