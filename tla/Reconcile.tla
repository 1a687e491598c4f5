------------------------------ MODULE Reconcile ------------------------------
(***************************************************************************)
(* The catalog tables and the only transaction that fills them from the    *)
(* staging table: reconcileStageProducts of scripts/pipeline/reconcile.ts. *)
(*                                                                         *)
(* Tables are sets of rows, as in SQL.  An acquisition run of one store    *)
(* leaves validated rows in staging; a writer (the daily refresh, the      *)
(* batch command, the ingestion command) opens a transaction under one     *)
(* advisory lock, loads the candidates of its runs, applies them chunk by  *)
(* chunk and commits, or loses everything.  How the runs and the           *)
(* checkpoints around the transaction behave is CatalogBatch's subject.    *)
(*                                                                         *)
(* One row of a staged run per EAN: the adapters collect products in a map *)
(* keyed by EAN.  price and list_price are one value here, the quote.      *)
(***************************************************************************)
EXTENDS Naturals, FiniteSets

CONSTANTS
    Sources,     \* store slugs
    Eans,        \* canonical GTIN-14 product identities
    Skus,        \* store-side SKU identifiers
    Quotes,      \* observed price and list price, "no price" included
    Texts,       \* product texts (brand, category)
    Runs,        \* ingestion runs that may be acquired
    Writers,     \* processes that reconcile
    None,        \* SQL NULL
    SourceOf,    \* the store a run reads
    Fetches,     \* the validated results a run may leave in staging
    BatchSize,   \* candidates per chunk
    MaxCommits   \* bound: transactions opened in one behaviour

OrNull(S) == S \cup {None}

Fetched == [ean : Eans, quote : Quotes, sku : OrNull(Skus),
            brand : OrNull(Texts), category : OrNull(Texts), score : Nat,
            verdict : {"PENDING", "REJECTED"}]

ASSUME ConstantsOK ==
    /\ None \notin Skus \cup Texts
    /\ SourceOf \in [Runs -> Sources]
    /\ Fetches \subseteq SUBSET Fetched
    /\ \A f \in Fetches : \A x, y \in f : x.ean = y.ean => x = y
    /\ BatchSize \in Nat \ {0}
    /\ MaxCommits \in Nat

VARIABLES
    clock,      \* a run starts at a new instant
    started,    \* ingestion_run.started_at, 0 before the run exists
    staging,    \* staging_product rows of each run, as validated
    promoted,   \* the staging rows whose status is PROMOTED
    products, offers, history,   \* the catalog tables
    opened,     \* transactions opened so far (bounded by MaxCommits)
    tx          \* each writer's transaction: its runs and uncommitted tables

vars == <<clock, started, staging, promoted, products, offers, history,
          opened, tx>>

catalog == <<products, offers, history>>

Modes == {"standard", "refresh-existing"}
Candidate == [run : Runs, row : Fetched]
Product   == [ean : Eans, brand : OrNull(Texts), category : OrNull(Texts)]
Offer     == [source : Sources, ean : Eans, quote : Quotes,
              sku : OrNull(Skus), at : Nat]
History   == [source : Sources, ean : Eans, quote : Quotes, at : Nat, tx : Nat]

TxRecord  == [runs : SUBSET Runs, mode : Modes, id : Nat,
              rows : SUBSET Candidate, todo : SUBSET Candidate,
              products : SUBSET Product, offers : SUBSET Offer,
              history : SUBSET History]

NoTx == [runs |-> {}, mode |-> "standard", id |-> 0, rows |-> {}, todo |-> {},
         products |-> {}, offers |-> {}, history |-> {}]

IsOpen(w) == tx[w].runs # {}

-----------------------------------------------------------------------------
(* The statements of one chunk, over the tables the transaction sees.      *)

Store(c) == SourceOf[c.run]

SameOffer(o, c) == o.source = Store(c) /\ o.ean = c.row.ean

SameSku(c, d) == Store(c) = Store(d) /\ c.row.sku = d.row.sku

\* Rows come back in no particular order, so any one of the rows that claim a
\* SKU inside the chunk may be the last and keep it.
Owners(C) ==
    {K \in SUBSET {c \in C : c.row.sku # None} :
        \A c \in C : c.row.sku # None =>
            \E k \in K : SameSku(k, c) /\ \A j \in K : SameSku(j, c) => j = k}

\* One candidate per EAN, of the best quality score, speaks for the product.
Canonicals(C) ==
    {M \in SUBSET C :
        /\ \A c \in C : \E m \in M : m.row.ean = c.row.ean
        /\ \A m, n \in M : m.row.ean = n.row.ean => m = n
        /\ \A m \in M, c \in C : c.row.ean = m.row.ean => c.row.score <= m.row.score}

NewProduct(m) ==
    [ean |-> m.row.ean, brand |-> m.row.brand, category |-> m.row.category]

\* Mutant: a known brand is replaced.
MergedReplacing(p, m) ==
    [p EXCEPT !.brand = m.row.brand,
              !.category = IF m.row.category = None THEN p.category
                                                    ELSE m.row.category]

\* buildProtectiveMerge: a brand only fills a blank, a category replaces.
Merged(p, m) ==
    [p EXCEPT !.brand = IF p.brand = None THEN m.row.brand ELSE p.brand,
              !.category = IF m.row.category = None THEN p.category
                                                    ELSE m.row.category]

UpsertProducts(P, M) ==
    {p \in P : \A m \in M : m.row.ean # p.ean}
    \cup {NewProduct(m) : m \in {n \in M : \A p \in P : p.ean # n.row.ean}}
    \cup {Merged(x[1], x[2]) : x \in {y \in P \X M : y[1].ean = y[2].row.ean}}

\* Mutant: no offer gives its SKU up.
ReleasedNever(o, K) == o

\* releaseReassignedSkus: every other offer of the store gives the SKU up.
Released(o, K) ==
    IF \E k \in K : Store(k) = o.source /\ k.row.sku = o.sku /\ k.row.ean # o.ean
    THEN [o EXCEPT !.sku = None] ELSE o

\* Mutant: the instant the pipeline got around to processing.
InstantOfWrite(c) == clock

\* observationInstantFor: the instant the acquisition run started.
Instant(c) == started[c.run]

OfferRow(c, K) ==
    [source |-> Store(c), ean |-> c.row.ean, quote |-> c.row.quote,
     sku |-> IF c \in K THEN c.row.sku ELSE None, at |-> Instant(c)]

\* Mutant: the offer that loses its SKU is deleted.
UpsertOffersDeleting(O, C, K) ==
    {o \in O : Released(o, K) = o /\ \A c \in C : ~SameOffer(o, c)}
    \cup {OfferRow(c, K) : c \in C}

UpsertOffers(O, C, K) ==
    {Released(o, K) : o \in {x \in O : \A c \in C : ~SameOffer(x, c)}}
    \cup {OfferRow(c, K) : c \in C}

PointsOf(H, s, e) == {h \in H : h.source = s /\ h.ean = e}

LatestQuotes(H, s, e) ==
    {h.quote : h \in {x \in PointsOf(H, s, e) :
                        \A y \in PointsOf(H, s, e) : y.at <= x.at}}

Point(c, n) ==
    [source |-> Store(c), ean |-> c.row.ean, quote |-> c.row.quote,
     at |-> Instant(c), tx |-> n]

\* Mutants: only the first point of an offer; a point for every observation; no
\* point for a quote the offer ever had.
NewPointsOnce(H, C, n) ==
    {Point(c, n) : c \in {d \in C : PointsOf(H, Store(d), d.row.ean) = {}}}

NewPointsAlways(H, C, n) == {Point(c, n) : c \in C}

NewPointsUnseen(H, C, n) ==
    {Point(c, n) : c \in {d \in C :
        \A h \in PointsOf(H, Store(d), d.row.ean) : h.quote # d.row.quote}}

\* shouldInsertHistory: a point only when the quote differs from the latest.
NewPoints(H, C, n) ==
    {Point(c, n) :
        c \in {d \in C : d.row.quote \notin LatestQuotes(H, Store(d), d.row.ean)}}

-----------------------------------------------------------------------------
Init ==
    /\ clock = 0
    /\ started = [r \in Runs |-> 0]
    /\ staging = [r \in Runs |-> {}]
    /\ promoted = {}
    /\ products = {} /\ offers = {} /\ history = {}
    /\ opened = 0
    /\ tx = [w \in Writers |-> NoTx]

\* A run is created, its products are staged and validated.
Acquire(r, f) ==
    /\ started[r] = 0
    /\ clock' = clock + 1
    /\ started' = [started EXCEPT ![r] = clock']
    /\ staging' = [staging EXCEPT ![r] = f]
    /\ UNCHANGED <<promoted, catalog, opened, tx>>

\* Mutant: rejected rows are candidates too.
CandidatesUnfiltered(R) ==
    UNION {{[run |-> r, row |-> x] : x \in staging[r]} : r \in R}

\* loadCandidates: everything the gates did not reject, promoted rows included.
Candidates(R) ==
    UNION {{[run |-> r, row |-> x] :
              x \in {y \in staging[r] : y.verdict = "PENDING"}} : r \in R}

\* Mutant: the transaction does not take the lock.
LockIgnored == TRUE

\* pg_try_advisory_xact_lock succeeds while no other transaction holds the key.
LockFree == \A w \in Writers : ~IsOpen(w)

\* Mutant: only the products are looked up.
PreflightProducts(mode, C) ==
    mode = "refresh-existing" =>
        \A c \in C : \E p \in products : p.ean = c.row.ean

\* assertRefreshExistingPreflight: the rows to refresh must all exist.
Preflight(mode, C) ==
    mode = "refresh-existing" =>
        \A c \in C : /\ \E p \in products : p.ean = c.row.ean
                     /\ \E o \in offers : SameOffer(o, c)

\* The runs of one batch: at most one per store.
IsBatch(R) ==
    /\ R # {}
    /\ \A r \in R : started[r] > 0
    /\ \A r, q \in R : SourceOf[r] = SourceOf[q] => r = q

Begin(w, R, mode) ==
    /\ ~IsOpen(w)
    /\ LockFree
    /\ IsBatch(R)
    /\ Preflight(mode, Candidates(R))
    /\ opened < MaxCommits
    /\ opened' = opened + 1
    /\ tx' = [tx EXCEPT ![w] =
                [runs |-> R, mode |-> mode, id |-> opened', rows |-> Candidates(R),
                 todo |-> Candidates(R), products |-> products,
                 offers |-> offers, history |-> history]]
    /\ UNCHANGED <<clock, started, staging, promoted, catalog>>

IsChunk(C, todo) ==
    /\ C \subseteq todo
    /\ C # {}
    /\ Cardinality(C) <= BatchSize
    /\ Cardinality(C) = BatchSize \/ C = todo

\* reconcileChunk: products, then SKUs and offers, then history.
ApplyChunk(t, C, K, M) ==
    [t EXCEPT !.todo = t.todo \ C,
              !.products = UpsertProducts(t.products, M),
              !.offers = UpsertOffers(t.offers, C, K),
              !.history = t.history \cup NewPoints(t.history, C, t.id)]

Chunk(w) ==
    /\ IsOpen(w)
    /\ \E C \in SUBSET tx[w].todo :
        /\ IsChunk(C, tx[w].todo)
        /\ \E K \in Owners(C), M \in Canonicals(C) :
             tx' = [tx EXCEPT ![w] = ApplyChunk(tx[w], C, K, M)]
    /\ UNCHANGED <<clock, started, staging, promoted, catalog, opened>>

Commit(w) ==
    /\ IsOpen(w)
    /\ tx[w].todo = {}
    /\ products' = tx[w].products
    /\ offers' = tx[w].offers
    /\ history' = tx[w].history
    /\ promoted' = promoted \cup tx[w].rows
    /\ tx' = [tx EXCEPT ![w] = NoTx]
    /\ UNCHANGED <<clock, started, staging, opened>>

\* The transaction times out, its connection drops or its process dies.
Rollback(w) ==
    /\ IsOpen(w)
    /\ tx' = [tx EXCEPT ![w] = NoTx]
    /\ UNCHANGED <<clock, started, staging, promoted, catalog, opened>>

AcquireSome == \E r \in Runs, f \in Fetches : Acquire(r, f)
BeginSome(w) == \E R \in SUBSET Runs, mode \in Modes : Begin(w, R, mode)

Work(w) == Chunk(w) \/ Commit(w) \/ Rollback(w)

Next ==
    \/ AcquireSome
    \/ \E w \in Writers : BeginSome(w) \/ Work(w)

Spec == Init /\ [][Next]_vars

-----------------------------------------------------------------------------
(* The daily refresh alone: its batches are acquired and reconciled one     *)
(* after the other, so no run is reconciled after a later run of its store. *)

Reconciled(r) == \E c \in promoted : c.run = r

InOrder(R) ==
    \A r \in R, q \in Runs :
        SourceOf[q] = SourceOf[r] /\ Reconciled(q) => started[q] <= started[r]

BeginInOrder(w) ==
    \E R \in SUBSET Runs, mode \in Modes : InOrder(R) /\ Begin(w, R, mode)

NextInOrder ==
    \/ AcquireSome
    \/ \E w \in Writers : BeginInOrder(w) \/ Work(w)

SpecInOrder == Init /\ [][NextInOrder]_vars

-----------------------------------------------------------------------------
(* Properties.                                                              *)

TypeOK ==
    /\ clock \in Nat
    /\ started \in [Runs -> Nat]
    /\ staging \in [Runs -> SUBSET Fetched]
    /\ promoted \subseteq Candidate
    /\ products \subseteq Product
    /\ offers \subseteq Offer
    /\ history \subseteq History
    /\ opened \in Nat
    /\ tx \in [Writers -> TxRecord]

OneOfferPerKey(O) ==
    \A o, p \in O : o.source = p.source /\ o.ean = p.ean => o = p

OneEanPerSku(O) ==
    \A o, p \in O : o.source = p.source /\ o.sku = p.sku /\ o.sku # None => o = p

\* A store SKU names at most one offer, after every statement of every
\* transaction: releaseReassignedSkus never leaves the unique index on
\* (supermarket_id, sku_id) anything to reject, whatever SKUs the stores swap.
SkuUnique ==
    /\ OneOfferPerKey(offers) /\ OneEanPerSku(offers)
    /\ \A w \in Writers : OneOfferPerKey(tx[w].offers) /\ OneEanPerSku(tx[w].offers)

\* The offer carries this candidate's quote and instant.
Shows(o, c) == SameOffer(o, c) /\ o.quote = c.row.quote /\ o.at = Instant(c)

\* What the site shows was seen: every offer carries the quote and the instant
\* of one admitted staging row of its own store and EAN, never a mixture.
OfferIsObservation ==
    \A o \in offers : \E c \in promoted : c.row.verdict = "PENDING" /\ Shows(o, c)

\* The product and the offer of a candidate are in the given tables.
Visible(c, P, O) ==
    /\ \E p \in P : p.ean = c.row.ean
    /\ \E o \in O : SameOffer(o, c)

\* A promoted staging row stays visible: no later transaction, committed or
\* rolled back, makes its product or its offer disappear.
PromotedIsVisible == \A c \in promoted : Visible(c, products, offers)

\* The chart never lacks the current price: the quote an offer shows is among
\* the points of its price history, in whatever order runs are reconciled.
OfferQuoteIsInHistory ==
    \A o \in offers : \E h \in PointsOf(history, o.source, o.ean) : h.quote = o.quote

\* A refresh-existing transaction creates no product and no offer, although the
\* preflight that refuses to looks only once, before the first chunk.
RefreshExistingCreatesNothing ==
    [][\A w \in Writers : Commit(w) /\ tx[w].mode = "refresh-existing" =>
        /\ {p.ean : p \in products'} = {p.ean : p \in products}
        /\ {<<o.source, o.ean>> : o \in offers'} = {<<o.source, o.ean>> : o \in offers}]_vars

\* A product's brand, once known, is never blanked or replaced, and a category
\* never goes back to blank, across the runs of all stores.
ProtectiveMerge ==
    [][\A p \in products : \E q \in products' :
        /\ q.ean = p.ean
        /\ p.brand # None => q.brand = p.brand
        /\ p.category # None => q.category # None]_vars

\* While runs are reconciled in acquisition order last_checked_at never goes
\* back and no offer is dropped.
LastCheckedNeverGoesBack ==
    [][\A o \in offers : \E n \in offers' :
        n.source = o.source /\ n.ean = o.ean /\ n.at >= o.at]_vars

\* While runs are reconciled in acquisition order the price shown is the newest
\* point of the price history.
OfferIsLatestPoint ==
    \A o \in offers : o.quote \in LatestQuotes(history, o.source, o.ean)

\* Two points of one offer with none observed in between.
Successive(g, h) ==
    /\ g # h /\ g.source = h.source /\ g.ean = h.ean /\ g.at <= h.at
    /\ \A x \in PointsOf(history, g.source, g.ean) : x.at <= g.at \/ x.at >= h.at

\* While runs are reconciled in acquisition order price_history records changes
\* only: two successive points of an offer differ, and no instant is written twice.
HistoryRecordsChanges ==
    \A g, h \in history :
        Successive(g, h) => g.at < h.at /\ g.quote # h.quote

\* Reconciling the store's newest run again (a replay after a crash) writes no
\* new history point and moves no price or instant.
ReplayChangesNothing ==
    [][\A w \in Writers : Commit(w) /\ tx[w].rows \subseteq promoted =>
        /\ history' = history
        /\ {[o EXCEPT !.sku = None] : o \in offers'} =
           {[o EXCEPT !.sku = None] : o \in offers}]_vars
=============================================================================
