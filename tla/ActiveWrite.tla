----------------------------- MODULE ActiveWrite -----------------------------
(***************************************************************************)
(* The gated direct refresh of one store: direct-refresh-prewrite-gate.ts  *)
(* predicts, in a report, what a refresh of the oldest offers would write; *)
(* an operator confirms the report by its hash; direct-refresh-write.ts    *)
(* runs the gate again, refuses when the new report differs, and applies   *)
(* the predicted changes in one transaction under the store's own lock.    *)
(*                                                                         *)
(* That lock is not the one of the reconciliation, which is here one       *)
(* action on the same offers (Reconcile describes it in full).  The report *)
(* names only fields that differ, so a field the gate found equal is not   *)
(* written at all.                                                         *)
(*                                                                         *)
(* A quote is price and list price; 0 stands for no positive price and,    *)
(* among live lookups, for any answer the row guards reject (none, several,*)
(* another EAN, SKU or host).  Every event that takes an instant takes a   *)
(* new one.                                                                *)
(***************************************************************************)
EXTENDS Naturals, FiniteSets

CONSTANTS
    Rows,        \* ids of the store's existing offers
    Quotes,      \* prices an observation may find, 0 for none
    Writers,     \* processes of the write command
    Count,       \* rows of a batch
    ScanSize,    \* candidates the gate looks at
    MaxDelta,    \* percent a live price may differ from the stored one
    MaxAge,      \* instants a report is good for
    NewOffers,   \* numbers of offers a reconciliation may create
    Overlap,     \* other writers may commit between a rerun and its commit
    MaxClock     \* bound: instants of one behaviour

ASSUME ActiveWriteOK ==
    /\ Rows \subseteq Nat \ {0}
    /\ IsFiniteSet(Rows)
    /\ Quotes \subseteq Nat
    /\ Count \in Nat \ {0}
    /\ ScanSize \in Nat /\ ScanSize >= Count
    /\ NewOffers \subseteq Nat
    /\ MaxDelta \in Nat /\ MaxAge \in Nat /\ MaxClock \in Nat
    /\ Overlap \in BOOLEAN

VARIABLES
    clock,      \* the newest instant anything took
    offers,     \* supermarket_products: quote, instant, whether the SKU is held
    history,    \* price_history
    nextId,     \* the id sequence of price_history
    created,    \* offers created since the beginning
    report,     \* the report the operator has confirmed
    job,        \* each write process
    run,        \* an acquired run waiting for its reconciliation
    seen,       \* history variable: quotes observed in the store, with instants
    writes      \* history variable: reports committed, with the instant

vars == <<clock, offers, history, nextId, created, report, job, run,
          seen, writes>>

NoReport == [gen |-> 0]
NoRun == [at |-> 0]
Idle == [pc |-> "idle"]

PcIs(w, S) == job[w].pc \in S

-----------------------------------------------------------------------------
(* The gate.                                                               *)

PointsOf(r) == {h \in history : h.row = r}

\* The newest point of the offer's history, and its quote.
Newest(r) == {x \in PointsOf(r) : \A y \in PointsOf(r) : y.at <= x.at}

Latest(r) == {h.quote : h \in Newest(r)}

\* 0 when there is no point yet.
MaxHistoryId ==
    IF history = {} THEN 0
    ELSE CHOOSE i \in {h.id : h \in history} : \A h \in history : h.id <= i

\* orderBy last_checked_at, id
Older(table, q, r) ==
    \/ table[q].at < table[r].at
    \/ table[q].at = table[r].at /\ q < r

First(S, n) == {r \in S : Cardinality({q \in S : Older(offers, q, r)}) < n}

\* listOldestPublicRankableRows
Candidates == First({r \in Rows : offers[r].quote > 0}, ScanSize)

Distance(p, q) == IF p < q THEN q - p ELSE p - q

\* What fetchVtexDirectProducts may come to for each candidate's SKU, after its
\* retries; 0 also when they are used up.
Lookups == [Candidates -> Quotes]

\* The flags of evaluatePrewriteRow: the row has its SKU, the lookup found its
\* product with a positive price, and the price is near the stored one.
Passes(r, live) ==
    /\ offers[r].sku
    /\ live > 0
    /\ Distance(live, offers[r].quote) * 100 <= MaxDelta * offers[r].quote

Viable(live) == {r \in Candidates : Passes(r, live[r])}

\* selectPrewriteRows: a wider scan skips the rows that fail.
Selected(live) == IF ScanSize > Count THEN First(Viable(live), Count) ELSE Candidates

\* Mutant: no point for a quote the offer ever had.
InsertsUnseen(r, q) == \A h \in PointsOf(r) : h.quote # q

\* shouldInsertHistory
Inserts(r, q) == q \notin Latest(r)

\* The rows a report describes: the selected ones and those the scan skipped.  A
\* viable row beyond the batch is only counted.
Covered(live) == Selected(live) \cup (Candidates \ Viable(live))

\* buildDirectRefreshPrewriteGate, everything its hash covers.
Evaluate(live, t) ==
    LET selected == Selected(live)
        covered == Covered(live)
    IN [gen     |-> t,
        rows    |-> selected,
        before  |-> [r \in covered |-> offers[r]],
        newest  |-> [r \in covered |-> Newest(r)],
        live    |-> [r \in covered |-> live[r]],
        insert  |-> {r \in selected : Inserts(r, live[r])},
        scanned |-> Cardinality(Candidates),
        maxId   |-> MaxHistoryId]

\* status PASS with exactly the rows asked for.
Accepted(rep, live) ==
    /\ Cardinality(rep.rows) = Count
    /\ rep.rows \subseteq Viable(live)

\* The gate runs and the operator confirms its report.
Gate ==
    /\ clock < MaxClock
    /\ clock' = clock + 1
    /\ \E live \in Lookups :
        /\ report' = Evaluate(live, clock')
        /\ Accepted(report', live)
        /\ seen' = seen \cup {<<r, live[r], clock'>> : r \in Candidates}
    /\ UNCHANGED <<offers, history, nextId, created, job, run, writes>>

-----------------------------------------------------------------------------
(* The write.                                                              *)

Quiet(w) == \A v \in Writers \ {w} : PcIs(v, {"idle"})

\* Mutant: the rerun compares only the rows it selects.
MatchesRows(rep) == \E live \in Lookups : Selected(live) = rep.rows

\* assertFreshPrewriteRerunMatches: the hash of the new report is the old one.
Matches(rep) == \E live \in Lookups : Evaluate(live, rep.gen) = rep

Rerun(w) ==
    /\ PcIs(w, {"idle"})
    /\ report # NoReport
    /\ Matches(report)
    /\ Overlap \/ Quiet(w)
    /\ job' = [job EXCEPT ![w] = [pc |-> "rerun", rep |-> report]]
    /\ UNCHANGED <<clock, offers, history, nextId, created, report, run,
                   seen, writes>>

\* executeActiveWrite: the age of the report.  A kill switch that stops the store
\* refuses here, which is an Abort.
Launch(w) ==
    /\ PcIs(w, {"rerun"})
    /\ clock < MaxClock
    /\ clock' = clock + 1
    /\ clock' - job[w].rep.gen <= MaxAge
    /\ job' = [job EXCEPT ![w] =
                 [pc |-> "launched", rep |-> job[w].rep, started |-> clock']]
    /\ UNCHANGED <<offers, history, nextId, created, report, run, seen,
                   writes>>

\* pg_try_advisory_xact_lock on the store's key.
LockFree(w) == \A v \in Writers \ {w} : ~PcIs(v, {"writing"})

Writing(rep, started, base, todo, points) ==
    [pc |-> "writing", rep |-> rep, started |-> started, base |-> base,
     todo |-> todo, points |-> points]

\* readSelectedRowsByExactIdentity finds every row under its id, EAN and SKU.
IdentitiesHold(rows) == \A r \in rows : offers[r].sku

\* loadSelectedRowsForActiveWrite
Lock(w) ==
    /\ PcIs(w, {"launched"})
    /\ LockFree(w)
    /\ IdentitiesHold(job[w].rep.rows)
    /\ job' = [job EXCEPT ![w] =
                 Writing(job[w].rep, job[w].started, created, job[w].rep.rows, {})]
    /\ UNCHANGED <<clock, offers, history, nextId, created, report, run,
                   seen, writes>>

\* Mutant: the number of updated rows is not looked at.
UpdatedUnchecked(r) == TRUE

\* updateSupermarketProductByExactIdentity finds the row under its SKU.
Updated(r) == offers[r].sku

NewPoint(w, r) ==
    [row |-> r, quote |-> job[w].rep.live[r], at |-> job[w].started, id |-> nextId]

\* applyPrewriteRow, row after row of the report.  The row stays locked.
UpdateRow(w, r) ==
    /\ PcIs(w, {"writing"})
    /\ r \in job[w].todo
    /\ \A q \in job[w].todo : ~Older(job[w].rep.before, q, r)
    /\ Updated(r)
    /\ LET inserts == r \in job[w].rep.insert
       IN /\ nextId' = IF inserts THEN nextId + 1 ELSE nextId
          /\ job' = [job EXCEPT ![w] =
                Writing(job[w].rep, job[w].started, job[w].base, job[w].todo \ {r},
                        IF inserts THEN job[w].points \cup {NewPoint(w, r)}
                                   ELSE job[w].points)]
    /\ UNCHANGED <<clock, offers, history, created, report, run, seen,
                   writes>>

\* Only the fields the report lists as changed are written.
Written(rep, r) ==
    [offers[r] EXCEPT
        !.quote = IF rep.live[r] # rep.before[r].quote THEN rep.live[r] ELSE @,
        !.at    = IF rep.gen # rep.before[r].at THEN rep.gen ELSE @]

\* assertNoCreateCounts: nobody has created an offer meanwhile.
Finish(w) ==
    /\ PcIs(w, {"writing"})
    /\ job[w].todo = {}
    /\ created = job[w].base
    /\ offers' = [r \in Rows |-> IF r \in job[w].rep.rows
                                 THEN Written(job[w].rep, r) ELSE offers[r]]
    /\ history' = history \cup job[w].points
    /\ writes' = writes \cup {[gen |-> job[w].rep.gen, at |-> job[w].started]}
    /\ job' = [job EXCEPT ![w] = Idle]
    /\ UNCHANGED <<clock, nextId, created, report, run, seen>>

\* A guard fails, the transaction times out or the process dies.
Abort(w) ==
    /\ ~PcIs(w, {"idle"})
    /\ job' = [job EXCEPT ![w] = Idle]
    /\ UNCHANGED <<clock, offers, history, nextId, created, report, run,
                   seen, writes>>

-----------------------------------------------------------------------------
(* The rest of the system.                                                 *)

\* A run of the store is acquired and staged.
Acquire(quotes) ==
    /\ run = NoRun
    /\ clock < MaxClock
    /\ clock' = clock + 1
    /\ run' = [at |-> clock', quotes |-> quotes]
    /\ seen' = seen \cup {<<r, quotes[r], clock'>> : r \in DOMAIN quotes}
    /\ UNCHANGED <<offers, history, nextId, created, report, job, writes>>

LockedRows == UNION {job[w].rep.rows \ job[w].todo : w \in {v \in Writers : PcIs(v, {"writing"})}}

\* Its reconciliation commits: offers and changed quotes of the rows it saw, the
\* SKUs other EANs take, perhaps a new offer.  Row locks make it wait.
Reconcile(lost, new) ==
    /\ run # NoRun
    /\ Overlap \/ \A w \in Writers : PcIs(w, {"idle"})
    /\ LET S == DOMAIN run.quotes
           N == {r \in S : run.quotes[r] \notin Latest(r)}
           IdOf(r) == nextId + Cardinality({q \in N : q < r})
       IN /\ lost \cap S = {}
          /\ (lost \cup S) \cap LockedRows = {}
          /\ offers' = [r \in Rows |->
                IF r \in S THEN [quote |-> run.quotes[r], at |-> run.at, sku |-> TRUE]
                ELSE [offers[r] EXCEPT !.sku = @ /\ r \notin lost]]
          /\ history' = history \cup
                {[row |-> r, quote |-> run.quotes[r], at |-> run.at, id |-> IdOf(r)] : r \in N}
          /\ nextId' = nextId + Cardinality(N)
    /\ created' = created + new
    /\ run' = NoRun
    /\ UNCHANGED <<clock, report, job, seen, writes>>

-----------------------------------------------------------------------------
Init ==
    /\ clock = 0
    /\ \E q \in [Rows -> Quotes] :
        /\ offers = [r \in Rows |-> [quote |-> q[r], at |-> 0, sku |-> TRUE]]
        /\ history = {[row |-> r, quote |-> q[r], at |-> 0, id |-> 1 + Cardinality({p \in Rows : p < r})] : r \in Rows}
        /\ seen = {<<r, q[r], 0>> : r \in Rows}
    /\ nextId = 1 + Cardinality(Rows)
    /\ created = 0
    /\ report = NoReport
    /\ job = [w \in Writers |-> Idle]
    /\ run = NoRun
    /\ writes = {}

Write(w) ==
    \/ Rerun(w) \/ Launch(w) \/ Lock(w)
    \/ \E r \in Rows : UpdateRow(w, r)
    \/ Finish(w) \/ Abort(w)

AcquireSome == \E S \in SUBSET Rows \ {{}} : \E quotes \in [S -> Quotes] : Acquire(quotes)

ReconcileSome == \E lost \in SUBSET Rows, new \in NewOffers : Reconcile(lost, new)

Next ==
    \/ Gate
    \/ \E w \in Writers : Write(w)
    \/ AcquireSome
    \/ ReconcileSome

Spec == Init /\ [][Next]_vars
-----------------------------------------------------------------------------
(* Properties.                                                              *)

OfferRec == [quote : Quotes, at : Nat, sku : BOOLEAN]
HistoryRec == [row : Rows, quote : Quotes, at : Nat, id : Nat]

IsReport(x) ==
    /\ DOMAIN x = {"gen", "rows", "before", "newest", "live", "insert", "scanned", "maxId"}
    /\ x.gen \in Nat
    /\ x.before \in [DOMAIN x.before -> OfferRec]
    /\ x.live \in [DOMAIN x.before -> Quotes]
    /\ DOMAIN x.before \subseteq Rows
    /\ x.rows \subseteq DOMAIN x.before
    /\ x.insert \subseteq x.rows

IsRun(x) ==
    /\ DOMAIN x = {"at", "quotes"}
    /\ x.at \in Nat
    /\ x.quotes \in [DOMAIN x.quotes -> Quotes]
    /\ DOMAIN x.quotes \subseteq Rows

TypeOK ==
    /\ clock \in 0..MaxClock
    /\ offers \in [Rows -> OfferRec]
    /\ history \subseteq HistoryRec
    /\ nextId \in Nat
    /\ created \in Nat
    /\ report = NoReport \/ IsReport(report)
    /\ run = NoRun \/ IsRun(run)
    /\ seen \subseteq Rows \X Quotes \X Nat
    /\ writes \subseteq [gen : Nat, at : Nat]
    /\ DOMAIN job = Writers
    /\ \A w \in Writers :
        \/ job[w] = Idle
        \/ /\ PcIs(w, {"rerun", "launched", "writing"})
           /\ IsReport(job[w].rep)
           /\ PcIs(w, {"launched", "writing"}) => job[w].started \in Nat
           /\ PcIs(w, {"writing"}) =>
                /\ job[w].base \in Nat
                /\ job[w].todo \subseteq job[w].rep.rows
                /\ job[w].points \subseteq HistoryRec

\* With nobody else between rerun and commit, a report is written at most once,
\* however often it is confirmed again, by a retry after a crash or by another
\* operator: the rerun sees what the first write left.
WrittenOnce == \A x, y \in writes : x.gen = y.gen => x = y

\* After a commit the newest history point of every row it wrote is the quote the
\* offer shows.
WrittenIsLatestPoint ==
    [][\A w \in Writers : Finish(w) =>
        \A r \in job[w].rep.rows : offers'[r].quote \in Latest(r)']_vars

\* The rollback boundary of the report (deleteRowsWithIdGreaterThan) separates at
\* the commit exactly the points of this write from everybody else's.
RollbackDeletesOnlyTheWrite ==
    [][\A w \in Writers : Finish(w) =>
        {h \in history' : h.id > job[w].rep.maxId} = job[w].points]_vars

\* Whoever else commits during the write: its commit leaves every row of the
\* report under its SKU with the report's instant, and a point where one was
\* predicted; never some of them.
CommitIsWhole ==
    [][\A w \in Writers : Finish(w) =>
        \A r \in job[w].rep.rows :
            /\ offers'[r].sku
            /\ offers'[r].at = job[w].rep.gen
            /\ r \in job[w].rep.insert =>
                 \E h \in history' : h.row = r /\ h.quote = job[w].rep.live[r]
                                     /\ h.at = job[w].started]_vars

\* An offer shows a quote that was observed at the very instant it carries, even
\* though the write sets only the fields that differ.
OfferIsSeen == \A r \in Rows : <<r, offers[r].quote, offers[r].at>> \in seen

\* What holds of the tables while nobody commits between a rerun and its commit.
QuietInv == TypeOK /\ WrittenOnce /\ OfferIsSeen
=============================================================================
