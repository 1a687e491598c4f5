---------------------------- MODULE EvidenceChain ----------------------------
(***************************************************************************)
(* What has to be true before a gated direct refresh may write: the        *)
(* capacity audit (direct-refresh-capacity.ts) reports how many offers of  *)
(* a store could be refreshed, the source health audit reads that report,  *)
(* the pre-write gate may be bound to it as evidence                       *)
(* (direct-refresh-capacity-lineage.ts), and the writer reads report,      *)
(* evidence and kill switch (direct-refresh-kill-switch.ts) once more.     *)
(* All of these are files somebody may replace between two steps.          *)
(*                                                                         *)
(* The transaction itself is ActiveWrite's subject and one action here.  A *)
(* file's hash stands for its content, so files are compared as a whole,   *)
(* and the operator confirms the report that is there when the writer      *)
(* starts: any other is refused.  The control file of the kill switch may  *)
(* say something else each time it is read.                                *)
(* Every event that takes an instant takes a new one; the unit of the      *)
(* bounds on age is left open.                                             *)
(***************************************************************************)
EXTENDS Integers, FiniteSets

CONSTANTS
    Stores,      \* sources with a row in the database, active and VTEX
    Writable,    \* the sources the writer supports
    Rows,        \* ids of existing offers
    StoreOf,     \* the store of each offer
    Skus,        \* what may be wrong with an offer's SKU: own, shared, none
    Prices,      \* stored prices, 0 for none
    Answers,     \* what a lookup by SKU may return
    Counts,      \* batch sizes
    Scans,       \* candidate scan sizes
    Issues,      \* issue numbers that tie evidence to a gate
    Goals,       \* freshness targets in percent
    SharesUp,    \* <<rows, goal>>: rows * (goal / 100) comes out above its value
    ScansUp,     \* <<target, viable, evaluated>>: target / (viable / evaluated) does
    Controls,    \* contents the kill switch file may have
    Sla,         \* freshness SLA of a store
    DayLimit,    \* no price older than this is fresh (24 hours)
    LargeScan,   \* scans of MAS from this size on need confirmation (100)
    MaxDelta,    \* percent a live price may differ from the stored one
    MaxAge,      \* how long a gate's report may be written (15 minutes)
    MaxClock     \* bound: instants of one behaviour

ASSUME EvidenceOK ==
    /\ Writable \subseteq Stores
    /\ Rows \subseteq Nat /\ IsFiniteSet(Rows)
    /\ StoreOf \in [Rows -> Stores]
    /\ Skus \subseteq {"own", "shared", "none"}
    /\ Prices \subseteq Nat
    /\ Counts \subseteq Nat \ {0} /\ Scans \subseteq Nat \ {0}
    /\ Goals \subseteq 1 .. 100
    /\ SharesUp \subseteq (Nat \ {0}) \X (1 .. 99)
    /\ ScansUp \subseteq (Nat \ {0}) \X (Nat \ {0}) \X (Nat \ {0})
    /\ {Sla, DayLimit, LargeScan, MaxDelta, MaxAge, MaxClock} \subseteq Nat

VARIABLES
    clock,      \* the newest instant anything took
    offers,     \* the stored offers
    audit,      \* the capacity report file
    report,     \* the gate's report file
    proc,       \* the write command
    written     \* history variable: the report written last

vars == <<clock, offers, audit, report, proc, written>>

NoFile == [gen |-> 0]
Idle == [pc |-> "idle"]

-----------------------------------------------------------------------------
(* Judging one offer.  An answer is the number of products a lookup finds   *)
(* (-1 when it fails) and, for a single one, whether its identity and host  *)
(* are right, whether it is available and at what price.                    *)

Answer == [n : -1 .. 2, ean : BOOLEAN, sku : BOOLEAN, host : BOOLEAN,
           available : BOOLEAN, price : Nat]

ASSUME AnswersOK == Answers \subseteq Answer

Offer == [sku : Skus, price : Prices \cup {a.price : a \in Answers},
          at : Nat, rankable : BOOLEAN]

NoAnswer == [n |-> 0, ean |-> FALSE, sku |-> FALSE, host |-> FALSE,
             available |-> FALSE, price |-> 0]

Reasons(pairs) == {p[1] : p \in {q \in pairs : q[2]}}

\* Without a SKU nothing is looked up.
Found(o, a) == IF o.sku = "none" THEN NoAnswer ELSE a

IdentityReasons(o) ==
    Reasons({<<"no sku", o.sku = "none">>, <<"sku not unique", o.sku = "shared">>})

LookupReasons(o, a) ==
    Reasons({<<"lookup failed", a.n = -1>>,
             <<"not one product", a.n # -1 /\ o.sku # "none" /\ a.n # 1>>})

MatchReasons(a) ==
    Reasons({<<"other ean", a.n = 1 /\ ~a.ean>>, <<"other sku", a.n = 1 /\ ~a.sku>>,
             <<"other host", a.n = 1 /\ ~a.host>>})

Distance(p, q) == IF p < q THEN q - p ELSE p - q

\* No distance is taken from or to a price that is not positive.
TooFar(p, q) == p > 0 /\ q > 0 /\ Distance(p, q) * 100 > MaxDelta * p

PriceReasons(o, a) ==
    Reasons({<<"no price", a.n = 1 /\ a.price = 0>>,
             <<"too far", a.n = 1 /\ TooFar(o.price, a.price)>>})

\* evaluateCapacityRow, guardReasons: the audit asks for an available product as well.
AuditReasons(o, answer) ==
    LET a == Found(o, answer)
    IN IdentityReasons(o) \cup LookupReasons(o, a) \cup MatchReasons(a)
         \cup Reasons({<<"unavailable", a.n = 1 /\ ~a.available>>})
         \cup PriceReasons(o, a)

\* The guards of the pre-write gate.
GateReasons(o, answer) ==
    LET a == Found(o, answer)
    IN IdentityReasons(o) \cup LookupReasons(o, a) \cup MatchReasons(a)
         \cup PriceReasons(o, a)

RowsOf(s) == {r \in Rows : StoreOf[r] = s}
Rankable(s) == {r \in RowsOf(s) : offers[r].rankable}

Older(q, r) == \/ offers[q].at < offers[r].at
               \/ offers[q].at = offers[r].at /\ q < r

First(S, n) == {r \in S : Cardinality({q \in S : Older(q, r)}) < n}

\* listOldestPublicRankableRows
Candidates(s, n) == First(Rankable(s), n)

-----------------------------------------------------------------------------
(* The capacity audit.                                                      *)

\* classifyPriceFreshness
FreshForAudit(r, t) ==
    t - offers[r].at < (IF 0 < Sla /\ Sla < DayLimit THEN Sla ELSE DayLimit)

\* buildSourceReport, buildDenominator
Entry(s, scan, live, t) ==
    LET scanned == Candidates(s, scan)
    IN [rankable |-> Cardinality(Rankable(s)),
        fresh    |-> Cardinality({r \in Rankable(s) : FreshForAudit(r, t)}),
        scanned  |-> scanned,
        pass     |-> {r \in scanned : AuditReasons(offers[r], live[r]) = {}}]

Viable(e) == Cardinality(e.pass)

Class(e) ==
    IF e.rankable = 0 \/ e.pass = {} THEN "excluded"
    ELSE IF e.pass # e.scanned THEN "mixed" ELSE "viable"

\* Mutant: a source is good as soon as one of its rows is.
EntryStatusAnyRow(s, e, target) ==
    IF e.rankable = 0 THEN "FAIL" ELSE IF e.pass = {} THEN "WARN" ELSE "PASS"

\* sourceStatus
EntryStatus(s, e, target) ==
    IF e.rankable = 0 THEN "FAIL"
    ELSE IF s \notin Writable \/ Class(e) # "viable" \/ Viable(e) < target
         THEN "WARN" ELSE "PASS"

\* recommendBatchSize
Batch(e, target) ==
    IF Class(e) = "excluded" THEN 0
    ELSE IF Viable(e) < target THEN Viable(e) ELSE target

CeilDiv(a, b) == (a + b - 1) \div b

\* Math.ceil of a / b in floating point.  The value is off by far less than the
\* distance of a fraction from a whole number, so it matters only where a / b is
\* whole: an error upwards (100 * (55 / 100) > 55) counts one more, an error
\* downwards none.
FloatCeil(a, b, up) == CeilDiv(a, b) + (IF up /\ a % b = 0 THEN 1 ELSE 0)

\* recommendCandidateScanSize, with the scan asked for where it has no answer.
ScanNeeded(e, target, scan) ==
    LET evaluated == Cardinality(e.scanned)
    IN IF e.pass = {} THEN scan
       ELSE FloatCeil(target * evaluated, Viable(e),
                      <<target, Viable(e), evaluated>> \in ScansUp)

\* Mutant: rounded down.
RowsToRefreshDown(e, goal) ==
    LET wanted == (e.rankable * goal) \div 100
    IN IF wanted > e.fresh THEN wanted - e.fresh ELSE 0

\* estimateRowsToRefresh, estimateChunks: a quotient of two whole numbers is
\* rounded once and never lands above a whole one.
RowsToRefresh(e, goal) ==
    LET wanted == FloatCeil(e.rankable * goal, 100, <<e.rankable, goal>> \in SharesUp)
    IN IF wanted > e.fresh THEN wanted - e.fresh ELSE 0

Chunks(e, goal, target) ==
    IF Batch(e, target) = 0 THEN 0
    ELSE CeilDiv(RowsToRefresh(e, goal), Batch(e, target))

\* buildDirectRefreshCapacityReport: one FAIL fails it, and so does an audit
\* without sources, without rankable rows or without a viable one.
AuditFails(f) ==
    \/ \E s \in DOMAIN f.of : EntryStatus(s, f.of[s], f.target) = "FAIL"
    \/ \A s \in DOMAIN f.of : f.of[s].pass = {}

Audit(S, scan, target, issue) ==
    /\ clock < MaxClock
    /\ clock' = clock + 1
    /\ \E live \in [UNION {Candidates(s, scan) : s \in S} -> Answers] :
        audit' = [gen |-> clock', issue |-> issue, target |-> target, scan |-> scan,
                  of |-> [s \in S |-> Entry(s, scan, live, clock')]]
    /\ UNCHANGED <<offers, report, proc, written>>

-----------------------------------------------------------------------------
(* The source health audit, without the optional threshold that fails it.   *)

\* toFixed(2) of a percentage, in hundredths of a percent.
Percent(part, total) ==
    IF total = 0 THEN 0 ELSE (20000 * part + total) \div (2 * total)

FreshForHealth(r, t) == offers[r].at >= t - Sla

Worst(S) ==
    IF "FAIL" \in S THEN "FAIL" ELSE IF "WARN" \in S THEN "WARN" ELSE "PASS"

FreshnessStatus(s, t, goal) ==
    LET fresh == Cardinality({r \in Rankable(s) : FreshForHealth(r, t)})
    IN IF Rankable(s) = {} THEN "FAIL"
       ELSE IF Percent(fresh, Cardinality(Rankable(s))) >= goal * 100
            THEN "PASS" ELSE "WARN"

\* capacityReasons, masScanReasons
CapacityStatus(s) ==
    IF audit = NoFile \/ s \notin DOMAIN audit.of THEN "WARN"
    ELSE LET e == audit.of[s]
         IN Worst({EntryStatus(s, e, audit.target),
                   IF e.pass # e.scanned THEN "WARN" ELSE "PASS",
                   IF s = "mas" /\ ScanNeeded(e, audit.target, audit.scan) >= LargeScan
                   THEN "WARN" ELSE "PASS"})

\* buildDirectRefreshSourceHealthReport, for one source with a sound record.
Health(s, t, goal) ==
    Worst({IF s \in Writable THEN "PASS" ELSE "WARN",
           FreshnessStatus(s, t, goal), CapacityStatus(s)})

-----------------------------------------------------------------------------
(* Evidence and the gate.                                                   *)

\* Mutant: a report about several sources will do.
ScopeReasonsLoose(f, s, count, issue) ==
    Reasons({<<"sources", s \notin DOMAIN f.of>>, <<"target", f.target # count>>,
             <<"issue", f.issue # issue>>})

ScopeReasons(f, s, count, issue) ==
    Reasons({<<"sources", DOMAIN f.of # {s}>>, <<"target", f.target # count>>,
             <<"issue", f.issue # issue>>})

SourceReasons(s, e, target, count) ==
    Reasons({<<"no writer", s \notin Writable>>,
             <<"excluded", Class(e) = "excluded">>,
             <<"failed", EntryStatus(s, e, target) = "FAIL">>,
             <<"too few viable", Viable(e) < count>>,
             <<"batch too small", Batch(e, target) < count>>})

RowReasons(e, selected) == Reasons({<<"row without evidence", ~(selected \subseteq e.pass)>>})

\* validateDirectRefreshCapacityEvidence; without evidence there is nothing to
\* refuse.
EvidenceReasons(f, s, count, issue, selected) ==
    IF f = NoFile THEN {}
    ELSE ScopeReasons(f, s, count, issue) \cup
         (IF s \notin DOMAIN f.of THEN {}
          ELSE SourceReasons(s, f.of[s], f.target, count) \cup RowReasons(f.of[s], selected))

\* getDirectRefreshCapacityPassRowIds
PassIds(f, s) == IF s \in DOMAIN f.of THEN f.of[s].pass ELSE {}

\* selectPrewriteRows: with evidence, or when the scan is wider than the batch,
\* the oldest viable rows; otherwise every candidate.
Pool(s, scan, live, f) ==
    {r \in Candidates(s, scan) : /\ GateReasons(offers[r], live[r]) = {}
                                 /\ f = NoFile \/ r \in PassIds(f, s)}

Selected(s, count, scan, live, f) ==
    IF f # NoFile \/ scan > count THEN First(Pool(s, scan, live, f), count)
    ELSE Candidates(s, scan)

\* Rows the report describes.
Covered(s, count, scan, live, f) ==
    Selected(s, count, scan, live, f) \cup
    {r \in Candidates(s, scan) : GateReasons(offers[r], live[r]) # {}}

\* prewriteGateStatus and the exact count the writer asks for.
Passes(s, count, scan, live, f, issue) ==
    LET selected == Selected(s, count, scan, live, f)
    IN /\ Cardinality(selected) = count
       /\ \A r \in selected : GateReasons(offers[r], live[r]) = {}
       /\ EvidenceReasons(f, s, count, issue, selected) = {}

Report(s, count, scan, live, f, t) ==
    LET covered == Covered(s, count, scan, live, f)
    IN [gen      |-> t, store |-> s, count |-> count, scan |-> scan,
        rows     |-> Selected(s, count, scan, live, f),
        before   |-> [r \in covered |-> offers[r]],
        live     |-> [r \in covered |-> live[r]],
        evidence |-> f]

\* The gate runs, with the capacity report or without; a report that does not
\* pass is as good as none.
Gate(s, count, scan, bound, issue) ==
    /\ clock < MaxClock
    /\ scan >= count
    /\ bound => audit # NoFile
    /\ clock' = clock + 1
    /\ LET f == IF bound THEN audit ELSE NoFile
       IN \E live \in [Candidates(s, scan) -> Answers] :
            report' = IF Passes(s, count, scan, live, f, issue)
                      THEN Report(s, count, scan, live, f, clock') ELSE NoFile
    /\ UNCHANGED <<offers, audit, proc, written>>

-----------------------------------------------------------------------------
(* The kill switch.  An entry may be malformed, may stop or not, may expire  *)
(* (0 for never) and names a reason and an owner or does not; a file may     *)
(* have another schema.                                                     *)

NoEntry == [given |-> FALSE]

Entries(c) == {c.global} \cup {c.sources[s] : s \in DOMAIN c.sources}

ASSUME ControlsOK ==
    \A c \in Controls : \A e \in Entries(c) :
        e.given /\ e.wellFormed => e.expires \in Nat

\* Mutant: the comparison turned round.
ExpiredTurned(e, t) == e.expires # 0 /\ e.expires >= t

Expired(e, t) == e.expires # 0 /\ e.expires <= t

\* collectControl: the entry is active.
Active(e, applies, t) ==
    e.given /\ e.wellFormed /\ e.stop /\ applies /\ ~Expired(e, t)

\* collectControl, pushActiveControl: the entry is invalid, whether it applies or
\* not; reason and owner are asked of active entries only.
Invalid(e, applies, t) ==
    e.given /\ (~e.wellFormed \/ (Active(e, applies, t) /\ ~e.signed))

\* assertDirectRefreshKillSwitchAllowsSource; a file that cannot be read throws.
Allows(c, s, t) ==
    /\ c # NoFile
    /\ c.schema
    /\ DOMAIN c.sources \subseteq Stores
    /\ ~Active(c.global, TRUE, t) /\ ~Invalid(c.global, TRUE, t)
    /\ \A x \in DOMAIN c.sources :
         ~Active(c.sources[x], x = s, t) /\ ~Invalid(c.sources[x], x = s, t)

-----------------------------------------------------------------------------
(* The write command.                                                       *)

\* readActiveWriteCapacityEvidence: the file of the report's lineage, under the
\* same issue, or no file at all.
EvidenceRead(rep, given, issue) ==
    IF rep.evidence = NoFile THEN ~given
    ELSE given /\ issue = rep.evidence.issue /\ audit = rep.evidence

\* main: the gate runs again at the report's own instant and must say the same.
Start(given, issue, guarded) ==
    /\ proc = Idle
    /\ report # NoFile
    /\ EvidenceRead(report, given, issue)
    /\ LET f == IF given THEN audit ELSE NoFile
       IN \E live \in [Candidates(report.store, report.scan) -> Answers] :
            /\ Passes(report.store, report.count, report.scan, live, f, issue)
            /\ Report(report.store, report.count, report.scan, live, f, report.gen) = report
    /\ proc' = [pc |-> "rerun", rep |-> report, guarded |-> guarded]
    /\ UNCHANGED <<clock, offers, audit, report, written>>

\* validatePrewriteAge
Young(rep, t) == t - rep.gen <= MaxAge

\* executeActiveWrite: the age of the report, then the kill switch if the command
\* named its file, then the transaction.
Launch(control) ==
    /\ proc.pc = "rerun"
    /\ clock < MaxClock
    /\ clock' = clock + 1
    /\ Young(proc.rep, clock')
    /\ proc.guarded => Allows(control, proc.rep.store, clock')
    /\ proc' = [pc |-> "launched", rep |-> proc.rep,
                control |-> IF proc.guarded THEN control ELSE NoFile]
    /\ UNCHANGED <<offers, audit, report, written>>

\* An offer seen at an instant; its SKU stays (applyPrewriteRow).
Seen(o, t, price, rankable) ==
    [sku |-> o.sku, price |-> price, at |-> t, rankable |-> rankable]

\* The transaction commits (ActiveWrite).
Commit ==
    /\ proc.pc = "launched"
    /\ LET rep == proc.rep
       IN offers' = [r \in Rows |->
            IF r \in rep.rows
            THEN Seen(offers[r], rep.gen, rep.live[r].price, rep.live[r].available)
            ELSE offers[r]]
    /\ written' = proc.rep
    /\ proc' = Idle
    /\ UNCHANGED <<clock, audit, report>>

\* Any guard fails, or the process dies.
Abort ==
    /\ proc # Idle
    /\ proc' = Idle
    /\ UNCHANGED <<clock, offers, audit, report, written>>

-----------------------------------------------------------------------------
\* Another writer of the catalog sees an offer.
Observe(r, rankable) ==
    /\ clock < MaxClock
    /\ clock' = clock + 1
    /\ offers' = [offers EXCEPT ![r] = Seen(@, clock', @.price, rankable)]
    /\ UNCHANGED <<audit, report, proc, written>>

Init ==
    /\ clock = 0
    /\ offers \in [Rows -> [sku : Skus, price : Prices, at : {0}, rankable : {TRUE}]]
    /\ audit = NoFile /\ report = NoFile /\ written = NoFile
    /\ proc = Idle

Operator ==
    \/ \E S \in SUBSET Stores \ {{}}, scan \in Scans, target \in Counts, issue \in Issues :
         Audit(S, scan, target, issue)
    \/ \E s \in Writable, count \in Counts, scan \in Scans, bound \in BOOLEAN, issue \in Issues :
         Gate(s, count, scan, bound, issue)

Writer ==
    \/ \E given \in BOOLEAN, issue \in Issues, guarded \in BOOLEAN : Start(given, issue, guarded)
    \/ \E control \in Controls \cup {NoFile} : Launch(control)
    \/ Commit \/ Abort

Next ==
    \/ Operator
    \/ Writer
    \/ \E r \in Rows, rankable \in BOOLEAN : Observe(r, rankable)

Spec == Init /\ [][Next]_vars

-----------------------------------------------------------------------------
IsEntry(e) == /\ DOMAIN e = {"rankable", "fresh", "scanned", "pass"}
              /\ e.pass \subseteq e.scanned /\ e.scanned \subseteq Rows
              /\ e.rankable \in Nat /\ e.fresh \in 0 .. e.rankable
              /\ Cardinality(e.scanned) <= e.rankable

IsAudit(f) ==
    f = NoFile \/ /\ DOMAIN f.of \subseteq Stores /\ f.target \in Counts
                  /\ f.scan \in Scans /\ f.issue \in Issues /\ f.gen \in 1 .. clock
                  /\ \A s \in DOMAIN f.of : IsEntry(f.of[s])

IsReport(x) ==
    x = NoFile \/ /\ x.store \in Writable /\ x.rows \subseteq Rows
                  /\ x.rows \subseteq DOMAIN x.before
                  /\ x.before \in [DOMAIN x.live -> Offer]
                  /\ x.gen \in 1 .. clock /\ IsAudit(x.evidence)

\* The variables keep their shapes, and no file is from the future.
TypeOK ==
    /\ clock \in 0 .. MaxClock
    /\ offers \in [Rows -> Offer]
    /\ IsAudit(audit) /\ IsReport(report) /\ IsReport(written)
    /\ proc = Idle \/ IsReport(proc.rep)

\* A write made under capacity evidence is backed by it row by row: the evidence
\* is about that source alone, which the writer supports; it found as many
\* viable rows as the batch has; and every written row is one of them.  The
\* audit is another program than the gate and the writer, runs at another
\* time, and its file may be replaced between any two of them.
EvidenceBacksWrite ==
    written # NoFile /\ written.evidence # NoFile =>
      LET f == written.evidence
          s == written.store
      IN /\ DOMAIN f.of = {s} /\ s \in Writable
         /\ written.rows \subseteq f.of[s].pass
         /\ Cardinality(written.rows) = written.count /\ written.count = f.target
         /\ Class(f.of[s]) # "excluded"

\* The validation of evidence never asks whether the audit as a whole passed;
\* all the same no report is ever bound to an audit that failed.
FailedAuditIsNoEvidence ==
    report # NoFile /\ report.evidence # NoFile => ~AuditFails(report.evidence)

\* A source whose health passes is called eligible for a controlled operation.
\* The capacity report that judgement rests on, if it is about that source
\* alone, then has a full batch of rows that passed, and is accepted as evidence
\* for any such batch under its own issue: the health audit and the gate judge
\* one report by rules of their own.
HealthyIsAccepted ==
    \A s \in Stores, goal \in Goals :
        audit # NoFile /\ DOMAIN audit.of = {s} /\ Health(s, clock, goal) = "PASS" =>
          /\ Viable(audit.of[s]) >= audit.target
          /\ \A selected \in SUBSET audit.of[s].pass :
               Cardinality(selected) = audit.target =>
                 EvidenceReasons(audit, s, audit.target, audit.issue, selected) = {}

\* The audit's plan reaches the goal and asks for one row at most more than that
\* takes, which floating point may cost: after the recommended number of batches
\* of the recommended size the fresh share is at or above the goal, with two rows
\* less it is below.
PlanReachesGoal ==
    audit # NoFile =>
      \A s \in DOMAIN audit.of, goal \in Goals :
        LET e == audit.of[s]
            more == RowsToRefresh(e, goal)
        IN /\ (e.fresh + more) * 100 >= goal * e.rankable
           /\ more > 0 => (e.fresh + more - 2) * 100 < goal * e.rankable
           /\ e.pass # {} => Chunks(e, goal, audit.target) * Batch(e, audit.target) >= more
           /\ Batch(e, audit.target) <= Viable(e)

\* An order to stop that stands: for all stores or for this one, and either
\* without end or with its end still to come.
StopStands(c, s, t) ==
    \E e \in {c.global} \cup {c.sources[x] : x \in DOMAIN c.sources \cap {s}} :
        e.given /\ e.wellFormed /\ e.stop /\ (e.expires # 0 => e.expires > t)

\* A write under the kill switch does not begin while an order to stop stands,
\* nor while the file is missing or has an entry for any store, this one or
\* another, that cannot be understood; whatever the file said when the
\* command was started.
StopIsObeyed ==
    [][ proc.pc = "rerun" /\ proc'.pc = "launched" /\ proc.guarded =>
          LET c == proc'.control
          IN /\ c # NoFile /\ ~StopStands(c, proc.rep.store, clock')
             /\ \A e \in Entries(c) : e.given => e.wellFormed ]_vars

\* Files and offers keep their shapes, no evidence is bound that failed as an
\* audit, and the two judges of a capacity report agree on a healthy source.
Inv == TypeOK /\ FailedAuditIsNoEvidence /\ HealthyIsAccepted
=============================================================================
