------------------------- MODULE EvidenceChainProofs -------------------------
(***************************************************************************)
(* EvidenceChain's properties for any stores, offers, files and bounds.    *)
(*                                                                         *)
(* What a write rests on was decided when its report was made, and three   *)
(* variables may hold that report since: the gate's file, the write        *)
(* command's copy, and the history.  So the invariant (IInv) says of each  *)
(* of them what the gate established (Backed), and no later step looks at  *)
(* the capacity file for it.                                               *)
(***************************************************************************)
EXTENDS EvidenceChain, FiniteSetTheorems, TLAPS

\* What capacity evidence says of the batch it is bound to.
BackedBy(x, f) ==
    /\ DOMAIN f.of = {x.store}
    /\ x.rows \subseteq f.of[x.store].pass
    /\ Cardinality(x.rows) = x.count /\ x.count = f.target
    /\ Class(f.of[x.store]) # "excluded"
    /\ ~AuditFails(f)

\* A report has the answer it is to write for each of its rows, and is backed by
\* its evidence.
Backed(x) ==
    x # NoFile =>
        /\ \A r \in x.rows : r \in DOMAIN x.live /\ x.live[r] \in Answers
        /\ x.evidence # NoFile => BackedBy(x, x.evidence)

IInv ==
    /\ TypeOK
    /\ Backed(report) /\ Backed(written)
    /\ proc # Idle => proc.rep # NoFile /\ Backed(proc.rep)

-----------------------------------------------------------------------------
\* A list of reasons is empty exactly if none of its conditions holds.
LEMMA NoReasons ==
    ASSUME NEW pairs, \A p \in pairs : p[2] = FALSE
    PROVE  Reasons(pairs) = {}
BY DEF Reasons

\* The same, condition by condition.
LEMMA NoneOfOne ==
    ASSUME NEW a, NEW P, P = FALSE
    PROVE  Reasons({<<a, P>>}) = {}
<1>1. <<a, P>>[2] = FALSE
  BY Zenon
<1> QED BY <1>1, NoReasons, Zenon

\* The three tests of an evidence's scope.
LEMMA NoneOfThree ==
    ASSUME NEW a, NEW P, NEW b, NEW Q, NEW c, NEW R, P = FALSE, Q = FALSE, R = FALSE
    PROVE  Reasons({<<a, P>>, <<b, Q>>, <<c, R>>}) = {}
<1>1. <<a, P>>[2] = FALSE /\ <<b, Q>>[2] = FALSE /\ <<c, R>>[2] = FALSE
  BY Zenon
<1> QED BY <1>1, NoReasons, Zenon

\* The five tests of its source.
LEMMA NoneOfFive ==
    ASSUME NEW a, NEW P, NEW b, NEW Q, NEW c, NEW R, NEW d, NEW S, NEW e, NEW T,
           P = FALSE, Q = FALSE, R = FALSE, S = FALSE, T = FALSE
    PROVE  Reasons({<<a, P>>, <<b, Q>>, <<c, R>>, <<d, S>>, <<e, T>>}) = {}
<1>1. /\ <<a, P>>[2] = FALSE /\ <<b, Q>>[2] = FALSE /\ <<c, R>>[2] = FALSE
      /\ <<d, S>>[2] = FALSE /\ <<e, T>>[2] = FALSE
  BY Zenon
<1> QED BY <1>1, NoReasons, Zenon

\* No condition of an empty list holds.
LEMMA NotAReason ==
    ASSUME NEW pairs, NEW a, NEW P \in BOOLEAN, <<a, P>> \in pairs, Reasons(pairs) = {}
    PROVE  ~P
<1>1. SUFFICES ASSUME P PROVE FALSE
  OBVIOUS
<1>2. <<a, P>> \in {q \in pairs : q[2]}
  BY <1>1
<1>3. <<a, P>>[1] \in Reasons(pairs)
  BY <1>2, Zenon DEF Reasons
<1> QED BY <1>3

\* The candidates are offers of the store which the public ranks.
LEMMA CandidatesAreRows ==
    ASSUME NEW s, NEW n
    PROVE  Candidates(s, n) \subseteq Rankable(s) /\ Rankable(s) \subseteq Rows
BY DEF Candidates, First, Rankable, RowsOf

\* Sets of offers are finite.
LEMMA RowSets ==
    ASSUME NEW S, S \subseteq Rows
    PROVE  IsFiniteSet(S) /\ Cardinality(S) \in Nat
BY EvidenceOK, FS_Subset, FS_CardinalityType

\* What the audit says of a source has the shape of an entry.
LEMMA EntryTyped ==
    ASSUME NEW s, NEW scan, NEW live, NEW t
    PROVE  IsEntry(Entry(s, scan, live, t))
<1> DEFINE ranked == Rankable(s)
           fresh == {r \in ranked : FreshForAudit(r, t)}
           scanned == Candidates(s, scan)
           pass == {r \in scanned : AuditReasons(offers[r], live[r]) = {}}
<1>1. ranked \subseteq Rows /\ scanned \subseteq ranked /\ pass \subseteq scanned
  BY CandidatesAreRows
<1>2. IsFiniteSet(ranked) /\ Cardinality(ranked) \in Nat
  BY <1>1, RowSets
<1>3. Cardinality(fresh) \in Nat /\ Cardinality(fresh) <= Cardinality(ranked)
  <2>1. fresh \subseteq ranked
    OBVIOUS
  <2> QED BY <1>2, <2>1, FS_Subset, FS_CardinalityType
<1>4. Cardinality(scanned) <= Cardinality(ranked)
  BY <1>1, <1>2, FS_Subset
<1>5. Entry(s, scan, live, t) = [rankable |-> Cardinality(ranked),
                                 fresh |-> Cardinality(fresh),
                                 scanned |-> scanned, pass |-> pass]
  BY DEF Entry
<1> HIDE DEF ranked, fresh, scanned, pass
<1> QED BY <1>1, <1>2, <1>3, <1>4, <1>5 DEF IsEntry

\* Files that are sound stay so as time goes on.
LEMMA UnchangedAudit ==
    ASSUME IsAudit(audit), clock \in Nat, clock' \in Nat, clock <= clock', audit' = audit
    PROVE  IsAudit(audit)'
BY DEF IsAudit

\* The gate's report.
LEMMA UnchangedReport ==
    ASSUME IsReport(report), clock \in Nat, clock' \in Nat, clock <= clock', report' = report
    PROVE  IsReport(report)'
BY DEF IsAudit, IsReport

\* The report written last.
LEMMA UnchangedWritten ==
    ASSUME IsReport(written), clock \in Nat, clock' \in Nat, clock <= clock', written' = written
    PROVE  IsReport(written)'
BY DEF IsAudit, IsReport

\* The write command's copy.
LEMMA UnchangedProc ==
    ASSUME IsReport(proc.rep), clock \in Nat, clock' \in Nat, clock <= clock',
           proc'.rep = proc.rep
    PROVE  IsReport(proc.rep)'
BY DEF IsAudit, IsReport

\* The tests of the evidence, passed, say what a write under it relies on.
LEMMA EvidenceSays ==
    ASSUME NEW f, f # NoFile, NEW s, NEW count, NEW issue, NEW selected,
           Cardinality(selected) = count,
           EvidenceReasons(f, s, count, issue, selected) = {}
    PROVE  /\ DOMAIN f.of = {s} /\ count = f.target
           /\ selected \subseteq f.of[s].pass
           /\ Class(f.of[s]) # "excluded"
           /\ ~AuditFails(f)
<1>1. ScopeReasons(f, s, count, issue) = {}
  BY DEF EvidenceReasons
<1>2. DOMAIN f.of = {s}
  <2>1. ~(DOMAIN f.of # {s})
    BY <1>1, NotAReason DEF ScopeReasons
  <2> QED BY <2>1
<1>3. f.target = count
  <2>1. ~(f.target # count)
    BY <1>1, NotAReason DEF ScopeReasons
  <2> QED BY <2>1
<1> DEFINE e == f.of[s]
<1>4. SourceReasons(s, e, f.target, count) = {} /\ RowReasons(e, selected) = {}
  BY <1>2 DEF EvidenceReasons
<1>5. Class(e) # "excluded" /\ EntryStatus(s, e, f.target) # "FAIL"
  <2>1. ~(Class(e) = "excluded")
    BY <1>4, NotAReason DEF SourceReasons
  <2>2. ~(EntryStatus(s, e, f.target) = "FAIL")
    BY <1>4, NotAReason DEF SourceReasons
  <2> QED BY <2>1, <2>2
<1>6. selected \subseteq e.pass
  <2>1. ~(~(selected \subseteq e.pass))
    BY <1>4, NotAReason DEF RowReasons
  <2> QED BY <2>1
<1>7. e.pass # {}
  BY <1>5 DEF Class
<1> QED BY <1>2, <1>3, <1>5, <1>6, <1>7 DEF AuditFails

\* A report that passes has an answer for each of its rows and is backed by the
\* evidence the gate was bound to.
LEMMA ReportIsBacked ==
    ASSUME NEW s, NEW count, NEW scan, NEW f, NEW issue, NEW t,
           NEW live \in [Candidates(s, scan) -> Answers],
           Passes(s, count, scan, live, f, issue)
    PROVE  Backed(Report(s, count, scan, live, f, t))
<1> DEFINE selected == Selected(s, count, scan, live, f)
           covered == Covered(s, count, scan, live, f)
           x == Report(s, count, scan, live, f, t)
<1>1. selected \subseteq covered /\ covered \subseteq Candidates(s, scan)
  BY DEF Selected, Covered, First, Pool
<1>2. /\ x.rows = selected /\ x.live = [r \in covered |-> live[r]]
      /\ x.store = s /\ x.count = count /\ x.evidence = f
  BY DEF Report
<1>3. Cardinality(selected) = count /\ EvidenceReasons(f, s, count, issue, selected) = {}
  BY DEF Passes
<1> HIDE DEF selected, covered, x
<1>4. \A r \in x.rows : r \in DOMAIN x.live /\ x.live[r] \in Answers
  BY <1>1, <1>2
<1>5. f # NoFile => BackedBy(x, f)
  BY <1>2, <1>3, EvidenceSays DEF BackedBy
<1> QED BY <1>2, <1>4, <1>5 DEF Backed, x

-----------------------------------------------------------------------------
\* The initial states satisfy the invariant.
LEMMA InitInv == Init => IInv
<1> SUFFICES ASSUME Init PROVE IInv
  OBVIOUS
<1>1. clock = 0 /\ audit = NoFile /\ report = NoFile /\ written = NoFile /\ proc = Idle
  BY DEF Init
<1>2. offers \in [Rows -> Offer]
  <2>1. offers \in [Rows -> [sku : Skus, price : Prices, at : {0}, rankable : {TRUE}]]
    BY DEF Init
  <2>2. ASSUME NEW o \in [sku : Skus, price : Prices, at : {0}, rankable : {TRUE}]
        PROVE  o \in Offer
    <3>1. /\ o = [sku |-> o.sku, price |-> o.price, at |-> o.at, rankable |-> o.rankable]
          /\ o.sku \in Skus /\ o.price \in Prices /\ o.at = 0
      OBVIOUS
    <3>2. o.rankable \in BOOLEAN
      BY Zenon
    <3> QED BY <3>1, <3>2 DEF Offer
  <2> QED BY <2>1, <2>2
<1>3. TypeOK
  BY <1>1, <1>2, EvidenceOK DEF TypeOK, IsAudit, IsReport
<1> QED BY <1>1, <1>3 DEF IInv, Backed

\* The audit replaces its file by one it has just made.
LEMMA AuditInv ==
    ASSUME NEW S \in SUBSET Stores, NEW scan \in Scans, NEW target \in Counts,
           NEW issue \in Issues, IInv, Audit(S, scan, target, issue)
    PROVE  IInv'
<1> USE DEF IInv
<1>1. /\ clock' = clock + 1 /\ clock \in Nat /\ clock' \in 0 .. MaxClock
      /\ UNCHANGED <<offers, report, proc, written>>
  BY EvidenceOK DEF Audit, TypeOK
<1>2. PICK live : audit' = [gen |-> clock', issue |-> issue, target |-> target,
                            scan |-> scan,
                            of |-> [s \in S |-> Entry(s, scan, live, clock')]]
  BY DEF Audit
<1>3. \A s \in S : IsEntry(Entry(s, scan, live, clock'))
  BY EntryTyped
<1>4. IsAudit(audit)'
  <2>1. /\ audit'.gen = clock' /\ audit'.issue = issue /\ audit'.target = target
        /\ audit'.scan = scan /\ DOMAIN audit'.of = S
        /\ \A s \in S : IsEntry(audit'.of[s])
    BY <1>2, <1>3
  <2>2. clock' \in 1 .. clock'
    BY <1>1
  <2> QED BY <2>1, <2>2 DEF IsAudit
<1>5. IsReport(report)' /\ IsReport(written)'
  BY <1>1, UnchangedReport, UnchangedWritten DEF TypeOK
<1>6. proc' = Idle \/ IsReport(proc.rep)'
  BY <1>1, UnchangedProc DEF TypeOK
<1>7. TypeOK'
  BY <1>1, <1>4, <1>5, <1>6 DEF TypeOK
<1> QED BY <1>1, <1>7 DEF Backed, BackedBy

\* The gate's report is new as well, and backed if it passes.
LEMMA GateInv ==
    ASSUME NEW s \in Writable, NEW count \in Counts, NEW scan \in Scans,
           NEW bound \in BOOLEAN, NEW issue \in Issues,
           IInv, Gate(s, count, scan, bound, issue)
    PROVE  IInv'
<1> USE DEF IInv
<1>1. /\ clock' = clock + 1 /\ clock \in Nat /\ clock' \in 0 .. MaxClock
      /\ UNCHANGED <<offers, audit, proc, written>>
  BY EvidenceOK DEF Gate, TypeOK
<1> DEFINE f == IF bound THEN audit ELSE NoFile
<1>2. PICK live \in [Candidates(s, scan) -> Answers] :
        report' = IF Passes(s, count, scan, live, f, issue)
                  THEN Report(s, count, scan, live, f, clock') ELSE NoFile
  BY DEF Gate
<1>3. IsAudit(audit)' /\ IsReport(written)'
  BY <1>1, UnchangedAudit, UnchangedWritten DEF TypeOK
<1>4. proc' = Idle \/ IsReport(proc.rep)'
  BY <1>1, UnchangedProc DEF TypeOK
<1>5. IsReport(report)' /\ Backed(report)'
  <2>1. CASE report' = NoFile
    BY <2>1 DEF IsReport, Backed
  <2>2. CASE /\ Passes(s, count, scan, live, f, issue)
             /\ report' = Report(s, count, scan, live, f, clock')
    <3>1. Backed(report')
      BY <2>2, ReportIsBacked
    <3> DEFINE selected == Selected(s, count, scan, live, f)
               covered == Covered(s, count, scan, live, f)
    <3>2. selected \subseteq covered /\ covered \subseteq Rows
      BY CandidatesAreRows DEF Selected, Covered, First, Pool
    <3>3. /\ report'.store = s /\ report'.rows = selected /\ report'.gen = clock'
          /\ report'.before = [r \in covered |-> offers[r]]
          /\ DOMAIN report'.live = covered /\ report'.evidence = f
      BY <2>2 DEF Report
    <3>4. report'.before \in [covered -> Offer]
      <4>1. offers \in [Rows -> Offer]
        BY DEF TypeOK
      <4> QED BY <3>2, <3>3, <4>1
    <3>5. \/ f = NoFile
          \/ /\ DOMAIN f.of \subseteq Stores /\ f.target \in Counts
             /\ f.scan \in Scans /\ f.issue \in Issues /\ f.gen \in 1 .. clock'
             /\ \A x \in DOMAIN f.of : IsEntry(f.of[x])
      BY <1>1, <1>3 DEF IsAudit
    <3>6. clock' \in 1 .. clock'
      BY <1>1
    <3> HIDE DEF selected, covered, f
    <3>7. IsReport(report)'
      BY <3>2, <3>3, <3>4, <3>5, <3>6 DEF IsReport, IsAudit
    <3> QED BY <3>1, <3>7 DEF Backed, BackedBy
  <2> QED BY <1>2, <2>1, <2>2
<1>6. TypeOK'
  BY <1>1, <1>3, <1>4, <1>5 DEF TypeOK
<1> QED BY <1>1, <1>5, <1>6 DEF Backed, BackedBy

\* The write command takes the report as it is.
LEMMA StartInv ==
    ASSUME NEW given \in BOOLEAN, NEW issue \in Issues, NEW guarded \in BOOLEAN,
           IInv, Start(given, issue, guarded)
    PROVE  IInv'
<1> USE DEF IInv
<1>1. /\ report # NoFile /\ UNCHANGED <<clock, offers, audit, report, written>>
      /\ proc' = [pc |-> "rerun", rep |-> report, guarded |-> guarded]
  BY DEF Start
<1>2. proc'.rep = report
  BY <1>1
<1>3. TypeOK'
  BY <1>1, <1>2 DEF TypeOK, IsAudit, IsReport
<1> QED BY <1>1, <1>2, <1>3 DEF Backed, BackedBy

\* A step of the write command keeps the report it began with.
LEMMA LaunchInv ==
    ASSUME NEW control, IInv, Launch(control)
    PROVE  IInv'
<1> USE DEF IInv
<1>1. /\ clock' = clock + 1 /\ clock \in Nat /\ clock' \in 0 .. MaxClock
      /\ UNCHANGED <<offers, audit, report, written>>
      /\ proc'.rep = proc.rep
  BY EvidenceOK DEF Launch, TypeOK
<1>2. proc # Idle
  BY DEF Launch, Idle
<1>3. IsAudit(audit)' /\ IsReport(report)' /\ IsReport(written)' /\ IsReport(proc.rep)'
  BY <1>1, <1>2, UnchangedAudit, UnchangedReport, UnchangedWritten, UnchangedProc
  DEF TypeOK
<1>4. TypeOK'
  BY <1>1, <1>3 DEF TypeOK
<1> QED BY <1>1, <1>2, <1>4 DEF Backed, BackedBy

\* The commit writes the answers the report has.
LEMMA CommitInv == IInv /\ Commit => IInv'
<1> SUFFICES ASSUME IInv, Commit PROVE IInv'
  OBVIOUS
<1> USE DEF IInv
<1> DEFINE rep == proc.rep
<1>1. /\ UNCHANGED <<clock, audit, report>> /\ written' = rep /\ proc' = Idle
      /\ proc # Idle
  BY DEF Commit, Idle
<1>2. rep # NoFile /\ IsReport(rep) /\ Backed(rep)
  BY <1>1 DEF TypeOK
<1>3. offers' \in [Rows -> Offer]
  <2>1. offers' = [r \in Rows |->
            IF r \in rep.rows
            THEN Seen(offers[r], rep.gen, rep.live[r].price, rep.live[r].available)
            ELSE offers[r]]
    BY DEF Commit
  <2>2. rep.gen \in Nat
    BY <1>2 DEF IsReport, TypeOK
  <2>3. ASSUME NEW r \in rep.rows
        PROVE  rep.live[r].price \in {a.price : a \in Answers}
               /\ rep.live[r].available \in BOOLEAN
    BY <1>2, AnswersOK DEF Backed, Answer
  <2>4. offers \in [Rows -> Offer]
    BY DEF TypeOK
  <2>5. ASSUME NEW r \in Rows PROVE offers'[r] \in Offer
    <3>1. offers[r] \in Offer
      BY <2>4
    <3>2. CASE r \in rep.rows
      BY <2>1, <2>2, <2>3, <3>1, <3>2 DEF Offer, Seen
    <3>3. CASE r \notin rep.rows
      BY <2>1, <3>1, <3>3
    <3> QED BY <3>2, <3>3
  <2> QED BY <2>1, <2>5
<1>4. TypeOK'
  BY <1>1, <1>2, <1>3 DEF TypeOK, IsAudit, IsReport
<1> QED BY <1>1, <1>2, <1>4 DEF Backed, BackedBy

\* A refused write leaves everything as it was.
LEMMA AbortInv == IInv /\ Abort => IInv'
BY DEF IInv, Abort, TypeOK, IsAudit, IsReport, Backed, BackedBy

\* Another writer changes offers only.
LEMMA ObserveInv ==
    ASSUME NEW r \in Rows, NEW rankable \in BOOLEAN, IInv, Observe(r, rankable)
    PROVE  IInv'
<1> USE DEF IInv
<1>1. /\ clock' = clock + 1 /\ clock \in Nat /\ clock' \in 0 .. MaxClock
      /\ UNCHANGED <<audit, report, proc, written>>
  BY EvidenceOK DEF Observe, TypeOK
<1>2. offers' \in [Rows -> Offer]
  BY <1>1 DEF Observe, TypeOK, Offer, Seen
<1>3. IsAudit(audit)' /\ IsReport(report)' /\ IsReport(written)'
  BY <1>1, UnchangedAudit, UnchangedReport, UnchangedWritten DEF TypeOK
<1>4. proc' = Idle \/ IsReport(proc.rep)'
  BY <1>1, UnchangedProc DEF TypeOK
<1>5. TypeOK'
  BY <1>1, <1>2, <1>3, <1>4 DEF TypeOK
<1> QED BY <1>1, <1>5 DEF Backed, BackedBy

\* Every step of every actor preserves the invariant.
LEMMA NextInv == IInv /\ [Next]_vars => IInv'
<1> SUFFICES ASSUME IInv, [Next]_vars PROVE IInv'
  OBVIOUS
<1>1. CASE Operator
  BY <1>1, AuditInv, GateInv DEF Operator
<1>2. CASE Writer
  BY <1>2, StartInv, LaunchInv, CommitInv, AbortInv DEF Writer
<1>3. CASE \E r \in Rows, rankable \in BOOLEAN : Observe(r, rankable)
  BY <1>3, ObserveInv
<1>4. CASE UNCHANGED vars
  BY <1>4 DEF vars, IInv, TypeOK, IsAudit, IsReport, Backed, BackedBy
<1> QED BY <1>1, <1>2, <1>3, <1>4 DEF Next

\* The invariant holds in every behaviour.
LEMMA Invariant == Spec => []IInv
BY InitInv, NextInv, PTL DEF Spec

-----------------------------------------------------------------------------
\* A write made under capacity evidence is backed by it row by row, however the
\* files are replaced between audit, gate, rerun and write.
THEOREM WritesAreBacked == Spec => []EvidenceBacksWrite
<1>1. ASSUME IInv PROVE EvidenceBacksWrite
  <2>1. SUFFICES ASSUME written # NoFile, written.evidence # NoFile
                 PROVE  /\ BackedBy(written, written.evidence)
                        /\ written.store \in Writable
    BY DEF EvidenceBacksWrite, BackedBy
  <2> QED BY <1>1, <2>1 DEF IInv, Backed, TypeOK, IsReport
<1> QED BY <1>1, Invariant, PTL

\* A verdict over several parts passes if each part does.
LEMMA WorstPasses ==
    ASSUME NEW S
    PROVE  /\ Worst(S) \in {"PASS", "WARN", "FAIL"}
           /\ Worst(S) = "PASS" => "FAIL" \notin S /\ "WARN" \notin S
BY DEF Worst

\* A source that is healthy has the batch its capacity report speaks of.
LEMMA HealthSays ==
    ASSUME NEW s \in Stores, NEW t, NEW goal, audit # NoFile, s \in DOMAIN audit.of,
           Health(s, t, goal) = "PASS"
    PROVE  s \in Writable /\ EntryStatus(s, audit.of[s], audit.target) = "PASS"
<1> DEFINE writer == IF s \in Writable THEN "PASS" ELSE "WARN"
           entry == EntryStatus(s, audit.of[s], audit.target)
           complete == IF audit.of[s].pass # audit.of[s].scanned THEN "WARN" ELSE "PASS"
           large == IF s = "mas" /\ ScanNeeded(audit.of[s], audit.target, audit.scan) >= LargeScan
                    THEN "WARN" ELSE "PASS"
<1>1. Worst({writer, FreshnessStatus(s, t, goal), CapacityStatus(s)}) = "PASS"
  BY DEF Health
<1>2. CapacityStatus(s) = Worst({entry, complete, large})
  BY DEF CapacityStatus
<1>3. entry \in {"PASS", "WARN", "FAIL"}
  BY DEF EntryStatus
<1> HIDE DEF entry, complete, large
<1>4. writer # "WARN" /\ CapacityStatus(s) \notin {"WARN", "FAIL"}
  BY <1>1, WorstPasses
<1>5. Worst({entry, complete, large}) = "PASS"
  BY <1>2, <1>4, WorstPasses
<1>6. entry = "PASS"
  BY <1>3, <1>5, WorstPasses
<1> QED BY <1>4, <1>6 DEF entry

\* The health audit and the gate agree on a report about one source.
LEMMA HealthyAccepted == IInv => HealthyIsAccepted
<1> SUFFICES ASSUME IInv, NEW s \in Stores, NEW goal \in Goals,
                    audit # NoFile, DOMAIN audit.of = {s},
                    Health(s, clock, goal) = "PASS"
             PROVE  /\ Viable(audit.of[s]) >= audit.target
                    /\ \A selected \in SUBSET audit.of[s].pass :
                         Cardinality(selected) = audit.target =>
                           EvidenceReasons(audit, s, audit.target, audit.issue,
                                           selected) = {}
  BY DEF HealthyIsAccepted
<1> DEFINE e == audit.of[s]
           target == audit.target
<1>1. s \in Writable /\ EntryStatus(s, e, target) = "PASS"
  BY HealthSays
<1>2. IsEntry(e) /\ target \in Nat
  BY EvidenceOK DEF IInv, TypeOK, IsAudit
<1>3. Viable(e) \in Nat
  BY <1>2, RowSets DEF IsEntry, Viable
<1>4. Class(e) = "viable" /\ ~(Viable(e) < target)
  BY <1>1 DEF EntryStatus
<1>5. Batch(e, target) = target
  BY <1>4 DEF Batch
<1> HIDE DEF e, target
<1>6. ScopeReasons(audit, s, target, audit.issue) = {}
  <2>1. /\ (DOMAIN audit.of # {s}) = FALSE /\ (audit.target # target) = FALSE
        /\ (audit.issue # audit.issue) = FALSE
    BY DEF target
  <2> QED BY <2>1, NoneOfThree, Zenon DEF ScopeReasons
<1>7. SourceReasons(s, e, target, target) = {}
  <2> DEFINE noWriter == s \notin Writable
             excluded == Class(e) = "excluded"
             failed == EntryStatus(s, e, target) = "FAIL"
             few == Viable(e) < target
             small == Batch(e, target) < target
  <2>1. /\ noWriter = FALSE /\ excluded = FALSE /\ failed = FALSE
        /\ few = FALSE /\ small = FALSE
    BY <1>1, <1>2, <1>3, <1>4, <1>5
  <2>2. SourceReasons(s, e, target, target) =
          Reasons({<<"no writer", noWriter>>, <<"excluded", excluded>>, <<"failed", failed>>,
                   <<"too few viable", few>>, <<"batch too small", small>>})
    BY Zenon DEF SourceReasons
  <2> HIDE DEF noWriter, excluded, failed, few, small
  <2> QED BY <2>1, <2>2, NoneOfFive
<1>8. ASSUME NEW selected \in SUBSET e.pass PROVE RowReasons(e, selected) = {}
  <2>1. (~(selected \subseteq e.pass)) = FALSE
    OBVIOUS
  <2> QED BY <2>1, NoneOfOne, Zenon DEF RowReasons
<1> QED BY <1>2, <1>3, <1>4, <1>6, <1>7, <1>8 DEF EvidenceReasons, e, target

\* Files keep their shapes, no evidence was a failed audit, and the judges of a
\* capacity report agree.
THEOREM FilesAndJudges == Spec => []Inv
<1>1. IInv => TypeOK /\ FailedAuditIsNoEvidence
  BY DEF IInv, FailedAuditIsNoEvidence, Backed, BackedBy
<1>2. IInv => Inv
  BY <1>1, HealthyAccepted DEF Inv
<1> QED BY <1>2, Invariant, PTL

\* An order to stop that stands makes its entry active.
LEMMA StandsIsActive ==
    ASSUME NEW c \in Controls \cup {NoFile}, NEW s, NEW t \in Nat, Allows(c, s, t)
    PROVE  /\ ~StopStands(c, s, t)
           /\ \A e \in Entries(c) : e.given => e.wellFormed
<1>1. c \in Controls
  BY DEF Allows
<1>2. ASSUME NEW e \in Entries(c), e.given PROVE e.wellFormed
  <2>1. \E applies \in BOOLEAN : ~Invalid(e, applies, t)
    BY <1>2 DEF Allows, Entries
  <2> QED BY <1>2, <2>1 DEF Invalid
<1>3. ASSUME NEW e \in Entries(c), e.given, e.wellFormed, e.stop, e.expires # 0 => e.expires > t
      PROVE  Active(e, TRUE, t)
  BY <1>1, <1>3, ControlsOK DEF Active, Expired
<1>4. ~StopStands(c, s, t)
  <2> SUFFICES ASSUME NEW e \in {c.global} \cup {c.sources[x] : x \in DOMAIN c.sources \cap {s}},
                      e.given, e.wellFormed, e.stop, e.expires # 0 => e.expires > t
               PROVE  FALSE
    BY DEF StopStands
  <2>1. e \in Entries(c)
    BY DEF Entries
  <2>2. Active(e, TRUE, t)
    BY <1>3, <2>1
  <2>3. CASE e = c.global
    BY <2>2, <2>3 DEF Allows
  <2>4. CASE s \in DOMAIN c.sources /\ e = c.sources[s]
    <3>1. ~Active(c.sources[s], s = s, t)
      BY <2>4 DEF Allows
    <3> QED BY <2>2, <2>4, <3>1 DEF Active
  <2> QED BY <2>3, <2>4
<1> QED BY <1>2, <1>4

\* A write under the kill switch does not begin against an order to stop, nor
\* on a file that is missing or has an entry that cannot be understood.
THEOREM StopObeyed == Spec => StopIsObeyed
<1> DEFINE Obeyed ==
      proc.pc = "rerun" /\ proc'.pc = "launched" /\ proc.guarded =>
        LET c == proc'.control
        IN /\ c # NoFile /\ ~StopStands(c, proc.rep.store, clock')
           /\ \A e \in Entries(c) : e.given => e.wellFormed
<1>1. ASSUME IInv, [Next]_vars PROVE [Obeyed]_vars
  <2> SUFFICES ASSUME proc.pc = "rerun", proc'.pc = "launched", proc.guarded
               PROVE  LET c == proc'.control
                      IN /\ c # NoFile /\ ~StopStands(c, proc.rep.store, clock')
                         /\ \A e \in Entries(c) : e.given => e.wellFormed
    OBVIOUS
  <2>1. PICK control \in Controls \cup {NoFile} : Launch(control)
    <3>1. ~UNCHANGED proc /\ proc' # Idle
      BY DEF Idle
    <3> QED BY <1>1, <3>1
        DEF Next, Operator, Writer, Audit, Gate, Start, Commit, Abort, Observe, Idle, vars
  <2>2. proc'.control = control /\ Allows(control, proc.rep.store, clock')
    BY <2>1 DEF Launch
  <2>3. clock' \in Nat
    BY <1>1, <2>1 DEF Launch, IInv, TypeOK
  <2> QED BY <2>2, <2>3, StandsIsActive DEF Allows
<1>2. Spec => [][Obeyed]_vars
  BY <1>1, Invariant, PTL DEF Spec
<1> QED BY <1>2 DEF StopIsObeyed

-----------------------------------------------------------------------------
\* Rounding up: enough, and one less is not.
LEMMA CeilDivBounds ==
    ASSUME NEW a \in Nat, NEW b \in Nat \ {0}
    PROVE  /\ CeilDiv(a, b) \in Nat
           /\ CeilDiv(a, b) * b >= a
           /\ a > 0 => CeilDiv(a, b) > 0
           /\ (CeilDiv(a, b) - 1) * b < a
<1> DEFINE q == CeilDiv(a, b)
<1>1. q \in Int /\ b * q <= a + b - 1 /\ a + b - 1 < b * (q + 1)
  BY DEF CeilDiv
<1>2. q >= 0
  BY DEF CeilDiv
<1> HIDE DEF q
<1>3. b * (q + 1) = b * q + b /\ q * b = b * q /\ (q - 1) * b = b * q - b /\ b * q \in Int
  BY <1>1
<1> QED BY <1>1, <1>2, <1>3 DEF q

\* In floating point: enough, and two less is not.
LEMMA FloatCeilBounds ==
    ASSUME NEW a \in Nat, NEW b \in Nat \ {0}, NEW up \in BOOLEAN
    PROVE  /\ FloatCeil(a, b, up) \in Nat
           /\ FloatCeil(a, b, up) * b >= a
           /\ (FloatCeil(a, b, up) - 2) * b < a
<1> DEFINE q == CeilDiv(a, b)
           c == FloatCeil(a, b, up)
<1>1. q \in Nat /\ q * b >= a /\ (q - 1) * b < a
  BY CeilDivBounds
<1>2. c = q \/ c = q + 1
  BY <1>1 DEF FloatCeil
<1> HIDE DEF q, c
<1>3. /\ (q + 1) * b = q * b + b /\ (q - 2) * b = (q - 1) * b - b
      /\ q * b \in Nat /\ (q - 1) * b \in Int
  BY <1>1
<1>4. CASE c = q
  BY <1>1, <1>3, <1>4 DEF c
<1>5. CASE c = q + 1
  <2>1. c - 2 = q - 1
    BY <1>1, <1>5
  <2> QED BY <1>1, <1>3, <1>5, <2>1 DEF c
<1> QED BY <1>2, <1>4, <1>5

\* What is still to be refreshed reaches the goal, and two rows less do not.
LEMMA RowsReachGoal ==
    ASSUME NEW e, IsEntry(e), e.rankable \in Nat, NEW goal \in 1 .. 100
    PROVE  /\ RowsToRefresh(e, goal) \in Nat
           /\ (e.fresh + RowsToRefresh(e, goal)) * 100 >= goal * e.rankable
           /\ RowsToRefresh(e, goal) > 0 =>
                (e.fresh + RowsToRefresh(e, goal) - 2) * 100 < goal * e.rankable
<1> DEFINE share == e.rankable * goal
           up == <<e.rankable, goal>> \in SharesUp
           wanted == FloatCeil(share, 100, up)
           fresh == e.fresh
<1>1. share \in Nat /\ goal * e.rankable = share /\ up \in BOOLEAN
  OBVIOUS
<1>2. fresh \in Nat
  BY DEF IsEntry
<1>3. RowsToRefresh(e, goal) = IF wanted > fresh THEN wanted - fresh ELSE 0
  BY DEF RowsToRefresh
<1> HIDE DEF share, fresh, up
<1>4. wanted \in Nat /\ wanted * 100 >= share /\ (wanted - 2) * 100 < share
  <2>1. 100 \in Nat \ {0}
    OBVIOUS
  <2>2. /\ FloatCeil(share, 100, up) \in Nat
        /\ FloatCeil(share, 100, up) * 100 >= share
        /\ (FloatCeil(share, 100, up) - 2) * 100 < share
    BY ONLY <1>1, <2>1, FloatCeilBounds
  <2> QED BY <2>2
<1> HIDE DEF wanted
<1> QED BY <1>1, <1>2, <1>3, <1>4 DEF fresh

\* As many batches as the audit recommends, of the size it recommends, suffice.
LEMMA ChunksSuffice ==
    ASSUME NEW e, IsEntry(e), NEW goal, NEW target \in Nat \ {0},
           RowsToRefresh(e, goal) \in Nat
    PROVE  /\ Batch(e, target) <= Viable(e)
           /\ e.pass # {} => /\ e.rankable # 0
                             /\ Chunks(e, goal, target) * Batch(e, target)
                                  >= RowsToRefresh(e, goal)
<1>1. Viable(e) \in Nat /\ (e.pass # {} => Viable(e) > 0)
  BY RowSets, FS_EmptySet DEF IsEntry, Viable
<1>2. Batch(e, target) <= Viable(e)
  BY <1>1 DEF Batch
<1>3. ASSUME e.pass # {} PROVE e.rankable # 0
  BY <1>3, RowSets, FS_EmptySet, FS_Subset DEF IsEntry
<1>4. ASSUME e.pass # {} PROVE Batch(e, target) \in Nat \ {0}
  BY <1>1, <1>3, <1>4 DEF Batch, Class
<1> QED BY <1>2, <1>3, <1>4, CeilDivBounds DEF Chunks

\* The plan of every audit reaches the goal and asks for a row too many at most,
\* for any goal, scan and batch and whatever floating point does to its quotients.
THEOREM PlansReachGoals == Spec => []PlanReachesGoal
<1>1. ASSUME IInv PROVE PlanReachesGoal
  <2> SUFFICES ASSUME audit # NoFile, NEW s \in DOMAIN audit.of, NEW goal \in Goals
               PROVE  LET e == audit.of[s]
                          more == RowsToRefresh(e, goal)
                      IN /\ (e.fresh + more) * 100 >= goal * e.rankable
                         /\ more > 0 => (e.fresh + more - 2) * 100 < goal * e.rankable
                         /\ e.pass # {} => Chunks(e, goal, audit.target)
                                             * Batch(e, audit.target) >= more
                         /\ Batch(e, audit.target) <= Viable(e)
    BY DEF PlanReachesGoal
  <2>1. IsEntry(audit.of[s]) /\ audit.target \in Nat \ {0} /\ goal \in 1 .. 100
    BY <1>1, EvidenceOK DEF IInv, TypeOK, IsAudit
  <2>2. audit.of[s].rankable \in Nat
    BY <2>1 DEF IsEntry
  <2> QED BY <2>1, <2>2, RowsReachGoal, ChunksSuffice
<1> QED BY <1>1, Invariant, PTL
=============================================================================
