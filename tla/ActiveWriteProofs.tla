-------------------------- MODULE ActiveWriteProofs --------------------------
(***************************************************************************)
(* Proofs about the gated direct refresh: its types; that a commit applies *)
(* its whole report whatever the reconciliation does meanwhile; and, while *)
(* nobody else commits meanwhile, what it leaves in the tables.            *)
(***************************************************************************)
EXTENDS ActiveWrite, FiniteSetTheorems, WellFoundedInduction, TLAPS

-----------------------------------------------------------------------------
(* Types.                                                                  *)

\* A job record of one of the four shapes.
JobOK(j) ==
    \/ j = Idle
    \/ /\ j.pc \in {"rerun", "launched", "writing"}
       /\ IsReport(j.rep)
       /\ j.pc \in {"launched", "writing"} => j.started \in Nat
       /\ j.pc \in {"writing"} =>
            /\ j.base \in Nat
            /\ j.todo \subseteq j.rep.rows
            /\ j.points \subseteq HistoryRec

\* The gate selects among the offers it listed, and those exist.
LEMMA SelectedListed ==
    ASSUME NEW live
    PROVE  /\ Candidates \subseteq Rows
           /\ Selected(live) \subseteq Covered(live)
           /\ Covered(live) \subseteq Candidates
BY DEF Candidates, Covered, Selected, Viable, First

\* What the gate writes down has the shape of a report.
LEMMA EvaluateIsReport ==
    ASSUME TypeOK, NEW t \in Nat, NEW live \in [Candidates -> Quotes]
    PROVE  IsReport(Evaluate(live, t))
<1> DEFINE rep == Evaluate(live, t)
<1>1. /\ DOMAIN rep = {"gen", "rows", "before", "newest", "live", "insert", "scanned",
                        "maxId"}
      /\ rep.gen = t
      /\ rep.rows = Selected(live)
      /\ rep.before = [r \in Covered(live) |-> offers[r]]
      /\ rep.live = [r \in Covered(live) |-> live[r]]
      /\ rep.insert = {r \in Selected(live) : Inserts(r, live[r])}
  BY DEF Evaluate
<1>2. /\ Candidates \subseteq Rows /\ Selected(live) \subseteq Covered(live)
      /\ Covered(live) \subseteq Candidates
  BY SelectedListed
<1>3. offers \in [Rows -> OfferRec]
  BY DEF TypeOK
<1>4. DOMAIN rep.before = Covered(live)
  BY <1>1
<1>5. /\ rep.before \in [Covered(live) -> OfferRec]
      /\ rep.live \in [Covered(live) -> Quotes]
  BY <1>1, <1>2, <1>3
<1> HIDE DEF rep
<1>6. IsReport(rep)
  BY <1>1, <1>2, <1>4, <1>5 DEF IsReport
<1> QED BY <1>6 DEF rep

\* The tables a behaviour starts with have their types.
LEMMA InitTypes == ASSUME ActiveWriteOK, Init PROVE TypeOK
<1>1. PICK q \in [Rows -> Quotes] :
        /\ offers = [r \in Rows |-> [quote |-> q[r], at |-> 0, sku |-> TRUE]]
        /\ history = {[row |-> r, quote |-> q[r], at |-> 0,
                       id |-> 1 + Cardinality({p \in Rows : p < r})] : r \in Rows}
        /\ seen = {<<r, q[r], 0>> : r \in Rows}
  BY DEF Init
<1>2. offers \in [Rows -> OfferRec]
  BY <1>1 DEF OfferRec
<1>3. \A r \in Rows : Cardinality({p \in Rows : p < r}) \in Nat
  BY FS_Subset, FS_CardinalityType DEF ActiveWriteOK
<1>4. history \subseteq HistoryRec
  <2>1. ASSUME NEW r \in Rows
        PROVE  [row |-> r, quote |-> q[r], at |-> 0,
                id |-> 1 + Cardinality({p \in Rows : p < r})] \in HistoryRec
    <3> DEFINE n == Cardinality({p \in Rows : p < r})
    <3>1. n \in Nat
      BY <1>3
    <3> HIDE DEF n
    <3>2. [row |-> r, quote |-> q[r], at |-> 0, id |-> 1 + n] \in HistoryRec
      BY <3>1 DEF HistoryRec
    <3> QED BY <3>2 DEF n
  <2> QED BY <1>1, <2>1
<1>5. seen \subseteq Rows \X Quotes \X Nat
  <2>1. \A r \in Rows : <<r, q[r], 0>> \in Rows \X Quotes \X Nat
    OBVIOUS
  <2> QED BY <1>1, <2>1, Zenon
<1>6. clock \in 0..MaxClock /\ created \in Nat /\ writes \subseteq [gen : Nat, at : Nat]
  BY DEF Init, ActiveWriteOK
<1>7. nextId \in Nat
  BY FS_CardinalityType DEF Init, ActiveWriteOK
<1>8. report = NoReport /\ run = NoRun /\ job = [w \in Writers |-> Idle]
  BY DEF Init
<1> QED BY <1>2, <1>4, <1>5, <1>6, <1>7, <1>8 DEF TypeOK

\* What TypeOK says of one job.
LEMMA JobTypes ==
    ASSUME TypeOK, NEW w \in Writers
    PROVE  JobOK(job[w])
BY DEF TypeOK, JobOK, PcIs

\* Only the job of w changes, and its new record is a job record again.
LEMMA OneJobChanges ==
    ASSUME TypeOK, NEW w \in Writers, NEW j, JobOK(j), job' = [job EXCEPT ![w] = j]
    PROVE  /\ DOMAIN job' = Writers
           /\ \A v \in Writers :
                \/ job'[v] = Idle
                \/ /\ job'[v].pc \in {"rerun", "launched", "writing"}
                   /\ IsReport(job'[v].rep)
                   /\ job'[v].pc \in {"launched", "writing"} => job'[v].started \in Nat
                   /\ job'[v].pc \in {"writing"} =>
                        /\ job'[v].base \in Nat
                        /\ job'[v].todo \subseteq job'[v].rep.rows
                        /\ job'[v].points \subseteq HistoryRec
<1>1. DOMAIN job = Writers
  BY DEF TypeOK
<1>2. \A v \in Writers : JobOK(job[v])
  BY JobTypes
<1>3. \A v \in Writers : JobOK(job'[v])
  BY <1>1, <1>2
<1> QED BY <1>1, <1>3 DEF JobOK

\* The gate changes the clock, the report and what was seen.
LEMMA GateTypes == ASSUME ActiveWriteOK, TypeOK, Gate PROVE TypeOK'
<1>1. PICK live \in [Candidates -> Quotes] :
        /\ report' = Evaluate(live, clock')
        /\ seen' = seen \cup {<<r, live[r], clock'>> : r \in Candidates}
  BY DEF Gate, Lookups
<1>2. clock' \in 0..MaxClock /\ clock' \in Nat
  BY DEF Gate, Lookups, TypeOK, ActiveWriteOK
<1>3. IsReport(report')
  BY <1>1, <1>2, EvaluateIsReport
<1>4. seen' \subseteq Rows \X Quotes \X Nat
  <2>1. Candidates \subseteq Rows
    BY SelectedListed
  <2>2. \A r \in Candidates : <<r, live[r], clock'>> \in Rows \X Quotes \X Nat
    BY <1>2, <2>1
  <2> QED BY <1>1, <2>2, Zenon DEF TypeOK
<1>5. UNCHANGED <<offers, history, nextId, created, job, run, writes>>
  BY DEF Gate, Lookups
<1> QED BY <1>2, <1>3, <1>4, <1>5 DEF TypeOK, PcIs

\* A step of a write process that moves only its job and the clock or the ids.
LEMMA WriteTypes ==
    ASSUME ActiveWriteOK, TypeOK, NEW w \in Writers, Write(w)
    PROVE  TypeOK'
<1> USE DEF PcIs
<1>0. JobOK(job[w])
  BY JobTypes
<1>1. CASE Rerun(w)
  <2> DEFINE j == [pc |-> "rerun", rep |-> report]
  <2>1. JobOK(j)
    BY <1>1 DEF Rerun, TypeOK, JobOK
  <2>2. job' = [job EXCEPT ![w] = j]
    BY <1>1 DEF Rerun
  <2> HIDE DEF j
  <2>3. UNCHANGED <<clock, offers, history, nextId, created, report, run, seen, writes>>
    BY <1>1 DEF Rerun
  <2> QED BY <2>1, <2>2, <2>3, OneJobChanges DEF TypeOK
<1>2. CASE Launch(w)
  <2> DEFINE j == [pc |-> "launched", rep |-> job[w].rep, started |-> clock']
  <2>1. clock' \in 0..MaxClock /\ clock' \in Nat
    BY <1>2 DEF Launch, TypeOK, ActiveWriteOK
  <2>2. IsReport(job[w].rep)
    BY <1>0, <1>2 DEF JobOK, Launch, Idle
  <2>3. JobOK(j)
    BY <2>1, <2>2 DEF JobOK
  <2>4. job' = [job EXCEPT ![w] = j]
    BY <1>2 DEF Launch
  <2> HIDE DEF j
  <2>5. UNCHANGED <<offers, history, nextId, created, report, run, seen, writes>>
    BY <1>2 DEF Launch
  <2> QED BY <2>1, <2>3, <2>4, <2>5, OneJobChanges DEF TypeOK
<1>3. CASE Lock(w)
  <2> DEFINE j == Writing(job[w].rep, job[w].started, created, job[w].rep.rows, {})
  <2>1. IsReport(job[w].rep) /\ job[w].started \in Nat /\ created \in Nat
    BY <1>0, <1>3 DEF JobOK, Lock, Idle, TypeOK
  <2>2. JobOK(j)
    BY <2>1 DEF JobOK, Writing
  <2>3. job' = [job EXCEPT ![w] = j]
    BY <1>3 DEF Lock
  <2> HIDE DEF j
  <2>4. UNCHANGED <<clock, offers, history, nextId, created, report, run, seen, writes>>
    BY <1>3 DEF Lock
  <2> QED BY <2>2, <2>3, <2>4, OneJobChanges DEF TypeOK
<1>4. ASSUME NEW r \in Rows, UpdateRow(w, r) PROVE TypeOK'
  <2> DEFINE points == IF r \in job[w].rep.insert
                       THEN job[w].points \cup {NewPoint(w, r)} ELSE job[w].points
             j == Writing(job[w].rep, job[w].started, job[w].base, job[w].todo \ {r}, points)
  <2>1. /\ IsReport(job[w].rep) /\ job[w].started \in Nat /\ job[w].base \in Nat
        /\ job[w].todo \subseteq job[w].rep.rows /\ job[w].points \subseteq HistoryRec
        /\ r \in job[w].todo
    BY <1>0, <1>4 DEF JobOK, UpdateRow, Idle
  <2>2. job[w].rep.live[r] \in Quotes
    BY <2>1 DEF IsReport
  <2>3. NewPoint(w, r) \in HistoryRec
    BY <2>1, <2>2 DEF NewPoint, HistoryRec, TypeOK
  <2>4. points \subseteq HistoryRec
    BY <2>1, <2>3
  <2>5. job' = [job EXCEPT ![w] = j]
    BY <1>4 DEF UpdateRow
  <2> HIDE DEF points
  <2>6. JobOK(j)
    BY <2>1, <2>4 DEF JobOK, Writing
  <2> HIDE DEF j
  <2>7. nextId' \in Nat
    BY <1>4 DEF UpdateRow, TypeOK
  <2>8. UNCHANGED <<clock, offers, history, created, report, run, seen, writes>>
    BY <1>4 DEF UpdateRow
  <2> QED BY <2>5, <2>6, <2>7, <2>8, OneJobChanges DEF TypeOK
<1>5. CASE Finish(w)
  <2>1. /\ IsReport(job[w].rep) /\ job[w].started \in Nat
        /\ job[w].points \subseteq HistoryRec
    BY <1>0, <1>5 DEF JobOK, Finish, Idle
  <2>2. offers' \in [Rows -> OfferRec]
    <3>1. ASSUME NEW r \in job[w].rep.rows PROVE Written(job[w].rep, r) \in OfferRec
      <4>1. r \in Rows /\ job[w].rep.live[r] \in Quotes /\ job[w].rep.gen \in Nat
        BY <2>1 DEF IsReport
      <4>2. offers[r] \in OfferRec
        BY <4>1 DEF TypeOK
      <4> QED BY <4>1, <4>2 DEF Written, OfferRec
    <3>2. offers \in [Rows -> OfferRec]
      BY DEF TypeOK
    <3>3. offers' = [r \in Rows |-> IF r \in job[w].rep.rows
                                    THEN Written(job[w].rep, r) ELSE offers[r]]
      BY <1>5 DEF Finish
    <3> QED BY <3>1, <3>2, <3>3
  <2>3. history' \subseteq HistoryRec
    BY <1>5, <2>1 DEF Finish, TypeOK
  <2>4. writes' \subseteq [gen : Nat, at : Nat]
    BY <1>5, <2>1 DEF Finish, TypeOK, IsReport
  <2>5. job' = [job EXCEPT ![w] = Idle] /\ JobOK(Idle)
    BY <1>5 DEF Finish, JobOK
  <2>6. UNCHANGED <<clock, nextId, created, report, run, seen>>
    BY <1>5 DEF Finish
  <2> QED BY <2>2, <2>3, <2>4, <2>5, <2>6, OneJobChanges DEF TypeOK
<1>6. CASE Abort(w)
  <2>1. job' = [job EXCEPT ![w] = Idle] /\ JobOK(Idle)
    BY <1>6 DEF Abort, JobOK
  <2>2. UNCHANGED <<clock, offers, history, nextId, created, report, run, seen, writes>>
    BY <1>6 DEF Abort
  <2> QED BY <2>1, <2>2, OneJobChanges DEF TypeOK
<1> QED BY <1>1, <1>2, <1>3, <1>4, <1>5, <1>6 DEF Write

\* An acquisition leaves a run of the store's own rows.
LEMMA AcquireTypes ==
    ASSUME ActiveWriteOK, TypeOK, NEW S \in SUBSET Rows, NEW quotes \in [S -> Quotes],
           Acquire(quotes)
    PROVE  TypeOK'
<1>1. clock' \in 0..MaxClock /\ clock' \in Nat
  BY DEF Acquire, TypeOK, ActiveWriteOK
<1>2. run' = [at |-> clock', quotes |-> quotes]
  BY DEF Acquire
<1>3. IsRun(run')
  BY <1>1, <1>2 DEF IsRun
<1>4. seen' \subseteq Rows \X Quotes \X Nat
  BY <1>1 DEF Acquire, TypeOK
<1>5. UNCHANGED <<offers, history, nextId, created, report, job, writes>>
  BY DEF Acquire
<1> QED BY <1>1, <1>3, <1>4, <1>5 DEF TypeOK, PcIs

\* What a reconciliation writes, with its sets named.
LEMMA ReconcileEffect ==
    ASSUME TypeOK, NEW lost \in SUBSET Rows, NEW new \in NewOffers, Reconcile(lost, new)
    PROVE  /\ IsRun(run)
           /\ \A r \in Rows : r \in DOMAIN run.quotes =>
                offers'[r] = [quote |-> run.quotes[r], at |-> run.at, sku |-> TRUE]
           /\ \A r \in Rows : r \notin DOMAIN run.quotes =>
                offers'[r] = [offers[r] EXCEPT !.sku = offers[r].sku /\ r \notin lost]
           /\ DOMAIN offers' = Rows
           /\ (lost \cup DOMAIN run.quotes) \cap LockedRows = {}
           /\ UNCHANGED <<clock, report, job, seen, writes>>
           /\ history \subseteq history'
           /\ run' = NoRun
BY DEF Reconcile, TypeOK

\* A reconciliation keeps offers, history and the id sequence in their types.
LEMMA ReconcileTypes ==
    ASSUME ActiveWriteOK, TypeOK, NEW lost \in SUBSET Rows, NEW new \in NewOffers,
           Reconcile(lost, new)
    PROVE  TypeOK'
<1> DEFINE S == DOMAIN run.quotes
           N == {r \in S : run.quotes[r] \notin Latest(r)}
           Below(r) == Cardinality({q \in N : q < r})
           Points == {[row |-> r, quote |-> run.quotes[r], at |-> run.at,
                       id |-> nextId + Below(r)] : r \in N}
<1>1. IsRun(run) /\ UNCHANGED <<clock, report, job, seen, writes>> /\ run' = NoRun
  BY ReconcileEffect
<1>2. S \subseteq Rows /\ run.at \in Nat /\ \A r \in S : run.quotes[r] \in Quotes
  BY <1>1 DEF IsRun
<1>3. offers' \in [Rows -> OfferRec]
  <2>1. ASSUME NEW r \in Rows PROVE offers'[r] \in OfferRec
    <3>1. offers[r] \in OfferRec
      BY DEF TypeOK
    <3>2. CASE r \in S
      <4>1. offers'[r] = [quote |-> run.quotes[r], at |-> run.at, sku |-> TRUE]
        BY <3>2, ReconcileEffect
      <4> QED BY <1>2, <3>2, <4>1 DEF OfferRec
    <3>3. CASE r \notin S
      <4>1. offers'[r] = [offers[r] EXCEPT !.sku = offers[r].sku /\ r \notin lost]
        BY <3>3, ReconcileEffect
      <4> QED BY <3>1, <4>1 DEF OfferRec
    <3> QED BY <3>2, <3>3
  <2>2. offers' = [r \in Rows |-> offers'[r]]
    BY DEF Reconcile
  <2> QED BY <2>1, <2>2
<1>4. IsFiniteSet(N)
  BY <1>2, FS_Subset DEF ActiveWriteOK
<1>5. Cardinality(N) \in Nat
  BY <1>4, FS_CardinalityType
<1>6. \A r \in N : Below(r) \in Nat
  BY <1>4, FS_Subset, FS_CardinalityType
<1>7. Points \subseteq HistoryRec
  <2>1. ASSUME NEW r \in N
        PROVE  [row |-> r, quote |-> run.quotes[r], at |-> run.at,
                id |-> nextId + Below(r)] \in HistoryRec
    <3>1. Below(r) \in Nat
      BY <1>6
    <3>2. r \in Rows /\ run.quotes[r] \in Quotes /\ run.at \in Nat /\ nextId \in Nat
      BY <1>2 DEF TypeOK
    <3> HIDE DEF Below
    <3> QED BY <3>1, <3>2 DEF HistoryRec
  <2> HIDE DEF N, Below
  <2> QED BY <2>1
<1>8. history' = history \cup Points
  BY DEF Reconcile
<1>9. nextId' = nextId + Cardinality(N)
  BY DEF Reconcile
<1>10. created' \in Nat
  BY DEF Reconcile, TypeOK
<1> HIDE DEF Points, N
<1>11. history' \subseteq HistoryRec /\ nextId' \in Nat
  BY <1>5, <1>7, <1>8, <1>9 DEF TypeOK
<1> QED BY <1>1, <1>3, <1>10, <1>11 DEF TypeOK, PcIs

\* Every step keeps the types.
LEMMA NextTypes == ASSUME ActiveWriteOK, TypeOK, [Next]_vars PROVE TypeOK'
<1>1. CASE Gate
  BY <1>1, GateTypes
<1>2. ASSUME NEW w \in Writers, Write(w) PROVE TypeOK'
  BY <1>2, WriteTypes
<1>3. CASE AcquireSome
  BY <1>3, AcquireTypes DEF AcquireSome
<1>4. CASE ReconcileSome
  BY <1>4, ReconcileTypes DEF ReconcileSome
<1>5. CASE UNCHANGED vars
  BY <1>5 DEF vars, TypeOK, PcIs
<1> QED BY <1>1, <1>2, <1>3, <1>4, <1>5 DEF Next

\* Offers, history, reports, runs and jobs keep their types, for every set of
\* offers and writers, every batch and scan size and every price limit.
THEOREM ActiveWriteTypes == Spec => []TypeOK
<1>1. Init => TypeOK
  BY InitTypes, ActiveWriteOK
<1>2. TypeOK /\ [Next]_vars => TypeOK'
  BY NextTypes, ActiveWriteOK
<1> QED BY <1>1, <1>2, PTL DEF Spec

-----------------------------------------------------------------------------
(* The commit is whole.  An updated row is locked, so that it still holds  *)
(* its SKU at the commit; and every instant in a report is older than the  *)
(* report, so that last_checked_at is always among the changed fields.     *)

\* No instant is in the future.
InstantsPast ==
    /\ \A r \in Rows : offers[r].at <= clock
    /\ run # NoRun => run.at <= clock

\* What a report saw was stored before the report was made.
SawOlder(rep) ==
    /\ rep.gen <= clock
    /\ \A r \in rep.rows : rep.before[r].at < rep.gen

ReportsSawOlder ==
    /\ report # NoReport => SawOlder(report)
    /\ \A w \in Writers : ~PcIs(w, {"idle"}) => SawOlder(job[w].rep)

\* A row the transaction has updated.
RowDone(w, r) ==
    /\ offers[r].sku
    /\ r \in job[w].rep.insert =>
         \E h \in job[w].points : h.row = r /\ h.quote = job[w].rep.live[r]
                                  /\ h.at = job[w].started

DoneRows ==
    \A w \in Writers : PcIs(w, {"writing"}) =>
        \A r \in job[w].rep.rows \ job[w].todo : RowDone(w, r)

WriteInv == TypeOK /\ InstantsPast /\ ReportsSawOlder /\ DoneRows

\* The invariant holds before anything has run.
LEMMA InitWriteInv == ASSUME ActiveWriteOK, Init PROVE WriteInv
<1>1. TypeOK
  BY InitTypes
<1>2. InstantsPast
  BY DEF InstantsPast, Init
<1>3. ReportsSawOlder /\ DoneRows
  BY DEF ReportsSawOlder, DoneRows, Init, Idle, PcIs
<1> QED BY <1>1, <1>2, <1>3 DEF WriteInv

\* The report of a job that is under way.
LEMMA JobReport ==
    ASSUME TypeOK, NEW w \in Writers, ~PcIs(w, {"idle"})
    PROVE  /\ IsReport(job[w].rep)
           /\ PcIs(w, {"launched", "writing"}) => job[w].started \in Nat
           /\ PcIs(w, {"writing"}) => job[w].todo \subseteq job[w].rep.rows
BY DEF TypeOK, PcIs, Idle

\* A new report is younger than all it saw.
LEMMA GatePreserves ==
    ASSUME ActiveWriteOK, WriteInv, Gate
    PROVE  InstantsPast' /\ ReportsSawOlder' /\ DoneRows'
<1> USE DEF WriteInv
<1>1. /\ clock \in Nat /\ clock' = clock + 1
      /\ UNCHANGED <<offers, run, job>>
  BY DEF Gate, Lookups, TypeOK, ActiveWriteOK
<1>2. \A r \in Rows : offers[r].at \in Nat
  BY DEF TypeOK, OfferRec
<1>3. run # NoRun => run.at \in Nat
  BY DEF TypeOK, IsRun
<1>4. InstantsPast'
  BY <1>1, <1>2, <1>3 DEF InstantsPast
<1>5. PICK live \in [Candidates -> Quotes] : report' = Evaluate(live, clock')
  BY DEF Gate, Lookups
<1>6. SawOlder(report)'
  <2>1. /\ report'.gen = clock' /\ report'.rows = Selected(live)
        /\ report'.before = [r \in Covered(live) |-> offers[r]]
    BY <1>5 DEF Evaluate
  <2>2. ASSUME NEW r \in report'.rows PROVE report'.before[r].at < report'.gen
    <3>1. r \in Covered(live) /\ r \in Rows
      BY <2>1, SelectedListed
    <3>2. offers[r].at <= clock /\ offers[r].at \in Nat
      BY <1>2, <3>1 DEF InstantsPast
    <3> QED BY <1>1, <2>1, <3>1, <3>2
  <2> QED BY <1>1, <2>1, <2>2 DEF SawOlder
<1>7. ReportsSawOlder'
  <2>1. ASSUME NEW w \in Writers, ~PcIs(w, {"idle"}) PROVE SawOlder(job[w].rep)'
    <3>1. SawOlder(job[w].rep) /\ job[w].rep.gen \in Nat
      BY <2>1, JobReport DEF ReportsSawOlder, IsReport
    <3> QED BY <1>1, <3>1 DEF SawOlder
  <2> QED BY <1>1, <1>6, <2>1 DEF ReportsSawOlder, PcIs
<1>8. DoneRows'
  BY <1>1 DEF DoneRows, RowDone, PcIs
<1> QED BY <1>4, <1>7, <1>8

\* A write process keeps the three invariants.
LEMMA WritePreserves ==
    ASSUME ActiveWriteOK, WriteInv, NEW w \in Writers, Write(w)
    PROVE  InstantsPast' /\ ReportsSawOlder' /\ DoneRows'
<1> USE DEF WriteInv
<1>t. /\ clock \in Nat /\ (\A r \in Rows : offers[r].at \in Nat)
      /\ (run # NoRun => run.at \in Nat)
      /\ DOMAIN job = Writers /\ offers \in [Rows -> OfferRec]
  BY DEF TypeOK, ActiveWriteOK, OfferRec, IsRun
<1>1. CASE Rerun(w)
  <2>1. /\ job' = [job EXCEPT ![w] = [pc |-> "rerun", rep |-> report]]
        /\ report # NoReport
        /\ UNCHANGED <<clock, offers, report, run>>
    BY <1>1 DEF Rerun
  <2>2. InstantsPast'
    BY <2>1 DEF InstantsPast
  <2>3. ReportsSawOlder'
    BY <1>t, <2>1 DEF ReportsSawOlder, SawOlder, PcIs
  <2>4. DoneRows'
    BY <1>t, <2>1 DEF DoneRows, RowDone, PcIs
  <2> QED BY <2>2, <2>3, <2>4
<1>2. CASE Launch(w)
  <2>1. /\ job' = [job EXCEPT ![w] = [pc |-> "launched", rep |-> job[w].rep,
                                      started |-> clock']]
        /\ clock' = clock + 1 /\ PcIs(w, {"rerun"})
        /\ UNCHANGED <<offers, report, run>>
    BY <1>2 DEF Launch
  <2>2. InstantsPast'
    BY <1>t, <2>1 DEF InstantsPast
  <2>3. ReportsSawOlder'
    <3>1. report # NoReport => SawOlder(report)'
      <4>1. report # NoReport => report.gen \in Nat
        BY DEF TypeOK, IsReport
      <4> QED BY <1>t, <2>1, <4>1 DEF ReportsSawOlder, SawOlder
    <3>2. ASSUME NEW v \in Writers, ~PcIs(v, {"idle"})' PROVE SawOlder(job[v].rep)'
      <4>1. ~PcIs(v, {"idle"}) /\ job'[v].rep = job[v].rep
        BY <1>t, <2>1, <3>2 DEF PcIs
      <4>2. SawOlder(job[v].rep) /\ job[v].rep.gen \in Nat
        BY <4>1, JobReport DEF ReportsSawOlder, IsReport
      <4> QED BY <1>t, <2>1, <4>1, <4>2 DEF SawOlder
    <3> QED BY <2>1, <3>1, <3>2 DEF ReportsSawOlder
  <2>4. DoneRows'
    BY <1>t, <2>1 DEF DoneRows, RowDone, PcIs
  <2> QED BY <2>2, <2>3, <2>4
<1>3. CASE Lock(w)
  <2>1. /\ job' = [job EXCEPT ![w] = Writing(job[w].rep, job[w].started, created,
                                             job[w].rep.rows, {})]
        /\ PcIs(w, {"launched"})
        /\ UNCHANGED <<clock, offers, report, run>>
    BY <1>3 DEF Lock
  <2>2. InstantsPast'
    BY <2>1 DEF InstantsPast
  <2>3. ReportsSawOlder'
    BY <1>t, <2>1 DEF ReportsSawOlder, SawOlder, PcIs, Writing
  <2>4. DoneRows'
    BY <1>t, <2>1 DEF DoneRows, RowDone, PcIs, Writing
  <2> QED BY <2>2, <2>3, <2>4
<1>4. ASSUME NEW r \in Rows, UpdateRow(w, r)
      PROVE  InstantsPast' /\ ReportsSawOlder' /\ DoneRows'
  <2> DEFINE points == IF r \in job[w].rep.insert
                       THEN job[w].points \cup {NewPoint(w, r)} ELSE job[w].points
  <2>1. /\ job' = [job EXCEPT ![w] = Writing(job[w].rep, job[w].started, job[w].base,
                                             job[w].todo \ {r}, points)]
        /\ PcIs(w, {"writing"}) /\ offers[r].sku
        /\ UNCHANGED <<clock, offers, report, run>>
    BY <1>4 DEF UpdateRow, Updated
  <2>2. InstantsPast'
    BY <2>1 DEF InstantsPast
  <2>p. /\ job[w].points \subseteq points
        /\ r \in job[w].rep.insert => NewPoint(w, r) \in points
    OBVIOUS
  <2> HIDE DEF points
  <2>3. ReportsSawOlder'
    BY <1>t, <2>1 DEF ReportsSawOlder, SawOlder, PcIs, Writing
  <2>4. DoneRows'
    <3>1. ASSUME NEW v \in Writers, PcIs(v, {"writing"})',
                 NEW q \in job'[v].rep.rows \ job'[v].todo
          PROVE  RowDone(v, q)'
      <4>1. CASE v # w
        BY <1>t, <2>1, <3>1, <4>1 DEF DoneRows, RowDone, PcIs
      <4>2. CASE v = w
        <5>1. /\ job'[w].rep = job[w].rep /\ job'[w].started = job[w].started
              /\ job'[w].todo = job[w].todo \ {r} /\ job'[w].points = points
          BY <1>t, <2>1 DEF Writing
        <5>2. CASE q = r
          <6>1. NewPoint(w, r).row = r /\ NewPoint(w, r).quote = job[w].rep.live[r]
                /\ NewPoint(w, r).at = job[w].started
            BY DEF NewPoint
          <6> QED BY <2>1, <2>p, <4>2, <5>1, <5>2, <6>1 DEF RowDone
        <5>3. CASE q # r
          <6>1. RowDone(w, q)
            BY <2>1, <3>1, <4>2, <5>1, <5>3 DEF DoneRows
          <6> QED BY <2>1, <2>p, <4>2, <5>1, <6>1 DEF RowDone
        <5> QED BY <5>2, <5>3
      <4> QED BY <4>1, <4>2
    <3> QED BY <3>1 DEF DoneRows
  <2> QED BY <2>2, <2>3, <2>4
<1>5. CASE Finish(w)
  <2>1. /\ job' = [job EXCEPT ![w] = Idle] /\ PcIs(w, {"writing"})
        /\ UNCHANGED <<clock, report, run>>
        /\ offers' = [r \in Rows |-> IF r \in job[w].rep.rows
                                     THEN Written(job[w].rep, r) ELSE offers[r]]
    BY <1>5 DEF Finish
  <2>2. \A r \in Rows : /\ offers'[r].sku = offers[r].sku
                        /\ offers'[r].at \in {offers[r].at, job[w].rep.gen}
    BY <1>t, <2>1 DEF Written, OfferRec
  <2>3. job[w].rep.gen <= clock
    BY <2>1 DEF ReportsSawOlder, SawOlder, PcIs
  <2>4. InstantsPast'
    BY <2>1, <2>2, <2>3 DEF InstantsPast
  <2>5. ReportsSawOlder'
    BY <1>t, <2>1 DEF ReportsSawOlder, SawOlder, PcIs, Idle
  <2>6. DoneRows'
    <3>1. ASSUME NEW v \in Writers, PcIs(v, {"writing"})',
                 NEW q \in job'[v].rep.rows \ job'[v].todo
          PROVE  RowDone(v, q)'
      <4>1. v # w /\ job'[v] = job[v]
        BY <1>t, <2>1, <3>1 DEF PcIs, Idle
      <4>2. RowDone(v, q)
        BY <3>1, <4>1 DEF DoneRows, PcIs
      <4>3. q \in Rows
        BY <3>1, <4>1, JobReport DEF IsReport, PcIs
      <4> QED BY <2>2, <4>1, <4>2, <4>3 DEF RowDone
    <3> QED BY <3>1 DEF DoneRows
  <2> QED BY <2>4, <2>5, <2>6
<1>6. CASE Abort(w)
  <2>1. /\ job' = [job EXCEPT ![w] = Idle]
        /\ UNCHANGED <<clock, offers, report, run>>
    BY <1>6 DEF Abort
  <2>2. InstantsPast'
    BY <2>1 DEF InstantsPast
  <2>3. ReportsSawOlder'
    BY <1>t, <2>1 DEF ReportsSawOlder, SawOlder, PcIs, Idle
  <2>4. DoneRows'
    BY <1>t, <2>1 DEF DoneRows, RowDone, PcIs, Idle
  <2> QED BY <2>2, <2>3, <2>4
<1> QED BY <1>1, <1>2, <1>3, <1>4, <1>5, <1>6 DEF Write

\* An acquisition touches neither offers nor jobs.
LEMMA AcquirePreserves ==
    ASSUME ActiveWriteOK, WriteInv, NEW quotes, Acquire(quotes)
    PROVE  InstantsPast' /\ ReportsSawOlder' /\ DoneRows'
<1> USE DEF WriteInv
<1>1. /\ clock \in Nat /\ clock' = clock + 1
      /\ run' = [at |-> clock', quotes |-> quotes]
      /\ UNCHANGED <<offers, report, job>>
  BY DEF Acquire, TypeOK, ActiveWriteOK
<1>2. InstantsPast'
  BY <1>1 DEF InstantsPast, TypeOK, OfferRec
<1>3. ReportsSawOlder'
  <2>1. report # NoReport => SawOlder(report)'
    <3>1. report # NoReport => report.gen \in Nat
      BY DEF TypeOK, IsReport
    <3> QED BY <1>1, <3>1 DEF ReportsSawOlder, SawOlder
  <2>2. ASSUME NEW v \in Writers, ~PcIs(v, {"idle"}) PROVE SawOlder(job[v].rep)'
    <3>1. SawOlder(job[v].rep) /\ job[v].rep.gen \in Nat
      BY <2>2, JobReport DEF ReportsSawOlder, IsReport
    <3> QED BY <1>1, <3>1 DEF SawOlder
  <2> QED BY <1>1, <2>1, <2>2 DEF ReportsSawOlder, PcIs
<1>4. DoneRows'
  BY <1>1 DEF DoneRows, RowDone, PcIs
<1> QED BY <1>2, <1>3, <1>4

\* A reconciliation waits for the rows the transaction has updated.
LEMMA ReconcilePreserves ==
    ASSUME ActiveWriteOK, WriteInv, NEW lost \in SUBSET Rows, NEW new \in NewOffers,
           Reconcile(lost, new)
    PROVE  InstantsPast' /\ ReportsSawOlder' /\ DoneRows'
<1> USE DEF WriteInv
<1>1. /\ UNCHANGED <<clock, report, job>> /\ run' = NoRun /\ IsRun(run)
      /\ (lost \cup DOMAIN run.quotes) \cap LockedRows = {}
  BY ReconcileEffect
<1>2. \A r \in Rows :
        \/ offers'[r] = [quote |-> run.quotes[r], at |-> run.at, sku |-> TRUE]
        \/ /\ offers'[r] = [offers[r] EXCEPT !.sku = offers[r].sku /\ r \notin lost]
           /\ r \notin DOMAIN run.quotes
  BY ReconcileEffect
<1>3. run # NoRun
  BY DEF Reconcile
<1>4. InstantsPast'
  <2>1. ASSUME NEW r \in Rows PROVE offers'[r].at <= clock
    <3>1. offers[r].at <= clock /\ run.at <= clock /\ offers[r] \in OfferRec
      BY <1>3 DEF InstantsPast, TypeOK
    <3>2. CASE offers'[r] = [quote |-> run.quotes[r], at |-> run.at, sku |-> TRUE]
      BY <3>1, <3>2
    <3>3. CASE offers'[r] = [offers[r] EXCEPT !.sku = offers[r].sku /\ r \notin lost]
      <4>1. offers'[r].at = offers[r].at
        BY <3>1, <3>3, Zenon DEF OfferRec
      <4> QED BY <3>1, <4>1
    <3> QED BY <1>2, <3>2, <3>3
  <2> QED BY <1>1, <2>1 DEF InstantsPast
<1>5. ReportsSawOlder'
  BY <1>1 DEF ReportsSawOlder, SawOlder, PcIs
<1>6. DoneRows'
  <2>1. ASSUME NEW v \in Writers, PcIs(v, {"writing"}),
               NEW q \in job[v].rep.rows \ job[v].todo
        PROVE  RowDone(v, q)'
    <3>1. RowDone(v, q) /\ q \in LockedRows
      BY <2>1 DEF DoneRows, LockedRows
    <3>2. q \in Rows
      BY <2>1, JobReport DEF IsReport, PcIs
    <3>3. q \notin lost
      BY <1>1, <3>1
    <3>4. offers[q] \in OfferRec
      BY <3>2 DEF TypeOK
    <3>5. offers'[q].sku
      <4>1. CASE offers'[q] = [quote |-> run.quotes[q], at |-> run.at, sku |-> TRUE]
        BY <4>1
      <4>2. CASE offers'[q] = [offers[q] EXCEPT !.sku = offers[q].sku /\ q \notin lost]
        BY <3>1, <3>3, <3>4, <4>2, Zenon DEF RowDone, OfferRec
      <4> QED BY <1>2, <3>2, <4>1, <4>2
    <3> QED BY <1>1, <3>1, <3>5 DEF RowDone
  <2> QED BY <1>1, <2>1 DEF DoneRows, PcIs
<1> QED BY <1>4, <1>5, <1>6

\* Every step keeps the invariant.
LEMMA NextWriteInv == ASSUME ActiveWriteOK, WriteInv, [Next]_vars PROVE WriteInv'
<1>1. TypeOK'
  BY NextTypes DEF WriteInv
<1>2. InstantsPast' /\ ReportsSawOlder' /\ DoneRows'
  <2>1. CASE Gate
    BY <2>1, GatePreserves
  <2>2. ASSUME NEW w \in Writers, Write(w)
        PROVE  InstantsPast' /\ ReportsSawOlder' /\ DoneRows'
    BY <2>2, WritePreserves
  <2>3. CASE AcquireSome
    BY <2>3, AcquirePreserves DEF AcquireSome
  <2>4. CASE ReconcileSome
    BY <2>4, ReconcilePreserves DEF ReconcileSome
  <2>5. CASE UNCHANGED vars
    BY <2>5 DEF vars, WriteInv, InstantsPast, ReportsSawOlder, SawOlder, DoneRows,
                RowDone, PcIs
  <2> QED BY <2>1, <2>2, <2>3, <2>4, <2>5 DEF Next
<1> QED BY <1>1, <1>2 DEF WriteInv

\* A commit under the invariant applies its whole report to one of its rows.
LEMMA FinishIsWhole ==
    ASSUME WriteInv, NEW w \in Writers, Finish(w), NEW r \in job[w].rep.rows
    PROVE  /\ offers'[r].sku
           /\ offers'[r].at = job[w].rep.gen
           /\ r \in job[w].rep.insert =>
                \E h \in history' : h.row = r /\ h.quote = job[w].rep.live[r]
                                    /\ h.at = job[w].started
<1>1. /\ PcIs(w, {"writing"}) /\ job[w].todo = {}
      /\ history' = history \cup job[w].points
      /\ offers' = [q \in Rows |-> IF q \in job[w].rep.rows
                                   THEN Written(job[w].rep, q) ELSE offers[q]]
  BY DEF Finish
<1>2. /\ IsReport(job[w].rep) /\ SawOlder(job[w].rep)
  BY <1>1, JobReport DEF WriteInv, ReportsSawOlder, PcIs
<1>3. r \in Rows /\ offers[r] \in OfferRec
  BY <1>2 DEF IsReport, WriteInv, TypeOK
<1>4. RowDone(w, r)
  BY <1>1 DEF WriteInv, DoneRows
<1>5. job[w].rep.before[r].at < job[w].rep.gen
  BY <1>2 DEF SawOlder
<1>6. job[w].rep.before[r].at \in Nat /\ job[w].rep.gen \in Nat
  BY <1>2 DEF IsReport, OfferRec
<1>7. offers'[r] = Written(job[w].rep, r)
  BY <1>1, <1>3
<1>8. offers'[r].sku
  BY <1>3, <1>4, <1>7 DEF Written, OfferRec, RowDone
<1>9. offers'[r].at = job[w].rep.gen
  BY <1>3, <1>5, <1>6, <1>7 DEF Written, OfferRec
<1> QED BY <1>1, <1>4, <1>8, <1>9 DEF RowDone

\* Whoever else commits during the write, a commit leaves every row of the report
\* under its SKU, with the report's instant and the predicted point; for every set
\* of offers and writers, and with overlapping writers or without.
THEOREM CommitsAreWhole == Spec => CommitIsWhole
<1>1. Init => WriteInv
  BY InitWriteInv, ActiveWriteOK
<1>2. WriteInv /\ [Next]_vars => WriteInv'
  BY NextWriteInv, ActiveWriteOK
<1>3. WriteInv /\ [Next]_vars =>
        [\A w \in Writers : Finish(w) =>
            \A r \in job[w].rep.rows :
                /\ offers'[r].sku
                /\ offers'[r].at = job[w].rep.gen
                /\ r \in job[w].rep.insert =>
                     \E h \in history' : h.row = r /\ h.quote = job[w].rep.live[r]
                                         /\ h.at = job[w].started]_vars
  BY FinishIsWhole
<1> QED BY <1>1, <1>2, <1>3, PTL DEF Spec, CommitIsWhole

-----------------------------------------------------------------------------
(* The tables while nobody commits between a rerun and its commit: the      *)
(* constant Overlap is FALSE, as when no reconciliation of the store and no *)
(* second write command runs beside the first.                              *)

\* A nonempty set of numbers below a bound has a largest one: the least upper bound
\* of the set is in it.
LEMMA LargestNat ==
    ASSUME NEW S \in SUBSET Nat, S # {}, NEW n \in Nat, \A s \in S : s < n
    PROVE  \E m \in S : \A s \in S : s <= m
<1> DEFINE R == {p \in Nat \X Nat : p[1] < p[2]}
           T == {k \in Nat : \A s \in S : s <= k}
<1>1. IsWellFoundedOn(R, Nat)
  <2>1. R = OpToRel(<, Nat)
    BY DEF OpToRel
  <2> QED BY <2>1, NatLessThanWellFounded
<1>2. n \in T
  OBVIOUS
<1>3. PICK m \in T : \A k \in T : ~ (<<k, m>> \in R)
  BY <1>1, <1>2, WFMin
<1>4. m \in Nat /\ \A s \in S : s \in Nat /\ s <= m
  OBVIOUS
<1> HIDE DEF T, R
<1>5. CASE m \notin S
  <2>1. PICK x \in S : TRUE
    OBVIOUS
  <2>2. \A s \in S : s < m
    BY <1>4, <1>5
  <2>3. m - 1 \in Nat
    BY <1>4, <2>1, <2>2
  <2>4. \A s \in S : s <= m - 1
    BY <1>4, <2>2
  <2>5. m - 1 \in T /\ <<m - 1, m>> \in R
    BY <1>4, <2>3, <2>4 DEF T, R
  <2> QED BY <1>3, <2>5
<1> QED BY <1>4, <1>5

\* Fewer members of a finite set lie below one of them than the set has.
LEMMA StrictlyFewer ==
    ASSUME NEW S \in SUBSET Nat, IsFiniteSet(S), NEW r \in S
    PROVE  /\ Cardinality({p \in S : p < r}) \in Nat
           /\ Cardinality({p \in S : p < r}) < Cardinality(S)
<1> DEFINE T == {p \in S : p < r}
<1>1. T \in SUBSET S /\ T # S
  OBVIOUS
<1> HIDE DEF T
<1>2. /\ Cardinality(T) \in Nat /\ Cardinality(S) \in Nat
      /\ Cardinality(T) <= Cardinality(S)
      /\ Cardinality(T) # Cardinality(S)
  BY <1>1, FS_Subset, FS_CardinalityType
<1>3. Cardinality(T) \in Nat /\ Cardinality(T) < Cardinality(S)
  BY <1>2
<1> QED BY <1>3 DEF T

\* A write command past its rerun; the reports written.
Busy(w) == ~PcIs(w, {"idle"})

Gens == {x.gen : x \in writes}

\* price_history.id grows: the sequence is past every id it gave out.
IdsInOrder ==
    /\ nextId \in Nat \ {0}
    /\ \A h \in history : h.id < nextId

\* No point of the history, and no report written, is from the future.
HistoryPast == \A h \in history : h.at <= clock
GensPast == \A x \in writes : x.gen <= clock

\* One write command at a time is past its rerun.
Alone == \A v, w \in Writers : Busy(v) /\ Busy(w) => v = w

\* A report's live quotes were observed at the instant the report carries; so were
\* the ones the reports under way and the acquired run carry.
AllSeen(rep) == \A r \in DOMAIN rep.before : <<r, rep.live[r], rep.gen>> \in seen

ObservationsSeen ==
    /\ report # NoReport => AllSeen(report)
    /\ \A w \in Writers : Busy(w) => AllSeen(job[w].rep)
    /\ run # NoRun => \A r \in DOMAIN run.quotes : <<r, run.quotes[r], run.at>> \in seen

\* What the report says of the tables is so: the offers it will write are as it read
\* them, its predictions of points are right, and its boundary is the newest id.
Holds(rep) ==
    /\ rep.rows # {}
    /\ \A r \in rep.rows : rep.before[r] = offers[r]
    /\ rep.insert = {r \in rep.rows : Inserts(r, rep.live[r])}
    /\ rep.maxId = MaxHistoryId

\* From the rerun to the commit the tables stay as the report describes them.
ReportsHold == \A w \in Writers : Busy(w) => Holds(job[w].rep)

\* The instant of an acquired run is nobody else's.
RunIsNew ==
    run # NoRun =>
        /\ \A r \in Rows : offers[r].at # run.at
        /\ report # NoReport =>
             report.gen # run.at /\ \A r \in report.rows : report.before[r].at # run.at
        /\ \A w \in Writers : Busy(w) => job[w].rep.gen # run.at

\* A report under way with the confirmed one's instant is the confirmed one.
OneReportPerGen ==
    \A w \in Writers : Busy(w) =>
        /\ report # NoReport
        /\ job[w].rep.gen = report.gen => job[w].rep = report

\* A report under way has not been written yet, nor has the confirmed one.
UnderWayUnwritten ==
    \A w \in Writers : Busy(w) => job[w].rep.gen \notin Gens /\ report.gen \notin Gens

\* A report that has been written no longer describes its offers: a second rerun of
\* it cannot match.
WrittenIsStale ==
    report # NoReport =>
        /\ report.rows # {}
        /\ report.gen \in Gens => \E r \in report.rows : offers[r].at # report.before[r].at

\* A transaction began after every point in the history.
StartedAfter ==
    \A w \in Writers : PcIs(w, {"launched", "writing"}) =>
        /\ job[w].started <= clock
        /\ \A h \in history : h.at < job[w].started

\* The points a transaction has inserted are at its start, for rows whose point was
\* predicted, with ids past the history's.
PointsFit ==
    \A w \in Writers : PcIs(w, {"writing"}) =>
       \A p \in job[w].points :
          /\ p.at = job[w].started
          /\ p.row \in job[w].rep.insert
          /\ p.id \in Nat \ {0} /\ p.id < nextId
          /\ \A h \in history : h.id < p.id

\* The parts about reports, under way or confirmed.
Reports == /\ Alone /\ ObservationsSeen /\ ReportsHold /\ RunIsNew
           /\ OneReportPerGen /\ UnderWayUnwritten /\ WrittenIsStale

\* The inductive invariant.  WrittenOnce and OfferIsSeen are not inductive: a commit
\* keeps the first because its report is unwritten, the second because the offers it
\* leaves partly unwritten are as the report read them.
QuietIndInv == /\ WriteInv /\ IdsInOrder /\ HistoryPast /\ GensPast
        /\ Reports
        /\ StartedAfter /\ PointsFit
        /\ WrittenOnce /\ OfferIsSeen

\* The newest id of the history is the largest it holds, and 0 without points.
LEMMA MaxHistory ==
    ASSUME TypeOK, IdsInOrder
    PROVE  /\ MaxHistoryId \in Nat
           /\ \A h \in history : h.id <= MaxHistoryId
           /\ MaxHistoryId = 0 \/ \E h \in history : h.id = MaxHistoryId
<1>1. CASE history = {}
  BY <1>1 DEF MaxHistoryId
<1>2. CASE history # {}
  <2> DEFINE S == {h.id : h \in history}
  <2>1. S \in SUBSET Nat /\ S # {} /\ nextId \in Nat /\ \A s \in S : s < nextId
    BY <1>2 DEF TypeOK, HistoryRec, IdsInOrder
  <2>2. \E m \in S : \A s \in S : s <= m
    <3> HIDE DEF S
    <3> QED BY <2>1, LargestNat
  <2>3. \E i \in {h.id : h \in history} : \A h \in history : h.id <= i
    BY <2>2
  <2> QED BY <1>2, <2>1, <2>3 DEF MaxHistoryId
<1> QED BY <1>1, <1>2

\* The fields of a report the gate makes.
LEMMA EvaluateFields ==
    ASSUME NEW live, NEW t
    PROVE  LET rep == Evaluate(live, t)
           IN /\ rep.gen = t
              /\ rep.rows = Selected(live)
              /\ rep.before = [r \in Covered(live) |-> offers[r]]
              /\ rep.live = [r \in Covered(live) |-> live[r]]
              /\ rep.insert = {r \in Selected(live) : Inserts(r, live[r])}
              /\ rep.maxId = MaxHistoryId
BY DEF Evaluate

\* A report the rerun reproduces describes the tables as they are.
LEMMA MatchesHolds ==
    ASSUME WriteInv, report # NoReport, report.rows # {}, Matches(report)
    PROVE  Holds(report)
<1>1. PICK live \in Lookups : Evaluate(live, report.gen) = report
  BY DEF Matches
<1>2. /\ report.rows = Selected(live)
      /\ report.before = [r \in Covered(live) |-> offers[r]]
      /\ report.live = [r \in Covered(live) |-> live[r]]
      /\ report.insert = {r \in Selected(live) : Inserts(r, live[r])}
      /\ report.maxId = MaxHistoryId
  BY <1>1, EvaluateFields
<1>3. Selected(live) \subseteq Covered(live)
  BY SelectedListed
<1>4. \A r \in report.rows : report.before[r] = offers[r] /\ report.live[r] = live[r]
  BY <1>2, <1>3
<1>5. report.insert = {r \in report.rows : Inserts(r, report.live[r])}
  BY <1>2, <1>4
<1> QED BY <1>2, <1>4, <1>5 DEF Holds

\* The tables a behaviour starts with satisfy it.
LEMMA InitQuiet == ASSUME ActiveWriteOK, Init PROVE QuietIndInv
<1>1. PICK q \in [Rows -> Quotes] :
        /\ offers = [r \in Rows |-> [quote |-> q[r], at |-> 0, sku |-> TRUE]]
        /\ history = {[row |-> r, quote |-> q[r], at |-> 0,
                       id |-> 1 + Cardinality({p \in Rows : p < r})] : r \in Rows}
        /\ seen = {<<r, q[r], 0>> : r \in Rows}
  BY DEF Init
<1>2. WriteInv
  BY InitWriteInv
<1>3. /\ clock = 0 /\ report = NoReport /\ run = NoRun /\ writes = {}
      /\ job = [w \in Writers |-> Idle] /\ nextId = 1 + Cardinality(Rows)
  BY DEF Init
<1>4. \A w \in Writers : ~Busy(w) /\ ~PcIs(w, {"launched", "writing"}) /\ ~PcIs(w, {"writing"})
  BY <1>3 DEF Busy, PcIs, Idle
<1>h. \A h \in history : \E r \in Rows :
        h.at = 0 /\ h.id = 1 + Cardinality({p \in Rows : p < r})
  <2> DEFINE Below(r) == Cardinality({p \in Rows : p < r})
  <2>1. history = {[row |-> r, quote |-> q[r], at |-> 0, id |-> 1 + Below(r)] : r \in Rows}
    BY <1>1
  <2> HIDE DEF Below
  <2>2. \A h \in history : \E r \in Rows : h.at = 0 /\ h.id = 1 + Below(r)
    BY <2>1
  <2> QED BY <2>2 DEF Below
<1>5. IdsInOrder
  <2>1. Cardinality(Rows) \in Nat
    BY FS_CardinalityType DEF ActiveWriteOK
  <2>3. \A h \in history : h.id < nextId
    <3>1. ASSUME NEW r \in Rows
          PROVE  1 + Cardinality({p \in Rows : p < r}) < nextId
      <4> DEFINE n == Cardinality({p \in Rows : p < r})
      <4>1. n \in Nat /\ n < Cardinality(Rows)
        BY StrictlyFewer DEF ActiveWriteOK
      <4> HIDE DEF n
      <4>2. 1 + n < nextId
        BY <1>3, <2>1, <4>1
      <4> QED BY <4>2 DEF n
    <3> QED BY <1>h, <3>1
  <2> QED BY <1>3, <2>1, <2>3 DEF IdsInOrder
<1>6. HistoryPast /\ GensPast
  <2>1. \A h \in history : h.at = 0
    BY <1>h
  <2> QED BY <1>3, <2>1 DEF HistoryPast, GensPast
<1>7. Reports
  BY <1>3, <1>4 DEF Reports, Alone, ObservationsSeen, ReportsHold, RunIsNew, OneReportPerGen,
                    UnderWayUnwritten, WrittenIsStale
<1>8. StartedAfter /\ PointsFit /\ WrittenOnce
  BY <1>3, <1>4 DEF StartedAfter, PointsFit, WrittenOnce
<1>9. OfferIsSeen
  BY <1>1 DEF OfferIsSeen
<1> QED BY <1>2, <1>5, <1>6, <1>7, <1>8, <1>9 DEF QuietIndInv

\* A step that moves no report and no table.
LEMMA SameReports ==
    ASSUME Reports, UNCHANGED <<offers, history, report, run, seen, writes>>,
           \A v \in Writers : Busy(v)' => Busy(v) /\ job'[v].rep = job[v].rep
    PROVE  Reports'
<1> USE DEF Reports
<1>1. Alone'
  BY DEF Alone
<1>2. ObservationsSeen'
  BY DEF ObservationsSeen, AllSeen
<1>3. ReportsHold'
  <2>1. ASSUME NEW v \in Writers, Busy(v)' PROVE Holds(job[v].rep)'
    <3>1. Holds(job[v].rep) /\ job'[v].rep = job[v].rep
      BY <2>1 DEF ReportsHold
    <3>2. MaxHistoryId' = MaxHistoryId
      BY DEF MaxHistoryId
    <3>3. \A r, q : Inserts(r, q)' = Inserts(r, q)
      BY DEF Inserts, Latest, Newest, PointsOf
    <3> QED BY <3>1, <3>2, <3>3 DEF Holds
  <2> QED BY <2>1 DEF ReportsHold
<1>4. RunIsNew'
  BY DEF RunIsNew
<1>5. OneReportPerGen' /\ UnderWayUnwritten' /\ WrittenIsStale'
  BY DEF OneReportPerGen, UnderWayUnwritten, WrittenIsStale, Gens
<1> QED BY <1>1, <1>2, <1>3, <1>4, <1>5

\* A new report gets an instant nobody has, so whatever is under way stays as it was.
LEMMA GateQuiet ==
    ASSUME ActiveWriteOK, QuietIndInv, Gate, WriteInv'
    PROVE  QuietIndInv'
<1> USE DEF QuietIndInv
<1>1. /\ clock \in Nat /\ clock' = clock + 1
      /\ UNCHANGED <<offers, history, nextId, created, job, run, writes>>
  BY DEF Gate, Lookups, WriteInv, TypeOK, ActiveWriteOK
<1>2. PICK live \in Lookups :
        /\ report' = Evaluate(live, clock')
        /\ Accepted(report', live)
        /\ seen' = seen \cup {<<r, live[r], clock'>> : r \in Candidates}
  BY DEF Gate
<1>3. /\ report'.gen = clock' /\ report'.rows = Selected(live)
      /\ report'.before = [r \in Covered(live) |-> offers[r]]
      /\ report'.live = [r \in Covered(live) |-> live[r]]
  BY <1>2, EvaluateFields
<1>4. /\ Candidates \subseteq Rows /\ Selected(live) \subseteq Covered(live)
      /\ Covered(live) \subseteq Candidates
  BY SelectedListed
<1>5. report'.rows # {}
  <2>1. Cardinality(report'.rows) = Count /\ Count # 0
    BY <1>2 DEF Accepted, ActiveWriteOK
  <2> QED BY <2>1, FS_EmptySet
<1>6. /\ \A r \in Rows : offers[r].at <= clock /\ offers[r].at \in Nat
      /\ run # NoRun => run.at <= clock /\ run.at \in Nat
      /\ \A w \in Writers : Busy(w) => job[w].rep.gen <= clock /\ job[w].rep.gen \in Nat
  <2>1. ASSUME NEW w \in Writers, Busy(w)
        PROVE  job[w].rep.gen <= clock /\ job[w].rep.gen \in Nat
    <3>1. IsReport(job[w].rep) /\ SawOlder(job[w].rep)
      BY <2>1, JobReport DEF WriteInv, ReportsSawOlder, Busy
    <3> QED BY <3>1 DEF IsReport, SawOlder
  <2> QED BY <2>1 DEF WriteInv, InstantsPast, TypeOK, OfferRec, IsRun
<1>7. \A w \in Writers : Busy(w)' = Busy(w)
  BY <1>1 DEF Busy, PcIs
<1>8. clock' \notin Gens
  BY <1>1 DEF GensPast, Gens, WriteInv, TypeOK
<1>9. IdsInOrder' /\ HistoryPast' /\ GensPast'
  <2>1. \A h \in history : h.at \in Nat
    BY DEF WriteInv, TypeOK, HistoryRec
  <2>2. \A x \in writes : x.gen \in Nat
    BY DEF WriteInv, TypeOK
  <2> QED BY <1>1, <2>1, <2>2 DEF IdsInOrder, HistoryPast, GensPast
<1>10. Alone'
  BY <1>7 DEF Alone, Reports
<1>11. ObservationsSeen'
  <2>1. AllSeen(report)'
    BY <1>2, <1>3, <1>4 DEF AllSeen
  <2>2. \A w \in Writers : Busy(w) => AllSeen(job[w].rep)'
    BY <1>1, <1>2 DEF Reports, ObservationsSeen, AllSeen
  <2> QED BY <1>1, <1>2, <1>7, <2>1, <2>2 DEF Reports, ObservationsSeen
<1>12. ReportsHold'
  <2>1. MaxHistoryId' = MaxHistoryId /\ \A r, q : Inserts(r, q)' = Inserts(r, q)
    BY <1>1 DEF MaxHistoryId, Inserts, Latest, Newest, PointsOf
  <2> QED BY <1>1, <1>7, <2>1 DEF Reports, ReportsHold, Holds
<1>13. RunIsNew'
  <2>1. run # NoRun => /\ \A r \in Rows : offers[r].at # run.at
                       /\ report'.gen # run.at
                       /\ \A w \in Writers : Busy(w) => job[w].rep.gen # run.at
    BY <1>1, <1>3, <1>6 DEF Reports, RunIsNew
  <2>2. \A r \in report'.rows : r \in Rows /\ report'.before[r] = offers[r]
    BY <1>3, <1>4
  <2> QED BY <1>1, <1>7, <2>1, <2>2 DEF RunIsNew
<1>14. report' # NoReport
  BY <1>1, <1>3 DEF NoReport
<1>15. OneReportPerGen'
  BY <1>1, <1>3, <1>6, <1>7, <1>14 DEF OneReportPerGen
<1>16. UnderWayUnwritten'
  BY <1>1, <1>3, <1>7, <1>8 DEF Reports, UnderWayUnwritten, Gens
<1>17. WrittenIsStale'
  BY <1>1, <1>3, <1>5, <1>8 DEF WrittenIsStale, Gens
<1>18. StartedAfter' /\ PointsFit' /\ WrittenOnce'
  <2>1. \A w \in Writers : PcIs(w, {"launched", "writing"}) => job[w].started \in Nat
    BY DEF WriteInv, TypeOK, PcIs, Idle
  <2> QED BY <1>1, <2>1 DEF StartedAfter, PointsFit, WrittenOnce, PcIs
<1>19. OfferIsSeen'
  BY <1>1, <1>2 DEF OfferIsSeen
<1> QED BY <1>9, <1>10, <1>11, <1>12, <1>13, <1>15, <1>16, <1>17, <1>18, <1>19 DEF Reports

\* A rerun that matches makes its report one that holds and is unwritten.
LEMMA RerunQuiet ==
    ASSUME ActiveWriteOK, ~Overlap, QuietIndInv, NEW w \in Writers, Rerun(w), WriteInv'
    PROVE  QuietIndInv'
<1> USE DEF QuietIndInv
<1>1. /\ ~Busy(w) /\ report # NoReport /\ Matches(report) /\ Quiet(w)
      /\ job' = [job EXCEPT ![w] = [pc |-> "rerun", rep |-> report]]
      /\ UNCHANGED <<clock, offers, history, nextId, created, report, run, seen, writes>>
  BY DEF Rerun, Busy, PcIs
<1>2. DOMAIN job = Writers
  BY DEF WriteInv, TypeOK
<1>3. /\ \A v \in Writers : Busy(v)' <=> v = w
      /\ job'[w].rep = report
      /\ \A v \in Writers : ~PcIs(v, {"launched", "writing"})' /\ ~PcIs(v, {"writing"})'
  BY <1>1, <1>2 DEF Quiet, Busy, PcIs
<1>4. Holds(report)
  BY <1>1, MatchesHolds DEF Reports, WrittenIsStale
<1>5. Holds(report)'
  <2>1. MaxHistoryId' = MaxHistoryId /\ \A r, q : Inserts(r, q)' = Inserts(r, q)
    BY <1>1 DEF MaxHistoryId, Inserts, Latest, Newest, PointsOf
  <2> QED BY <1>1, <1>4, <2>1 DEF Holds
<1>6. report.gen \notin Gens
  BY <1>1, <1>4 DEF Reports, WrittenIsStale, Holds
<1>7. Alone' /\ ReportsHold' /\ OneReportPerGen'
  BY <1>1, <1>3, <1>5 DEF Alone, ReportsHold, OneReportPerGen
<1>8. UnderWayUnwritten' /\ WrittenIsStale'
  BY <1>1, <1>3, <1>6 DEF Reports, UnderWayUnwritten, WrittenIsStale, Gens
<1>9. ObservationsSeen' /\ RunIsNew'
  BY <1>1, <1>3 DEF Reports, ObservationsSeen, AllSeen, RunIsNew
<1>10. IdsInOrder' /\ HistoryPast' /\ GensPast' /\ WrittenOnce' /\ OfferIsSeen'
  BY <1>1 DEF IdsInOrder, HistoryPast, GensPast, WrittenOnce, OfferIsSeen
<1>11. StartedAfter' /\ PointsFit'
  BY <1>3 DEF StartedAfter, PointsFit
<1> QED BY <1>7, <1>8, <1>9, <1>10, <1>11 DEF Reports

\* What a busy job and the stored instants are to the clock.
LEMMA Instants ==
    ASSUME QuietIndInv, ActiveWriteOK
    PROVE  /\ clock \in Nat /\ nextId \in Nat /\ DOMAIN job = Writers
           /\ \A h \in history : h.at \in Nat /\ h.at <= clock /\ h.id \in Nat
           /\ \A r \in Rows : offers[r].at <= clock /\ offers[r].at \in Nat
           /\ run # NoRun => run.at <= clock /\ run.at \in Nat
           /\ report # NoReport => report.gen <= clock /\ report.gen \in Nat
           /\ \A w \in Writers : Busy(w) => job[w].rep.gen <= clock /\ job[w].rep.gen \in Nat
<1> USE DEF QuietIndInv
<1>1. ASSUME NEW w \in Writers, Busy(w)
      PROVE  job[w].rep.gen <= clock /\ job[w].rep.gen \in Nat
  <2>1. IsReport(job[w].rep) /\ SawOlder(job[w].rep)
    BY <1>1, JobReport DEF WriteInv, ReportsSawOlder, Busy
  <2> QED BY <2>1 DEF IsReport, SawOlder
<1>2. report # NoReport => report.gen <= clock /\ report.gen \in Nat
  BY DEF WriteInv, TypeOK, ReportsSawOlder, SawOlder, IsReport
<1>3. /\ \A r \in Rows : offers[r].at <= clock /\ offers[r].at \in Nat
      /\ run # NoRun => run.at <= clock /\ run.at \in Nat
  BY DEF WriteInv, InstantsPast, TypeOK, OfferRec, IsRun
<1>4. /\ clock \in Nat /\ nextId \in Nat /\ DOMAIN job = Writers
      /\ \A h \in history : h.at \in Nat /\ h.at <= clock /\ h.id \in Nat
  BY DEF WriteInv, TypeOK, HistoryRec, HistoryPast, ActiveWriteOK
<1> QED BY <1>1, <1>2, <1>3, <1>4

\* The start of a transaction, its lock, each updated row and its failure move no
\* table.
LEMMA MiddleQuiet ==
    ASSUME ActiveWriteOK, QuietIndInv, NEW w \in Writers, WriteInv',
           Launch(w) \/ Lock(w) \/ (\E r \in Rows : UpdateRow(w, r)) \/ Abort(w)
    PROVE  QuietIndInv'
<1> USE DEF QuietIndInv
<1>0. /\ clock \in Nat /\ nextId \in Nat /\ DOMAIN job = Writers
      /\ \A h \in history : h.at \in Nat /\ h.at <= clock /\ h.id \in Nat
  BY Instants
<1>1. CASE Launch(w)
  <2>1. /\ Busy(w) /\ clock' = clock + 1
        /\ job' = [job EXCEPT ![w] =
                     [pc |-> "launched", rep |-> job[w].rep, started |-> clock']]
        /\ UNCHANGED <<offers, history, nextId, created, report, run, seen, writes>>
    BY <1>1 DEF Launch, Busy, PcIs
  <2>2. /\ \A v \in Writers : Busy(v)' => Busy(v) /\ job'[v].rep = job[v].rep
        /\ \A v \in Writers : v # w => job'[v] = job[v]
        /\ ~PcIs(w, {"writing"})' /\ job'[w].started = clock'
    BY <1>0, <2>1 DEF Busy, PcIs
  <2>3. Reports'
    BY <2>1, <2>2, SameReports
  <2>4. IdsInOrder' /\ WrittenOnce' /\ OfferIsSeen'
    BY <2>1 DEF IdsInOrder, WrittenOnce, OfferIsSeen
  <2>5. HistoryPast' /\ GensPast'
    <3>1. \A x \in writes : x.gen \in Nat
      BY DEF WriteInv, TypeOK
    <3> QED BY <1>0, <2>1, <3>1 DEF HistoryPast, GensPast
  <2>6. StartedAfter'
    <3>1. \A h \in history : h.at < clock'
      BY <1>0, <2>1
    <3>2. \A v \in Writers : PcIs(v, {"launched", "writing"})' => v = w
      BY <2>1, <2>2 DEF Reports, Alone, Busy, PcIs
    <3>3. clock' <= clock'
      BY <1>0, <2>1
    <3> QED BY <2>1, <2>2, <3>1, <3>2, <3>3 DEF StartedAfter
  <2>7. PointsFit'
    BY <2>1, <2>2 DEF PointsFit, PcIs
  <2> QED BY <2>3, <2>4, <2>5, <2>6, <2>7
<1>2. CASE Lock(w)
  <2>1. /\ Busy(w) /\ PcIs(w, {"launched", "writing"})
        /\ job' = [job EXCEPT ![w] =
                     Writing(job[w].rep, job[w].started, created, job[w].rep.rows, {})]
        /\ UNCHANGED <<clock, offers, history, nextId, created, report, run, seen, writes>>
    BY <1>2 DEF Lock, Busy, PcIs
  <2>2. /\ \A v \in Writers : Busy(v)' => Busy(v) /\ job'[v].rep = job[v].rep
        /\ \A v \in Writers : v # w => job'[v] = job[v]
        /\ job'[w].points = {} /\ job'[w].started = job[w].started
    BY <1>0, <2>1 DEF Busy, PcIs, Writing
  <2>3. Reports'
    BY <2>1, <2>2, SameReports
  <2>4. IdsInOrder' /\ WrittenOnce' /\ OfferIsSeen' /\ HistoryPast' /\ GensPast'
    BY <2>1 DEF IdsInOrder, WrittenOnce, OfferIsSeen, HistoryPast, GensPast
  <2>5. StartedAfter'
    BY <2>1, <2>2 DEF StartedAfter, PcIs
  <2>6. PointsFit'
    BY <2>1, <2>2 DEF PointsFit, PcIs
  <2> QED BY <2>3, <2>4, <2>5, <2>6
<1>3. ASSUME NEW r \in Rows, UpdateRow(w, r) PROVE QuietIndInv'
  <2> DEFINE points == IF r \in job[w].rep.insert
                       THEN job[w].points \cup {NewPoint(w, r)} ELSE job[w].points
  <2>1. /\ Busy(w) /\ PcIs(w, {"launched", "writing"}) /\ PcIs(w, {"writing"})
        /\ job' = [job EXCEPT ![w] = Writing(job[w].rep, job[w].started, job[w].base,
                                             job[w].todo \ {r}, points)]
        /\ nextId' = IF r \in job[w].rep.insert THEN nextId + 1 ELSE nextId
        /\ UNCHANGED <<clock, offers, history, created, report, run, seen, writes>>
    BY <1>3 DEF UpdateRow, Busy, PcIs
  <2>2. /\ \A v \in Writers : Busy(v)' => Busy(v) /\ job'[v].rep = job[v].rep
        /\ \A v \in Writers : v # w => job'[v] = job[v]
        /\ job'[w].points = points /\ job'[w].started = job[w].started
        /\ job'[w].rep = job[w].rep
    <3> HIDE DEF points
    <3> QED BY <1>0, <2>1 DEF Busy, PcIs, Writing
  <2>3. Reports'
    BY <2>1, <2>2, SameReports
  <2>4. WrittenOnce' /\ OfferIsSeen' /\ HistoryPast' /\ GensPast'
    BY <2>1 DEF WrittenOnce, OfferIsSeen, HistoryPast, GensPast
  <2>5. nextId' \in Nat \ {0} /\ nextId <= nextId'
    BY <2>1 DEF IdsInOrder
  <2>6. IdsInOrder'
    BY <1>0, <2>1, <2>5 DEF IdsInOrder
  <2>7. StartedAfter'
    BY <2>1, <2>2 DEF StartedAfter, PcIs
  <2>8. PointsFit'
    <3>1. ASSUME NEW v \in Writers, PcIs(v, {"writing"})', NEW p \in job'[v].points
          PROVE  /\ p.at = job'[v].started /\ p.row \in job'[v].rep.insert
                 /\ p.id \in Nat \ {0} /\ p.id < nextId' /\ \A h \in history : h.id < p.id
      <4>1. v = w
        BY <2>1, <2>2, <3>1 DEF Reports, Alone, Busy, PcIs
      <4>2. CASE p \in job[w].points
        <5>1. /\ p.at = job[w].started /\ p.row \in job[w].rep.insert
              /\ p.id \in Nat \ {0} /\ p.id < nextId /\ \A h \in history : h.id < p.id
          BY <2>1, <4>2 DEF PointsFit
        <5>2. p.id \in Nat
          BY <2>1, <4>2 DEF WriteInv, TypeOK, HistoryRec, PcIs, Idle
        <5> QED BY <1>0, <2>2, <2>5, <4>1, <5>1, <5>2
      <4>3. CASE p \notin job[w].points
        <5>1. r \in job[w].rep.insert /\ p = NewPoint(w, r)
          BY <2>2, <3>1, <4>1, <4>3
        <5>2. p.at = job[w].started /\ p.row = r /\ p.id = nextId
          BY <5>1 DEF NewPoint
        <5>3. p.id \in Nat \ {0} /\ p.id < nextId' /\ \A h \in history : h.id < p.id
          BY <1>0, <2>1, <5>1, <5>2 DEF IdsInOrder
        <5> QED BY <2>1, <2>2, <4>1, <5>1, <5>2, <5>3
      <4> QED BY <4>2, <4>3
    <3> QED BY <2>1, <3>1 DEF PointsFit
  <2> QED BY <2>3, <2>4, <2>6, <2>7, <2>8
<1>4. CASE Abort(w)
  <2>1. /\ job' = [job EXCEPT ![w] = Idle]
        /\ UNCHANGED <<clock, offers, history, nextId, created, report, run, seen, writes>>
    BY <1>4 DEF Abort
  <2>2. /\ \A v \in Writers : Busy(v)' => Busy(v) /\ job'[v].rep = job[v].rep
        /\ \A v \in Writers : Busy(v)' => job'[v] = job[v]
    BY <1>0, <2>1 DEF Busy, PcIs, Idle
  <2>3. Reports'
    BY <2>1, <2>2, SameReports
  <2>4. IdsInOrder' /\ WrittenOnce' /\ OfferIsSeen' /\ HistoryPast' /\ GensPast'
    BY <2>1 DEF IdsInOrder, WrittenOnce, OfferIsSeen, HistoryPast, GensPast
  <2>5. StartedAfter' /\ PointsFit'
    BY <2>1, <2>2 DEF StartedAfter, PointsFit, Busy, PcIs
  <2> QED BY <2>3, <2>4, <2>5
<1> QED BY <1>1, <1>2, <1>3, <1>4

\* What the commit writes to a row of its report is what the store showed.
LEMMA FinishRows ==
    ASSUME ActiveWriteOK, QuietIndInv, NEW w \in Writers, Finish(w)
    PROVE  /\ job[w].rep.rows \subseteq Rows
           /\ \A r \in job[w].rep.rows :
                /\ offers'[r].quote = job[w].rep.live[r]
                /\ offers'[r].at = job[w].rep.gen
                /\ job[w].rep.before[r].at < job[w].rep.gen
                /\ job[w].rep.before[r] = offers[r]
           /\ \A r \in Rows : r \notin job[w].rep.rows => offers'[r] = offers[r]
<1> USE DEF QuietIndInv
<1>1. /\ PcIs(w, {"writing"})
      /\ offers' = [r \in Rows |-> IF r \in job[w].rep.rows
                                   THEN Written(job[w].rep, r) ELSE offers[r]]
  BY DEF Finish
<1>2. /\ IsReport(job[w].rep) /\ SawOlder(job[w].rep) /\ Holds(job[w].rep)
  BY <1>1, JobReport DEF WriteInv, ReportsSawOlder, Reports, ReportsHold, Busy, PcIs
<1>3. job[w].rep.rows \subseteq Rows
  BY <1>2 DEF IsReport
<1>4. ASSUME NEW r \in job[w].rep.rows
      PROVE  /\ offers'[r].quote = job[w].rep.live[r]
             /\ offers'[r].at = job[w].rep.gen
             /\ job[w].rep.before[r].at < job[w].rep.gen
             /\ job[w].rep.before[r] = offers[r]
  <2>1. offers[r] \in OfferRec /\ offers'[r] = Written(job[w].rep, r)
    BY <1>1, <1>3, <1>4 DEF WriteInv, TypeOK
  <2>2. job[w].rep.before[r] = offers[r] /\ job[w].rep.before[r].at < job[w].rep.gen
    BY <1>2, <1>4 DEF Holds, SawOlder
  <2>3. job[w].rep.gen \in Nat /\ offers[r].at \in Nat
    BY <1>2, <2>1 DEF IsReport, OfferRec
  <2>4. offers'[r].quote = job[w].rep.live[r]
    BY <2>1, <2>2 DEF Written, OfferRec
  <2>5. offers'[r].at = job[w].rep.gen
    BY <2>1, <2>2, <2>3 DEF Written, OfferRec
  <2> QED BY <2>2, <2>4, <2>5
<1> QED BY <1>1, <1>3, <1>4

\* A commit keeps the invariant: afterwards its report is written, and stale, because
\* its offers now carry the report's instant.
LEMMA FinishQuiet ==
    ASSUME ActiveWriteOK, QuietIndInv, NEW w \in Writers, Finish(w), WriteInv'
    PROVE  QuietIndInv'
<1> USE DEF QuietIndInv
<1> DEFINE rep == job[w].rep
<1>1. /\ Busy(w) /\ PcIs(w, {"writing"}) /\ PcIs(w, {"launched", "writing"})
      /\ history' = history \cup job[w].points
      /\ writes' = writes \cup {[gen |-> rep.gen, at |-> job[w].started]}
      /\ job' = [job EXCEPT ![w] = Idle]
      /\ UNCHANGED <<clock, nextId, created, report, run, seen>>
  BY DEF Finish, Busy, PcIs
<1>2. /\ clock \in Nat /\ nextId \in Nat /\ DOMAIN job = Writers
      /\ \A h \in history : h.at \in Nat /\ h.at <= clock /\ h.id \in Nat
      /\ rep.gen <= clock /\ rep.gen \in Nat
      /\ run # NoRun => run.at # rep.gen
  BY <1>1, Instants DEF Reports, RunIsNew
<1>3. \A v \in Writers : ~Busy(v)'
  BY <1>1, <1>2 DEF Reports, Alone, Busy, PcIs, Idle
<1>4. /\ rep.rows \subseteq Rows /\ rep.rows # {}
      /\ \A r \in rep.rows :
           /\ offers'[r].quote = rep.live[r] /\ offers'[r].at = rep.gen
           /\ rep.before[r].at < rep.gen /\ rep.before[r] = offers[r]
      /\ \A r \in Rows : r \notin rep.rows => offers'[r] = offers[r]
  BY <1>1, FinishRows DEF Reports, ReportsHold, Holds
<1>5. IsReport(rep)
  BY <1>1, JobReport DEF WriteInv, Busy
<1>6. rep.gen \notin Gens /\ report.gen \notin Gens /\ report # NoReport
      /\ (rep.gen = report.gen => rep = report)
  BY <1>1 DEF Reports, UnderWayUnwritten, OneReportPerGen
<1> HIDE DEF rep
<1>7. Gens' = Gens \cup {rep.gen}
  <2> DEFINE x == [gen |-> rep.gen, at |-> job[w].started]
  <2>1. x.gen = rep.gen
    OBVIOUS
  <2> HIDE DEF x
  <2>2. writes' = writes \cup {x}
    BY <1>1 DEF x
  <2> QED BY <2>1, <2>2 DEF Gens
<1>8. IdsInOrder'
  BY <1>1 DEF IdsInOrder, PointsFit
<1>9. HistoryPast'
  <2>1. job[w].started <= clock
    BY <1>1 DEF StartedAfter
  <2> QED BY <1>1, <2>1 DEF HistoryPast, PointsFit
<1>10. GensPast'
  BY <1>1, <1>2 DEF GensPast
<1>11. WrittenOnce'
  BY <1>1, <1>6 DEF WrittenOnce, Gens
<1>12. OfferIsSeen'
  <2>1. ASSUME NEW r \in Rows PROVE <<r, offers'[r].quote, offers'[r].at>> \in seen
    <3>1. CASE r \in rep.rows
      <4>1. r \in DOMAIN rep.before
        BY <1>5, <3>1 DEF IsReport
      <4>2. <<r, rep.live[r], rep.gen>> \in seen
        BY <1>1, <4>1 DEF Reports, ObservationsSeen, AllSeen, rep
      <4> QED BY <1>4, <3>1, <4>2
    <3>2. CASE r \notin rep.rows
      BY <1>4, <3>2 DEF OfferIsSeen
    <3> QED BY <3>1, <3>2
  <2> QED BY <1>1, <2>1 DEF OfferIsSeen
<1>13. Alone' /\ ReportsHold' /\ OneReportPerGen' /\ UnderWayUnwritten'
  BY <1>3 DEF Alone, ReportsHold, OneReportPerGen, UnderWayUnwritten
<1>14. ObservationsSeen'
  BY <1>1, <1>3 DEF Reports, ObservationsSeen, AllSeen
<1>15. RunIsNew'
  <2>1. run # NoRun => \A r \in Rows : offers'[r].at # run.at
    BY <1>2, <1>4 DEF Reports, RunIsNew
  <2> QED BY <1>1, <1>3, <2>1 DEF Reports, RunIsNew
<1>16. WrittenIsStale'
  <2>1. report.rows # {}
    BY <1>6 DEF Reports, WrittenIsStale
  <2>2. ASSUME report.gen \in Gens'
        PROVE  \E r \in report.rows : offers'[r].at # report.before[r].at
    <3>1. report = rep
      BY <1>6, <1>7, <2>2
    <3>2. PICK r \in rep.rows : TRUE
      BY <1>4
    <3>3. offers'[r].at = rep.gen /\ rep.before[r].at < rep.gen
      BY <1>4, <3>2
    <3>4. offers'[r].at # rep.before[r].at
      BY <1>2, <3>3
    <3> QED BY <3>1, <3>2, <3>4
  <2> QED BY <1>1, <2>1, <2>2 DEF WrittenIsStale
<1>17. StartedAfter' /\ PointsFit'
  BY <1>3 DEF StartedAfter, PointsFit, Busy, PcIs
<1> QED BY <1>8, <1>9, <1>10, <1>11, <1>12, <1>13, <1>14, <1>15, <1>16, <1>17 DEF Reports

\* An acquired run gets an instant nobody has.
LEMMA AcquireQuiet ==
    ASSUME ActiveWriteOK, QuietIndInv, AcquireSome, WriteInv'
    PROVE  QuietIndInv'
<1> USE DEF QuietIndInv
<1>1. PICK quotes \in UNION {[S -> Quotes] : S \in SUBSET Rows} : Acquire(quotes)
  BY DEF AcquireSome
<1>2. /\ clock' = clock + 1
      /\ run' = [at |-> clock', quotes |-> quotes]
      /\ seen' = seen \cup {<<r, quotes[r], clock'>> : r \in DOMAIN quotes}
      /\ UNCHANGED <<offers, history, nextId, created, report, job, writes>>
  BY <1>1 DEF Acquire
<1>3. /\ clock \in Nat /\ nextId \in Nat /\ DOMAIN job = Writers
      /\ \A h \in history : h.at \in Nat /\ h.at <= clock /\ h.id \in Nat
      /\ \A r \in Rows : offers[r].at <= clock /\ offers[r].at \in Nat
      /\ report # NoReport => report.gen <= clock /\ report.gen \in Nat
      /\ \A w \in Writers : Busy(w) => job[w].rep.gen <= clock /\ job[w].rep.gen \in Nat
  BY Instants
<1>4. \A w \in Writers : Busy(w)' = Busy(w)
  BY <1>2 DEF Busy, PcIs
<1>5. run'.at = clock' /\ run'.quotes = quotes
  BY <1>2
<1>6. IdsInOrder' /\ HistoryPast' /\ GensPast'
  <2>1. \A x \in writes : x.gen \in Nat
    BY DEF WriteInv, TypeOK
  <2> QED BY <1>2, <1>3, <2>1 DEF IdsInOrder, HistoryPast, GensPast
<1>7. Alone' /\ OneReportPerGen' /\ UnderWayUnwritten' /\ WrittenIsStale'
  BY <1>2, <1>4 DEF Reports, Alone, OneReportPerGen, UnderWayUnwritten, WrittenIsStale, Gens
<1>8. ObservationsSeen'
  <2>1. \A r \in DOMAIN run'.quotes : <<r, run'.quotes[r], run'.at>> \in seen'
    BY <1>2, <1>5
  <2> QED BY <1>2, <1>4, <2>1 DEF Reports, ObservationsSeen, AllSeen
<1>9. ReportsHold'
  <2>1. MaxHistoryId' = MaxHistoryId /\ \A r, q : Inserts(r, q)' = Inserts(r, q)
    BY <1>2 DEF MaxHistoryId, Inserts, Latest, Newest, PointsOf
  <2> QED BY <1>2, <1>4, <2>1 DEF Reports, ReportsHold, Holds
<1>10. RunIsNew'
  <2>1. \A r \in Rows : offers[r].at # clock'
    BY <1>2, <1>3
  <2>2. report # NoReport => report.gen # clock'
    BY <1>2, <1>3
  <2>3. report # NoReport => \A r \in report.rows : report.before[r].at # clock'
    <3>1. ASSUME report # NoReport, NEW r \in report.rows
          PROVE  report.before[r].at # clock'
      <4>1. IsReport(report) /\ SawOlder(report)
        BY <3>1 DEF WriteInv, TypeOK, ReportsSawOlder
      <4>2. report.before[r].at \in Nat /\ report.before[r].at < report.gen
        BY <4>1, <3>1 DEF IsReport, SawOlder, OfferRec
      <4> QED BY <1>2, <1>3, <3>1, <4>2
    <3> QED BY <3>1
  <2>4. \A w \in Writers : Busy(w) => job[w].rep.gen # clock'
    BY <1>2, <1>3
  <2> QED BY <1>2, <1>4, <1>5, <2>1, <2>2, <2>3, <2>4 DEF RunIsNew
<1>11. StartedAfter' /\ PointsFit' /\ WrittenOnce'
  <2>1. \A w \in Writers : PcIs(w, {"launched", "writing"}) => job[w].started \in Nat
    BY DEF WriteInv, TypeOK, PcIs, Idle
  <2> QED BY <1>2, <1>3, <2>1 DEF StartedAfter, PointsFit, WrittenOnce, PcIs
<1>12. OfferIsSeen'
  BY <1>2 DEF OfferIsSeen
<1> QED BY <1>6, <1>7, <1>8, <1>9, <1>10, <1>11, <1>12 DEF Reports

\* A reconciliation with no write under way.
LEMMA ReconcileQuiet ==
    ASSUME ActiveWriteOK, ~Overlap, QuietIndInv, WriteInv',
           NEW lost \in SUBSET Rows, NEW new \in NewOffers, Reconcile(lost, new)
    PROVE  QuietIndInv'
<1> USE DEF QuietIndInv
<1> DEFINE S == DOMAIN run.quotes
           N == {r \in S : run.quotes[r] \notin Latest(r)}
           Below(r) == Cardinality({q \in N : q < r})
<1>1. /\ IsRun(run) /\ S \subseteq Rows /\ run' = NoRun /\ run # NoRun
      /\ \A r \in Rows : r \in S =>
           offers'[r] = [quote |-> run.quotes[r], at |-> run.at, sku |-> TRUE]
      /\ \A r \in Rows : r \notin S =>
           offers'[r] = [offers[r] EXCEPT !.sku = offers[r].sku /\ r \notin lost]
      /\ UNCHANGED <<clock, report, job, seen, writes>>
  BY ReconcileEffect DEF WriteInv, IsRun, Reconcile
<1>2. \A w \in Writers : ~Busy(w)
  BY DEF Reconcile, Busy
<1>3. /\ history' = history \cup
           {[row |-> r, quote |-> run.quotes[r], at |-> run.at,
             id |-> nextId + Below(r)] : r \in N}
      /\ nextId' = nextId + Cardinality(N)
  BY DEF Reconcile
<1>4. /\ clock \in Nat /\ nextId \in Nat \ {0}
      /\ \A h \in history : h.at \in Nat /\ h.at <= clock /\ h.id \in Nat
      /\ run.at <= clock /\ run.at \in Nat
      /\ \A r \in Rows : offers[r] \in OfferRec
  BY <1>1, Instants DEF IdsInOrder, WriteInv, TypeOK
<1>5. N \in SUBSET Nat /\ IsFiniteSet(N) /\ Cardinality(N) \in Nat
  <2>1. N \subseteq Rows /\ Rows \subseteq Nat /\ IsFiniteSet(Rows)
    BY <1>1 DEF ActiveWriteOK
  <2> HIDE DEF N
  <2> QED BY <2>1, FS_Subset, FS_CardinalityType
<1>6. \A r \in N : Below(r) \in Nat /\ Below(r) < Cardinality(N)
  <2> HIDE DEF N
  <2> QED BY <1>5, StrictlyFewer
<1>7. \A h \in history' : h \in history \/ \E r \in N : h.at = run.at /\ h.id = nextId + Below(r)
  <2> HIDE DEF N, Below
  <2> QED BY <1>3
<1>8. IdsInOrder' /\ HistoryPast' /\ GensPast'
  <2> HIDE DEF N, Below
  <2>1. nextId' \in Nat \ {0} /\ nextId <= nextId'
    BY <1>3, <1>4, <1>5
  <2>2. \A r \in N : nextId + Below(r) < nextId'
    BY <1>3, <1>4, <1>5, <1>6
  <2>3. \A h \in history : h.id < nextId'
    BY <1>4, <2>1 DEF IdsInOrder
  <2>4. IdsInOrder'
    BY <1>7, <2>1, <2>2, <2>3 DEF IdsInOrder
  <2>5. HistoryPast'
    BY <1>1, <1>4, <1>7 DEF HistoryPast
  <2> QED BY <1>1, <2>4, <2>5 DEF GensPast
<1>9. \A w \in Writers : ~Busy(w)'
  BY <1>1, <1>2 DEF Busy, PcIs
<1>10. /\ \A r \in Rows : r \in S => offers'[r].quote = run.quotes[r] /\ offers'[r].at = run.at
       /\ \A r \in Rows : r \notin S =>
            offers'[r].quote = offers[r].quote /\ offers'[r].at = offers[r].at
  <2>1. ASSUME NEW r \in Rows, r \in S
        PROVE  offers'[r].quote = run.quotes[r] /\ offers'[r].at = run.at
    <3>1. offers'[r] = [quote |-> run.quotes[r], at |-> run.at, sku |-> TRUE]
      BY <1>1, <2>1
    <3> QED BY <3>1
  <2>2. ASSUME NEW r \in Rows, r \notin S
        PROVE  offers'[r].quote = offers[r].quote /\ offers'[r].at = offers[r].at
    <3>1. offers'[r] = [offers[r] EXCEPT !.sku = offers[r].sku /\ r \notin lost]
      BY <1>1, <2>2
    <3>2. offers[r] \in OfferRec
      BY <1>4
    <3> HIDE DEF S
    <3> QED BY <3>1, <3>2 DEF OfferRec
  <2> QED BY <2>1, <2>2
<1>11. OfferIsSeen'
  <2>1. ASSUME NEW r \in Rows PROVE <<r, offers'[r].quote, offers'[r].at>> \in seen
    <3>1. CASE r \in S
      BY <1>1, <1>10, <3>1 DEF Reports, ObservationsSeen
    <3>2. CASE r \notin S
      BY <1>10, <3>2 DEF OfferIsSeen
    <3> QED BY <3>1, <3>2
  <2> QED BY <1>1, <2>1 DEF OfferIsSeen
<1>12. /\ Alone' /\ ReportsHold' /\ OneReportPerGen' /\ UnderWayUnwritten' /\ RunIsNew'
       /\ StartedAfter' /\ PointsFit'
  BY <1>1, <1>9 DEF Alone, ReportsHold, OneReportPerGen, UnderWayUnwritten, RunIsNew,
                    StartedAfter, PointsFit, Busy, PcIs
<1>13. ObservationsSeen'
  BY <1>1, <1>9 DEF Reports, ObservationsSeen, AllSeen
<1>14. WrittenOnce'
  BY <1>1 DEF WrittenOnce
<1>15. WrittenIsStale'
  <2>1. ASSUME report # NoReport, report.gen \in Gens
        PROVE  \E r \in report.rows : offers'[r].at # report.before[r].at
    <3>1. PICK r \in report.rows : offers[r].at # report.before[r].at
      BY <2>1 DEF Reports, WrittenIsStale
    <3>2. r \in Rows
      BY <2>1 DEF WriteInv, TypeOK, IsReport
    <3>3. run.at # report.before[r].at
      BY <1>1, <2>1 DEF Reports, RunIsNew
    <3>4. offers'[r].at # report.before[r].at
      BY <1>10, <3>1, <3>2, <3>3
    <3> QED BY <3>4
  <2> QED BY <1>1, <2>1 DEF Reports, WrittenIsStale, Gens
<1> QED BY <1>8, <1>11, <1>12, <1>13, <1>14, <1>15 DEF Reports

\* Every step keeps the invariant.
LEMMA NextQuiet ==
    ASSUME ActiveWriteOK, ~Overlap, QuietIndInv, [Next]_vars
    PROVE  QuietIndInv'
<1>1. WriteInv'
  BY NextWriteInv DEF QuietIndInv
<1>2. CASE Gate
  BY <1>1, <1>2, GateQuiet
<1>3. ASSUME NEW w \in Writers, Write(w) PROVE QuietIndInv'
  BY <1>1, <1>3, RerunQuiet, MiddleQuiet, FinishQuiet DEF Write
<1>4. CASE AcquireSome
  BY <1>1, <1>4, AcquireQuiet
<1>5. CASE ReconcileSome
  BY <1>1, <1>5, ReconcileQuiet DEF ReconcileSome
<1>6. CASE UNCHANGED vars
  <2>1. UNCHANGED <<clock, offers, history, nextId, created, report, job, run, seen, writes>>
    BY <1>6 DEF vars
  <2>2. \A v \in Writers : Busy(v)' => Busy(v) /\ job'[v].rep = job[v].rep
    BY <2>1 DEF Busy, PcIs
  <2>3. Reports'
    BY <2>1, <2>2, SameReports DEF QuietIndInv
  <2> QED BY <1>1, <2>1, <2>3
          DEF QuietIndInv, IdsInOrder, HistoryPast, GensPast, StartedAfter, PointsFit,
              WrittenOnce, OfferIsSeen, PcIs
<1> QED BY <1>2, <1>3, <1>4, <1>5, <1>6 DEF Next

\* While nobody commits between a rerun and its commit, a report is written at most
\* once however often it is confirmed, by however many processes, and every offer
\* shows a quote observed at the instant it carries; for every set of offers, quotes
\* and write commands, every batch, tolerance and age.
THEOREM QuietTables == ASSUME ~Overlap PROVE Spec => []QuietInv
<1>1. Init => QuietIndInv
  BY InitQuiet, ActiveWriteOK
<1>2. QuietIndInv /\ [Next]_vars => QuietIndInv'
  BY NextQuiet, ActiveWriteOK
<1>3. QuietIndInv => QuietInv
  BY DEF QuietIndInv, WriteInv, QuietInv
<1> QED BY <1>1, <1>2, <1>3, PTL DEF Spec

\* After a commit, a row's newest point is the one the commit adds, or the one the
\* report found to carry the quote already.
LEMMA FinishIsNewest ==
    ASSUME ActiveWriteOK, QuietIndInv, NEW w \in Writers, Finish(w), NEW r \in job[w].rep.rows
    PROVE  offers'[r].quote \in Latest(r)'
<1> USE DEF QuietIndInv
<1> DEFINE rep == job[w].rep
<1>1. /\ PcIs(w, {"writing"}) /\ PcIs(w, {"launched", "writing"}) /\ Busy(w)
      /\ job[w].todo = {}
      /\ history' = history \cup job[w].points
  BY DEF Finish, PcIs, Busy
<1>2. offers'[r].quote = rep.live[r]
  BY FinishRows
<1>3. Holds(rep) /\ IsReport(rep) /\ RowDone(w, r)
  BY <1>1, JobReport DEF Reports, ReportsHold, WriteInv, DoneRows, Busy
<1>4. /\ \A h \in history : h.at \in Nat /\ h.at < job[w].started
      /\ \A p \in job[w].points : p.at = job[w].started /\ p.row \in rep.insert
      /\ job[w].started \in Nat
  BY <1>1, Instants DEF StartedAfter, PointsFit, WriteInv, TypeOK, PcIs, Idle
<1> HIDE DEF rep
<1>5. CASE r \in rep.insert
  <2>1. PICK h \in job[w].points : h.row = r /\ h.quote = rep.live[r] /\ h.at = job[w].started
    BY <1>3, <1>5 DEF RowDone, rep
  <2>2. \A y \in history' : y.at <= h.at
    BY <1>1, <1>4, <2>1
  <2>3. h \in Newest(r)'
    BY <1>1, <2>1, <2>2 DEF Newest, PointsOf
  <2> QED BY <1>2, <2>1, <2>3 DEF Latest
<1>6. CASE r \notin rep.insert
  <2>1. rep.live[r] \in Latest(r)
    BY <1>3, <1>6 DEF Holds, Inserts, rep
  <2>2. PointsOf(r)' = PointsOf(r)
    BY <1>1, <1>4, <1>6 DEF PointsOf
  <2>3. Latest(r)' = Latest(r)
    BY <2>2 DEF Latest, Newest
  <2> QED BY <1>2, <2>1, <2>3
<1> QED BY <1>5, <1>6

\* Without overlap, after a commit the newest point of every row of the report is the
\* quote its offer shows.
THEOREM WrittenQuoteIsNewest == ASSUME ~Overlap PROVE Spec => WrittenIsLatestPoint
<1>1. Init => QuietIndInv
  BY InitQuiet, ActiveWriteOK
<1>2. QuietIndInv /\ [Next]_vars => QuietIndInv'
  BY NextQuiet, ActiveWriteOK
<1>3. QuietIndInv /\ [Next]_vars =>
        [\A w \in Writers : Finish(w) =>
            \A r \in job[w].rep.rows : offers'[r].quote \in Latest(r)']_vars
  BY FinishIsNewest, ActiveWriteOK
<1> QED BY <1>1, <1>2, <1>3, PTL DEF Spec, WrittenIsLatestPoint

\* A commit adds its points, and only they are above the report's boundary.
LEMMA FinishIsAboveMax ==
    ASSUME QuietIndInv, NEW w \in Writers, Finish(w)
    PROVE  {h \in history' : h.id > job[w].rep.maxId} = job[w].points
<1> USE DEF QuietIndInv
<1>1. /\ PcIs(w, {"writing"}) /\ Busy(w)
      /\ history' = history \cup job[w].points
  BY DEF Finish, PcIs, Busy
<1>2. job[w].rep.maxId = MaxHistoryId
  BY <1>1 DEF Reports, ReportsHold, Holds
<1>3. /\ MaxHistoryId \in Nat
      /\ \A h \in history : h.id <= MaxHistoryId
      /\ MaxHistoryId = 0 \/ \E h \in history : h.id = MaxHistoryId
  BY MaxHistory DEF WriteInv
<1>4. \A h \in history : h.id \in Nat
  BY DEF WriteInv, TypeOK, HistoryRec
<1>5. \A p \in job[w].points : p.id \in Nat \ {0} /\ \A h \in history : h.id < p.id
  BY <1>1 DEF PointsFit
<1>6. \A h \in history : ~(h.id > MaxHistoryId)
  BY <1>3, <1>4
<1>7. \A p \in job[w].points : p.id > MaxHistoryId
  BY <1>3, <1>5
<1> QED BY <1>1, <1>2, <1>6, <1>7

\* Without overlap, the rollback boundary of the report has exactly this write's
\* points above it at the commit.
THEOREM RollbackIsExact == ASSUME ~Overlap PROVE Spec => RollbackDeletesOnlyTheWrite
<1>1. Init => QuietIndInv
  BY InitQuiet, ActiveWriteOK
<1>2. QuietIndInv /\ [Next]_vars => QuietIndInv'
  BY NextQuiet, ActiveWriteOK
<1>3. QuietIndInv /\ [Next]_vars =>
        [\A w \in Writers : Finish(w) =>
            {h \in history' : h.id > job[w].rep.maxId} = job[w].points]_vars
  BY FinishIsAboveMax, ActiveWriteOK
<1> QED BY <1>1, <1>2, <1>3, PTL DEF Spec, RollbackDeletesOnlyTheWrite
=============================================================================
