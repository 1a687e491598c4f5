------------------------------ MODULE Ingestion ------------------------------
(***************************************************************************)
(* The ingestion command, scripts/ingest.ts, from its flags to the         *)
(* catalog, and the candidate audit that approves a write beforehand,      *)
(* scripts/pipeline/candidate-audit.ts.                                    *)
(*                                                                         *)
(* Stores are read two at a time, each through its own run: probe, fetch   *)
(* into staging, validate.  Any step may raise, the update of a run may be *)
(* lost (updateRunSafely only logs it) and the process may die.  Then the  *)
(* whole batch passes the gates of IngestGates and one transaction         *)
(* (Reconcile) takes it into the catalog.  Meanwhile the stores change     *)
(* their shelves and other writers change the catalog.                     *)
(***************************************************************************)
EXTENDS IngestGates

CONSTANTS
    Products,      \* EANs of the products table
    Worlds,        \* what the stores sell and the catalog offers at first
    Commands,      \* the flags a command may be given
    AuditRequests, \* the audits that may be asked for
    Limit,         \* 2: stores read at a time
    Moves,         \* changes of the shelves that may happen
    OtherWrites,   \* what other writers may observe
    MaxBatches, MaxMoves, MaxOthers   \* bounds: commands, shelf changes,
                                      \* writes of other writers

Lists == {None} \cup Seq(STRING)

\* The flags of a command; expected and hash say what it is told of the audit.
CommandFlags ==
    [mode : STRING, dryRun : BOOLEAN, confirmed : BOOLEAN, allSources : BOOLEAN,
     filter : Lists, terms : Lists, expected : {"none", "some", "all"},
     hash : {"none", "audit"}, writeMode : WriteModes, selection : Selections,
     count : Nat, scan : Nat]

AuditRequest ==
    [source : Sources, term : STRING, mode : WriteModes, selection : Selections,
     count : Nat, scan : Nat, missing : SUBSET Eans, waived : SUBSET Eans]

ASSUME IngestionConstants ==
    /\ Commands \subseteq CommandFlags /\ AuditRequests \subseteq AuditRequest
    /\ Products \subseteq Eans
    /\ \A w \in Worlds : {w.shelf, w.offers} \subseteq
                           [Sources -> [Eans -> Quotes \cup {None}]]
    /\ Moves \subseteq Sources \X Eans \X Quotes
    /\ OtherWrites \subseteq Sources \X Eans \X (Quotes \ Unpriced)
    /\ {Limit, MaxBatches} \subseteq Nat \ {0}
    /\ {MaxMoves, MaxOthers} \subseteq Nat

VARIABLES
    shelf, moves,               \* what each store sells
    products, offers, history, others,   \* the catalog; price_history by id
    batch, run, staged,         \* ingestion_run and staging_product by batch
    phase, cmd, at, exec,       \* the command: its step, flags, stores
    auditor, audit,             \* the audit under way; the one on disk
    touched                     \* the catalog changed since the audit read it

world == <<shelf, moves, others>>
catalog == <<products, offers, history>>
tables == <<run, staged>>
command == <<batch, phase, cmd, at, exec>>
review == <<auditor, audit, touched>>
vars == <<world, catalog, tables, command, review>>

Batches == 1 .. MaxBatches

NoRun == [status |-> "none", promoted |-> 0]
StagedRow == [ean : Eans, quote : Quotes, verdict : {"PENDING", "REJECTED"}, taken : BOOLEAN]

Stocked(t) == {[ean |-> e, quote |-> t[e]] : e \in {x \in Eans : t[x] # None}}

\* A search is answered with at most as many products as asked for.
Answers(s, n) == {R \in SUBSET Stocked(shelf[s]) : Cardinality(R) <= n}

AsStored(R) == {[r EXCEPT !.quote = StoredAs[r.quote]] : r \in R}

Latest(H, s, e) ==
    LET p == {i \in DOMAIN H : H[i].source = s /\ H[i].ean = e}
    IN  IF p = {} THEN None ELSE H[Max(p)].quote

\* Reconcile's transaction, row by row: an offer takes the observed quote, a
\* point is added when the quote is news.
WithOffers(O, s, R) ==
    [O EXCEPT ![s] = [e \in Eans |-> IF e \in EansOf(R)
                                     THEN (CHOOSE r \in R : r.ean = e).quote ELSE @[e]]]

NewPoints(H, s, R) ==
    {[source |-> s, ean |-> r.ean, quote |-> r.quote] :
        r \in {x \in R : Latest(H, s, x.ean) # x.quote}}

Init ==
    /\ \E w \in Worlds : shelf = w.shelf /\ offers = w.offers
    /\ moves = 0 /\ others = 0
    /\ products = Products
    /\ history = SetToSeq({[source |-> p[1], ean |-> p[2], quote |-> offers[p[1]][p[2]]] :
                      p \in {x \in Sources \X Eans : offers[x[1]][x[2]] # None}})
    /\ batch = 0
    /\ run = [b \in Batches |-> [s \in Sources |-> NoRun]]
    /\ staged = [b \in Batches |-> [s \in Sources |-> {}]]
    /\ phase = "idle" /\ cmd = None
    /\ at = [s \in Sources |-> "out"]
    /\ exec = <<>>
    /\ auditor = None /\ audit = None /\ touched = FALSE

-----------------------------------------------------------------------------
(* The stores and the other writers.                                        *)

ShelfMoves(s, e, q) ==
    /\ moves < MaxMoves
    /\ shelf[s][e] # q
    /\ moves' = moves + 1
    /\ shelf' = [shelf EXCEPT ![s][e] = q]
    /\ UNCHANGED <<others, catalog, tables, command, review>>

\* The daily refresh or the batch command observed one product.
OtherWrite(s, e, q) ==
    /\ others < MaxOthers
    /\ phase # "idle" \/ auditor # None \/ audit # None
    /\ others' = others + 1
    /\ products' = products \cup {e}
    /\ offers' = WithOffers(offers, s, {[ean |-> e, quote |-> q]})
    /\ history' = history \o SetToSeq(NewPoints(history, s, {[ean |-> e, quote |-> q]}))
    /\ touched' = TRUE
    /\ UNCHANGED <<shelf, moves, tables, command, auditor, audit>>

-----------------------------------------------------------------------------
(* The audit reads the store, then the catalog, then the history.           *)

AuditFetch(a) ==
    /\ auditor = None /\ audit = None
    /\ AuditAdmits(a)
    /\ \E R \in Answers(a.source, IF a.selection = "existing-only" THEN a.scan ELSE a.count) :
         /\ AuditableAnswer(a, R)
         /\ auditor' = [ask |-> a, rows |-> R, before |-> None]
    /\ UNCHANGED <<world, catalog, tables, command, audit, touched>>

OfferedBy(s) == {e \in Eans : offers[s][e] # None}

\* The products and the offers, then the selection; the audit may refuse.
AuditRead ==
    /\ auditor # None /\ auditor.before = None
    /\ LET a == auditor.ask
       IN \E S \in AuditSelections(a, auditor.rows, products, OfferedBy(a.source)) :
            auditor' = [auditor EXCEPT !.rows = S, !.before = offers[a.source]]
    /\ touched' = FALSE
    /\ UNCHANGED <<world, catalog, tables, command, audit>>

AuditRefused ==
    /\ auditor # None /\ auditor.before = None
    /\ AuditSelections(auditor.ask, auditor.rows, products,
                       OfferedBy(auditor.ask.source)) = {}
    /\ auditor' = None
    /\ UNCHANGED <<world, catalog, tables, command, audit, touched>>

\* Mutant: the plan puts back what the audit saw in the store.
RollbackPlanOfCandidates(a, R, before, maxId) ==
    [source |-> a.source, eans |-> EansOf(R), maxId |-> maxId,
     offers |-> [e \in EansOf(R) |-> (CHOOSE r \in R : r.ean = e).quote]]

\* buildCandidateRollbackPlan
RollbackPlan(a, R, before, maxId) ==
    [source |-> a.source, eans |-> EansOf(R), maxId |-> maxId,
     offers |-> [e \in EansOf(R) |-> before[e]]]

AuditWrite ==
    /\ auditor # None /\ auditor.before # None
    /\ LET a == auditor.ask
       IN audit' = [eans |-> EansOf(auditor.rows),
                    hash |-> SnapshotHash(a.source, a.term, a.count, a.mode, auditor.rows),
                    plan |-> RollbackPlan(a, auditor.rows, auditor.before, Len(history))]
    /\ auditor' = None
    /\ UNCHANGED <<world, catalog, tables, command, touched>>

-----------------------------------------------------------------------------
(* The command.                                                             *)

\* The EANs and the hash of a command come from the audit on disk, if at all: a
\* list of all its EANs or of some, its hash or none.
Told(f) ==
    [f EXCEPT !.expected = CASE @ = "all"  -> SetToSeq(audit.eans)
                             [] @ = "some" -> <<CHOOSE e \in audit.eans : TRUE>>
                             [] OTHER -> None,
              !.hash = IF @ = "audit" THEN audit.hash ELSE None]

\* getActiveSources
Selected(o) == IF o.filter = None THEN Sources ELSE ToSet(o.filter) \cap Sources

Start(f) ==
    LET o == Parsed(Told(f))
    IN  /\ phase = "idle" /\ auditor = None
        /\ audit = None => f.expected = "none" /\ f.hash = "none"
        /\ batch < MaxBatches
        /\ Safe(o)
        /\ o.mode # "off"
        /\ batch' = batch + 1
        /\ cmd' = o
        /\ phase' = "sources"
        /\ at' = [s \in Sources |-> IF s \in Selected(o) THEN "waiting" ELSE "out"]
        /\ exec' = <<>>
        /\ UNCHANGED <<world, catalog, tables, review>>

Reading == {s \in Sources : at[s] \in {"read", "validate"}}

Dry == cmd.dryRun

\* updateRunSafely: a failed update is only logged.
RunUpdated(s, status) ==
    IF Dry THEN UNCHANGED run
    ELSE \/ run' = [run EXCEPT ![batch][s].status = status]
         \/ UNCHANGED run

\* startIngestionRun
Begin(s) ==
    /\ phase = "sources" /\ at[s] = "waiting"
    /\ Cardinality(Reading) < Limit
    /\ at' = [at EXCEPT ![s] = "read"]
    /\ IF Dry THEN UNCHANGED run
       ELSE run' = [run EXCEPT ![batch][s].status = "RUNNING"]
    /\ UNCHANGED <<world, catalog, staged, batch, phase, cmd, exec, review>>

Ends(s, x) ==
    /\ exec' = [t \in DOMAIN exec \cup {s} |-> IF t = s THEN x ELSE exec[t]]
    /\ at' = [at EXCEPT ![s] = "done"]

\* Every failure ends alike: an unhealthy probe, a search or a statement that
\* raises.  What the step had staged stays staged.
Fails(s) ==
    /\ phase = "sources" /\ s \in Reading
    /\ Ends(s, Execution("FAILED", 0, None, {}, {}))
    /\ RunUpdated(s, "FAILED")
    /\ UNCHANGED <<world, catalog, staged, batch, phase, cmd, review>>

Pending(R) == {[ean |-> r.ean, quote |-> r.quote, verdict |-> "PENDING", taken |-> FALSE] : r \in R}

\* A healthy probe, then stageSourceProducts.  A dry run keeps its products in memory, unrounded.
Fetch(s) ==
    /\ phase = "sources" /\ at[s] = "read"
    /\ at' = [at EXCEPT ![s] = "validate"]
    /\ \E R \in Answers(s, FetchCount(cmd)) :
         /\ exec' = [t \in DOMAIN exec \cup {s} |-> IF t # s THEN exec[t]
                       ELSE Execution("READING", Len(Terms(cmd)), None, Kept(cmd, R), {})]
         /\ staged' = IF Dry THEN staged
                      ELSE [staged EXCEPT ![batch][s] = Pending(AsStored(Kept(cmd, R)))]
    /\ UNCHANGED <<world, catalog, run, batch, phase, cmd, review>>

Verdict(r) == IF r.quote \in Spiked THEN "REJECTED" ELSE "PENDING"

\* validateStageProducts reads the staged rows back, then the candidates are
\* hashed and the run is closed.
Validate(s) ==
    /\ phase = "sources" /\ at[s] = "validate"
    /\ LET R == IF Dry THEN exec[s].rows
                ELSE {[ean |-> r.ean, quote |-> r.quote] : r \in staged[batch][s]}
           bad == {r \in R : Verdict(r) = "REJECTED"}
           status == IF bad = {} THEN "SUCCESS" ELSE "PARTIAL"
       IN /\ Ends(s, Execution(status, exec[s].queries,
                        SnapshotHash(s, FirstTerm(cmd), cmd.count, cmd.writeMode, R), R, bad))
          /\ staged' = IF Dry THEN staged
                       ELSE [staged EXCEPT ![batch][s] =
                               {[r EXCEPT !.verdict = Verdict(r)] : r \in @}]
          /\ RunUpdated(s, status)
    /\ UNCHANGED <<world, catalog, batch, phase, cmd, review>>

AllDone == \A s \in Sources : at[s] \in {"out", "done"}

Stops == phase' = "idle" /\ cmd' = None /\ exec' = <<>> /\ at' = [s \in Sources |-> "out"]

\* Not an active run, or a store that was asked for by name failed.
NothingToReconcile ==
    /\ phase = "sources" /\ AllDone
    /\ cmd.mode # "active" \/ RequestedSourceFailed(cmd, exec)
    /\ Stops
    /\ UNCHANGED <<world, catalog, tables, batch, review>>

Gated == cmd.expected # None /\ cmd.expected # <<>>

GatePasses ==
    /\ phase = "sources" /\ AllDone
    /\ cmd.mode = "active" /\ ~RequestedSourceFailed(cmd, exec)
    /\ Gated => PreReconcileGate(cmd, exec)
    /\ phase' = "reconcile"
    /\ UNCHANGED <<world, catalog, tables, batch, cmd, at, exec, review>>

\* assertPreReconcile fails every run that had not failed, then raises.
GateRefuses ==
    /\ phase = "sources" /\ AllDone
    /\ cmd.mode = "active" /\ ~RequestedSourceFailed(cmd, exec)
    /\ Gated /\ ~PreReconcileGate(cmd, exec)
    /\ IF Dry THEN UNCHANGED run
       ELSE \E lost \in SUBSET DOMAIN exec :
              run' = [run EXCEPT ![batch] = [s \in Sources |->
                        IF s \in DOMAIN exec \ lost /\ exec[s].status # "FAILED"
                        THEN [@[s] EXCEPT !.status = "FAILED"] ELSE @[s]]]
    /\ Stops
    /\ UNCHANGED <<world, catalog, staged, batch, review>>

\* Mutant: the rows are not looked up by batch.
CandidateBatchesAll == 1 .. batch

\* reconcileRequest asks for the rows of this batch.
CandidateBatches == {batch}

Accepted(b, s) == {r \in staged[b][s] : r.verdict = "PENDING"}

Refreshable(b, s) ==
    \A r \in Accepted(b, s) : r.ean \in products /\ offers[s][r.ean] # None

\* The transaction of Reconcile over what the batch left in staging, whatever
\* the runs' own outcome says.
Commit ==
    /\ phase = "reconcile" /\ ~Dry
    /\ cmd.writeMode = "refresh-existing" =>
         \A b \in CandidateBatches, s \in Sources : Refreshable(b, s)
    /\ LET rows(s) == UNION {Accepted(b, s) : b \in CandidateBatches}
       IN /\ products' = products \cup UNION {EansOf(rows(s)) : s \in Sources}
          /\ offers' = [s \in Sources |-> WithOffers(offers, s, rows(s))[s]]
          /\ history' = history \o SetToSeq(UNION {NewPoints(history, s, rows(s)) : s \in Sources})
    /\ staged' = [b \in Batches |-> IF b \notin CandidateBatches THEN staged[b]
                    ELSE [s \in Sources |-> {[r EXCEPT !.taken = r.verdict = "PENDING"] :
                                                r \in staged[b][s]}]]
    /\ phase' = "counts"
    /\ touched' = TRUE
    /\ UNCHANGED <<world, run, batch, cmd, at, exec, auditor, audit>>

\* A lock that is held, a preflight that refuses, a transaction that times out;
\* or a dry run, which reconciles nothing.
NoCommit ==
    /\ phase = "reconcile"
    /\ Stops
    /\ UNCHANGED <<world, catalog, tables, batch, review>>

\* persistPromotedCounts, each update lost or not.
Count ==
    /\ phase = "counts"
    /\ \E lost \in SUBSET DOMAIN exec :
         run' = [run EXCEPT ![batch] = [s \in Sources |->
                   IF s \in DOMAIN exec \ lost /\ exec[s].status # "FAILED"
                   THEN [@[s] EXCEPT !.promoted = Cardinality({r \in staged[batch][s] : r.taken})]
                   ELSE @[s]]]
    /\ Stops
    /\ UNCHANGED <<world, catalog, staged, batch, review>>

\* The process dies, or a run cannot be created: nobody closes its runs.  A
\* death before the transaction commits is NoCommit.
Die ==
    /\ phase \in {"sources", "counts"}
    /\ Stops
    /\ UNCHANGED <<world, catalog, tables, batch, review>>

Next ==
    \/ \E m \in Moves : ShelfMoves(m[1], m[2], m[3])
    \/ \E w \in OtherWrites : OtherWrite(w[1], w[2], w[3])
    \/ \E a \in AuditRequests : AuditFetch(a)
    \/ AuditRead \/ AuditRefused \/ AuditWrite
    \/ \E f \in Commands : Start(f)
    \/ \E s \in Sources : Begin(s) \/ Fetch(s) \/ Validate(s) \/ Fails(s)
    \/ NothingToReconcile \/ GatePasses \/ GateRefuses
    \/ Commit \/ NoCommit \/ Count \/ Die

Spec == Init /\ [][Next]_vars

-----------------------------------------------------------------------------
(* Properties.                                                              *)

Plan == [source : Sources, eans : SUBSET Eans, maxId : Nat,
         offers : UNION {[E -> Quotes \cup {None}] : E \in SUBSET Eans}]

\* Every table and file holds what its schema says.
TypeOK ==
    /\ shelf \in [Sources -> [Eans -> Quotes \cup {None}]]
    /\ offers \in [Sources -> [Eans -> Quotes \cup {None}]]
    /\ products \subseteq Eans
    /\ history \in Seq([source : Sources, ean : Eans, quote : Quotes])
    /\ run \in [Batches -> [Sources ->
                [status : {"none", "RUNNING", "SUCCESS", "PARTIAL", "FAILED"},
                 promoted : Nat]]]
    /\ staged \in [Batches -> [Sources -> SUBSET StagedRow]]
    /\ phase \in {"idle", "sources", "reconcile", "counts"}
    /\ at \in [Sources -> {"out", "waiting", "read", "validate", "done"}]
    /\ \A s \in DOMAIN exec : exec[s].rows \subseteq Row
    /\ audit # None => audit.plan \in Plan
    /\ touched \in BOOLEAN

\* A row that was taken into the catalog is one the quality gates accepted.
TakenIsAccepted ==
    \A b \in Batches, s \in Sources : \A r \in staged[b][s] :
        r.taken => r.verdict = "PENDING" /\ r.quote \notin Spiked

\* A run that ends FAILED put nothing in the catalog: neither in its own batch
\* nor through another one's transaction, which finds its rows by batch and not
\* by the outcome of the runs (loadCandidates, reconcile.ts:369).
FailedRunPromotedNothing ==
    \A b \in Batches, s \in Sources :
        run[b][s].status = "FAILED" =>
            run[b][s].promoted = 0 /\ \A r \in staged[b][s] : ~r.taken

\* The rows a run staged go into the catalog all or none: the gate refuses a
\* batch with one rejected candidate whole.
WholeOrNothing ==
    \A b \in Batches, s \in Sources :
        (\E r \in staged[b][s] : r.taken) => \A r \in staged[b][s] : r.taken

Commits == phase = "reconcile" /\ phase' = "counts"

\* The rows of T that were taken, by batch, store and EAN.
Taken(T) == {x \in Batches \X Sources \X Eans :
                \E r \in T[x[1]][x[2]] : r.ean = x[3] /\ r.taken}

\* A write takes exactly the EANs the command was told to expect, from exactly
\* the store it names, whatever the store answered and earlier batches left.
PromotesExpected ==
    [][Commits => Taken(staged') \ Taken(staged) =
                    {batch} \X ToSet(cmd.filter) \X ToSet(cmd.expected)]_vars

\* A refresh of existing offers writes, to the cent, what its audit saw, and no
\* other offer: a store that moved in between is refused by the hash.
WritesWhatWasAudited ==
    [][Commits /\ cmd.writeMode = "refresh-existing" =>
         /\ cmd.hash = audit.hash
         /\ offers' = WithOffers(offers, cmd.hash.source, cmd.hash.rows)]_vars

\* The rollback plan of an audit takes the audited write back, offer rows and
\* history both, when nothing else wrote since the audit read the catalog.
PlanUndoesWrite ==
    [][Commits /\ audit # None /\ ~touched
         /\ ToSet(cmd.filter) = {audit.plan.source}
         /\ ToSet(cmd.expected) = audit.plan.eans =>
           LET p == audit.plan
           IN /\ [e \in Eans |-> IF e \in p.eans THEN p.offers[e]
                                  ELSE offers'[p.source][e]] = offers[p.source]
              /\ SubSeq(history', 1, p.maxId) = history
              /\ products' = products]_vars

\* Types, and what the runs and the staged rows say of the catalog whichever
\* updates were lost and wherever the command died.
Inv == TypeOK /\ TakenIsAccepted /\ FailedRunPromotedNothing /\ WholeOrNothing
===============================================================================
