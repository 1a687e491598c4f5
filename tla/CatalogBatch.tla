----------------------------- MODULE CatalogBatch -----------------------------
(***************************************************************************)
(* One batch of the refresh plan on one day: runCmvpCatalogBatch of        *)
(* scripts/pipeline/cmvp-catalog-batch.ts, its dependencies of             *)
(* scripts/acquire-cmvp-catalog-batch.ts and the retry loop runBatch of    *)
(* scripts/refresh-catalog.ts.                                             *)
(*                                                                         *)
(* Every attempt has a batch id of its own (base, -r2, -r3 ...), a         *)
(* checkpoint file and at most one ingestion run.  The process alternates  *)
(* file writes and database writes and may die between any two of them;    *)
(* the database may crash, which empties the UNLOGGED staging table.  The  *)
(* reconcile transaction is Reconcile's subject: here it commits, is       *)
(* refused (lock held, timeout, preflight) or commits without the answer   *)
(* reaching the caller.  The lock of the cron entry lets one process work  *)
(* on the batch at a time.  A dry run writes nothing and is left out.      *)
(***************************************************************************)
EXTENDS Naturals, FiniteSets

CONSTANTS
    Rows,          \* staging rows an acquisition may admit
    Contracts,     \* contract digests: source, term, count, category path
    AttemptLimit,  \* batch ids the retry loop may try (9 in the code)
    MaxCrashes     \* bound: process deaths in one behaviour

Attempts == 1 .. AttemptLimit

ASSUME LimitsOK ==
    /\ AttemptLimit \in Nat \ {0}
    /\ MaxCrashes \in Nat
    /\ IsFiniteSet(Rows)
    /\ Contracts # {}

VARIABLES
    files,     \* checkpoint file of each attempt
    created,   \* ingestion_run rows inserted for the attempt
    status,    \* ingestion_run.status
    staged,    \* surviving admissible staging_product rows of the run
    catalog,   \* rows of the run that a reconcile transaction has promoted
    pc,        \* where the process is: the write it performs next
    id, req,   \* its attempt and contract
    art,       \* the artifact it holds in memory
    result,    \* what the last call returned
    crashes

store == <<created, status, staged, catalog>>
vars == <<files, store, pc, id, req, art, result, crashes>>

Checkpoint ==
    [state : {"none", "acquiring", "acquired", "completed", "blocked"},
     contract : Contracts, admitted : SUBSET Rows,
     verdict : {"none", "ok", "diverges", "error"},  \* of the GTIN lists
     error : {"none", "no outcome", "failed"},       \* reconciliationError
     runError : BOOLEAN]                             \* runs[0].error # null

\* createArtifact
Artifact(s, c, A, v) ==
    [state |-> s, contract |-> c, admitted |-> A, verdict |-> v,
     error |-> "none", runError |-> v = "error"]

NoFile == Artifact("none", CHOOSE c \in Contracts : TRUE, {}, "none")

Present(a) == files[a].state # "none"

\* isValidAcquiredCheckpoint, isValidCompletedCheckpoint
Valid(x) == x.verdict = "ok" /\ x.error = "none" /\ ~x.runError

Init ==
    /\ files = [a \in Attempts |-> NoFile]
    /\ created = [a \in Attempts |-> 0]
    /\ status = [a \in Attempts |-> "NONE"]
    /\ staged = [a \in Attempts |-> {}]
    /\ catalog = [a \in Attempts |-> {}]
    /\ pc = "idle" /\ id = 1 /\ req = NoFile.contract /\ art = NoFile
    /\ result = "none" /\ crashes = 0

-----------------------------------------------------------------------------
(* Reading the checkpoint: replayCheckpoint, replayExistingCheckpoint.      *)

Return(r) ==
    /\ pc' = "idle"
    /\ result' = r
    /\ art' = NoFile
    /\ UNCHANGED <<id, req>>

Continue(to) == pc' = to /\ UNCHANGED <<id, req, result>>

\* A call starts; its answer, if it needs no write, is already known.
Call(a, c, to, x, r) ==
    /\ pc = "idle"
    /\ id' = a /\ req' = c
    /\ pc' = to /\ art' = x /\ result' = r
    /\ UNCHANGED <<files, store, crashes>>

\* Mutant: an interrupted acquisition starts again.
FreshAgain(a, c) ==
    /\ files[a].state \in {"none", "acquiring"}
    /\ Call(a, c, "open", Artifact("acquiring", c, {}, "none"), "none")

\* No file: the acquisition may begin.
Fresh(a, c) ==
    /\ ~Present(a)
    /\ Call(a, c, "open", Artifact("acquiring", c, {}, "none"), "none")

\* The checkpoint of another contract, or one that does not validate.
Refuse(a, c) ==
    /\ Present(a)
    /\ \/ files[a].contract # c
       \/ files[a].state \in {"acquired", "completed"} /\ ~Valid(files[a])
    /\ Call(a, c, "idle", NoFile, "refused")

\* A finished checkpoint is the answer: nothing is queried or written.
Replay(a, c) ==
    /\ Present(a) /\ files[a].contract = c
    /\ \/ /\ files[a].state = "completed" /\ Valid(files[a])
          /\ Call(a, c, "idle", NoFile, "ok")
       \/ /\ files[a].state = "blocked" /\ files[a].error # "failed"
          /\ Call(a, c, "idle", NoFile, "blocked")

\* The process died while acquiring: nobody knows what the store answered.
Abandon(a, c) ==
    /\ files[a].state = "acquiring" /\ files[a].contract = c
    /\ Call(a, c, "abandon",
            [files[a] EXCEPT !.state = "blocked", !.error = "no outcome"], "none")

\* The acquisition is durable: only its reconciliation is tried again.
Resume(a, c) ==
    /\ files[a].contract = c
    /\ \/ files[a].state = "acquired" /\ Valid(files[a])
       \/ files[a].state = "blocked" /\ files[a].error = "failed"
    /\ Call(a, c, "reconcile", files[a], "none")

Run(a, c) ==
    Fresh(a, c) \/ Refuse(a, c) \/ Replay(a, c) \/ Abandon(a, c) \/ Resume(a, c)

\* Mutant: a completed checkpoint is passed over.
UsableNever(a) == files[a].state = "none"

\* runBatch of the refresh: the first id never tried, or already completed.
Usable(a) == files[a].state \in {"none", "completed"}

Picked(a) == Usable(a) /\ \A b \in Attempts : Usable(b) => a <= b

Refresh == \E a \in Attempts, c \in Contracts : Picked(a) /\ Run(a, c)

\* An operator calls the batch command again on an existing checkpoint.
Retry == \E a \in Attempts, c \in Contracts : Present(a) /\ Run(a, c)

-----------------------------------------------------------------------------
(* Acquiring: one write at a time.                                          *)

\* saveArtifact: the file is replaced atomically.
Save(x) == files' = [files EXCEPT ![id] = x]

SaveAcquiring ==
    /\ pc = "open"
    /\ Save(art)
    /\ Continue("create")
    /\ UNCHANGED <<store, art, crashes>>

CreateRun ==
    /\ pc = "create"
    /\ created' = [created EXCEPT ![id] = @ + 1]
    /\ status' = [status EXCEPT ![id] = "RUNNING"]
    /\ Continue("stage")
    /\ UNCHANGED <<files, staged, catalog, art, crashes>>

\* acquire catches the failure: no run id, nothing fetched.
CreateRunFails ==
    /\ pc = "create"
    /\ art' = Artifact("blocked", req, {}, "error")
    /\ Continue("record")
    /\ UNCHANGED <<files, store, crashes>>

\* acquisitionOutcome: an error (nothing admitted, too many rejects, a throw
\* after some rows were staged) blocks; the expected GTINs are compared later.
Stage(S, A, v) ==
    /\ pc = "stage"
    /\ v # "error" => A = S /\ S # {}
    /\ staged' = [staged EXCEPT ![id] = S]
    /\ art' = Artifact(IF v = "error" THEN "blocked" ELSE "acquired", req, A, v)
    /\ Continue("record")
    /\ UNCHANGED <<files, created, status, catalog, crashes>>

StageSome ==
    \E S \in SUBSET Rows : \E A \in {S, {}}, v \in {"ok", "diverges", "error"} :
        Stage(S, A, v)

\* Mutant: a divergent acquisition goes on to the reconciliation.
SaveOutcomeUnchecked ==
    /\ pc = "record"
    /\ Save(art)
    /\ Continue(IF art.verdict = "error" THEN "fail" ELSE "reconcile")
    /\ UNCHANGED <<store, art, crashes>>

SaveOutcome ==
    /\ pc = "record"
    /\ Save(art)
    /\ Continue(IF art.verdict = "ok" THEN "reconcile" ELSE "fail")
    /\ UNCHANGED <<store, art, crashes>>

FailAcquisition ==
    /\ pc = "fail"
    /\ status' = [status EXCEPT ![id] = IF created[id] = 0 THEN @ ELSE "FAILED"]
    /\ IF art.verdict = "error"
       THEN Return("blocked")
       ELSE /\ Continue("block")
            /\ art' = [art EXCEPT !.state = "blocked", !.runError = TRUE]
    /\ UNCHANGED <<files, created, staged, catalog, crashes>>

\* The blocked artifact of a divergent, abandoned or unreconciled batch.
SaveBlocked ==
    /\ pc \in {"block", "abandon", "rebuff"}
    /\ Save(art)
    /\ Return(IF pc = "rebuff" THEN "failed" ELSE "blocked")
    /\ UNCHANGED <<store, crashes>>

-----------------------------------------------------------------------------
(* Reconciling.                                                             *)

Promote(S) == catalog' = [catalog EXCEPT ![id] = @ \cup S]

\* Mutant: the promoted count is not compared.
CountIgnored(S) == TRUE

\* The promoted count must be the number of admitted EANs.
CountMatches(S) == Cardinality(S) = Cardinality(art.admitted)

ReconcileCommits ==
    /\ pc = "reconcile"
    /\ Promote(staged[id])
    /\ Continue(IF CountMatches(staged[id]) THEN "settle" ELSE "regret")
    /\ UNCHANGED <<files, created, status, staged, art, crashes>>

\* The transaction is refused or times out, or its commit is not acknowledged.
ReconcileFails ==
    /\ pc = "reconcile"
    /\ Promote(staged[id]) \/ UNCHANGED catalog
    /\ Continue("regret")
    /\ UNCHANGED <<files, created, status, staged, art, crashes>>

FinalizeSuccess ==
    /\ pc = "settle"
    /\ status' = [status EXCEPT ![id] = "SUCCESS"]
    /\ art' = [art EXCEPT !.state = "completed", !.error = "none"]
    /\ Continue("complete")
    /\ UNCHANGED <<files, created, staged, catalog, crashes>>

\* A completed artifact is reported as a failed batch when its run carries an
\* error (runSummary, batchOutcome).
SaveCompleted ==
    /\ pc = "complete"
    /\ Save(art)
    /\ Return(IF art.runError THEN "failed" ELSE "ok")
    /\ UNCHANGED <<store, crashes>>

\* Mutant: a failed reconciliation is tried again within the call.
TryAgain ==
    /\ pc = "regret"
    /\ status' = [status EXCEPT ![id] = "FAILED"]
    /\ Continue("reconcile")
    /\ UNCHANGED <<files, created, staged, catalog, art, crashes>>

\* failReconciliation
FailReconciliation ==
    /\ pc = "regret"
    /\ status' = [status EXCEPT ![id] = "FAILED"]
    /\ art' = [art EXCEPT !.state = "blocked", !.error = "failed", !.runError = TRUE]
    /\ Continue("rebuff")
    /\ UNCHANGED <<files, created, staged, catalog, crashes>>

-----------------------------------------------------------------------------
\* The process dies, or a write throws and ends the call.
Crash ==
    /\ pc # "idle"
    /\ crashes < MaxCrashes
    /\ crashes' = crashes + 1
    /\ Return("none")
    /\ UNCHANGED <<files, store>>

\* Postgres recovers from a crash with an empty UNLOGGED table.
LoseStaging ==
    /\ \E a \in Attempts : staged[a] # {}
    /\ staged' = [a \in Attempts |-> {}]
    /\ UNCHANGED <<files, created, status, catalog, pc, id, req, art, result, crashes>>

\* pruneStagingProducts deletes old rows in batches, between two runs.
Prune ==
    /\ pc = "idle"
    /\ \E a \in Attempts : \E S \in SUBSET staged[a] :
         staged' = [staged EXCEPT ![a] = S]
    /\ UNCHANGED <<files, created, status, catalog, pc, id, req, art, result, crashes>>

Step ==
    \/ SaveAcquiring \/ CreateRun \/ CreateRunFails \/ StageSome \/ SaveOutcome
    \/ FailAcquisition \/ SaveBlocked
    \/ ReconcileCommits \/ ReconcileFails
    \/ FinalizeSuccess \/ SaveCompleted \/ FailReconciliation

Next == Refresh \/ Retry \/ Step \/ Crash \/ LoseStaging \/ Prune

Spec == Init /\ [][Next]_vars

\* A started call runs on: nothing in it waits for anyone.  That a batch is
\* called again is not assumed: ids carry the date, and the day may be over.
FairSpec == Spec /\ WF_vars(Step)

-----------------------------------------------------------------------------
(* Properties.                                                              *)

Stages == {"idle", "open", "create", "stage", "record", "fail", "block",
           "abandon", "reconcile", "settle", "complete", "regret", "rebuff"}

TypeOK ==
    /\ files \in [Attempts -> Checkpoint]
    /\ created \in [Attempts -> Nat]
    /\ status \in [Attempts -> {"NONE", "RUNNING", "SUCCESS", "FAILED"}]
    /\ staged \in [Attempts -> SUBSET Rows]
    /\ catalog \in [Attempts -> SUBSET Rows]
    /\ pc \in Stages
    /\ id \in Attempts
    /\ req \in Contracts
    /\ art \in Checkpoint
    /\ result \in {"none", "ok", "blocked", "failed", "refused"}
    /\ crashes \in 0 .. MaxCrashes

\* A batch id queries the store at most once, wherever the process dies and
\* however often the batch is called again.
OneAcquisitionPerId == \A a \in Attempts : created[a] <= 1

\* What the store's answer failed to admit never reaches the catalog: rows are
\* promoted only from an acquisition whose lists agreed, and only its own rows,
\* although the rows of a failed or divergent run stay in staging as PENDING.
OnlyAdmittedIsPromoted ==
    \A a \in Attempts : catalog[a] # {} =>
        files[a].verdict = "ok" /\ catalog[a] \subseteq files[a].admitted

\* A run marked SUCCESS is in the catalog whole, whatever staging has lost.
SuccessIsPromoted ==
    \A a \in Attempts : status[a] = "SUCCESS" => files[a].admitted \subseteq catalog[a]

\* A batch the refresh counts as ok, now or by a replay, has its run recorded
\* as SUCCESS and every admitted row in the catalog.
OkIsPromoted ==
    result = "ok" => /\ files[id].admitted # {}
                     /\ files[id].admitted \subseteq catalog[id]
                     /\ status[id] = "SUCCESS"

\* "a completed batch replays from its checkpoint and does not query again"
\* (docs/RUNBOOK.md): once any attempt of the day completed, its checkpoint
\* stays as it is and no attempt creates a run.
CompletedIsFinal ==
    [][\A a \in Attempts : files[a].state = "completed" =>
         files'[a] = files[a] /\ created' = created]_vars

\* The batch as the refresh sees it.
StateOf(a) ==
    IF files[a].state = "completed" THEN "delivered"
    ELSE IF created[a] > 0 THEN "asked" ELSE "unused"

IsWhole(a) == files[a].verdict = "ok" /\ files[a].admitted \subseteq catalog[a]

Promise == INSTANCE BatchPromise WITH
    Ids    <- Attempts,
    state  <- [a \in Attempts |-> StateOf(a)],
    whole  <- {a \in Attempts : IsWhole(a)},
    answer <- result

\* Seen from outside, all of it is a store that is asked once per id and never
\* after a delivery, rows that come into the catalog whole and stay, and an "ok"
\* that is said of a delivered batch only.
KeepsPromise == Promise!Spec

\* A completed checkpoint replays: it passes the validation every replay makes.
CompletedReplays ==
    \A a \in Attempts : files[a].state = "completed" => Valid(files[a])

Decided(a) == files[a].state \in {"completed", "blocked"}

\* A call that begins ends with a verdict on file, whatever its writes, the
\* reconciliation and the staging table do to it, unless its process dies and it
\* gives no answer: no call is tried over for ever, and none that answers leaves
\* a checkpoint that says neither "deliver" nor "use another id".
CallsEnd ==
    pc # "idle" ~> (pc = "idle" /\ (result = "none" \/ Decided(id)))
=============================================================================
