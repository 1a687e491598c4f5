-------------------------- MODULE CatalogBatchProofs --------------------------
(***************************************************************************)
(* CatalogBatch's safety properties, for every number of attempts, every   *)
(* set of rows and contracts and every number of crashes.                  *)
(*                                                                         *)
(* None of the properties is inductive alone.  The inductive invariant     *)
(* says of each checkpoint what its verdict guarantees about staging, the  *)
(* catalog and the run's status (FileInv), of the process what the file    *)
(* and the artifact in its memory agree on before each write (PcInv), and  *)
(* that batch ids are used in order (IdsInOrder).                          *)
(***************************************************************************)
EXTENDS CatalogBatch, FiniteSetTheorems, TLAPS

FileInv(a) ==
    /\ created[a] <= 1
    /\ created[a] > 0 => Present(a)
    /\ files[a].state \in {"none", "acquiring"} => files[a].verdict = "none"
    /\ files[a].verdict = "ok" => /\ staged[a] \subseteq files[a].admitted
                                  /\ files[a].admitted # {}
                                  /\ created[a] > 0
    /\ catalog[a] # {} => /\ files[a].verdict = "ok"
                          /\ catalog[a] \subseteq files[a].admitted
    /\ status[a] = "SUCCESS" => /\ files[a].verdict = "ok"
                                /\ files[a].admitted \subseteq catalog[a]
    /\ files[a].state = "completed" => files[a].verdict = "ok" /\ status[a] = "SUCCESS"
    /\ files[a].error = "failed" => files[a].verdict = "ok"

IdsInOrder == \A a, b \in Attempts : a < b /\ Present(b) => Present(a)

Acquiring == pc \in {"create", "stage", "record", "abandon"}
Reconciling == pc \in {"reconcile", "settle", "complete", "regret", "rebuff"}

\* Before the acquiring checkpoint and the run exist.
OpenInv ==
    /\ pc = "open" => /\ files[id].state = "none"
                      /\ art.state = "acquiring" /\ art.verdict = "none"
                      /\ art.error = "none"
                      /\ \A b \in Attempts : b < id => Present(b)
    /\ pc \in {"open", "create"} =>
         \A b \in Attempts : files[b].state # "completed"

\* While the outcome of the acquisition is not in the file.
AcquireInv ==
    /\ Acquiring => files[id].state = "acquiring"
    /\ pc = "create" => created[id] = 0
    /\ pc = "stage" => created[id] > 0
    /\ pc = "record" => /\ art.state \in {"acquired", "blocked"}
                        /\ art.verdict # "none" /\ art.error = "none"
                        /\ art.verdict = "ok" => /\ staged[id] \subseteq art.admitted
                                                 /\ art.admitted # {}
                                                 /\ created[id] > 0
    /\ pc = "abandon" => art.state = "blocked" /\ art.verdict = "none"
                         /\ art.error = "no outcome"
    /\ pc \in {"fail", "block"} => /\ files[id].state \in {"acquired", "blocked"}
                                   /\ files[id].verdict = art.verdict
                                   /\ art.verdict # "ok" /\ art.error = "none"
    /\ pc = "block" => art.state = "blocked"

\* Once the reconciliation has begun.
ReconcileInv ==
    /\ Reconciling => /\ files[id].state \in {"acquired", "blocked"}
                      /\ files[id].verdict = "ok" /\ art.verdict = "ok"
                      /\ art.admitted = files[id].admitted
    /\ pc = "settle" => art.admitted \subseteq catalog[id]
    /\ pc = "complete" => /\ status[id] = "SUCCESS"
                          /\ art.state = "completed" /\ art.error = "none"
    /\ pc = "rebuff" => art.state = "blocked"

ResultInv == result = "ok" => pc = "idle" /\ files[id].state = "completed"

IInv ==
    /\ TypeOK
    /\ \A a \in Attempts : FileInv(a)
    /\ IdsInOrder
    /\ OpenInv /\ AcquireInv /\ ReconcileInv /\ ResultInv

-----------------------------------------------------------------------------
\* Every artifact the code builds is a checkpoint.
LEMMA ArtifactType ==
    ASSUME NEW s \in {"none", "acquiring", "acquired", "completed", "blocked"},
           NEW c \in Contracts, NEW A \in SUBSET Rows,
           NEW v \in {"none", "ok", "diverges", "error"}
    PROVE  /\ Artifact(s, c, A, v) \in Checkpoint
           /\ Artifact(s, c, A, v).state = s
           /\ Artifact(s, c, A, v).verdict = v
           /\ Artifact(s, c, A, v).admitted = A
           /\ Artifact(s, c, A, v).error = "none"
BY DEF Artifact, Checkpoint

\* The absent file is a checkpoint record with nothing in it.
LEMMA NoFileType ==
    /\ NoFile \in Checkpoint
    /\ NoFile.state = "none" /\ NoFile.verdict = "none" /\ NoFile.error = "none"
    /\ NoFile.contract \in Contracts
<1>1. (CHOOSE c \in Contracts : TRUE) \in Contracts
  BY LimitsOK
<1> QED BY <1>1 DEF NoFile, Artifact, Checkpoint

\* The first attempt exists, so the process always has one.
LEMMA FirstAttempt == 1 \in Attempts
BY LimitsOK DEF Attempts

-----------------------------------------------------------------------------
\* The initial states satisfy the invariant.
LEMMA InitInv == Init => IInv
<1> SUFFICES ASSUME Init PROVE IInv
  OBVIOUS
<1>1. TypeOK
  BY NoFileType, FirstAttempt, LimitsOK DEF Init, TypeOK, Stages
<1>2. \A a \in Attempts : FileInv(a)
  BY NoFileType DEF Init, FileInv, Present
<1>3. IdsInOrder
  BY NoFileType DEF Init, IdsInOrder, Present
<1>4. OpenInv /\ AcquireInv /\ ReconcileInv /\ ResultInv
  BY DEF Init, OpenInv, AcquireInv, ReconcileInv, ResultInv, Acquiring, Reconciling
<1> QED BY <1>1, <1>2, <1>3, <1>4 DEF IInv

\* A call that starts or answers without a write only moves the process.
LEMMA RunInv ==
    ASSUME IInv, NEW a \in Attempts, NEW c \in Contracts, Run(a, c),
           Fresh(a, c) => Picked(a)
    PROVE  IInv'
<1> USE DEF IInv
<1>0. /\ pc = "idle" /\ id' = a /\ req' = c
      /\ UNCHANGED <<files, created, status, staged, catalog, crashes>>
  BY DEF Run, Fresh, Refuse, Replay, Abandon, Resume, Call, store
<1>f. files[a] \in Checkpoint /\ FileInv(a)
  BY DEF TypeOK
<1>1. /\ \A b \in Attempts : FileInv(b)'
      /\ IdsInOrder'
  BY <1>0 DEF FileInv, IdsInOrder, Present
<1>2. CASE Fresh(a, c)
  <2>1. /\ pc' = "open" /\ art' = Artifact("acquiring", c, {}, "none")
        /\ result' = "none" /\ ~Present(a) /\ Picked(a)
    BY <1>2 DEF Fresh, Call
  <2>2. \A b \in Attempts : b < a => Present(b)
    BY <2>1 DEF Picked, Usable, Present, Attempts
  <2>3. \A b \in Attempts : files[b].state # "completed"
    BY <2>1, LimitsOK DEF Picked, Usable, Present, Attempts, IdsInOrder
  <2>4. TypeOK'
    BY <1>0, <2>1, ArtifactType DEF TypeOK, Stages
  <2>5. OpenInv'
    BY <1>0, <2>1, <2>2, <2>3, ArtifactType DEF OpenInv, Present
  <2>6. (AcquireInv /\ ReconcileInv /\ ResultInv)'
    BY <2>1 DEF AcquireInv, ReconcileInv, ResultInv, Acquiring, Reconciling
  <2> QED BY <1>1, <2>4, <2>5, <2>6
<1>3. CASE Refuse(a, c) \/ Replay(a, c)
  <2>1. /\ pc' = "idle" /\ art' = NoFile
        /\ result' \in {"refused", "ok", "blocked"}
        /\ result' = "ok" => files[a].state = "completed"
    BY <1>3 DEF Refuse, Replay, Call
  <2>2. TypeOK'
    BY <1>0, <2>1, NoFileType DEF TypeOK, Stages
  <2>3. (OpenInv /\ AcquireInv /\ ReconcileInv /\ ResultInv)'
    BY <1>0, <2>1
    DEF OpenInv, AcquireInv, ReconcileInv, ResultInv, Acquiring, Reconciling
  <2> QED BY <1>1, <2>2, <2>3
<1>4. CASE Abandon(a, c)
  <2>1. /\ pc' = "abandon" /\ result' = "none" /\ files[a].state = "acquiring"
        /\ art' = [files[a] EXCEPT !.state = "blocked", !.error = "no outcome"]
    BY <1>4 DEF Abandon, Call
  <2>2. TypeOK'
    BY <1>0, <1>f, <2>1 DEF TypeOK, Stages, Checkpoint
  <2>3. (OpenInv /\ AcquireInv /\ ReconcileInv /\ ResultInv)'
    BY <1>0, <1>f, <2>1
    DEF OpenInv, AcquireInv, ReconcileInv, ResultInv, Acquiring, Reconciling,
        FileInv, Checkpoint
  <2> QED BY <1>1, <2>2, <2>3
<1>5. CASE Resume(a, c)
  <2>1. /\ pc' = "reconcile" /\ result' = "none" /\ art' = files[a]
        /\ files[a].state \in {"acquired", "blocked"} /\ files[a].verdict = "ok"
    BY <1>5, <1>f DEF Resume, Call, Valid, FileInv
  <2>2. TypeOK'
    BY <1>0, <1>f, <2>1 DEF TypeOK, Stages
  <2>3. (OpenInv /\ AcquireInv /\ ReconcileInv /\ ResultInv)'
    BY <1>0, <2>1
    DEF OpenInv, AcquireInv, ReconcileInv, ResultInv, Acquiring, Reconciling
  <2> QED BY <1>1, <2>2, <2>3
<1> QED BY <1>2, <1>3, <1>4, <1>5 DEF Run

\* The writes that open an acquisition and stage its rows.
LEMMA AcquireStepInv ==
    ASSUME IInv, SaveAcquiring \/ CreateRun \/ CreateRunFails \/ StageSome
    PROVE  IInv'
<1> USE DEF IInv
<1>t. id \in Attempts /\ files[id] \in Checkpoint /\ FileInv(id)
  BY DEF TypeOK
<1>1. CASE SaveAcquiring
  <2> USE <1>1 DEF SaveAcquiring, Save, Continue, store
  <2>1. TypeOK'
    BY DEF TypeOK, Stages
  <2>2. \A b \in Attempts : FileInv(b)'
    BY <1>t DEF FileInv, Present, OpenInv, TypeOK
  <2>3. IdsInOrder'
    BY <1>t DEF IdsInOrder, Present, OpenInv, TypeOK, Attempts
  <2>4. (OpenInv /\ AcquireInv)'
    BY <1>t DEF OpenInv, AcquireInv, Acquiring, TypeOK, FileInv, Present
  <2>5. (ReconcileInv /\ ResultInv)'
    BY DEF ReconcileInv, ResultInv, Reconciling
  <2> QED BY <2>1, <2>2, <2>3, <2>4, <2>5
<1>2. CASE CreateRun
  <2> USE <1>2 DEF CreateRun, Continue
  <2>1. TypeOK'
    BY <1>t DEF TypeOK, Stages
  <2>2. \A b \in Attempts : FileInv(b)'
    BY <1>t DEF FileInv, Present, AcquireInv, Acquiring, TypeOK
  <2>3. IdsInOrder'
    BY DEF IdsInOrder, Present
  <2>4. (OpenInv /\ AcquireInv /\ ReconcileInv /\ ResultInv)'
    BY <1>t
    DEF OpenInv, AcquireInv, ReconcileInv, ResultInv, Acquiring, Reconciling, TypeOK
  <2> QED BY <2>1, <2>2, <2>3, <2>4
<1>3. CASE CreateRunFails
  <2> USE <1>3 DEF CreateRunFails, Continue, store
  <2>1. TypeOK'
    BY ArtifactType DEF TypeOK, Stages
  <2>2. \A b \in Attempts : FileInv(b)'
    BY DEF FileInv, Present
  <2>3. IdsInOrder'
    BY DEF IdsInOrder, Present
  <2>4. (OpenInv /\ AcquireInv /\ ReconcileInv /\ ResultInv)'
    BY ArtifactType
    DEF OpenInv, AcquireInv, ReconcileInv, ResultInv, Acquiring, Reconciling, TypeOK
  <2> QED BY <2>1, <2>2, <2>3, <2>4
<1>4. CASE StageSome
  <2>1. PICK S \in SUBSET Rows : \E A \in {S, {}}, v \in {"ok", "diverges", "error"} :
          Stage(S, A, v)
    BY <1>4 DEF StageSome
  <2>2. PICK A \in {S, {}}, v \in {"ok", "diverges", "error"} : Stage(S, A, v)
    BY <2>1
  <2>a. A \in SUBSET Rows /\ req \in Contracts
    BY DEF TypeOK
  <2> DEFINE st == IF v = "error" THEN "blocked" ELSE "acquired"
  <2>b. st \in {"blocked", "acquired"}
    OBVIOUS
  <2>c. /\ art' = Artifact(st, req, A, v)
        /\ Artifact(st, req, A, v) \in Checkpoint
        /\ art'.state = st /\ art'.verdict = v /\ art'.admitted = A
        /\ art'.error = "none"
    BY <2>2, <2>a, <2>b, ArtifactType DEF Stage
  <2> HIDE DEF st
  <2> USE <2>2 DEF Stage, Continue
  <2>3. TypeOK'
    BY <1>t, <2>c DEF TypeOK, Stages
  <2>4. \A b \in Attempts : FileInv(b)'
    BY <1>t DEF FileInv, Present, AcquireInv, Acquiring, TypeOK
  <2>5. IdsInOrder'
    BY DEF IdsInOrder, Present
  <2>6. (OpenInv /\ AcquireInv /\ ReconcileInv /\ ResultInv)'
    BY <1>t, <2>b, <2>c
    DEF OpenInv, AcquireInv, ReconcileInv, ResultInv, Acquiring, Reconciling, TypeOK
  <2> QED BY <2>3, <2>4, <2>5, <2>6
<1> QED BY <1>1, <1>2, <1>3, <1>4

\* The outcome, the failure of an acquisition and the blocked artifacts.
LEMMA OutcomeStepInv ==
    ASSUME IInv, SaveOutcome \/ FailAcquisition \/ SaveBlocked
    PROVE  IInv'
<1> USE DEF IInv
<1>t. id \in Attempts /\ files[id] \in Checkpoint /\ FileInv(id) /\ art \in Checkpoint
  BY DEF TypeOK
<1>1. CASE SaveOutcome
  <2> USE <1>1 DEF SaveOutcome, Save, Continue, store
  <2>1. TypeOK'
    BY <1>t DEF TypeOK, Stages
  <2>2. \A b \in Attempts : FileInv(b)'
    BY <1>t DEF FileInv, Present, AcquireInv, Acquiring, TypeOK, Checkpoint
  <2>3. IdsInOrder'
    BY <1>t DEF IdsInOrder, Present, AcquireInv, Acquiring, TypeOK
  <2>4. (OpenInv /\ AcquireInv /\ ReconcileInv /\ ResultInv)'
    BY <1>t
    DEF OpenInv, AcquireInv, ReconcileInv, ResultInv, Acquiring, Reconciling, TypeOK,
        Checkpoint
  <2> QED BY <2>1, <2>2, <2>3, <2>4
<1>2. CASE FailAcquisition
  <2>1. /\ pc = "fail" /\ result' # "ok" /\ pc' \in {"idle", "block"} /\ id' = id
        /\ req' = req
        /\ result' \in {"none", "ok", "blocked", "failed", "refused"}
        /\ UNCHANGED <<files, created, staged, catalog, crashes>>
        /\ status' = [status EXCEPT ![id] = IF created[id] = 0 THEN @ ELSE "FAILED"]
    BY <1>2 DEF FailAcquisition, Return, Continue, ResultInv, TypeOK
  <2>2. /\ art' \in Checkpoint
        /\ pc' = "block" => /\ art'.state = "blocked" /\ art'.verdict = art.verdict
                            /\ art'.error = art.error
    BY <1>2, <1>t, NoFileType DEF FailAcquisition, Return, Continue, Checkpoint
  <2>3. TypeOK'
    BY <1>t, <2>1, <2>2 DEF TypeOK, Stages
  <2>4. \A b \in Attempts : FileInv(b)'
    BY <1>t, <2>1 DEF FileInv, Present, AcquireInv, TypeOK
  <2>5. IdsInOrder'
    BY <2>1 DEF IdsInOrder, Present
  <2>6. (OpenInv /\ AcquireInv /\ ReconcileInv /\ ResultInv)'
    BY <2>1, <2>2
    DEF OpenInv, AcquireInv, ReconcileInv, ResultInv, Acquiring, Reconciling
  <2> QED BY <2>3, <2>4, <2>5, <2>6
<1>3. CASE SaveBlocked
  <2>1. /\ pc \in {"block", "abandon", "rebuff"} /\ pc' = "idle" /\ id' = id /\ req' = req
        /\ art' = NoFile /\ result' \in {"failed", "blocked"}
        /\ files' = [files EXCEPT ![id] = art]
        /\ UNCHANGED <<created, status, staged, catalog, crashes>>
    BY <1>3 DEF SaveBlocked, Save, Return, store
  <2>2. TypeOK'
    BY <1>t, <2>1, NoFileType DEF TypeOK, Stages
  <2>3. \A b \in Attempts : FileInv(b)'
    BY <1>t, <2>1
    DEF FileInv, Present, AcquireInv, Acquiring, ReconcileInv, Reconciling, TypeOK
  <2>4. IdsInOrder'
    BY <1>t, <2>1
    DEF IdsInOrder, Present, AcquireInv, Acquiring, ReconcileInv, Reconciling, TypeOK
  <2>5. (OpenInv /\ AcquireInv /\ ReconcileInv /\ ResultInv)'
    BY <2>1 DEF OpenInv, AcquireInv, ReconcileInv, ResultInv, Acquiring, Reconciling
  <2> QED BY <2>2, <2>3, <2>4, <2>5
<1> QED BY <1>1, <1>2, <1>3

\* Admitted rows that survive in full number survive in full: the count the code
\* compares is enough because staging never holds a row that was not admitted.
LEMMA CountIsEnough ==
    ASSUME NEW A \in SUBSET Rows, NEW S \in SUBSET A,
           Cardinality(S) = Cardinality(A)
    PROVE  S = A
<1>1. IsFiniteSet(A)
  BY LimitsOK, FS_Subset
<1> QED BY <1>1, FS_Subset

\* The reconcile transaction and the two writes that record how it ended.
LEMMA ReconcileStepInv ==
    ASSUME IInv,
           \/ ReconcileCommits \/ ReconcileFails \/ FinalizeSuccess
           \/ SaveCompleted \/ FailReconciliation
    PROVE  IInv'
<1> USE DEF IInv
<1>t. id \in Attempts /\ files[id] \in Checkpoint /\ FileInv(id) /\ art \in Checkpoint
  BY DEF TypeOK
<1>1. CASE ReconcileCommits \/ ReconcileFails
  <2>1. /\ pc = "reconcile" /\ pc' \in {"settle", "regret"}
        /\ UNCHANGED <<files, created, status, staged, art, id, req, result, crashes>>
        /\ \/ catalog' = catalog /\ pc' = "regret"
           \/ catalog' = [catalog EXCEPT ![id] = @ \cup staged[id]]
    BY <1>1 DEF ReconcileCommits, ReconcileFails, Promote, Continue
  <2>2. /\ staged[id] \subseteq art.admitted /\ art.admitted \in SUBSET Rows
        /\ files[id].verdict = "ok" /\ art.admitted = files[id].admitted
    BY <1>t, <2>1 DEF FileInv, ReconcileInv, Reconciling, Checkpoint
  <2>3. pc' = "settle" => staged[id] = art.admitted /\ catalog'[id] = catalog[id] \cup staged[id]
    <3>1. CASE ReconcileFails
      BY <3>1 DEF ReconcileFails, Continue
    <3>2. CASE ReconcileCommits /\ CountMatches(staged[id])
      <4>1. staged[id] = art.admitted
        BY <2>2, <3>2, CountIsEnough DEF CountMatches
      <4>2. catalog'[id] = catalog[id] \cup staged[id]
        BY <1>t, <3>2 DEF ReconcileCommits, Promote, TypeOK
      <4> QED BY <4>1, <4>2
    <3>3. CASE ReconcileCommits /\ ~CountMatches(staged[id])
      BY <3>3 DEF ReconcileCommits, Continue
    <3> QED BY <1>1, <3>1, <3>2, <3>3
  <2>4. TypeOK'
    BY <1>t, <2>1 DEF TypeOK, Stages
  <2>5. \A b \in Attempts : FileInv(b)'
    BY <1>t, <2>1, <2>2 DEF FileInv, Present, TypeOK
  <2>6. IdsInOrder'
    BY <2>1 DEF IdsInOrder, Present
  <2>7. (OpenInv /\ AcquireInv /\ ResultInv)'
    BY <2>1 DEF OpenInv, AcquireInv, ResultInv, Acquiring
  <2>8. ReconcileInv'
    BY <2>1, <2>3 DEF ReconcileInv, Reconciling
  <2> QED BY <2>4, <2>5, <2>6, <2>7, <2>8
<1>2. CASE FinalizeSuccess \/ FailReconciliation
  <2>1. /\ \/ pc = "settle" /\ pc' = "complete"
           \/ pc = "regret" /\ pc' = "rebuff"
        /\ UNCHANGED <<files, created, staged, catalog, id, req, result, crashes>>
        /\ status' = [status EXCEPT ![id] = IF pc = "settle" THEN "SUCCESS" ELSE "FAILED"]
    BY <1>2 DEF FinalizeSuccess, FailReconciliation, Continue
  <2>2. /\ art' \in Checkpoint /\ art'.verdict = art.verdict
        /\ art'.admitted = art.admitted
        /\ pc' = "complete" => art'.state = "completed" /\ art'.error = "none"
        /\ pc' = "rebuff" => art'.state = "blocked"
    BY <1>2, <1>t DEF FinalizeSuccess, FailReconciliation, Continue, Checkpoint
  <2>3. TypeOK'
    BY <1>t, <2>1, <2>2 DEF TypeOK, Stages
  <2>4. \A b \in Attempts : FileInv(b)'
    BY <1>t, <2>1 DEF FileInv, Present, TypeOK, ReconcileInv, Reconciling
  <2>5. IdsInOrder'
    BY <2>1 DEF IdsInOrder, Present
  <2>6. (OpenInv /\ AcquireInv /\ ResultInv)'
    BY <2>1 DEF OpenInv, AcquireInv, ResultInv, Acquiring
  <2>7. ReconcileInv'
    BY <1>t, <2>1, <2>2 DEF ReconcileInv, Reconciling, TypeOK
  <2> QED BY <2>3, <2>4, <2>5, <2>6, <2>7
<1>3. CASE SaveCompleted
  <2>1. /\ pc = "complete" /\ pc' = "idle" /\ id' = id /\ req' = req
        /\ art' = NoFile /\ result' \in {"failed", "ok"}
        /\ files' = [files EXCEPT ![id] = art]
        /\ UNCHANGED <<created, status, staged, catalog, crashes>>
    BY <1>3 DEF SaveCompleted, Save, Return, store
  <2>2. TypeOK'
    BY <1>t, <2>1, NoFileType DEF TypeOK, Stages
  <2>3. \A b \in Attempts : FileInv(b)'
    BY <1>t, <2>1 DEF FileInv, Present, ReconcileInv, Reconciling, TypeOK
  <2>4. IdsInOrder'
    BY <1>t, <2>1 DEF IdsInOrder, Present, ReconcileInv, Reconciling, TypeOK
  <2>5. (OpenInv /\ AcquireInv /\ ReconcileInv /\ ResultInv)'
    BY <1>t, <2>1
    DEF OpenInv, AcquireInv, ReconcileInv, ResultInv, Acquiring, Reconciling, TypeOK
  <2> QED BY <2>2, <2>3, <2>4, <2>5
<1> QED BY <1>1, <1>2, <1>3

\* Process deaths, and the database losing or deleting staging rows.
LEMMA EnvironmentInv ==
    ASSUME IInv, Crash \/ LoseStaging \/ Prune
    PROVE  IInv'
<1> USE DEF IInv
<1>1. CASE Crash
  <2>1. /\ pc' = "idle" /\ result' = "none" /\ art' = NoFile
        /\ crashes' = crashes + 1 /\ crashes < MaxCrashes
        /\ UNCHANGED <<files, created, status, staged, catalog, id, req>>
    BY <1>1 DEF Crash, Return, store
  <2>2. TypeOK'
    BY <2>1, NoFileType, LimitsOK DEF TypeOK, Stages
  <2>3. (\A b \in Attempts : FileInv(b))' /\ IdsInOrder'
    BY <2>1 DEF FileInv, IdsInOrder, Present
  <2>4. (OpenInv /\ AcquireInv /\ ReconcileInv /\ ResultInv)'
    BY <2>1 DEF OpenInv, AcquireInv, ReconcileInv, ResultInv, Acquiring, Reconciling
  <2> QED BY <2>2, <2>3, <2>4
<1>2. CASE LoseStaging \/ Prune
  <2>1. /\ staged' \in [Attempts -> SUBSET Rows]
        /\ \A b \in Attempts : staged'[b] \subseteq staged[b]
    BY <1>2 DEF LoseStaging, Prune, TypeOK
  <2>2. UNCHANGED <<files, created, status, catalog, pc, id, req, art, result, crashes>>
    BY <1>2 DEF LoseStaging, Prune
  <2>3. TypeOK'
    BY <2>1, <2>2 DEF TypeOK
  <2>4. (\A b \in Attempts : FileInv(b))' /\ IdsInOrder'
    BY <2>1, <2>2 DEF FileInv, IdsInOrder, Present
  <2>5. (OpenInv /\ ReconcileInv /\ ResultInv)'
    BY <2>2 DEF OpenInv, ReconcileInv, ResultInv, Reconciling, Present
  <2>6. AcquireInv'
    BY <2>1, <2>2 DEF AcquireInv, Acquiring, TypeOK
  <2> QED BY <2>3, <2>4, <2>5, <2>6
<1> QED BY <1>1, <1>2

\* A step that changes nothing keeps the invariant.
LEMMA StutterInv == ASSUME IInv, UNCHANGED vars PROVE IInv'
BY DEF IInv, vars, store, TypeOK, FileInv, IdsInOrder, OpenInv, AcquireInv,
       ReconcileInv, ResultInv, Acquiring, Reconciling, Present

\* The invariant is inductive.
LEMMA NextInv == IInv /\ [Next]_vars => IInv'
<1> SUFFICES ASSUME IInv, [Next]_vars PROVE IInv'
  OBVIOUS
<1>1. CASE Refresh \/ Retry
  <2>1. PICK a \in Attempts : \E c \in Contracts :
          Run(a, c) /\ (Picked(a) \/ Present(a))
    BY <1>1 DEF Refresh, Retry
  <2>2. PICK c \in Contracts : Run(a, c) /\ (Picked(a) \/ Present(a))
    BY <2>1
  <2>3. Fresh(a, c) => Picked(a)
    BY <2>2 DEF Fresh
  <2> QED BY <2>2, <2>3, RunInv
<1>2. CASE Step
  BY <1>2, AcquireStepInv, OutcomeStepInv, ReconcileStepInv DEF Step
<1>3. CASE Crash \/ LoseStaging \/ Prune
  BY <1>3, EnvironmentInv
<1>4. CASE UNCHANGED vars
  BY <1>4, StutterInv
<1> QED BY <1>1, <1>2, <1>3, <1>4 DEF Next

\* The invariant holds throughout.
LEMMA Invariance == Spec => []IInv
<1> QED BY InitInv, NextInv, PTL DEF Spec

-----------------------------------------------------------------------------
\* Every variable keeps its type.
THEOREM TypeCorrect == Spec => []TypeOK
<1>1. IInv => TypeOK
  BY DEF IInv
<1> QED BY <1>1, Invariance, PTL

\* A batch id queries its store at most once: the acquiring checkpoint is in the
\* file before the run is created, and a file that exists never starts afresh.
THEOREM OneAcquisitionPerIdCorrect == Spec => []OneAcquisitionPerId
<1>1. IInv => OneAcquisitionPerId
  BY DEF IInv, FileInv, OneAcquisitionPerId
<1> QED BY <1>1, Invariance, PTL

\* Only admitted rows of an acquisition whose lists agreed are ever promoted.
THEOREM OnlyAdmittedIsPromotedCorrect == Spec => []OnlyAdmittedIsPromoted
<1>1. IInv => OnlyAdmittedIsPromoted
  BY DEF IInv, FileInv, OnlyAdmittedIsPromoted
<1> QED BY <1>1, Invariance, PTL

\* A run recorded as SUCCESS has every admitted row in the catalog.
THEOREM SuccessIsPromotedCorrect == Spec => []SuccessIsPromoted
<1>1. IInv => SuccessIsPromoted
  BY DEF IInv, FileInv, SuccessIsPromoted
<1> QED BY <1>1, Invariance, PTL

\* A batch counted as ok is admitted, recorded and promoted.
THEOREM OkIsPromotedCorrect == Spec => []OkIsPromoted
<1>1. IInv => OkIsPromoted
  BY DEF IInv, TypeOK, FileInv, ResultInv, OkIsPromoted
<1> QED BY <1>1, Invariance, PTL

\* Once an attempt of the day completed, its checkpoint is final and no attempt
\* creates a run: the process never writes over a completed file, and it opens
\* an acquisition only when no attempt of the batch has completed.
THEOREM CompletedIsFinalCorrect == Spec => CompletedIsFinal
<1>1. ASSUME IInv, [Next]_vars, NEW a \in Attempts, files[a].state = "completed"
      PROVE  files'[a] = files[a] /\ created' = created
  <2>t. id \in Attempts /\ files \in [Attempts -> Checkpoint]
    BY <1>1 DEF IInv, TypeOK
  <2>1. CASE Refresh \/ Retry
    BY <1>1, <2>1 DEF Refresh, Retry, Run, Fresh, Refuse, Replay, Abandon, Resume,
                      Call, store
  <2>2. CASE Step
    <3>1. pc # "idle" => pc = "create" \/ pc = "fail" \/ id # a
      BY <1>1, <2>t
      DEF IInv, TypeOK, Stages, OpenInv, AcquireInv, ReconcileInv, Acquiring,
          Reconciling
    <3>2. pc \notin {"open", "create"}
      BY <1>1 DEF IInv, OpenInv
    <3> QED
      BY <1>1, <2>2, <2>t, <3>1, <3>2
      DEF Step, SaveAcquiring, CreateRun, CreateRunFails, StageSome, Stage,
          SaveOutcome, FailAcquisition, SaveBlocked, ReconcileCommits,
          ReconcileFails, FinalizeSuccess, SaveCompleted, FailReconciliation,
          Save, Continue, Return, store
  <2>3. CASE Crash \/ LoseStaging \/ Prune
    BY <2>3 DEF Crash, LoseStaging, Prune, store
  <2>4. CASE UNCHANGED vars
    BY <2>4 DEF vars, store
  <2> QED BY <1>1, <2>1, <2>2, <2>3, <2>4 DEF Next
<1>2. IInv /\ [Next]_vars =>
        [\A a \in Attempts : files[a].state = "completed" =>
           files'[a] = files[a] /\ created' = created]_vars
  BY <1>1
<1> QED BY <1>2, Invariance, PTL DEF Spec, CompletedIsFinal

-----------------------------------------------------------------------------
\* The refinement.  The checkpoint's state and the count of runs decide what the
\* abstract batch sees; a store of rows, checkpoint or status that none of the
\* three mapped functions shows is a stutter.

\* At first nothing is asked, stored or said.
LEMMA PromiseInit == Init => Promise!Init
<1> SUFFICES ASSUME Init PROVE Promise!Init
  OBVIOUS
<1>1. \A a \in Attempts : StateOf(a) = "unused" /\ ~IsWhole(a)
  BY NoFileType DEF Init, StateOf, IsWhole
<1> QED BY <1>1 DEF Init, Promise!Init

\* A call starts: it says something or nothing.
LEMMA PromiseCall ==
    ASSUME IInv, NEW a \in Attempts, NEW c \in Contracts, Run(a, c)
    PROVE  Promise!Next
<1>0. UNCHANGED <<files, created, catalog>>
  BY DEF Run, Fresh, Refuse, Replay, Abandon, Resume, Call, store
<1>1. result' \in {"none", "ok", "blocked", "refused"}
  BY DEF Run, Fresh, Refuse, Replay, Abandon, Resume, Call
<1>2. result' = "ok" => StateOf(a) = "delivered"
  BY DEF Run, Fresh, Refuse, Replay, Abandon, Resume, Call, StateOf
<1>3. PICK r \in Promise!Results : r = result'
  BY <1>1 DEF Promise!Results
<1>4. \A b \in Attempts : StateOf(b)' = StateOf(b) /\ IsWhole(b)' = IsWhole(b)
  BY <1>0 DEF StateOf, IsWhole
<1>5. Promise!Say(r)
  BY <1>2, <1>3, <1>4 DEF Promise!Say, Promise!Delivered
<1> QED BY <1>5 DEF Promise!Next

\* A run is created: the store is asked, for the first time under this id and
\* with nothing delivered.
LEMMA PromiseAsk ==
    ASSUME IInv, CreateRun, NEW i \in Attempts, i = id
    PROVE  Promise!Next
<1>1. /\ created \in [Attempts -> Nat] /\ created[i] = 0
      /\ \A b \in Attempts : files[b].state # "completed"
  BY DEF IInv, TypeOK, CreateRun, AcquireInv, OpenInv
<1>2. /\ created' = [created EXCEPT ![i] = 1]
      /\ UNCHANGED <<files, catalog, result>>
  BY <1>1 DEF CreateRun, Continue
<1>3. /\ StateOf(i) = "unused"
      /\ \A b \in Attempts : StateOf(b) # "delivered"
      /\ \A b \in Attempts : StateOf(b)' = IF b = i THEN "asked" ELSE StateOf(b)
      /\ \A b \in Attempts : IsWhole(b)' = IsWhole(b)
  BY <1>1, <1>2 DEF StateOf, IsWhole
<1>4. Promise!Ask(i)
  BY <1>2, <1>3 DEF Promise!Ask, Promise!Delivered
<1> QED BY <1>4 DEF Promise!Next

\* The steps that change neither file nor catalog nor run, but perhaps the result.
LEMMA PromiseSay ==
    ASSUME UNCHANGED <<files, created, catalog>>,
           result' \in {"none", "blocked", "failed"} \/ result' = result
    PROVE  Promise!Next \/ UNCHANGED Promise!vars
<1>1. \A b \in Attempts : StateOf(b)' = StateOf(b) /\ IsWhole(b)' = IsWhole(b)
  BY DEF StateOf, IsWhole
<1>2. CASE result' = result
  BY <1>1, <1>2 DEF Promise!vars
<1>3. CASE result' \in {"none", "blocked", "failed"}
  <2>1. PICK r \in Promise!Results : r = result' /\ r # "ok"
    BY <1>3 DEF Promise!Results
  <2>2. Promise!Say(r)
    BY <1>1, <2>1 DEF Promise!Say
  <2> QED BY <2>2 DEF Promise!Next
<1> QED BY <1>2, <1>3

\* A checkpoint that is not completed is replaced by one that is not, with the
\* same verdict and rows or before anything was promoted: at most something is said.
LEMMA PromiseSave ==
    ASSUME IInv, SaveAcquiring \/ SaveOutcome \/ SaveBlocked,
           NEW i \in Attempts, i = id
    PROVE  Promise!Next \/ UNCHANGED Promise!vars
<1>t. files \in [Attempts -> Checkpoint] /\ FileInv(i)
  BY DEF IInv, TypeOK
<1>1. /\ files' = [files EXCEPT ![i] = art]
      /\ UNCHANGED <<created, catalog>>
      /\ result' \in {"blocked", "failed"} \/ result' = result
      /\ pc \in {"open", "record", "block", "abandon", "rebuff"}
  BY DEF SaveAcquiring, SaveOutcome, SaveBlocked, Save, Continue, Return, store
<1>2. files[i].state # "completed" /\ art.state # "completed"
  BY <1>1 DEF IInv, OpenInv, AcquireInv, ReconcileInv, Acquiring, Reconciling
<1>3. IsWhole(i)' = IsWhole(i)
  <2>1. CASE pc = "rebuff"
    <3>1. /\ files[i].verdict = "ok" /\ art.verdict = "ok"
          /\ art.admitted = files[i].admitted
      BY <2>1 DEF IInv, ReconcileInv, Reconciling
    <3> QED BY <1>1, <1>t, <3>1 DEF IsWhole
  <2>2. CASE pc # "rebuff"
    <3>1. files[i].verdict # "ok"
      BY <1>1, <1>t, <2>2
      DEF IInv, OpenInv, AcquireInv, Acquiring, FileInv
    <3>2. catalog[i] = {}
      BY <1>t, <3>1 DEF FileInv
    <3>3. art.verdict = "ok" => art.admitted # {}
      BY <1>1, <2>2 DEF IInv, OpenInv, AcquireInv, Acquiring
    <3> QED BY <1>1, <1>t, <3>1, <3>2, <3>3 DEF IsWhole
  <2> QED BY <2>1, <2>2
<1>4. \A b \in Attempts : StateOf(b)' = StateOf(b) /\ IsWhole(b)' = IsWhole(b)
  <2>1. ASSUME NEW b \in Attempts, b # i
        PROVE  files'[b] = files[b]
    BY <1>1, <1>t, <2>1
  <2>2. files'[i] = art
    BY <1>1, <1>t
  <2> QED BY <1>1, <1>2, <1>3, <2>1, <2>2 DEF StateOf, IsWhole
<1>5. CASE result' = result
  BY <1>4, <1>5 DEF Promise!vars
<1>6. CASE result' \in {"blocked", "failed"}
  <2>1. PICK r \in Promise!Results : r = result' /\ r # "ok"
    BY <1>6 DEF Promise!Results
  <2>2. Promise!Say(r)
    BY <1>4, <2>1 DEF Promise!Say
  <2> QED BY <2>2 DEF Promise!Next
<1> QED BY <1>1, <1>5, <1>6

\* The transaction: either the id's rows are all there now, or nothing to be seen.
LEMMA PromiseFill ==
    ASSUME IInv, ReconcileCommits \/ ReconcileFails, NEW i \in Attempts, i = id
    PROVE  Promise!Next \/ UNCHANGED Promise!vars
<1>t. files \in [Attempts -> Checkpoint] /\ catalog \in [Attempts -> SUBSET Rows] /\ FileInv(i)
  BY DEF IInv, TypeOK
<1>1. /\ UNCHANGED <<files, created, result>>
      /\ pc = "reconcile"
      /\ catalog' = catalog \/ catalog' = [catalog EXCEPT ![i] = @ \cup staged[i]]
  BY DEF ReconcileCommits, ReconcileFails, Promote, Continue
<1>2. StateOf(i) = "asked"
  BY <1>1, <1>t DEF IInv, ReconcileInv, Reconciling, FileInv, StateOf
<1>3. /\ \A b \in Attempts : StateOf(b)' = StateOf(b)
      /\ \A b \in Attempts : b # i => IsWhole(b)' = IsWhole(b)
      /\ IsWhole(i) => IsWhole(i)'
  BY <1>1, <1>t DEF StateOf, IsWhole
<1>4. CASE IsWhole(i)' = IsWhole(i)
  BY <1>1, <1>3, <1>4 DEF Promise!vars
<1>5. CASE IsWhole(i)' /\ ~IsWhole(i)
  <2>1. {b \in Attempts : IsWhole(b)'} = {b \in Attempts : IsWhole(b)} \cup {i}
    BY <1>3, <1>5
  <2>2. Promise!Fill(i)
    BY <1>1, <1>2, <1>3, <2>1 DEF Promise!Fill
  <2> QED BY <2>2 DEF Promise!Next
<1>6. IsWhole(i) \in BOOLEAN /\ IsWhole(i)' \in BOOLEAN
  BY DEF IsWhole
<1> QED BY <1>3, <1>4, <1>5, <1>6

\* The completed checkpoint is saved: a delivery.
LEMMA PromiseDeliver ==
    ASSUME IInv, SaveCompleted, NEW i \in Attempts, i = id
    PROVE  Promise!Next
<1>t. files \in [Attempts -> Checkpoint] /\ FileInv(i)
  BY DEF IInv, TypeOK
<1>1. /\ files' = [files EXCEPT ![i] = art]
      /\ UNCHANGED <<created, catalog>>
      /\ result' \in {"failed", "ok"}
      /\ pc = "complete"
  BY DEF SaveCompleted, Save, Return, store
<1>2. /\ files[i].state # "completed" /\ art.state = "completed"
      /\ files[i].verdict = "ok" /\ art.verdict = "ok" /\ art.admitted = files[i].admitted
      /\ status[i] = "SUCCESS"
  BY <1>1 DEF IInv, ReconcileInv, Reconciling
<1>3. StateOf(i) = "asked" /\ IsWhole(i)
  BY <1>2, <1>t DEF FileInv, StateOf, IsWhole
<1>4. /\ \A b \in Attempts : StateOf(b)' = IF b = i THEN "delivered" ELSE StateOf(b)
      /\ \A b \in Attempts : IsWhole(b)' = IsWhole(b)
  BY <1>1, <1>2, <1>t DEF StateOf, IsWhole
<1>5. PICK r \in Promise!Results : r = result'
  BY <1>1 DEF Promise!Results
<1>6. Promise!Deliver(i, r)
  BY <1>3, <1>4, <1>5 DEF Promise!Deliver
<1> QED BY <1>6 DEF Promise!Next

\* Every step of a batch is a step of the promise or shows nothing of it.
LEMMA PromiseNext == IInv /\ [Next]_vars => [Promise!Next]_(Promise!vars)
<1> SUFFICES ASSUME IInv, [Next]_vars PROVE Promise!Next \/ UNCHANGED Promise!vars
  OBVIOUS
<1>t. id \in Attempts
  BY DEF IInv, TypeOK
<1>1. CASE Refresh \/ Retry
  <2>1. PICK a \in Attempts : \E c \in Contracts : Run(a, c)
    BY <1>1 DEF Refresh, Retry
  <2>2. PICK c \in Contracts : Run(a, c)
    BY <2>1
  <2> QED BY <2>2, PromiseCall
<1>2. PICK i \in Attempts : i = id
  BY <1>t
<1>3. CASE CreateRun
  BY <1>2, <1>3, PromiseAsk
<1>4. CASE SaveAcquiring \/ SaveOutcome \/ SaveBlocked
  BY <1>2, <1>4, PromiseSave
<1>5. CASE ReconcileCommits \/ ReconcileFails
  BY <1>2, <1>5, PromiseFill
<1>6. CASE SaveCompleted
  BY <1>2, <1>6, PromiseDeliver
<1>7. CASE CreateRunFails \/ StageSome \/ FailAcquisition \/ FinalizeSuccess
             \/ FailReconciliation \/ Crash \/ LoseStaging \/ Prune \/ UNCHANGED vars
  <2>1. /\ UNCHANGED <<files, created, catalog>>
        /\ result' \in {"none", "blocked", "failed"} \/ result' = result
    BY <1>7 DEF CreateRunFails, StageSome, Stage, FailAcquisition, FinalizeSuccess,
                FailReconciliation, Crash, LoseStaging, Prune, Continue, Return, vars, store
  <2> QED BY <2>1, PromiseSay
<1> QED BY <1>1, <1>3, <1>4, <1>5, <1>6, <1>7 DEF Next, Step

\* The batch implements its promise, for any number of ids, rows, contracts,
\* crashes and losses.
THEOREM KeepsPromiseCorrect == Spec => KeepsPromise
<1>1. Init /\ [][Next]_vars => Promise!Init /\ [][Promise!Next]_(Promise!vars)
  BY PromiseInit, PromiseNext, Invariance, PTL DEF Spec
<1> QED BY <1>1 DEF Spec, KeepsPromise, Promise!Spec
=============================================================================
