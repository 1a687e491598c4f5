----------------------------- MODULE CloudRefresh -----------------------------
(***************************************************************************)
(* The published catalog and the database behind it:                       *)
(* .github/workflows/daily-refresh.yml and scripts/db-state.sh.            *)
(*                                                                         *)
(* Between two runs the database exists only as dated dumps attached to a  *)
(* release, the site only as the snapshot committed to master.  A run      *)
(* restores the newest dump, refreshes it, uploads it under today's date,  *)
(* prunes old dumps, commits the snapshot and posts the digest; it may     *)
(* fail or be cancelled between any two of these.  The content of a        *)
(* database or a snapshot is the set of refreshes it has absorbed; what a  *)
(* refresh does inside is the subject of CatalogBatch and Reconcile.       *)
(*                                                                         *)
(* The snapshot carries the instant it was generated, so a refresh always  *)
(* changes it and the commit step always has something to publish.         *)
(***************************************************************************)
EXTENDS Naturals, FiniteSets

CONSTANTS
    Runners,       \* machines a run may get
    KeepAssets,    \* dumps that survive a prune (DB_STATE_KEEP, 14)
    MaxDay,        \* bound: UTC days in one behaviour
    MaxRuns        \* bound: runs started in one behaviour

ASSUME BoundsOK ==
    /\ KeepAssets \in Nat \ {0, 1}
    /\ MaxDay \in Nat \ {0}
    /\ MaxRuns \in Nat

VARIABLES
    day,       \* today, UTC
    fired,     \* cron triggers fired today
    pending,   \* the run waiting for the concurrency group
    jobs,      \* the run of each machine
    runs,      \* runs started so far; a run's number names its refresh
    assets,    \* dumps of the db-state release
    master,    \* the committed snapshot and the days with a refresh commit
    digest,    \* the snapshot the last posted digest told of
    withheld   \* refreshes of dry runs and of runs a gate stopped

vars == <<day, fired, pending, jobs, runs, assets, master, digest, withheld>>

published == <<assets, master, digest>>

Kinds == {"schedule", "dispatch", "dry run"}
Stages == {"guard", "restore", "refresh", "upload", "prune", "commit", "post"}

Asset == [day : 0 .. MaxDay, state : SUBSET Nat]
Job == [kind : Kinds, stage : Stages, id : Nat, db : SUBSET Nat]
NoJob == [kind |-> "none", stage |-> "none", id |-> 0, db |-> {}]
Idle(r) == jobs[r].stage = "none"

\* The first dump was seeded by hand before the first day, with refresh 0 in it.
Init ==
    /\ day = 1 /\ fired = 0 /\ pending = "none" /\ runs = 0
    /\ jobs = [r \in Runners |-> NoJob]
    /\ assets = {[day |-> 0, state |-> {0}]}
    /\ master = [snapshot |-> {0}, days |-> {}]
    /\ digest = {} /\ withheld = {}

-----------------------------------------------------------------------------
(* Triggers and the concurrency group.                                      *)

NextDay ==
    /\ day < MaxDay
    /\ day' = day + 1
    /\ fired' = 0
    /\ UNCHANGED <<pending, jobs, runs, published, withheld>>

\* Two cron windows a day, and explicit dispatches at any time.  A new run
\* takes the place of the one already waiting.
Trigger(kind) ==
    /\ kind = "schedule" => fired < 2
    /\ fired' = IF kind = "schedule" THEN fired + 1 ELSE fired
    /\ pending' = kind
    /\ UNCHANGED <<day, jobs, runs, published, withheld>>

\* Mutant: the workflow has no concurrency group.
GroupIgnored == TRUE

\* One run at a time: cancel-in-progress is false.
GroupFree == \A r \in Runners : Idle(r)

Begin(r) ==
    /\ Idle(r)
    /\ GroupFree
    /\ pending # "none"
    /\ runs < MaxRuns
    /\ runs' = runs + 1
    /\ jobs' = [jobs EXCEPT ![r] =
                  [kind |-> pending, stage |-> "guard", id |-> runs', db |-> {}]]
    /\ pending' = "none"
    /\ UNCHANGED <<day, fired, published, withheld>>

-----------------------------------------------------------------------------
(* The steps of a run.                                                      *)

At(r, stage) == jobs[r].stage = stage
Goto(r, stage) == jobs' = [jobs EXCEPT ![r].stage = stage]
End(r) == jobs' = [jobs EXCEPT ![r] = NoJob]

\* Mutant: the guard finds nothing.
AlreadyDoneNever(r) == FALSE

\* The guard looks for today's commit; only a scheduled run asks.
AlreadyDone(r) == jobs[r].kind = "schedule" /\ day \in master.days

Guard(r) ==
    /\ At(r, "guard")
    /\ IF AlreadyDone(r) THEN End(r) ELSE Goto(r, "restore")
    /\ UNCHANGED <<day, fired, pending, runs, published, withheld>>

Newest(a) == a \in assets /\ \A b \in assets : b.day <= a.day

\* download picks the newest dated asset; without one the run fails.
Restore(r) ==
    /\ At(r, "restore")
    /\ \E a \in assets : /\ Newest(a)
                         /\ jobs' = [jobs EXCEPT ![r].stage = "refresh", ![r].db = a.state]
    /\ UNCHANGED <<day, fired, pending, runs, published, withheld>>

\* refresh:catalog writes the restored database and the working tree; a dry
\* run ends here.
Refresh(r) ==
    /\ At(r, "refresh")
    /\ jobs[r].kind # "dry run"
    /\ jobs' = [jobs EXCEPT ![r].stage = "upload", ![r].db = @ \cup {jobs[r].id}]
    /\ UNCHANGED <<day, fired, pending, runs, published, withheld>>

\* Mutant: the steps that follow run although a gate failed.
RefreshWithheldGoesOn(r) ==
    /\ At(r, "refresh")
    /\ withheld' = withheld \cup {jobs[r].id}
    /\ jobs' = [jobs EXCEPT ![r].stage = "upload", ![r].db = @ \cup {jobs[r].id}]
    /\ UNCHANGED <<day, fired, pending, runs, published>>

RefreshWithheld(r) ==
    /\ At(r, "refresh")
    /\ withheld' = withheld \cup {jobs[r].id}
    /\ End(r)
    /\ UNCHANGED <<day, fired, pending, runs, published>>

OtherDays == {a \in assets : a.day # day}

Upload(r) ==
    /\ At(r, "upload")
    /\ assets' = OtherDays \cup {[day |-> day, state |-> jobs[r].db]}
    /\ Goto(r, "prune")
    /\ UNCHANGED <<day, fired, pending, runs, master, digest, withheld>>

\* --clobber deletes the asset of the same name before it uploads the new one:
\* an upload that fails or is cancelled in between has lost the day's dump (one
\* that fails before it is a Fail).
UploadFails(r) ==
    /\ At(r, "upload")
    /\ assets' = OtherDays
    /\ End(r)
    /\ UNCHANGED <<day, fired, pending, runs, master, digest, withheld>>

Since(d) == {a \in assets : a.day >= d}

Newer(a) == {b \in assets : b.day > a.day}

\* Mutant: the prune deletes one too many.
KeptLess == {a \in assets : Cardinality(Newer(a)) + 1 < KeepAssets}

\* The excess is counted first, and deleted oldest first.
Kept == {a \in assets : Cardinality(Newer(a)) < KeepAssets}

\* Mutant: the digest goes out before the commit.
PruneThenPost(r) ==
    /\ At(r, "prune")
    /\ assets' = Kept
    /\ Goto(r, "post")
    /\ UNCHANGED <<day, fired, pending, runs, master, digest, withheld>>

Prune(r) ==
    /\ At(r, "prune")
    /\ assets' = Kept
    /\ Goto(r, "commit")
    /\ UNCHANGED <<day, fired, pending, runs, master, digest, withheld>>

PruneFails(r) ==
    /\ At(r, "prune")
    /\ \E a \in assets : Kept \subseteq Since(a.day) /\ assets' = Since(a.day)
    /\ End(r)
    /\ UNCHANGED <<day, fired, pending, runs, master, digest, withheld>>

\* The commit is rebased onto whatever master has become and pushed; its
\* subject carries the date of this moment.
Commit(r) ==
    /\ At(r, "commit")
    /\ master' = [snapshot |-> jobs[r].db, days |-> master.days \cup {day}]
    /\ Goto(r, "post")
    /\ UNCHANGED <<day, fired, pending, runs, assets, digest, withheld>>

\* Only a scheduled run posts the digest, and a failure to post is ignored.
Post(r) ==
    /\ At(r, "post")
    /\ digest' = IF jobs[r].kind = "schedule" THEN jobs[r].db ELSE digest
    /\ End(r)
    /\ UNCHANGED <<day, fired, pending, runs, assets, master, withheld>>

\* A step fails (three refused pushes included), times out, or the run is
\* cancelled.
Fail(r) ==
    /\ ~Idle(r)
    /\ End(r)
    /\ UNCHANGED <<day, fired, pending, runs, published, withheld>>

Step(r) ==
    \/ Guard(r) \/ Restore(r) \/ Refresh(r) \/ RefreshWithheld(r)
    \/ Upload(r) \/ UploadFails(r) \/ Prune(r) \/ PruneFails(r)
    \/ Commit(r) \/ Post(r)

Next ==
    \/ NextDay
    \/ \E kind \in Kinds : Trigger(kind)
    \/ \E r \in Runners : Begin(r) \/ Step(r) \/ Fail(r)

Spec == Init /\ [][Next]_vars

-----------------------------------------------------------------------------
(* Properties.                                                              *)

TypeOK ==
    /\ day \in 1 .. MaxDay
    /\ fired \in 0 .. 2
    /\ pending \in Kinds \cup {"none"}
    /\ jobs \in [Runners -> Job \cup {NoJob}]
    /\ runs \in 0 .. MaxRuns
    /\ assets \in SUBSET Asset
    /\ \A a, b \in assets : a.day = b.day => a = b
    /\ master \in [snapshot : SUBSET Nat, days : SUBSET (1 .. MaxDay)]
    /\ digest \in SUBSET Nat
    /\ withheld \in SUBSET Nat

\* The newest dump, which the next run restores, holds every refresh the
\* committed snapshot shows.
PublishedIsStored ==
    \E a \in assets : Newest(a) /\ master.snapshot \subseteq a.state

\* "The dump is uploaded before the push, so database state and snapshot never
\* diverge" (docs/RUNBOOK.md): what a run commits is stored at that moment, and
\* stays so until an upload fails after it deleted that day's dump; no prune,
\* refused push, cancelled run, other run or midnight parts the two.
OnlyUploadsPart ==
    [][master' # master \/ PublishedIsStored =>
         PublishedIsStored' \/ \E r \in Runners : UploadFails(r)]_vars

\* Restoring the newest dump misses nothing of an earlier day: what its dump
\* holds, a dump of an earlier day goes on holding, and so does every younger
\* dump.  Prunes, runs that fail or cross midnight, second runs of a day, and
\* uploads that fail after they deleted today's dump, can lose the refreshes of
\* today and no others.
EarlierDaysAreKept ==
    [][\A a \in assets : a.day < day =>
         /\ \E b \in assets' : b.day < day' /\ a.state \subseteq b.state
         /\ \A b \in assets' : a.day <= b.day => a.state \subseteq b.state]_vars

\* "A tripped gate publishes nothing", and neither does a dry run: no such
\* refresh ever shows up in a dump, in the snapshot or in a digest, not even
\* through a later run.
WithheldStaysOut ==
    /\ \A a \in assets : a.state \cap withheld = {}
    /\ master.snapshot \cap withheld = {}
    /\ digest \cap withheld = {}

\* "The backup window can never refresh twice in the same UTC day": a scheduled
\* run that publishes finds no refresh commit of the day, although the day may
\* have changed since its guard looked.
ScheduledOncePerDay ==
    [][\A r \in Runners :
         Commit(r) /\ jobs[r].kind = "schedule" => day \notin master.days]_vars

\* The channel never announces a drop the site does not show, or one that the
\* next run could not continue from: a digest goes out of what is committed and
\* stored, also when the push before it was refused.
DigestIsPublished ==
    [][digest' # digest =>
         /\ digest' \subseteq master.snapshot
         /\ \E a \in assets : Newest(a) /\ digest' \subseteq a.state]_vars
=============================================================================
