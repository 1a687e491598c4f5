-------------------------- MODULE CloudRefreshProofs --------------------------
(***************************************************************************)
(* CloudRefresh's properties for any number of days, runs, machines and    *)
(* surviving dumps.                                                        *)
(*                                                                         *)
(* First what does not depend on the dumps: nothing withheld gets out,     *)
(* and a scheduled run never publishes a second time on a day.  A withheld *)
(* refresh is known only to the run that made it, which ends there         *)
(* (WithheldInv, IdsInv); and since one run is under way at a time         *)
(* (OneRun), no commit comes between its guard and its own (GuardHolds).   *)
(***************************************************************************)
EXTENDS CloudRefresh, FiniteSetTheorems, WellFoundedInduction, TLAPS

OneRun == \A r, s \in Runners : ~Idle(r) /\ ~Idle(s) => r = s

DatesInv == master.days \subseteq 1 .. day

\* Every stored refresh, withheld ones included, has a number given out already.
IdsInv ==
    /\ \A i \in withheld : i <= runs
    /\ \A r \in Runners : ~Idle(r) => jobs[r].id <= runs /\ jobs[r].id \notin withheld

\* The refresh of a run is in its own database only.
FreshInv ==
    \A r \in Runners : jobs[r].stage \in {"guard", "restore", "refresh"} =>
        /\ \A a \in assets : jobs[r].id \notin a.state
        /\ jobs[r].id \notin master.snapshot \cup digest \cup jobs[r].db

\* Nothing a run or the world holds has a number not given out yet.
KnownInv ==
    /\ \A a \in assets : \A i \in a.state : i <= runs
    /\ \A i \in master.snapshot \cup digest : i <= runs
    /\ \A r \in Runners : \A i \in jobs[r].db : i <= runs

RunClean == \A r \in Runners : jobs[r].db \cap withheld = {}

GuardHolds ==
    \A r \in Runners :
        jobs[r].kind = "schedule" /\ jobs[r].stage \notin {"guard", "post"} =>
            day \notin master.days

AInv ==
    /\ TypeOK
    /\ OneRun /\ DatesInv /\ IdsInv /\ KnownInv
    /\ FreshInv
    /\ RunClean /\ WithheldStaysOut
    /\ GuardHolds

-----------------------------------------------------------------------------
\* The initial states satisfy the invariant.
LEMMA InitInv == Init => AInv
<1> SUFFICES ASSUME Init PROVE AInv
  OBVIOUS
<1>1. TypeOK
  BY BoundsOK DEF Init, TypeOK, Asset, Kinds
<1>2. OneRun /\ DatesInv /\ IdsInv /\ FreshInv /\ KnownInv
  BY DEF Init, OneRun, DatesInv, IdsInv, FreshInv, KnownInv, Idle, NoJob
<1>3. RunClean /\ WithheldStaysOut /\ GuardHolds
  BY DEF Init, RunClean, WithheldStaysOut, GuardHolds, NoJob
<1> QED BY <1>1, <1>2, <1>3 DEF AInv

\* A new day brings no date after it, and undoes no guard.
LEMMA NextDayInv == AInv /\ NextDay => AInv'
<1> SUFFICES ASSUME AInv, NextDay PROVE AInv'
  OBVIOUS
<1> USE DEF AInv, NextDay, published
<1>1. TypeOK'
  BY BoundsOK DEF TypeOK
<1>2. (OneRun /\ DatesInv)'
  BY DEF TypeOK, OneRun, DatesInv, Idle
<1>3. (IdsInv /\ FreshInv /\ KnownInv)'
  BY DEF IdsInv, FreshInv, KnownInv, Idle
<1>4. (RunClean /\ WithheldStaysOut)'
  BY DEF RunClean, WithheldStaysOut
<1>5. GuardHolds'
  BY DEF GuardHolds, DatesInv, TypeOK
<1> QED BY <1>1, <1>2, <1>3, <1>4, <1>5

\* A trigger only asks for a run.
LEMMA TriggerInv == ASSUME NEW kind \in Kinds, AInv, Trigger(kind) PROVE AInv'
<1> USE DEF AInv, Trigger, published
<1>1. TypeOK'
  BY DEF TypeOK
<1>2. (OneRun /\ DatesInv)'
  BY DEF OneRun, DatesInv, Idle
<1>3. (IdsInv /\ FreshInv /\ KnownInv)'
  BY DEF IdsInv, FreshInv, KnownInv, Idle
<1>4. (RunClean /\ WithheldStaysOut /\ GuardHolds)'
  BY DEF RunClean, WithheldStaysOut, GuardHolds
<1> QED BY <1>1, <1>2, <1>3, <1>4

\* A run starts alone, and with a number nobody has seen.
LEMMA BeginInv == ASSUME NEW r \in Runners, AInv, Begin(r) PROVE AInv'
<1> USE DEF AInv
<1>1. /\ runs' = runs + 1 /\ runs' \in 1 .. MaxRuns /\ pending \in Kinds
      /\ UNCHANGED <<day, fired, assets, master, digest, withheld>>
      /\ pending' = "none"
  BY BoundsOK DEF Begin, TypeOK, published
<1> DEFINE job == [kind |-> pending, stage |-> "guard", id |-> runs', db |-> {}]
<1>2. job \in Job
  BY <1>1 DEF Job, Stages
<1>3. jobs' = [jobs EXCEPT ![r] = job] /\ jobs \in [Runners -> Job \cup {NoJob}]
  BY DEF Begin, TypeOK
<1>4. /\ jobs' \in [Runners -> Job \cup {NoJob}]
      /\ jobs'[r] = job
      /\ \A s \in Runners : s # r => jobs'[s] = jobs[s]
  BY <1>2, <1>3
<1>5. \A s \in Runners : Idle(s)
  BY DEF Begin, GroupFree
<1>6. jobs'[r].stage = "guard" /\ jobs'[r].id = runs' /\ jobs'[r].db = {}
  BY <1>4
<1> HIDE DEF job
<1>7. TypeOK'
  BY <1>1, <1>4 DEF TypeOK
<1>8. OneRun' /\ DatesInv'
  BY <1>1, <1>4, <1>5 DEF OneRun, DatesInv, Idle
<1>9. IdsInv'
  BY <1>1, <1>4, <1>5, <1>6 DEF IdsInv, Idle, TypeOK
<1>10. KnownInv'
  <2>1. \A a \in assets : \A i \in a.state : i \in Nat /\ i <= runs
    BY DEF KnownInv, TypeOK, Asset
  <2>2. \A i \in master.snapshot \cup digest : i \in Nat /\ i <= runs
    BY DEF KnownInv, TypeOK
  <2>3. \A s \in Runners : jobs[s].db \subseteq Nat
    BY DEF TypeOK, Job, NoJob
  <2>4. \A s \in Runners : \A i \in jobs'[s].db : i <= runs + 1
    BY <1>1, <1>4, <1>6, <2>3 DEF KnownInv, TypeOK
  <2> QED BY <1>1, <2>1, <2>2, <2>4 DEF KnownInv, TypeOK
<1>11. FreshInv'
  <2>1. \A i \in Nat : i <= runs => i # runs'
    BY <1>1 DEF TypeOK
  <2>2. \A a \in assets : runs' \notin a.state
    BY <2>1 DEF KnownInv, TypeOK, Asset
  <2>3. runs' \notin master.snapshot \cup digest
    BY <2>1 DEF KnownInv, TypeOK
  <2> QED BY <1>1, <1>4, <1>5, <1>6, <2>2, <2>3 DEF FreshInv, Idle
<1>12. RunClean' /\ WithheldStaysOut'
  BY <1>1, <1>4, <1>6 DEF RunClean, WithheldStaysOut
<1>13. GuardHolds'
  BY <1>1, <1>4, <1>6 DEF GuardHolds
<1> QED BY <1>7, <1>8, <1>9, <1>10, <1>11, <1>12, <1>13

-----------------------------------------------------------------------------
(* The steps of a run.  A step leaves the clock, the triggers and every other *)
(* machine alone; it ends the run or takes it to a later stage (RunGoes).    *)

RunGoes(r) ==
    /\ jobs'[r] \in Job
    /\ jobs'[r].kind = jobs[r].kind /\ jobs'[r].id = jobs[r].id
    /\ jobs'[r].stage \notin {"none", "guard"}

\* What the steps of a run have in common.
LEMMA StepShape ==
    ASSUME NEW r \in Runners, TypeOK, OneRun, Step(r) \/ Fail(r)
    PROVE  /\ jobs[r] \in Job /\ ~Idle(r)
           /\ jobs' \in [Runners -> Job \cup {NoJob}]
           /\ \A s \in Runners : s # r => jobs'[s] = jobs[s] /\ jobs[s] = NoJob
           /\ jobs'[r] = NoJob \/ RunGoes(r)
           /\ UNCHANGED <<day, fired, pending, runs>>
<1>1. ~Idle(r)
  BY DEF Step, Fail, Guard, Restore, Refresh, RefreshWithheld, Upload, UploadFails,
         Prune, PruneFails, Commit, Post, At, Idle
<1>2. jobs[r] \in Job
  BY <1>1 DEF TypeOK, Idle, NoJob
<1>3. \A s \in Runners : s # r => jobs[s] = NoJob
  <2>1. \A j \in Job : j.stage # "none"
    BY DEF Job, Stages
  <2> QED BY <1>1, <2>1 DEF OneRun, Idle, TypeOK
<1>4. /\ \A s \in Runners : s # r => jobs'[s] = jobs[s]
      /\ jobs'[r] = NoJob \/ RunGoes(r)
      /\ jobs' \in [Runners -> Job \cup {NoJob}]
  <2>1. CASE End(r)
    BY <2>1 DEF End, TypeOK
  <2>2. CASE \E st \in Stages \ {"guard"} : Goto(r, st)
    BY <1>2, <2>2 DEF Goto, TypeOK, RunGoes, Job, Stages
  <2>3. CASE Restore(r)
    <3>1. PICK a \in assets :
            jobs' = [jobs EXCEPT ![r].stage = "refresh", ![r].db = a.state]
      BY <2>3 DEF Restore
    <3>2. a.state \in SUBSET Nat
      BY DEF TypeOK, Asset
    <3> QED BY <1>2, <3>1, <3>2 DEF TypeOK, RunGoes, Job, Stages
  <2>4. CASE Refresh(r)
    BY <1>2, <2>4 DEF Refresh, TypeOK, RunGoes, Job, Stages
  <2> QED BY <2>1, <2>2, <2>3, <2>4
          DEF Step, Fail, Guard, RefreshWithheld, Upload, UploadFails,
              Prune, PruneFails, Commit, Post, Stages
<1>5. UNCHANGED <<day, fired, pending, runs>>
  BY DEF Step, Fail, Guard, Restore, Refresh, RefreshWithheld, Upload, UploadFails,
         Prune, PruneFails, Commit, Post, published
<1> QED BY <1>1, <1>2, <1>3, <1>4, <1>5

\* What the two ways out of a stage leave behind.
LEMMA JobAfter ==
    ASSUME NEW r \in Runners, TypeOK
    PROVE  /\ End(r) => jobs'[r] = NoJob /\ jobs'[r].db = {} /\ jobs'[r].stage = "none"
           /\ \A st : Goto(r, st) => jobs'[r].db = jobs[r].db /\ jobs'[r].stage = st
<1>1. jobs \in [Runners -> Job \cup {NoJob}] /\ jobs[r] \in Job \cup {NoJob}
  BY DEF TypeOK
<1>2. End(r) => jobs'[r] = NoJob /\ jobs'[r].db = {} /\ jobs'[r].stage = "none"
  BY <1>1 DEF End, NoJob
<1>3. ASSUME NEW st, Goto(r, st)
      PROVE  jobs'[r].db = jobs[r].db /\ jobs'[r].stage = st
  BY <1>1, <1>3 DEF Goto, Job, NoJob
<1> QED BY <1>2, <1>3

\* Where the data of a step comes from: a dump and a snapshot only from the run,
\* the run's database only from a dump and from its own refresh.
LEMMA StepData ==
    ASSUME NEW r \in Runners, TypeOK, OneRun, Step(r) \/ Fail(r)
    PROVE  /\ \/ assets' \subseteq assets
              \/ /\ jobs[r].stage = "upload"
                 /\ assets' = OtherDays \cup {[day |-> day, state |-> jobs[r].db]}
           /\ \/ master' = master
              \/ /\ jobs[r].stage = "commit"
                 /\ master' = [snapshot |-> jobs[r].db, days |-> master.days \cup {day}]
           /\ digest' = digest \/ (jobs[r].stage = "post" /\ digest' = jobs[r].db)
           /\ \/ withheld' = withheld
              \/ /\ jobs[r].stage = "refresh" /\ withheld' = withheld \cup {jobs[r].id}
                 /\ jobs'[r] = NoJob
           /\ \/ jobs'[r].db = {} \/ jobs'[r].db = jobs[r].db
              \/ \E a \in assets : jobs'[r].db = a.state
              \/ (jobs'[r].stage = "upload" /\ jobs'[r].db = jobs[r].db \cup {jobs[r].id})
<1>1. jobs[r] \in Job /\ jobs \in [Runners -> Job \cup {NoJob}]
  BY StepShape DEF TypeOK
<1>2. CASE Guard(r) \/ Fail(r)
  BY <1>2, JobAfter DEF Guard, Fail, published
<1>3. CASE Post(r) \/ RefreshWithheld(r)
  BY <1>3, JobAfter DEF Post, RefreshWithheld, At, published
<1>4. CASE Restore(r)
  <2>1. PICK a \in assets :
          jobs' = [jobs EXCEPT ![r].stage = "refresh", ![r].db = a.state]
    BY <1>4 DEF Restore
  <2>2. jobs'[r].db = a.state
    BY <1>1, <2>1 DEF Job
  <2> QED BY <1>4, <2>2 DEF Restore, published
<1>5. CASE Refresh(r)
  <2>1. jobs'[r].stage = "upload" /\ jobs'[r].db = jobs[r].db \cup {jobs[r].id}
    BY <1>1, <1>5 DEF Refresh, Job
  <2> QED BY <1>5, <2>1 DEF Refresh, published
<1>6. CASE Upload(r) \/ UploadFails(r)
  BY <1>6, JobAfter DEF Upload, UploadFails, OtherDays, At
<1>7. CASE Prune(r) \/ PruneFails(r)
  BY <1>7, JobAfter DEF Prune, PruneFails, Kept, Since
<1>8. CASE Commit(r)
  BY <1>8, JobAfter DEF Commit, At
<1> QED BY <1>2, <1>3, <1>4, <1>5, <1>6, <1>7, <1>8 DEF Step

\* The order of the stages, and what each of them may touch on the way.
LEMMA StepPath ==
    ASSUME NEW r \in Runners, TypeOK, OneRun, Step(r) \/ Fail(r), jobs'[r].stage # "none"
    PROVE  \/ /\ jobs[r].stage = "guard" /\ ~AlreadyDone(r) /\ jobs'[r].stage = "restore"
              /\ jobs'[r].db = jobs[r].db /\ UNCHANGED <<assets, master, digest, withheld>>
           \/ /\ jobs[r].stage = "restore" /\ jobs'[r].stage = "refresh"
              /\ \E a \in assets : Newest(a) /\ jobs'[r].db = a.state
              /\ UNCHANGED <<assets, master, digest, withheld>>
           \/ /\ jobs[r].stage = "refresh" /\ jobs'[r].stage = "upload"
              /\ jobs'[r].db = jobs[r].db \cup {jobs[r].id}
              /\ UNCHANGED <<assets, master, digest, withheld>>
           \/ /\ jobs[r].stage = "upload" /\ jobs'[r].stage = "prune"
              /\ jobs'[r].db = jobs[r].db /\ UNCHANGED <<master, digest, withheld>>
              /\ assets' = OtherDays \cup {[day |-> day, state |-> jobs[r].db]}
           \/ /\ jobs[r].stage = "prune" /\ jobs'[r].stage = "commit"
              /\ jobs'[r].db = jobs[r].db /\ UNCHANGED <<master, digest, withheld>>
              /\ assets' = Kept
           \/ /\ jobs[r].stage = "commit" /\ jobs'[r].stage = "post"
              /\ jobs'[r].db = jobs[r].db /\ UNCHANGED <<assets, digest, withheld>>
              /\ master' = [snapshot |-> jobs[r].db, days |-> master.days \cup {day}]
<1>1. jobs[r] \in Job /\ jobs \in [Runners -> Job \cup {NoJob}]
  BY StepShape DEF TypeOK
<1>2. ~End(r)
  BY JobAfter
<1>3. CASE Guard(r)
  BY <1>2, <1>3, JobAfter DEF Guard, At, published
<1>4. CASE Restore(r)
  <2>1. PICK a \in assets :
          Newest(a) /\ jobs' = [jobs EXCEPT ![r].stage = "refresh", ![r].db = a.state]
    BY <1>4 DEF Restore
  <2>2. jobs'[r].stage = "refresh" /\ jobs'[r].db = a.state
    BY <1>1, <2>1 DEF Job
  <2> QED BY <1>4, <2>1, <2>2 DEF Restore, At, published
<1>5. CASE Refresh(r)
  <2>1. jobs'[r].stage = "upload" /\ jobs'[r].db = jobs[r].db \cup {jobs[r].id}
    BY <1>1, <1>5 DEF Refresh, Job
  <2> QED BY <1>5, <2>1 DEF Refresh, At, published
<1>6. CASE Upload(r)
  BY <1>6, JobAfter DEF Upload, At
<1>7. CASE Prune(r)
  BY <1>7, JobAfter DEF Prune, At
<1>8. CASE Commit(r)
  BY <1>8, JobAfter DEF Commit, At
<1> QED BY <1>2, <1>3, <1>4, <1>5, <1>6, <1>7, <1>8
        DEF Step, Fail, RefreshWithheld, UploadFails, PruneFails, Post

\* Nothing withheld leaves the run that made it, and its guard's answer stands.
LEMMA StepInv == ASSUME NEW r \in Runners, AInv, Step(r) \/ Fail(r) PROVE AInv'
<1> USE DEF AInv
<1>1. /\ jobs[r] \in Job /\ ~Idle(r)
      /\ jobs' \in [Runners -> Job \cup {NoJob}]
      /\ \A s \in Runners : s # r => jobs'[s] = jobs[s] /\ jobs[s] = NoJob
      /\ jobs'[r] = NoJob \/ RunGoes(r)
      /\ UNCHANGED <<day, fired, pending, runs>>
  BY StepShape
<1>2. /\ jobs[r].id \in Nat /\ jobs[r].db \in SUBSET Nat
      /\ [day |-> day, state |-> jobs[r].db] \in Asset
  BY <1>1 DEF Job, Asset, TypeOK
<1>3. TypeOK'
  <2>1. assets' \in SUBSET Asset /\ \A a, b \in assets' : a.day = b.day => a = b
    BY <1>2, StepData DEF TypeOK, OtherDays
  <2>2. master' \in [snapshot : SUBSET Nat, days : SUBSET (1 .. MaxDay)]
    <3>1. master.days \cup {day} \in SUBSET (1 .. MaxDay)
      BY DEF TypeOK
    <3> QED BY <1>2, <3>1, StepData DEF TypeOK
  <2>3. digest' \in SUBSET Nat
    BY <1>2, StepData DEF TypeOK
  <2>4. withheld \in SUBSET Nat /\ withheld \cup {jobs[r].id} \in SUBSET Nat
    BY <1>2 DEF TypeOK
  <2>5. withheld' \in SUBSET Nat
    BY <2>4, StepData
  <2> QED BY <1>1, <2>1, <2>2, <2>3, <2>5 DEF TypeOK
<1>4. OneRun'
  BY <1>1 DEF OneRun, Idle, NoJob
<1>5. DatesInv'
  BY <1>1, StepData DEF DatesInv, TypeOK
<1>6. IdsInv'
  <2>1. \A i \in withheld' : i <= runs
    BY <1>1, StepData DEF IdsInv
  <2>2. ~Idle(r)' => jobs'[r].id <= runs /\ jobs'[r].id \notin withheld'
    BY <1>1, StepData DEF IdsInv, RunGoes, Idle, NoJob
  <2> QED BY <1>1, <2>1, <2>2 DEF IdsInv, Idle, NoJob
<1>7. KnownInv'
  <2>1. \A i \in jobs[r].db \cup {jobs[r].id} : i <= runs
    BY <1>1 DEF KnownInv, IdsInv
  <2>2. \A a \in assets' : \A i \in a.state : i <= runs
    BY <2>1, StepData DEF KnownInv, OtherDays
  <2>3. \A i \in master'.snapshot \cup digest' : i <= runs
    BY <2>1, StepData DEF KnownInv
  <2>4. \A i \in jobs'[r].db : i <= runs
    BY <2>1, StepData DEF KnownInv
  <2> QED BY <1>1, <2>2, <2>3, <2>4 DEF KnownInv
<1>8. FreshInv'
  <2>1. CASE jobs'[r].stage \in {"restore", "refresh"}
    <3>1. jobs[r].stage \in {"guard", "restore"} /\ UNCHANGED <<assets, master, digest>>
      BY <2>1, StepPath
    <3>2. jobs'[r].id = jobs[r].id
      BY <1>1, <2>1 DEF RunGoes, NoJob
    <3> QED BY <1>1, <2>1, <3>1, <3>2, StepData DEF FreshInv, NoJob
  <2>2. CASE jobs'[r].stage \notin {"restore", "refresh"}
    BY <1>1, <2>2 DEF FreshInv, RunGoes, NoJob
  <2> QED BY <2>1, <2>2
<1>9. RunClean' /\ WithheldStaysOut'
  <2>1. CASE withheld' = withheld
    <3>1. jobs[r].db \cap withheld = {} /\ jobs[r].id \notin withheld
      BY <1>1 DEF RunClean, IdsInv
    <3>2. jobs'[r].db \cap withheld = {}
      BY <3>1, StepData DEF WithheldStaysOut
    <3>3. RunClean'
      BY <1>1, <2>1, <3>2 DEF RunClean
    <3>4. WithheldStaysOut'
      BY <2>1, <3>1, StepData DEF WithheldStaysOut, OtherDays
    <3> QED BY <3>3, <3>4
  <2>2. CASE withheld' # withheld
    <3>1. /\ jobs[r].stage = "refresh" /\ withheld' = withheld \cup {jobs[r].id}
          /\ jobs'[r] = NoJob
      BY <2>2, StepData
    <3>2. assets' \subseteq assets /\ master' = master /\ digest' = digest
      BY <3>1, StepData
    <3>3. WithheldStaysOut'
      BY <1>1, <3>1, <3>2 DEF WithheldStaysOut, FreshInv
    <3>4. RunClean'
      BY <1>1, <3>1 DEF RunClean, NoJob
    <3> QED BY <3>3, <3>4
  <2> QED BY <2>1, <2>2
<1>10. GuardHolds'
  <2>1. CASE jobs'[r].kind = "schedule" /\ jobs'[r].stage \notin {"guard", "post"}
    <3>1. RunGoes(r) /\ jobs[r].kind = "schedule"
      BY <1>1, <2>1 DEF NoJob, RunGoes
    <3>2. master' = master /\ jobs[r].stage # "post"
      BY <2>1, <3>1, StepPath DEF RunGoes
    <3>3. jobs[r].stage = "guard" => day \notin master.days
      BY <3>1, StepPath DEF RunGoes, AlreadyDone
    <3> QED BY <1>1, <3>1, <3>2, <3>3 DEF GuardHolds, NoJob
  <2>2. CASE ~(jobs'[r].kind = "schedule" /\ jobs'[r].stage \notin {"guard", "post"})
    BY <1>1, <2>2 DEF GuardHolds, NoJob
  <2> QED BY <2>1, <2>2
<1> QED BY <1>3, <1>4, <1>5, <1>6, <1>7, <1>8, <1>9, <1>10

\* Every step keeps the invariant.
LEMMA NextInv == AInv /\ [Next]_vars => AInv'
<1> SUFFICES ASSUME AInv, [Next]_vars PROVE AInv'
  OBVIOUS
<1>1. CASE UNCHANGED vars
  BY <1>1 DEF vars, AInv, TypeOK, OneRun, DatesInv, IdsInv, KnownInv, FreshInv, RunClean,
              WithheldStaysOut, GuardHolds, Idle
<1>2. CASE Next
  BY <1>2, NextDayInv, TriggerInv, BeginInv, StepInv DEF Next
<1> QED BY <1>1, <1>2

-----------------------------------------------------------------------------
\* The invariant holds throughout.
LEMMA Invariant == Spec => []AInv
BY InitInv, NextInv, PTL DEF Spec

\* The variables stay in their types, and no two dumps carry one date: the
\* newest dump a run restores is always a single one.
THEOREM TypeCorrect == Spec => []TypeOK
<1>1. AInv => TypeOK
  BY DEF AInv
<1> QED BY <1>1, Invariant, PTL

\* A tripped gate publishes nothing, and neither does a dry run, however many
\* runs, failed uploads and prunes follow.
THEOREM WithheldStaysOutCorrect == Spec => []WithheldStaysOut
<1>1. AInv => WithheldStaysOut
  BY DEF AInv
<1> QED BY <1>1, Invariant, PTL

\* A scheduled run never publishes on a day that already has its commit, though
\* midnight may pass between its guard and its push.
THEOREM ScheduledOncePerDayCorrect == Spec => ScheduledOncePerDay
<1>1. AInv /\ [Next]_vars =>
        [\A r \in Runners :
           Commit(r) /\ jobs[r].kind = "schedule" => day \notin master.days]_vars
  BY DEF AInv, GuardHolds, Commit, At
<1> QED BY <1>1, Invariant, PTL DEF Spec, ScheduledOncePerDay

-----------------------------------------------------------------------------
(* What the dumps hold.  A run's database is only as good as the dump it was *)
(* restored from, so the invariant follows it through the run: it holds all  *)
(* any dump holds until the upload, and it is the newest dump after it.  That *)
(* needs OneRun (no other run touches the dumps meanwhile) and dumps that     *)
(* never lie in the future (today's is the newest, and the only one a failed  *)
(* upload can lose).                                                          *)

\* Younger dumps hold what older ones do.
DumpsGrow ==
    \A a, b \in assets : a.day < b.day => a.state \subseteq b.state

StoredWhole(S) == \E n \in assets : Newest(n) /\ n.state = S

RunStored(r) ==
    /\ jobs[r].stage \in {"refresh", "upload"} =>
         \A a \in assets : a.state \subseteq jobs[r].db
    /\ jobs[r].stage \in {"prune", "commit", "post"} => StoredWhole(jobs[r].db)
    /\ jobs[r].stage = "post" => jobs[r].db = master.snapshot

SInv ==
    /\ \A a \in assets : a.day <= day
    /\ DumpsGrow
    /\ \A r \in Runners : RunStored(r)

\* Days are numbers.
LEMMA Days == TypeOK => day \in Nat /\ \A a \in assets : a.day \in Nat
BY DEF TypeOK, Asset

\* The newest dump holds all any dump holds.
LEMMA NewestHoldsAll ==
    ASSUME TypeOK, SInv, NEW n \in assets, Newest(n), NEW a \in assets
    PROVE  a.state \subseteq n.state
<1>1. a.day <= n.day /\ a.day \in Nat /\ n.day \in Nat
  BY Days DEF Newest
<1>2. CASE a.day < n.day
  BY <1>2 DEF SInv, DumpsGrow
<1>3. CASE a.day = n.day
  BY <1>3 DEF TypeOK
<1> QED BY <1>1, <1>2, <1>3

\* No prune, completed or not, deletes the newest dump.
LEMMA PruneSpares ==
    ASSUME TypeOK, NEW n \in assets, Newest(n)
    PROVE  n \in Kept
<1>1. \A a \in assets : ~(a.day > n.day)
  BY Days DEF Newest
<1>2. Newer(n) = {}
  BY <1>1 DEF Newer
<1>3. Cardinality(Newer(n)) = 0
  BY <1>2, FS_EmptySet
<1> QED BY <1>3, BoundsOK DEF Kept

\* A set of dumps has a youngest, because days do not lie in the future.
LEMMA Youngest ==
    ASSUME TypeOK, SInv, NEW A \in SUBSET assets, A # {}
    PROVE  \E b \in A : \A a \in A : a.day <= b.day
<1> DEFINE Left == {day - a.day : a \in A}
<1>1. \A a \in A : a.day \in Nat /\ day \in Nat /\ a.day <= day /\ day - a.day \in Nat
  BY Days DEF SInv
<1>2. Left \in SUBSET Nat /\ Left # {}
  BY <1>1
<1>3. PICK m \in Left : \A k \in Left : m <= k
  <2> HIDE DEF Left
  <2>1. IsWellFoundedOn({p \in Nat \X Nat : p[1] < p[2]}, Nat)
    <3>1. {p \in Nat \X Nat : p[1] < p[2]} = OpToRel(<, Nat)
      BY DEF OpToRel
    <3> QED BY <3>1, NatLessThanWellFounded
  <2> DEFINE R == {p \in Nat \X Nat : p[1] < p[2]}
  <2>2. PICK m \in Left : \A k \in Left : ~ (<<k, m>> \in R)
    <3>1. IsWellFoundedOn(R, Nat)
      BY <2>1
    <3> HIDE DEF R
    <3> QED BY <1>2, <3>1, WFMin
  <2>3. \A k \in Left : ~(k < m)
    BY <1>2, <2>2
  <2> QED BY <1>2, <2>2, <2>3
<1>4. PICK b \in A : m = day - b.day
  BY <1>3
<1>5. ASSUME NEW a \in A PROVE a.day <= b.day
  <2>1. day - b.day <= day - a.day
    BY <1>3, <1>4
  <2> QED BY <1>1, <2>1
<1> QED BY <1>5

\* A prune that keeps two dumps keeps, of those of earlier days, the youngest.
LEMMA PruneKeepsEarlier ==
    ASSUME TypeOK, SInv, NEW a \in assets, a.day < day
    PROVE  \E b \in Kept : b.day < day /\ a.state \subseteq b.state
<1> DEFINE Earlier == {x \in assets : x.day < day}
<1>1. PICK b \in Earlier : \A x \in Earlier : x.day <= b.day
  <2>1. Earlier \in SUBSET assets /\ a \in Earlier
    OBVIOUS
  <2> HIDE DEF Earlier
  <2> QED BY <2>1, Youngest
<1>2. a.state \subseteq b.state
  <2>1. a.day <= b.day /\ a.day \in Nat /\ b.day \in Nat
    BY <1>1, Days
  <2>2. CASE a.day < b.day
    BY <2>2 DEF SInv, DumpsGrow
  <2>3. CASE a.day = b.day
    BY <2>3 DEF TypeOK
  <2> QED BY <2>1, <2>2, <2>3
<1>3. \A x \in Newer(b) : x \in assets /\ x.day = day
  BY <1>1, Days DEF Newer, SInv
<1>4. \A x, y \in Newer(b) : x = y
  BY <1>3 DEF TypeOK
<1>5. Cardinality(Newer(b)) \in {0, 1}
  <2>1. CASE Newer(b) = {}
    BY <2>1, FS_EmptySet
  <2>2. CASE Newer(b) # {}
    <3>1. PICK x \in Newer(b) : Newer(b) = {x}
      BY <1>4, <2>2
    <3> QED BY <3>1, FS_Singleton
  <2> QED BY <2>1, <2>2
<1>6. b \in Kept
  BY <1>5, BoundsOK DEF Kept
<1> QED BY <1>1, <1>2, <1>6

\* The dump uploaded today is the newest.
LEMMA NewestUploaded ==
    ASSUME TypeOK, SInv, NEW r \in Runners,
           assets' = OtherDays \cup {[day |-> day, state |-> jobs[r].db]}
    PROVE  \E m \in assets' : Newest(m)' /\ m.state = jobs[r].db
<1>1. PICK m : m = [day |-> day, state |-> jobs[r].db]
  OBVIOUS
<1>2. m \in assets' /\ m.day = day /\ m.state = jobs[r].db
  BY <1>1
<1>3. \A b \in assets' : b.day <= m.day
  BY <1>1, <1>2, Days DEF OtherDays, SInv
<1> QED BY <1>2, <1>3 DEF Newest

\* What a step of a run does to the dumps.
LEMMA StepDumps ==
    ASSUME TypeOK, OneRun, NEW r \in Runners, Step(r) \/ Fail(r)
    PROVE  \/ assets' = assets
           \/ /\ jobs[r].stage = "upload" /\ jobs'[r].stage = "prune"
              /\ assets' = OtherDays \cup {[day |-> day, state |-> jobs[r].db]}
           \/ /\ jobs[r].stage = "upload" /\ assets' = OtherDays /\ jobs'[r].stage = "none"
           \/ /\ jobs[r].stage = "prune" /\ jobs'[r].stage \in {"none", "commit"}
              /\ Kept \subseteq assets' /\ assets' \subseteq assets
<1>1. CASE Guard(r) \/ Restore(r) \/ Refresh(r) \/ RefreshWithheld(r) \/ Commit(r)
           \/ Post(r) \/ Fail(r)
  BY <1>1 DEF Guard, Restore, Refresh, RefreshWithheld, Commit, Post, Fail, published
<1>2. CASE Upload(r)
  BY <1>2, JobAfter DEF Upload, At
<1>3. CASE UploadFails(r)
  BY <1>3, JobAfter DEF UploadFails, At
<1>4. CASE Prune(r)
  BY <1>4, JobAfter DEF Prune, At, Kept
<1>5. CASE PruneFails(r)
  BY <1>5, JobAfter DEF PruneFails, At, Since
<1> QED BY <1>1, <1>2, <1>3, <1>4, <1>5 DEF Step

\* The initial states satisfy it.
LEMMA StoredInit == Init => SInv
BY DEF Init, SInv, DumpsGrow, RunStored, NoJob

\* The day, the triggers and the start of a run do not matter to it.
LEMMA StoredOutside ==
    ASSUME AInv, SInv,
           NextDay \/ (\E kind \in Kinds : Trigger(kind)) \/ (\E r \in Runners : Begin(r))
    PROVE  SInv'
<1>1. UNCHANGED <<assets, master, digest>>
  BY DEF NextDay, Trigger, Begin, published
<1>2. \A a \in assets' : a.day <= day'
  <2>1. day' = day \/ day' = day + 1
    BY DEF NextDay, Trigger, Begin
  <2> QED BY <1>1, <2>1, Days DEF AInv, SInv
<1>3. DumpsGrow'
  BY <1>1 DEF SInv, DumpsGrow
<1>4. ASSUME NEW r \in Runners PROVE RunStored(r)'
  <2>1. jobs'[r] = jobs[r] \/ jobs'[r].stage = "guard"
    BY DEF NextDay, Trigger, Begin, AInv, TypeOK
  <2> QED BY <1>1, <2>1 DEF SInv, RunStored, StoredWhole, Newest
<1> QED BY <1>2, <1>3, <1>4 DEF SInv

\* A run keeps it at every step.
LEMMA StoredStep ==
    ASSUME AInv, SInv, NEW r \in Runners, Step(r) \/ Fail(r)
    PROVE  SInv'
<1> USE DEF AInv
<1>1. day' = day /\ day \in Nat
  BY StepShape, Days
<1>2. \A a \in assets' : a.day <= day'
  BY <1>1, StepData DEF SInv, OtherDays
<1>3. DumpsGrow'
  <2>1. CASE assets' \subseteq assets
    BY <2>1 DEF SInv, DumpsGrow
  <2>2. CASE ~(assets' \subseteq assets)
    <3>1. /\ jobs[r].stage = "upload"
          /\ assets' = OtherDays \cup {[day |-> day, state |-> jobs[r].db]}
      BY <2>2, StepData
    <3>2. \A a \in assets : a.state \subseteq jobs[r].db /\ ~(day < a.day)
      BY <3>1, Days DEF SInv, RunStored
    <3>3. ASSUME NEW a \in assets', NEW b \in assets', a.day < b.day
          PROVE  a.state \subseteq b.state
      <4>1. CASE a \in assets /\ b \in assets
        BY <3>3, <4>1 DEF SInv, DumpsGrow
      <4>2. CASE b = [day |-> day, state |-> jobs[r].db]
        BY <3>1, <3>2, <4>2 DEF OtherDays
      <4>3. CASE a = [day |-> day, state |-> jobs[r].db]
        BY <1>1, <3>1, <3>2, <3>3, <4>3 DEF OtherDays
      <4> QED BY <3>1, <4>1, <4>2, <4>3 DEF OtherDays
    <3> QED BY <3>3 DEF DumpsGrow
  <2> QED BY <2>1, <2>2
<1>4. ASSUME NEW s \in Runners PROVE RunStored(s)'
  <2>1. CASE s # r
    BY <2>1, StepShape DEF RunStored, NoJob
  <2>2. CASE s = r /\ jobs'[r].stage = "none"
    BY <2>2 DEF RunStored
  <2>3. CASE s = r /\ jobs'[r].stage # "none"
    <3>1. ASSUME jobs'[r].stage = "refresh"
          PROVE  \A a \in assets' : a.state \subseteq jobs'[r].db
      <4>1. PICK n \in assets : Newest(n) /\ jobs'[r].db = n.state
        BY <2>3, <3>1, StepPath
      <4>2. assets' = assets
        BY <2>3, <3>1, StepPath
      <4> QED BY <4>1, <4>2, NewestHoldsAll
    <3>2. ASSUME jobs'[r].stage = "upload"
          PROVE  \A a \in assets' : a.state \subseteq jobs'[r].db
      BY <2>3, <3>2, StepPath DEF SInv, RunStored
    <3>3. ASSUME jobs'[r].stage = "prune"
          PROVE  \E n \in assets' : Newest(n)' /\ n.state = jobs'[r].db
      <4>1. /\ jobs'[r].db = jobs[r].db
            /\ assets' = OtherDays \cup {[day |-> day, state |-> jobs[r].db]}
        BY <2>3, <3>3, StepPath
      <4> QED BY <4>1, NewestUploaded
    <3>4. ASSUME jobs'[r].stage \in {"commit", "post"}
          PROVE  \E n \in assets' : Newest(n)' /\ n.state = jobs'[r].db
      <4>1. /\ jobs[r].stage \in {"prune", "commit"} /\ jobs'[r].db = jobs[r].db
            /\ assets' = assets \/ assets' = Kept
        BY <2>3, <3>4, StepPath
      <4>2. PICK n \in assets : Newest(n) /\ n.state = jobs[r].db
        BY <4>1 DEF SInv, RunStored, StoredWhole
      <4>3. n \in assets' /\ assets' \subseteq assets
        BY <4>1, <4>2, PruneSpares DEF Kept
      <4> QED BY <4>1, <4>2, <4>3 DEF Newest
    <3>5. jobs'[r].stage = "post" => jobs'[r].db = master'.snapshot
      BY <2>3, StepPath
    <3> QED BY <2>3, <3>1, <3>2, <3>3, <3>4, <3>5 DEF RunStored, StoredWhole
  <2> QED BY <2>1, <2>2, <2>3
<1> QED BY <1>2, <1>3, <1>4 DEF SInv

\* Both invariants hold throughout.
LEMMA StoredInvariant == Spec => [](AInv /\ SInv)
<1>1. AInv /\ SInv /\ [Next]_vars => SInv'
  <2> SUFFICES ASSUME AInv, SInv, [Next]_vars PROVE SInv'
    OBVIOUS
  <2>1. CASE UNCHANGED vars
    BY <2>1 DEF vars, SInv, DumpsGrow, RunStored, StoredWhole, Newest
  <2>2. CASE Next
    BY <2>2, StoredOutside, StoredStep DEF Next
  <2> QED BY <2>1, <2>2
<1> QED BY <1>1, InitInv, NextInv, StoredInit, PTL DEF Spec

-----------------------------------------------------------------------------
\* A commit shows what the newest dump holds, and only an upload that fails after
\* it deleted the day's dump leaves a snapshot published that is not stored.
THEOREM OnlyUploadsPartCorrect == Spec => OnlyUploadsPart
<1> DEFINE Parts == master' # master \/ PublishedIsStored =>
                      PublishedIsStored' \/ \E r \in Runners : UploadFails(r)
<1>1. ASSUME AInv, SInv, [Next]_vars PROVE Parts
  <2> SUFFICES ASSUME master' # master \/ PublishedIsStored
               PROVE  PublishedIsStored' \/ \E r \in Runners : UploadFails(r)
    OBVIOUS
  <2>1. CASE UNCHANGED <<assets, master>>
    BY <2>1 DEF PublishedIsStored, Newest
  <2>2. ASSUME master' = master
        PROVE  \E n \in assets : Newest(n) /\ master.snapshot \subseteq n.state
    BY <2>2 DEF PublishedIsStored
  <2>3. ASSUME NEW r \in Runners, Step(r) \/ Fail(r)
        PROVE  PublishedIsStored' \/ \E q \in Runners : UploadFails(q)
    <3> USE <1>1 DEF AInv
    <3>1. CASE UploadFails(r)
      BY <3>1
    <3>2. CASE Upload(r)
      <4>1. PICK m \in assets' : Newest(m)' /\ m.state = jobs[r].db
        BY <3>2, NewestUploaded DEF Upload
      <4>2. PICK n \in assets : Newest(n) /\ master.snapshot \subseteq n.state
        BY <2>2, <3>2 DEF Upload
      <4>3. master' = master /\ n.state \subseteq jobs[r].db
        BY <3>2 DEF Upload, At, SInv, RunStored
      <4> QED BY <4>1, <4>2, <4>3 DEF PublishedIsStored
    <3>3. CASE Prune(r) \/ PruneFails(r)
      <4>1. master' = master /\ Kept \subseteq assets' /\ assets' \subseteq assets
        BY <3>3 DEF Prune, PruneFails, Kept, Since
      <4>2. PICK n \in assets : Newest(n) /\ master.snapshot \subseteq n.state
        BY <2>2, <4>1
      <4>3. n \in assets'
        BY <4>1, <4>2, PruneSpares
      <4> QED BY <4>1, <4>2, <4>3 DEF PublishedIsStored, Newest
    <3>4. CASE Commit(r)
      <4>1. assets' = assets /\ master'.snapshot = jobs[r].db /\ StoredWhole(jobs[r].db)
        BY <3>4 DEF Commit, At, SInv, RunStored
      <4> QED BY <4>1 DEF PublishedIsStored, StoredWhole, Newest
    <3>5. CASE \/ Guard(r) \/ Restore(r) \/ Refresh(r) \/ RefreshWithheld(r)
               \/ Post(r) \/ Fail(r)
      <4>1. UNCHANGED <<assets, master>>
        BY <3>5 DEF Guard, Restore, Refresh, RefreshWithheld, Post, Fail, published
      <4> QED BY <2>1, <4>1
    <3> QED BY <2>3, <3>1, <3>2, <3>3, <3>4, <3>5 DEF Step
  <2> QED BY <1>1, <2>1, <2>3 DEF Next, NextDay, Trigger, Begin, published, vars
<1>2. AInv /\ SInv /\ [Next]_vars => [Parts]_vars
  BY <1>1
<1> QED BY <1>2, StoredInvariant, PTL DEF Spec, OnlyUploadsPart

\* A digest tells of what is committed and stored when it goes out.
THEOREM DigestIsPublishedCorrect == Spec => DigestIsPublished
<1> DEFINE Told == digest' # digest =>
                     /\ digest' \subseteq master.snapshot
                     /\ \E a \in assets : Newest(a) /\ digest' \subseteq a.state
<1>1. ASSUME AInv, SInv, [Next]_vars PROVE [Told]_vars
  <2>1. CASE UNCHANGED digest
    BY <2>1
  <2>2. ASSUME NEW r \in Runners, Step(r) \/ Fail(r), digest' # digest
        PROVE  Told
    <3>1. jobs[r].stage = "post" /\ digest' = jobs[r].db
      BY <1>1, <2>2, StepData DEF AInv
    <3>2. StoredWhole(jobs[r].db) /\ jobs[r].db = master.snapshot
      BY <1>1, <3>1 DEF SInv, RunStored
    <3> QED BY <3>1, <3>2 DEF StoredWhole
  <2> QED BY <1>1, <2>1, <2>2 DEF Next, NextDay, Trigger, Begin, published, vars
<1>2. AInv /\ SInv /\ [Next]_vars => [Told]_vars
  BY <1>1
<1> QED BY <1>2, StoredInvariant, PTL DEF Spec, DigestIsPublished

\* Nothing that a dump of an earlier day holds is ever lost or left out by a
\* younger dump: a failed upload costs the refreshes of its own day, and no
\* prune costs any.
THEOREM EarlierDaysAreKeptCorrect == Spec => EarlierDaysAreKept
<1> DEFINE Kpt == \A a \in assets : a.day < day =>
                    /\ \E b \in assets' : b.day < day' /\ a.state \subseteq b.state
                    /\ \A b \in assets' : a.day <= b.day => a.state \subseteq b.state
<1>1. ASSUME AInv, SInv, [Next]_vars PROVE [Kpt]_vars
  <2> SUFFICES ASSUME NEW a \in assets, a.day < day
               PROVE  /\ \E b \in assets' : b.day < day' /\ a.state \subseteq b.state
                      /\ \A b \in assets' : a.day <= b.day => a.state \subseteq b.state
    OBVIOUS
  <2>1. a.day \in Nat /\ day \in Nat
    BY <1>1, Days DEF AInv
  <2>2. ASSUME NEW b \in assets, a.day <= b.day PROVE a.state \subseteq b.state
    <3>1. CASE a.day = b.day
      BY <1>1, <3>1 DEF AInv, TypeOK
    <3>2. CASE a.day # b.day
      <4>1. a.day < b.day
        BY <1>1, <2>2, <3>2, Days DEF AInv
      <4> QED BY <1>1, <4>1 DEF SInv, DumpsGrow
    <3> QED BY <3>1, <3>2
  <2>3. CASE UNCHANGED assets
    <3>1. day' = day \/ day' = day + 1
      BY <1>1, StepShape DEF AInv, Next, NextDay, Trigger, Begin, vars
    <3> QED BY <2>1, <2>2, <2>3, <3>1
  <2>4. ASSUME NEW r \in Runners, Step(r) \/ Fail(r), assets' # assets
        PROVE  /\ \E b \in assets' : b.day < day' /\ a.state \subseteq b.state
               /\ \A b \in assets' : a.day <= b.day => a.state \subseteq b.state
    <3>1. day' = day
      BY <1>1, <2>4, StepShape DEF AInv
    <3>2. \E b \in assets' : b.day < day' /\ a.state \subseteq b.state
      <4>1. CASE OtherDays \subseteq assets'
        BY <2>1, <3>1, <4>1 DEF OtherDays
      <4>2. CASE Kept \subseteq assets'
        BY <1>1, <3>1, <4>2, PruneKeepsEarlier DEF AInv
      <4> QED BY <1>1, <2>4, <4>1, <4>2, StepDumps DEF AInv
    <3>3. ASSUME NEW b \in assets', a.day <= b.day PROVE a.state \subseteq b.state
      <4>1. CASE b \in assets
        BY <2>2, <3>3, <4>1
      <4>2. CASE b \notin assets
        <5>1. b.state = jobs[r].db /\ jobs[r].stage = "upload"
          BY <1>1, <2>4, <4>2, StepDumps DEF AInv, OtherDays
        <5> QED BY <1>1, <5>1 DEF SInv, RunStored
      <4> QED BY <4>1, <4>2
    <3> QED BY <3>2, <3>3
  <2> QED BY <1>1, <2>3, <2>4 DEF Next, NextDay, Trigger, Begin, published, vars
<1>2. AInv /\ SInv /\ [Next]_vars => [Kpt]_vars
  BY <1>1
<1> QED BY <1>2, StoredInvariant, PTL DEF Spec, EarlierDaysAreKept
=============================================================================
