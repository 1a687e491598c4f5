------------------------------ MODULE RefreshDay ------------------------------
(***************************************************************************)
(* The daily refresh, day after day: main of scripts/refresh-catalog.ts    *)
(* with its plan (CategoryPlan), its searches (StoreSearch), the top-up of *)
(* scripts/pipeline/topup.ts, the snapshot of export-catalog-snapshot.ts   *)
(* and the gates of scripts/lib/refresh-gates.ts.                          *)
(*                                                                         *)
(* Two clocks run: the plan turns with the UTC day, the batch ids carry    *)
(* the local date, and the UTC day changes first. Every run reads the      *)
(* stores' category trees anew, and they may have changed. A run may be    *)
(* started any number of times on a date; it may die between any two       *)
(* steps, and the database keeps what it had written. How one batch        *)
(* survives its own failures is CatalogBatch's subject, how rows merge     *)
(* Reconcile's; here a batch completes, fails before or after its rows are *)
(* committed, or finds nothing, and an offer has a price or none.          *)
(***************************************************************************)
EXTENDS CategoryPlan, StoreSearch

CONSTANTS
    RefreshSources,    \* REFRESH_SOURCES, in the order of the top-up's writes
    PromoSource,       \* the store whose promotions take a read of their own
    Promoted,          \* offers with a simple promotion
    Offers, StoreOf,   \* known offers and their stores
    AnswersTo,         \* AnswersTo[term]: what a search for it may be answered
    Explicit,          \* the configured hash, or "none"
    Accepts, Offered,  \* hashes a store accepts, hashes its storefront lists
    FreshnessFloor,    \* 90 in the code
    ReadFailureRatio,  \* 20
    EmptyFloor,        \* 2
    EmptyRatio,        \* 10
    Faults,            \* which of "trees", "hash", "die", "write" may happen
    MinBatches,        \* the search budget lasts at least for that many
    Cycle              \* bound: days after which plan and days repeat

ASSUME RefreshConstants ==
    /\ ToSet(RefreshSources) = ToSet(Sources)
    /\ Promoted \subseteq Offers
    /\ \A o \in Offers : StoreOf[o] \in ToSet(Sources)
    /\ IsFiniteSet(Offers)
    /\ RefreshSources \in Seq(ToSet(Sources))
    /\ {c[2] : c \in Categories} \cup {b.term : b \in ToSet(FrozenPlan)}
          \subseteq DOMAIN Words \cap DOMAIN AnswersTo
    /\ \A n \in DOMAIN AnswersTo : \A a \in AnswersTo[n] : a.list \in Seq(Offers \X Sights)
    /\ FreshnessFloor \in Nat
    /\ Cycle \in Nat \ {0}
    /\ \A s \in ToSet(Sources) :
         \A t \in Trees :
            LET g == ByDepartment(t, s)
            IN /\ g # <<>> => Cycle % Len(g) = 0
               /\ \A i \in DOMAIN g : Cycle % Len(g[i]) = 0

VARIABLES
    day, late,    \* the UTC day; whether it is ahead of the local date
    tree, used,   \* the stores' trees as last read; those read on this date
    priced,       \* offers with a price (supermarket_products.price)
    seen,         \* last_checked_at: this "run", this "day", "eve", or "old"
    done,         \* completed checkpoints of the local date
    known,        \* the newest vtex_hash recorded for each store's runs
    pc, plan, next,
    env, resolved,           \* VTEX_SHA256_HASH and resolvedHashes
    failed,       \* some batch of the run failed
    empty, skipped, promo,
    read,         \* top-up: what the read of each offer answered
    snap,         \* offers of the snapshot this run exported
    published,    \* the last run ended with exit code 0
    tried,        \* offers whose read failed or whose row was refused in it
    clash,        \* a batch met the checkpoint of another contract
    today, whole, \* names searched this UTC day; a whole plan was searched
    gap           \* days of whole plans since a name was searched; all three
                  \* are counted from the last change of the trees

clock == <<day, late>>
database == <<priced, seen, done, known>>
counts == <<failed, empty, skipped, promo>>
coverage == <<today, whole, gap>>
vars == <<clock, tree, used, database, pc, plan, next, env, resolved, counts, read, snap,
          published, tried, clash, coverage>>

NoPlan == [mode |-> "none", batches |-> <<>>]
NoPromotions == [ok |-> 0, failed |-> 0]
Unread == [o \in Offers |-> "none"]
Shops == ToSet(Sources)

\* Each day's plan from each trees: a constant, so that each is computed once.
PlanOfDay ==
    {[tree |-> t, day |-> d, plan |-> ResolvePlan(t, d, TRUE)] : t \in Trees, d \in 0 .. Cycle - 1}

Init ==
    /\ day = 0 /\ late = FALSE
    /\ tree \in Trees /\ used = {}
    /\ priced = Offers /\ seen = [o \in Offers |-> "old"]
    /\ done = {} /\ known = [s \in Shops |-> "none"]
    /\ pc = "idle" /\ plan = NoPlan /\ next = 1
    /\ env = "none" /\ resolved = [s \in Shops |-> "none"]
    /\ failed = FALSE /\ empty = 0 /\ skipped = 0 /\ promo = NoPromotions
    /\ read = Unread /\ snap = {} /\ published = FALSE /\ tried = {}
    /\ clash = FALSE
    /\ today = {} /\ whole = FALSE /\ gap = [c \in Categories |-> 0]

Idle ==
    /\ pc' = "idle" /\ plan' = NoPlan /\ next' = 1
    /\ env' = "none" /\ resolved' = [s \in Shops |-> "none"]
    /\ failed' = FALSE /\ empty' = 0 /\ skipped' = 0 /\ promo' = NoPromotions
    /\ read' = Unread

-----------------------------------------------------------------------------
(* The days.                                                                *)

UtcMidnight ==
    /\ pc = "idle" /\ ~late
    /\ late' = TRUE /\ day' = (day + 1) % Cycle
    /\ gap' = [c \in Categories |->
                  IF whole /\ c \in CategoriesIn[tree] \ today THEN gap[c] + 1 ELSE 0]
    /\ today' = {} /\ whole' = FALSE
    /\ UNCHANGED <<tree, used, database, pc, plan, next, env, resolved, counts, read,
                   snap, published, tried, clash>>

\* The artifacts directory is the date's: yesterday's checkpoints are left.
LocalMidnight ==
    /\ pc = "idle" /\ late
    /\ late' = FALSE /\ done' = {} /\ used' = {}
    /\ seen' = [o \in Offers |-> IF seen[o] \in {"run", "day"} THEN "eve" ELSE "old"]
    /\ published' = FALSE /\ snap' = {} /\ tried' = {} /\ clash' = FALSE
    /\ UNCHANGED <<day, tree, priced, known, pc, plan, next, env, resolved, counts, read,
                   coverage>>

\* fetchTree of every source: the trees are what the stores answer now.
ReadTrees ==
    \E p \in PlanOfDay :
        /\ p.day = day /\ plan' = p.plan
        /\ tree' = p.tree /\ used' = used \cup {p.tree}
        /\ IF tree' = tree THEN UNCHANGED coverage
           ELSE today' = {} /\ whole' = FALSE /\ gap' = [c \in Categories |-> 0]

\* main up to the plan: a tree that cannot be read makes the plan the frozen one.
StartRun ==
    /\ pc = "idle"
    /\ \/ ReadTrees
       \/ /\ "trees" \in Faults /\ plan' = ResolvePlan(tree, day, FALSE)
          /\ UNCHANGED <<tree, used, coverage>>
    /\ pc' = "search" /\ next' = 1 /\ env' = Explicit
    /\ seen' = [o \in Offers |-> IF seen[o] = "run" THEN "day" ELSE seen[o]]
    /\ published' = FALSE /\ snap' = {} /\ tried' = {} /\ clash' = FALSE
    /\ UNCHANGED <<clock, priced, done, known, resolved, counts, read>>

-----------------------------------------------------------------------------
(* The searches.                                                            *)

Batch == plan.batches[next]

\* The completed checkpoint: the batch's contract, and what its run counted.
Done(b, promos) ==
    [mode |-> plan.mode, ordinal |-> next, source |-> b.source, term |-> b.term,
     promo |-> promos]

\* Mutant: the batch id does not carry the mode of the plan.
SameIdModeless(x) == x.ordinal = next

\* refreshBatchId: the date, the mode and the ordinal.
SameId(x) == x.mode = plan.mode /\ x.ordinal = next

\* Mutant: the variable keeps the hash of the batch before.
HashKept(b, accepted) ==
    IF b.source \in VtexSources /\ UsesPersistedQuery(b.path, b.wide)
    THEN IF resolved[b.source] # "none" THEN resolved[b.source]
         ELSE ResolveHash(Explicit, known[b.source], accepted, Offered[b.source])
    ELSE env

\* applyHashFor, resolveHashForSource
HashFor(b, accepted) ==
    IF b.source \in VtexSources /\ UsesPersistedQuery(b.path, b.wide)
    THEN IF resolved[b.source] # "none" THEN resolved[b.source]
         ELSE ResolveHash(Explicit, known[b.source], accepted, Offered[b.source])
    ELSE "none"

NeedsHash(b) == b.source \in VtexSources /\ UsesPersistedQuery(b.path, b.wide)

\* The rows of a search: priced or sold out are admitted, a spike is refused.
Admitted(sights) == {x \in sights : x[2] # "spike"}
Refused(sights) == {x[1] : x \in {y \in sights : y[2] = "spike"}}

\* exceedsRejectionTolerance, and a batch that admits nothing
TooManyRejects(sights) ==
    LET n == Cardinality(sights)  r == Cardinality(Refused(sights))
    IN r > (IF n \div 10 > 1 THEN n \div 10 ELSE 1) \/ Admitted(sights) = {}

\* What a committed reconciliation leaves of the observed offers.
Observe(sights) ==
    /\ priced' = (priced \cup {x[1] : x \in {y \in sights : y[2] = "priced"}})
                   \ {x[1] : x \in {y \in sights : y[2] = "soldout"}}
    /\ seen' = [o \in Offers |-> IF \E x \in sights : x[1] = o THEN "run" ELSE seen[o]]

\* captureSimplePromotions of the products found.  A paged search carries the
\* promotions of any store; after a persisted search the one store's products
\* are read one by one.  Only a product with a promotion counts as ok.
Promotions(b, found) ==
    IF NeedsHash(b) /\ b.source # PromoSource THEN {NoPromotions}
    ELSE {[ok |-> Cardinality((found \ bad) \cap Promoted), failed |-> Cardinality(bad)] :
              bad \in IF NeedsHash(b) THEN SUBSET found ELSE {{}}}

\* addOutcome
AddPromotions(c) == promo' = [ok |-> promo.ok + c.ok, failed |-> promo.failed + c.failed]

Goes(b, hash) ==
    /\ env' = hash
    /\ resolved' = IF NeedsHash(b) THEN [resolved EXCEPT ![b.source] = hash] ELSE resolved
    /\ next' = next + 1

Searched(b) == today' = today \cup ({<<b.source, b.term>>} \cap Categories)

\* A completed checkpoint replays, or refuses another contract.
ReplayBatch(b, hash) ==
    /\ Goes(b, hash)
    /\ \E x \in done :
         /\ SameId(x)
         /\ IF x = Done(b, x.promo)
            THEN Searched(b) /\ AddPromotions(x.promo) /\ UNCHANGED <<failed, clash>>
            ELSE failed' = TRUE /\ clash' = TRUE /\ UNCHANGED <<today, promo>>
    /\ UNCHANGED <<database, empty, tried>>

\* What the search of a batch may come to.
Results(b, hash) ==
    {Search(b, answers, hash) : answers \in [DOMAIN SearchAttempts(b) -> AnswersTo[b.term]]}

\* runBatch without a completed checkpoint: search, stage, validate, reconcile.
SearchBatch(b, hash) ==
    /\ ~\E x \in done : SameId(x)
    /\ Goes(b, hash) /\ Searched(b)
    /\ known' = IF hash = "none" THEN known ELSE [known EXCEPT ![b.source] = hash]
    /\ \E r \in Results(b, hash), end \in {"completed", "rolled back", "unacknowledged"} :
         LET rejects == r.raised \/ r.sights = {} \/ TooManyRejects(r.sights)
         IN /\ rejects => end = "rolled back"
            /\ \E c \in Promotions(b, {x[1] : x \in r.sights}) :
                  /\ IF end = "completed" \/ rejects THEN AddPromotions(c) ELSE UNCHANGED promo
                  /\ done' = IF end = "completed" THEN done \cup {Done(b, c)} ELSE done
            /\ IF r.sights = {} /\ ~r.raised /\ plan.mode = "discovered"
               THEN empty' = empty + 1 /\ UNCHANGED failed
               ELSE /\ failed' = (failed \/ end # "completed")
                    /\ UNCHANGED empty
            /\ IF end = "rolled back" THEN UNCHANGED <<priced, seen>>
               ELSE Observe(Admitted(r.sights))
    /\ UNCHANGED <<tried, clash>>

RunBatch ==
    /\ pc = "search" /\ next <= Len(plan.batches)
    /\ \E accepted \in {Accepts[Batch.source]}
                          \cup (IF "hash" \in Faults THEN {{}} ELSE {}) :
         LET hash == HashFor(Batch, accepted)
         IN /\ NeedsHash(Batch) => hash # "none"
            /\ ReplayBatch(Batch, hash) \/ SearchBatch(Batch, hash)
    /\ UNCHANGED <<clock, tree, used, pc, plan, skipped, read, snap, published, whole, gap>>

Exits ==
    /\ Idle /\ snap' = {} /\ tried' = {} /\ UNCHANGED published
    /\ UNCHANGED <<clock, tree, used, database, clash, coverage>>

\* VtexHashUnavailableError ends the run: nothing is topped up or exported.
HashUnavailable ==
    /\ pc = "search" /\ next <= Len(plan.batches) /\ NeedsHash(Batch)
    /\ "hash" \in Faults /\ HashFor(Batch, {}) = "none"
    /\ Exits

\* unobservedOffers: priced, last checked before the run started.
Unobserved(o) == o \in priced /\ seen[o] # "run"

\* The last batch is done, or searchBudgetSpent skips the rest.
EndSearches ==
    /\ pc = "search"
    /\ next > Len(plan.batches) \/ next > MinBatches
    /\ skipped' = Len(plan.batches) - (next - 1)
    /\ whole' = (whole \/ (skipped' = 0 /\ plan.mode = "discovered" /\ ~clash))
    /\ read' = [o \in Offers |-> IF Unobserved(o) THEN "due" ELSE "none"]
    /\ pc' = "read"
    /\ UNCHANGED <<clock, tree, used, database, plan, next, env, resolved, failed, empty, promo,
                   snap, published, tried, clash, today, gap>>

-----------------------------------------------------------------------------
(* The top-up: the stores are read at once, then written one by one.        *)

Reads(s) == {o \in Offers : StoreOf[o] = s /\ read[o] # "none"}
ReadsFailed(s) == {o \in Reads(s) : read[o] = "failed"}

\* fetchSearchPayloadByEan: the product's price, that no form of the EAN finds it
\* or it is sold out, or a form whose request fails.
EanAnswers == {"priced", "gone", "failed"}

\* readSource, every store at once.
ReadSources ==
    /\ pc = "read"
    /\ \E answer \in [{o \in Offers : read[o] = "due"} -> EanAnswers] :
          /\ read' = [o \in Offers |-> IF o \in DOMAIN answer THEN answer[o] ELSE read[o]]
          /\ tried' = tried \cup {o \in DOMAIN answer : answer[o] = "failed"}
    /\ pc' = "write" /\ next' = 1
    /\ UNCHANGED <<clock, tree, used, database, plan, env, resolved, counts, snap, published,
                   clash, coverage>>

\* Mutant: an offer that could not be read is staged like an absent one.
TopUpRowsOfAll(s) ==
    {<<o, IF read[o] = "priced" THEN "priced" ELSE "soldout">> : o \in Reads(s)}

\* rowFor: an absent offer is staged sold out; a failed read stages nothing.
TopUpRows(s) ==
    {<<o, IF read[o] = "priced" THEN "priced" ELSE "soldout">> : o \in Reads(s) \ ReadsFailed(s)}

\* writeSource: stage, validate (a priced row may be refused), reconcile.
WriteSource ==
    /\ pc = "write" /\ next <= Len(RefreshSources)
    /\ LET s == RefreshSources[next]
       IN \E spikes \in SUBSET {x \in TopUpRows(s) : x[2] = "priced"} :
            /\ Observe(TopUpRows(s) \ spikes)
            /\ tried' = tried \cup {x[1] : x \in spikes}
    /\ next' = next + 1
    /\ UNCHANGED <<clock, tree, used, done, known, pc, plan, env, resolved, counts, read, snap,
                   published, clash, coverage>>

\* A source that cannot be staged or reconciled ends the run.
WriteFails ==
    /\ pc = "write" /\ "write" \in Faults
    /\ next <= Len(RefreshSources) /\ Reads(RefreshSources[next]) # {}
    /\ Exits

-----------------------------------------------------------------------------
(* Snapshot and gates.                                                      *)

Export ==
    /\ pc = "write" /\ next > Len(RefreshSources)
    /\ snap' = {o \in priced : StoreOf[o] \in Shops}
    /\ pc' = "judge"
    /\ UNCHANGED <<clock, tree, used, database, plan, next, env, resolved, counts, read, published,
                   tried, clash, coverage>>

OffersOf(s) == {o \in priced : StoreOf[o] = s}
Under24h(o, early) == seen[o] \in {"run", "day"} \cup (IF early THEN {"eve"} ELSE {})

\* A percentage in tenths, half a tenth rounded up: 89.95% counts as 90%.
\* (At the floor of 90 the code's floating point rounds that half up as well.)
Tenths(part, total) == (2000 * part + total) \div (2 * total)

\* Mutant: the share is taken over all stores together.
FreshTogether(early) ==
    /\ priced # {}
    /\ Tenths(Cardinality({o \in priced : Under24h(o, early)}), Cardinality(priced))
          >= 10 * FreshnessFloor

\* freshnessBySupermarket: a store without priced offers has no row.
FreshEnough(early) ==
    /\ priced # {}
    /\ \A s \in Shops : OffersOf(s) # {} =>
          Tenths(Cardinality({o \in OffersOf(s) : Under24h(o, early)}), Cardinality(OffersOf(s)))
             >= 10 * FreshnessFloor

\* findSourceReadFailure; the promotions of all stores count as one source's reads
ReadsHold ==
    /\ \A s \in Shops : 100 * Cardinality(ReadsFailed(s)) <= ReadFailureRatio * Cardinality(Reads(s))
    /\ 100 * promo.failed <= ReadFailureRatio * (promo.ok + promo.failed)

\* emptyBatchTolerance
EmptyTolerance ==
    LET share == ((Len(plan.batches) - skipped) * EmptyRatio) \div 100
    IN IF share > EmptyFloor THEN share ELSE EmptyFloor

\* evaluateRefreshGates
Gates(early) ==
    ~failed /\ empty <= EmptyTolerance /\ FreshEnough(early) /\ ReadsHold

\* printSummary and the exit code: the workflow publishes on 0.
Judge ==
    /\ pc = "judge"
    /\ \E early \in BOOLEAN :
          published' = Gates(early)
    /\ IF published' THEN UNCHANGED <<snap, tried>> ELSE snap' = {} /\ tried' = {}
    /\ Idle
    /\ UNCHANGED <<clock, tree, used, database, clash, coverage>>

\* The process is killed: the job's timeout, a cancellation, the machine.
Die ==
    /\ pc # "idle" /\ "die" \in Faults
    /\ Exits

Step ==
    \/ RunBatch
    \/ HashUnavailable
    \/ EndSearches
    \/ ReadSources
    \/ WriteSource
    \/ WriteFails
    \/ Export
    \/ Judge

Next == UtcMidnight \/ LocalMidnight \/ StartRun \/ Step \/ Die

Spec == Init /\ [][Next]_vars

-----------------------------------------------------------------------------
TypeOK ==
    /\ day \in 0 .. Cycle - 1 /\ late \in BOOLEAN
    /\ tree \in Trees /\ used \subseteq Trees
    /\ priced \subseteq Offers /\ seen \in [Offers -> {"run", "day", "eve", "old"}]
    /\ known \in [Shops -> (UNION {Accepts[s] : s \in Shops}) \cup {"none"}]
    /\ pc \in {"idle", "search", "read", "write", "judge"}
    /\ next \in 1 .. Len(plan.batches) + Len(RefreshSources) + 1
    /\ empty + skipped <= Len(plan.batches)
    /\ read \in [Offers -> EanAnswers \cup {"none", "due"}]
    /\ snap \subseteq Offers /\ tried \subseteq Offers
    /\ published \in BOOLEAN /\ failed \in BOOLEAN
    /\ today \subseteq Categories /\ gap \in [Categories -> Nat]

(* What is published was looked at: every offer of a published snapshot was *)
(* observed by the run that published it, or its read failed or its row was *)
(* refused in that run (topup.ts:56, :130; refresh-catalog.ts:320-331).     *)
PublishedIsAttempted ==
    published => \A o \in snap : seen[o] = "run" \/ o \in tried

(* No store is published stale behind the others: of each store's offers in *)
(* a published snapshot the floor's share, less the half tenth of a percent *)
(* that the rounding lets pass, was observed on this date or the date       *)
(* before (refresh-catalog.ts:138-153, refresh-gates.ts:50).                *)
PublishedStoreIsFresh ==
    published =>
        \A s \in Shops :
            LET shown == {o \in snap : StoreOf[o] = s}
            IN 2000 * Cardinality({o \in shown : seen[o] # "old"})
                  >= (20 * FreshnessFloor - 1) * Cardinality(shown)

(* The run of a store records no other store's hash, whichever batches ran  *)
(* before it in the process (refresh-catalog.ts:269-279): the hash a later  *)
(* run starts from is one this store accepted.                              *)
HashBelongsToStore ==
    \A s \in Shops : known[s] # "none" => known[s] \in Accepts[s]

(* A batch meets the checkpoint of another contract only in a run started   *)
(* between the two midnights, when the plan has turned and the date of the  *)
(* ids has not, or on a date whose runs read trees with different plans     *)
(* (refresh-catalog.ts:50, resolve-refresh-plan.ts:91-98, 116-121).         *)
ClashHasCause ==
    clash => late \/ \E t, u \in used : BuildDiscoveryPlan(t, day) # BuildDiscoveryPlan(u, day)

(* While the trees stay as they are, every name of a store whose quota      *)
(* reaches all its departments is searched at least once in windowDays days *)
(* of whole discovered plans (category-plan.ts: rotateCategoryPlan).        *)
CoveredInWindow == \A c \in WithinQuota[tree] : gap[c] < WindowDays[tree]

(* A read that failed is not an answer: in the top-up an offer loses its    *)
(* price only when the store said it is sold out or absent                  *)
(* (topup-reads.ts:38-47, topup.ts:17-18).                                  *)
PriceLostOnAnswer ==
    [][\A o \in Offers :
          (pc = "write" /\ o \in priced /\ o \notin priced') => read[o] = "gone"]_vars

(* Types, and what holds of the hashes and of the offers whichever batches  *)
(* ran, failed or were replayed before.                                     *)
Inv == TypeOK /\ PublishedIsAttempted /\ HashBelongsToStore
===============================================================================
