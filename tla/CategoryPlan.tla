----------------------------- MODULE CategoryPlan -----------------------------
(***************************************************************************)
(* The search plan of one day: src/lib/discovery/category-plan.ts and      *)
(* scripts/pipeline/resolve-refresh-plan.ts.  A store's category tree is a *)
(* sequence of departments, each with its children in tree order; the      *)
(* configuration names the departments to search and each store's quota.   *)
(* Names are folded (normalizeCategoryName) before anything is compared,   *)
(* so a name here is a folded one; a category's path is the pair of its    *)
(* department's and its own id.  The stores answer their trees anew to     *)
(* every run: the plan is a function of these trees, t, and of the day.    *)
(***************************************************************************)
EXTENDS Integers, FiniteSets, SequencesExt

CONSTANTS
    Sources,       \* configured stores, in the order of the configuration
    Trees,         \* what the stores' trees may be, named
    Tree,          \* Tree[t][s]: departments [id, name, children: Seq([id, name])]
    Allowlist,     \* Allowlist[s]: the department names searched
    Override,      \* Override[s]: maxBatches of a store of its own quota, or 0
    MaxBatches,    \* maxBatchesPerRun, shared by the other stores
    Wide,          \* TRUE: resultsPerBatch is above one autocomplete page
    FrozenPlan     \* the plan kept in the repository: Seq(batch)

ASSUME PlanConstants ==
    /\ Sources \in Seq(ToSet(Sources))
    /\ \A t \in Trees : \A s \in ToSet(Sources) :
          /\ Tree[t][s] \in Seq(ToSet(Tree[t][s]))
          /\ \A d \in ToSet(Tree[t][s]) : d.children \in Seq(ToSet(d.children))
    /\ FrozenPlan \in Seq(ToSet(FrozenPlan))
    /\ MaxBatches \in Nat \ {0}
    /\ \A s \in ToSet(Sources) : Override[s] \in Nat
    /\ Wide \in BOOLEAN

\* The elements of q at the positions in S, in their order.
Selection(q, S) ==
    [k \in 1 .. Cardinality(S) |-> q[CHOOSE i \in S : Cardinality({j \in S : j <= i}) = k]]

\* A Set or a Map filled in order keeps the first occurrence.
Distinct(q) == Selection(q, {i \in DOMAIN q : \A j \in 1 .. i - 1 : q[j] # q[i]})

-----------------------------------------------------------------------------
(* Which categories a store's plan is made of.                              *)

\* directChildTerms: a department without children is searched by its name.
ChildCategories(d) ==
    IF d.children = <<>>
    THEN << [name |-> d.name, path |-> <<d.id, 0>>] >>
    ELSE [i \in DOMAIN d.children |->
            [name |-> d.children[i].name, path |-> <<d.id, d.children[i].id>>]]

MatchedDepartments(t, s) ==
    Selection(Tree[t][s], {i \in DOMAIN Tree[t][s] : Tree[t][s][i].name \in Allowlist[s]})

Names(cats) == [i \in DOMAIN cats |-> cats[i].name]

\* collectCategoryTerms: one group of names per matched department.
ByDepartment(t, s) ==
    [i \in DOMAIN MatchedDepartments(t, s) |->
        Distinct(Names(ChildCategories(MatchedDepartments(t, s)[i])))]

\* pathsByTerm: the path of a name's first occurrence in the tree.
CategoryPath(t, s, name) ==
    LET all == FlattenSeq([i \in DOMAIN MatchedDepartments(t, s) |->
                             ChildCategories(MatchedDepartments(t, s)[i])])
        first == CHOOSE i \in DOMAIN all :
                    all[i].name = name /\ \A j \in 1 .. i - 1 : all[j].name # name
    IN all[first].path

-----------------------------------------------------------------------------
(* Rotation by the day and the store's quota.                               *)

Rotate(q, n) ==
    [i \in DOMAIN q |-> q[((i - 1 + n) % Len(q)) + 1]]

\* Mutant: only the order of the departments turns.
RotateDepartments(groups, rotationDay) == Rotate(groups, rotationDay)

RotateCategoryPlan(groups, rotationDay) ==
    LET turned == Rotate(groups, rotationDay)
    IN [i \in DOMAIN turned |-> Rotate(turned[i], rotationDay)]

\* interleaveCategoryTerms: the k-th name of every department, then the next.
InterleaveCategoryTerms(groups) ==
    LET depth == IF groups = <<>> THEN 0
                 ELSE CHOOSE n \in {Len(groups[i]) : i \in DOMAIN groups} :
                        \A i \in DOMAIN groups : Len(groups[i]) <= n
        row(k) == LET deep == Selection(groups, {i \in DOMAIN groups : Len(groups[i]) >= k})
                  IN [i \in DOMAIN deep |-> deep[i][k]]
    IN Distinct(FlattenSeq([k \in 1 .. depth |-> row(k)]))

SharedSources == Selection(Sources, {i \in DOMAIN Sources : Override[Sources[i]] = 0})

\* quotaFor: the cap is split evenly, the earlier stores take the remainder.
QuotaFor(s) ==
    IF Override[s] > 0 THEN Override[s]
    ELSE LET n == Len(SharedSources)
             rank == CHOOSE i \in 1 .. n : SharedSources[i] = s
         IN MaxBatches \div n + IF rank <= MaxBatches % n THEN 1 ELSE 0

StoreTerms(t, s, rotationDay) ==
    LET ordered == InterleaveCategoryTerms(RotateCategoryPlan(ByDepartment(t, s), rotationDay))
    IN SubSeq(ordered, 1, IF Len(ordered) < QuotaFor(s) THEN Len(ordered) ELSE QuotaFor(s))

\* buildDiscoveryPlan: a batch's ordinal is its place in the plan.
BuildDiscoveryPlan(t, rotationDay) ==
    FlattenSeq([i \in DOMAIN Sources |->
        [k \in DOMAIN StoreTerms(t, Sources[i], rotationDay) |->
            [source |-> Sources[i], term |-> StoreTerms(t, Sources[i], rotationDay)[k],
             path |-> CategoryPath(t, Sources[i], StoreTerms(t, Sources[i], rotationDay)[k]),
             wide |-> Wide]]])

WindowDays == [t \in Trees |->
    LET sizes == UNION {{Len(ByDepartment(t, s)[i]) : i \in DOMAIN ByDepartment(t, s)} :
                          s \in ToSet(Sources)}
    IN CHOOSE n \in sizes \cup {0} : \A m \in sizes : m <= n]

-----------------------------------------------------------------------------
(* The plan of a run: discovered, or the frozen one when a tree read, its   *)
(* parse or the configuration fails, or when nothing matches.               *)

ResolvePlan(t, rotationDay, treesRead) ==
    IF treesRead /\ BuildDiscoveryPlan(t, rotationDay) # <<>>
    THEN [mode |-> "discovered", batches |-> BuildDiscoveryPlan(t, rotationDay)]
    ELSE [mode |-> "fallback", batches |-> FrozenPlan]

\* The categories of a store that some day's plan of these trees can name.
CategoriesOf(t, s) ==
    {<<s, n>> : n \in UNION {ToSet(ByDepartment(t, s)[i]) : i \in DOMAIN ByDepartment(t, s)}}

CategoriesIn == [t \in Trees |-> UNION {CategoriesOf(t, s) : s \in ToSet(Sources)}]

Categories == UNION {CategoriesIn[t] : t \in Trees}

\* Those of the stores whose quota reaches every department every day.
WithinQuota == [t \in Trees |->
    UNION {CategoriesOf(t, s) :
             s \in {r \in ToSet(Sources) : Len(ByDepartment(t, r)) <= QuotaFor(r)}}]
===============================================================================
