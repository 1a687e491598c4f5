----------------------------- MODULE IngestGates -----------------------------
(***************************************************************************)
(* What the ingestion command and the candidate audit decide before        *)
(* anything is written: scripts/ingest-options.ts (the flags and the       *)
(* safety rules of a write), pre-reconcile-assertions.ts (the last gate    *)
(* before the catalog), candidate-snapshot.ts (the hash that ties a write  *)
(* to an audit) and the checks of candidate-audit.ts.                      *)
(*                                                                         *)
(* A quote stands for everything a store says of a product: its price and  *)
(* its texts.  Lists of candidates are sets: the adapters key them by EAN, *)
(* and a store ranks its answer as it likes.                               *)
(***************************************************************************)
EXTENDS Naturals, FiniteSets, SequencesExt

CONSTANTS
    Sources,       \* slugs of the active VTEX stores
    Eans, Quotes,
    None,          \* a flag that is absent, an empty column
    Unpriced,      \* quotes with a null price, or one that is not positive
    Garbled,       \* quotes whose texts carry encoding damage
    Spiked,        \* quotes that a blocking quality gate refuses
    StoredAs,      \* the quote the two-decimal columns give back
    Damaged,       \* the one store whose damaged texts may be waived ("dia")
    DefaultTerms,  \* the terms searched when no flag names one
    Phase4Term,    \* "leche"
    Phase4Count,   \* 5
    MaxCount,      \* 25: REFRESH_EXISTING_MAX_COUNT
    MaxScan        \* 50: REFRESH_EXISTING_MAX_SCAN_COUNT

ASSUME GateConstants ==
    /\ IsFiniteSet(Sources) /\ IsFiniteSet(Eans)
    /\ None \notin Sources \cup Eans \cup Quotes
    /\ Unpriced \cup Garbled \cup Spiked \subseteq Quotes
    /\ StoredAs \in [Quotes -> Quotes]
    /\ \A q \in Quotes : StoredAs[StoredAs[q]] = StoredAs[q]
    /\ {Phase4Count, MaxCount, MaxScan} \subseteq Nat \ {0}

Row == [ean : Eans, quote : Quotes]

EansOf(R) == {r.ean : r \in R}

-----------------------------------------------------------------------------
(* The flags.                                                               *)

WriteModes == {"phase4-count5", "refresh-existing"}
Selections == {"strict", "existing-only"}

\* parseIngestionOptions: an unknown INGESTION_V2 means shadow, and the scan is
\* as wide as the count unless a flag says otherwise.
Parsed(f) ==
    [f EXCEPT !.mode = IF f.mode \in {"off", "active"} THEN f.mode ELSE "shadow",
              !.scan = IF f.scan > 0 THEN f.scan ELSE f.count]

Distinct(list) == IsInjective(list)

One(list) == list # None /\ Len(list) = 1

\* validateActiveWriteGates
ActiveWriteGates(o) ==
    /\ o.confirmed /\ ~o.allSources
    /\ One(o.filter)
    /\ One(o.terms)

\* validateRefreshExistingWrite, with the window of an existing-only scan
RefreshExistingWrite(o) ==
    /\ o.hash # None
    /\ o.expected # None /\ o.expected # <<>>
    /\ o.count <= MaxCount
    /\ o.count = Len(o.expected)
    /\ o.selection = "existing-only" => o.scan \in o.count .. MaxScan
    /\ Distinct(o.expected)

\* validatePhase4Write
Phase4Write(o) ==
    /\ o.selection = "strict"
    /\ o.terms[1] = Phase4Term
    /\ o.count = Phase4Count
    /\ o.expected # None /\ Len(o.expected) = Phase4Count
    /\ Distinct(o.expected)

\* validateIngestionSafety
Safe(o) ==
    \/ o.mode # "active"
    \/ o.dryRun
    \/ /\ ActiveWriteGates(o)
       /\ IF o.writeMode = "refresh-existing" THEN RefreshExistingWrite(o)
                                              ELSE Phase4Write(o)

\* resolveStageOptions: an existing-only refresh scans wider than it writes and
\* keeps the EANs it was told.
FetchCount(o) == IF o.selection = "existing-only" THEN o.scan ELSE o.count

Terms(o) == IF o.terms = None \/ o.terms = <<>> THEN DefaultTerms ELSE o.terms
FirstTerm(o) == IF o.terms = None \/ o.terms = <<>> THEN None ELSE o.terms[1]

Kept(o, R) ==
    IF o.selection = "existing-only" /\ o.expected # None /\ o.expected # <<>>
    THEN {r \in R : r.ean \in ToSet(o.expected)}
    ELSE R

-----------------------------------------------------------------------------
(* The hash and the last gate.                                              *)

\* Mutant: the hash covers the EANs alone.
SnapshotHashOfEans(s, term, count, mode, R) ==
    [source |-> s, term |-> term, count |-> count, mode |-> mode,
     rows |-> {[r EXCEPT !.quote = None] : r \in R}]

\* buildCandidateSnapshotHash.  SHA-256 of the sorted payload: the payload.
SnapshotHash(s, term, count, mode, R) ==
    [source |-> s, term |-> term, count |-> count, mode |-> mode, rows |-> R]

Execution(status, queries, hash, rows, rejected) ==
    [status |-> status, queries |-> queries, hash |-> hash,
     rows |-> rows, rejected |-> rejected]

\* assertExecutionSummary and assertCandidatesUsable
Usable(x) ==
    /\ x.rejected = {}
    /\ \A r \in x.rows : r.quote \notin Unpriced

\* Mutant: it is enough that there are as many candidates.
ExpectedCount(list, R) == Cardinality(R) = Len(list)

\* assertCandidateSet and compareExpectedEans
ExpectedExactly(list, R) ==
    /\ Cardinality(R) = Len(list)
    /\ EansOf(R) = ToSet(list)

\* assertChunkPreReconcileGate, over the executions of the batch by store
ChunkGate(list, hash, X) ==
    /\ list # <<>> /\ Distinct(list)
    /\ \E s \in DOMAIN X :
         /\ DOMAIN X = {s}
         /\ X[s].queries = 1
         /\ hash # None => X[s].hash = hash
         /\ Usable(X[s])
         /\ ExpectedExactly(list, X[s].rows)

\* assertPreReconcile chooses the gate by the write mode; Phase 4 takes no hash.
PreReconcileGate(o, X) ==
    IF o.writeMode = "refresh-existing"
    THEN ChunkGate(o.expected, o.hash, X)
    ELSE Len(o.expected) = Phase4Count /\ ChunkGate(o.expected, None, X)

\* shouldFailForRequestedSourceHealth
RequestedSourceFailed(o, X) ==
    /\ o.filter # None
    /\ \E s \in DOMAIN X : s \in ToSet(o.filter) /\ X[s].status = "FAILED"

-----------------------------------------------------------------------------
(* The audit.  A request names one store and one term (assertAuditScope).   *)

\* assertAuditWriteMode and assertSelectionOptions
AuditAdmits(a) ==
    /\ a.mode = "phase4-count5" => a.count = Phase4Count
    /\ a.mode = "refresh-existing" => a.count <= MaxCount
    /\ a.selection = "existing-only" =>
         a.mode = "refresh-existing" /\ a.scan \in a.count .. MaxScan
    /\ a.waived # {} => a.source = Damaged

\* assertCandidateCountForSelection, the prices, the texts and their waivers
AuditableAnswer(a, R) ==
    /\ Cardinality(R) = IF a.selection = "existing-only" THEN a.scan ELSE a.count
    /\ \A r \in R : r.quote \notin Unpriced
    /\ \A r \in R : r.quote \in Garbled => r.ean \in a.waived

\* selectExistingCandidates keeps the first known ones, whichever the store
\* ranked first; a strict audit keeps its answer or refuses it
\* (assertCandidateSetPresent, requireAllowedMissingSupermarketProducts).
AuditSelections(a, R, known, offered) ==
    IF a.selection = "existing-only"
    THEN {S \in SUBSET R : /\ Cardinality(S) = a.count
                           /\ EansOf(S) \subseteq known \cap offered}
    ELSE {S \in {R} :
            /\ EansOf(R) \subseteq known
            /\ EansOf(R) \ offered =
                 IF a.mode = "refresh-existing" THEN {} ELSE a.missing
            /\ Cardinality(a.missing) <= 1}
===============================================================================
