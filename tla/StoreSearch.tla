------------------------------ MODULE StoreSearch ------------------------------
(***************************************************************************)
(* How one batch asks its store: the attempts of search-fallback.ts, the   *)
(* paged and the persisted search of src/lib/vtex/client.ts, the pages of  *)
(* src/lib/coto/client.ts, what stage.ts keeps of them, and the resolution *)
(* of a store's persisted-query hash.  What the store answers is given;    *)
(* these definitions say what the code makes of the answer.                *)
(*                                                                         *)
(* A record of an answer is <<offer, sight>>: the sight is "priced",       *)
(* "soldout" (listed, not sold: staged without a price), "spike" (priced,  *)
(* refused by a quality gate) or "junk" (no GTIN or name: dropped).  A     *)
(* request that fails here has failed on each of its tries.                *)
(***************************************************************************)
EXTENDS Naturals, FiniteSets, SequencesExt

CONSTANTS
    VtexSources,   \* the stores searched through VTEX; the others as Coto
    PageSize,      \* records of a page (50 VTEX, 200 Coto)
    PageCap,       \* records of a paged search (resultsPerBatch)
    Words          \* Words[name]: the single words a name is retried with

ASSUME SearchConstants ==
    /\ PageSize \in Nat \ {0} /\ PageCap \in Nat \ {0}
    /\ \A n \in DOMAIN Words : Words[n] \in Seq(ToSet(Words[n]))

Sights == {"priced", "soldout", "spike", "junk"}
IsProduct(x) == x[2] # "junk"

\* An answer: what the store lists, and the page that fails (0: none).
Answer(list, failsAt) == [list |-> list, failsAt |-> failsAt]

Raised == [raised |-> TRUE, sights |-> {}]

\* normalizeVtexCatalogPayload, normalizeCotoResult: junk is dropped.  Of an
\* offer listed twice a paged search keeps the first record.
FirstSights(q) ==
    {q[i] : i \in {k \in DOMAIN q :
                    IsProduct(q[k]) /\ \A j \in 1 .. k - 1 : IsProduct(q[j]) => q[j][1] # q[k][1]}}

\* dedupeVtexProducts: the persisted search keeps the last one.
LastSights(q) == FirstSights(Reverse(q))

\* The records of page p, and whether reading goes on after it.  VTEX is asked
\* for positions; Coto for a page number, which counts pages of the size asked.
PageRequest(p) == IF p * PageSize <= PageCap THEN PageSize ELSE PageCap - (p - 1) * PageSize
Offset(s, p) == (p - 1) * (IF s \in VtexSources THEN PageSize ELSE PageRequest(p))
Page(s, a, p) ==
    LET end == Offset(s, p) + PageRequest(p)
    IN SubSeq(a.list, Offset(s, p) + 1, IF end < Len(a.list) THEN end ELSE Len(a.list))
Exhausted(s, a, p) == Len(Page(s, a, p)) < PageRequest(p) \/ p * PageSize >= PageCap

\* fetchVtexCatalogPages, fetchCotoProducts: a first page that fails raises,
\* a later one ends the reading with what was read.
ReadPages(s, a) ==
    IF a.failsAt = 1 THEN Raised
    ELSE LET last == CHOOSE p \in 1 .. PageCap :
                        /\ Exhausted(s, a, p) \/ a.failsAt = p + 1
                        /\ \A r \in 1 .. p - 1 : ~Exhausted(s, a, r) /\ a.failsAt # r + 1
             records == FlattenSeq([p \in 1 .. last |-> Page(s, a, p)])
         IN [raised |-> FALSE, sights |-> FirstSights(records)]

\* fetchVtexProducts: one page through the persisted query.  Without a hash it
\* raises; a hash the store refuses is answered by one text search instead.
ReadPersisted(s, a, hash) ==
    IF hash = "none" \/ a.failsAt = 1 THEN Raised
    ELSE [raised |-> FALSE, sights |-> LastSights(Page(s, a, 1))]

-----------------------------------------------------------------------------
(* A batch's attempts: the category, its name, up to three words of it.     *)

SearchAttempts(b) ==
    (IF b.path # <<>> THEN << <<"category", b.path>> >> ELSE <<>>)
        \o << <<"text", b.term>> >>
        \o [i \in DOMAIN Words[b.term] |-> <<"text", Words[b.term][i]>>]

\* searchUsesPersistedQuery
UsesPersistedQuery(path, wide) == path = <<>> /\ ~wide

\* One attempt against the answer it gets (the adapters' fetchProducts).
Stage(b, attempt, a, hash) ==
    IF /\ b.source \in VtexSources
       /\ UsesPersistedQuery(IF attempt[1] = "category" THEN attempt[2] ELSE <<>>, b.wide)
    THEN ReadPersisted(b.source, a, hash) ELSE ReadPages(b.source, a)

Staged(b, answers, hash) ==
    [k \in DOMAIN SearchAttempts(b) |-> Stage(b, SearchAttempts(b)[k], answers[k], hash)]

Nothing == [raised |-> FALSE, sights |-> {}]

\* stageWithFallbackTerms: the attempts stop at the first that finds products
\* and at the first that raises.
Search(b, answers, hash) ==
    LET staged == Staged(b, answers, hash)
        told == {k \in DOMAIN staged : staged[k].raised \/ staged[k].sights # {}}
    IN IF told = {} THEN Nothing
       ELSE staged[CHOOSE k \in told : \A j \in told : k <= j]

-----------------------------------------------------------------------------
(* The store's persisted-query hash.                                        *)

\* probeVtexHash: the store answers the query with it, and the answer is of
\* the search operation.
Probe(hash, accepted) == hash \in accepted

\* discoverVtexHash: the first hash of the storefront that passes the probe.
Discover(offered, accepted) ==
    LET passing == {h \in offered : Probe(h, accepted)}
    IN IF passing = {} THEN "none" ELSE CHOOSE h \in passing : TRUE

\* resolveVtexHash: configured, last known, discovered; "none" is the error.
ResolveHash(explicit, lastKnown, accepted, offered) ==
    IF Probe(explicit, accepted) THEN explicit
    ELSE IF Probe(lastKnown, accepted) THEN lastKnown
    ELSE Discover(offered, accepted)
===============================================================================
