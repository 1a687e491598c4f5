--------------------------- MODULE IngestionProofs ---------------------------
(***************************************************************************)
(* Proofs about the ingestion command and its audit, for any stores, EANs  *)
(* and quotes, any commands and audits asked for, any number stores read   *)
(* at a time.                                                              *)
(*                                                                         *)
(* What the last gate establishes of the executions in memory has to be    *)
(* said of the staged rows, which is what the transaction takes.  Three    *)
(* layers: types (TypeInv), what memory, runs and staging of the batch     *)
(* under way say of each other (BatchInv), and what the files of the audit *)
(* say of the catalog (AuditInv).                                          *)
(***************************************************************************)
EXTENDS Ingestion, SequenceTheorems, FiniteSetTheorems, TLAPS

-----------------------------------------------------------------------------
(* Rows, points and sequences.                                              *)

\* One row per EAN.
Keyed(R) == \A x, y \in R : x.ean = y.ean => x = y

Point == [source : Sources, ean : Eans, quote : Quotes]

\* The rows without what staging adds.
Plain(R) == {[ean |-> r.ean, quote |-> r.quote] : r \in R}

\* Leaving out what staging adds leaves the EANs.
LEMMA PlainEans == ASSUME NEW R PROVE EansOf(Plain(R)) = EansOf(R)
<1>1. \A p \in Plain(R) : \E r \in R : p = [ean |-> r.ean, quote |-> r.quote]
  BY DEF Plain
<1>2. \A r \in R : [ean |-> r.ean, quote |-> r.quote] \in Plain(R)
  BY DEF Plain
<1>3. ASSUME NEW e \in EansOf(Plain(R)) PROVE e \in EansOf(R)
  BY <1>1 DEF EansOf
<1>4. ASSUME NEW e \in EansOf(R) PROVE e \in EansOf(Plain(R))
  <2>1. PICK r \in R : e = r.ean
    BY DEF EansOf
  <2> DEFINE p == [ean |-> r.ean, quote |-> r.quote]
  <2>2. p \in Plain(R) /\ p.ean = e
    BY <1>2, <2>1
  <2> HIDE DEF p
  <2> QED BY <2>2 DEF EansOf
<1> QED BY <1>3, <1>4

\* An enumeration of a finite set is a sequence over it.
LEMMA SetToSeqIsSeq ==
    ASSUME NEW S, IsFiniteSet(S)
    PROVE  SetToSeq(S) \in Seq(S)
<1>1. Cardinality(S) \in Nat /\ ExistsBijection(1 .. Cardinality(S), S)
  BY FS_CardinalityType
<1>2. PICK f : f \in Bijection(1 .. Cardinality(S), S)
  BY <1>1 DEF ExistsBijection
<1>3. f \in [1 .. Cardinality(S) -> S] /\ IsInjective(f)
  BY <1>2 DEF Bijection, Injection
<1>4. SetToSeq(S) \in [1 .. Cardinality(S) -> S]
  BY <1>3 DEF SetToSeq
<1> QED BY <1>1, <1>4

\* A set of rows with at most one per EAN is finite, whatever else rows hold.
LEMMA KeyedIsFinite ==
    ASSUME NEW R, \A r \in R : r.ean \in Eans, Keyed(R)
    PROVE  IsFiniteSet(R)
<1> DEFINE f == [r \in R |-> r.ean]
<1>1. f \in Injection(R, Eans)
  BY DEF Keyed, Injection, IsInjective
<1>2. IsFiniteSet(Eans)
  BY GateConstants
<1> HIDE DEF f
<1> QED BY <1>1, <1>2, FS_Injection

\* Points of which no two are of one offer are finitely many: a sequence.
LEMMA PointsAreFinite ==
    ASSUME NEW P, P \subseteq Point,
           \A x, y \in P : x.source = y.source /\ x.ean = y.ean => x = y
    PROVE  SetToSeq(P) \in Seq(Point)
<1> DEFINE f == [p \in P |-> <<p.source, p.ean>>]
<1>1. f \in Injection(P, Sources \X Eans)
  <2>1. f \in [P -> Sources \X Eans]
    BY DEF Point
  <2>2. \A x, y \in P : f[x] = f[y] => x = y
    OBVIOUS
  <2>3. DOMAIN f = P
    OBVIOUS
  <2> HIDE DEF f
  <2> QED BY <2>1, <2>2, <2>3 DEF Injection, IsInjective
<1>2. IsFiniteSet(Sources \X Eans)
  BY GateConstants, FS_Product
<1>3. IsFiniteSet(P)
  <2> HIDE DEF f
  <2> QED BY <1>1, <1>2, FS_Injection
<1>4. SetToSeq(P) \in Seq(P)
  BY <1>3, SetToSeqIsSeq
<1>5. Seq(P) \subseteq Seq(Point)
  OBVIOUS
<1> QED BY <1>4, <1>5

\* What was there before an addition is the beginning of the sequence after it.
LEMMA PrefixIsKept ==
    ASSUME NEW X, NEW s \in Seq(X), NEW t \in Seq(X)
    PROVE  s \o t \in Seq(X) /\ SubSeq(s \o t, 1, Len(s)) = s
<1>1. s \o t \in Seq(X)
  OBVIOUS
<1>2. Len(s) \in Nat /\ Len(s \o t) = Len(s) + Len(t) /\ Len(t) \in Nat
  OBVIOUS
<1> DEFINE u == SubSeq(s \o t, 1, Len(s))
<1>3. u \in Seq(X) /\ Len(u) = Len(s)
  BY <1>1, <1>2
<1>4. \A i \in 1 .. Len(s) : u[i] = s[i]
  BY <1>1, <1>2
<1> HIDE DEF u
<1>5. u = s
  BY <1>3, <1>4, SeqEqual
<1> QED BY <1>1, <1>5 DEF u

\* Rows with one EAN each give each store at most one quote per offer.
LEMMA NewPointsTypes ==
    ASSUME NEW H, NEW s \in Sources, NEW R, Keyed(R),
           \A r \in R : r.ean \in Eans /\ r.quote \in Quotes
    PROVE  /\ NewPoints(H, s, R) \subseteq Point
           /\ \A p \in NewPoints(H, s, R) : p.source = s
           /\ \A x, y \in NewPoints(H, s, R) : x.ean = y.ean => x = y
<1>1. \A p \in NewPoints(H, s, R) : \E r \in R : p = [source |-> s, ean |-> r.ean, quote |-> r.quote]
  BY DEF NewPoints
<1>2. NewPoints(H, s, R) \subseteq Point
  BY <1>1 DEF Point
<1>3. \A p \in NewPoints(H, s, R) : p.source = s
  BY <1>1
<1>4. ASSUME NEW x \in NewPoints(H, s, R), NEW y \in NewPoints(H, s, R), x.ean = y.ean
      PROVE  x = y
  <2>1. PICK r \in R : x = [source |-> s, ean |-> r.ean, quote |-> r.quote]
    BY <1>1
  <2>2. PICK q \in R : y = [source |-> s, ean |-> q.ean, quote |-> q.quote]
    BY <1>1
  <2>3. r = q
    BY <2>1, <2>2, <1>4 DEF Keyed
  <2> QED BY <2>1, <2>2, <2>3
<1> QED BY <1>2, <1>3, <1>4

\* An offer shows the quote of its row, or stays as it was.
LEMMA WithOffersTypes ==
    ASSUME NEW O \in [Sources -> [Eans -> Quotes \cup {None}]], NEW s \in Sources, NEW R,
           \A r \in R : r.quote \in Quotes
    PROVE  /\ WithOffers(O, s, R) \in [Sources -> [Eans -> Quotes \cup {None}]]
           /\ \A t \in Sources : t # s => WithOffers(O, s, R)[t] = O[t]
           /\ \A e \in Eans : WithOffers(O, s, R)[s][e] =
                 IF e \in EansOf(R) THEN (CHOOSE r \in R : r.ean = e).quote ELSE O[s][e]
<1> DEFINE row == [e \in Eans |-> IF e \in EansOf(R)
                                  THEN (CHOOSE r \in R : r.ean = e).quote ELSE O[s][e]]
<1>1. WithOffers(O, s, R) = [O EXCEPT ![s] = row]
  BY DEF WithOffers
<1>2. ASSUME NEW e \in Eans PROVE row[e] \in Quotes \cup {None}
  <2>1. CASE e \in EansOf(R)
    <3>1. \E r \in R : r.ean = e
      BY <2>1 DEF EansOf
    <3>2. (CHOOSE r \in R : r.ean = e) \in R
      BY <3>1
    <3> QED BY <2>1, <3>2
  <2>2. CASE e \notin EansOf(R)
    BY <2>2
  <2> QED BY <2>1, <2>2
<1>3. row \in [Eans -> Quotes \cup {None}]
  BY <1>2
<1>4. \A e \in Eans : row[e] =
         IF e \in EansOf(R) THEN (CHOOSE r \in R : r.ean = e).quote ELSE O[s][e]
  OBVIOUS
<1> HIDE DEF row
<1> QED BY <1>1, <1>3, <1>4

\* The row of an EAN, where rows have one EAN each.
LEMMA ChosenRow ==
    ASSUME NEW R, Keyed(R), NEW q \in R
    PROVE  (CHOOSE r \in R : r.ean = q.ean) = q
BY DEF Keyed

\* What a store sells, and every part of it, has one row per EAN.
LEMMA AnswersAreRows ==
    ASSUME shelf \in [Sources -> [Eans -> Quotes \cup {None}]],
           NEW s \in Sources, NEW n, NEW R \in Answers(s, n)
    PROVE  R \subseteq Row /\ Keyed(R)
<1>1. \A r \in R : \E e \in Eans : shelf[s][e] # None /\ r = [ean |-> e, quote |-> shelf[s][e]]
  BY DEF Answers, Stocked
<1>2. R \subseteq Row
  BY <1>1 DEF Row
<1>3. Keyed(R)
  <2> SUFFICES ASSUME NEW x \in R, NEW y \in R, x.ean = y.ean PROVE x = y
    BY DEF Keyed
  <2> QED BY <1>1
<1> QED BY <1>2, <1>3

\* What a command keeps of an answer is a part of it.
LEMMA KeptRows ==
    ASSUME NEW o, NEW R, R \subseteq Row, Keyed(R)
    PROVE  Kept(o, R) \subseteq Row /\ Keyed(Kept(o, R))
BY DEF Kept, Keyed

\* Staging rounds the prices and keeps the EANs.
LEMMA PendingTypes ==
    ASSUME NEW R, R \subseteq Row, Keyed(R)
    PROVE  /\ Pending(AsStored(R)) \subseteq StagedRow
           /\ Keyed(Pending(AsStored(R)))
           /\ \A r \in Pending(AsStored(R)) : ~r.taken
<1>1. \A p \in AsStored(R) : \E r \in R : p = [ean |-> r.ean, quote |-> StoredAs[r.quote]]
  BY DEF AsStored, Row
<1>2. \A p \in Pending(AsStored(R)) : \E r \in R :
        p = [ean |-> r.ean, quote |-> StoredAs[r.quote], verdict |-> "PENDING", taken |-> FALSE]
  <2> TAKE p \in Pending(AsStored(R))
  <2>1. PICK q \in AsStored(R) :
          p = [ean |-> q.ean, quote |-> q.quote, verdict |-> "PENDING", taken |-> FALSE]
    BY DEF Pending
  <2>2. PICK r \in R : q = [ean |-> r.ean, quote |-> StoredAs[r.quote]]
    BY <1>1
  <2> QED BY <2>1, <2>2
<1>3. Pending(AsStored(R)) \subseteq StagedRow
  <2> SUFFICES ASSUME NEW p \in Pending(AsStored(R)) PROVE p \in StagedRow
    OBVIOUS
  <2>1. PICK r \in R :
          p = [ean |-> r.ean, quote |-> StoredAs[r.quote], verdict |-> "PENDING", taken |-> FALSE]
    BY <1>2
  <2>2. r.ean \in Eans /\ r.quote \in Quotes
    BY DEF Row
  <2>3. StoredAs[r.quote] \in Quotes
    BY <2>2, GateConstants
  <2> QED BY <2>1, <2>2, <2>3 DEF StagedRow
<1>4. Keyed(Pending(AsStored(R)))
  <2> SUFFICES ASSUME NEW x \in Pending(AsStored(R)), NEW y \in Pending(AsStored(R)),
                      x.ean = y.ean
               PROVE  x = y
    BY DEF Keyed
  <2>1. PICK r \in R :
          x = [ean |-> r.ean, quote |-> StoredAs[r.quote], verdict |-> "PENDING", taken |-> FALSE]
    BY <1>2
  <2>2. PICK q \in R :
          y = [ean |-> q.ean, quote |-> StoredAs[q.quote], verdict |-> "PENDING", taken |-> FALSE]
    BY <1>2
  <2>3. r = q
    BY <2>1, <2>2 DEF Keyed
  <2> QED BY <2>1, <2>2, <2>3
<1>5. \A r \in Pending(AsStored(R)) : ~r.taken
  BY <1>2
<1> QED BY <1>3, <1>4, <1>5

\* What a transaction takes of staging.
Takes(S) == {[r EXCEPT !.taken = r.verdict = "PENDING"] : r \in S}

\* What the quality gates make of it.
Judges(S) == {[r EXCEPT !.verdict = Verdict(r)] : r \in S}

\* A transaction marks the accepted rows taken and changes nothing else of them.
LEMMA TakesRows ==
    ASSUME NEW S, S \subseteq StagedRow, Keyed(S)
    PROVE  /\ Takes(S) \subseteq StagedRow
           /\ Keyed(Takes(S))
           /\ \A p \in Takes(S) : \E r \in S :
                p = [ean |-> r.ean, quote |-> r.quote, verdict |-> r.verdict,
                     taken |-> (r.verdict = "PENDING")]
           /\ \A r \in S : [ean |-> r.ean, quote |-> r.quote, verdict |-> r.verdict,
                            taken |-> (r.verdict = "PENDING")] \in Takes(S)
<1>1. \A r \in S : [r EXCEPT !.taken = r.verdict = "PENDING"] =
                     [ean |-> r.ean, quote |-> r.quote, verdict |-> r.verdict,
                      taken |-> (r.verdict = "PENDING")]
  BY DEF StagedRow
<1>2. \A p \in Takes(S) : \E r \in S :
        p = [ean |-> r.ean, quote |-> r.quote, verdict |-> r.verdict,
             taken |-> (r.verdict = "PENDING")]
  <2> TAKE p \in Takes(S)
  <2>1. PICK r \in S : p = [r EXCEPT !.taken = r.verdict = "PENDING"]
    BY Zenon DEF Takes
  <2> QED BY <1>1, <2>1, Zenon
<1>3. \A r \in S : [ean |-> r.ean, quote |-> r.quote, verdict |-> r.verdict,
                    taken |-> (r.verdict = "PENDING")] \in Takes(S)
  BY <1>1 DEF Takes
<1>4. Takes(S) \subseteq StagedRow
  <2> SUFFICES ASSUME NEW p \in Takes(S) PROVE p \in StagedRow
    OBVIOUS
  <2>1. PICK r \in S :
          p = [ean |-> r.ean, quote |-> r.quote, verdict |-> r.verdict,
               taken |-> (r.verdict = "PENDING")]
    BY <1>2
  <2>2. r.ean \in Eans /\ r.quote \in Quotes /\ r.verdict \in {"PENDING", "REJECTED"}
    BY DEF StagedRow
  <2>3. (r.verdict = "PENDING") \in BOOLEAN
    OBVIOUS
  <2> QED BY <2>1, <2>2, <2>3, Zenon DEF StagedRow
<1>5. Keyed(Takes(S))
  BY <1>2 DEF Keyed
<1> QED BY <1>2, <1>3, <1>4, <1>5

\* The gates give every row its verdict and change nothing else of it.
LEMMA JudgesRows ==
    ASSUME NEW S, S \subseteq StagedRow, Keyed(S)
    PROVE  /\ Judges(S) \subseteq StagedRow
           /\ Keyed(Judges(S))
           /\ \A p \in Judges(S) : \E r \in S :
                p = [ean |-> r.ean, quote |-> r.quote, verdict |-> Verdict(r), taken |-> r.taken]
           /\ \A p \in Judges(S) : p.verdict = Verdict(p)
           /\ Plain(Judges(S)) = Plain(S)
<1>1. \A r \in S : [r EXCEPT !.verdict = Verdict(r)] =
                     [ean |-> r.ean, quote |-> r.quote, verdict |-> Verdict(r), taken |-> r.taken]
  BY DEF StagedRow
<1>2. \A p \in Judges(S) : \E r \in S :
        p = [ean |-> r.ean, quote |-> r.quote, verdict |-> Verdict(r), taken |-> r.taken]
  BY <1>1 DEF Judges
<1>3. \A r \in S : [ean |-> r.ean, quote |-> r.quote, verdict |-> Verdict(r),
                    taken |-> r.taken] \in Judges(S)
  BY <1>1 DEF Judges
<1>4. Judges(S) \subseteq StagedRow
  BY <1>2 DEF StagedRow, Verdict
<1>5. Keyed(Judges(S))
  BY <1>2 DEF Keyed
<1>6. \A p \in Judges(S) : p.verdict = Verdict(p)
  BY <1>2 DEF Verdict
<1>7. Plain(Judges(S)) \subseteq Plain(S)
  BY <1>2 DEF Plain
<1>8. Plain(S) \subseteq Plain(Judges(S))
  <2> SUFFICES ASSUME NEW r \in S
               PROVE  [ean |-> r.ean, quote |-> r.quote] \in Plain(Judges(S))
    BY DEF Plain
  <2> DEFINE p == [ean |-> r.ean, quote |-> r.quote, verdict |-> Verdict(r), taken |-> r.taken]
  <2>1. p \in Judges(S) /\ p.ean = r.ean /\ p.quote = r.quote
    BY <1>3
  <2> HIDE DEF p
  <2> QED BY <2>1 DEF Plain
<1> QED BY <1>2, <1>4, <1>5, <1>6, <1>7, <1>8

\* The accepted rows of a batch, by store, as the transaction reads them.
LEMMA AcceptedOfBatch ==
    ASSUME NEW s
    PROVE  UNION {Accepted(b, s) : b \in CandidateBatches} = Accepted(batch, s)
BY DEF CandidateBatches

-----------------------------------------------------------------------------
(* Types, and the shapes the other layers rest on.                          *)

Auditing == [ask : AuditRequests, rows : SUBSET Row,
             before : {None} \cup [Eans -> Quotes \cup {None}]]

Shapes ==
    /\ batch \in 0 .. MaxBatches
    /\ phase # "idle" => /\ batch \in Batches
                         /\ cmd.dryRun \in BOOLEAN
                         /\ cmd.filter \in Lists
    /\ \A b \in Batches, s \in Sources : Keyed(staged[b][s])
    /\ \A s \in DOMAIN exec : s \in Sources
    /\ \A s \in Sources : at[s] \in {"validate", "done"} <=> s \in DOMAIN exec
    /\ auditor # None => auditor \in Auditing

TypeInv == TypeOK /\ Shapes

\* The catalog and the shelves of the world a behaviour begins in.
LEMMA InitTypes == Init => TypeInv
<1> SUFFICES ASSUME Init PROVE TypeInv
  OBVIOUS
<1>1. shelf \in [Sources -> [Eans -> Quotes \cup {None}]] /\ offers \in [Sources -> [Eans -> Quotes \cup {None}]]
  BY IngestionConstants DEF Init
<1>2. history \in Seq([source : Sources, ean : Eans, quote : Quotes])
  <2> DEFINE P == {[source |-> p[1], ean |-> p[2], quote |-> offers[p[1]][p[2]]] :
                      p \in {x \in Sources \X Eans : offers[x[1]][x[2]] # None}}
  <2>1. \A q \in P : \E s \in Sources, e \in Eans :
           offers[s][e] # None /\ q = [source |-> s, ean |-> e, quote |-> offers[s][e]]
    OBVIOUS
  <2>2. P \subseteq Point
    BY <2>1, <1>1 DEF Point
  <2>3. \A x, y \in P : x.source = y.source /\ x.ean = y.ean => x = y
    BY <2>1
  <2>4. history = SetToSeq(P)
    BY DEF Init
  <2> HIDE DEF P
  <2> QED BY <2>2, <2>3, <2>4, PointsAreFinite DEF Point
<1>3. run \in [Batches -> [Sources ->
                [status : {"none", "RUNNING", "SUCCESS", "PARTIAL", "FAILED"},
                 promoted : Nat]]]
  BY DEF Init, NoRun
<1>4. staged \in [Batches -> [Sources -> SUBSET StagedRow]]
      /\ \A b \in Batches, s \in Sources : staged[b][s] = {}
  BY DEF Init
<1>5. products \subseteq Eans /\ batch \in 0 .. MaxBatches
  BY IngestionConstants DEF Init
<1>6. DOMAIN exec = {}
  BY DEF Init
<1> QED BY <1>1, <1>2, <1>3, <1>4, <1>5, <1>6 DEF Init, TypeInv, TypeOK, Shapes, Keyed

\* A price a store changes to is a quote.
LEMMA ShelfMovesTypes == TypeInv /\ (\E m \in Moves : ShelfMoves(m[1], m[2], m[3])) => TypeInv'
<1> SUFFICES ASSUME TypeInv, NEW m \in Moves, ShelfMoves(m[1], m[2], m[3]) PROVE TypeInv'
  OBVIOUS
<1>1. m[1] \in Sources /\ m[2] \in Eans /\ m[3] \in Quotes
  BY IngestionConstants
<1>2. shelf' = [shelf EXCEPT ![m[1]][m[2]] = m[3]]
  BY DEF ShelfMoves
<1>3. shelf' \in [Sources -> [Eans -> Quotes \cup {None}]]
  BY <1>1, <1>2 DEF TypeInv, TypeOK
<1> QED BY <1>3 DEF ShelfMoves, TypeInv, TypeOK, Shapes, catalog, tables, command, review

\* Another writer adds a quote and the point that records it.
LEMMA OtherWriteTypes == TypeInv /\ (\E w \in OtherWrites : OtherWrite(w[1], w[2], w[3])) => TypeInv'
<1> SUFFICES ASSUME TypeInv, NEW w \in OtherWrites, OtherWrite(w[1], w[2], w[3]) PROVE TypeInv'
  OBVIOUS
<1>1. w[1] \in Sources /\ w[2] \in Eans /\ w[3] \in Quotes
  BY IngestionConstants
<1> DEFINE R == {[ean |-> w[2], quote |-> w[3]]}
<1>2. (\A r \in R : r.ean \in Eans /\ r.quote \in Quotes) /\ Keyed(R)
  BY <1>1 DEF Keyed
<1>3. /\ products' = products \cup {w[2]}
      /\ offers' = WithOffers(offers, w[1], R)
      /\ history' = history \o SetToSeq(NewPoints(history, w[1], R))
      /\ touched' = TRUE
  BY DEF OtherWrite
<1> HIDE DEF R
<1>4. offers' \in [Sources -> [Eans -> Quotes \cup {None}]]
  BY <1>1, <1>2, <1>3, WithOffersTypes DEF TypeInv, TypeOK
<1>5. SetToSeq(NewPoints(history, w[1], R)) \in Seq(Point)
  BY <1>1, <1>2, NewPointsTypes, PointsAreFinite
<1>6. history' \in Seq([source : Sources, ean : Eans, quote : Quotes])
  BY <1>3, <1>5, PrefixIsKept DEF Point, TypeInv, TypeOK
<1>7. products' \subseteq Eans
  BY <1>1, <1>3 DEF TypeInv, TypeOK
<1> QED BY <1>3, <1>4, <1>6, <1>7
        DEF OtherWrite, TypeInv, TypeOK, Shapes, tables, command

\* What an audit fetches is rows.
LEMMA AuditFetchTypes == TypeInv /\ (\E a \in AuditRequests : AuditFetch(a)) => TypeInv'
<1> SUFFICES ASSUME TypeInv, NEW a \in AuditRequests, AuditFetch(a) PROVE TypeInv'
  OBVIOUS
<1>1. a.source \in Sources
  BY IngestionConstants DEF AuditRequest
<1>2. PICK R \in Answers(a.source, IF a.selection = "existing-only" THEN a.scan ELSE a.count) :
         auditor' = [ask |-> a, rows |-> R, before |-> None]
  BY DEF AuditFetch
<1>3. R \subseteq Row
  BY <1>1, <1>2, AnswersAreRows DEF TypeInv, TypeOK
<1>4. auditor' \in Auditing
  BY <1>2, <1>3 DEF Auditing
<1> QED BY <1>4 DEF AuditFetch, TypeInv, TypeOK, Shapes, world, catalog, tables, command

\* A selection is part of what the store answered.
LEMMA SelectionsOfRows ==
    ASSUME NEW a, NEW R, NEW K, NEW F, NEW S \in AuditSelections(a, R, K, F)
    PROVE  S \subseteq R /\ EansOf(S) \subseteq K
BY DEF AuditSelections

\* An audit selects among its rows and keeps the offers it saw.
LEMMA AuditReadTypes == TypeInv /\ AuditRead => TypeInv'
<1> SUFFICES ASSUME TypeInv, AuditRead PROVE TypeInv'
  OBVIOUS
<1>1. auditor \in Auditing
  BY DEF AuditRead, TypeInv, Shapes
<1>2. PICK S \in AuditSelections(auditor.ask, auditor.rows, products, OfferedBy(auditor.ask.source)) :
         auditor' = [auditor EXCEPT !.rows = S, !.before = offers[auditor.ask.source]]
  BY DEF AuditRead
<1>3. S \subseteq Row
  BY <1>1, <1>2, SelectionsOfRows DEF Auditing
<1>4. auditor.ask.source \in Sources
  BY <1>1, IngestionConstants DEF Auditing, AuditRequest
<1>5. auditor' \in Auditing
  BY <1>1, <1>2, <1>3, <1>4 DEF Auditing, TypeInv, TypeOK
<1> QED BY <1>5 DEF AuditRead, TypeInv, TypeOK, Shapes, world, catalog, tables, command

\* A refused audit leaves nothing.
LEMMA AuditRefusedTypes == TypeInv /\ AuditRefused => TypeInv'
BY DEF AuditRefused, TypeInv, TypeOK, Shapes, world, catalog, tables, command

\* The rollback plan of an audit is a plan.
LEMMA AuditWriteTypes == TypeInv /\ AuditWrite => TypeInv'
<1> SUFFICES ASSUME TypeInv, AuditWrite PROVE TypeInv'
  OBVIOUS
<1>1. auditor \in Auditing /\ auditor.before \in [Eans -> Quotes \cup {None}]
  BY DEF AuditWrite, TypeInv, Shapes, Auditing
<1>2. auditor.ask.source \in Sources /\ auditor.rows \subseteq Row
  BY <1>1, IngestionConstants DEF Auditing, AuditRequest
<1>3. EansOf(auditor.rows) \subseteq Eans
  BY <1>2 DEF EansOf, Row
<1>4. Len(history) \in Nat
  BY DEF TypeInv, TypeOK
<1>5. [e \in EansOf(auditor.rows) |-> auditor.before[e]] \in
        UNION {[E -> Quotes \cup {None}] : E \in SUBSET Eans}
  <2> DEFINE F == [e \in EansOf(auditor.rows) |-> auditor.before[e]]
  <2>1. F \in [EansOf(auditor.rows) -> Quotes \cup {None}]
    BY <1>1, <1>3
  <2> HIDE DEF F
  <2>2. F \in UNION {[E -> Quotes \cup {None}] : E \in SUBSET Eans}
    BY <2>1, <1>3
  <2> QED BY <2>2 DEF F
<1>6. RollbackPlan(auditor.ask, auditor.rows, auditor.before, Len(history)) \in Plan
  BY <1>2, <1>3, <1>4, <1>5 DEF RollbackPlan, Plan
<1>7. audit'.plan \in Plan
  BY <1>6 DEF AuditWrite
<1>8. auditor' = None
  BY DEF AuditWrite
<1> QED BY <1>7, <1>8 DEF AuditWrite, TypeInv, TypeOK, Shapes, world, catalog, tables, command

\* The flags a command goes by.
LEMMA CommandOfFlags ==
    ASSUME NEW f \in Commands
    PROVE  LET o == Parsed(Told(f))
           IN /\ o.dryRun \in BOOLEAN
              /\ o.filter \in Lists
              /\ o.hash = IF f.hash = "audit" THEN audit.hash ELSE None
<1>1. f \in CommandFlags
  BY IngestionConstants
<1> DEFINE g == Told(f)
<1>2. /\ g.dryRun = f.dryRun /\ g.filter = f.filter
      /\ g.hash = IF f.hash = "audit" THEN audit.hash ELSE None
  BY <1>1 DEF Told, CommandFlags
<1>3. DOMAIN g = DOMAIN f
  BY DEF Told
<1> HIDE DEF g
<1> DEFINE o == Parsed(g)
<1>4. o.dryRun = g.dryRun /\ o.filter = g.filter /\ o.hash = g.hash
  BY <1>1, <1>3 DEF Parsed, CommandFlags
<1> HIDE DEF o
<1>5. o.dryRun \in BOOLEAN /\ o.filter \in Lists
  BY <1>1, <1>2, <1>4 DEF CommandFlags
<1> QED BY <1>2, <1>4, <1>5 DEF o, g

\* A command starts with no executions and with every selected store waiting.
LEMMA StartTypes == TypeInv /\ (\E f \in Commands : Start(f)) => TypeInv'
<1> SUFFICES ASSUME TypeInv, NEW f \in Commands, Start(f) PROVE TypeInv'
  OBVIOUS
<1>1. /\ cmd' = Parsed(Told(f)) /\ batch < MaxBatches /\ batch' = batch + 1
      /\ phase' = "sources" /\ exec' = <<>>
      /\ at' = [s \in Sources |-> IF s \in Selected(cmd') THEN "waiting" ELSE "out"]
  BY DEF Start
<1>2. cmd'.dryRun \in BOOLEAN /\ cmd'.filter \in Lists
  BY <1>1, CommandOfFlags
<1>3. MaxBatches \in Nat /\ batch' \in 0 .. MaxBatches /\ batch' \in Batches
  BY <1>1, IngestionConstants DEF TypeInv, Shapes, Batches
<1>4. at' \in [Sources -> {"out", "waiting", "read", "validate", "done"}]
  BY <1>1
<1>5. DOMAIN exec' = {}
  BY <1>1
<1> QED BY <1>1, <1>2, <1>3, <1>4, <1>5
        DEF Start, TypeInv, TypeOK, Shapes, world, catalog, tables, review

Statuses == {"none", "RUNNING", "SUCCESS", "PARTIAL", "FAILED"}
RunRow == [status : Statuses, promoted : Nat]

\* The status of one run, and of no other, may change; counts stay.
LEMMA RunsUpdated ==
    ASSUME TypeInv, phase # "idle", NEW s \in Sources, NEW status \in Statuses,
           RunUpdated(s, status) \/ run' = [run EXCEPT ![batch][s].status = status]
    PROVE  /\ run' \in [Batches -> [Sources -> RunRow]]
           /\ \A b \in Batches, t \in Sources :
                 /\ run'[b][t].promoted = run[b][t].promoted
                 /\ b # batch \/ t # s => run'[b][t] = run[b][t]
           /\ run'[batch][s].status \in {status, run[batch][s].status}
<1>1. run \in [Batches -> [Sources -> RunRow]] /\ batch \in Batches
  BY DEF TypeInv, TypeOK, Shapes, RunRow, Statuses
<1>2. CASE run' = run
  BY <1>1, <1>2
<1>3. CASE run' = [run EXCEPT ![batch][s].status = status]
  <2>1. run' = [run EXCEPT ![batch] = [run[batch] EXCEPT ![s] = [run[batch][s] EXCEPT !.status = status]]]
    BY <1>3
  <2> DEFINE x == [run[batch][s] EXCEPT !.status = status]
  <2>2. x \in RunRow /\ x.status = status /\ x.promoted = run[batch][s].promoted
    BY <1>1 DEF RunRow
  <2> HIDE DEF x
  <2>3. run' = [run EXCEPT ![batch] = [run[batch] EXCEPT ![s] = x]]
    BY <2>1 DEF x
  <2> QED BY <1>1, <2>2, <2>3
<1>4. run' = run \/ run' = [run EXCEPT ![batch][s].status = status]
  BY DEF RunUpdated
<1> QED BY <1>2, <1>3, <1>4

\* Ending a command leaves nothing to keep a type.
LEMMA StopsTypes ==
    ASSUME TypeInv, Stops, UNCHANGED <<world, catalog, staged, batch, review>>,
           run' \in [Batches -> [Sources -> RunRow]]
    PROVE  TypeInv'
<1>1. DOMAIN exec' = {} /\ phase' = "idle" /\ at' = [s \in Sources |-> "out"]
  BY DEF Stops
<1>2. at' \in [Sources -> {"out", "waiting", "read", "validate", "done"}]
  BY <1>1
<1> QED BY <1>1, <1>2 DEF TypeInv, TypeOK, Shapes, world, catalog, review, RunRow, Statuses

\* A store that begins opens its run.
LEMMA BeginTypes == TypeInv /\ (\E s \in Sources : Begin(s)) => TypeInv'
<1> SUFFICES ASSUME TypeInv, NEW s \in Sources, Begin(s) PROVE TypeInv'
  OBVIOUS
<1>1. run' \in [Batches -> [Sources -> RunRow]]
  <2>1. CASE run' = run
    BY <2>1 DEF TypeInv, TypeOK, RunRow, Statuses
  <2>2. CASE run' = [run EXCEPT ![batch][s].status = "RUNNING"]
    <3>1. phase # "idle" /\ "RUNNING" \in Statuses
      BY DEF Begin, Statuses
    <3> QED BY <2>2, <3>1, RunsUpdated
  <2> QED BY <2>1, <2>2 DEF Begin
<1>2. at' = [at EXCEPT ![s] = "read"]
  BY DEF Begin
<1>3. at' \in [Sources -> {"out", "waiting", "read", "validate", "done"}]
  BY <1>2 DEF TypeInv, TypeOK
<1>4. \A t \in Sources : at'[t] \in {"validate", "done"} <=> t \in DOMAIN exec
  BY <1>2 DEF Begin, TypeInv, TypeOK, Shapes
<1> QED BY <1>1, <1>3, <1>4
        DEF Begin, TypeInv, TypeOK, Shapes, world, catalog, review, RunRow, Statuses

\* A failed store leaves an execution without rows.
LEMMA FailsTypes == TypeInv /\ (\E s \in Sources : Fails(s)) => TypeInv'
<1> SUFFICES ASSUME TypeInv, NEW s \in Sources, Fails(s) PROVE TypeInv'
  OBVIOUS
<1>1. run' \in [Batches -> [Sources -> RunRow]]
  <2>1. phase # "idle" /\ "FAILED" \in Statuses /\ RunUpdated(s, "FAILED")
    BY DEF Fails, Statuses
  <2> QED BY <2>1, RunsUpdated
<1>2. at' \in [Sources -> {"out", "waiting", "read", "validate", "done"}]
  BY DEF Fails, Ends, TypeInv, TypeOK
<1>3. /\ DOMAIN exec' = DOMAIN exec \cup {s}
      /\ exec'[s].rows = {}
      /\ \A t \in DOMAIN exec : t # s => exec'[t] = exec[t]
  BY DEF Fails, Ends, Execution
<1>4. \A t \in DOMAIN exec' : t \in Sources /\ exec'[t].rows \subseteq Row
  BY <1>3 DEF TypeInv, TypeOK, Shapes
<1>5. \A t \in Sources : at'[t] \in {"validate", "done"} <=> t \in DOMAIN exec'
  BY <1>3 DEF Fails, Ends, TypeInv, TypeOK, Shapes
<1> QED BY <1>1, <1>2, <1>4, <1>5
        DEF Fails, TypeInv, TypeOK, Shapes, world, catalog, review, RunRow, Statuses

\* A fetch puts rows in memory and, rounded, in staging; for this store only.
LEMMA FetchFacts ==
    ASSUME TypeInv, NEW s \in Sources, Fetch(s)
    PROVE  /\ DOMAIN exec' = DOMAIN exec \cup {s}
           /\ exec'[s].rows \subseteq Row /\ exec'[s].status = "READING"
           /\ \A t \in DOMAIN exec : t # s => exec'[t] = exec[t]
           /\ staged' \in [Batches -> [Sources -> SUBSET StagedRow]]
           /\ \A b \in Batches, t \in Sources :
                /\ b # batch \/ t # s \/ Dry => staged'[b][t] = staged[b][t]
                /\ Keyed(staged'[b][t])
           /\ ~Dry => \A r \in staged'[batch][s] : ~r.taken
<1>1. PICK R \in Answers(s, FetchCount(cmd)) :
         /\ exec' = [t \in DOMAIN exec \cup {s} |-> IF t # s THEN exec[t]
                       ELSE Execution("READING", Len(Terms(cmd)), None, Kept(cmd, R), {})]
         /\ staged' = IF Dry THEN staged
                      ELSE [staged EXCEPT ![batch][s] = Pending(AsStored(Kept(cmd, R)))]
  BY DEF Fetch
<1> DEFINE K == Kept(cmd, R)
<1>2. K \subseteq Row /\ Keyed(K)
  <2>1. R \subseteq Row /\ Keyed(R)
    BY <1>1, AnswersAreRows DEF TypeInv, TypeOK
  <2> QED BY <2>1, KeptRows
<1> DEFINE P == Pending(AsStored(K))
<1>3. P \subseteq StagedRow /\ Keyed(P) /\ \A r \in P : ~r.taken
  BY <1>2, PendingTypes
<1> HIDE DEF K, P
<1>4. /\ DOMAIN exec' = DOMAIN exec \cup {s}
      /\ exec'[s] = Execution("READING", Len(Terms(cmd)), None, K, {})
      /\ \A t \in DOMAIN exec : t # s => exec'[t] = exec[t]
  BY <1>1 DEF K
<1>5. exec'[s].rows = K /\ exec'[s].status = "READING"
  BY <1>4 DEF Execution
<1>6. staged \in [Batches -> [Sources -> SUBSET StagedRow]] /\ batch \in Batches
      /\ \A b \in Batches, t \in Sources : Keyed(staged[b][t])
  BY DEF Fetch, TypeInv, TypeOK, Shapes
<1>7. staged' = IF Dry THEN staged ELSE [staged EXCEPT ![batch][s] = P]
  BY <1>1 DEF K, P
<1>8. CASE Dry
  BY <1>2, <1>4, <1>5, <1>6, <1>7, <1>8
<1>9. CASE ~Dry
  <2>1. staged' = [staged EXCEPT ![batch][s] = P]
    BY <1>7, <1>9
  <2>2. staged' \in [Batches -> [Sources -> SUBSET StagedRow]]
    BY <2>1, <1>3, <1>6
  <2>3. \A b \in Batches, t \in Sources :
           staged'[b][t] = IF b = batch /\ t = s THEN P ELSE staged[b][t]
    BY <2>1, <1>6
  <2> QED BY <1>2, <1>3, <1>4, <1>5, <1>6, <1>9, <2>2, <2>3
<1> QED BY <1>8, <1>9

\* The fetched rows are rows, in memory and in staging.
LEMMA FetchTypes == TypeInv /\ (\E s \in Sources : Fetch(s)) => TypeInv'
<1> SUFFICES ASSUME TypeInv, NEW s \in Sources, Fetch(s) PROVE TypeInv'
  OBVIOUS
<1>1. at' \in [Sources -> {"out", "waiting", "read", "validate", "done"}]
  BY DEF Fetch, TypeInv, TypeOK
<1>2. \A t \in DOMAIN exec' : t \in Sources /\ exec'[t].rows \subseteq Row
  <2>1. DOMAIN exec' = DOMAIN exec \cup {s} /\ exec'[s].rows \subseteq Row
        /\ \A t \in DOMAIN exec : t # s => exec'[t] = exec[t]
    BY FetchFacts
  <2>2. \A t \in DOMAIN exec : t \in Sources /\ exec[t].rows \subseteq Row
    BY DEF TypeInv, TypeOK, Shapes
  <2> QED BY <2>1, <2>2
<1>4. \A t \in Sources : at'[t] \in {"validate", "done"} <=> t \in DOMAIN exec'
  <2>1. DOMAIN exec' = DOMAIN exec \cup {s}
    BY FetchFacts
  <2> QED BY <2>1 DEF Fetch, TypeInv, TypeOK, Shapes
<1>3. /\ staged' \in [Batches -> [Sources -> SUBSET StagedRow]]
      /\ \A b \in Batches, t \in Sources : Keyed(staged'[b][t])
  BY FetchFacts
<1> QED BY <1>1, <1>2, <1>3, <1>4
        DEF Fetch, TypeInv, TypeOK, Shapes, world, catalog, review

\* A store is closed by what its rows are and by what the gates say of them.
LEMMA ValidateFacts ==
    ASSUME TypeInv, NEW s \in Sources, Validate(s), s \in DOMAIN exec
    PROVE  /\ DOMAIN exec' = DOMAIN exec
           /\ exec'[s].rows = IF Dry THEN exec[s].rows ELSE Plain(staged[batch][s])
           /\ exec'[s].rows \subseteq Row
           /\ exec'[s].status \in {"SUCCESS", "PARTIAL"}
           /\ exec'[s].rejected = {r \in exec'[s].rows : Verdict(r) = "REJECTED"}
           /\ exec'[s].hash = SnapshotHash(s, FirstTerm(cmd), cmd.count, cmd.writeMode,
                                           exec'[s].rows)
           /\ RunUpdated(s, exec'[s].status)
           /\ \A t \in DOMAIN exec : t # s => exec'[t] = exec[t]
           /\ staged' \in [Batches -> [Sources -> SUBSET StagedRow]]
           /\ \A b \in Batches, t \in Sources :
                /\ b # batch \/ t # s \/ Dry => staged'[b][t] = staged[b][t]
                /\ Keyed(staged'[b][t])
           /\ ~Dry => staged'[batch][s] = Judges(staged[batch][s])
<1> DEFINE R == IF Dry THEN exec[s].rows
                ELSE {[ean |-> r.ean, quote |-> r.quote] : r \in staged[batch][s]}
           bad == {r \in R : Verdict(r) = "REJECTED"}
           status == IF bad = {} THEN "SUCCESS" ELSE "PARTIAL"
           x == Execution(status, exec[s].queries,
                        SnapshotHash(s, FirstTerm(cmd), cmd.count, cmd.writeMode, R), R, bad)
           J == Judges(staged[batch][s])
<1>1. /\ Ends(s, x)
      /\ staged' = IF Dry THEN staged ELSE [staged EXCEPT ![batch][s] = J]
      /\ RunUpdated(s, status)
  BY DEF Validate, Judges
<1>2. staged \in [Batches -> [Sources -> SUBSET StagedRow]] /\ batch \in Batches
      /\ \A b \in Batches, t \in Sources : Keyed(staged[b][t])
  BY DEF Validate, TypeInv, TypeOK, Shapes
<1>3. R \subseteq Row /\ R = IF Dry THEN exec[s].rows ELSE Plain(staged[batch][s])
  <2>1. CASE Dry
    BY <2>1 DEF TypeInv, TypeOK
  <2>2. CASE ~Dry
    BY <2>2, <1>2 DEF Plain, StagedRow, Row
  <2> QED BY <2>1, <2>2
<1>4. J \subseteq StagedRow /\ Keyed(J)
  BY <1>2, JudgesRows
<1>5. x.rows = R /\ x.status = status /\ x.rejected = bad
      /\ x.hash = SnapshotHash(s, FirstTerm(cmd), cmd.count, cmd.writeMode, R)
  BY DEF Execution
<1>6. status \in {"SUCCESS", "PARTIAL"}
  OBVIOUS
<1>7. bad = {r \in R : Verdict(r) = "REJECTED"}
  OBVIOUS
<1>8. /\ staged' \in [Batches -> [Sources -> SUBSET StagedRow]]
      /\ \A b \in Batches, t \in Sources :
            /\ b # batch \/ t # s \/ Dry => staged'[b][t] = staged[b][t]
            /\ Keyed(staged'[b][t])
      /\ ~Dry => staged'[batch][s] = J
  <2> HIDE DEF J, x, status, bad, R
  <2>1. CASE Dry
    BY <2>1, <1>1, <1>2
  <2>2. CASE ~Dry
    <3>1. staged' = [staged EXCEPT ![batch][s] = J]
      BY <2>2, <1>1
    <3>2. staged' \in [Batches -> [Sources -> SUBSET StagedRow]]
      BY <3>1, <1>2, <1>4
    <3>3. \A b \in Batches, t \in Sources :
             staged'[b][t] = IF b = batch /\ t = s THEN J ELSE staged[b][t]
      BY <3>1, <1>2
    <3> QED BY <2>2, <3>2, <3>3, <1>2, <1>4
  <2> QED BY <2>1, <2>2
<1>9. /\ DOMAIN exec' = DOMAIN exec
      /\ exec'[s] = x
      /\ \A t \in DOMAIN exec : t # s => exec'[t] = exec[t]
  <2> HIDE DEF x
  <2>1. exec' = [t \in DOMAIN exec \cup {s} |-> IF t = s THEN x ELSE exec[t]]
    BY <1>1 DEF Ends
  <2>2. DOMAIN exec \cup {s} = DOMAIN exec
    OBVIOUS
  <2> QED BY <2>1, <2>2
<1>10. /\ exec'[s].rows = R /\ exec'[s].status = status /\ exec'[s].rejected = bad
       /\ exec'[s].hash = SnapshotHash(s, FirstTerm(cmd), cmd.count, cmd.writeMode, R)
  <2> HIDE DEF x, R, bad, status
  <2> QED BY <1>5, <1>9
<1>11. RunUpdated(s, exec'[s].status) /\ exec'[s].status \in {"SUCCESS", "PARTIAL"}
  <2> HIDE DEF x, R, bad, status
  <2> QED BY <1>1, <1>6, <1>10
<1>12. exec'[s].rejected = {r \in exec'[s].rows : Verdict(r) = "REJECTED"}
  <2> HIDE DEF x, R, bad, status
  <2> QED BY <1>7, <1>10
<1> HIDE DEF x, R, bad, status, J
<1>13. exec'[s].rows = IF Dry THEN exec[s].rows ELSE Plain(staged[batch][s])
  BY <1>3, <1>10
<1>14. exec'[s].rows \subseteq Row
       /\ exec'[s].hash = SnapshotHash(s, FirstTerm(cmd), cmd.count, cmd.writeMode, exec'[s].rows)
  BY <1>3, <1>10
<1>15. ~Dry => staged'[batch][s] = Judges(staged[batch][s])
  BY <1>8 DEF J
<1> QED BY <1>8, <1>9, <1>11, <1>12, <1>13, <1>14, <1>15

\* A validated store keeps its rows and gets its verdicts.
LEMMA ValidateTypes == TypeInv /\ (\E s \in Sources : Validate(s)) => TypeInv'
<1> SUFFICES ASSUME TypeInv, NEW s \in Sources, Validate(s) PROVE TypeInv'
  OBVIOUS
<1>1. s \in DOMAIN exec /\ phase # "idle"
  BY DEF Validate, TypeInv, Shapes
<1>2. at' = [at EXCEPT ![s] = "done"]
  BY DEF Validate, Ends
<1>3. at' \in [Sources -> {"out", "waiting", "read", "validate", "done"}]
  BY <1>2 DEF TypeInv, TypeOK
<1>4. DOMAIN exec' = DOMAIN exec /\ exec'[s].rows \subseteq Row
      /\ \A t \in DOMAIN exec : t # s => exec'[t] = exec[t]
  BY <1>1, ValidateFacts
<1>5. \A t \in DOMAIN exec' : t \in Sources /\ exec'[t].rows \subseteq Row
  <2>1. \A t \in DOMAIN exec : t \in Sources /\ exec[t].rows \subseteq Row
    BY DEF TypeInv, TypeOK, Shapes
  <2> QED BY <1>4, <2>1
<1>6. \A t \in Sources : at'[t] \in {"validate", "done"} <=> t \in DOMAIN exec'
  BY <1>1, <1>2, <1>4 DEF TypeInv, TypeOK, Shapes
<1>7. /\ staged' \in [Batches -> [Sources -> SUBSET StagedRow]]
      /\ \A b \in Batches, t \in Sources : Keyed(staged'[b][t])
  BY <1>1, ValidateFacts
<1>8. run' \in [Batches -> [Sources -> RunRow]]
  <2>1. exec'[s].status \in Statuses /\ RunUpdated(s, exec'[s].status)
    BY <1>1, ValidateFacts DEF Statuses
  <2> QED BY <1>1, <2>1, RunsUpdated
<1> QED BY <1>3, <1>5, <1>6, <1>7, <1>8
        DEF Validate, TypeInv, TypeOK, Shapes, world, catalog, review, RunRow, Statuses

\* The end of the sources moves the command on or ends it.
LEMMA GatesTypes == TypeInv /\ (NothingToReconcile \/ GatePasses \/ NoCommit \/ Die) => TypeInv'
<1> SUFFICES ASSUME TypeInv, NothingToReconcile \/ GatePasses \/ NoCommit \/ Die PROVE TypeInv'
  OBVIOUS
<1>1. run \in [Batches -> [Sources -> RunRow]]
  BY DEF TypeInv, TypeOK, RunRow, Statuses
<1>2. CASE NothingToReconcile \/ NoCommit \/ Die
  <2>1. Stops /\ UNCHANGED <<world, catalog, tables, batch, review>>
    BY <1>2 DEF NothingToReconcile, NoCommit, Die
  <2>2. UNCHANGED <<world, catalog, staged, batch, review>> /\ run' = run
    BY <2>1 DEF tables
  <2> QED BY <1>1, <2>1, <2>2, StopsTypes
<1>3. CASE GatePasses
  BY <1>3 DEF GatePasses, TypeInv, TypeOK, Shapes, world, catalog, tables, review
<1> QED BY <1>2, <1>3

\* A refusing gate only fails runs.
LEMMA GateRefusesTypes == TypeInv /\ GateRefuses => TypeInv'
<1> SUFFICES ASSUME TypeInv, GateRefuses PROVE TypeInv'
  OBVIOUS
<1>1. run \in [Batches -> [Sources -> RunRow]] /\ batch \in Batches
  BY DEF GateRefuses, TypeInv, TypeOK, Shapes, RunRow, Statuses
<1>2. run' \in [Batches -> [Sources -> RunRow]]
  <2>1. CASE run' = run
    BY <1>1, <2>1
  <2>2. CASE run' # run
    <3>1. PICK lost \in SUBSET DOMAIN exec :
              run' = [run EXCEPT ![batch] = [s \in Sources |->
                        IF s \in DOMAIN exec \ lost /\ exec[s].status # "FAILED"
                        THEN [@[s] EXCEPT !.status = "FAILED"] ELSE @[s]]]
      BY <2>2 DEF GateRefuses
    <3>2. \A s \in Sources : /\ run[batch][s] \in RunRow
                             /\ [run[batch][s] EXCEPT !.status = "FAILED"] \in RunRow
      BY <1>1 DEF RunRow, Statuses
    <3> DEFINE row == [s \in Sources |->
                        IF s \in DOMAIN exec \ lost /\ exec[s].status # "FAILED"
                        THEN [run[batch][s] EXCEPT !.status = "FAILED"] ELSE run[batch][s]]
    <3>3. row \in [Sources -> RunRow]
      BY <3>2
    <3>4. run' = [run EXCEPT ![batch] = row]
      BY <3>1
    <3> HIDE DEF row
    <3> QED BY <1>1, <3>3, <3>4
  <2> QED BY <2>1, <2>2
<1>3. Stops /\ UNCHANGED <<world, catalog, staged, batch, review>>
  BY DEF GateRefuses
<1> QED BY <1>2, <1>3, StopsTypes

\* Counts of taken rows are numbers: staging is finite.
LEMMA CountTypes == TypeInv /\ Count => TypeInv'
<1> SUFFICES ASSUME TypeInv, Count PROVE TypeInv'
  OBVIOUS
<1>1. run \in [Batches -> [Sources -> RunRow]] /\ batch \in Batches
  BY DEF Count, TypeInv, TypeOK, Shapes, RunRow, Statuses
<1>2. PICK lost \in SUBSET DOMAIN exec :
         run' = [run EXCEPT ![batch] = [s \in Sources |->
                   IF s \in DOMAIN exec \ lost /\ exec[s].status # "FAILED"
                   THEN [@[s] EXCEPT !.promoted = Cardinality({r \in staged[batch][s] : r.taken})]
                   ELSE @[s]]]
  BY DEF Count
<1> DEFINE n(s) == Cardinality({r \in staged[batch][s] : r.taken})
<1>3. \A s \in Sources : n(s) \in Nat
  <2> SUFFICES ASSUME NEW s \in Sources PROVE n(s) \in Nat
    OBVIOUS
  <2>1. /\ \A r \in {r \in staged[batch][s] : r.taken} : r.ean \in Eans
        /\ Keyed({r \in staged[batch][s] : r.taken})
    BY <1>1 DEF TypeInv, TypeOK, Shapes, StagedRow, Keyed
  <2> QED BY <2>1, KeyedIsFinite, FS_CardinalityType
<1> HIDE DEF n
<1>4. \A s \in Sources : /\ run[batch][s] \in RunRow
                         /\ [run[batch][s] EXCEPT !.promoted = n(s)] \in RunRow
  BY <1>1, <1>3 DEF RunRow, Statuses
<1> DEFINE row == [s \in Sources |->
                    IF s \in DOMAIN exec \ lost /\ exec[s].status # "FAILED"
                    THEN [run[batch][s] EXCEPT !.promoted = n(s)] ELSE run[batch][s]]
<1>5. row \in [Sources -> RunRow]
  BY <1>4
<1>6. run' = [run EXCEPT ![batch] = row]
  BY <1>2 DEF n
<1>7. run' \in [Batches -> [Sources -> RunRow]]
  <2> HIDE DEF row
  <2> QED BY <1>1, <1>5, <1>6
<1>8. Stops /\ UNCHANGED <<world, catalog, staged, batch, review>>
  BY DEF Count
<1> QED BY <1>7, <1>8, StopsTypes

\* A transaction takes what staging holds of this batch, and only that.
LEMMA CommitFacts ==
    ASSUME TypeInv, Commit
    PROVE  /\ batch \in Batches
           /\ products' = products \cup UNION {EansOf(Accepted(batch, s)) : s \in Sources}
           /\ offers' = [s \in Sources |-> WithOffers(offers, s, Accepted(batch, s))[s]]
           /\ \E h \in Seq(Point) : history' = history \o h
           /\ staged' = [b \in Batches |-> IF b # batch THEN staged[b]
                           ELSE [s \in Sources |-> Takes(staged[batch][s])]]
           /\ phase' = "counts" /\ touched' = TRUE
           /\ UNCHANGED <<world, run, batch, cmd, at, exec, auditor, audit>>
<1>1. batch \in Batches
  BY DEF Commit, TypeInv, Shapes
<1> DEFINE rows(s) == UNION {Accepted(b, s) : b \in CandidateBatches}
<1>2. \A s \in Sources : rows(s) = Accepted(batch, s)
  BY AcceptedOfBatch
<1>3. /\ products' = products \cup UNION {EansOf(rows(s)) : s \in Sources}
      /\ offers' = [s \in Sources |-> WithOffers(offers, s, rows(s))[s]]
      /\ history' = history \o SetToSeq(UNION {NewPoints(history, s, rows(s)) : s \in Sources})
  BY DEF Commit
<1> HIDE DEF rows
<1> DEFINE P == UNION {NewPoints(history, s, rows(s)) : s \in Sources}
<1>4. \A s \in Sources : /\ Keyed(Accepted(batch, s))
                         /\ \A r \in Accepted(batch, s) : r.ean \in Eans /\ r.quote \in Quotes
  BY <1>1 DEF Accepted, TypeInv, TypeOK, Shapes, StagedRow, Keyed
<1>5. ASSUME NEW s \in Sources
      PROVE  /\ NewPoints(history, s, rows(s)) \subseteq Point
             /\ \A p \in NewPoints(history, s, rows(s)) : p.source = s
             /\ \A x, y \in NewPoints(history, s, rows(s)) : x.ean = y.ean => x = y
  BY <1>2, <1>4, NewPointsTypes
<1>6. P \subseteq Point /\ \A x, y \in P : x.source = y.source /\ x.ean = y.ean => x = y
  BY <1>5
<1>7. SetToSeq(P) \in Seq(Point)
  <2> HIDE DEF P
  <2> QED BY <1>6, PointsAreFinite
<1>8. \E h \in Seq(Point) : history' = history \o h
  BY <1>3, <1>7
<1>9. UNION {EansOf(rows(s)) : s \in Sources} = UNION {EansOf(Accepted(batch, s)) : s \in Sources}
  BY <1>2
<1>10. \A s \in Sources : WithOffers(offers, s, rows(s))[s] = WithOffers(offers, s, Accepted(batch, s))[s]
  BY <1>2
<1>11. offers' = [s \in Sources |-> WithOffers(offers, s, Accepted(batch, s))[s]]
  BY <1>3, <1>10
<1>12. staged' = [b \in Batches |-> IF b # batch THEN staged[b]
                    ELSE [s \in Sources |-> Takes(staged[batch][s])]]
  <2>1. staged' = [b \in Batches |-> IF b \notin {batch} THEN staged[b]
                     ELSE [s \in Sources |-> Takes(staged[b][s])]]
    BY DEF Commit, CandidateBatches, Takes
  <2> QED BY <2>1
<1> QED BY <1>1, <1>3, <1>8, <1>9, <1>11, <1>12 DEF Commit

\* The transaction keeps the types of the catalog and of staging.
LEMMA CommitTypes == TypeInv /\ Commit => TypeInv'
<1> SUFFICES ASSUME TypeInv, Commit PROVE TypeInv'
  OBVIOUS
<1>1. batch \in Batches /\ phase # "idle"
  BY CommitFacts DEF Commit
<1>2. ASSUME NEW s \in Sources
      PROVE  /\ Keyed(Accepted(batch, s)) /\ EansOf(Accepted(batch, s)) \subseteq Eans
             /\ \A r \in Accepted(batch, s) : r.ean \in Eans /\ r.quote \in Quotes
  BY <1>1 DEF Accepted, EansOf, TypeInv, TypeOK, Shapes, StagedRow, Keyed
<1>3. products' \subseteq Eans
  <2>1. UNION {EansOf(Accepted(batch, s)) : s \in Sources} \subseteq Eans
    BY <1>2
  <2> QED BY <2>1, CommitFacts DEF TypeInv, TypeOK
<1>4. offers' \in [Sources -> [Eans -> Quotes \cup {None}]]
  <2>1. \A s \in Sources : WithOffers(offers, s, Accepted(batch, s))[s] \in [Eans -> Quotes \cup {None}]
    <3> TAKE s \in Sources
    <3>1. WithOffers(offers, s, Accepted(batch, s)) \in [Sources -> [Eans -> Quotes \cup {None}]]
      BY <1>2, WithOffersTypes DEF TypeInv, TypeOK
    <3> QED BY <3>1
  <2> QED BY <2>1, CommitFacts
<1>5. history' \in Seq([source : Sources, ean : Eans, quote : Quotes])
  <2>1. PICK h \in Seq(Point) : history' = history \o h
    BY CommitFacts
  <2>2. history \in Seq(Point)
    BY DEF TypeInv, TypeOK, Point
  <2> QED BY <2>1, <2>2, PrefixIsKept DEF Point
<1>6. \A s \in Sources : Takes(staged[batch][s]) \subseteq StagedRow /\ Keyed(Takes(staged[batch][s]))
  <2> TAKE s \in Sources
  <2>1. staged[batch][s] \subseteq StagedRow /\ Keyed(staged[batch][s])
    BY <1>1 DEF TypeInv, TypeOK, Shapes
  <2> QED BY <2>1, TakesRows
<1>7. staged' = [b \in Batches |-> IF b # batch THEN staged[b]
                    ELSE [s \in Sources |-> Takes(staged[batch][s])]]
  BY CommitFacts
<1>8. \A b \in Batches, s \in Sources :
         staged'[b][s] = IF b # batch THEN staged[b][s] ELSE Takes(staged[batch][s])
  BY <1>7
<1>9. staged' \in [Batches -> [Sources -> SUBSET StagedRow]]
  BY <1>6, <1>7 DEF TypeInv, TypeOK
<1>10. \A b \in Batches, s \in Sources : Keyed(staged'[b][s])
  BY <1>6, <1>8 DEF TypeInv, Shapes
<1>11. UNCHANGED <<world, run, batch, cmd, at, exec, auditor, audit>> /\ phase' = "counts" /\ touched' = TRUE
  BY CommitFacts
<1> QED BY <1>1, <1>3, <1>4, <1>5, <1>9, <1>10, <1>11 DEF TypeInv, TypeOK, Shapes, world

\* Every step keeps types and shapes.
LEMMA NextTypes == TypeInv /\ [Next]_vars => TypeInv'
<1> SUFFICES ASSUME TypeInv, [Next]_vars PROVE TypeInv'
  OBVIOUS
<1>1. CASE UNCHANGED vars
  BY <1>1 DEF vars, world, catalog, tables, command, review, TypeInv, TypeOK, Shapes
<1>2. CASE Next
  <2>1. CASE (\E m \in Moves : ShelfMoves(m[1], m[2], m[3]))
             \/ (\E w \in OtherWrites : OtherWrite(w[1], w[2], w[3]))
    BY <2>1, ShelfMovesTypes, OtherWriteTypes
  <2>2. CASE (\E a \in AuditRequests : AuditFetch(a)) \/ AuditRead \/ AuditRefused \/ AuditWrite
    BY <2>2, AuditFetchTypes, AuditReadTypes, AuditRefusedTypes, AuditWriteTypes
  <2>3. CASE \E f \in Commands : Start(f)
    BY <2>3, StartTypes
  <2>4. CASE \E s \in Sources : Begin(s) \/ Fetch(s) \/ Validate(s) \/ Fails(s)
    BY <2>4, BeginTypes, FetchTypes, ValidateTypes, FailsTypes
  <2>5. CASE NothingToReconcile \/ GatePasses \/ GateRefuses \/ Commit \/ NoCommit \/ Count \/ Die
    BY <2>5, GatesTypes, GateRefusesTypes, CommitTypes, CountTypes
  <2> QED BY <1>2, <2>1, <2>2, <2>3, <2>4, <2>5 DEF Next
<1> QED BY <1>1, <1>2

-----------------------------------------------------------------------------
(* The batch under way: memory, runs and staging.                           *)

\* A batch that has not begun has neither runs nor rows.
Unopened ==
    \A b \in Batches : b > batch =>
        \A s \in Sources : staged[b][s] = {} /\ run[b][s] = NoRun

\* Only a selected store is worked on, only a store that was read has rows, and
\* a run is FAILED only if its execution is.
Working(s) ==
    /\ at[s] # "out" => s \in Selected(cmd)
    /\ s \notin DOMAIN exec => staged[batch][s] = {}
    /\ run[batch][s].status = "FAILED" => s \in DOMAIN exec /\ exec[s].status = "FAILED"

\* The execution in memory says what the staged rows are.
Hashed(s) ==
    /\ exec[s].rows = Plain(staged[batch][s])
    /\ exec[s].hash = SnapshotHash(s, FirstTerm(cmd), cmd.count, cmd.writeMode, exec[s].rows)
    /\ exec[s].rejected = {r \in exec[s].rows : Verdict(r) = "REJECTED"}
    /\ \A r \in staged[batch][s] : r.verdict = Verdict(r)

\* Before the transaction nothing of the batch is taken or counted.
Fresh(s) ==
    /\ run[batch][s].promoted = 0
    /\ \A r \in staged[batch][s] : ~r.taken
    /\ at[s] = "validate" => exec[s].status # "FAILED"
    /\ at[s] = "done" /\ ~Dry /\ exec[s].status # "FAILED" => Hashed(s)

PassedGates ==
    /\ AllDone
    /\ cmd.mode = "active" /\ ~RequestedSourceFailed(cmd, exec)
    /\ Gated => PreReconcileGate(cmd, exec)

Kinds == TakenIsAccepted /\ FailedRunPromotedNothing /\ WholeOrNothing

BatchInv ==
    /\ Unopened
    /\ phase # "idle" => Safe(cmd) /\ \A s \in Sources : Working(s)
    /\ phase \in {"sources", "reconcile"} => \A s \in Sources : Fresh(s)
    /\ phase = "reconcile" => PassedGates
    /\ Kinds

\* At first no batch has begun.
LEMMA InitBatch == Init => BatchInv
BY DEF Init, BatchInv, Unopened, Kinds, TakenIsAccepted, FailedRunPromotedNothing,
       WholeOrNothing, NoRun

\* The stores, other writers and the audit have no part in the batch.
LEMMA BatchFrame ==
    ASSUME BatchInv, UNCHANGED <<tables, command>>
    PROVE  BatchInv'
BY DEF BatchInv, Unopened, Working, Fresh, Hashed, PassedGates, Kinds, TakenIsAccepted,
       FailedRunPromotedNothing, WholeOrNothing, tables, command, AllDone, Gated, Dry

\* A command that ends leaves its runs and rows to history.
LEMMA BatchStops ==
    ASSUME BatchInv, Stops, UNCHANGED <<tables, batch>>
    PROVE  BatchInv'
BY DEF BatchInv, Stops, Unopened, Kinds, TakenIsAccepted,
       FailedRunPromotedNothing, WholeOrNothing, tables

\* A new batch finds its runs and its rows empty.
LEMMA StartBatch == TypeInv /\ BatchInv /\ (\E f \in Commands : Start(f)) => BatchInv'
<1> SUFFICES ASSUME TypeInv, BatchInv, NEW f \in Commands, Start(f) PROVE BatchInv'
  OBVIOUS
<1>1. /\ Safe(cmd') /\ batch < MaxBatches /\ batch' = batch + 1
      /\ phase' = "sources" /\ exec' = <<>>
      /\ at' = [s \in Sources |-> IF s \in Selected(cmd') THEN "waiting" ELSE "out"]
      /\ staged' = staged /\ run' = run
  BY DEF Start, tables
<1>2. batch \in Nat /\ MaxBatches \in Nat /\ batch' \in Batches
  BY <1>1, IngestionConstants DEF TypeInv, Shapes, Batches
<1>3. \A s \in Sources : staged[batch'][s] = {} /\ run[batch'][s] = NoRun
  BY <1>1, <1>2 DEF BatchInv, Unopened
<1>4. \A b \in Batches : b > batch' => b > batch
  BY <1>1, <1>2 DEF Batches
<1>5. Unopened'
  BY <1>1, <1>4 DEF BatchInv, Unopened
<1>6. \A s \in Sources : Working(s)'
  BY <1>1, <1>3 DEF Working, NoRun
<1>7. \A s \in Sources : Fresh(s)'
  BY <1>1, <1>3 DEF Fresh, NoRun
<1>8. Kinds'
  BY <1>1 DEF BatchInv, Kinds, TakenIsAccepted, FailedRunPromotedNothing, WholeOrNothing
<1> QED BY <1>1, <1>5, <1>6, <1>7, <1>8 DEF BatchInv

\* A step of one store that leaves it at work and fresh keeps the whole.
LEMMA StoreStep ==
    ASSUME TypeInv, BatchInv, NEW s \in Sources,
           phase = "sources", phase' = phase, batch' = batch, cmd' = cmd,
           \A b \in Batches, t \in Sources :
               /\ run'[b][t].promoted = run[b][t].promoted
               /\ b # batch \/ t # s => /\ run'[b][t] = run[b][t]
                                        /\ staged'[b][t] = staged[b][t],
           \A t \in Sources : t # s => /\ at'[t] = at[t]
                                       /\ t \in DOMAIN exec' <=> t \in DOMAIN exec
                                       /\ t \in DOMAIN exec => exec'[t] = exec[t],
           Working(s)', Fresh(s)'
    PROVE  BatchInv'
<1>1. batch \in Batches
  BY DEF TypeInv, Shapes
<1>2. \A t \in Sources : Working(t) /\ Fresh(t)
  BY DEF BatchInv
<1>3. Unopened'
  BY <1>1 DEF BatchInv, Unopened, Batches
<1>4. \A t \in Sources : Working(t)'
  <2> SUFFICES ASSUME NEW t \in Sources, t # s PROVE Working(t)'
    OBVIOUS
  <2> QED BY <1>1, <1>2 DEF Working
<1>5. \A t \in Sources : Fresh(t)'
  <2> SUFFICES ASSUME NEW t \in Sources, t # s PROVE Fresh(t)'
    OBVIOUS
  <2>1. at[t] \in {"validate", "done"} => t \in DOMAIN exec
    BY DEF TypeInv, Shapes
  <2> QED BY <1>1, <1>2, <2>1 DEF Fresh, Hashed, Dry
<1>6. run'[batch][s].promoted = 0 /\ \A r \in staged'[batch][s] : ~r.taken
  BY DEF Fresh
<1>7. Kinds'
  <2>1. TakenIsAccepted'
    BY <1>1, <1>6 DEF BatchInv, Kinds, TakenIsAccepted
  <2>2. FailedRunPromotedNothing'
    BY <1>1, <1>6 DEF BatchInv, Kinds, FailedRunPromotedNothing
  <2>3. WholeOrNothing'
    BY <1>1, <1>6 DEF BatchInv, Kinds, WholeOrNothing
  <2> QED BY <2>1, <2>2, <2>3 DEF Kinds
<1> QED BY <1>3, <1>4, <1>5, <1>7 DEF BatchInv

\* A store at work has a run that is RUNNING.
LEMMA BeginBatch == TypeInv /\ BatchInv /\ (\E s \in Sources : Begin(s)) => BatchInv'
<1> SUFFICES ASSUME TypeInv, BatchInv, NEW s \in Sources, Begin(s) PROVE BatchInv'
  OBVIOUS
<1>1. /\ phase = "sources" /\ at[s] = "waiting" /\ at' = [at EXCEPT ![s] = "read"]
      /\ staged' = staged /\ batch' = batch /\ phase' = phase /\ cmd' = cmd /\ exec' = exec
  BY DEF Begin
<1>2. batch \in Batches /\ at \in [Sources -> {"out", "waiting", "read", "validate", "done"}]
  BY <1>1 DEF TypeInv, TypeOK, Shapes
<1>3. /\ \A b \in Batches, t \in Sources :
           /\ run'[b][t].promoted = run[b][t].promoted
           /\ b # batch \/ t # s => run'[b][t] = run[b][t]
      /\ run'[batch][s].status \in {"RUNNING", run[batch][s].status}
  <2>1. CASE run' = run
    BY <2>1
  <2>2. CASE run' = [run EXCEPT ![batch][s].status = "RUNNING"]
    <3>1. phase # "idle" /\ "RUNNING" \in Statuses
      BY <1>1 DEF Statuses
    <3> QED BY <2>2, <3>1, RunsUpdated
  <2> QED BY <2>1, <2>2 DEF Begin
<1>4. Working(s) /\ Fresh(s)
  BY <1>1 DEF BatchInv
<1>5. Working(s)'
  BY <1>1, <1>3, <1>4 DEF Working
<1>6. Fresh(s)'
  BY <1>1, <1>2, <1>3, <1>4 DEF Fresh
<1> QED BY <1>1, <1>2, <1>3, <1>5, <1>6, StoreStep

\* A store that failed may have staged rows and a run in any state, none taken.
LEMMA FailsBatch == TypeInv /\ BatchInv /\ (\E s \in Sources : Fails(s)) => BatchInv'
<1> SUFFICES ASSUME TypeInv, BatchInv, NEW s \in Sources, Fails(s) PROVE BatchInv'
  OBVIOUS
<1>1. /\ phase = "sources" /\ at[s] \in {"read", "validate"} /\ at' = [at EXCEPT ![s] = "done"]
      /\ staged' = staged /\ batch' = batch /\ phase' = phase /\ cmd' = cmd
      /\ RunUpdated(s, "FAILED")
  BY DEF Fails, Ends, Reading
<1>2. batch \in Batches /\ at \in [Sources -> {"out", "waiting", "read", "validate", "done"}]
  BY <1>1 DEF TypeInv, TypeOK, Shapes
<1>3. \A b \in Batches, t \in Sources :
         /\ run'[b][t].promoted = run[b][t].promoted
         /\ b # batch \/ t # s => run'[b][t] = run[b][t]
  <2>1. phase # "idle" /\ "FAILED" \in Statuses
    BY <1>1 DEF Statuses
  <2> QED BY <1>1, <2>1, RunsUpdated
<1>4. /\ DOMAIN exec' = DOMAIN exec \cup {s} /\ exec'[s].status = "FAILED"
      /\ \A t \in DOMAIN exec : t # s => exec'[t] = exec[t]
  BY DEF Fails, Ends, Execution
<1>5. Working(s) /\ Fresh(s)
  BY <1>1 DEF BatchInv
<1>6. Working(s)'
  BY <1>1, <1>2, <1>4, <1>5 DEF Working
<1>7. Fresh(s)'
  BY <1>1, <1>2, <1>3, <1>4, <1>5 DEF Fresh
<1> QED BY <1>1, <1>2, <1>3, <1>4, <1>6, <1>7, StoreStep

\* Fetched rows are pending, none of them taken.
LEMMA FetchBatch == TypeInv /\ BatchInv /\ (\E s \in Sources : Fetch(s)) => BatchInv'
<1> SUFFICES ASSUME TypeInv, BatchInv, NEW s \in Sources, Fetch(s) PROVE BatchInv'
  OBVIOUS
<1>1. /\ phase = "sources" /\ at[s] = "read" /\ at' = [at EXCEPT ![s] = "validate"]
      /\ run' = run /\ batch' = batch /\ phase' = phase /\ cmd' = cmd
  BY DEF Fetch
<1>2. batch \in Batches /\ at \in [Sources -> {"out", "waiting", "read", "validate", "done"}]
      /\ s \notin DOMAIN exec
  BY <1>1 DEF TypeInv, TypeOK, Shapes
<1>3. /\ DOMAIN exec' = DOMAIN exec \cup {s} /\ exec'[s].status = "READING"
      /\ \A t \in DOMAIN exec : t # s => exec'[t] = exec[t]
      /\ \A b \in Batches, t \in Sources :
            b # batch \/ t # s \/ Dry => staged'[b][t] = staged[b][t]
      /\ ~Dry => \A r \in staged'[batch][s] : ~r.taken
  BY FetchFacts
<1>4. Working(s) /\ Fresh(s)
  BY <1>1 DEF BatchInv
<1>5. \A r \in staged'[batch][s] : ~r.taken
  BY <1>2, <1>3, <1>4 DEF Fresh
<1>6. Working(s)'
  BY <1>1, <1>2, <1>3, <1>4 DEF Working
<1>7. Fresh(s)'
  BY <1>1, <1>2, <1>3, <1>4, <1>5 DEF Fresh
<1> QED BY <1>1, <1>2, <1>3, <1>6, <1>7, StoreStep

\* After the gates the execution says of its rows what staging says of them.
LEMMA ValidateBatch == TypeInv /\ BatchInv /\ (\E s \in Sources : Validate(s)) => BatchInv'
<1> SUFFICES ASSUME TypeInv, BatchInv, NEW s \in Sources, Validate(s) PROVE BatchInv'
  OBVIOUS
<1>1. /\ phase = "sources" /\ at[s] = "validate" /\ at' = [at EXCEPT ![s] = "done"]
      /\ batch' = batch /\ phase' = phase /\ cmd' = cmd
  BY DEF Validate, Ends
<1>2. batch \in Batches /\ at \in [Sources -> {"out", "waiting", "read", "validate", "done"}]
      /\ s \in DOMAIN exec
  BY <1>1 DEF TypeInv, TypeOK, Shapes
<1>3. /\ DOMAIN exec' = DOMAIN exec
      /\ exec'[s].rows = IF Dry THEN exec[s].rows ELSE Plain(staged[batch][s])
      /\ exec'[s].status \in {"SUCCESS", "PARTIAL"}
      /\ exec'[s].rejected = {r \in exec'[s].rows : Verdict(r) = "REJECTED"}
      /\ exec'[s].hash = SnapshotHash(s, FirstTerm(cmd), cmd.count, cmd.writeMode,
                                      exec'[s].rows)
      /\ RunUpdated(s, exec'[s].status)
      /\ \A t \in DOMAIN exec : t # s => exec'[t] = exec[t]
      /\ \A b \in Batches, t \in Sources :
            b # batch \/ t # s \/ Dry => staged'[b][t] = staged[b][t]
      /\ ~Dry => staged'[batch][s] = Judges(staged[batch][s])
  BY <1>2, ValidateFacts
<1>4. Working(s) /\ Fresh(s)
  BY <1>1 DEF BatchInv
<1>5. /\ \A b \in Batches, t \in Sources :
            /\ run'[b][t].promoted = run[b][t].promoted
            /\ b # batch \/ t # s => run'[b][t] = run[b][t]
      /\ run'[batch][s].status \in {exec'[s].status, run[batch][s].status}
  <2>1. phase # "idle" /\ exec'[s].status \in Statuses
    BY <1>1, <1>3 DEF Statuses
  <2> QED BY <1>3, <2>1, RunsUpdated
<1>6. staged[batch][s] \subseteq StagedRow /\ Keyed(staged[batch][s])
  BY <1>2 DEF TypeInv, TypeOK, Shapes
<1>7. \A r \in staged'[batch][s] : ~r.taken
  <2>1. CASE Dry
    BY <1>2, <1>3, <1>4, <2>1 DEF Fresh
  <2>2. CASE ~Dry
    <3>1. \A p \in Judges(staged[batch][s]) : \E r \in staged[batch][s] : p.taken = r.taken
      BY <1>6, JudgesRows
    <3> QED BY <1>3, <1>4, <2>2, <3>1 DEF Fresh
  <2> QED BY <2>1, <2>2
<1>8. Working(s)'
  <2>1. run[batch][s].status # "FAILED"
    BY <1>1, <1>2, <1>4 DEF Working, Fresh
  <2>2. run'[batch][s].status # "FAILED"
    BY <1>3, <1>5, <2>1
  <2> QED BY <1>1, <1>2, <1>3, <1>4, <2>2 DEF Working
<1>9. ~Dry => Hashed(s)'
  <2> SUFFICES ASSUME ~Dry PROVE Hashed(s)'
    OBVIOUS
  <2>1. /\ \A p \in Judges(staged[batch][s]) : p.verdict = Verdict(p)
        /\ Plain(Judges(staged[batch][s])) = Plain(staged[batch][s])
    BY <1>6, JudgesRows
  <2>2. staged'[batch][s] = Judges(staged[batch][s])
    BY <1>3
  <2>3. exec'[s].rows = Plain(staged'[batch][s])
    BY <1>3, <2>1, <2>2
  <2>4. \A r \in staged'[batch][s] : r.verdict = Verdict(r)
    BY <2>1, <2>2
  <2> QED BY <1>1, <1>3, <2>3, <2>4 DEF Hashed, Verdict
<1>10. Fresh(s)'
  <2>1. at'[s] = "done" /\ run'[batch][s].promoted = 0
    BY <1>1, <1>2, <1>4, <1>5 DEF Fresh
  <2>2. Dry' = Dry
    BY <1>1 DEF Dry
  <2> QED BY <1>1, <1>7, <1>9, <2>1, <2>2 DEF Fresh
<1> QED BY <1>1, <1>2, <1>3, <1>5, <1>8, <1>10, StoreStep

\* What the flags and the last gate come to when the transaction begins: the rows of
\* one store, the one named, all accepted, with exactly the EANs expected and, in a
\* refresh, exactly the hash given.
ReadyRows(s) ==
    /\ ToSet(cmd.filter) = {s}
    /\ ToSet(cmd.expected) = EansOf(staged[batch][s])
    /\ \A r \in staged[batch][s] : r.verdict = "PENDING" /\ r.quote \notin Spiked
    /\ \A t \in Sources : t # s => staged[batch][t] = {}
    /\ \A t \in Sources : run[batch][t].status # "FAILED"
    /\ cmd.writeMode = "refresh-existing" =>
         /\ cmd.hash # None
         /\ cmd.hash = SnapshotHash(s, FirstTerm(cmd), cmd.count, cmd.writeMode,
                                    Plain(staged[batch][s]))

\* A list of one names one store.
LEMMA OneStore ==
    ASSUME NEW list \in Lists, One(list)
    PROVE  ToSet(list) = {list[1]}
<1>1. list \in Seq(STRING) /\ Len(list) = 1
  BY DEF One, Lists
<1>2. DOMAIN list = {1}
  BY <1>1
<1> QED BY <1>2 DEF ToSet

\* The flags, the health of the named store and the last gate leave ready rows.
LEMMA ReadyToCommit ==
    ASSUME TypeInv, BatchInv, phase = "reconcile", ~Dry
    PROVE  \E s \in Sources : ReadyRows(s)
<1>1. /\ Safe(cmd) /\ PassedGates /\ batch \in Batches /\ cmd.filter \in Lists
      /\ \A t \in Sources : Working(t) /\ Fresh(t)
  BY DEF BatchInv, TypeInv, Shapes
<1>2. /\ ActiveWriteGates(cmd)
      /\ IF cmd.writeMode = "refresh-existing" THEN RefreshExistingWrite(cmd)
                                               ELSE Phase4Write(cmd)
  BY <1>1 DEF Safe, PassedGates, Dry
<1>3. Gated
  <2>1. CASE cmd.writeMode = "refresh-existing"
    BY <1>2, <2>1 DEF RefreshExistingWrite, Gated
  <2>2. CASE cmd.writeMode # "refresh-existing"
    <3>1. cmd.expected # None /\ Len(cmd.expected) = Phase4Count /\ Phase4Count # 0
      BY <1>2, <2>2, GateConstants DEF Phase4Write
    <3>2. cmd.expected # <<>>
      BY <3>1
    <3> QED BY <3>1, <3>2 DEF Gated
  <2> QED BY <2>1, <2>2
<1>4. PICK hash : /\ ChunkGate(cmd.expected, hash, exec)
                  /\ cmd.writeMode = "refresh-existing" => hash = cmd.hash
  BY <1>1, <1>3 DEF PassedGates, PreReconcileGate
<1>5. PICK s \in DOMAIN exec :
         /\ DOMAIN exec = {s}
         /\ hash # None => exec[s].hash = hash
         /\ Usable(exec[s])
         /\ ExpectedExactly(cmd.expected, exec[s].rows)
  BY <1>4 DEF ChunkGate
<1>6. s \in Sources /\ at[s] = "done" /\ at[s] # "out"
  <2>1. s \in Sources /\ at[s] \in {"validate", "done"}
    BY DEF TypeInv, Shapes
  <2>2. at[s] \in {"out", "done"}
    BY <1>1, <2>1 DEF PassedGates, AllDone
  <2> QED BY <2>1, <2>2
<1>7. ToSet(cmd.filter) = {s} /\ cmd.filter # None
  <2>1. One(cmd.filter) /\ cmd.filter # None
    BY <1>2 DEF ActiveWriteGates, One
  <2>2. ToSet(cmd.filter) = {cmd.filter[1]}
    BY <1>1, <2>1, OneStore
  <2>3. s \in ToSet(cmd.filter)
    BY <1>1, <1>6, <2>1 DEF Working, Selected
  <2> QED BY <2>1, <2>2, <2>3
<1>8. exec[s].status # "FAILED"
  BY <1>1, <1>7 DEF PassedGates, RequestedSourceFailed
<1>9. Hashed(s)
  BY <1>1, <1>6, <1>8 DEF Fresh
<1>10. \A r \in staged[batch][s] : r.verdict = "PENDING" /\ r.quote \notin Spiked
  <2> SUFFICES ASSUME NEW r \in staged[batch][s]
               PROVE  r.verdict = "PENDING" /\ r.quote \notin Spiked
    OBVIOUS
  <2> DEFINE q == [ean |-> r.ean, quote |-> r.quote]
  <2>1. q \in exec[s].rows
    BY <1>9 DEF Hashed, Plain
  <2>2. Verdict(q) # "REJECTED"
    BY <1>5, <1>9, <2>1 DEF Usable, Hashed
  <2>3. r.quote \notin Spiked
    BY <2>2 DEF Verdict
  <2>4. r.verdict = "PENDING"
    BY <1>9, <2>3 DEF Hashed, Verdict
  <2> QED BY <2>3, <2>4
<1>11. ToSet(cmd.expected) = EansOf(staged[batch][s])
  <2>1. ToSet(cmd.expected) = EansOf(exec[s].rows)
    BY <1>5 DEF ExpectedExactly
  <2>2. EansOf(Plain(staged[batch][s])) = EansOf(staged[batch][s])
    BY PlainEans
  <2> QED BY <1>9, <2>1, <2>2 DEF Hashed
<1>12. \A t \in Sources : t # s => staged[batch][t] = {}
  BY <1>1, <1>5 DEF Working
<1>13. \A t \in Sources : run[batch][t].status # "FAILED"
  BY <1>1, <1>5, <1>8 DEF Working
<1>14. ASSUME cmd.writeMode = "refresh-existing"
       PROVE  /\ cmd.hash # None
              /\ cmd.hash = SnapshotHash(s, FirstTerm(cmd), cmd.count, cmd.writeMode,
                                         Plain(staged[batch][s]))
  <2>1. cmd.hash # None
    BY <1>2, <1>14 DEF RefreshExistingWrite
  <2>2. exec[s].hash = cmd.hash
    BY <1>4, <1>5, <1>14, <2>1
  <2> QED BY <1>9, <2>1, <2>2 DEF Hashed
<1> QED BY <1>6, <1>7, <1>10, <1>11, <1>12, <1>13, <1>14 DEF ReadyRows

\* The transaction takes all the rows of its store, and those of no failed run.
LEMMA CommitBatch == TypeInv /\ BatchInv /\ Commit => BatchInv'
<1> SUFFICES ASSUME TypeInv, BatchInv, Commit PROVE BatchInv'
  OBVIOUS
<1>1. PICK s \in Sources : ReadyRows(s)
  BY ReadyToCommit DEF Commit
<1>2. /\ phase = "reconcile" /\ phase' = "counts" /\ batch \in Batches /\ batch' = batch
      /\ cmd' = cmd /\ exec' = exec /\ at' = at /\ run' = run
      /\ staged' = [b \in Batches |-> IF b # batch THEN staged[b]
                           ELSE [t \in Sources |-> Takes(staged[batch][t])]]
  BY CommitFacts DEF Commit
<1>3. \A b \in Batches, t \in Sources :
         staged'[b][t] = IF b # batch THEN staged[b][t] ELSE Takes(staged[batch][t])
  BY <1>2
<1>4. \A t \in Sources : Working(t) /\ Fresh(t)
  BY <1>2 DEF BatchInv
<1>5. \A t \in Sources : staged[batch][t] \subseteq StagedRow /\ Keyed(staged[batch][t])
  BY <1>2 DEF TypeInv, TypeOK, Shapes
<1>6. Takes({}) = {}
  BY DEF Takes
<1>7. \A p \in Takes(staged[batch][s]) : p.taken /\ p.verdict = "PENDING" /\ p.quote \notin Spiked
  <2> TAKE p \in Takes(staged[batch][s])
  <2>1. PICK r \in staged[batch][s] :
           p = [ean |-> r.ean, quote |-> r.quote, verdict |-> r.verdict,
                taken |-> (r.verdict = "PENDING")]
    BY <1>5, TakesRows
  <2>2. r.verdict = "PENDING" /\ r.quote \notin Spiked
    BY <1>1 DEF ReadyRows
  <2> QED BY <2>1, <2>2
<1>8. \A t \in Sources : t # s => staged'[batch][t] = {}
  BY <1>1, <1>2, <1>3, <1>6 DEF ReadyRows
<1>9. \A r \in staged'[batch][s] : r.taken /\ r.verdict = "PENDING" /\ r.quote \notin Spiked
  BY <1>2, <1>3, <1>7
<1>10. Unopened'
  BY <1>2, <1>3 DEF BatchInv, Unopened, Batches
<1>11. \A t \in Sources : Working(t)'
  BY <1>2, <1>3, <1>4, <1>6 DEF Working
<1>12. TakenIsAccepted'
  BY <1>2, <1>3, <1>8, <1>9 DEF BatchInv, Kinds, TakenIsAccepted
<1>13. FailedRunPromotedNothing'
  <2>1. \A t \in Sources : run'[batch][t].status # "FAILED"
    BY <1>1, <1>2 DEF ReadyRows
  <2> QED BY <1>2, <1>3, <2>1 DEF BatchInv, Kinds, FailedRunPromotedNothing
<1>14. WholeOrNothing'
  BY <1>2, <1>3, <1>8, <1>9 DEF BatchInv, Kinds, WholeOrNothing
<1> QED BY <1>2, <1>10, <1>11, <1>12, <1>13, <1>14 DEF BatchInv, Kinds

\* Passing the gates is what the next phase remembers.
LEMMA GatePassesBatch == TypeInv /\ BatchInv /\ GatePasses => BatchInv'
<1> SUFFICES ASSUME TypeInv, BatchInv, GatePasses PROVE BatchInv'
  OBVIOUS
<1>1. PassedGates
  BY DEF GatePasses, PassedGates
<1>2. /\ phase = "sources" /\ phase' = "reconcile"
      /\ UNCHANGED <<tables, batch, cmd, at, exec>>
  BY DEF GatePasses
<1>3. PassedGates'
  BY <1>1, <1>2 DEF PassedGates, AllDone, Gated
<1>4. \A s \in Sources : Working(s)' /\ Fresh(s)'
  BY <1>2 DEF BatchInv, Working, Fresh, Hashed, Dry, tables
<1>5. Unopened' /\ Kinds'
  BY <1>2 DEF BatchInv, Unopened, Kinds, TakenIsAccepted, FailedRunPromotedNothing,
              WholeOrNothing, tables
<1> QED BY <1>2, <1>3, <1>4, <1>5 DEF BatchInv

\* A refused batch has promoted nothing, so its runs may fail.
LEMMA GateRefusesBatch == TypeInv /\ BatchInv /\ GateRefuses => BatchInv'
<1> SUFFICES ASSUME TypeInv, BatchInv, GateRefuses PROVE BatchInv'
  OBVIOUS
<1>1. /\ phase = "sources" /\ phase' = "idle" /\ batch' = batch /\ staged' = staged
      /\ batch \in Batches
  BY DEF GateRefuses, Stops, TypeInv, Shapes
<1>2. run \in [Batches -> [Sources -> RunRow]]
  BY DEF TypeInv, TypeOK, RunRow, Statuses
<1>3. \A b \in Batches, t \in Sources :
         /\ run'[b][t].promoted = run[b][t].promoted
         /\ b # batch => run'[b][t] = run[b][t]
  <2>1. CASE run' = run
    BY <2>1
  <2>2. CASE run' # run
    <3>1. PICK lost \in SUBSET DOMAIN exec :
              run' = [run EXCEPT ![batch] = [s \in Sources |->
                        IF s \in DOMAIN exec \ lost /\ exec[s].status # "FAILED"
                        THEN [@[s] EXCEPT !.status = "FAILED"] ELSE @[s]]]
      BY <2>2 DEF GateRefuses
    <3>2. \A s \in Sources :
             [run[batch][s] EXCEPT !.status = "FAILED"].promoted = run[batch][s].promoted
      BY <1>1, <1>2 DEF RunRow
    <3> DEFINE row == [s \in Sources |->
                        IF s \in DOMAIN exec \ lost /\ exec[s].status # "FAILED"
                        THEN [run[batch][s] EXCEPT !.status = "FAILED"] ELSE run[batch][s]]
    <3>3. \A s \in Sources : row[s].promoted = run[batch][s].promoted
      BY <3>2
    <3>4. run' = [run EXCEPT ![batch] = row]
      BY <3>1
    <3> HIDE DEF row
    <3> QED BY <1>1, <1>2, <3>3, <3>4
  <2> QED BY <2>1, <2>2
<1>4. \A s \in Sources : Fresh(s)
  BY <1>1 DEF BatchInv
<1>5. Unopened'
  BY <1>1, <1>3 DEF BatchInv, Unopened, Batches
<1>6. FailedRunPromotedNothing'
  BY <1>1, <1>3, <1>4 DEF BatchInv, Kinds, FailedRunPromotedNothing, Fresh
<1>7. TakenIsAccepted' /\ WholeOrNothing'
  BY <1>1 DEF BatchInv, Kinds, TakenIsAccepted, WholeOrNothing
<1> QED BY <1>1, <1>5, <1>6, <1>7 DEF BatchInv, Kinds

\* Only runs that have not failed are given a count.
LEMMA CountBatch == TypeInv /\ BatchInv /\ Count => BatchInv'
<1> SUFFICES ASSUME TypeInv, BatchInv, Count PROVE BatchInv'
  OBVIOUS
<1>1. /\ phase = "counts" /\ phase' = "idle" /\ batch' = batch /\ staged' = staged
      /\ batch \in Batches
  BY DEF Count, Stops, TypeInv, Shapes
<1>2. run \in [Batches -> [Sources -> RunRow]]
  BY DEF TypeInv, TypeOK, RunRow, Statuses
<1>3. PICK lost \in SUBSET DOMAIN exec :
         run' = [run EXCEPT ![batch] = [s \in Sources |->
                   IF s \in DOMAIN exec \ lost /\ exec[s].status # "FAILED"
                   THEN [@[s] EXCEPT !.promoted = Cardinality({r \in staged[batch][s] : r.taken})]
                   ELSE @[s]]]
  BY DEF Count
<1>4. \A b \in Batches, t \in Sources :
         /\ b # batch => run'[b][t] = run[b][t]
         /\ run'[b][t].status = "FAILED" =>
              run[b][t].status = "FAILED" /\ run'[b][t] = run[b][t]
  <2> DEFINE x(s) == [run[batch][s] EXCEPT !.promoted = Cardinality({r \in staged[batch][s] : r.taken})]
             row == [s \in Sources |-> IF s \in DOMAIN exec \ lost /\ exec[s].status # "FAILED"
                                       THEN x(s) ELSE run[batch][s]]
  <2>1. \A s \in Sources : x(s).status = run[batch][s].status
    BY <1>1, <1>2 DEF RunRow
  <2>2. run' = [run EXCEPT ![batch] = row]
    BY <1>3
  <2> HIDE DEF x
  <2>3. \A s \in Sources : run[batch][s].status = "FAILED" =>
                              s \in DOMAIN exec /\ exec[s].status = "FAILED"
    BY <1>1 DEF BatchInv, Working
  <2>4. \A s \in Sources : row[s].status = run[batch][s].status
    BY <2>1
  <2>5. \A s \in Sources : run[batch][s].status = "FAILED" => row[s] = run[batch][s]
    BY <2>3
  <2> HIDE DEF row
  <2> QED BY <1>1, <1>2, <2>2, <2>4, <2>5
<1>5. Unopened'
  BY <1>1, <1>4 DEF BatchInv, Unopened, Batches
<1>6. FailedRunPromotedNothing'
  BY <1>1, <1>4 DEF BatchInv, Kinds, FailedRunPromotedNothing
<1>7. TakenIsAccepted' /\ WholeOrNothing'
  BY <1>1 DEF BatchInv, Kinds, TakenIsAccepted, WholeOrNothing
<1> QED BY <1>1, <1>5, <1>6, <1>7 DEF BatchInv, Kinds

\* Every step keeps what memory, runs and staging say of each other.
LEMMA NextBatch == TypeInv /\ BatchInv /\ [Next]_vars => BatchInv'
<1> SUFFICES ASSUME TypeInv, BatchInv, [Next]_vars PROVE BatchInv'
  OBVIOUS
<1>1. CASE UNCHANGED vars
  BY <1>1, BatchFrame DEF vars
<1>2. CASE Next
  <2>1. CASE (\E m \in Moves : ShelfMoves(m[1], m[2], m[3]))
             \/ (\E w \in OtherWrites : OtherWrite(w[1], w[2], w[3]))
             \/ (\E a \in AuditRequests : AuditFetch(a))
             \/ AuditRead \/ AuditRefused \/ AuditWrite
    <3>1. UNCHANGED <<tables, command>>
      BY <2>1 DEF ShelfMoves, OtherWrite, AuditFetch, AuditRead, AuditRefused, AuditWrite
    <3> QED BY <3>1, BatchFrame
  <2>2. CASE \E f \in Commands : Start(f)
    BY <2>2, StartBatch
  <2>3. CASE \E s \in Sources : Begin(s) \/ Fetch(s) \/ Validate(s) \/ Fails(s)
    BY <2>3, BeginBatch, FetchBatch, ValidateBatch, FailsBatch
  <2>4. CASE NothingToReconcile \/ NoCommit \/ Die
    <3>1. Stops /\ UNCHANGED <<tables, batch>>
      BY <2>4 DEF NothingToReconcile, NoCommit, Die
    <3> QED BY <3>1, BatchStops
  <2>5. CASE GatePasses \/ GateRefuses \/ Commit \/ Count
    BY <2>5, GatePassesBatch, GateRefusesBatch, CommitBatch, CountBatch
  <2> QED BY <1>2, <2>1, <2>2, <2>3, <2>4, <2>5 DEF Next
<1> QED BY <1>1, <1>2

\* A run that ends FAILED put nothing in the catalog, the rows of a run are taken
\* all or none and never a rejected one, whichever updates are lost and wherever
\* the command dies; for any stores, commands and numbers of batches.
THEOREM RunsAndRows == Spec => []Inv
<1>1. Init => TypeInv /\ BatchInv
  BY InitTypes, InitBatch
<1>2. TypeInv /\ BatchInv /\ [Next]_vars => (TypeInv /\ BatchInv)'
  BY NextTypes, NextBatch
<1>3. TypeInv /\ BatchInv => Inv
  BY DEF TypeInv, BatchInv, Kinds, Inv
<1> QED BY <1>1, <1>2, <1>3, PTL DEF Spec

\* Only the transaction commits.
LEMMA CommitsByCommit == [Next]_vars /\ Commits => Commit
<1> SUFFICES ASSUME [Next]_vars, Commits PROVE Commit
  OBVIOUS
<1>1. phase = "reconcile" /\ phase' = "counts"
  BY DEF Commits
<1>2. Next
  BY <1>1 DEF vars, command
<1>3. phase' # phase
  BY <1>1
<1>4. ~ \E m \in Moves : ShelfMoves(m[1], m[2], m[3])
  BY <1>3 DEF ShelfMoves, command
<1>5. ~ \E w \in OtherWrites : OtherWrite(w[1], w[2], w[3])
  BY <1>3 DEF OtherWrite, command
<1>6. ~ ((\E a \in AuditRequests : AuditFetch(a)) \/ AuditRead \/ AuditRefused \/ AuditWrite)
  BY <1>3 DEF AuditFetch, AuditRead, AuditRefused, AuditWrite, command
<1>7. ~ \E f \in Commands : Start(f)
  BY <1>1 DEF Start
<1>8. ~ \E s \in Sources : Begin(s) \/ Fetch(s) \/ Validate(s) \/ Fails(s)
  BY <1>1 DEF Begin, Fetch, Validate, Fails
<1>9. ~ (NothingToReconcile \/ GatePasses \/ GateRefuses \/ NoCommit \/ Count \/ Die)
  BY <1>1 DEF NothingToReconcile, GatePasses, GateRefuses, NoCommit, Count, Die, Stops
<1> QED BY <1>2, <1>4, <1>5, <1>6, <1>7, <1>8, <1>9 DEF Next

\* The rows a transaction takes are the rows of the batch, all of them.
LEMMA TakenByCommit ==
    ASSUME TypeInv, BatchInv, Commit, NEW s \in Sources, ReadyRows(s)
    PROVE  Taken(staged') \ Taken(staged) = {batch} \X ToSet(cmd.filter) \X ToSet(cmd.expected)
<1> DEFINE E == EansOf(staged[batch][s])
<1>1. ToSet(cmd.filter) = {s} /\ ToSet(cmd.expected) = E
  BY DEF ReadyRows
<1>2. /\ batch \in Batches
      /\ staged' = [b \in Batches |-> IF b # batch THEN staged[b]
                           ELSE [t \in Sources |-> Takes(staged[batch][t])]]
  BY CommitFacts
<1>3. /\ \A t \in Sources : \A r \in staged[batch][t] : ~r.taken
      /\ staged[batch][s] \subseteq StagedRow /\ Keyed(staged[batch][s])
  BY <1>2 DEF Commit, BatchInv, Fresh, TypeInv, TypeOK, Shapes
<1>4. E \subseteq Eans
  BY <1>3 DEF EansOf, StagedRow
<1>5. \A e \in Eans : (\E p \in Takes(staged[batch][s]) : p.ean = e /\ p.taken) <=> e \in E
  <2> TAKE e \in Eans
  <2>1. ASSUME NEW p \in Takes(staged[batch][s]), p.ean = e PROVE e \in E
    <3>1. PICK r \in staged[batch][s] : p.ean = r.ean
      BY <1>3, TakesRows
    <3> QED BY <2>1, <3>1 DEF EansOf
  <2>2. ASSUME e \in E PROVE \E p \in Takes(staged[batch][s]) : p.ean = e /\ p.taken
    <3>1. PICK r \in staged[batch][s] : e = r.ean
      BY <2>2 DEF EansOf
    <3>2. r.verdict = "PENDING"
      BY DEF ReadyRows
    <3> DEFINE p == [ean |-> r.ean, quote |-> r.quote, verdict |-> r.verdict,
                     taken |-> (r.verdict = "PENDING")]
    <3>3. p \in Takes(staged[batch][s])
      BY <1>3, TakesRows
    <3>4. p.ean = e /\ p.taken
      BY <3>1, <3>2
    <3> HIDE DEF p
    <3> QED BY <3>3, <3>4
  <2> QED BY <2>1, <2>2
<1> HIDE DEF E
<1>6. \A t \in Sources : t # s => staged'[batch][t] = {}
  BY <1>2 DEF ReadyRows, Takes
<1>7. \A b \in Batches, t \in Sources, e \in Eans :
         <<b, t, e>> \in Taken(staged) <=> \E r \in staged[b][t] : r.ean = e /\ r.taken
  BY DEF Taken
<1>8. \A b \in Batches, t \in Sources, e \in Eans :
         <<b, t, e>> \in Taken(staged') <=> \E r \in staged'[b][t] : r.ean = e /\ r.taken
  BY DEF Taken
<1>9. \A b \in Batches, t \in Sources, e \in Eans :
         <<b, t, e>> \in Taken(staged') \ Taken(staged) <=> b = batch /\ t = s /\ e \in E
  <2> TAKE b \in Batches, t \in Sources, e \in Eans
  <2>1. CASE b # batch
    <3>1. staged'[b][t] = staged[b][t]
      BY <1>2, <2>1
    <3> QED BY <1>7, <1>8, <2>1, <3>1
  <2>2. CASE b = batch /\ t # s
    BY <1>6, <1>8, <2>2
  <2>3. CASE b = batch /\ t = s
    <3>1. staged'[b][t] = Takes(staged[batch][s])
      BY <1>2, <2>3
    <3>2. <<b, t, e>> \notin Taken(staged)
      BY <1>3, <1>7, <2>3
    <3> QED BY <1>5, <1>8, <2>3, <3>1, <3>2
  <2> QED BY <2>1, <2>2, <2>3
<1>10. Taken(staged') \subseteq Batches \X Sources \X Eans
  BY DEF Taken
<1>11. ASSUME NEW x \in Taken(staged') \ Taken(staged) PROVE x \in {batch} \X {s} \X E
  <2>1. PICK b \in Batches, t \in Sources, e \in Eans : x = <<b, t, e>>
    BY <1>10
  <2>2. b = batch /\ t = s /\ e \in E
    BY <1>9, <2>1
  <2> QED BY <2>1, <2>2
<1>12. ASSUME NEW x \in {batch} \X {s} \X E PROVE x \in Taken(staged') \ Taken(staged)
  <2>1. PICK e \in E : x = <<batch, s, e>>
    OBVIOUS
  <2> QED BY <1>2, <1>4, <1>9, <2>1
<1> QED BY <1>1, <1>11, <1>12

\* A write takes exactly the EANs the command expects, from exactly the store it
\* names, whatever that store answered and earlier batches left in staging.
THEOREM WritesTakeTheExpected == Spec => PromotesExpected
<1>1. Init => TypeInv /\ BatchInv
  BY InitTypes, InitBatch
<1>2. TypeInv /\ BatchInv /\ [Next]_vars => (TypeInv /\ BatchInv)'
  BY NextTypes, NextBatch
<1>3. TypeInv /\ BatchInv /\ [Next]_vars =>
        [Commits => Taken(staged') \ Taken(staged) =
                      {batch} \X ToSet(cmd.filter) \X ToSet(cmd.expected)]_vars
  <2> SUFFICES ASSUME TypeInv, BatchInv, [Next]_vars, Commits
               PROVE  Taken(staged') \ Taken(staged) =
                        {batch} \X ToSet(cmd.filter) \X ToSet(cmd.expected)
    OBVIOUS
  <2>1. Commit
    BY CommitsByCommit
  <2>2. PICK s \in Sources : ReadyRows(s)
    BY <2>1, ReadyToCommit DEF Commit
  <2> QED BY <2>1, <2>2, TakenByCommit
<1> QED BY <1>1, <1>2, <1>3, PTL DEF Spec, PromotesExpected

-----------------------------------------------------------------------------
(* The audit and what it says of the catalog.                               *)

\* What the audit read is the catalog until somebody writes; the file says so of
\* the offers and of the number of points, and its EANs are products for good.
AuditInv ==
    /\ auditor # None => audit = None
    /\ auditor # None /\ auditor.before # None =>
         /\ EansOf(auditor.rows) \subseteq products
         /\ ~touched => auditor.before = offers[auditor.ask.source]
    /\ audit # None =>
         /\ audit.plan.eans \subseteq products
         /\ ~touched => /\ audit.plan.maxId = Len(history)
                        /\ \A e \in audit.plan.eans :
                              audit.plan.offers[e] = offers[audit.plan.source][e]
    /\ phase # "idle" /\ cmd.hash # None => audit # None /\ cmd.hash = audit.hash

\* At first there is neither audit nor command.
LEMMA InitAudit == Init => AuditInv
BY DEF Init, AuditInv

\* An audit keeps the offers as they are when it reads them.
LEMMA AuditReadAudit == TypeInv /\ AuditInv /\ AuditRead => AuditInv'
<1> SUFFICES ASSUME TypeInv, AuditInv, AuditRead PROVE AuditInv'
  OBVIOUS
<1>1. auditor \in Auditing /\ auditor # None /\ audit = None
  BY DEF AuditRead, TypeInv, Shapes, AuditInv
<1>2. PICK S \in AuditSelections(auditor.ask, auditor.rows, products, OfferedBy(auditor.ask.source)) :
         auditor' = [auditor EXCEPT !.rows = S, !.before = offers[auditor.ask.source]]
  BY DEF AuditRead
<1>3. EansOf(S) \subseteq products
  BY <1>2, SelectionsOfRows
<1>4. /\ auditor'.rows = S /\ auditor'.before = offers[auditor.ask.source]
      /\ auditor'.ask = auditor.ask
  BY <1>1, <1>2 DEF Auditing
<1>5. UNCHANGED <<catalog, command, audit>>
  BY DEF AuditRead
<1> QED BY <1>1, <1>3, <1>4, <1>5 DEF AuditInv, catalog, command

\* The file of the audit repeats what the audit read.
LEMMA AuditWriteAudit == TypeInv /\ AuditInv /\ AuditWrite => AuditInv'
<1> SUFFICES ASSUME TypeInv, AuditInv, AuditWrite PROVE AuditInv'
  OBVIOUS
<1>1. auditor # None /\ auditor.before # None /\ audit = None
  BY DEF AuditWrite, AuditInv
<1> DEFINE p == RollbackPlan(auditor.ask, auditor.rows, auditor.before, Len(history))
<1>2. audit'.plan = p /\ auditor' = None /\ UNCHANGED <<catalog, command, touched>>
  BY DEF AuditWrite
<1>3. /\ p.eans = EansOf(auditor.rows) /\ p.maxId = Len(history)
      /\ p.source = auditor.ask.source
      /\ \A e \in EansOf(auditor.rows) : p.offers[e] = auditor.before[e]
  BY DEF RollbackPlan
<1> HIDE DEF p
<1>4. ~(phase # "idle" /\ cmd.hash # None)
  BY <1>1 DEF AuditInv
<1>5. /\ audit'.plan.eans \subseteq products
      /\ ~touched => /\ audit'.plan.maxId = Len(history)
                     /\ \A e \in audit'.plan.eans :
                           audit'.plan.offers[e] = offers[audit'.plan.source][e]
  BY <1>1, <1>2, <1>3 DEF AuditInv
<1> QED BY <1>2, <1>4, <1>5 DEF AuditInv, catalog, command

\* A command is told its hash by the audit on disk, which no audit replaces.
LEMMA StartAudit == TypeInv /\ AuditInv /\ (\E f \in Commands : Start(f)) => AuditInv'
<1> SUFFICES ASSUME TypeInv, AuditInv, NEW f \in Commands, Start(f) PROVE AuditInv'
  OBVIOUS
<1>1. /\ cmd' = Parsed(Told(f)) /\ (audit = None => f.hash = "none")
      /\ UNCHANGED <<catalog, review>>
  BY DEF Start
<1>2. cmd'.hash = IF f.hash = "audit" THEN audit.hash ELSE None
  BY <1>1, CommandOfFlags
<1>3. cmd'.hash # None => audit # None /\ cmd'.hash = audit.hash
  BY <1>1, <1>2
<1> QED BY <1>1, <1>3 DEF AuditInv, catalog, review

\* A write of this command or of others leaves the catalog touched.
LEMMA WritesAudit ==
    ASSUME TypeInv, AuditInv, touched' = TRUE, products \subseteq products',
           UNCHANGED <<cmd, auditor, audit>>, phase' # "idle" => phase # "idle"
    PROVE  AuditInv'
BY DEF AuditInv

\* Every step keeps what the audit says of the catalog.
LEMMA NextAudit == TypeInv /\ AuditInv /\ [Next]_vars => AuditInv'
<1> SUFFICES ASSUME TypeInv, AuditInv, [Next]_vars PROVE AuditInv'
  OBVIOUS
<1>1. CASE UNCHANGED vars
  BY <1>1 DEF vars, catalog, command, review, AuditInv
<1>2. CASE Next
  <2>1. CASE \E m \in Moves : ShelfMoves(m[1], m[2], m[3])
    BY <2>1 DEF ShelfMoves, catalog, command, review, AuditInv
  <2>2. CASE \E w \in OtherWrites : OtherWrite(w[1], w[2], w[3])
    <3>1. touched' = TRUE /\ products \subseteq products' /\ UNCHANGED <<command, auditor, audit>>
      BY <2>2 DEF OtherWrite
    <3> QED BY <3>1, WritesAudit DEF command
  <2>3. CASE (\E a \in AuditRequests : AuditFetch(a)) \/ AuditRefused
    <3>1. CASE AuditRefused
      BY <3>1 DEF AuditRefused, AuditInv, catalog, command
    <3>2. CASE \E a \in AuditRequests : AuditFetch(a)
      <4>1. /\ auditor'.before = None /\ audit = None
            /\ UNCHANGED <<catalog, command, audit, touched>>
        BY <3>2 DEF AuditFetch
      <4> QED BY <4>1 DEF AuditInv, catalog, command
    <3> QED BY <2>3, <3>1, <3>2
  <2>4. CASE AuditRead \/ AuditWrite
    BY <2>4, AuditReadAudit, AuditWriteAudit
  <2>5. CASE \E f \in Commands : Start(f)
    BY <2>5, StartAudit
  <2>6. CASE (\E s \in Sources : Begin(s) \/ Fetch(s) \/ Validate(s) \/ Fails(s)) \/ GatePasses
    <3>1. phase # "idle" /\ UNCHANGED <<catalog, cmd, review>>
      BY <2>6 DEF Begin, Fetch, Validate, Fails, GatePasses
    <3> QED BY <3>1 DEF AuditInv, catalog, review
  <2>7. CASE NothingToReconcile \/ GateRefuses \/ NoCommit \/ Count \/ Die
    <3>1. phase' = "idle" /\ UNCHANGED <<catalog, review>>
      BY <2>7 DEF NothingToReconcile, GateRefuses, NoCommit, Count, Die, Stops
    <3> QED BY <3>1 DEF AuditInv, catalog, review
  <2>8. CASE Commit
    <3>1. phase # "idle" /\ touched' = TRUE /\ products \subseteq products'
          /\ UNCHANGED <<cmd, auditor, audit>>
      BY <2>8 DEF Commit
    <3> QED BY <3>1, WritesAudit
  <2> QED BY <1>2, <2>1, <2>2, <2>3, <2>4, <2>5, <2>6, <2>7, <2>8 DEF Next
<1> QED BY <1>1, <1>2

\* The catalog after a write: the rows of the one store, as they were hashed.
LEMMA CatalogOfCommit ==
    ASSUME TypeInv, BatchInv, Commit, NEW s \in Sources, ReadyRows(s)
    PROVE  /\ offers' = WithOffers(offers, s, Plain(staged[batch][s]))
           /\ products' = products \cup EansOf(staged[batch][s])
<1> DEFINE S == staged[batch][s]
           P == Plain(staged[batch][s])
<1>1. /\ batch \in Batches
      /\ products' = products \cup UNION {EansOf(Accepted(batch, t)) : t \in Sources}
      /\ offers' = [t \in Sources |-> WithOffers(offers, t, Accepted(batch, t))[t]]
  BY CommitFacts
<1>2. S \subseteq StagedRow /\ Keyed(S)
  BY <1>1 DEF TypeInv, TypeOK, Shapes
<1>3. Accepted(batch, s) = S /\ \A t \in Sources : t # s => Accepted(batch, t) = {}
  BY DEF ReadyRows, Accepted
<1>4. (\A p \in P : \E r \in S : p = [ean |-> r.ean, quote |-> r.quote])
      /\ (\A r \in S : [ean |-> r.ean, quote |-> r.quote] \in P)
  BY DEF Plain
<1>5. EansOf(P) = EansOf(S)
  BY PlainEans
<1> HIDE DEF S, P
<1>6. (\A r \in S : r.quote \in Quotes) /\ (\A r \in P : r.quote \in Quotes)
  BY <1>2, <1>4 DEF StagedRow
<1>7. Keyed(P)
  <2> SUFFICES ASSUME NEW x \in P, NEW y \in P, x.ean = y.ean PROVE x = y
    BY DEF Keyed
  <2>1. PICK r \in S : x = [ean |-> r.ean, quote |-> r.quote]
    BY <1>4
  <2>2. PICK q \in S : y = [ean |-> q.ean, quote |-> q.quote]
    BY <1>4
  <2>3. r = q
    BY <1>2, <2>1, <2>2 DEF Keyed
  <2> QED BY <2>1, <2>2, <2>3
<1>8. EansOf({}) = {}
  BY DEF EansOf
<1>9. products' = products \cup EansOf(S)
  <2>1. UNION {EansOf(Accepted(batch, t)) : t \in Sources} = EansOf(S)
    BY <1>3, <1>8
  <2> QED BY <1>1, <2>1
<1>10. offers \in [Sources -> [Eans -> Quotes \cup {None}]]
  BY DEF TypeInv, TypeOK
<1> DEFINE W == WithOffers(offers, s, P)
           V(t) == WithOffers(offers, t, Accepted(batch, t))
<1>11. /\ W \in [Sources -> [Eans -> Quotes \cup {None}]]
       /\ \A t \in Sources : t # s => W[t] = offers[t]
       /\ \A e \in Eans : W[s][e] =
             IF e \in EansOf(P) THEN (CHOOSE r \in P : r.ean = e).quote ELSE offers[s][e]
  BY <1>6, <1>10, WithOffersTypes
<1>12. ASSUME NEW t \in Sources
       PROVE  /\ V(t) \in [Sources -> [Eans -> Quotes \cup {None}]]
              /\ \A e \in Eans : V(t)[t][e] =
                   IF e \in EansOf(Accepted(batch, t))
                   THEN (CHOOSE r \in Accepted(batch, t) : r.ean = e).quote ELSE offers[t][e]
  <2>1. \A r \in Accepted(batch, t) : r.quote \in Quotes
    BY <1>3, <1>6
  <2> QED BY <1>10, <2>1, WithOffersTypes
<1> HIDE DEF W, V
<1>13. ASSUME NEW t \in Sources, NEW e \in Eans PROVE V(t)[t][e] = W[t][e]
  <2>1. CASE t # s
    <3>1. Accepted(batch, t) = {} /\ EansOf({}) = {}
      BY <1>3, <1>8, <2>1
    <3> QED BY <1>11, <1>12, <2>1, <3>1
  <2>2. CASE t = s /\ e \notin EansOf(S)
    BY <1>3, <1>5, <1>11, <1>12, <2>2
  <2>3. CASE t = s /\ e \in EansOf(S)
    <3>1. PICK q \in S : q.ean = e
      BY <2>3 DEF EansOf
    <3>2. (CHOOSE r \in S : r.ean = e) = q
      BY <1>2, <3>1, ChosenRow
    <3> DEFINE p == [ean |-> q.ean, quote |-> q.quote]
    <3>3. p \in P /\ p.ean = e /\ p.quote = q.quote
      BY <1>4, <3>1
    <3> HIDE DEF p
    <3>4. (CHOOSE r \in P : r.ean = e) = p
      BY <1>7, <3>3, ChosenRow
    <3> QED BY <1>3, <1>5, <1>11, <1>12, <2>3, <3>2, <3>3, <3>4
  <2> QED BY <2>1, <2>2, <2>3
<1>14. ASSUME NEW t \in Sources PROVE V(t)[t] = W[t]
  <2>1. V(t)[t] \in [Eans -> Quotes \cup {None}] /\ W[t] \in [Eans -> Quotes \cup {None}]
    BY <1>11, <1>12
  <2> QED BY <1>13, <2>1
<1>15. offers' = [t \in Sources |-> V(t)[t]]
  BY <1>1 DEF V
<1>16. offers' = W
  BY <1>11, <1>14, <1>15
<1> QED BY <1>9, <1>16 DEF W, S, P

\* A refresh of existing offers writes, to the cent, what its audit saw, and no other
\* offer, whatever the store sells by then: the hash refuses anything else.
THEOREM WritesAreAudited == Spec => WritesWhatWasAudited
<1>1. Init => TypeInv /\ BatchInv /\ AuditInv
  BY InitTypes, InitBatch, InitAudit
<1>2. TypeInv /\ BatchInv /\ AuditInv /\ [Next]_vars => (TypeInv /\ BatchInv /\ AuditInv)'
  BY NextTypes, NextBatch, NextAudit
<1>3. TypeInv /\ BatchInv /\ AuditInv /\ [Next]_vars =>
        [Commits /\ cmd.writeMode = "refresh-existing" =>
           /\ cmd.hash = audit.hash
           /\ offers' = WithOffers(offers, cmd.hash.source, cmd.hash.rows)]_vars
  <2> SUFFICES ASSUME TypeInv, BatchInv, AuditInv, [Next]_vars,
                      Commits, cmd.writeMode = "refresh-existing"
               PROVE  /\ cmd.hash = audit.hash
                      /\ offers' = WithOffers(offers, cmd.hash.source, cmd.hash.rows)
    OBVIOUS
  <2>1. Commit
    BY CommitsByCommit
  <2>2. PICK s \in Sources : ReadyRows(s)
    BY <2>1, ReadyToCommit DEF Commit
  <2>3. cmd.hash # None /\ cmd.hash.source = s /\ cmd.hash.rows = Plain(staged[batch][s])
    BY <2>2 DEF ReadyRows, SnapshotHash
  <2>4. cmd.hash = audit.hash
    BY <2>1, <2>3 DEF AuditInv, Commit
  <2> QED BY <2>1, <2>2, <2>3, <2>4, CatalogOfCommit
<1> QED BY <1>1, <1>2, <1>3, PTL DEF Spec, WritesWhatWasAudited

\* The rollback plan of an audit takes the audited write back, offers, products and
\* history, when nothing else wrote since the audit read the catalog.
THEOREM PlansUndoWrites == Spec => PlanUndoesWrite
<1> DEFINE A == Commits /\ audit # None /\ ~touched
                  /\ ToSet(cmd.filter) = {audit.plan.source}
                  /\ ToSet(cmd.expected) = audit.plan.eans
           C == LET p == audit.plan
                IN /\ [e \in Eans |-> IF e \in p.eans THEN p.offers[e]
                                      ELSE offers'[p.source][e]] = offers[p.source]
                   /\ SubSeq(history', 1, p.maxId) = history
                   /\ products' = products
<1>1. Init => TypeInv /\ BatchInv /\ AuditInv
  BY InitTypes, InitBatch, InitAudit
<1>2. TypeInv /\ BatchInv /\ AuditInv /\ [Next]_vars => (TypeInv /\ BatchInv /\ AuditInv)'
  BY NextTypes, NextBatch, NextAudit
<1>3. TypeInv /\ BatchInv /\ AuditInv /\ [Next]_vars => [A => C]_vars
  <2> SUFFICES ASSUME TypeInv, BatchInv, AuditInv, [Next]_vars, A PROVE C
    OBVIOUS
  <2> DEFINE p == audit.plan
  <2>1. Commit
    BY CommitsByCommit
  <2>2. PICK s \in Sources : ReadyRows(s)
    BY <2>1, ReadyToCommit DEF Commit
  <2>3. p.source = s /\ p.eans = EansOf(staged[batch][s])
    BY <2>2 DEF ReadyRows
  <2>4. /\ p.eans \subseteq products /\ p.maxId = Len(history)
        /\ \A e \in p.eans : p.offers[e] = offers[s][e]
    BY <2>3 DEF AuditInv
  <2>5. /\ offers' = WithOffers(offers, s, Plain(staged[batch][s]))
        /\ products' = products \cup p.eans
    BY <2>1, <2>2, <2>3, CatalogOfCommit
  <2>6. offers \in [Sources -> [Eans -> Quotes \cup {None}]]
    BY DEF TypeInv, TypeOK
  <2>7. \A e \in Eans : e \notin p.eans => offers'[s][e] = offers[s][e]
    <3>1. \A r \in Plain(staged[batch][s]) : r.quote \in Quotes
      <4>1. batch \in Batches
        BY <2>1, CommitFacts
      <4>2. staged[batch][s] \subseteq StagedRow
        BY <4>1 DEF TypeInv, TypeOK
      <4>3. \A r \in staged[batch][s] : r.quote \in Quotes
        BY <4>2 DEF StagedRow
      <4> QED BY <4>3 DEF Plain
    <3>2. EansOf(Plain(staged[batch][s])) = p.eans
      BY <2>3, PlainEans
    <3> DEFINE R == Plain(staged[batch][s])
    <3> HIDE DEF p, R
    <3>3. \A e \in Eans : WithOffers(offers, s, R)[s][e] =
             IF e \in EansOf(R) THEN (CHOOSE r \in R : r.ean = e).quote ELSE offers[s][e]
      <4>1. \A r \in R : r.quote \in Quotes
        BY <3>1 DEF R
      <4> QED BY <2>6, <4>1, WithOffersTypes
    <3>4. offers' = WithOffers(offers, s, R) /\ EansOf(R) = p.eans
      BY <2>5, <3>2 DEF R
    <3> QED BY <3>3, <3>4
  <2>8. SubSeq(history', 1, p.maxId) = history
    <3>1. PICK h \in Seq(Point) : history' = history \o h
      BY <2>1, CommitFacts
    <3>2. history \in Seq(Point)
      BY DEF TypeInv, TypeOK, Point
    <3> QED BY <2>4, <3>1, <3>2, PrefixIsKept
  <2>9. [e \in Eans |-> IF e \in p.eans THEN p.offers[e] ELSE offers'[p.source][e]] = offers[p.source]
    <3> HIDE DEF p
    <3>1. offers[s] \in [Eans -> Quotes \cup {None}]
      BY <2>6
    <3>2. \A e \in Eans : (IF e \in p.eans THEN p.offers[e] ELSE offers'[s][e]) = offers[s][e]
      BY <2>4, <2>7
    <3>3. [e \in Eans |-> IF e \in p.eans THEN p.offers[e] ELSE offers'[s][e]] = offers[s]
      BY <3>1, <3>2
    <3> QED BY <2>3, <3>3
  <2>10. products' = products
    BY <2>4, <2>5
  <2> QED BY <2>8, <2>9, <2>10
<1> QED BY <1>1, <1>2, <1>3, PTL DEF Spec, PlanUndoesWrite

=============================================================================
