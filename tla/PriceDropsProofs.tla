--------------------------- MODULE PriceDropsProofs ---------------------------
(***************************************************************************)
(* The channel is told no day twice, and the payload tells the falls that  *)
(* were observed, for any offers, answers, prices and rules.               *)
(*                                                                         *)
(* The channel (ChannelInv): a scheduled run begins on a day of which      *)
(* nothing was posted, and what it posts is of the day it posts on.  The   *)
(* payload: a history is the changes of a log (Agree), so the newest       *)
(* different point the selection finds is the start of the newest stretch  *)
(* at another price (SinceFacts, LastDifferentFacts), which the snapshot   *)
(* still carries where it counts; and a ranking lists every drop once,     *)
(* before those it outranks (RankedFacts).                                 *)
(***************************************************************************)
EXTENDS PriceDrops, SequenceTheorems, FiniteSetTheorems, WellFoundedInduction, TLAPS

-----------------------------------------------------------------------------
(* Numbers, days and sequences.                                             *)

\* A set of naturals that is not empty has a least element.
LEMMA LeastNat ==
    ASSUME NEW S \in SUBSET Nat, S # {}
    PROVE  \E m \in S : \A s \in S : m <= s
<1> DEFINE R == {p \in Nat \X Nat : p[1] < p[2]}
<1>1. IsWellFoundedOn(R, Nat)
  <2>1. R = OpToRel(<, Nat)
    BY DEF OpToRel
  <2> QED BY <2>1, NatLessThanWellFounded
<1>2. PICK m \in S : \A s \in S : ~ (<<s, m>> \in R)
  <2> HIDE DEF R
  <2> QED BY <1>1, WFMin
<1>3. ASSUME NEW s \in S PROVE m <= s
  <2>1. m \in Nat /\ s \in Nat /\ ~ (<<s, m>> \in R)
    BY <1>2
  <2>2. ~ (s < m)
    BY <2>1
  <2> QED BY <2>1, <2>2
<1> QED BY <1>3

\* Days are numbered in the order of time.
LEMMA DayFacts ==
    /\ \A t \in Nat : Day(t) \in Nat
    /\ \A s, t \in Nat : s <= t => Day(s) <= Day(t)
<1>1. PerDay \in Nat \ {0}
  BY PriceDropsConstants
<1>2. ASSUME NEW t \in Nat
      PROVE  Day(t) \in Nat /\ PerDay * Day(t) <= t /\ t < PerDay * Day(t) + PerDay
  BY <1>1 DEF Day
<1>3. ASSUME NEW s \in Nat, NEW t \in Nat, s <= t PROVE Day(s) <= Day(t)
  <2>1. CASE Day(s) > Day(t)
    <3> DEFINE a == Day(s) b == Day(t)
    <3>1. a \in Nat /\ b \in Nat /\ a >= b + 1 /\ PerDay * a <= s /\ t < PerDay * b + PerDay
      BY <1>2, <1>3, <2>1
    <3> HIDE DEF a, b
    <3>2. PICK k \in Nat : a = b + 1 + k
      <4>1. a - b - 1 \in Nat /\ a = b + 1 + (a - b - 1)
        BY <3>1
      <4> QED BY <4>1
    <3>3. PerDay * a = PerDay * b + PerDay + PerDay * k /\ PerDay * k \in Nat /\ PerDay * b \in Nat
      BY <1>1, <3>1, <3>2
    <3> QED BY <1>1, <1>3, <3>1, <3>3
  <2> QED BY <1>2, <2>1
<1> QED BY <1>2, <1>3

\* What Append returns.
LEMMA AppendFacts ==
    ASSUME NEW X, NEW s \in Seq(X), NEW x \in X
    PROVE  /\ Append(s, x) \in Seq(X) /\ Append(s, x) # <<>>
           /\ Len(Append(s, x)) = Len(s) + 1 /\ Len(s) \in Nat
           /\ DOMAIN s = 1 .. Len(s) /\ DOMAIN Append(s, x) = 1 .. (Len(s) + 1)
           /\ \A i \in DOMAIN s : Append(s, x)[i] = s[i]
           /\ Append(s, x)[Len(s) + 1] = x
           /\ Last(Append(s, x)) = x
<1>1. /\ Append(s, x) \in Seq(X) /\ Append(s, x) # <<>> /\ Len(Append(s, x)) = Len(s) + 1
      /\ \A i \in 1 .. Len(s) : Append(s, x)[i] = s[i]
      /\ Append(s, x)[Len(s) + 1] = x
  BY AppendProperties
<1>2. Len(s) \in Nat /\ DOMAIN s = 1 .. Len(s)
      /\ DOMAIN Append(s, x) = 1 .. Len(Append(s, x))
  BY <1>1, LenProperties
<1> QED BY <1>1, <1>2 DEF Last

-----------------------------------------------------------------------------
(* One offer: what its history keeps of its observations.                   *)

Observation == [quote : Quotes, at : Nat]
Point == [price : Nat \cup {None}, list : Nat \cup {None}, at : Nat]

\* The point recorded of an observation, if it is recorded.
PointOf(x) == [price |-> Price[x.quote], list |-> List[x.quote], at |-> x.at]

Increasing(s) == \A i, j \in DOMAIN s : i < j => s[i].at < s[j].at

\* The observations that changed what the offer shows.
Changes(l) == {i \in DOMAIN l : i = 1 \/ ~SamePrice(l[i].quote, l[i - 1].quote)}

\* An offer, its history and its log agree: the offer is the last observation,
\* and the history the changes among all of them.
Agree(O, P, l) ==
    /\ O = IF l = <<>> THEN None ELSE Last(l)
    /\ Increasing(l) /\ Increasing(P)
    /\ P = <<>> <=> l = <<>>
    /\ l # <<>> => /\ Last(P).price = Price[Last(l).quote]
                   /\ Last(P).list = List[Last(l).quote]
                   /\ Last(P).at <= Last(l).at
    /\ ToSet(P) = {PointOf(l[i]) : i \in Changes(l)}

\* The point of an observation has the type of a point.
LEMMA PointOfType ==
    ASSUME NEW x \in Observation
    PROVE  PointOf(x) \in Point
BY PriceDropsConstants DEF PointOf, Point, Observation

\* Appending something newer than the last keeps the order.
LEMMA AppendIncreasing ==
    ASSUME NEW X, NEW s \in Seq(X), NEW x \in X, \A y \in X : y.at \in Nat,
           Increasing(s), s # <<>> => Last(s).at < x.at
    PROVE  Increasing(Append(s, x))
<1> DEFINE z == Append(s, x)
<1>1. /\ Len(s) \in Nat /\ DOMAIN s = 1 .. Len(s) /\ DOMAIN z = 1 .. (Len(s) + 1)
      /\ \A i \in DOMAIN s : z[i] = s[i]
      /\ z[Len(s) + 1] = x
  BY AppendFacts
<1> HIDE DEF z
<1>2. ASSUME NEW i \in DOMAIN s PROVE s[i].at < x.at
  <2>1. s # <<>> /\ Len(s) \in DOMAIN s /\ i <= Len(s) /\ s[i] \in X /\ s[Len(s)] \in X
    BY <1>1, <1>2, ElementOfSeq, EmptySeq
  <2>2. s[Len(s)].at < x.at
    BY <2>1 DEF Last
  <2>3. i = Len(s) \/ s[i].at < s[Len(s)].at
    BY <1>1, <1>2, <2>1 DEF Increasing
  <2>4. s[i].at \in Nat /\ s[Len(s)].at \in Nat /\ x.at \in Nat
    BY <2>1
  <2> QED BY <2>2, <2>3, <2>4
<1>3. ASSUME NEW i \in DOMAIN z, NEW j \in DOMAIN z, i < j PROVE z[i].at < z[j].at
  <2>1. i \in DOMAIN s /\ (j \in DOMAIN s \/ j = Len(s) + 1)
    BY <1>1, <1>3
  <2> QED BY <1>1, <1>2, <1>3, <2>1 DEF Increasing
<1> QED BY <1>3 DEF Increasing, z

\* One more observation: the history gets a point of it when it is a change.
LEMMA OneMoreObservation ==
    ASSUME NEW O, NEW P \in Seq(Point), NEW l \in Seq(Observation), Agree(O, P, l),
           NEW x \in Observation, l # <<>> => Last(l).at < x.at
    PROVE  /\ WithPoint(P, x.quote, x.at) \in Seq(Point)
           /\ Agree(x, WithPoint(P, x.quote, x.at), Append(l, x))
<1> DEFINE z == Append(l, x)
           Q == WithPoint(P, x.quote, x.at)
           y == PointOf(x)
<1>1. /\ z \in Seq(Observation) /\ z # <<>>
      /\ Len(l) \in Nat /\ DOMAIN l = 1 .. Len(l) /\ DOMAIN z = 1 .. (Len(l) + 1)
      /\ \A i \in DOMAIN l : z[i] = l[i]
      /\ z[Len(l) + 1] = x /\ Last(z) = x
  BY AppendFacts
<1>2. y \in Point /\ x.at \in Nat /\ \A p \in Point : p.at \in Nat
      /\ \A w \in Observation : w.at \in Nat
  BY PointOfType DEF Point, Observation
<1>3. /\ Append(P, y) \in Seq(Point) /\ Append(P, y) # <<>>
      /\ Len(P) \in Nat /\ DOMAIN P = 1 .. Len(P) /\ DOMAIN Append(P, y) = 1 .. (Len(P) + 1)
      /\ \A i \in DOMAIN P : Append(P, y)[i] = P[i]
      /\ Append(P, y)[Len(P) + 1] = y /\ Last(Append(P, y)) = y
  BY <1>2, AppendFacts
<1>4. Q = IF IsNews(P, x.quote) THEN Append(P, y) ELSE P
  BY DEF WithPoint, PointOf
<1>5. y.price = Price[x.quote] /\ y.list = List[x.quote] /\ y.at = x.at
  BY DEF PointOf
<1> HIDE DEF z, Q, y
<1>6. Increasing(z)
  BY <1>2, AppendIncreasing DEF Agree, z
<1>7. l # <<>> => Last(P) \in Point /\ Last(l) \in Observation /\ Len(l) \in DOMAIN l
  BY <1>1, <1>3, ElementOfSeq, EmptySeq DEF Agree, Last
<1>8. Increasing(Append(P, y))
  <2>1. P # <<>> => Last(P).at < y.at
    BY <1>2, <1>5, <1>7 DEF Agree
  <2> QED BY <1>2, <2>1, AppendIncreasing DEF Agree
<1>9. IsNews(P, x.quote) <=> (l = <<>> \/ ~SamePrice(x.quote, Last(l).quote))
  BY DEF IsNews, SamePrice, Agree
<1>10. Changes(z) = Changes(l) \cup (IF IsNews(P, x.quote) THEN {Len(l) + 1} ELSE {})
  <2>1. \A i \in DOMAIN l : i \in Changes(z) <=> i \in Changes(l)
    BY <1>1 DEF Changes
  <2>2. Len(l) + 1 \in Changes(z) <=> IsNews(P, x.quote)
    <3>1. CASE l = <<>>
      BY <1>1, <1>9, <3>1, EmptySeq DEF Changes
    <3>2. CASE l # <<>>
      <4>1. Len(l) + 1 # 1 /\ z[Len(l) + 1 - 1] = Last(l)
        BY <1>1, <1>7, <3>2 DEF Last
      <4> QED BY <1>1, <1>9, <3>2, <4>1 DEF Changes
    <3> QED BY <3>1, <3>2
  <2> QED BY <1>1, <2>1, <2>2 DEF Changes
<1>11. {PointOf(z[i]) : i \in Changes(z)}
         = ToSet(P) \cup (IF IsNews(P, x.quote) THEN {y} ELSE {})
  <2>1. \A i \in Changes(l) : z[i] = l[i]
    BY <1>1 DEF Changes
  <2>2. PointOf(z[Len(l) + 1]) = y
    BY <1>1 DEF y
  <2>3. ToSet(P) = {PointOf(l[i]) : i \in Changes(l)}
    BY DEF Agree
  <2> QED BY <1>10, <2>1, <2>2, <2>3
<1>12. ToSet(Append(P, y)) = ToSet(P) \cup {y}
  BY <1>3 DEF ToSet
<1>13. CASE IsNews(P, x.quote)
  <2>1. Q = Append(P, y)
    BY <1>4, <1>13
  <2>2. /\ x = IF z = <<>> THEN None ELSE Last(z)
        /\ Q = <<>> <=> z = <<>>
        /\ z # <<>> => /\ Last(Q).price = Price[Last(z).quote]
                       /\ Last(Q).list = List[Last(z).quote]
                       /\ Last(Q).at <= Last(z).at
    BY <1>1, <1>2, <1>3, <1>5, <2>1
  <2> QED BY <1>3, <1>6, <1>8, <1>11, <1>12, <1>13, <2>1, <2>2 DEF Agree, Q, z
<1>14. CASE ~IsNews(P, x.quote)
  <2>1. Q = P /\ l # <<>> /\ P # <<>>
    BY <1>4, <1>9, <1>14 DEF Agree
  <2>2. Last(P).price = Price[x.quote] /\ Last(P).list = List[x.quote]
    BY <1>14, <2>1 DEF IsNews
  <2>3. Last(P).at <= Last(z).at
    BY <1>1, <1>2, <1>7, <2>1 DEF Agree
  <2>4. Increasing(P)
    BY DEF Agree
  <2> QED BY <1>1, <1>6, <1>11, <1>14, <2>1, <2>2, <2>3, <2>4 DEF Agree, Q, z
<1> QED BY <1>13, <1>14 DEF Q, z

-----------------------------------------------------------------------------
(* The invariant.                                                           *)

\* The checkout and master hold the two files, and nothing else.
IsData(d) == d = [snapshot |-> d.snapshot, payload |-> d.payload]

TypeInv ==
    /\ now \in 0 .. MaxTime /\ now \in Nat
    /\ offers \in [Ids -> Observation \cup {None}]
    /\ points \in [Ids -> Seq(Point)]
    /\ log \in [Ids -> Seq(Observation)]
    /\ IsData(tree) /\ IsData(master)
    /\ committed \in SUBSET Nat
    /\ phase \in {"idle", "export", "commit", "post"}
    /\ kind \in {"schedule", "dispatch", None}
    /\ posts \in Seq(ToSet(posts))

TablesInv ==
    \A o \in Ids : /\ Agree(offers[o], points[o], log[o])
                   /\ log[o] # <<>> => Last(log[o]).at <= now

\* A payload is of the day its instant is in, and never of the future.
IsPast(payload) ==
    payload # None => /\ payload.at \in 0 .. now
                      /\ payload.date = Day(payload.at)

\* What the channel was told: one payload a day, of a day with a refresh commit;
\* a scheduled run under way begins after the last of these days, and what it
\* posts is what it committed that day or on a day since the payload's.
ChannelInv ==
    /\ IsPast(tree.payload) /\ IsPast(master.payload)
    /\ \A i \in DOMAIN posts : /\ posts[i].at \in 0 .. now
                               /\ Day(posts[i].at) \in committed
    /\ \A i, j \in DOMAIN posts : i < j => Day(posts[i].at) < Day(posts[j].at)
    /\ phase # "idle" /\ kind = "schedule" =>
         \A i \in DOMAIN posts : Day(posts[i].at) < Day(now)
    /\ phase = "post" =>
         /\ kind = "schedule" /\ tree = master
         /\ tree.payload # None =>
              \E d \in committed : Day(tree.payload.at) <= d /\ d <= Day(now)
    /\ posts # <<>> =>
         /\ Last(posts).at <= master.payload.at
         /\ phase # "idle" => Last(posts).at <= tree.payload.at

\* What the export reads was taken from the tables as they are, earlier or now.
SnapshotInv ==
    phase = "export" => \E t \in 0 .. now : tree.snapshot = Exported(offers, points, t)

IndInv == TypeInv /\ TablesInv /\ ChannelInv /\ SnapshotInv

\* Data with one file replaced.
LEMMA DataFacts ==
    ASSUME NEW d, IsData(d), NEW x
    PROVE  /\ IsData([d EXCEPT !.snapshot = x])
           /\ [d EXCEPT !.snapshot = x].snapshot = x
           /\ [d EXCEPT !.snapshot = x].payload = d.payload
           /\ IsData([d EXCEPT !.payload = x])
           /\ [d EXCEPT !.payload = x].snapshot = d.snapshot
           /\ [d EXCEPT !.payload = x].payload = x
BY DEF IsData

\* The initial states satisfy the invariant.
LEMMA InitInv ==
    ASSUME Init
    PROVE  IndInv
<1>1. TypeInv
  <2>1. posts \in Seq(ToSet(posts))
    BY EmptySeq DEF Init
  <2>2. points \in [Ids -> Seq(Point)] /\ log \in [Ids -> Seq(Observation)]
    BY EmptySeq DEF Init
  <2>3. IsData(tree) /\ IsData(master)
    BY DEF Init, IsData
  <2> QED BY <2>1, <2>2, <2>3, PriceDropsConstants DEF Init, TypeInv
<1>2. TablesInv
  <2>1. DOMAIN <<>> = {}
    BY EmptySeq
  <2> QED BY <2>1 DEF Init, TablesInv, Agree, Increasing, Changes, ToSet
<1>3. ChannelInv
  <2>1. posts = <<>> /\ DOMAIN posts = {}
    BY EmptySeq DEF Init
  <2>2. IsPast(tree.payload) /\ IsPast(master.payload)
    BY DEF Init, IsPast
  <2> QED BY <2>1, <2>2 DEF Init, ChannelInv
<1>4. SnapshotInv
  BY DEF Init, SnapshotInv
<1> QED BY <1>1, <1>2, <1>3, <1>4 DEF IndInv

\* Each step keeps the types.
LEMMA TypeStep ==
    ASSUME TypeInv, Next
    PROVE  TypeInv'
<1>1. CASE Tick
  BY <1>1, PriceDropsConstants DEF Tick, TypeInv, tables, repository, workflow
<1>2. ASSUME NEW k \in {"schedule", "dispatch"}, NEW f \in Answers, Refresh(k, Seen(f))
      PROVE  TypeInv'
  <2> DEFINE a == Seen(f)
             seen(o) == [quote |-> a[o], at |-> now]
  <2>1. \A o \in Ids : o \in DOMAIN a => a[o] \in Quotes
    BY PriceDropsConstants DEF Seen
  <2> HIDE DEF a
  <2>2. \A o \in Ids : o \in DOMAIN a => seen(o) \in Observation
    BY <2>1 DEF TypeInv, Observation
  <2>3. \A o \in Ids : o \in DOMAIN a => WithPoint(points[o], a[o], now) \in Seq(Point)
    <3>1. ASSUME NEW o \in Ids, o \in DOMAIN a
          PROVE  WithPoint(points[o], a[o], now) \in Seq(Point)
      <4>1. PointOf(seen(o)) \in Point /\ points[o] \in Seq(Point)
        BY <2>2, <3>1, PointOfType DEF TypeInv
      <4>2. Append(points[o], PointOf(seen(o))) \in Seq(Point)
        BY <4>1, AppendFacts
      <4> QED BY <4>1, <4>2 DEF WithPoint, PointOf
    <3> QED BY <3>1
  <2>4. \A o \in Ids : o \in DOMAIN a => Append(log[o], seen(o)) \in Seq(Observation)
    <3>1. ASSUME NEW o \in Ids, o \in DOMAIN a
          PROVE  Append(log[o], seen(o)) \in Seq(Observation)
      <4>1. log[o] \in Seq(Observation) /\ seen(o) \in Observation
        BY <2>2, <3>1 DEF TypeInv
      <4> HIDE DEF seen
      <4> QED BY <4>1, AppendFacts
    <3> QED BY <3>1
  <2>5. /\ offers' = [o \in Ids |-> IF o \in DOMAIN a THEN seen(o) ELSE offers[o]]
        /\ points' = [o \in Ids |-> IF o \in DOMAIN a
                                    THEN WithPoint(points[o], a[o], now) ELSE points[o]]
        /\ log' = [o \in Ids |-> IF o \in DOMAIN a THEN Append(log[o], seen(o)) ELSE log[o]]
        /\ tree' = [master EXCEPT !.snapshot = Exported(offers', points', now)]
        /\ phase' = "export" /\ kind' = k
        /\ UNCHANGED <<now, master, committed, posts>>
    BY <1>2 DEF Refresh, a
  <2> HIDE DEF seen
  <2>6. offers' \in [Ids -> Observation \cup {None}]
    BY <2>2, <2>5 DEF TypeInv
  <2>7. points' \in [Ids -> Seq(Point)]
    BY <2>3, <2>5 DEF TypeInv
  <2>8. log' \in [Ids -> Seq(Observation)]
    BY <2>4, <2>5 DEF TypeInv
  <2>9. IsData(tree')
    BY <2>5, DataFacts DEF TypeInv
  <2> QED BY <2>5, <2>6, <2>7, <2>8, <2>9 DEF TypeInv
<1>3. CASE ExportDrops
  <2>1. IsData(tree')
    BY <1>3, DataFacts DEF ExportDrops, TypeInv
  <2> QED BY <1>3, <2>1 DEF ExportDrops, TypeInv, tables
<1>4. CASE ExportFails
  BY <1>4 DEF ExportFails, TypeInv, tables, repository
<1>5. CASE Publish
  <2>1. committed' \in SUBSET Nat
    BY <1>5, DayFacts DEF Publish, TypeInv
  <2> QED BY <1>5, <2>1 DEF Publish, TypeInv, tables
<1>6. CASE PublishFails
  BY <1>6 DEF PublishFails, TypeInv, tables, repository
<1>7. CASE Post
  <2> DEFINE x == [at |-> tree.payload.at, top |-> FirstOf(tree.payload.drops, DigestMax)]
  <2>1. posts' = Append(posts, x)
    BY <1>7 DEF Post
  <2> HIDE DEF x
  <2>2. posts \in Seq(ToSet(posts) \cup {x})
    <3>1. \A i \in 1 .. Len(posts) : posts[i] \in ToSet(posts) \cup {x}
      BY ElementOfSeq DEF TypeInv
    <3> QED BY <3>1, IsASeq, LenProperties DEF TypeInv
  <2>3. ToSet(posts') = ToSet(posts) \cup {x}
    <3>1. /\ DOMAIN posts = 1 .. Len(posts) /\ DOMAIN posts' = 1 .. (Len(posts) + 1)
          /\ Len(posts) \in Nat
          /\ \A i \in DOMAIN posts : posts'[i] = posts[i]
          /\ posts'[Len(posts) + 1] = x
      BY <2>1, <2>2, AppendFacts
    <3> QED BY <3>1 DEF ToSet
  <2>4. posts' \in Seq(ToSet(posts'))
    BY <2>1, <2>2, <2>3, AppendFacts
  <2> QED BY <1>7, <2>4 DEF Post, TypeInv, tables, repository
<1>8. CASE NoPost
  BY <1>8 DEF NoPost, TypeInv, tables, repository
<1> QED BY <1>1, <1>2, <1>3, <1>4, <1>5, <1>6, <1>7, <1>8 DEF Next

\* Each step keeps offer, history and log in agreement.
LEMMA TablesStep ==
    ASSUME TypeInv, TablesInv, Next
    PROVE  TablesInv'
<1>1. CASE Tick
  <2>1. now' >= now /\ now \in Nat /\ now' \in Nat
        /\ \A o \in Ids : log[o] # <<>> => Last(log[o]).at \in Nat
    <3>1. \A o \in Ids : log[o] # <<>> => Last(log[o]) \in Observation
      BY ElementOfSeq, EmptySeq, LenProperties DEF TypeInv, Last
    <3> QED BY <1>1, <3>1 DEF Tick, TypeInv, Observation
  <2> QED BY <1>1, <2>1 DEF Tick, TablesInv, tables
<1>2. ASSUME NEW k \in {"schedule", "dispatch"}, NEW f \in Answers, Refresh(k, Seen(f)),
             NEW o \in Ids
      PROVE  /\ Agree(offers'[o], points'[o], log'[o])
             /\ log'[o] # <<>> => Last(log'[o]).at <= now'
  <2> DEFINE a == Seen(f)
             x == [quote |-> a[o], at |-> now]
  <2>1. o \in DOMAIN a => a[o] \in Quotes
    BY PriceDropsConstants DEF Seen
  <2> HIDE DEF a
  <2>2. /\ offers'[o] = IF o \in DOMAIN a THEN x ELSE offers[o]
        /\ points'[o] = IF o \in DOMAIN a THEN WithPoint(points[o], a[o], now) ELSE points[o]
        /\ log'[o] = IF o \in DOMAIN a THEN Append(log[o], x) ELSE log[o]
        /\ log[o] # <<>> => Last(log[o]).at < now
        /\ now' = now
    BY <1>2 DEF Refresh, a
  <2>3. CASE o \in DOMAIN a
    <3>1. x \in Observation /\ x.quote = a[o] /\ x.at = now /\ now \in Nat
      BY <2>1, <2>3 DEF TypeInv, Observation
    <3> HIDE DEF x
    <3>2. points[o] \in Seq(Point) /\ log[o] \in Seq(Observation)
          /\ Agree(offers[o], points[o], log[o])
      BY DEF TypeInv, TablesInv
    <3>3. Agree(x, WithPoint(points[o], x.quote, x.at), Append(log[o], x))
      BY <2>2, <3>1, <3>2, OneMoreObservation
    <3>4. Last(Append(log[o], x)) = x
      BY <3>1, <3>2, AppendFacts
    <3>5. offers'[o] = x /\ points'[o] = WithPoint(points[o], x.quote, x.at)
          /\ log'[o] = Append(log[o], x)
      BY <2>2, <2>3, <3>1
    <3>6. Agree(offers'[o], points'[o], log'[o])
      BY <3>3, <3>5
    <3>7. Last(log'[o]).at <= now'
      BY <2>2, <3>1, <3>4, <3>5
    <3> QED BY <3>6, <3>7
  <2>4. CASE o \notin DOMAIN a
    <3>1. offers'[o] = offers[o] /\ points'[o] = points[o] /\ log'[o] = log[o]
      BY <2>2, <2>4
    <3>2. Agree(offers[o], points[o], log[o]) /\ (log[o] # <<>> => Last(log[o]).at <= now)
      BY DEF TablesInv
    <3>3. Agree(offers'[o], points'[o], log'[o])
      BY <3>1, <3>2
    <3>4. log'[o] # <<>> => Last(log'[o]).at <= now'
      BY <2>2, <3>1, <3>2
    <3> QED BY <3>3, <3>4
  <2> QED BY <2>3, <2>4
<1>3. CASE UNCHANGED <<now, tables>>
  BY <1>3 DEF TablesInv, tables
<1> QED BY <1>1, <1>2, <1>3 DEF Next, ExportDrops, ExportFails, Publish, PublishFails, Post,
                               NoPost, TablesInv

\* Each step keeps the export's snapshot one of the tables as they are.
LEMMA SnapshotStep ==
    ASSUME TypeInv, SnapshotInv, Next
    PROVE  SnapshotInv'
<1>1. CASE Tick
  <2>1. 0 .. now \subseteq 0 .. now'
    BY <1>1 DEF Tick, TypeInv
  <2> QED BY <1>1, <2>1 DEF Tick, SnapshotInv, tables, repository, workflow
<1>2. ASSUME NEW k \in {"schedule", "dispatch"}, NEW f \in Answers, Refresh(k, Seen(f))
      PROVE  SnapshotInv'
  <2>1. tree' = [master EXCEPT !.snapshot = Exported(offers', points', now)] /\ now' = now
    BY <1>2 DEF Refresh
  <2>2. tree'.snapshot = Exported(offers', points', now')
    BY <2>1, DataFacts DEF TypeInv
  <2>3. now' \in 0 .. now'
    BY <2>1 DEF TypeInv
  <2> QED BY <2>2, <2>3 DEF SnapshotInv
<1>3. CASE ExportDrops \/ ExportFails \/ Publish \/ PublishFails \/ Post \/ NoPost
  <2>1. phase' # "export"
    BY <1>3 DEF ExportDrops, ExportFails, Publish, PublishFails, Post, NoPost
  <2> QED BY <2>1 DEF SnapshotInv
<1> QED BY <1>1, <1>2, <1>3 DEF Next

\* Each step keeps the account of the channel.
LEMMA ChannelStep ==
    ASSUME TypeInv, ChannelInv, Next
    PROVE  ChannelInv'
<1>1. CASE Tick
  <2>1. /\ now' \in Nat /\ now \in Nat /\ now <= now' /\ 0 .. now \subseteq 0 .. now'
        /\ UNCHANGED <<tree, master, committed, phase, kind, posts>>
    BY <1>1 DEF Tick, TypeInv, repository, workflow
  <2>2. Day(now) <= Day(now') /\ Day(now) \in Nat /\ Day(now') \in Nat
    BY <2>1, DayFacts
  <2>3. \A i \in DOMAIN posts : Day(posts[i].at) \in Nat
    BY DayFacts DEF ChannelInv
  <2>4. IsPast(tree.payload)' /\ IsPast(master.payload)'
    BY <2>1 DEF ChannelInv, IsPast
  <2>5. \A i \in DOMAIN posts : posts[i].at \in 0 .. now'
    BY <2>1 DEF ChannelInv
  <2>6. phase # "idle" /\ kind = "schedule" =>
          \A i \in DOMAIN posts : Day(posts[i].at) < Day(now')
    BY <2>2, <2>3 DEF ChannelInv
  <2>7. phase = "post" /\ tree.payload # None =>
           \E d \in committed : Day(tree.payload.at) <= d /\ d <= Day(now')
    <3>1. ASSUME phase = "post", tree.payload # None
          PROVE  \E d \in committed : Day(tree.payload.at) <= d /\ d <= Day(now')
      <4>1. PICK d \in committed : Day(tree.payload.at) <= d /\ d <= Day(now)
        BY <3>1 DEF ChannelInv
      <4>2. d \in Nat
        BY DEF TypeInv
      <4> QED BY <2>2, <4>1, <4>2
    <3> QED BY <3>1
  <2> QED BY <2>1, <2>4, <2>5, <2>6, <2>7 DEF ChannelInv
<1>2. ASSUME NEW k \in {"schedule", "dispatch"}, NEW f \in Answers, Refresh(k, Seen(f))
      PROVE  ChannelInv'
  <2>1. /\ tree' = [master EXCEPT !.snapshot = Exported(offers', points', now)]
        /\ phase' = "export" /\ kind' = k
        /\ UNCHANGED <<now, master, committed, posts>>
        /\ k = "schedule" => Day(now) \notin committed
    BY <1>2 DEF Refresh, Guard
  <2>2. tree'.payload = master.payload
    BY <2>1, DataFacts DEF TypeInv
  <2>3. k = "schedule" => \A i \in DOMAIN posts : Day(posts[i].at) < Day(now)
    <3>1. ASSUME k = "schedule", NEW i \in DOMAIN posts PROVE Day(posts[i].at) < Day(now)
      <4>1. posts[i].at \in 0 .. now /\ Day(posts[i].at) \in committed
        BY DEF ChannelInv
      <4>2. posts[i].at \in Nat /\ posts[i].at <= now /\ now \in Nat
        BY <4>1 DEF TypeInv
      <4>3. Day(posts[i].at) <= Day(now) /\ Day(posts[i].at) \in Nat /\ Day(now) \in Nat
        BY <4>2, DayFacts
      <4>4. Day(posts[i].at) # Day(now)
        BY <2>1, <3>1, <4>1
      <4> QED BY <4>3, <4>4
    <3> QED BY <3>1
  <2> QED BY <2>1, <2>2, <2>3 DEF ChannelInv, IsPast
<1>3. CASE ExportDrops
  <2> DEFINE p == Payload(tree.snapshot, now)
  <2>1. p.at = now /\ p.date = Day(now)
    BY DEF Payload
  <2> HIDE DEF p
  <2>2. /\ tree' = [tree EXCEPT !.payload = p]
        /\ phase' = "commit" /\ phase = "export"
        /\ UNCHANGED <<now, master, committed, kind, posts>>
    BY <1>3 DEF ExportDrops, p
  <2>3. tree'.payload = p /\ now \in 0 .. now /\ now \in Nat
    BY <2>2, DataFacts DEF TypeInv
  <2>4. posts # <<>> => Last(posts).at <= p.at
    <3>1. ASSUME posts # <<>> PROVE Len(posts) \in DOMAIN posts
      BY <3>1, LenProperties, EmptySeq DEF TypeInv
    <3>2. posts # <<>> => Last(posts).at \in 0 .. now
      BY <3>1 DEF ChannelInv, Last
    <3> QED BY <2>1, <2>3, <3>2
  <2>5. IsPast(tree.payload)' /\ IsPast(master.payload)'
    BY <2>1, <2>2, <2>3 DEF ChannelInv, IsPast
  <2>6. posts' # <<>> => Last(posts').at <= tree'.payload.at
    BY <2>2, <2>3, <2>4
  <2>7. phase # "idle" /\ phase' # "idle" /\ phase' # "post"
    BY <2>2
  <2> QED BY <2>2, <2>5, <2>6, <2>7 DEF ChannelInv
<1>4. CASE ExportFails
  BY <1>4 DEF ExportFails, ChannelInv, repository, IsPast
<1>5. CASE Publish
  <2>1. /\ master' = tree /\ committed' = committed \cup {Day(now)}
        /\ phase' = IF kind = "schedule" THEN "post" ELSE "idle"
        /\ phase = "commit"
        /\ UNCHANGED <<now, tree, kind, posts>>
    BY <1>5 DEF Publish
  <2>2. tree.payload # None => Day(tree.payload.at) <= Day(now) /\ Day(now) <= Day(now)
    <3>1. ASSUME tree.payload # None PROVE Day(tree.payload.at) <= Day(now) /\ Day(now) <= Day(now)
      <4>1. tree.payload.at \in Nat /\ tree.payload.at <= now /\ now \in Nat
        BY <3>1 DEF ChannelInv, IsPast, TypeInv
      <4> QED BY <4>1, DayFacts
    <3> QED BY <3>1
  <2>3. phase' = "post" => /\ kind = "schedule"
                           /\ tree.payload # None =>
                                \E d \in committed' : Day(tree.payload.at) <= d /\ d <= Day(now)
    BY <2>1, <2>2
  <2>4. phase' # "idle" => phase # "idle"
    BY <2>1
  <2>5. posts # <<>> => Last(posts).at <= tree.payload.at
    BY <2>1 DEF ChannelInv
  <2>6. IsPast(tree.payload)' /\ IsPast(master.payload)'
    BY <2>1 DEF ChannelInv, IsPast
  <2>7. \A i \in DOMAIN posts : Day(posts[i].at) \in committed'
    BY <2>1 DEF ChannelInv
  <2>8. posts # <<>> => Last(posts).at <= master'.payload.at
    BY <2>1, <2>5
  <2> QED BY <2>1, <2>3, <2>4, <2>5, <2>6, <2>7, <2>8 DEF ChannelInv
<1>6. CASE PublishFails
  BY <1>6 DEF PublishFails, ChannelInv, repository, IsPast
<1>7. CASE Post
  <2> DEFINE x == [at |-> tree.payload.at, top |-> FirstOf(tree.payload.drops, DigestMax)]
  <2>1. /\ posts' = Append(posts, x) /\ x.at = tree.payload.at
        /\ phase = "post" /\ phase' = "idle" /\ tree.payload # None
        /\ tree.payload.date = Day(now)
        /\ UNCHANGED <<now, tree, master, committed, kind>>
    BY <1>7 DEF Post, IsOfToday, repository
  <2> HIDE DEF x
  <2>2. posts \in Seq(ToSet(posts) \cup {x})
    <3>1. \A i \in 1 .. Len(posts) : posts[i] \in ToSet(posts) \cup {x}
      BY ElementOfSeq DEF TypeInv
    <3> QED BY <3>1, IsASeq, LenProperties DEF TypeInv
  <2>3. /\ DOMAIN posts = 1 .. Len(posts) /\ DOMAIN posts' = 1 .. (Len(posts) + 1)
        /\ Len(posts) \in Nat
        /\ \A i \in DOMAIN posts : posts'[i] = posts[i]
        /\ posts'[Len(posts) + 1] = x /\ Last(posts') = x
    BY <2>1, <2>2, AppendFacts
  <2>4. x.at \in 0 .. now /\ Day(x.at) = Day(now)
    BY <2>1 DEF ChannelInv, IsPast
  <2>5. Day(x.at) \in committed
    <3>1. PICK d \in committed : Day(tree.payload.at) <= d /\ d <= Day(now)
      BY <2>1 DEF ChannelInv
    <3>2. d \in Nat /\ Day(now) \in Nat
      BY DayFacts DEF TypeInv
    <3>3. d = Day(now)
      BY <2>1, <2>4, <3>1, <3>2
    <3> QED BY <2>4, <3>3
  <2>6. \A i \in DOMAIN posts : Day(posts[i].at) < Day(x.at)
    BY <2>1, <2>4 DEF ChannelInv
  <2>7. \A i \in DOMAIN posts' : posts'[i].at \in 0 .. now /\ Day(posts'[i].at) \in committed
    BY <2>3, <2>4, <2>5 DEF ChannelInv
  <2>8. \A i, j \in DOMAIN posts' : i < j => Day(posts'[i].at) < Day(posts'[j].at)
    <3>1. ASSUME NEW i \in DOMAIN posts', NEW j \in DOMAIN posts', i < j
          PROVE  Day(posts'[i].at) < Day(posts'[j].at)
      <4>1. i \in DOMAIN posts /\ (j \in DOMAIN posts \/ j = Len(posts) + 1)
        BY <2>3, <3>1
      <4> QED BY <2>3, <2>6, <3>1, <4>1 DEF ChannelInv
    <3> QED BY <3>1
  <2>9. Last(posts').at <= master.payload.at
    <3>1. tree = master /\ tree.payload.at \in Nat
      BY <2>1 DEF ChannelInv, IsPast
    <3> QED BY <2>1, <2>3, <3>1
  <2> QED BY <2>1, <2>7, <2>8, <2>9 DEF ChannelInv, IsPast
<1>8. CASE NoPost
  BY <1>8 DEF NoPost, ChannelInv, repository, IsPast
<1> QED BY <1>1, <1>2, <1>3, <1>4, <1>5, <1>6, <1>7, <1>8 DEF Next

\* Stuttering keeps the invariant.
LEMMA StutterInv ==
    ASSUME IndInv, UNCHANGED vars
    PROVE  IndInv'
<1>1. UNCHANGED <<now, offers, points, log, tree, master, committed, phase, kind, runs, posts>>
  BY DEF vars, tables, repository, workflow
<1>2. TypeInv' /\ TablesInv'
  BY <1>1 DEF IndInv, TypeInv, TablesInv
<1>3. ChannelInv' /\ SnapshotInv'
  BY <1>1 DEF IndInv, ChannelInv, SnapshotInv, IsPast
<1> QED BY <1>2, <1>3 DEF IndInv

\* The invariant is inductive.
LEMMA Inductive == Spec => []IndInv
<1>1. Init => IndInv
  BY InitInv
<1>2. IndInv /\ [Next]_vars => IndInv'
  <2>1. ASSUME IndInv, Next PROVE IndInv'
    BY <2>1, TypeStep, TablesStep, ChannelStep, SnapshotStep DEF IndInv
  <2> QED BY <2>1, StutterInv
<1> QED BY <1>1, <1>2, PTL DEF Spec

\* The points of every history are in the order of their instants, and the
\* channel is never told a day's drops twice, however exports, pushes and posts
\* fail and however long a run takes.
THEOREM ToldOnce == Spec => []Inv
<1>1. IndInv => Inv
  <2>1. ASSUME IndInv PROVE TypeOK
    <3>1. \A o \in Ids : offers[o] # None => offers[o].quote \in Quotes
      BY <2>1 DEF IndInv, TypeInv, Observation
    <3>2. \A o \in Ids : Increasing(points[o])
      BY <2>1 DEF IndInv, TablesInv, Agree
    <3> QED BY <2>1, <3>1, <3>2 DEF IndInv, TypeInv, TypeOK, Increasing
  <2>2. ASSUME IndInv PROVE NoDigestTwice
    BY <2>2 DEF IndInv, ChannelInv, NoDigestTwice
  <2> QED BY <2>1, <2>2 DEF Inv
<1> QED BY <1>1, Inductive, PTL

-----------------------------------------------------------------------------
(* The ranking.                                                             *)

\* What the payload says of a drop.
Drop == [offer : Ids, previous : Nat \ {0}, current : Nat, since : Nat, at : Nat]

\* Drops of different offers.
OneEach(D) == \A d, e \in D : d.offer = e.offer => d = e

\* A percentage is a whole number of hundredths, and the payload's is the fall's.
LEMMA PercentFacts ==
    ASSUME NEW d \in Drop
    PROVE  /\ PercentDrop(d.previous, d.current) \in Int
           /\ AmountDrop(d.previous, d.current) \in Int
           /\ PercentDrop(d.previous, d.current) = Percent(d)
           /\ AmountDrop(d.previous, d.current) = d.previous - d.current
<1>1. d.previous \in Nat /\ d.previous > 0 /\ d.current \in Nat
  BY DEF Drop
<1>2. PercentDrop(d.previous, d.current) = Percent(d)
  <2>1. 2 * (10000 * (d.previous - d.current)) = 20000 * (d.previous - d.current)
    BY <1>1
  <2> QED BY <2>1 DEF PercentDrop, RoundedDiv, Percent
<1>3. Percent(d) \in Int
  <2> DEFINE a == 20000 * (d.previous - d.current) + d.previous
             b == 2 * d.previous
  <2>1. a \in Int /\ b \in Nat /\ b > 0
    BY <1>1
  <2>2. Percent(d) = a \div b
    BY DEF Percent
  <2> HIDE DEF a, b
  <2> QED BY <2>1, <2>2
<1> QED BY <1>1, <1>2, <1>3 DEF AmountDrop

\* An offer has one place.
LEMMA PlaceFacts ==
    ASSUME NEW o \in Ids
    PROVE  Place(o) \in Nat /\ Offers[Place(o)] = o
<1>1. \E i \in DOMAIN Offers : Offers[i] = o
  BY DEF Ids, ToSet
<1>2. Place(o) \in DOMAIN Offers /\ Offers[Place(o)] = o
  BY <1>1 DEF Place
<1>3. DOMAIN Offers = 1 .. Len(Offers)
  BY PriceDropsConstants, LenProperties
<1> QED BY <1>2, <1>3

\* Drops of different offers are strictly ordered.
LEMMA OutranksOrder ==
    ASSUME NEW D \in SUBSET Drop, OneEach(D)
    PROVE  /\ \A d \in D : ~Outranks(d, d)
           /\ \A d, e \in D : d = e \/ Outranks(d, e) \/ Outranks(e, d)
           /\ \A d, e, f \in D : Outranks(d, e) /\ Outranks(e, f) => Outranks(d, f)
<1> DEFINE p(d) == PercentDrop(d.previous, d.current)
           a(d) == AmountDrop(d.previous, d.current)
           n(d) == Place(d.offer)
<1>1. ASSUME NEW d \in D PROVE p(d) \in Int /\ a(d) \in Int /\ n(d) \in Nat
  BY PercentFacts, PlaceFacts DEF Drop
<1>2. ASSUME NEW d \in D, NEW e \in D, n(d) = n(e) PROVE d = e
  <2>1. d.offer \in Ids /\ e.offer \in Ids
    BY DEF Drop
  <2>2. d.offer = e.offer
    BY <1>2, <2>1, PlaceFacts
  <2> QED BY <2>2 DEF OneEach
<1>3. \A d, e : Outranks(d, e) <=> \/ p(d) > p(e)
                                   \/ p(d) = p(e) /\ a(d) > a(e)
                                   \/ p(d) = p(e) /\ a(d) = a(e) /\ n(d) < n(e)
  BY DEF Outranks
<1> HIDE DEF p, a, n
<1>4. ASSUME NEW d \in D PROVE ~Outranks(d, d)
  BY <1>1, <1>3
<1>5. ASSUME NEW d \in D, NEW e \in D PROVE d = e \/ Outranks(d, e) \/ Outranks(e, d)
  <2>1. p(d) \in Int /\ p(e) \in Int /\ a(d) \in Int /\ a(e) \in Int /\ n(d) \in Nat /\ n(e) \in Nat
    BY <1>1
  <2> QED BY <1>2, <1>3, <2>1
<1>6. ASSUME NEW d \in D, NEW e \in D, NEW f \in D, Outranks(d, e), Outranks(e, f)
      PROVE  Outranks(d, f)
  <2>1. /\ p(d) \in Int /\ p(e) \in Int /\ p(f) \in Int
        /\ a(d) \in Int /\ a(e) \in Int /\ a(f) \in Int
        /\ n(d) \in Nat /\ n(e) \in Nat /\ n(f) \in Nat
    BY <1>1
  <2> QED BY <1>3, <1>6, <2>1
<1> QED BY <1>4, <1>5, <1>6

\* Ranking places every drop of a set once, before all it outranks.
LEMMA RankedFacts ==
    ASSUME NEW D \in SUBSET Drop, OneEach(D), IsFiniteSet(D)
    PROVE  /\ Cardinality(D) \in Nat
           /\ Ranked(D) \in Seq(D) /\ Len(Ranked(D)) = Cardinality(D)
           /\ \A i, j \in 1 .. Cardinality(D) : i < j => Outranks(Ranked(D)[i], Ranked(D)[j])
           /\ \A d \in D : \E i \in 1 .. Cardinality(D) : Ranked(D)[i] = d
<1> DEFINE n == Cardinality(D)
           Above(d) == {e \in D : Outranks(e, d)}
           Rank(d) == Cardinality(Above(d))
           R == Ranked(D)
<1>1. n \in Nat
  BY FS_CardinalityType
<1>2. ASSUME NEW d \in D
      PROVE  IsFiniteSet(Above(d)) /\ Rank(d) \in Nat /\ Rank(d) + 1 \in 1 .. n
  <2>1. Above(d) \in SUBSET (D \ {d})
    BY OutranksOrder
  <2> HIDE DEF Above
  <2>2. IsFiniteSet(D \ {d}) /\ Cardinality(D \ {d}) = n - 1
    BY FS_RemoveElement
  <2>3. IsFiniteSet(Above(d)) /\ Rank(d) <= n - 1 /\ Rank(d) \in Nat
    BY <2>1, <2>2, FS_Subset, FS_CardinalityType
  <2> HIDE DEF Rank, n
  <2> QED BY <1>1, <2>3
<1>3. ASSUME NEW d \in D, NEW e \in D, Outranks(e, d) PROVE Rank(e) < Rank(d)
  <2>1. Above(e) \in SUBSET Above(d) /\ e \in Above(d) /\ e \notin Above(e)
    BY <1>3, OutranksOrder
  <2> HIDE DEF Above
  <2>2. Rank(e) <= Rank(d) /\ Rank(e) # Rank(d)
    BY <1>2, <2>1, FS_Subset
  <2> HIDE DEF Rank
  <2> QED BY <1>2, <2>2
<1>4. ASSUME NEW d \in D, NEW e \in D, Rank(d) = Rank(e) PROVE d = e
  <2> HIDE DEF Rank
  <2>1. Rank(d) \in Nat /\ Rank(e) \in Nat
    BY <1>2
  <2> QED BY <1>3, <1>4, <2>1, OutranksOrder
<1>5. ASSUME NEW i \in 1 .. n PROVE \E d \in D : Rank(d) = i - 1
  <2> DEFINE f == [d \in D |-> Rank(d) + 1]
  <2>1. f \in Injection(D, 1 .. n)
    <3> HIDE DEF Rank, n
    <3>1. f \in [D -> 1 .. n]
      BY <1>2
    <3>2. ASSUME NEW d \in D, NEW e \in D, f[d] = f[e] PROVE d = e
      <4>1. f[d] = Rank(d) + 1 /\ f[e] = Rank(e) + 1 /\ Rank(d) \in Nat /\ Rank(e) \in Nat
        BY <1>2
      <4>2. Rank(d) + 1 = Rank(e) + 1
        BY <3>2, <4>1
      <4>3. Rank(d) = Rank(e)
        BY <4>1, <4>2
      <4> QED BY <1>4, <4>3
    <3> QED BY <3>1, <3>2 DEF Injection, IsInjective
  <2>2. IsFiniteSet(1 .. n) /\ Cardinality(1 .. n) = n
    <3> HIDE DEF n
    <3> QED BY <1>1, FS_Interval
  <2> HIDE DEF f
  <2>3. f \in Surjection(D, 1 .. n)
    BY <2>1, <2>2, FS_Injection
  <2>4. PICK d \in D : f[d] = i
    BY <2>3 DEF Surjection
  <2>5. Rank(d) + 1 = i
    BY <2>4 DEF f
  <2>6. Rank(d) \in Nat
    BY <1>2
  <2>7. Rank(d) = i - 1
    <3> HIDE DEF Rank
    <3> QED BY <2>5, <2>6
  <2> QED BY <2>7
<1>6. ASSUME NEW i \in 1 .. n PROVE R[i] \in D /\ Rank(R[i]) = i - 1
  <2>1. R[i] = CHOOSE d \in D : Rank(d) = i - 1
    BY <1>6 DEF Ranked
  <2> HIDE DEF R, Rank
  <2> QED BY <1>5, <2>1
<1>7. R \in Seq(D) /\ Len(R) = n
  <2>1. R = [i \in 1 .. n |-> R[i]]
    <3>1. R = [i \in 1 .. n |-> CHOOSE d \in D : Rank(d) = i - 1]
      BY DEF Ranked
    <3> HIDE DEF R, n, Rank
    <3> QED BY <3>1
  <2> HIDE DEF R, n, Rank
  <2>2. R \in [1 .. n -> D]
    BY <1>6, <2>1
  <2>3. R \in Seq(D)
    BY <1>1, <2>2, SeqDef
  <2> QED BY <1>1, <2>2, <2>3, LenProperties
<1> HIDE DEF R, Rank, n
<1>8. ASSUME NEW i \in 1 .. n, NEW j \in 1 .. n, i < j PROVE Outranks(R[i], R[j])
  <2>1. R[i] \in D /\ R[j] \in D /\ Rank(R[i]) = i - 1 /\ Rank(R[j]) = j - 1
    BY <1>6
  <2>2. R[i] # R[j] /\ ~ (Rank(R[j]) < Rank(R[i]))
    BY <1>1, <1>8, <2>1
  <2> QED BY <1>3, <2>1, <2>2, OutranksOrder
<1>9. ASSUME NEW d \in D PROVE \E i \in 1 .. n : R[i] = d
  <2>1. Rank(d) + 1 \in 1 .. n /\ Rank(d) \in Nat
    BY <1>2
  <2>2. R[Rank(d) + 1] \in D /\ Rank(R[Rank(d) + 1]) = Rank(d)
    BY <1>6, <2>1
  <2> QED BY <1>4, <2>1, <2>2
<1> QED BY <1>1, <1>7, <1>8, <1>9 DEF R, n

\* The first elements of a sequence.
LEMMA FirstOfFacts ==
    ASSUME NEW X, NEW s \in Seq(X), NEW n \in Nat
    PROVE  /\ Len(FirstOf(s, n)) \in Nat
           /\ Len(FirstOf(s, n)) = IF n <= Len(s) THEN n ELSE Len(s)
           /\ DOMAIN FirstOf(s, n) = 1 .. Len(FirstOf(s, n))
           /\ DOMAIN FirstOf(s, n) \subseteq 1 .. Len(s)
           /\ \A i \in DOMAIN FirstOf(s, n) : FirstOf(s, n)[i] = s[i]
<1> DEFINE m == Min({n, Len(s)})
<1>1. Len(s) \in Nat
  BY LenProperties
<1>2. m = IF n <= Len(s) THEN n ELSE Len(s)
  <2>1. \E x \in {n, Len(s)} : \A y \in {n, Len(s)} : x <= y
    BY <1>1
  <2>2. m \in {n, Len(s)} /\ \A y \in {n, Len(s)} : m <= y
    BY <2>1 DEF Min
  <2> HIDE DEF m
  <2> QED BY <1>1, <2>2
<1>3. FirstOf(s, n) = SubSeq(s, 1, m)
  BY DEF FirstOf
<1> HIDE DEF m
<1>4. m \in 0 .. Len(s)
  BY <1>1, <1>2
<1>5. /\ SubSeq(s, 1, m) \in Seq(X) /\ Len(SubSeq(s, 1, m)) = m
      /\ \A i \in 1 .. m : SubSeq(s, 1, m)[i] = s[i]
  BY <1>1, <1>4, SubSeqProperties
<1>6. DOMAIN SubSeq(s, 1, m) = 1 .. m
  BY <1>5, LenProperties
<1> QED BY <1>1, <1>2, <1>3, <1>4, <1>5, <1>6

-----------------------------------------------------------------------------
(* What the selection finds of one offer is what was observed of it.        *)

\* The observations at another price than the last, and the first observation
\* of the newest stretch of them.
Others(l) == {i \in DOMAIN l : Price[l[i].quote] \notin {None, Price[l[Len(l)].quote]}}
Since(l) == CHOOSE j \in 1 .. Max(Others(l)) :
              /\ \A k \in j .. Max(Others(l)) : SamePrice(l[k].quote, l[Max(Others(l))].quote)
              /\ j = 1 \/ ~SamePrice(l[j - 1].quote, l[Max(Others(l))].quote)

\* The part of a history that a snapshot of instant t carries.
Kept(P, t) == {P[i] : i \in {j \in DOMAIN P : /\ P[j].at >= t - HistoryTicks
                                              /\ j > Len(P) - MaxPoints}}

\* Instants that increase do so by one at least from point to point.
LEMMA IncreasingByOne ==
    ASSUME NEW P \in Seq(Point), Increasing(P), NEW i \in DOMAIN P
    PROVE  Len(P) - i <= P[Len(P)].at - P[i].at
<1>1. Len(P) \in Nat /\ DOMAIN P = 1 .. Len(P) /\ \A j \in DOMAIN P : P[j].at \in Nat
  <2>1. \A j \in DOMAIN P : P[j] \in Point
    BY ElementOfSeq, LenProperties
  <2> QED BY <2>1, LenProperties DEF Point
<1> DEFINE B == {k \in Nat : i + k <= Len(P) /\ P[i + k].at < P[i].at + k}
<1>2. CASE B # {}
  <2>1. PICK k \in B : \A b \in B : k <= b
    <3>1. B \in SUBSET Nat
      OBVIOUS
    <3> HIDE DEF B
    <3> QED BY <1>2, <3>1, LeastNat
  <2>2. k \in Nat /\ i + k <= Len(P) /\ P[i + k].at < P[i].at + k
    BY <2>1
  <2>3. k # 0
    BY <1>1, <2>2
  <2>4. k - 1 \in Nat /\ i + (k - 1) <= Len(P) /\ k - 1 \notin B
    <3>1. k - 1 \in Nat /\ i + (k - 1) <= Len(P) /\ ~(k <= k - 1)
      BY <1>1, <2>2, <2>3
    <3> HIDE DEF B
    <3> QED BY <2>1, <3>1
  <2>5. P[i + (k - 1)].at >= P[i].at + (k - 1)
    <3>1. i + (k - 1) \in DOMAIN P
      BY <1>1, <2>4
    <3> QED BY <1>1, <2>4, <3>1
  <2>6. i + k \in DOMAIN P /\ i + (k - 1) \in DOMAIN P /\ i + (k - 1) < i + k
    BY <1>1, <2>2, <2>3, <2>4
  <2>7. P[i + (k - 1)].at < P[i + k].at
    BY <2>6 DEF Increasing
  <2>8. P[i + (k - 1)].at \in Nat /\ P[i + k].at \in Nat /\ P[i].at \in Nat
    BY <1>1, <2>6
  <2> DEFINE x == P[i + (k - 1)].at
             y == P[i + k].at
             z == P[i].at
  <2>9. x \in Nat /\ y \in Nat /\ z \in Nat /\ k \in Nat
        /\ x >= z + (k - 1) /\ x < y /\ y < z + k
    BY <2>2, <2>5, <2>7, <2>8
  <2> HIDE DEF x, y, z
  <2>10. FALSE
    BY <2>9
  <2> QED BY <2>10
<1>3. CASE B = {}
  <2>1. Len(P) - i \in Nat /\ i + (Len(P) - i) = Len(P) /\ Len(P) \in DOMAIN P
    BY <1>1
  <2>2. ~(P[i + (Len(P) - i)].at < P[i].at + (Len(P) - i))
    BY <1>3, <2>1
  <2>3. P[Len(P)].at \in Nat /\ P[i].at \in Nat
    BY <1>1, <2>1
  <2> QED BY <1>1, <2>1, <2>2, <2>3
<1> QED BY <1>2, <1>3

\* The newest observation at another price, and where its stretch begins: at
\* the newest change to another price.
LEMMA SinceFacts ==
    ASSUME NEW l \in Seq(Observation), Others(l) # {}
    PROVE  /\ Max(Others(l)) \in Others(l)
           /\ Since(l) \in Changes(l) \cap Others(l)
           /\ SamePrice(l[Since(l)].quote, l[Max(Others(l))].quote)
           /\ \A i \in Changes(l) \cap Others(l) : i <= Since(l)
<1> DEFINE m == Max(Others(l))
           s == Since(l)
<1>1. Len(l) \in Nat /\ DOMAIN l = 1 .. Len(l)
  BY LenProperties
<1>2. m \in Others(l) /\ \A i \in Others(l) : i <= m
  <2> DEFINE N == {Len(l) - i : i \in Others(l)}
  <2>1. N \in SUBSET Nat /\ N # {}
    BY <1>1 DEF Others
  <2>2. PICK n \in N : \A x \in N : n <= x
    <3> HIDE DEF N
    <3> QED BY <2>1, LeastNat
  <2>3. PICK x \in Others(l) : n = Len(l) - x
    BY <2>2
  <2>4. ASSUME NEW y \in Others(l) PROVE x >= y
    <3>1. n <= Len(l) - y
      BY <2>2
    <3>2. x \in Nat /\ y \in Nat
      BY <1>1 DEF Others
    <3> QED BY <1>1, <2>3, <3>1, <3>2
  <2>5. m \in Others(l) /\ \A y \in Others(l) : m >= y
    BY <2>4 DEF Max
  <2>6. \A y \in Others(l) : y \in Nat
    BY <1>1 DEF Others
  <2> HIDE DEF m
  <2> QED BY <2>5, <2>6
<1>3. m \in 1 .. Len(l)
  BY <1>1, <1>2 DEF Others
<1> DEFINE Same(k) == SamePrice(l[k].quote, l[m].quote)
           Begins(j) == /\ \A k \in j .. m : Same(k)
                        /\ j = 1 \/ ~Same(j - 1)
<1>4. s = CHOOSE j \in 1 .. m : Begins(j)
  BY DEF Since
<1> HIDE DEF m, s
<1>5. \E j \in 1 .. m : Begins(j)
  <2> DEFINE J == {j \in 1 .. m : \A k \in j .. m : Same(k)}
  <2>1. m \in J
    <3>1. m .. m = {m} /\ m \in 1 .. m
      BY <1>3
    <3>2. Same(m)
      BY DEF SamePrice
    <3> HIDE DEF Same
    <3> QED BY <3>1, <3>2
  <2>2. PICK j \in J : \A x \in J : j <= x
    <3>1. J \in SUBSET Nat
      BY <1>3
    <3> HIDE DEF J
    <3> QED BY <2>1, <3>1, LeastNat
  <2> HIDE DEF Same
  <2>3. j \in 1 .. m /\ \A k \in j .. m : Same(k)
    BY <2>2
  <2>4. ASSUME j # 1, Same(j - 1) PROVE FALSE
    <3>1. j - 1 \in 1 .. m /\ (j - 1) .. m = {j - 1} \cup (j .. m) /\ ~(j <= j - 1)
      BY <1>3, <2>3, <2>4
    <3>2. j - 1 \in J
      BY <2>3, <2>4, <3>1
    <3> HIDE DEF J
    <3> QED BY <2>2, <3>1, <3>2
  <2> QED BY <2>3, <2>4
<1>6. s \in 1 .. m /\ Begins(s)
  <2> HIDE DEF Begins
  <2> QED BY <1>4, <1>5
<1>7. Same(s)
  <2>1. s \in s .. m
    BY <1>3, <1>6
  <2> HIDE DEF Same
  <2> QED BY <1>6, <2>1
<1>8. s \in Others(l)
  <2>1. s \in DOMAIN l /\ Price[l[s].quote] = Price[l[m].quote]
    BY <1>1, <1>3, <1>6, <1>7 DEF SamePrice
  <2> QED BY <1>2, <2>1 DEF Others
<1>9. s \in Changes(l)
  <2>1. CASE s = 1
    BY <1>1, <1>3, <2>1 DEF Changes
  <2>2. CASE ~Same(s - 1)
    <3>1. ~SamePrice(l[s].quote, l[s - 1].quote)
      BY <1>7, <2>2 DEF SamePrice
    <3> QED BY <1>8, <3>1 DEF Changes, Others
  <2> HIDE DEF Same
  <2> QED BY <1>6, <2>1, <2>2
<1>10. ASSUME NEW i \in Changes(l) \cap Others(l) PROVE i <= s
  <2>1. i \in 1 .. Len(l) /\ i <= m
    BY <1>1, <1>2 DEF Others
  <2>2. CASE i > s
    <3>1. i \in s .. m /\ i - 1 \in s .. m /\ i # 1
      BY <1>3, <1>6, <2>1, <2>2
    <3>2. Same(i) /\ Same(i - 1)
      <4> HIDE DEF Same
      <4> QED BY <1>6, <3>1
    <3>3. SamePrice(l[i].quote, l[i - 1].quote)
      BY <3>2 DEF SamePrice
    <3> QED BY <3>1, <3>3 DEF Changes
  <2> QED BY <1>3, <1>6, <2>1, <2>2
<1> QED BY <1>2, <1>7, <1>8, <1>9, <1>10 DEF s, m

\* The newest different point of the history a snapshot carries is the start of
\* the newest stretch at another price, when that is inside the window: of an
\* offer seen lately nothing inside the window is cut off.
LEMMA LastDifferentFacts ==
    ASSUME NEW P \in Seq(Point), NEW l \in Seq(Observation), l # <<>>,
           Agree(Last(l), P, l), NEW t \in Nat, t <= Last(l).at + Rules.maxAge
    PROVE  LastDifferent(Last(l), Kept(P, t)) =
             IF Others(l) # {} /\ l[Since(l)].at + Rules.window >= Last(l).at
             THEN {PointOf(l[Since(l)])} ELSE {}
<1> DEFINE z == Last(l)
           s == Since(l)
           W == Rules.window
           usable == {p \in Kept(P, t) : /\ p.price # None /\ p.price # Price[z.quote]
                                         /\ p.at < z.at /\ p.at >= z.at - W}
<1>1. /\ Len(l) \in Nat /\ DOMAIN l = 1 .. Len(l) /\ Len(l) \in DOMAIN l
      /\ \A i \in DOMAIN l : l[i] \in Observation /\ l[i].at \in Nat
      /\ z = l[Len(l)]
  <2>1. Len(l) \in Nat /\ DOMAIN l = 1 .. Len(l)
    BY LenProperties
  <2>2. Len(l) # 0
    BY EmptySeq
  <2>3. \A i \in 1 .. Len(l) : l[i] \in Observation
    BY ElementOfSeq
  <2>4. \A x \in Observation : x.at \in Nat
    BY DEF Observation
  <2> QED BY <2>1, <2>2, <2>3, <2>4 DEF Last
<1>2. /\ W \in Nat /\ Rules.maxAge \in Nat /\ HistoryTicks \in Nat /\ MaxPoints \in Nat
      /\ HistoryTicks >= W + Rules.maxAge /\ MaxPoints > W
  BY PriceDropsConstants
<1>3. LastDifferent(z, Kept(P, t)) = {p \in usable : \A q \in usable : q.at <= p.at}
  BY DEF LastDifferent
<1>4. ASSUME NEW p \in usable
      PROVE  \E i \in Changes(l) \cap Others(l) : p = PointOf(l[i]) /\ p.at = l[i].at
  <2>1. p \in ToSet(P) /\ p.price # None /\ p.price # Price[z.quote]
    BY DEF Kept, ToSet
  <2>2. PICK i \in Changes(l) : p = PointOf(l[i])
    BY <2>1 DEF Agree
  <2>3. p.price = Price[l[i].quote] /\ p.at = l[i].at /\ i \in DOMAIN l
    BY <2>2 DEF PointOf, Changes
  <2>4. i \in Others(l)
    BY <1>1, <2>1, <2>3 DEF Others
  <2> QED BY <2>2, <2>3, <2>4
<1>5. \A i \in DOMAIN l, j \in DOMAIN l : i <= j => l[i].at <= l[j].at
  <2>1. ASSUME NEW i \in DOMAIN l, NEW j \in DOMAIN l, i <= j PROVE l[i].at <= l[j].at
    <3>1. CASE i = j
      BY <1>1, <3>1
    <3>2. CASE i < j
      <4>1. l[i].at < l[j].at
        BY <3>2 DEF Agree, Increasing
      <4> QED BY <1>1, <4>1
    <3> QED BY <1>1, <2>1, <3>1, <3>2
  <2> QED BY <2>1
<1>6. ASSUME Others(l) # {}, l[s].at + W >= z.at PROVE PointOf(l[s]) \in usable
  <2>1. s \in Changes(l) /\ s \in Others(l) /\ s \in DOMAIN l
    BY <1>6, SinceFacts DEF Others
  <2>2. PointOf(l[s]) \in ToSet(P) /\ PointOf(l[s]).at = l[s].at
        /\ PointOf(l[s]).price = Price[l[s].quote]
    BY <2>1 DEF Agree, PointOf
  <2>3. l[s].at < z.at
    <3>1. s # Len(l)
      BY <2>1 DEF Others
    <3>2. s < Len(l)
      BY <1>1, <2>1, <3>1
    <3> QED BY <1>1, <2>1, <3>2 DEF Agree, Increasing
  <2>4. l[s].at >= z.at - W /\ l[s].at \in Nat /\ z.at \in Nat
    BY <1>1, <1>2, <1>6, <2>1
  <2>5. PICK i \in DOMAIN P : P[i] = PointOf(l[s])
    BY <2>2 DEF ToSet
  <2>6. P[i].at >= t - HistoryTicks
    <3>1. P[i].at = l[s].at
      BY <2>2, <2>5
    <3>2. t <= z.at + Rules.maxAge
      OBVIOUS
    <3> DEFINE M == Rules.maxAge
    <3> HIDE DEF z, W, M, s
    <3> QED BY <1>2, <2>4, <3>1, <3>2 DEF M
  <2>7. i > Len(P) - MaxPoints
    <3>1. Len(P) - i <= P[Len(P)].at - P[i].at
      BY IncreasingByOne DEF Agree
    <3>2. P[Len(P)].at <= z.at
      BY DEF Agree, Last
    <3>3. Len(P) \in Nat /\ i \in Nat /\ Len(P) \in DOMAIN P
      BY LenProperties
    <3>4. P[Len(P)].at \in Nat
      <4>1. P[Len(P)] \in Point
        BY <3>3, ElementOfSeq, LenProperties
      <4> QED BY <4>1 DEF Point
    <3> DEFINE a == P[Len(P)].at
           b == l[s].at
           c == z.at
    <3>5. a \in Nat /\ Len(P) - i <= a - b /\ a <= c
      BY <2>2, <2>5, <3>1, <3>2, <3>4
    <3>6. b >= c - W /\ b \in Nat /\ c \in Nat
      BY <2>4
    <3> HIDE DEF a, b, c, W
    <3> QED BY <1>2, <3>3, <3>5, <3>6
  <2>8. PointOf(l[s]) \in Kept(P, t)
    BY <2>5, <2>6, <2>7 DEF Kept
  <2>9. PointOf(l[s]).price # None /\ PointOf(l[s]).price # Price[z.quote]
    BY <1>1, <2>1, <2>2 DEF Others
  <2> QED BY <2>2, <2>3, <2>4, <2>8, <2>9
<1>7. ASSUME NEW p \in usable
      PROVE  /\ Others(l) # {} /\ l[s].at + W >= z.at
             /\ p.at <= l[s].at /\ (p.at = l[s].at => p = PointOf(l[s]))
  <2>1. PICK i \in Changes(l) \cap Others(l) : p = PointOf(l[i]) /\ p.at = l[i].at
    BY <1>4
  <2>2. Others(l) # {} /\ i <= s /\ s \in DOMAIN l /\ i \in DOMAIN l
    BY <2>1, SinceFacts DEF Others
  <2>3. l[i].at <= l[s].at /\ l[i].at \in Nat /\ l[s].at \in Nat /\ z.at \in Nat
    BY <1>1, <1>5, <2>2
  <2>4. p.at >= z.at - W
    OBVIOUS
  <2>5. l[s].at + W >= z.at
    <3> HIDE DEF z, W, usable, s
    <3> QED BY <1>2, <2>1, <2>3, <2>4
  <2>6. l[i].at = l[s].at => i = s
    <3>1. i < s => l[i].at < l[s].at
      BY <2>2 DEF Agree, Increasing
    <3> HIDE DEF s
    <3> QED BY <1>1, <2>2, <2>3, <3>1
  <2>7. p.at = l[s].at => p = PointOf(l[s])
    <3> HIDE DEF s
    <3> QED BY <2>1, <2>6
  <2> QED BY <2>1, <2>2, <2>3, <2>5, <2>7
<1> HIDE DEF usable, W
<1>8. CASE Others(l) # {} /\ l[s].at + W >= z.at
  <2> DEFINE q == PointOf(l[s])
  <2>1. q \in usable /\ q.at = l[s].at
    BY <1>6, <1>8 DEF PointOf
  <2>2. s \in DOMAIN l /\ l[s].at \in Nat
    BY <1>1, <1>8, SinceFacts DEF Others
  <2> HIDE DEF q, s
  <2>3. \A p \in usable : p.at <= q.at
    BY <1>7, <2>1
  <2>4. ASSUME NEW p \in usable, \A r \in usable : r.at <= p.at PROVE p = q
    <3>1. q.at <= p.at /\ p.at <= q.at
      BY <2>1, <2>3, <2>4
    <3>2. p.at \in Nat
      BY <1>1, <1>4 DEF Changes
    <3>3. p.at = l[s].at
      BY <2>1, <2>2, <3>1, <3>2
    <3> QED BY <1>7, <3>3 DEF q
  <2>5. LastDifferent(z, Kept(P, t)) = {q}
    BY <1>3, <2>1, <2>3, <2>4
  <2> QED BY <1>8, <2>5 DEF q, s, W
<1>9. CASE ~(Others(l) # {} /\ l[s].at + W >= z.at)
  <2>1. usable = {}
    BY <1>7, <1>9
  <2>2. LastDifferent(z, Kept(P, t)) = {}
    BY <1>3, <2>1
  <2> QED BY <1>9, <2>2 DEF s, W
<1> QED BY <1>8, <1>9

\* The drop a fall would be told as.
Told(o, l) == [offer |-> o, previous |-> Price[l[Max(Others(l))].quote],
               current |-> Price[l[Len(l)].quote],
               since |-> l[Since(l)].at, at |-> l[Len(l)].at]

\* The conditions under which it is a fall.
Falls(o, l, t) ==
    /\ l # <<>> /\ Others(l) # {}
    /\ Available[l[Len(l)].quote] /\ Price[l[Len(l)].quote] \notin {None, 0}
    /\ t <= l[Len(l)].at + Rules.maxAge
    /\ LET d == Told(o, l)
       IN  /\ d.previous - d.current > 0 /\ d.previous - d.current >= Rules.minAmountDrop
           /\ Percent(d) >= Rules.minPercentDrop
           /\ ~PromoOnly(l[Len(l)].quote, d.previous)
    /\ l[Since(l)].at + Rules.window >= l[Len(l)].at

\* The fall of an offer, said with these.
LEMMA FallIs == \A o, t : Fall(o, t) = IF Falls(o, log[o], t) THEN {Told(o, log[o])} ELSE {}
BY DEF Fall, Falls, Told, Others, Since

\* A fall is a drop of its offer.
LEMMA FallType ==
    ASSUME TypeInv, NEW o \in Ids, NEW t, NEW d \in Fall(o, t)
    PROVE  d \in Drop /\ d.offer = o /\ d = Told(o, log[o])
<1> DEFINE l == log[o]
<1>1. Falls(o, l, t) /\ d = Told(o, l)
  BY FallIs
<1>2. l \in Seq(Observation) /\ l # <<>> /\ Others(l) # {}
  BY <1>1 DEF TypeInv, Falls
<1> HIDE DEF l
<1> DEFINE m == Max(Others(l))
           n == Len(l)
           s == Since(l)
<1>3. m \in DOMAIN l /\ s \in DOMAIN l /\ n \in DOMAIN l
  <2>1. m \in DOMAIN l /\ s \in DOMAIN l
    BY <1>2, SinceFacts DEF Others
  <2> QED BY <1>2, <2>1, EmptySeq, LenProperties
<1>4. \A i \in DOMAIN l : l[i].quote \in Quotes /\ l[i].at \in Nat
  <2>1. \A i \in DOMAIN l : l[i] \in Observation
    BY <1>2, ElementOfSeq, LenProperties
  <2> QED BY <2>1 DEF Observation
<1>5. Price[l[m].quote] \in Nat /\ Price[l[n].quote] \in Nat
  <2>1. Price[l[m].quote] # None
    BY <1>2, SinceFacts DEF Others
  <2>2. Price[l[n].quote] # None
    BY <1>1 DEF Falls
  <2> QED BY <1>3, <1>4, <2>1, <2>2, PriceDropsConstants
<1>6. Price[l[m].quote] - Price[l[n].quote] > 0
  BY <1>1 DEF Falls, Told
<1>7. Price[l[m].quote] \in Nat \ {0}
  <2> DEFINE a == Price[l[m].quote]
             b == Price[l[n].quote]
  <2>1. a \in Nat /\ b \in Nat /\ a - b > 0
    BY <1>5, <1>6
  <2> HIDE DEF a, b
  <2>2. a \in Nat \ {0}
    BY <2>1
  <2> QED BY <2>2 DEF a
<1>8. Told(o, l) \in Drop
  BY <1>3, <1>4, <1>5, <1>7 DEF Told, Drop
<1> QED BY <1>1, <1>8 DEF Told, l

\* Over a snapshot of the tables as they are, the selection finds of each offer
\* its fall.
LEMMA SelectionFinds ==
    ASSUME TypeInv, TablesInv, NEW o \in Ids, NEW t \in 0 .. now,
           NEW snapshot, snapshot = Exported(offers, points, t)
    PROVE  /\ snapshot.offers[o] = None => Fall(o, now) = {}
           /\ snapshot.offers[o] # None =>
                DropOf(o, snapshot.offers[o], snapshot.points[o], now) = Fall(o, now)
<1> DEFINE l == log[o]
           P == points[o]
           z == Last(l)
<1>1. /\ l \in Seq(Observation) /\ P \in Seq(Point) /\ Agree(offers[o], P, l)
      /\ l # <<>> => z.at <= now
      /\ now \in Nat /\ t \in Nat /\ t <= now
  BY DEF TypeInv, TablesInv
<1>2. /\ snapshot.offers[o] = IF offers[o] = None \/ Price[offers[o].quote] = None
                              THEN None ELSE offers[o]
      /\ snapshot.points[o] = Kept(P, t)
  BY DEF Exported, Kept
<1>3. Fall(o, now) = IF Falls(o, l, now) THEN {Told(o, l)} ELSE {}
  BY FallIs
<1> HIDE DEF l, P
<1>4. CASE l = <<>>
  <2>1. offers[o] = None
    BY <1>1, <1>4 DEF Agree
  <2>2. ~Falls(o, l, now)
    BY <1>4 DEF Falls
  <2> QED BY <1>2, <1>3, <2>1, <2>2
<1>5. CASE l # <<>> /\ Price[z.quote] = None
  <2>1. offers[o] = z
    BY <1>1, <1>5 DEF Agree
  <2>2. ~Falls(o, l, now)
    BY <1>5 DEF Falls, Last
  <2> QED BY <1>2, <1>3, <1>5, <2>1, <2>2
<1>6. CASE l # <<>> /\ Price[z.quote] # None
  <2>1. z = l[Len(l)] /\ z \in Observation /\ z # None /\ offers[o] = z
    <3>1. z \in Observation
      BY <1>1, <1>6, LenProperties, EmptySeq, ElementOfSeq DEF Last
    <3> QED BY <1>1, <1>6, <3>1, PriceDropsConstants DEF Last, Agree, Observation
  <2>2. snapshot.offers[o] = z /\ z # None
    BY <1>2, <1>6, <2>1
  <2>3. Price[z.quote] \in Nat /\ z.at \in Nat /\ Available[z.quote] \in BOOLEAN
    BY <1>6, <2>1, PriceDropsConstants DEF Observation
  <2> HIDE DEF z
  <2>4. Rules.maxAge \in Nat /\ Rules.minPercentDrop \in Nat /\ Rules.minAmountDrop \in Nat
    BY PriceDropsConstants
  <2>5. IsUsable(z, now) <=> /\ Available[z.quote] /\ Price[z.quote] # 0
                             /\ now <= z.at + Rules.maxAge
    <3>1. Price[z.quote] > 0 <=> Price[z.quote] # 0
      BY <2>3
    <3>2. now - z.at <= Rules.maxAge <=> now <= z.at + Rules.maxAge
      BY <1>1, <2>3, <2>4
    <3> QED BY <3>1, <3>2 DEF IsUsable
  <2>6. CASE ~IsUsable(z, now)
    <3>1. DropOf(o, z, Kept(P, t), now) = {}
      BY <2>6 DEF DropOf
    <3>2. ~Falls(o, l, now)
      BY <2>1, <2>5, <2>6 DEF Falls
    <3> QED BY <1>2, <1>3, <2>2, <3>1, <3>2
  <2>7. CASE IsUsable(z, now) /\ ~(Others(l) # {} /\ l[Since(l)].at + Rules.window >= z.at)
    <3>1. LastDifferent(z, Kept(P, t)) = {}
      <4>1. t <= z.at + Rules.maxAge
        BY <1>1, <2>3, <2>4, <2>5, <2>7
      <4> QED BY <1>1, <1>6, <2>1, <2>7, <4>1, LastDifferentFacts DEF z
    <3>2. DropOf(o, z, Kept(P, t), now) = {}
      BY <3>1 DEF DropOf
    <3>3. ~Falls(o, l, now)
      BY <2>1, <2>7 DEF Falls
    <3> QED BY <1>2, <1>3, <2>2, <3>2, <3>3
  <2>8. CASE IsUsable(z, now) /\ Others(l) # {} /\ l[Since(l)].at + Rules.window >= z.at
    <3> DEFINE q == PointOf(l[Since(l)])
               d == Told(o, l)
    <3>1. LastDifferent(z, Kept(P, t)) = {q}
      <4>1. t <= z.at + Rules.maxAge
        BY <1>1, <2>3, <2>4, <2>5, <2>8
      <4> QED BY <1>1, <1>6, <2>1, <2>8, <4>1, LastDifferentFacts DEF z
    <3>2. /\ q.price = d.previous /\ q.at = d.since
          /\ d = [offer |-> o, previous |-> q.price, current |-> Price[z.quote],
                  since |-> q.at, at |-> z.at]
      <4>1. Price[l[Since(l)].quote] = Price[l[Max(Others(l))].quote]
        BY <1>1, <2>8, SinceFacts DEF SamePrice
      <4> QED BY <2>1, <4>1 DEF PointOf, Told
    <3>3. d.current = Price[z.quote]
      BY <3>2
    <3>4. d.previous \in Nat
      <4>1. Max(Others(l)) \in DOMAIN l /\ Price[l[Max(Others(l))].quote] # None
        BY <1>1, <2>8, SinceFacts DEF Others
      <4>2. l[Max(Others(l))] \in Observation
        BY <1>1, <4>1, ElementOfSeq, LenProperties
      <4> QED BY <4>1, <4>2, PriceDropsConstants DEF Told, Observation
    <3> DEFINE tells == /\ IsUsable(z, now)
                        /\ q.price > Price[z.quote]
                        /\ MeetsThresholds(q.price, Price[z.quote])
                        /\ ~PromoOnly(z.quote, q.price)
    <3>5. DropOf(o, z, Kept(P, t), now) = IF tells THEN {d} ELSE {}
      BY <3>1, <3>2 DEF DropOf
    <3>6. q.price > Price[z.quote] <=> d.previous - d.current > 0
      BY <2>3, <3>2, <3>3, <3>4
    <3>7. d.previous - d.current > 0 =>
            (MeetsThresholds(q.price, Price[z.quote]) <=>
               /\ d.previous - d.current >= Rules.minAmountDrop
               /\ Percent(d) >= Rules.minPercentDrop)
      <4>1. ASSUME d.previous - d.current > 0
            PROVE  PercentDrop(d.previous, d.current) = Percent(d)
        <5>1. d.previous \in Nat \ {0}
          BY <2>3, <3>3, <3>4, <4>1
        <5>2. d.since \in Nat
          <6>1. Since(l) \in DOMAIN l
            BY <1>1, <2>8, SinceFacts DEF Others
          <6>2. l[Since(l)] \in Observation
            BY <1>1, <6>1, ElementOfSeq, LenProperties
          <6> QED BY <6>2 DEF Observation, Told
        <5>3. d \in Drop
          BY <2>3, <3>2, <3>3, <5>1, <5>2 DEF Drop
        <5> QED BY <5>3, PercentFacts
      <4> QED BY <3>2, <3>3, <4>1 DEF MeetsThresholds, AmountDrop
    <3>8. tells <=> Falls(o, l, now)
      BY <1>6, <2>1, <2>5, <2>8, <3>2, <3>3, <3>6, <3>7 DEF Falls
    <3> QED BY <1>2, <1>3, <2>2, <3>5, <3>8
  <2> QED BY <2>6, <2>7, <2>8
<1> QED BY <1>4, <1>5, <1>6

-----------------------------------------------------------------------------
(* What the payload tells.                                                  *)

AllFalls == UNION {Fall(o, now) : o \in Ids}

\* The falls of an instant are drops of different offers, finitely many.
LEMMA FallsFacts ==
    ASSUME TypeInv
    PROVE  AllFalls \in SUBSET Drop /\ OneEach(AllFalls) /\ IsFiniteSet(AllFalls)
<1>1. \A d \in AllFalls : d \in Drop /\ d = Told(d.offer, log[d.offer])
  <2>1. ASSUME NEW d \in AllFalls PROVE d \in Drop /\ d = Told(d.offer, log[d.offer])
    <3>1. PICK o \in Ids : d \in Fall(o, now)
      BY DEF AllFalls
    <3> QED BY <3>1, FallType
  <2> QED BY <2>1
<1>2. OneEach(AllFalls)
  BY <1>1 DEF OneEach
<1>3. IsFiniteSet(Ids)
  <2>1. Offers \in Surjection(1 .. Len(Offers), Ids) /\ Len(Offers) \in Nat
    <3>1. Offers \in [1 .. Len(Offers) -> Ids] /\ DOMAIN Offers = 1 .. Len(Offers)
          /\ Len(Offers) \in Nat
      BY PriceDropsConstants, LenProperties
    <3> QED BY <3>1 DEF Surjection, Ids, ToSet
  <2>2. IsFiniteSet(1 .. Len(Offers))
    BY <2>1, FS_Interval
  <2> QED BY <2>1, <2>2, FS_Surjection
<1>4. IsFiniteSet(AllFalls)
  <2> DEFINE f == [d \in AllFalls |-> d.offer]
  <2>1. f \in Injection(AllFalls, Ids)
    BY <1>1, <1>2 DEF Injection, IsInjective, OneEach, Drop
  <2> HIDE DEF f
  <2> QED BY <1>3, <2>1, FS_Injection
<1> QED BY <1>1, <1>2, <1>4

\* What the payload of an export contains.
LEMMA PayloadFacts ==
    ASSUME TypeInv, TablesInv, NEW t \in 0 .. now,
           NEW snapshot, snapshot = Exported(offers, points, t)
    PROVE  LET told == {d \in AllFalls : Believable(d)}
               p == Payload(snapshot, now)
           IN  /\ p.totalDrops = Cardinality(told)
               /\ p.drops = FirstOf(Ranked(told), Rules.limit)
               /\ p.suspect = FirstOf(Ranked(AllFalls \ told), Rules.limit)
<1> DEFINE Shown == {x \in Ids : snapshot.offers[x] # None}
           found == UNION {DropOf(o, snapshot.offers[o], snapshot.points[o], now) : o \in Shown}
           told == {d \in AllFalls : Believable(d)}
<1>1. found = AllFalls
  <2>1. \A o \in Ids : /\ o \in Shown =>
                            DropOf(o, snapshot.offers[o], snapshot.points[o], now) = Fall(o, now)
                       /\ o \notin Shown => Fall(o, now) = {}
    BY SelectionFinds
  <2>2. \A d : (\E o \in Shown : d \in DropOf(o, snapshot.offers[o], snapshot.points[o], now))
                 <=> \E o \in Ids : d \in Fall(o, now)
    BY <2>1
  <2> QED BY <2>2 DEF AllFalls
<1>2. ASSUME NEW d \in AllFalls PROVE Believable(d) <=> ~Suspect(d)
  <2>1. d \in Drop
    BY FallsFacts
  <2>2. PercentDrop(d.previous, d.current) = Percent(d) /\ Percent(d) \in Int
    BY <2>1, PercentFacts
  <2>3. Rules.maxPercentDrop \in Nat
    BY PriceDropsConstants
  <2>4. Percent(d) <= Rules.maxPercentDrop <=> ~(Percent(d) > Rules.maxPercentDrop)
    BY <2>2, <2>3
  <2> QED BY <2>2, <2>4 DEF Believable, Suspect
<1>3. {d \in AllFalls : ~Suspect(d)} = told
  BY <1>2
<1>4. LET published == {d \in found : ~Suspect(d)}
      IN  Payload(snapshot, now) =
            [at |-> now, date |-> Day(now), totalDrops |-> Cardinality(published),
             drops |-> FirstOf(Ranked(published), Rules.limit),
             suspect |-> FirstOf(Ranked(found \ published), Rules.limit)]
  BY DEF Payload
<1> HIDE DEF found, told
<1>5. Payload(snapshot, now) =
            [at |-> now, date |-> Day(now), totalDrops |-> Cardinality(told),
             drops |-> FirstOf(Ranked(told), Rules.limit),
             suspect |-> FirstOf(Ranked(AllFalls \ told), Rules.limit)]
  BY <1>1, <1>3, <1>4
<1> QED BY <1>5 DEF told

\* The first of a ranking are of the set, and whatever is left out is outranked
\* by all of them, of which there are as many as the limit allows.
LEMMA FirstRanked ==
    ASSUME NEW D \in SUBSET Drop, OneEach(D), IsFiniteSet(D), NEW n \in Nat
    PROVE  LET F == FirstOf(Ranked(D), n)
           IN  /\ ToSet(F) \subseteq D
               /\ \A d \in D \ ToSet(F) : /\ Len(F) = n
                                          /\ \A i \in DOMAIN F : F[i] \in D /\ Outranks(F[i], d)
<1> DEFINE F == FirstOf(Ranked(D), n)
           c == Cardinality(D)
           R == Ranked(D)
<1>1. /\ c \in Nat /\ R \in Seq(D) /\ Len(R) = c
      /\ \A i, j \in 1 .. c : i < j => Outranks(R[i], R[j])
      /\ \A d \in D : \E i \in 1 .. c : R[i] = d
  BY RankedFacts
<1> HIDE DEF R, c
<1>2. /\ Len(F) \in Nat /\ Len(F) = IF n <= c THEN n ELSE c
      /\ DOMAIN F = 1 .. Len(F) /\ DOMAIN F \subseteq 1 .. c
      /\ \A i \in DOMAIN F : F[i] = R[i]
  BY <1>1, FirstOfFacts DEF R
<1> HIDE DEF F
<1>3. \A i \in DOMAIN F : F[i] \in D
  BY <1>1, <1>2, ElementOfSeq
<1>4. ASSUME NEW d \in D \ ToSet(F)
      PROVE  Len(F) = n /\ \A i \in DOMAIN F : Outranks(F[i], d)
  <2>1. PICK k \in 1 .. c : R[k] = d
    BY <1>1
  <2>2. k \notin DOMAIN F
    BY <1>2, <2>1 DEF ToSet
  <2>3. Len(F) < k
    BY <1>1, <1>2, <2>2
  <2>4. Len(F) = n
    BY <1>1, <1>2, <2>3
  <2>5. ASSUME NEW i \in DOMAIN F PROVE Outranks(F[i], d)
    <3>1. i \in 1 .. c /\ i < k /\ F[i] = R[i]
      BY <1>1, <1>2, <2>3
    <3> QED BY <1>1, <2>1, <3>1
  <2> QED BY <2>4, <2>5
<1> QED BY <1>3, <1>4 DEF F, ToSet

\* An export tells the falls that were observed: everything it puts into the
\* payload is a fall in the log of all observations, nothing believable is left
\* out while there is room, and what is left out is no larger than what is told;
\* so neither the history of changes nor its cut in the snapshot loses a fall.
THEOREM PayloadIsRight == Spec => PayloadTellsTheFalls
<1>1. ASSUME IndInv, Next, phase = "export", tree'.payload # tree.payload
      PROVE  LET falls == UNION {Fall(o, now) : o \in Ids}
                 told == {d \in falls : Believable(d)}
                 drops == tree'.payload.drops
             IN  /\ ToSet(drops) \subseteq told
                 /\ \A d \in told \ ToSet(drops) :
                      /\ Len(drops) = Rules.limit
                      /\ \A i \in DOMAIN drops :
                            \/ Percent(drops[i]) > Percent(d)
                            \/ /\ Percent(drops[i]) = Percent(d)
                               /\ drops[i].previous - drops[i].current
                                    >= d.previous - d.current
                 /\ tree'.payload.totalDrops = Cardinality(told)
                 /\ ToSet(tree'.payload.suspect) \subseteq falls \ told
  <2> DEFINE told == {d \in AllFalls : Believable(d)}
             left == AllFalls \ told
  <2>1. tree'.payload = Payload(tree.snapshot, now)
    <3>1. ExportDrops
      BY <1>1 DEF Next, Tick, Refresh, Guard, ExportFails, Publish, PublishFails, Post, NoPost,
                  repository
    <3> QED BY <1>1, <3>1, DataFacts DEF ExportDrops, IndInv, TypeInv
  <2>2. PICK t \in 0 .. now : tree.snapshot = Exported(offers, points, t)
    BY <1>1 DEF IndInv, SnapshotInv
  <2>3. TypeInv /\ TablesInv
    BY <1>1 DEF IndInv
  <2>4. /\ tree'.payload.totalDrops = Cardinality(told)
        /\ tree'.payload.drops = FirstOf(Ranked(told), Rules.limit)
        /\ tree'.payload.suspect = FirstOf(Ranked(left), Rules.limit)
    BY <2>1, <2>2, <2>3, PayloadFacts
  <2>5. /\ told \in SUBSET Drop /\ OneEach(told) /\ IsFiniteSet(told)
        /\ left \in SUBSET Drop /\ OneEach(left) /\ IsFiniteSet(left)
    <3>1. told \in SUBSET AllFalls /\ left \in SUBSET AllFalls
      OBVIOUS
    <3>2. AllFalls \in SUBSET Drop /\ OneEach(AllFalls) /\ IsFiniteSet(AllFalls)
      BY <2>3, FallsFacts
    <3> HIDE DEF told, left
    <3>3. IsFiniteSet(told) /\ IsFiniteSet(left)
      BY <3>1, <3>2, FS_Subset
    <3> QED BY <3>1, <3>2, <3>3 DEF OneEach
  <2> HIDE DEF told, left
  <2>6. Rules.limit \in Nat
    BY PriceDropsConstants
  <2> DEFINE drops == tree'.payload.drops
  <2>7. /\ ToSet(drops) \subseteq told
        /\ \A d \in told \ ToSet(drops) :
             /\ Len(drops) = Rules.limit
             /\ \A i \in DOMAIN drops : drops[i] \in told /\ Outranks(drops[i], d)
    BY <2>4, <2>5, <2>6, FirstRanked
  <2>8. ToSet(tree'.payload.suspect) \subseteq left
    BY <2>4, <2>5, <2>6, FirstRanked
  <2> HIDE DEF drops
  <2>9. ASSUME NEW d \in told, NEW e \in told, Outranks(e, d)
        PROVE  \/ Percent(e) > Percent(d)
               \/ /\ Percent(e) = Percent(d)
                  /\ e.previous - e.current >= d.previous - d.current
    <3>1. d \in Drop /\ e \in Drop
      BY <2>5
    <3> DEFINE p(x) == PercentDrop(x.previous, x.current)
               a(x) == AmountDrop(x.previous, x.current)
    <3>2. /\ p(d) = Percent(d) /\ p(e) = Percent(e)
          /\ a(d) = d.previous - d.current /\ a(e) = e.previous - e.current
          /\ a(d) \in Int /\ a(e) \in Int
      BY <3>1, PercentFacts
    <3>3. \/ p(e) > p(d)
          \/ p(e) = p(d) /\ a(e) > a(d)
          \/ p(e) = p(d) /\ a(e) = a(d)
      BY <2>9 DEF Outranks
    <3> HIDE DEF p, a
    <3>4. a(e) > a(d) \/ a(e) = a(d) => a(e) >= a(d)
      BY <3>2
    <3> QED BY <3>2, <3>3, <3>4
  <2>10. \A d \in told \ ToSet(drops) :
             /\ Len(drops) = Rules.limit
             /\ \A i \in DOMAIN drops :
                   \/ Percent(drops[i]) > Percent(d)
                   \/ /\ Percent(drops[i]) = Percent(d)
                      /\ drops[i].previous - drops[i].current >= d.previous - d.current
    BY <2>7, <2>9
  <2>11. /\ UNION {Fall(o, now) : o \in Ids} = AllFalls
         /\ {d \in AllFalls : Believable(d)} = told /\ AllFalls \ told = left
    BY DEF AllFalls, told, left
  <2> QED BY <2>4, <2>7, <2>8, <2>10, <2>11 DEF drops
<1>2. IndInv /\ [Next]_vars =>
        [phase = "export" /\ tree'.payload # tree.payload =>
         LET falls == UNION {Fall(o, now) : o \in Ids}
             told == {d \in falls : Believable(d)}
             drops == tree'.payload.drops
         IN /\ ToSet(drops) \subseteq told
            /\ \A d \in told \ ToSet(drops) :
                  /\ Len(drops) = Rules.limit
                  /\ \A i \in DOMAIN drops :
                        \/ Percent(drops[i]) > Percent(d)
                        \/ /\ Percent(drops[i]) = Percent(d)
                           /\ drops[i].previous - drops[i].current >= d.previous - d.current
            /\ tree'.payload.totalDrops = Cardinality(told)
            /\ ToSet(tree'.payload.suspect) \subseteq falls \ told]_vars
  BY <1>1
<1> QED BY <1>2, Inductive, PTL DEF Spec, PayloadTellsTheFalls
===============================================================================
