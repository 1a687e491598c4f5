----------------------------- MODULE PriceDrops -----------------------------
(***************************************************************************)
(* The price drops of a day: what the refresh leaves in the tables and the *)
(* snapshot, the selection of drops over it (src/lib/price-drops.ts), the  *)
(* payload beside the snapshot (scripts/export-price-drops.ts), its commit *)
(* and the Telegram digest (scripts/post-price-drops.ts).                  *)
(*                                                                         *)
(* price_history holds changes and not observations: a price is recorded   *)
(* once, at the first run that saw it.  The snapshot carries no unit price *)
(* (export-catalog-snapshot.ts), so unitPriceVerdict is always "unknown".  *)
(* Prices are cents, percentages hundredths of a percent.                  *)
(***************************************************************************)
EXTENDS Integers, FiniteSets, SequencesExt

CONSTANTS
    Offers,      \* sequence: the offers in the order of the snapshot
    Quotes,      \* what a store may say of an offer
    Answers,     \* what the stores may answer a run: a quote or nothing by offer
    Price, List, Promo, Available,  \* a quote's price, list price, percentage
                                    \* promotion and availability
    None,        \* no price, no promotion, nothing stored
    PerDay,      \* ticks of the clock in a day
    Rules,       \* PriceDropRules: minPercentDrop, minAmountDrop, window and
                 \* maxAge in ticks, maxPercentDrop, limit
    HistoryTicks, MaxPoints, \* what the snapshot keeps of a history: 90 days,
                             \* 200 points
    DigestMax,   \* 10
    MaxTime, MaxRuns         \* bounds: ticks, runs of the workflow

Ids == ToSet(Offers)

ASSUME PriceDropsConstants ==
    /\ Offers \in Seq(Ids) /\ IsInjective(Offers)
    /\ Answers \subseteq [Ids -> Quotes \cup {None}]
    /\ Price \in [Quotes -> Nat \cup {None}] /\ List \in [Quotes -> Nat \cup {None}]
    /\ Promo \in [Quotes -> (1 .. 100) \cup {None}]
    /\ Available \in [Quotes -> BOOLEAN]
    /\ {PerDay, DigestMax} \subseteq Nat \ {0}
    /\ {MaxTime, MaxRuns} \subseteq Nat
    /\ Rules \in [minPercentDrop : Nat, minAmountDrop : Nat, window : Nat, maxAge : Nat,
                  maxPercentDrop : Nat, limit : Nat]
    /\ None \notin Nat \cup [quote : Quotes, at : Nat]
    /\ {HistoryTicks, MaxPoints} \subseteq Nat
    /\ HistoryTicks >= Rules.window + Rules.maxAge
    /\ MaxPoints > Rules.window

VARIABLES
    now,             \* the clock
    offers, points,  \* supermarket_product and price_history, by offer
    log,             \* history variable: every observation, by offer
    tree, master,    \* data/ in the runner's checkout and on master
    committed,       \* days with a refresh commit
    phase, kind,     \* the run under way and what triggered it
    runs,            \* runs started
    posts            \* the channel

tables == <<offers, points, log>>
repository == <<tree, master, committed>>
workflow == <<phase, kind, runs>>
vars == <<now, tables, repository, workflow, posts>>

Day(t) == t \div PerDay

-----------------------------------------------------------------------------
(* The selection.                                                           *)

RoundedDiv(a, b) == (2 * a + b) \div (2 * b)

\* detectPriceDrop of promotions/alerts.ts, for a lower price.
AmountDrop(previous, current) == previous - current
PercentDrop(previous, current) == RoundedDiv(10000 * (previous - current), previous)

\* isUsableOffer
IsUsable(offer, t) ==
    /\ Available[offer.quote]
    /\ Price[offer.quote] > 0
    /\ t - offer.at <= Rules.maxAge

\* Mutant: the oldest point of the window is the reference.
LastDifferentOldest(offer, history) ==
    LET usable == {p \in history :
                     /\ p.price # None /\ p.price # Price[offer.quote]
                     /\ p.at < offer.at
                     /\ p.at >= offer.at - Rules.window}
    IN  {p \in usable : \A q \in usable : q.at >= p.at}

\* lastDifferentPrice, of a set of points: the newest point before the offer's own instant, at
\* another price, inside the window; {} when there is none.
LastDifferent(offer, history) ==
    LET usable == {p \in history :
                     /\ p.price # None /\ p.price # Price[offer.quote]
                     /\ p.at < offer.at
                     /\ p.at >= offer.at - Rules.window}
    IN  {p \in usable : \A q \in usable : q.at <= p.at}

\* isPromoOnlyArtifact: the promotion alone explains the price, to a peso or
\* to one percent.
PromoOnly(quote, previous) ==
    /\ Promo[quote] # None
    /\ LET promoPrice == RoundedDiv(previous * (100 - Promo[quote]), 100)
       IN  100 * Max({promoPrice - Price[quote], Price[quote] - promoPrice})
             <= Max({10000, previous})

MeetsThresholds(previous, current) ==
    /\ PercentDrop(previous, current) >= Rules.minPercentDrop
    /\ AmountDrop(previous, current) >= Rules.minAmountDrop

\* candidateForOffer: the drop of an offer, as a set of at most one.
DropOf(o, offer, history, t) ==
    {[offer |-> o, previous |-> p.price, current |-> Price[offer.quote],
      since |-> p.at, at |-> offer.at] :
        p \in {x \in LastDifferent(offer, history) :
                 /\ IsUsable(offer, t)
                 /\ x.price > Price[offer.quote]
                 /\ MeetsThresholds(x.price, Price[offer.quote])
                 /\ ~PromoOnly(offer.quote, x.price)}}

\* classify, with an unknown unit price.
Suspect(d) == PercentDrop(d.previous, d.current) > Rules.maxPercentDrop

Place(o) == CHOOSE i \in DOMAIN Offers : Offers[i] = o

\* compareDrops; the offers' own order stands for EAN and source.
Outranks(d, e) ==
    LET percent(x) == PercentDrop(x.previous, x.current)
        amount(x) == AmountDrop(x.previous, x.current)
    IN  \/ percent(d) > percent(e)
        \/ percent(d) = percent(e) /\ amount(d) > amount(e)
        \/ percent(d) = percent(e) /\ amount(d) = amount(e) /\ Place(d.offer) < Place(e.offer)

Ranked(D) ==
    [i \in 1 .. Cardinality(D) |->
        CHOOSE d \in D : Cardinality({e \in D : Outranks(e, d)}) = i - 1]

FirstOf(s, n) == SubSeq(s, 1, Min({n, Len(s)}))

\* buildPriceDropsPayload over detectPriceDrops.
Payload(snapshot, t) ==
    LET found == UNION {DropOf(o, snapshot.offers[o], snapshot.points[o], t) :
                          o \in {x \in Ids : snapshot.offers[x] # None}}
        published == {d \in found : ~Suspect(d)}
    IN  [at |-> t, date |-> Day(t),
         totalDrops |-> Cardinality(published),
         drops |-> FirstOf(Ranked(published), Rules.limit),
         suspect |-> FirstOf(Ranked(found \ published), Rules.limit)]

-----------------------------------------------------------------------------
(* The tables and the snapshot.                                             *)

\* shouldInsertHistory
IsNews(history, q) ==
    history = <<>> \/ Last(history).price # Price[q] \/ Last(history).list # List[q]

WithPoint(history, q, t) ==
    IF IsNews(history, q)
    THEN Append(history, [price |-> Price[q], list |-> List[q], at |-> t]) ELSE history

\* The offers with a price, each with the newest points of its history.
Exported(O, P, t) ==
    [at |-> t,
     offers |-> [o \in Ids |-> IF O[o] = None \/ Price[O[o].quote] = None THEN None ELSE O[o]],
     points |-> [o \in Ids |->
                   {P[o][i] : i \in {j \in DOMAIN P[o] : /\ P[o][j].at >= t - HistoryTicks
                                                        /\ j > Len(P[o]) - MaxPoints}}]]

NoSnapshot == Exported([o \in Ids |-> None], [o \in Ids |-> <<>>], 0)

Init ==
    /\ now = 0
    /\ offers = [o \in Ids |-> None]
    /\ points = [o \in Ids |-> <<>>]
    /\ log = [o \in Ids |-> <<>>]
    /\ tree = [snapshot |-> NoSnapshot, payload |-> None] /\ master = tree
    /\ committed = {}
    /\ phase = "idle" /\ kind = None /\ runs = 0
    /\ posts = <<>>

Tick ==
    /\ now < MaxTime
    /\ now' = now + 1
    /\ UNCHANGED <<tables, repository, workflow, posts>>

\* The guard lets a scheduled run pass when no refresh of the day is on master;
\* the run checks master out.
Guard(k) ==
    /\ phase = "idle" /\ runs < MaxRuns
    /\ k = "schedule" => Day(now) \notin committed

\* The stores answer for the offers of DOMAIN answer; the rest is not seen.
\* Two runs have different instants.
Refresh(k, answer) ==
    /\ Guard(k)
    /\ \A o \in Ids : log[o] # <<>> => Last(log[o]).at < now
    /\ offers' = [o \in Ids |-> IF o \in DOMAIN answer
                                THEN [quote |-> answer[o], at |-> now] ELSE offers[o]]
    /\ points' = [o \in Ids |-> IF o \in DOMAIN answer
                                THEN WithPoint(points[o], answer[o], now) ELSE points[o]]
    /\ log' = [o \in Ids |-> IF o \in DOMAIN answer
                             THEN Append(log[o], [quote |-> answer[o], at |-> now]) ELSE log[o]]
    /\ tree' = [master EXCEPT !.snapshot = Exported(offers', points', now)]
    /\ phase' = "export" /\ kind' = k /\ runs' = runs + 1
    /\ UNCHANGED <<now, master, committed, posts>>

ExportDrops ==
    /\ phase = "export"
    /\ tree' = [tree EXCEPT !.payload = Payload(tree.snapshot, now)]
    /\ phase' = "commit"
    /\ UNCHANGED <<now, tables, master, committed, kind, runs, posts>>

\* The step may fail (continue-on-error): the file of the checkout stays.
ExportFails ==
    /\ phase = "export"
    /\ phase' = "commit"
    /\ UNCHANGED <<now, tables, repository, kind, runs, posts>>

\* git push; only a scheduled run goes on to the digest.
Publish ==
    /\ phase = "commit"
    /\ master' = tree
    /\ committed' = committed \cup {Day(now)}
    /\ phase' = IF kind = "schedule" THEN "post" ELSE "idle"
    /\ UNCHANGED <<now, tables, tree, kind, runs, posts>>

\* Three pushes refused: the checkout is lost, the stored tables are not.
PublishFails ==
    /\ phase = "commit"
    /\ phase' = "idle"
    /\ UNCHANGED <<now, tables, repository, kind, runs, posts>>

\* Mutant: whatever payload is there is posted.
IsOfTodayAlways(payload) == TRUE

IsOfToday(payload) == payload.date = Day(now)

\* runPoster and postPriceDropsDigest
Post ==
    /\ phase = "post"
    /\ tree.payload # None
    /\ IsOfToday(tree.payload)
    /\ tree.payload.drops # <<>>
    /\ posts' = Append(posts, [at |-> tree.payload.at,
                               top |-> FirstOf(tree.payload.drops, DigestMax)])
    /\ phase' = "idle"
    /\ UNCHANGED <<now, tables, repository, kind, runs>>

\* Not configured, not of today, nothing to tell, malformed, or Telegram
\* refuses: the run ends the same.
NoPost ==
    /\ phase = "post"
    /\ phase' = "idle"
    /\ UNCHANGED <<now, tables, repository, kind, runs, posts>>

Seen(f) == [o \in {x \in Ids : f[x] # None} |-> f[o]]

Next ==
    \/ Tick
    \/ \E k \in {"schedule", "dispatch"}, f \in Answers : Refresh(k, Seen(f))
    \/ ExportDrops \/ ExportFails
    \/ Publish \/ PublishFails
    \/ Post \/ NoPost

Spec == Init /\ [][Next]_vars

-----------------------------------------------------------------------------
(* Properties.                                                              *)

\* Two quotes a history does not tell apart.
SamePrice(q, r) == Price[q] = Price[r] /\ List[q] = List[r]

\* A fall in hundredths of a percent, to the nearest, as the payload prints it.
Percent(d) == (20000 * (d.previous - d.current) + d.previous) \div (2 * d.previous)

\* The falls told from the log of all observations: an offer seen lately shows
\* a lower price than the last different one it showed, the fall clears both
\* thresholds and no promotion explains it, and the higher price came up inside
\* the window.  Nothing falls to a price of zero.
Fall(o, t) ==
    LET l == log[o]
        last == l[Len(l)]
        other == {i \in DOMAIN l : Price[l[i].quote] \notin {None, Price[last.quote]}}
        before == l[Max(other)].quote
        since == CHOOSE j \in 1 .. Max(other) :
                    /\ \A k \in j .. Max(other) : SamePrice(l[k].quote, before)
                    /\ j = 1 \/ ~SamePrice(l[j - 1].quote, before)
        drop == [offer |-> o, previous |-> Price[before], current |-> Price[last.quote],
                 since |-> l[since].at, at |-> last.at]
        lost == drop.previous - drop.current
    IN  IF /\ l # <<>> /\ other # {}
           /\ Available[last.quote] /\ Price[last.quote] \notin {None, 0}
           /\ t <= last.at + Rules.maxAge
           /\ lost > 0 /\ lost >= Rules.minAmountDrop
           /\ Percent(drop) >= Rules.minPercentDrop
           /\ ~PromoOnly(last.quote, drop.previous)
           /\ l[since].at + Rules.window >= last.at
        THEN {drop} ELSE {}

Believable(d) == Percent(d) <= Rules.maxPercentDrop

\* The payload tells the largest believable falls that were observed, and only
\* those; the rest it withholds.  This is what it says although it never sees an
\* observation, only the changes a history keeps of them and the part of that
\* history the snapshot carries.
PayloadTellsTheFalls ==
    [][phase = "export" /\ tree'.payload # tree.payload =>
         LET falls == UNION {Fall(o, now) : o \in Ids}
             told == {d \in falls : Believable(d)}
             drops == tree'.payload.drops
         IN /\ ToSet(drops) \subseteq told
            /\ \A d \in told \ ToSet(drops) :
                  /\ Len(drops) = Rules.limit
                  /\ \A i \in DOMAIN drops :
                        \/ Percent(drops[i]) > Percent(d)
                        \/ /\ Percent(drops[i]) = Percent(d)
                           /\ drops[i].previous - drops[i].current >= d.previous - d.current
            /\ tree'.payload.totalDrops = Cardinality(told)
            /\ ToSet(tree'.payload.suspect) \subseteq falls \ told]_vars

\* The channel is never told the same payload twice, nor of two payloads of one
\* day, although an export may fail and leave yesterday's payload for the next
\* run to commit again, and a run may end on another day than it began.
NoDigestTwice ==
    /\ \A i, j \in DOMAIN posts : i < j => Day(posts[i].at) < Day(posts[j].at)
    /\ phase = "idle" /\ posts # <<>> => Last(posts).at <= master.payload.at

\* Types; the points of a history are in the order of their instants.
TypeOK ==
    /\ now \in 0 .. MaxTime
    /\ \A o \in Ids : offers[o] # None => offers[o].quote \in Quotes
    /\ \A o \in Ids : \A i, j \in DOMAIN points[o] : i < j => points[o][i].at < points[o][j].at
    /\ phase \in {"idle", "export", "commit", "post"}
    /\ kind \in {"schedule", "dispatch", None}
    /\ committed \subseteq Nat

\* Types, and a channel that is never told the same thing twice.
Inv == TypeOK /\ NoDigestTwice
===============================================================================
