-------------------------- MODULE MonitoringProofs --------------------------
(***************************************************************************)
(* Proofs about Monitoring, for any rules, merchants, offers and prices,   *)
(* any number of ticks, edits, tests and deaths: a change of stock leaves  *)
(* its event, a merchant that failed is left alone, a disabled rule falls  *)
(* silent, and alerts about an opportunity alternate with its relapses.    *)
(***************************************************************************)
EXTENDS Monitoring, TLAPS, FiniteSetTheorems, SequenceTheorems,
        WellFoundedInduction

RuleRow     == [enabled : BOOLEAN, target : Price \union {0},
                max : Price \union {0}, tier : Tier]
Observation == [at : 0..MaxClock, available : BOOLEAN, price : Price]
Change      == [type : ChangeType, rule : Rule, record : Nat]
Reply       == Answers \union Errors \union {Pending, NoReply}
StockType   == {"stock_available", "stock_unavailable"}
Changes     == Seq(Change)
ATest       == [rule : Tested, view : RuleRow,
                step : {"checking", "inserting", "stored"},
                seen : Answers \union {Pending}, before : Nat,
                pending : Changes, record : Nat]

MTypes ==
  /\ rule \in [Rule -> RuleRow]
  /\ \A r \in Rule : rule[r].target # 0 /\ rule[r].max # 0
                       => rule[r].target <= rule[r].max
  /\ records \in [Rule -> Seq(Observation)]
  /\ event \subseteq AnEvent
  /\ copy \in [Rule -> RuleRow \union {NoCopy}]
  /\ held \subseteq Rule
  /\ backoff \in [Merchant -> [failures : Nat, until : Nat]]
  /\ phase \in {"down", "idle", "checking", "storing", "inserting", "notifying",
                "lookup", "shifting"}
  /\ now \in Nat /\ now <= clock
  /\ due \subseteq Rule /\ todo \subseteq due
  /\ reply \in [Rule -> Reply]
  /\ before \in Nat /\ pending \in Seq(Change)
  /\ cli # NoTest => cli \in ATest
  /\ found \in [Rule -> SUBSET event]
  /\ changed \subseteq Rule \X Nat
  /\ restUntil \in [Merchant -> Nat]
  /\ relapsed \subseteq Rule
  /\ tests \in Nat /\ deaths \in Nat /\ clock \in 0..MaxClock

\* Events and deliveries are of what is on record, and a tick finds them by rule.
RowsFit ==
  /\ \A e \in event : e.record \in DOMAIN records[e.rule]
  /\ queued \subseteq event
  /\ \A r \in Rule : \A e \in found[r] : e.rule = r

\* A pause is short, and one of the failures that are counted.
BlocksFit ==
  \A m \in Merchant :
    /\ backoff[m].failures = 0 => backoff[m].until = 0
    /\ \/ backoff[m].until <= clock + MaxBackoff
       \/ \E after \in RetryAfter : backoff[m].until <= clock + after

\* What a tick still has to see was seen by its checks; once its storing is past a
\* rule there is a record of it.
TickFits ==
  /\ phase \in {"down", "idle", "checking"} => todo = {}
  /\ phase \in {"inserting", "lookup", "shifting"} => todo # {}
  /\ \A r \in todo : reply[r] \in Answers
  /\ phase \in {"storing", "inserting"} =>
       \A r \in due :
         reply[r] \in Answers /\ (r \notin todo \/ (pending # <<>> /\ r = First(todo)))
           => records[r] # <<>>
  /\ phase \in {"notifying", "lookup", "shifting"} => \A r \in todo : records[r] # <<>>

\* The changes that are being stored are of one observation, and that is stored.
PendingFits ==
  /\ pending # <<>> => phase = "storing" /\ todo # {}
  /\ \A e \in ToSet(pending) : e.rule = First(todo) /\ e.record \in DOMAIN records[e.rule]
  /\ \A e, f \in ToSet(pending) : e.record = f.record

\* The record a process compares its observation with is one of the listing's, and
\* what a test has to commit is of the observation it stored.
TestFits ==
  /\ phase = "inserting" => before <= Len(records[First(todo)])
  /\ cli # NoTest =>
       /\ cli.step # "checking" => cli.seen \in Answers
       /\ cli.step # "stored" => cli.pending = <<>>
       /\ cli.before <= Len(records[cli.rule])
       /\ cli.record <= Len(records[cli.rule])
       /\ \A e \in ToSet(cli.pending) :
            /\ e.rule = cli.rule /\ e.record = cli.record
            /\ e.record \in DOMAIN records[e.rule]

\* Without a test nobody stores an observation between the worker's reading and
\* its storing.
RacesFit ==
  tests = 0 => /\ cli = NoTest /\ raced = {}
               /\ phase = "inserting" => before = LatestOf(records[First(todo)])

ToCommit(test) == IF test = NoTest THEN {} ELSE ToSet(test.pending)

\* A change of stock has its event, or is about to have it, or a death cut it off,
\* or its process had read another record than the one before.
ChangesFit ==
  /\ \A c \in changed :
       \/ c \in cut \union raced
       \/ \E e \in event \union ToSet(pending) \union ToCommit(cli) :
            e.rule = c[1] /\ e.record = c[2] /\ e.type \in StockType
  /\ IsFiniteSet(cut) /\ Cardinality(cut) <= deaths

\* A merchant that has to rest is blocked, and none of those being checked has to.
RestsFit ==
  /\ \A m \in Merchant : restUntil[m] <= clock \/ restUntil[m] <= backoff[m].until
  /\ phase \in {"checking", "storing", "inserting"} =>
       \A r \in due : restUntil[MerchantOf[r]] <= clock

\* A rule that has not relapsed since its alert has a high tier, wherever it is read.
TiersFit ==
  /\ \A r \in Rule \ relapsed :
       rule[r].tier = "high" /\ (copy[r] = NoCopy \/ copy[r].tier = "high")
  /\ phase = "shifting" =>
       /\ First(todo) \in relapsed /\ rule[First(todo)].tier = "high"
       /\ copy[First(todo)] = NoCopy \/ copy[First(todo)].tier = "high"

MonitoringInv ==
  /\ MTypes /\ RowsFit /\ BlocksFit /\ TickFits /\ PendingFits /\ TestFits
  /\ RacesFit /\ ChangesFit /\ RestsFit /\ TiersFit

-----------------------------------------------------------------------------
(* The operators of the model. *)

\* A set of numbers has a least one.
LEMMA LeastNumber ==
  ASSUME NEW T \in SUBSET Nat, T # {}
  PROVE  \E x \in T : \A y \in T : x <= y
<1>1. \E x \in T : \A y \in T : ~ (<<y, x>> \in OpToRel(<, Nat))
  BY NatLessThanWellFounded, WFMin
<1>2. PICK x \in T : \A y \in T : ~ (<<y, x>> \in OpToRel(<, Nat))
  BY <1>1
<1>3. ASSUME NEW y \in T, ~ (x <= y) PROVE FALSE
  <2>1. <<y, x>> \in OpToRel(<, Nat)
    BY <1>3 DEF OpToRel
  <2> QED BY <1>2, <2>1, Zenon
<1> QED BY <1>3

\* The first of some rules is one of them.
LEMMA FirstIs ==
  ASSUME NEW S \in SUBSET Rule, S # {}
  PROVE  First(S) \in S
<1>1. \E x \in S : \A y \in S : x <= y
  BY MonitoringAssumption, LeastNumber
<1> QED BY <1>1 DEF First

\* g is the doubling of the first pause, up to n.
DoubledUpTo(g, n) ==
  /\ g \in [0..n -> Nat] /\ g[0] = BaseBackoff
  /\ \A k \in 1..n : g[k] = 2 * g[k - 1]

LEMMA DoubledUpToExists == \A n \in Nat : \E g : DoubledUpTo(g, n)
<1> DEFINE Bad == {n \in Nat : ~ \E g : DoubledUpTo(g, n)}
<1> SUFFICES ASSUME Bad # {} PROVE FALSE
  OBVIOUS
<1>1. PICK n \in Bad : \A k \in Bad : n <= k
  BY LeastNumber
<1>2. CASE n = 0
  <2>1. DoubledUpTo([k \in 0..0 |-> BaseBackoff], 0)
    BY MonitoringAssumption DEF DoubledUpTo
  <2> QED BY <1>2, <2>1
<1>3. CASE n # 0
  <2>1. n - 1 \in Nat /\ n - 1 \notin Bad
    BY <1>1, <1>3
  <2>2. PICK g : DoubledUpTo(g, n - 1)
    BY <2>1
  <2> DEFINE h == [k \in 0..n |-> IF k = n THEN 2 * g[n - 1] ELSE g[k]]
  <2>3. n \in Nat
    OBVIOUS
  <2>4. DoubledUpTo(h, n)
    <3>1. \A k \in 0..n : k # n => k \in 0..(n - 1) /\ g[k] \in Nat
      BY <2>2, <2>3, <1>3 DEF DoubledUpTo
    <3>2. g[n - 1] \in Nat
      BY <3>1, <2>1, <2>3
    <3>3. h \in [0..n -> Nat]
      BY <3>1, <3>2
    <3>4. h[0] = BaseBackoff
      BY <2>2, <2>3, <1>3 DEF DoubledUpTo
    <3>5. ASSUME NEW k \in 1..n PROVE h[k] = 2 * h[k - 1]
      <4>1. k - 1 \in 0..n /\ k - 1 # n /\ k \in 0..n
        BY <2>3
      <4>2. CASE k = n
        BY <4>1, <4>2
      <4>3. CASE k # n
        <5>1. k \in 1..(n - 1)
          BY <4>3, <2>3
        <5> QED BY <5>1, <4>1, <4>3, <2>2 DEF DoubledUpTo
      <4> QED BY <4>2, <4>3
    <3> HIDE DEF h
    <3> QED BY <3>3, <3>4, <3>5 DEF DoubledUpTo
  <2> QED BY <2>4
<1> QED BY <1>2, <1>3

LEMMA DoubledUpToUnique ==
  ASSUME NEW m \in Nat, NEW n \in Nat, m <= n, NEW g, NEW h,
         DoubledUpTo(g, m), DoubledUpTo(h, n)
  PROVE  g[m] = h[m]
<1> DEFINE Bad == {k \in 0..m : g[k] # h[k]}
<1> SUFFICES ASSUME Bad # {} PROVE FALSE
  OBVIOUS
<1>1. Bad \in SUBSET Nat
  OBVIOUS
<1>2. PICK k \in Bad : \A j \in Bad : k <= j
  BY <1>1, LeastNumber
<1>3. k # 0
  BY DEF DoubledUpTo
<1>4. k - 1 \in 0..m /\ k - 1 \notin Bad /\ k \in 1..m /\ k \in 1..n
  BY <1>2, <1>3
<1>5. g[k] = 2 * g[k - 1] /\ h[k] = 2 * h[k - 1]
  BY <1>4 DEF DoubledUpTo
<1> QED BY <1>4, <1>5

\* The recursive definition of Doubled has a solution.
LEMMA DoubledEquation ==
  \A n \in Nat : Doubled[n] = IF n = 0 THEN BaseBackoff ELSE 2 * Doubled[n - 1]
<1> DEFINE G(n) == CHOOSE g : DoubledUpTo(g, n)
           f == [n \in Nat |-> G(n)[n]]
<1>1. \A n \in Nat : DoubledUpTo(G(n), n)
  BY DoubledUpToExists
<1>2. ASSUME NEW n \in Nat PROVE f[n] = IF n = 0 THEN BaseBackoff ELSE 2 * f[n - 1]
  <2>1. CASE n = 0
    BY <1>1, <2>1 DEF DoubledUpTo
  <2>2. CASE n # 0
    <3>1. n - 1 \in Nat /\ n \in 1..n /\ n - 1 <= n
      BY <2>2
    <3>2. DoubledUpTo(G(n), n) /\ DoubledUpTo(G(n - 1), n - 1)
      BY <1>1, <3>1
    <3> HIDE DEF G
    <3>3. G(n)[n] = 2 * G(n)[n - 1]
      BY <3>1, <3>2 DEF DoubledUpTo
    <3>4. G(n - 1)[n - 1] = G(n)[n - 1]
      BY <3>1, <3>2, DoubledUpToUnique
    <3> QED BY <2>2, <3>1, <3>3, <3>4
  <2> QED BY <2>1, <2>2
<1> HIDE DEF G
<1>3. f = [n \in Nat |-> IF n = 0 THEN BaseBackoff ELSE 2 * f[n - 1]]
  BY <1>2
<1> DEFINE Solves(d) == d = [n \in Nat |-> IF n = 0 THEN BaseBackoff ELSE 2 * d[n - 1]]
<1>4. Solves(f)
  BY <1>3
<1>5. Doubled = CHOOSE d : Solves(d)
  BY DEF Doubled
<1> HIDE DEF f, Solves
<1>6. Solves(Doubled)
  BY <1>4, <1>5
<1> QED BY <1>6 DEF Solves

LEMMA DoubledGrows == \A n \in Nat : Doubled[n] \in Nat /\ BaseBackoff <= Doubled[n]
<1> DEFINE Bad == {n \in Nat : ~ (Doubled[n] \in Nat /\ BaseBackoff <= Doubled[n])}
<1> SUFFICES ASSUME Bad # {} PROVE FALSE
  OBVIOUS
<1>1. PICK n \in Bad : \A k \in Bad : n <= k
  BY LeastNumber
<1>2. n # 0
  BY DoubledEquation, MonitoringAssumption
<1>3. n - 1 \in Nat /\ n - 1 \notin Bad
  BY <1>1, <1>2
<1>4. Doubled[n - 1] \in Nat /\ BaseBackoff <= Doubled[n - 1]
  BY <1>3
<1>5. Doubled[n] = 2 * Doubled[n - 1]
  BY <1>2, DoubledEquation
<1> QED BY <1>4, <1>5, MonitoringAssumption

\* A pause lasts as long as the first one at least and the cap at most.
LEMMA DelayIs ==
  ASSUME NEW n \in Nat, n # 0
  PROVE  Delay(n) \in Nat /\ BaseBackoff <= Delay(n) /\ Delay(n) <= MaxBackoff
<1>1. n - 1 \in Nat
  OBVIOUS
<1>2. Doubled[n - 1] \in Nat /\ BaseBackoff <= Doubled[n - 1]
  BY <1>1, DoubledGrows
<1> QED BY <1>2, MonitoringAssumption DEF Delay

\* A listing that was observed has a latest observation.
LEMMA LatestIs ==
  ASSUME NEW s \in Seq(Observation), s # <<>>
  PROVE  Latest(s) \in 1..Len(s)
<1>0. Len(s) \in Nat \ {0} /\ \A i \in 1..Len(s) : s[i] \in Observation
  OBVIOUS
<1>1. Len(s) \in Nat \ {0} /\ \A i \in 1..Len(s) : s[i].at \in 0..MaxClock
  BY <1>0 DEF Observation
<1> DEFINE Ages == {MaxClock - s[i].at : i \in 1..Len(s)}
<1>2. Ages \in SUBSET Nat /\ Ages # {}
  <2>1. 1 \in 1..Len(s)
    BY <1>1
  <2> QED BY <1>1, <2>1, MonitoringAssumption
<1>3. PICK a \in Ages : \A b \in Ages : a <= b
  <2> HIDE DEF Ages
  <2> QED BY <1>2, LeastNumber
<1>4. PICK i \in 1..Len(s) : \A j \in 1..Len(s) : s[j].at <= s[i].at
  <2>1. PICK i \in 1..Len(s) : a = MaxClock - s[i].at
    BY <1>3
  <2>2. \A j \in 1..Len(s) : MaxClock - s[i].at <= MaxClock - s[j].at
    BY <1>3, <2>1
  <2>3. \A j \in 1..Len(s) : s[j].at <= s[i].at
    <3> TAKE j \in 1..Len(s)
    <3>1. s[i].at \in 0..MaxClock /\ s[j].at \in 0..MaxClock
      BY <1>1
    <3> QED BY <3>1, <2>2, MonitoringAssumption
  <2> QED BY <2>3
<1> DEFINE Depths == {Len(s) - j : j \in {k \in 1..Len(s) : s[k].at = s[i].at}}
<1>5. Depths \in SUBSET Nat /\ Depths # {}
  BY <1>1
<1>6. PICK d \in Depths : \A e \in Depths : d <= e
  <2> HIDE DEF Depths
  <2> QED BY <1>5, LeastNumber
<1>7. PICK l \in 1..Len(s) : d = Len(s) - l /\ s[l].at = s[i].at
  BY <1>6
<1>8. \A j \in 1..Len(s) : s[j].at = s[i].at => Len(s) - l <= Len(s) - j
  BY <1>6, <1>7
<1>9. \A j \in 1..Len(s) : s[j].at < s[l].at \/ (s[j].at = s[l].at /\ j <= l)
  <2> TAKE j \in 1..Len(s)
  <2>1. s[j].at <= s[l].at
    BY <1>4, <1>7
  <2>2. s[j].at = s[l].at => j <= l
    BY <1>1, <1>7, <1>8
  <2> QED BY <1>1, <2>1, <2>2
<1> QED BY <1>9 DEF Latest

LEMMA LatestOfIs ==
  ASSUME NEW s \in Seq(Observation)
  PROVE  LatestOf(s) \in Nat /\ LatestOf(s) <= Len(s) /\ (s # <<>> => LatestOf(s) = Latest(s))
<1>1. CASE s = <<>>
  BY <1>1 DEF LatestOf
<1>2. CASE s # <<>>
  BY <1>2, LatestIs DEF LatestOf
<1> QED BY <1>1, <1>2

\* What a sequence holds is its head and what its tail holds.
LEMMA HeadAndTail ==
  ASSUME NEW S, NEW s \in Seq(S), s # <<>>
  PROVE  /\ Head(s) \in S /\ Tail(s) \in Seq(S)
         /\ ToSet(s) = {Head(s)} \union ToSet(Tail(s))
<1>1. Len(s) \in Nat \ {0} /\ Head(s) = s[1] /\ DOMAIN s = 1..Len(s)
  OBVIOUS
<1>2. /\ Tail(s) \in Seq(S) /\ Len(Tail(s)) = Len(s) - 1
      /\ DOMAIN Tail(s) = 1..(Len(s) - 1)
      /\ \A i \in 1..(Len(s) - 1) : Tail(s)[i] = s[i + 1]
  BY <1>1, HeadTailProperties
<1>3. \A i \in 2..Len(s) : i - 1 \in 1..(Len(s) - 1) /\ s[i] = Tail(s)[i - 1]
  BY <1>1, <1>2
<1>4. \A x \in ToSet(s) : x = Head(s) \/ x \in ToSet(Tail(s))
  <2> TAKE x \in ToSet(s)
  <2>1. PICK i \in 1..Len(s) : x = s[i]
    BY <1>1 DEF ToSet
  <2>2. i = 1 \/ i \in 2..Len(s)
    BY <1>1
  <2>3. CASE i \in 2..Len(s)
    BY <1>2, <1>3, <2>1, <2>3 DEF ToSet
  <2> QED BY <1>1, <2>1, <2>2, <2>3
<1>5. ToSet(Tail(s)) \subseteq ToSet(s)
  <2> SUFFICES ASSUME NEW i \in 1..(Len(s) - 1) PROVE Tail(s)[i] \in ToSet(s)
    BY <1>2 DEF ToSet
  <2>1. i + 1 \in 1..Len(s) /\ Tail(s)[i] = s[i + 1]
    BY <1>1, <1>2
  <2> QED BY <1>1, <2>1 DEF ToSet
<1>6. Head(s) \in ToSet(s) /\ Head(s) \in S
  BY <1>1 DEF ToSet
<1> QED BY <1>2, <1>4, <1>5, <1>6

\* The changes of an observation are of the record it is about to be, and one of
\* them is of stock if the stock differs from the latest record and that was read.
LEMMA EventsAre ==
  ASSUME NEW r \in Rule, records[r] \in Seq(Observation), NEW o \in Answers,
         NEW v \in RuleRow, NEW b \in Nat, b <= Len(records[r])
  PROVE  /\ EventsOf(r, o, b, v) \in Seq(Change)
         /\ \A e \in ToSet(EventsOf(r, o, b, v)) :
              e \in Change /\ e.rule = r /\ e.record = Len(records[r]) + 1
         /\ StockDiffers(r, o) /\ b = LatestOf(records[r]) =>
              \E e \in ToSet(EventsOf(r, o, b, v)) : e.type \in StockType
<1>1. CASE b = 0 \/ ~o.matched
  <2>1. EventsOf(r, o, b, v) = <<>>
    BY <1>1 DEF EventsOf
  <2>3. ASSUME StockDiffers(r, o), b = LatestOf(records[r]) PROVE FALSE
    <3>1. records[r] # <<>> /\ o.matched
      BY <2>3 DEF StockDiffers
    <3>2. Latest(records[r]) \in 1..Len(records[r]) /\ b = Latest(records[r])
      BY <2>3, <3>1, LatestIs DEF LatestOf
    <3> QED BY <1>1, <3>1, <3>2
  <2>2. ToSet(<<>>) = {}
    BY DEF ToSet
  <2> QED BY <2>1, <2>2, <2>3
<1>2. CASE ~(b = 0 \/ ~o.matched)
  <2> DEFINE p == Previous(records[r], b, Stored(o))
             S == StockChange(p, Stored(o))
             P == PriceChange(p, Stored(o))
             T == TargetReached(p, Stored(o), v.target)
             types == DetectChanges(p, Stored(o), v.target)
  <2>1. /\ S \in Seq(ChangeType) /\ P \in Seq(ChangeType) /\ T \in Seq(ChangeType)
        /\ S # <<>> => Len(S) = 1 /\ S[1] \in StockType
    <3> HIDE DEF p
    <3>1. /\ <<>> \in Seq(ChangeType)
          /\ \A x \in ChangeType : <<x>> \in Seq(ChangeType) /\ Len(<<x>>) = 1 /\ <<x>>[1] = x
      OBVIOUS
    <3>2. S = <<>> \/ S = <<"stock_available">> \/ S = <<"stock_unavailable">>
      BY Zenon DEF StockChange
    <3>3. P = <<>> \/ P = <<"price_drop">> \/ P = <<"price_increase">>
      BY Zenon DEF PriceChange
    <3>4. T = <<>> \/ T = <<"target_price_reached">>
      BY Zenon DEF TargetReached
    <3> HIDE DEF S, P, T
    <3>5. {"stock_available", "stock_unavailable"} = StockType /\ StockType \subseteq ChangeType
          /\ {"price_drop", "price_increase", "target_price_reached"} \subseteq ChangeType
      BY DEF StockType, ChangeType
    <3>6. S \in Seq(ChangeType) /\ (S # <<>> => Len(S) = 1 /\ S[1] \in StockType)
      BY <3>1, <3>2, <3>5
    <3>7. P \in Seq(ChangeType) /\ T \in Seq(ChangeType)
      BY <3>1, <3>3, <3>4, <3>5
    <3> QED BY <3>6, <3>7
  <2>2. types = S \o P \o T
    BY DEF DetectChanges
  <2>3. types \in Seq(ChangeType)
    <3> HIDE DEF S, P, T, types
    <3> QED BY <2>1, <2>2
  <2>4. StockDiffers(r, o) /\ b = LatestOf(records[r]) => types # <<>> /\ types[1] \in StockType
    <3>1. StockDiffers(r, o) /\ b = LatestOf(records[r]) => S # <<>>
      BY DEF StockDiffers, LatestOf, StockChange, Previous, Stored
    <3> HIDE DEF S, P, T, types
    <3>2. S # <<>> => Len(types) >= 1 /\ types[1] = S[1]
      BY <2>1, <2>2
    <3> QED BY <3>1, <3>2, <2>1, <2>3
  <2>5. EventsOf(r, o, b, v) = [i \in DOMAIN types |-> [type |-> types[i], rule |-> r,
                                                       record |-> Len(records[r]) + 1]]
    BY <1>2 DEF EventsOf
  <2> HIDE DEF types
  <2>6. Len(types) \in Nat /\ DOMAIN types = 1..Len(types)
        /\ \A i \in 1..Len(types) : types[i] \in ChangeType
    BY <2>3
  <2>7. \A i \in DOMAIN types :
          [type |-> types[i], rule |-> r, record |-> Len(records[r]) + 1] \in Change
    BY <2>6 DEF Change
  <2>8. EventsOf(r, o, b, v) \in Seq(Change) /\ DOMAIN EventsOf(r, o, b, v) = DOMAIN types
    BY <2>5, <2>6, <2>7
  <2>9. \A e \in ToSet(EventsOf(r, o, b, v)) :
          e \in Change /\ e.rule = r /\ e.record = Len(records[r]) + 1
    BY <2>5, <2>7, <2>8 DEF ToSet
  <2>10. ASSUME StockDiffers(r, o), b = LatestOf(records[r])
         PROVE  \E e \in ToSet(EventsOf(r, o, b, v)) : e.type \in StockType
    <3>1. 1 \in DOMAIN types /\ types[1] \in StockType
      BY <2>10, <2>4, <2>6, <2>3
    <3>2. EventsOf(r, o, b, v)[1] \in ToSet(EventsOf(r, o, b, v))
      BY <3>1, <2>8 DEF ToSet
    <3>3. EventsOf(r, o, b, v)[1].type = types[1]
      BY <3>1, <2>5
    <3> QED BY <3>1, <3>2, <3>3
  <2> QED BY <2>8, <2>9, <2>10
<1> QED BY <1>1, <1>2

-----------------------------------------------------------------------------
(* The invariant. *)

LEMMA EmptyToSet == ToSet(<<>>) = {}
BY DEF ToSet

LEMMA InitInv == Init => MonitoringInv
<1> SUFFICES ASSUME Init PROVE MonitoringInv
  OBVIOUS
<1> USE MonitoringAssumption DEF Init
<1>1. MTypes
  BY DEF MTypes, RuleRow, Tier, Reply, NoBackoff
<1>2. RowsFit /\ TickFits /\ RestsFit
  BY DEF RowsFit, TickFits, RestsFit
<1>3. BlocksFit
  BY DEF BlocksFit, NoBackoff
<1>4. PendingFits /\ TestFits /\ RacesFit
  BY EmptyToSet DEF PendingFits, TestFits, RacesFit
<1>5. ChangesFit
  BY FS_EmptySet DEF ChangesFit
<1>6. TiersFit
  BY DEF TiersFit
<1> QED BY <1>1, <1>2, <1>3, <1>4, <1>5, <1>6 DEF MonitoringInv

LEMMA NoTestIsNone ==
  NoTest \notin ATest /\ \A step \in {"checking", "inserting", "stored"} :
    NoTest.step # step
BY DEF NoTest, ATest

LEMMA TestIsOne ==
  ASSUME MonitoringInv, cli # NoTest
  PROVE  /\ cli \in ATest /\ cli.rule \in Rule /\ tests # 0
         /\ records[cli.rule] \in Seq(Observation) /\ Len(records[cli.rule]) \in Nat
<1>1. cli \in ATest /\ tests # 0 /\ records \in [Rule -> Seq(Observation)]
  BY DEF MonitoringInv, MTypes, RacesFit
<1>2. cli.rule \in Rule
  BY <1>1, MonitoringAssumption DEF ATest
<1>3. records[cli.rule] \in Seq(Observation)
  BY <1>1, <1>2
<1> QED BY <1>1, <1>2, <1>3

\* What nobody stores and no test does leaves the tests as they are.
LEMMA TestStays ==
  ASSUME MonitoringInv, UNCHANGED <<cli, raced, tests, records>>,
         phase' = "inserting" => UNCHANGED <<phase, before, todo>>
  PROVE  TestFits' /\ RacesFit'
BY DEF MonitoringInv, TestFits, RacesFit

\* A rule's view is a row, and loading keeps the copies what they are.
LEMMA LoadedIs ==
  ASSUME MTypes, NEW r \in Rule
  PROVE  View(r) \in RuleRow /\ Loaded(r) \in [Rule -> RuleRow \union {NoCopy}]
BY DEF MTypes, View, Loaded

\* Loading a copy does not make a low tier high.
LEMMA LoadedKeepsTiers ==
  ASSUME MTypes, TiersFit, NEW r \in Rule, copy' = Loaded(r),
         UNCHANGED <<rule, relapsed, phase, todo>>
  PROVE  TiersFit'
<1>1. \A q \in Rule \ relapsed : copy'[q] = NoCopy \/ copy'[q].tier = "high"
  BY DEF MTypes, TiersFit, View, Loaded
<1>2. phase = "shifting" =>
        copy'[First(todo)] = NoCopy \/ copy'[First(todo)].tier = "high"
  BY DEF MTypes, TiersFit, View, Loaded
<1> QED BY <1>1, <1>2 DEF TiersFit

LEMMA StartInv == MonitoringInv /\ (StartWorker \/ StartTick \/ EmptyTick) => MonitoringInv'
<1> SUFFICES ASSUME MonitoringInv, StartWorker \/ StartTick \/ EmptyTick
             PROVE  MonitoringInv'
  OBVIOUS
<1> USE MonitoringAssumption DEF MonitoringInv
<1> USE DEF vars, tables, session, tick, history, stored, command
<1>1. CASE StartWorker
  <2> USE <1>1 DEF StartWorker
  <2>1. MTypes'
    BY DEF MTypes
  <2>2. RowsFit' /\ BlocksFit' /\ ChangesFit'
    BY DEF RowsFit, BlocksFit, ChangesFit
  <2>3. TickFits' /\ RestsFit' /\ TiersFit'
    BY DEF TickFits, RestsFit, TiersFit
  <2>4. PendingFits' /\ TestFits' /\ RacesFit'
    BY EmptyToSet, TestStays DEF PendingFits
  <2> QED BY <2>1, <2>2, <2>3, <2>4
<1>2. CASE StartTick
  <2> USE <1>2 DEF StartTick
  <2>1. MTypes'
    <3>1. reply' \in [Rule -> Reply]
      BY DEF Reply
    <3>2. copy' \in [Rule -> RuleRow \union {NoCopy}]
      BY LoadedIs DEF MTypes
    <3>3. todo = {}
      BY DEF TickFits
    <3>4. now' \in Nat /\ now' <= clock /\ due' \subseteq Rule
      BY DEF MTypes
    <3> QED BY <3>1, <3>2, <3>3, <3>4 DEF MTypes
  <2>2. RowsFit' /\ BlocksFit' /\ ChangesFit'
    BY DEF RowsFit, BlocksFit, ChangesFit
  <2>3. TickFits'
    BY DEF TickFits
  <2>4. PendingFits' /\ TestFits' /\ RacesFit'
    BY EmptyToSet, TestStays DEF PendingFits
  <2>5. RestsFit'
    <3>1. ASSUME NEW r \in Rule, Checkable(r) PROVE restUntil[MerchantOf[r]] <= clock
      <4>1. MerchantOf[r] \in Merchant /\ backoff[MerchantOf[r]].until <= clock
        BY <3>1 DEF Checkable, IsBlocked, MTypes
      <4> QED BY <4>1 DEF RestsFit, MTypes
    <3> QED BY <3>1 DEF RestsFit
  <2>6. TiersFit'
    BY DEF TiersFit, View
  <2> QED BY <2>1, <2>2, <2>3, <2>4, <2>5, <2>6
<1>3. CASE EmptyTick
  <2> USE <1>3 DEF EmptyTick
  <2>1. MTypes'
    BY DEF MTypes
  <2>2. RowsFit' /\ BlocksFit' /\ ChangesFit' /\ TickFits'
    BY DEF RowsFit, BlocksFit, ChangesFit, TickFits
  <2>3. PendingFits' /\ RestsFit' /\ TiersFit' /\ TestFits' /\ RacesFit'
    BY TestStays DEF PendingFits, RestsFit, TiersFit
  <2> QED BY <2>1, <2>2, <2>3
<1> QED BY <1>1, <1>2, <1>3

LEMMA CheckInv ==
  MonitoringInv /\ (StartStoring \/ \E r \in Rule : Check(r)) => MonitoringInv'
<1> SUFFICES ASSUME MonitoringInv, StartStoring \/ \E r \in Rule : Check(r)
             PROVE  MonitoringInv'
  OBVIOUS
<1> USE MonitoringAssumption DEF MonitoringInv
<1> USE DEF vars, tables, session, tick, history, stored, command
<1>1. CASE StartStoring
  <2> USE <1>1 DEF StartStoring
  <2>1. MTypes'
    BY DEF MTypes
  <2>2. RowsFit' /\ BlocksFit' /\ ChangesFit'
    BY DEF RowsFit, BlocksFit, ChangesFit
  <2>3. TickFits'
    BY DEF TickFits, Seen, PendingFits
  <2>4. RestsFit' /\ TiersFit'
    BY DEF RestsFit, TiersFit
  <2>5. PendingFits' /\ TestFits' /\ RacesFit'
    BY EmptyToSet, TestStays DEF PendingFits
  <2> QED BY <2>1, <2>2, <2>3, <2>4, <2>5
<1>2. ASSUME NEW r \in Rule, Check(r) PROVE MonitoringInv'
  <2> USE <1>2 DEF Check
  <2>1. MTypes'
    <3>1. PICK a : /\ a \in IF View(r).enabled THEN {Shown(o, clock) : o \in Offer[r]} \union Errors
                                              ELSE [kind : {"other"}]
                   /\ reply' = [reply EXCEPT ![r] = a]
      BY Zenon
    <3>2. \A o \in Offer[r] : Shown(o, clock) \in Answers
      BY DEF Shown, Answers, MTypes
    <3>3. a \in Reply
      BY <3>1, <3>2 DEF Reply, Errors
    <3>4. reply' \in [Rule -> Reply]
      BY <3>1, <3>3 DEF MTypes
    <3> QED BY <3>4, LoadedIs DEF MTypes
  <2>2. RowsFit' /\ BlocksFit' /\ ChangesFit'
    BY DEF RowsFit, BlocksFit, ChangesFit
  <2>3. TickFits' /\ RestsFit'
    BY DEF TickFits, RestsFit
  <2>4. PendingFits' /\ TestFits' /\ RacesFit'
    BY EmptyToSet, TestStays DEF PendingFits
  <2>5. TiersFit'
    BY LoadedKeepsTiers
  <2> QED BY <2>1, <2>2, <2>3, <2>4, <2>5
<1> QED BY <1>1, <1>2

\* A row more loses no row.
LEMMA AppendIs ==
  ASSUME MTypes, NEW r \in Rule, NEW o \in Answers,
         records' = [records EXCEPT ![r] = Append(@, Stored(o))]
  PROVE  /\ records' \in [Rule -> Seq(Observation)]
         /\ Len(records[r]) \in Nat /\ Len(records[r]) + 1 \in DOMAIN records'[r]
         /\ Len(records'[r]) = Len(records[r]) + 1
         /\ \A q \in Rule : Len(records[q]) <= Len(records'[q])
         /\ \A q \in Rule : DOMAIN records[q] \subseteq DOMAIN records'[q]
         /\ records'[r] # <<>>
         /\ \A q \in Rule : records[q] # <<>> => records'[q] # <<>>
<1>1. Stored(o) \in Observation
  BY DEF Stored, Observation, Answers
<1>2. records \in [Rule -> Seq(Observation)]
  BY DEF MTypes
<1>3. /\ Append(records[r], Stored(o)) \in Seq(Observation)
      /\ Len(Append(records[r], Stored(o))) = Len(records[r]) + 1
      /\ Len(records[r]) \in Nat
  BY <1>1, <1>2
<1>4. /\ records' \in [Rule -> Seq(Observation)]
      /\ records'[r] = Append(records[r], Stored(o))
      /\ \A q \in Rule : q # r => records'[q] = records[q]
  BY <1>2, <1>3
<1>5. DOMAIN records[r] = 1..Len(records[r]) /\ DOMAIN records'[r] = 1..(Len(records[r]) + 1)
  BY <1>2, <1>3, <1>4
<1>6. \A q \in Rule : DOMAIN records[q] \subseteq DOMAIN records'[q]
  BY <1>3, <1>4, <1>5
<1>7. records'[r] # <<>>
  BY <1>3, <1>4
<1>8. \A q \in Rule : Len(records[q]) <= Len(records'[q])
  <2>1. \A q \in Rule : Len(records[q]) \in Nat
    BY <1>2
  <2> QED BY <1>3, <1>4, <2>1
<1> QED BY <1>3, <1>4, <1>5, <1>6, <1>7, <1>8

\* What is stored is noted as changed if the stock differs, and as raced if the
\* latest record is not the one that was read.
LEMMA InsertIs ==
  ASSUME NEW r \in Rule, NEW o, NEW b, Insert(r, o, b)
  PROVE  /\ records' = [records EXCEPT ![r] = Append(@, Stored(o))]
         /\ changed' \subseteq changed \union {<<r, Len(records[r]) + 1>>}
         /\ raced \subseteq raced'
         /\ b = LatestOf(records[r]) => raced' = raced
         /\ \A c \in changed' \ changed :
              \/ c \in raced'
              \/ /\ c = <<r, Len(records[r]) + 1>> /\ StockDiffers(r, o)
                 /\ b = LatestOf(records[r])
BY DEF Insert

LEMMA ReadPreviousInv == MonitoringInv /\ ReadPrevious => MonitoringInv'
<1> SUFFICES ASSUME MonitoringInv, ReadPrevious PROVE MonitoringInv'
  OBVIOUS
<1> USE MonitoringAssumption DEF MonitoringInv
<1> DEFINE r == First(todo)
<1>1. /\ phase = "storing" /\ todo # {} /\ pending = <<>> /\ phase' = "inserting"
      /\ before' = LatestOf(records[r]) /\ copy' = Loaded(r)
      /\ UNCHANGED <<rule, records, event, queued, held, backoff, now, due, todo, reply,
                     pending, found, cli, changed, raced, cut, restUntil, relapsed, edits,
                     tests, deaths, clock>>
  BY DEF ReadPrevious, tables, history, stored, command
<1>2. r \in Rule
  <2>1. todo \in SUBSET Rule /\ todo # {}
    BY <1>1 DEF MTypes
  <2> QED BY <2>1, FirstIs
<1>3. before' \in Nat /\ before' <= Len(records[r])
  <2>1. records[r] \in Seq(Observation)
    BY <1>2 DEF MTypes
  <2> QED BY <1>1, <2>1, LatestOfIs
<1>4. MTypes'
  BY <1>1, <1>2, <1>3, LoadedIs DEF MTypes
<1>5. RowsFit' /\ BlocksFit' /\ ChangesFit' /\ RestsFit'
  BY <1>1 DEF RowsFit, BlocksFit, ChangesFit, RestsFit
<1>6. TickFits' /\ PendingFits'
  BY <1>1, EmptyToSet DEF TickFits, PendingFits
<1>7. TestFits' /\ RacesFit'
  BY <1>1, <1>3 DEF TestFits, RacesFit
<1>8. TiersFit'
  <2>1. \A q \in Rule \ relapsed : copy'[q] = NoCopy \/ copy'[q].tier = "high"
    BY <1>1, <1>2 DEF MTypes, TiersFit, View, Loaded
  <2> QED BY <1>1, <2>1 DEF TiersFit
<1> QED BY <1>4, <1>5, <1>6, <1>7, <1>8

LEMMA StoreObservationInv == MonitoringInv /\ StoreObservation => MonitoringInv'
<1> SUFFICES ASSUME MonitoringInv, StoreObservation PROVE MonitoringInv'
  OBVIOUS
<1> USE MonitoringAssumption DEF MonitoringInv
<1> DEFINE r == First(todo)
           o == reply[r]
<1>1. /\ phase = "inserting" /\ todo # {} /\ pending = <<>>
      /\ phase' = "storing" /\ before' = 0
      /\ pending' = EventsOf(r, o, before, View(r))
      /\ Insert(r, o, before)
      /\ todo' = IF pending' = <<>> THEN todo \ {r} ELSE todo
      /\ UNCHANGED <<rule, event, queued, copy, held, backoff, now, due, reply, found,
                     cut, restUntil, relapsed, cli, tests, deaths, clock>>
  BY DEF StoreObservation, TickFits, PendingFits, session, command
<1>2. r \in todo /\ r \in Rule /\ todo \subseteq due /\ due \subseteq Rule
  <2>1. todo \in SUBSET Rule /\ todo # {} /\ todo \subseteq due /\ due \subseteq Rule
    BY <1>1 DEF MTypes
  <2> QED BY <2>1, FirstIs
<1>3. o \in Answers
  BY <1>2 DEF TickFits
<1> HIDE DEF r
<1>4. View(r) \in RuleRow
  BY <1>1, <1>2, LoadedIs
<1>15. /\ records' = [records EXCEPT ![r] = Append(@, Stored(o))]
       /\ changed' \subseteq changed \union {<<r, Len(records[r]) + 1>>}
       /\ raced \subseteq raced' /\ (before = LatestOf(records[r]) => raced' = raced)
       /\ \A c \in changed' \ changed :
            \/ c \in raced'
            \/ /\ c = <<r, Len(records[r]) + 1>> /\ StockDiffers(r, o)
               /\ before = LatestOf(records[r])
  BY <1>1, <1>2, InsertIs
<1>5. /\ records' \in [Rule -> Seq(Observation)]
      /\ Len(records[r]) + 1 \in DOMAIN records'[r]
      /\ \A q \in Rule : Len(records[q]) <= Len(records'[q])
      /\ \A q \in Rule : DOMAIN records[q] \subseteq DOMAIN records'[q]
      /\ records'[r] # <<>>
      /\ \A q \in Rule : records[q] # <<>> => records'[q] # <<>>
  BY <1>2, <1>3, <1>15, AppendIs
<1>6. /\ pending' \in Seq(Change)
      /\ \A e \in ToSet(pending') : e \in Change /\ e.rule = r /\ e.record = Len(records[r]) + 1
      /\ StockDiffers(r, o) /\ before = LatestOf(records[r])
           => \E e \in ToSet(pending') : e.type \in StockType
  <2>1. records[r] \in Seq(Observation)
    BY <1>2 DEF MTypes
  <2>2. before \in Nat /\ before <= Len(records[r])
    BY <1>1 DEF MTypes, TestFits, r
  <2> QED BY <1>1, <1>2, <1>3, <1>4, <2>1, <2>2, EventsAre
<1>7. pending' # <<>> => todo' = todo /\ First(todo') = r
  BY <1>1 DEF r
<1> HIDE DEF o
<1>8. MTypes'
  <2>1. todo' \subseteq due
    BY <1>1, <1>2
  <2>2. changed' \subseteq Rule \X Nat
    <3>1. Len(records[r]) + 1 \in Nat
      BY <1>2 DEF MTypes
    <3> QED BY <1>2, <1>15, <3>1 DEF MTypes
  <2> QED BY <1>1, <1>5, <1>6, <2>1, <2>2 DEF MTypes
<1>9. RowsFit'
  <2>1. \A e \in event : e.rule \in Rule
    BY DEF MTypes, AnEvent
  <2> QED BY <1>1, <1>5, <2>1 DEF RowsFit
<1>10. BlocksFit' /\ RestsFit'
  BY <1>1 DEF BlocksFit, RestsFit
<1>11. TickFits'
  <2>1. ASSUME NEW q \in due, reply[q] \in Answers,
               q \notin todo' \/ (pending' # <<>> /\ q = First(todo'))
        PROVE  records'[q] # <<>>
    <3>1. q = r \/ q \notin todo
      BY <1>1, <1>7, <2>1
    <3>2. CASE q # r
      BY <1>1, <1>2, <1>5, <2>1, <3>1, <3>2 DEF TickFits
    <3> QED BY <1>5, <3>2
  <2>2. \A q \in todo' : reply[q] \in Answers
    BY <1>1 DEF TickFits
  <2> QED BY <1>1, <2>1, <2>2 DEF TickFits
<1>12. PendingFits'
  <2>1. pending' # <<>> => phase' = "storing" /\ todo' # {}
    BY <1>1
  <2>2. \A e \in ToSet(pending') : pending' # <<>>
    BY EmptyToSet
  <2>3. \A e \in ToSet(pending') : e.rule = First(todo') /\ e.record \in DOMAIN records'[e.rule]
    BY <1>5, <1>6, <1>7, <2>2
  <2> QED BY <1>6, <2>1, <2>3 DEF PendingFits
<1>13. ChangesFit'
  <2>1. \A c \in changed :
          \/ c \in cut \union raced
          \/ \E e \in event \union ToCommit(cli) :
               e.rule = c[1] /\ e.record = c[2] /\ e.type \in StockType
    BY <1>1, EmptyToSet DEF ChangesFit
  <2>3. ASSUME NEW c \in changed'
        PROVE  \/ c \in cut \union raced'
               \/ \E e \in event' \union ToSet(pending') \union ToCommit(cli') :
                    e.rule = c[1] /\ e.record = c[2] /\ e.type \in StockType
    <3>1. CASE c \in changed
      BY <1>1, <1>15, <2>1, <3>1
    <3>2. CASE c = <<r, Len(records[r]) + 1>> /\ StockDiffers(r, o)
               /\ before = LatestOf(records[r])
      BY <1>6, <3>2
    <3> QED BY <1>15, <3>1, <3>2
  <2> QED BY <1>1, <2>3 DEF ChangesFit
<1>14. TiersFit'
  BY <1>1 DEF TiersFit
<1>16. TestFits'
  <2>1. cli # NoTest =>
          cli \in ATest /\ cli.rule \in Rule
          /\ Len(records[cli.rule]) \in Nat /\ Len(records'[cli.rule]) \in Nat
          /\ Len(records[cli.rule]) <= Len(records'[cli.rule])
          /\ cli.before \in Nat /\ cli.record \in Nat
    <3> SUFFICES ASSUME cli # NoTest
                 PROVE  cli \in ATest /\ cli.rule \in Rule
                        /\ Len(records[cli.rule]) \in Nat /\ Len(records'[cli.rule]) \in Nat
                        /\ Len(records[cli.rule]) <= Len(records'[cli.rule])
                        /\ cli.before \in Nat /\ cli.record \in Nat
      OBVIOUS
    <3>1. cli \in ATest /\ cli.rule \in Rule /\ Len(records[cli.rule]) \in Nat
      BY TestIsOne
    <3>2. records'[cli.rule] \in Seq(Observation)
      BY <1>5, <3>1
    <3>3. Len(records'[cli.rule]) \in Nat
      BY <3>2
    <3>4. cli.before \in Nat /\ cli.record \in Nat
      BY <3>1 DEF ATest
    <3> QED BY <1>5, <3>1, <3>3, <3>4
  <2>2. cli # NoTest => cli.before <= Len(records'[cli.rule])
                        /\ cli.record <= Len(records'[cli.rule])
    BY <2>1 DEF TestFits
  <2>3. cli # NoTest => \A e \in ToSet(cli.pending) : e.record \in DOMAIN records'[e.rule]
    BY <1>5, <2>1 DEF TestFits
  <2> QED BY <1>1, <2>2, <2>3 DEF TestFits
<1>17. RacesFit'
  BY <1>1, <1>15 DEF RacesFit, r
<1> QED BY <1>8, <1>9, <1>10, <1>11, <1>12, <1>13, <1>14, <1>16, <1>17

LEMMA StoreEventInv == MonitoringInv /\ StoreEvent => MonitoringInv'
<1> SUFFICES ASSUME MonitoringInv, StoreEvent PROVE MonitoringInv'
  OBVIOUS
<1> USE MonitoringAssumption DEF MonitoringInv
<1> DEFINE e == Head(pending)
<1>1. /\ phase = "storing" /\ pending # <<>> /\ todo # {}
      /\ event' = event \union {e}
      /\ found' = [found EXCEPT ![e.rule] = @ \union {e}]
      /\ pending' = Tail(pending)
      /\ todo' = IF pending' = <<>> THEN todo \ {First(todo)} ELSE todo
      /\ UNCHANGED <<rule, records, queued, copy, held, backoff, phase, now, due, reply,
                     before, changed, raced, cut, restUntil, relapsed, cli, edits, tests,
                     deaths, clock>>
  BY DEF StoreEvent, session, history, stored, command, PendingFits
<1>2. First(todo) \in todo /\ todo \subseteq due /\ due \subseteq Rule
  <2>1. todo \in SUBSET Rule /\ todo # {} /\ todo \subseteq due /\ due \subseteq Rule
    BY <1>1 DEF MTypes
  <2> QED BY <2>1, FirstIs
<1>3. /\ e \in Change /\ pending' \in Seq(Change)
      /\ ToSet(pending) = {e} \union ToSet(pending')
  BY <1>1, HeadAndTail DEF MTypes
<1> HIDE DEF e
<1>4. e.rule = First(todo) /\ e.rule \in Rule /\ e.record \in DOMAIN records[e.rule]
  BY <1>2, <1>3 DEF PendingFits
<1>5. e \in AnEvent
  BY <1>3 DEF Change, AnEvent, EventType
<1>6. records[First(todo)] # <<>>
  <2>1. records[e.rule] \in Seq(Observation) /\ DOMAIN records[e.rule] # {}
    BY <1>4 DEF MTypes
  <2> QED BY <1>4, <2>1
<1>7. MTypes'
  <2>1. found' \in [Rule -> SUBSET event']
    <3>1. found \in [Rule -> SUBSET event]
      BY DEF MTypes
    <3>2. \A q \in Rule : found'[q] \subseteq found[q] \union {e}
      BY <1>1, <3>1
    <3>3. \A q \in Rule : found'[q] \in SUBSET event'
      BY <1>1, <3>1, <3>2
    <3>4. found' \in [Rule -> SUBSET (event \union {e})]
      BY <1>1, <3>1
    <3> QED BY <1>1, <3>4
  <2>2. todo' \subseteq due /\ event' \subseteq AnEvent
    BY <1>1, <1>2, <1>5 DEF MTypes
  <2>3. cli' # NoTest => cli' \in ATest
    BY <1>1 DEF MTypes
  <2> QED BY <1>1, <1>3, <2>1, <2>2, <2>3 DEF MTypes
<1>8. RowsFit'
  <2>1. \A q \in Rule : \A f \in found'[q] : f.rule = q
    <3>1. \A q \in Rule : found'[q] \subseteq found[q] \union {e}
                          /\ (q # e.rule => found'[q] = found[q])
      BY <1>1, <1>4 DEF MTypes
    <3> QED BY <3>1 DEF RowsFit
  <2> QED BY <1>1, <1>4, <2>1 DEF RowsFit
<1>9. BlocksFit' /\ RestsFit' /\ TiersFit'
  BY <1>1 DEF BlocksFit, RestsFit, TiersFit
<1>10. TickFits'
  <2>1. ASSUME NEW q \in due, reply[q] \in Answers,
               q \notin todo' \/ (pending' # <<>> /\ q = First(todo'))
        PROVE  records[q] # <<>>
    <3>1. q = First(todo) \/ q \notin todo
      BY <1>1, <2>1
    <3> QED BY <1>1, <1>6, <2>1, <3>1 DEF TickFits
  <2>2. \A q \in todo' : reply[q] \in Answers
    BY <1>1 DEF TickFits
  <2> QED BY <1>1, <2>1, <2>2 DEF TickFits
<1>11. PendingFits'
  <2>1. \A f \in ToSet(pending') : pending' # <<>>
    BY EmptyToSet
  <2> QED BY <1>1, <1>3, <2>1 DEF PendingFits
<1>12. ChangesFit'
  <2>1. event' \union ToSet(pending') = event \union ToSet(pending)
    BY <1>1, <1>3
  <2> QED BY <1>1, <2>1 DEF ChangesFit
<1>13. TestFits' /\ RacesFit'
  BY <1>1, TestStays
<1> QED BY <1>7, <1>8, <1>9, <1>10, <1>11, <1>12, <1>13

\* A failure blocks for the pause it counts up to, and for what was asked.
LEMMA AfterFailureIs ==
  ASSUME MTypes, NEW m \in Merchant, NEW error \in Errors
  PROVE  LET b == AfterFailure(backoff[m], error) IN
         /\ b \in [failures : Nat, until : Nat]
         /\ error.kind = "retryable" =>
              /\ b.failures # 0
              /\ \/ b.until <= now + MaxBackoff
                 \/ \E after \in RetryAfter : b.until <= now + after
              /\ b.until >= now + (IF error.after > BaseBackoff THEN error.after
                                                                ELSE BaseBackoff)
         /\ error.kind # "retryable" => b = backoff[m]
<1> USE MonitoringAssumption
<1>1. backoff[m] \in [failures : Nat, until : Nat] /\ now \in Nat
  BY DEF MTypes
<1>2. CASE error.kind # "retryable"
  BY <1>1, <1>2 DEF AfterFailure
<1>3. CASE error.kind = "retryable"
  <2>1. error.after \in RetryAfter /\ error.after \in Nat
    BY <1>3 DEF Errors
  <2> DEFINE n == backoff[m].failures + 1
             delay == IF error.after > Delay(n) THEN error.after ELSE Delay(n)
  <2>2. n \in Nat /\ n # 0
    BY <1>1
  <2>3. AfterFailure(backoff[m], error) = [failures |-> n, until |-> now + delay]
    BY <1>3 DEF AfterFailure
  <2> HIDE DEF n
  <2>4. Delay(n) \in Nat /\ BaseBackoff <= Delay(n) /\ Delay(n) <= MaxBackoff
    BY <2>2, DelayIs
  <2>5. now + delay <= now + MaxBackoff \/ now + delay <= now + error.after
    BY <1>1, <2>1, <2>4
  <2>6. now + delay >= now + (IF error.after > BaseBackoff THEN error.after ELSE BaseBackoff)
    BY <1>1, <2>1, <2>4
  <2>7. now + delay \in Nat
    BY <1>1, <2>1, <2>4
  <2> HIDE DEF delay
  <2> QED BY <1>3, <2>1, <2>2, <2>3, <2>5, <2>6, <2>7
<1> QED BY <1>2, <1>3

LEMMA ReconcileInv == MonitoringInv /\ Reconcile => MonitoringInv'
<1> SUFFICES ASSUME MonitoringInv, Reconcile PROVE MonitoringInv'
  OBVIOUS
<1> USE MonitoringAssumption DEF MonitoringInv
<1>1. /\ phase = "storing" /\ todo = {} /\ phase' = "notifying"
      /\ backoff' = [m \in Merchant |-> Reconciled(m)]
      /\ restUntil' = [m \in Merchant |-> Rest(m)]
      /\ todo' = {r \in due : Seen(r)}
      /\ UNCHANGED <<rule, records, event, queued, copy, held, now, due, reply, before,
                     pending, found, changed, raced, cut, relapsed, cli, edits, tests,
                     deaths, clock>>
  BY DEF Reconcile, tables, session, stored, command
<1>2. now \in Nat /\ now <= clock /\ clock \in Nat /\ due \subseteq Rule
  BY DEF MTypes
<1>3. ASSUME NEW m \in Merchant, ErrorsOf(m) # {}
      PROVE  First(ErrorsOf(m)) \in due /\ reply[First(ErrorsOf(m))] \in Errors
  <2>1. ErrorsOf(m) \in SUBSET Rule /\ \A r \in ErrorsOf(m) : r \in due /\ reply[r] \in Errors
    BY <1>2 DEF ErrorsOf, ChecksOf, Failed
  <2> QED BY <1>3, <2>1, FirstIs
<1>4. ASSUME NEW m \in Merchant
      PROVE  /\ Reconciled(m) \in [failures : Nat, until : Nat] /\ Rest(m) \in Nat
             /\ Reconciled(m).failures = 0 => Reconciled(m).until = 0
             /\ \/ Reconciled(m).until <= clock + MaxBackoff
                \/ \E after \in RetryAfter : Reconciled(m).until <= clock + after
             /\ Rest(m) <= clock \/ Rest(m) <= Reconciled(m).until
  <2>1. /\ backoff[m] \in [failures : Nat, until : Nat] /\ restUntil[m] \in Nat
        /\ backoff[m].failures = 0 => backoff[m].until = 0
        /\ \/ backoff[m].until <= clock + MaxBackoff
           \/ \E after \in RetryAfter : backoff[m].until <= clock + after
        /\ restUntil[m] <= clock \/ restUntil[m] <= backoff[m].until
    BY DEF MTypes, BlocksFit, RestsFit
  <2>2. CASE ErrorsOf(m) # {}
    <3> DEFINE error == reply[First(ErrorsOf(m))]
               b == AfterFailure(backoff[m], error)
    <3>1. error \in Errors
      BY <1>3, <2>2
    <3>2. Reconciled(m) = b
      BY <2>2 DEF Reconciled
    <3>3. Rest(m) = IF error.kind = "retryable"
                    THEN now + (IF error.after > BaseBackoff THEN error.after ELSE BaseBackoff)
                    ELSE restUntil[m]
      BY <2>2 DEF Rest
    <3> HIDE DEF error
    <3>4. /\ b \in [failures : Nat, until : Nat]
          /\ error.kind = "retryable" =>
               /\ b.failures # 0
               /\ \/ b.until <= now + MaxBackoff
                  \/ \E after \in RetryAfter : b.until <= now + after
               /\ b.until >= now + (IF error.after > BaseBackoff THEN error.after
                                                                 ELSE BaseBackoff)
          /\ error.kind # "retryable" => b = backoff[m]
      BY <3>1, AfterFailureIs
    <3> HIDE DEF b
    <3>5. CASE error.kind # "retryable"
      BY <2>1, <3>2, <3>3, <3>4, <3>5
    <3>6. CASE error.kind = "retryable"
      <4>1. error.after \in Nat
        BY <3>1, <3>6 DEF Errors
      <4>2. Rest(m) = now + (IF error.after > BaseBackoff THEN error.after ELSE BaseBackoff)
        BY <3>3, <3>6
      <4>3. b.until \in Nat
        BY <3>4
      <4>4. \/ b.until <= clock + MaxBackoff
            \/ \E after \in RetryAfter : b.until <= clock + after
        <5>1. CASE b.until <= now + MaxBackoff
          BY <1>2, <4>3, <5>1
        <5>2. ASSUME NEW after \in RetryAfter, b.until <= now + after
              PROVE  b.until <= clock + after
          BY <1>2, <4>3, <5>2
        <5> QED BY <3>4, <3>6, <5>1, <5>2
      <4>5. Rest(m) \in Nat /\ Rest(m) <= b.until
        BY <1>2, <3>4, <3>6, <4>1, <4>2, <4>3
      <4> QED BY <3>2, <3>4, <3>6, <4>4, <4>5
    <3> QED BY <3>5, <3>6
  <2>3. CASE ErrorsOf(m) = {} /\ ChecksOf(m) = {}
    BY <2>1, <2>3 DEF Reconciled, Rest
  <2>4. CASE ErrorsOf(m) = {} /\ ChecksOf(m) # {}
    <3>1. Reconciled(m) = NoBackoff /\ Rest(m) = restUntil[m]
      BY <2>4 DEF Reconciled, Rest, AfterSuccess
    <3>2. PICK r \in due : MerchantOf[r] = m
      BY <2>4 DEF ChecksOf
    <3>3. restUntil[m] <= clock
      BY <1>1, <3>2 DEF RestsFit
    <3> QED BY <1>2, <2>1, <3>1, <3>3 DEF NoBackoff
  <2> QED BY <2>2, <2>3, <2>4
<1>5. MTypes'
  <2>1. /\ backoff' \in [Merchant -> [failures : Nat, until : Nat]]
        /\ restUntil' \in [Merchant -> Nat] /\ todo' \subseteq due
    BY <1>1, <1>4
  <2> QED BY <1>1, <2>1 DEF MTypes
<1>6. RowsFit' /\ ChangesFit'
  BY <1>1 DEF RowsFit, ChangesFit
<1>7. BlocksFit'
  BY <1>1, <1>4 DEF BlocksFit
<1>8. TickFits'
  BY <1>1 DEF TickFits, Seen
<1>9. PendingFits' /\ TestFits' /\ RacesFit'
  <2>1. pending = <<>>
    BY <1>1 DEF PendingFits
  <2> QED BY <1>1, <2>1, EmptyToSet, TestStays DEF PendingFits
<1>10. RestsFit'
  BY <1>1, <1>4 DEF RestsFit
<1>11. TiersFit'
  BY <1>1 DEF TiersFit
<1> QED BY <1>5, <1>6, <1>7, <1>8, <1>9, <1>10, <1>11

\* While nothing is being stored, nothing is pending.
LEMMA NothingPending ==
  ASSUME MonitoringInv, phase # "storing", pending' = pending
  PROVE  pending = <<>> /\ PendingFits'
<1>1. pending = <<>>
  BY DEF MonitoringInv, PendingFits
<1> QED BY <1>1, EmptyToSet DEF PendingFits

LEMMA NotifyInv == MonitoringInv /\ (NotifyChanges \/ NoEvaluation) => MonitoringInv'
<1> SUFFICES ASSUME MonitoringInv, NotifyChanges \/ NoEvaluation PROVE MonitoringInv'
  OBVIOUS
<1> USE MonitoringAssumption DEF MonitoringInv
<1> DEFINE r == First(todo)
<1>1. /\ phase = "notifying" /\ todo # {}
      /\ \/ phase' = "lookup" /\ todo' = todo
         \/ phase' = "notifying" /\ todo' = todo \ {r}
      /\ copy' = Loaded(r) \/ copy' = copy
      /\ UNCHANGED <<rule, records, event, queued, held, now, due, reply, before, pending,
                     found, backoff, changed, raced, cut, restUntil, relapsed, cli, edits,
                     tests, deaths, clock>>
  BY DEF NotifyChanges, NoEvaluation, Advance, tables, session, history, stored, command
<1>2. r \in todo /\ r \in Rule /\ todo \subseteq due
  <2>1. todo \in SUBSET Rule /\ todo # {} /\ todo \subseteq due
    BY <1>1 DEF MTypes
  <2> QED BY <2>1, FirstIs
<1> HIDE DEF r
<1>4. MTypes'
  <2>1. copy' \in [Rule -> RuleRow \union {NoCopy}]
    <3>1. Loaded(r) \in [Rule -> RuleRow \union {NoCopy}]
      BY <1>2, LoadedIs
    <3> QED BY <1>1, <3>1 DEF MTypes
  <2> QED BY <1>1, <1>2, <2>1 DEF MTypes
<1>5. RowsFit' /\ BlocksFit' /\ ChangesFit' /\ RestsFit'
  BY <1>1 DEF RowsFit, BlocksFit, ChangesFit, RestsFit
<1>6. TickFits'
  BY <1>1 DEF TickFits
<1>7. PendingFits' /\ TestFits' /\ RacesFit'
  BY <1>1, NothingPending, TestStays
<1>8. TiersFit'
  <2>1. \A q \in Rule \ relapsed : copy'[q] = NoCopy \/ copy'[q].tier = "high"
    BY <1>1, <1>2 DEF MTypes, TiersFit, View, Loaded
  <2> QED BY <1>1, <2>1 DEF TiersFit
<1> QED BY <1>4, <1>5, <1>6, <1>7, <1>8

LEMMA AlertChangesInv == MonitoringInv /\ AlertChanges => MonitoringInv'
<1> SUFFICES ASSUME MonitoringInv, AlertChanges PROVE MonitoringInv'
  OBVIOUS
<1> USE MonitoringAssumption DEF MonitoringInv
<1> DEFINE r == First(todo)
<1>1. /\ phase = "lookup" /\ phase' = "notifying" /\ todo' = todo \ {r}
      /\ copy' = Loaded(r)
      /\ \E sent \in SUBSET found[r], attempt \in SUBSET {r} :
           queued' = queued \union sent /\ held' = held \union attempt
      /\ UNCHANGED <<rule, records, event, now, due, reply, before, pending, found, backoff,
                     changed, raced, cut, restUntil, relapsed, cli, edits, tests, deaths,
                     clock>>
  BY DEF AlertChanges, Advance, stored, command
<1>2. r \in todo /\ r \in Rule /\ todo \subseteq due
  <2>1. todo \in SUBSET Rule /\ todo # {} /\ todo \subseteq due
    BY <1>1 DEF MTypes, TickFits
  <2> QED BY <2>1, FirstIs
<1>3. /\ queued \subseteq queued' /\ queued' \subseteq queued \union event
      /\ held' \subseteq held \union {r}
  <2>1. found[r] \subseteq event
    BY <1>2 DEF MTypes
  <2> QED BY <1>1, <2>1
<1> HIDE DEF r
<1>4. MTypes'
  <2>1. copy' \in [Rule -> RuleRow \union {NoCopy}]
    BY <1>1, <1>2, LoadedIs
  <2> QED BY <1>1, <1>2, <1>3, <2>1 DEF MTypes
<1>5. RowsFit' /\ BlocksFit' /\ ChangesFit' /\ RestsFit'
  BY <1>1, <1>3 DEF RowsFit, BlocksFit, ChangesFit, RestsFit
<1>6. TickFits'
  BY <1>1 DEF TickFits
<1>7. PendingFits' /\ TestFits' /\ RacesFit'
  BY <1>1, NothingPending, TestStays
<1>8. TiersFit'
  <2>1. \A q \in Rule \ relapsed : copy'[q] = NoCopy \/ copy'[q].tier = "high"
    BY <1>1, <1>2 DEF MTypes, TiersFit, View, Loaded
  <2> QED BY <1>1, <2>1 DEF TiersFit
<1> QED BY <1>4, <1>5, <1>6, <1>7, <1>8

LEMMA RecordTierInv == MonitoringInv /\ RecordTier => MonitoringInv'
<1> SUFFICES ASSUME MonitoringInv, RecordTier PROVE MonitoringInv'
  OBVIOUS
<1> USE MonitoringAssumption DEF MonitoringInv
<1> DEFINE r == First(todo)
<1>1. PICK new \in {"low", "high"} :
        /\ phase = "notifying" /\ todo # {}
        /\ rule' = [rule EXCEPT ![r].tier = new]
        /\ copy' = [copy EXCEPT ![r] = rule'[r]]
        /\ relapsed' = IF new \in Notifiable THEN relapsed ELSE relapsed \union {r}
        /\ IF new \in Notifiable /\ View(r).tier \notin Notifiable
           THEN phase' = "shifting" /\ todo' = todo
           ELSE phase' = phase /\ todo' = todo \ {r}
        /\ UNCHANGED <<records, event, queued, held, backoff, now, due, reply, before,
                       pending, found, changed, raced, cut, restUntil, cli, edits, tests,
                       deaths, clock>>
  BY DEF RecordTier, TierToKeep, stored, command
<1>2. r \in todo /\ r \in Rule /\ todo \subseteq due
  <2>1. todo \in SUBSET Rule /\ todo # {} /\ todo \subseteq due
    BY <1>1 DEF MTypes
  <2> QED BY <2>1, FirstIs
<1>3. /\ rule' \in [Rule -> RuleRow]
      /\ rule'[r].tier = new /\ rule'[r].target = rule[r].target /\ rule'[r].max = rule[r].max
      /\ \A q \in Rule : q # r => rule'[q] = rule[q]
      /\ copy' \in [Rule -> RuleRow \union {NoCopy}] /\ copy'[r] = rule'[r]
      /\ \A q \in Rule : q # r => copy'[q] = copy[q]
  <2>1. rule \in [Rule -> RuleRow] /\ copy \in [Rule -> RuleRow \union {NoCopy}]
    BY DEF MTypes
  <2> HIDE DEF r
  <2>2. /\ rule' \in [Rule -> RuleRow]
        /\ rule'[r].tier = new /\ rule'[r].target = rule[r].target
        /\ rule'[r].max = rule[r].max
        /\ \A q \in Rule : q # r => rule'[q] = rule[q]
    <3>1. rule[r] \in RuleRow /\ new \in Tier
      BY <1>2, <2>1 DEF Tier
    <3> DEFINE row == [rule[r] EXCEPT !.tier = new]
    <3>2. rule' = [rule EXCEPT ![r] = row]
      BY <1>1
    <3>3. /\ row \in RuleRow /\ row.tier = new
          /\ row.target = rule[r].target /\ row.max = rule[r].max
      BY <3>1 DEF RuleRow
    <3> HIDE DEF row
    <3> QED BY <1>2, <2>1, <3>2, <3>3
  <2> QED BY <1>1, <1>2, <2>1, <2>2
<1>4. /\ phase' = "notifying" \/ (phase' = "shifting" /\ todo' = todo /\ new = "high"
                                  /\ View(r).tier # "high")
      /\ todo' \subseteq todo /\ relapsed \subseteq relapsed' /\ relapsed' \subseteq relapsed \union {r}
      /\ r \in relapsed' \/ new = "high"
  BY <1>1 DEF Notifiable
<1>5. MTypes'
  <2>1. \A q \in Rule : rule'[q].target # 0 /\ rule'[q].max # 0
                          => rule'[q].target <= rule'[q].max
    BY <1>3 DEF MTypes
  <2> QED BY <1>1, <1>2, <1>3, <1>4, <2>1 DEF MTypes
<1>6. RowsFit' /\ BlocksFit' /\ ChangesFit' /\ RestsFit'
  BY <1>1, <1>4 DEF RowsFit, BlocksFit, ChangesFit, RestsFit
<1>7. TickFits'
  BY <1>1, <1>4 DEF TickFits
<1>8. PendingFits' /\ TestFits' /\ RacesFit'
  BY <1>1, <1>4, NothingPending, TestStays
<1>9. TiersFit'
  <2>1. ASSUME NEW q \in Rule \ relapsed'
        PROVE  rule'[q].tier = "high" /\ (copy'[q] = NoCopy \/ copy'[q].tier = "high")
    <3>1. CASE q = r
      BY <1>3, <1>4, <2>1, <3>1
    <3>2. CASE q # r
      BY <1>3, <1>4, <2>1, <3>2 DEF TiersFit
    <3> QED BY <3>1, <3>2
  <2>2. ASSUME phase' = "shifting"
        PROVE  /\ First(todo') \in relapsed' /\ rule'[First(todo')].tier = "high"
               /\ copy'[First(todo')] = NoCopy \/ copy'[First(todo')].tier = "high"
    <3>1. First(todo') = r /\ new = "high" /\ View(r).tier # "high"
      BY <1>4, <2>2
    <3>2. r \in relapsed
      BY <1>2, <3>1 DEF TiersFit, View
    <3> QED BY <1>3, <1>4, <3>1, <3>2
  <2> QED BY <2>1, <2>2 DEF TiersFit
<1> QED BY <1>5, <1>6, <1>7, <1>8, <1>9

LEMMA AlertShiftInv == MonitoringInv /\ AlertShift => MonitoringInv'
<1> SUFFICES ASSUME MonitoringInv, AlertShift PROVE MonitoringInv'
  OBVIOUS
<1> USE MonitoringAssumption DEF MonitoringInv
<1> DEFINE r == First(todo)
           e == [type |-> "opportunity_score_improved", rule |-> r,
                 record |-> Latest(records[r])]
<1>1. /\ phase = "shifting" /\ phase' = "notifying" /\ todo' = todo \ {r} /\ held' = held
      /\ UNCHANGED <<rule, records, now, due, reply, before, pending, found, backoff,
                     changed, raced, cut, restUntil, cli, edits, tests, deaths, clock>>
      /\ \/ e \in event /\ copy' = [q \in Rule |-> NoCopy]
            /\ UNCHANGED <<event, queued, relapsed>>
         \/ /\ event' = event \union {e} /\ queued' = queued \union {e}
            /\ relapsed' = relapsed \ {r} /\ copy' = copy
  BY DEF AlertShift, Advance, stored, command
<1>2. todo # {} /\ r \in todo /\ r \in Rule /\ todo \subseteq due
  <2>1. todo \in SUBSET Rule /\ todo # {} /\ todo \subseteq due
    BY <1>1 DEF MTypes, TickFits
  <2> QED BY <2>1, FirstIs
<1> HIDE DEF r
<1>3. Latest(records[r]) \in DOMAIN records[r] /\ Latest(records[r]) \in Nat
  <2>1. records[r] \in Seq(Observation) /\ records[r] # <<>>
    BY <1>1, <1>2 DEF MTypes, TickFits
  <2>2. Latest(records[r]) \in 1..Len(records[r])
    BY <2>1, LatestIs
  <2> QED BY <2>1, <2>2
<1>4. e \in AnEvent /\ e.rule = r /\ e.record \in DOMAIN records[r]
  BY <1>2, <1>3 DEF AnEvent, EventType
<1> HIDE DEF e
<1>5. MTypes'
  <2>1. event' \subseteq AnEvent /\ event \subseteq event' /\ relapsed' \subseteq relapsed
    BY <1>1, <1>4 DEF MTypes
  <2>2. copy' \in [Rule -> RuleRow \union {NoCopy}]
    BY <1>1 DEF MTypes
  <2>3. found' \in [Rule -> SUBSET event']
    BY <1>1, <2>1 DEF MTypes
  <2> QED BY <1>1, <1>2, <2>1, <2>2, <2>3 DEF MTypes
<1>6. RowsFit'
  BY <1>1, <1>4 DEF RowsFit
<1>7. BlocksFit' /\ ChangesFit' /\ RestsFit'
  BY <1>1 DEF BlocksFit, ChangesFit, RestsFit
<1>8. TickFits'
  BY <1>1 DEF TickFits
<1>9. PendingFits' /\ TestFits' /\ RacesFit'
  BY <1>1, NothingPending, TestStays
<1>10. TiersFit'
  BY <1>1, <1>2 DEF TiersFit, r
<1> QED BY <1>5, <1>6, <1>7, <1>8, <1>9, <1>10

LEMMA EndTickInv == MonitoringInv /\ EndTick => MonitoringInv'
<1> SUFFICES ASSUME MonitoringInv, EndTick PROVE MonitoringInv'
  OBVIOUS
<1> USE MonitoringAssumption DEF MonitoringInv
<1> USE DEF EndTick, tables, history, stored, command
<1>1. MTypes'
  <2>1. /\ copy' \in [Rule -> RuleRow \union {NoCopy}] /\ reply' \in [Rule -> Reply]
        /\ found' \in [Rule -> SUBSET event'] /\ now' \in Nat /\ now' <= clock'
    BY DEF MTypes, Reply
  <2> QED BY <2>1 DEF MTypes
<1>2. RowsFit' /\ BlocksFit' /\ ChangesFit'
  BY DEF RowsFit, BlocksFit, ChangesFit
<1>3. TickFits' /\ RestsFit' /\ TiersFit'
  BY DEF TickFits, RestsFit, TiersFit
<1>4. PendingFits' /\ TestFits' /\ RacesFit'
  BY NothingPending, TestStays
<1> QED BY <1>1, <1>2, <1>3, <1>4

\* A step that touches but what is held, sent and loaded: copies of rules are dropped
\* or loaded.
LEMMA SessionStepInv ==
  ASSUME MonitoringInv, copy' \in [Rule -> RuleRow \union {NoCopy}],
         \A r \in Rule : copy'[r] \in {copy[r], View(r), NoCopy},
         held' \subseteq Rule, queued \subseteq queued', queued' \subseteq event,
         UNCHANGED <<rule, records, event, backoff, tick, history, command, deaths, clock>>
  PROVE  MonitoringInv'
<1> USE MonitoringAssumption DEF MonitoringInv
<1> USE DEF tick, history, stored, command
<1>1. MTypes'
  BY DEF MTypes
<1>2. RowsFit' /\ BlocksFit' /\ ChangesFit'
  BY DEF RowsFit, BlocksFit, ChangesFit
<1>3. TickFits' /\ RestsFit' /\ PendingFits' /\ TestFits' /\ RacesFit'
  BY TestStays DEF TickFits, RestsFit, PendingFits
<1>4. TiersFit'
  <2>1. ASSUME NEW r \in Rule, rule[r].tier = "high", copy[r] = NoCopy \/ copy[r].tier = "high"
        PROVE  copy'[r] = NoCopy \/ copy'[r].tier = "high"
    BY <2>1 DEF View
  <2>2. phase = "shifting" => First(todo) \in Rule
    <3>1. phase = "shifting" => todo \in SUBSET Rule /\ todo # {}
      BY DEF MTypes, TickFits
    <3> QED BY <3>1, FirstIs
  <2> QED BY <2>1, <2>2 DEF TiersFit
<1> QED BY <1>1, <1>2, <1>3, <1>4

LEMMA RecoveryInv ==
  MonitoringInv /\ (ExpireAll \/ \E e \in event : Backfill(e)) => MonitoringInv'
<1> SUFFICES ASSUME MonitoringInv, ExpireAll \/ \E e \in event : Backfill(e)
             PROVE  MonitoringInv'
  OBVIOUS
<1> USE MonitoringAssumption DEF MonitoringInv
<1>1. CASE ExpireAll
  <2>1. copy' = [r \in Rule |-> NoCopy] /\ UNCHANGED <<held, queued>>
        /\ UNCHANGED <<rule, records, event, backoff, tick, history, command, deaths, clock>>
    BY <1>1 DEF ExpireAll, tables
  <2>2. held \subseteq Rule /\ queued \subseteq event
    BY DEF MTypes, RowsFit
  <2> QED BY <2>1, <2>2, SessionStepInv
<1>2. ASSUME NEW e \in event, Backfill(e) PROVE MonitoringInv'
  <2>1. e.rule \in Rule
    BY DEF MTypes, AnEvent
  <2>2. /\ queued' = queued \union {e} /\ held' = held
        /\ copy' = IF e.rule \in held \union due THEN Loaded(e.rule) ELSE copy
        /\ UNCHANGED <<rule, records, event, backoff, tick, history, command, deaths, clock>>
    BY <1>2 DEF Backfill
  <2>3. held \subseteq Rule /\ queued \subseteq event /\ copy \in [Rule -> RuleRow \union {NoCopy}]
    BY DEF MTypes, RowsFit
  <2>4. Loaded(e.rule) \in [Rule -> RuleRow \union {NoCopy}]
        /\ \A r \in Rule : Loaded(e.rule)[r] \in {copy[r], View(r)}
    BY <2>1, <2>3, LoadedIs DEF Loaded
  <2>5. copy' \in [Rule -> RuleRow \union {NoCopy}]
        /\ \A r \in Rule : copy'[r] \in {copy[r], View(r), NoCopy}
    BY <2>2, <2>3, <2>4
  <2> QED BY <2>2, <2>3, <2>5, SessionStepInv
<1> QED BY <1>1, <1>2

LEMMA PurchaseInv ==
  MonitoringInv /\ (\E r \in Rule : PurchaseReads(r) \/ PurchaseEnds(r)) => MonitoringInv'
<1> SUFFICES ASSUME MonitoringInv, NEW r \in Rule, PurchaseReads(r) \/ PurchaseEnds(r)
             PROVE  MonitoringInv'
  OBVIOUS
<1> USE MonitoringAssumption DEF MonitoringInv
<1>1. held \subseteq Rule /\ queued \subseteq event /\ copy \in [Rule -> RuleRow \union {NoCopy}]
  BY DEF MTypes, RowsFit
<1>2. CASE PurchaseReads(r)
  <2>1. copy' = Loaded(r) /\ UNCHANGED <<held, queued>>
        /\ UNCHANGED <<rule, records, event, backoff, tick, history, command, deaths, clock>>
    BY <1>2 DEF PurchaseReads, tables
  <2>2. copy' \in [Rule -> RuleRow \union {NoCopy}]
        /\ \A q \in Rule : copy'[q] \in {copy[q], View(q), NoCopy}
    BY <1>1, <2>1, LoadedIs DEF Loaded
  <2> QED BY <1>1, <2>1, <2>2, SessionStepInv
<1>3. CASE PurchaseEnds(r)
  <2>1. /\ copy' = IF r \in due THEN copy ELSE [copy EXCEPT ![r] = NoCopy]
        /\ held' = held \ {r} /\ queued' = queued
        /\ UNCHANGED <<rule, records, event, backoff, tick, history, command, deaths, clock>>
    BY <1>3 DEF PurchaseEnds, tables
  <2>2. copy' \in [Rule -> RuleRow \union {NoCopy}]
        /\ \A q \in Rule : copy'[q] \in {copy[q], View(q), NoCopy}
    BY <1>1, <2>1
  <2> QED BY <1>1, <2>1, <2>2, SessionStepInv
<1> QED BY <1>2, <1>3

\* A death cuts off one change at most.
LEMMA CutIs ==
  ASSUME IsFiniteSet(cut), Cardinality(cut) <= deaths, deaths \in Nat, NEW list,
         \A e, f \in ToSet(list) : e.rule = f.rule /\ e.record = f.record
  PROVE  /\ IsFiniteSet(Cut(list)) /\ Cardinality(Cut(list)) <= deaths + 1
         /\ cut \subseteq Cut(list)
         /\ \A e \in ToSet(list) : <<e.rule, e.record>> \in Cut(list)
<1> DEFINE lost == {<<e.rule, e.record>> : e \in ToSet(list)}
<1>1. lost = {} \/ \E c : lost = {c}
  <2> SUFFICES ASSUME NEW e \in ToSet(list) PROVE lost = {<<e.rule, e.record>>}
    OBVIOUS
  <2> QED OBVIOUS
<1>2. Cut(list) = cut \union lost /\ \A e \in ToSet(list) : <<e.rule, e.record>> \in lost
  BY DEF Cut
<1>3. Cardinality(cut) \in Nat
  BY FS_CardinalityType
<1> HIDE DEF lost
<1>4. CASE lost = {}
  BY <1>2, <1>3, <1>4
<1>5. ASSUME NEW c, lost = {c} PROVE IsFiniteSet(Cut(list)) /\ Cardinality(Cut(list)) <= deaths + 1
  <2>1. IsFiniteSet(cut \union {c})
        /\ Cardinality(cut \union {c}) \in {Cardinality(cut), Cardinality(cut) + 1}
    BY FS_AddElement
  <2> QED BY <1>2, <1>3, <1>5, <2>1
<1> QED BY <1>1, <1>2, <1>4, <1>5

LEMMA DieInv == MonitoringInv /\ Die => MonitoringInv'
<1> SUFFICES ASSUME MonitoringInv, Die PROVE MonitoringInv'
  OBVIOUS
<1> USE MonitoringAssumption DEF MonitoringInv
<1>1. /\ deaths' = deaths + 1 /\ phase' = "down" /\ due' = {} /\ todo' = {}
      /\ before' = 0 /\ pending' = <<>> /\ now' = 0
      /\ reply' = [r \in Rule |-> NoReply] /\ found' = [r \in Rule |-> {}]
      /\ copy' = [r \in Rule |-> NoCopy] /\ held' = {}
      /\ backoff' = [m \in Merchant |-> NoBackoff]
      /\ restUntil' = [m \in Merchant |-> 0]
      /\ cut' = Cut(pending)
      /\ UNCHANGED <<rule, records, event, queued, changed, raced, relapsed, cli, edits,
                     tests, clock>>
  BY DEF Die, tables, stored, command
<1>2. MTypes'
  BY <1>1 DEF MTypes, Reply, NoBackoff
<1>3. RowsFit' /\ BlocksFit'
  BY <1>1 DEF RowsFit, BlocksFit, NoBackoff, MTypes
<1>4. TickFits' /\ RestsFit' /\ TiersFit'
  BY <1>1 DEF TickFits, RestsFit, TiersFit, MTypes
<1>5. PendingFits' /\ TestFits' /\ RacesFit'
  BY <1>1, EmptyToSet, TestStays DEF PendingFits
<1>6. ChangesFit'
  <2>1. /\ IsFiniteSet(cut') /\ Cardinality(cut') <= deaths' /\ cut \subseteq cut'
        /\ \A e \in ToSet(pending) : <<e.rule, e.record>> \in cut'
    <3>1. \A e, f \in ToSet(pending) : e.rule = f.rule /\ e.record = f.record
      BY DEF PendingFits
    <3>2. IsFiniteSet(cut) /\ Cardinality(cut) <= deaths /\ deaths \in Nat
      BY DEF ChangesFit, MTypes
    <3> HIDE DEF MonitoringInv
    <3> QED BY <1>1, <3>1, <3>2, CutIs
  <2>2. ASSUME NEW c \in changed, c \notin cut',
               NEW e \in ToSet(pending), e.rule = c[1], e.record = c[2]
        PROVE  FALSE
    <3>1. c = <<c[1], c[2]>>
      BY DEF MTypes
    <3>2. c \in cut'
      BY <2>1, <2>2, <3>1
    <3> QED BY <2>2, <3>2
  <2> QED BY <1>1, <2>1, <2>2 DEF ChangesFit
<1> QED BY <1>2, <1>3, <1>4, <1>5, <1>6

LEMMA EditInv == MonitoringInv /\ (\E r \in Tested : Edit(r)) => MonitoringInv'
<1> SUFFICES ASSUME MonitoringInv, NEW r \in Tested, Edit(r) PROVE MonitoringInv'
  OBVIOUS
<1> USE MonitoringAssumption DEF MonitoringInv
<1>1. UNCHANGED <<records, event, queued, copy, held, backoff, phase, now, due, todo, reply,
                  before, pending, found, changed, raced, cut, restUntil, relapsed, cli,
                  tests, deaths, clock>>
  BY DEF Edit, session, tick, history, stored
<1>2. r \in Rule /\ rule \in [Rule -> RuleRow] /\ rule[r] \in RuleRow
  BY DEF MTypes
<1>3. /\ rule' \in [Rule -> RuleRow]
      /\ \A q \in Rule : rule'[q].tier = rule[q].tier
      /\ \A q \in Rule : rule'[q].target # 0 /\ rule'[q].max # 0
                           => rule'[q].target <= rule'[q].max
  <2>1. CASE rule' = [rule EXCEPT ![r].enabled = ~@]
    <3> DEFINE row == [rule[r] EXCEPT !.enabled = ~rule[r].enabled]
    <3>1. rule' = [rule EXCEPT ![r] = row]
      BY <2>1
    <3>2. row \in RuleRow /\ row.tier = rule[r].tier /\ row.target = rule[r].target
          /\ row.max = rule[r].max
      BY <1>2 DEF RuleRow
    <3> HIDE DEF row
    <3> QED BY <1>2, <3>1, <3>2 DEF MTypes
  <2>2. ASSUME NEW t \in Price \union {0}, NEW m \in Price \union {0},
               t # 0 /\ m # 0 => t <= m,
               rule' = [rule EXCEPT ![r].target = t, ![r].max = m]
        PROVE  /\ rule' \in [Rule -> RuleRow]
               /\ \A q \in Rule : rule'[q].tier = rule[q].tier
               /\ \A q \in Rule : rule'[q].target # 0 /\ rule'[q].max # 0
                                    => rule'[q].target <= rule'[q].max
    <3> DEFINE row == [rule[r] EXCEPT !.target = t, !.max = m]
    <3>1. rule' = [rule EXCEPT ![r] = row]
      BY <1>2, <2>2
    <3>2. row \in RuleRow /\ row.tier = rule[r].tier /\ row.target = t /\ row.max = m
      BY <1>2 DEF RuleRow
    <3> HIDE DEF row
    <3>3. /\ rule' \in [Rule -> RuleRow] /\ rule'[r] = row
          /\ \A q \in Rule : q # r => rule'[q] = rule[q]
      BY <1>2, <3>1, <3>2
    <3> QED BY <1>2, <2>2, <3>2, <3>3 DEF MTypes
  <2>3. rule[r].target \in Price \union {0} /\ rule[r].max \in Price \union {0}
    BY <1>2 DEF RuleRow
  <2>4. \/ rule' = [rule EXCEPT ![r].enabled = ~@]
        \/ \E t, m \in Price \union {0} :
             (t # 0 /\ m # 0 => t <= m) /\ rule' = [rule EXCEPT ![r].target = t, ![r].max = m]
    BY <2>3 DEF Edit
  <2> QED BY <2>1, <2>2, <2>4
<1>4. MTypes'
  BY <1>1, <1>3 DEF MTypes
<1>5. RowsFit' /\ BlocksFit' /\ ChangesFit' /\ RestsFit'
  BY <1>1 DEF RowsFit, BlocksFit, ChangesFit, RestsFit
<1>6. TickFits' /\ PendingFits' /\ TestFits' /\ RacesFit'
  BY <1>1, TestStays DEF TickFits, PendingFits
<1>7. TiersFit'
  <2>1. phase = "shifting" => First(todo) \in Rule
    <3>1. phase = "shifting" => todo \in SUBSET Rule /\ todo # {}
      BY DEF MTypes, TickFits
    <3> QED BY <3>1, FirstIs
  <2> QED BY <1>1, <1>3, <2>1 DEF TiersFit
<1> QED BY <1>4, <1>5, <1>6, <1>7

\* What only the command line does leaves the tick as it is.
LEMMA TickStays ==
  ASSUME MonitoringInv,
         UNCHANGED <<rule, records, copy, held, backoff, phase, now, due, todo, reply, before,
                     pending, found, restUntil, relapsed, clock>>
  PROVE  BlocksFit' /\ TickFits' /\ PendingFits' /\ RestsFit' /\ TiersFit'
<1> USE DEF MonitoringInv
<1>1. BlocksFit' /\ TickFits'
  BY DEF BlocksFit, TickFits
<1>2. PendingFits' /\ RestsFit' /\ TiersFit'
  BY DEF PendingFits, RestsFit, TiersFit
<1> QED BY <1>1, <1>2

LEMMA TestStartsInv == MonitoringInv /\ (\E r \in Tested : TestStarts(r)) => MonitoringInv'
<1> SUFFICES ASSUME MonitoringInv, NEW r \in Tested, TestStarts(r) PROVE MonitoringInv'
  OBVIOUS
<1> USE MonitoringAssumption DEF MonitoringInv
<1>1. /\ cli = NoTest /\ tests' = tests + 1
      /\ cli' = [rule |-> r, view |-> rule[r], step |-> "checking", seen |-> Pending,
                 before |-> 0, pending |-> <<>>, record |-> 0]
      /\ UNCHANGED <<rule, records, event, queued, copy, held, backoff, phase, now, due, todo,
                     reply, before, pending, found, changed, raced, cut, restUntil, relapsed,
                     deaths, clock>>
  BY DEF TestStarts, tables, session, tick, history, stored
<1>2. r \in Rule /\ rule[r] \in RuleRow /\ <<>> \in Changes
  BY DEF MTypes, Changes
<1>3. cli' \in ATest /\ cli'.pending = <<>> /\ cli'.before = 0 /\ cli'.record = 0
      /\ cli'.step = "checking" /\ cli'.rule = r
  BY <1>1, <1>2 DEF ATest
<1>4. MTypes' /\ RowsFit'
  <2>1. tests' \in Nat
    BY <1>1 DEF MTypes
  <2> QED BY <1>1, <1>3, <2>1 DEF MTypes, RowsFit
<1>5. BlocksFit' /\ TickFits' /\ PendingFits' /\ RestsFit' /\ TiersFit'
  BY <1>1, TickStays
<1>6. TestFits'
  <2>1. Len(records[r]) \in Nat
    BY <1>2 DEF MTypes
  <2> QED BY <1>1, <1>3, <2>1, EmptyToSet DEF TestFits
<1>7. RacesFit'
  BY <1>1 DEF RacesFit, MTypes
<1>8. ChangesFit'
  <2>1. ToCommit(cli) = {} /\ ToCommit(cli') = {}
    BY <1>1, <1>3, EmptyToSet DEF ToCommit
  <2> QED BY <1>1, <2>1 DEF ChangesFit
<1> QED BY <1>4, <1>5, <1>6, <1>7, <1>8

LEMMA TestReadsInv == MonitoringInv /\ (TestReads \/ TestEnds) => MonitoringInv'
<1> SUFFICES ASSUME MonitoringInv, TestReads \/ TestEnds PROVE MonitoringInv'
  OBVIOUS
<1> USE MonitoringAssumption DEF MonitoringInv
<1>1. /\ cli # NoTest /\ cli.pending = <<>>
      /\ UNCHANGED <<rule, records, event, queued, copy, held, backoff, phase, now, due, todo,
                     reply, before, pending, found, changed, raced, cut, restUntil, relapsed,
                     tests, deaths, clock>>
  BY NoTestIsNone DEF TestReads, TestEnds, TestIs, TestFits, tables, session, tick, history, stored
<1>2. /\ cli \in ATest /\ cli.rule \in Rule /\ tests # 0
      /\ records[cli.rule] \in Seq(Observation) /\ Len(records[cli.rule]) \in Nat
  BY <1>1, TestIsOne
<1>3. cli' # NoTest =>
        /\ cli' \in ATest /\ cli'.rule = cli.rule /\ cli'.pending = <<>>
        /\ cli'.seen \in Answers
        /\ cli'.before = LatestOf(records[cli.rule]) /\ cli'.record = cli.record
  <2> SUFFICES ASSUME cli' # NoTest
               PROVE  /\ cli' \in ATest /\ cli'.rule = cli.rule /\ cli'.pending = <<>>
                      /\ cli'.seen \in Answers
                      /\ cli'.before = LatestOf(records[cli.rule]) /\ cli'.record = cli.record
    OBVIOUS
  <2>1. PICK o \in Offer[cli.rule] :
          cli' = [cli EXCEPT !.step = "inserting", !.seen = Shown(o, clock),
                             !.before = LatestOf(records[cli.rule])]
    BY DEF TestReads, TestEnds
  <2>2. Shown(o, clock) \in Answers
    <3>1. o \in [available : BOOLEAN, price : Price, matched : BOOLEAN]
      BY <1>2
    <3> QED BY <3>1 DEF Shown, Answers, MTypes
  <2>3. LatestOf(records[cli.rule]) \in Nat
    BY <1>2, LatestOfIs
  <2> QED BY <1>1, <1>2, <2>1, <2>2, <2>3 DEF ATest
<1>4. MTypes' /\ RowsFit'
  BY <1>1, <1>3 DEF MTypes, RowsFit
<1>5. BlocksFit' /\ TickFits' /\ PendingFits' /\ RestsFit' /\ TiersFit'
  BY <1>1, TickStays
<1>6. TestFits'
  <2>1. LatestOf(records[cli.rule]) <= Len(records[cli.rule])
    BY <1>2, LatestOfIs
  <2> QED BY <1>1, <1>3, <2>1, EmptyToSet DEF TestFits
<1>7. RacesFit'
  BY <1>1, <1>2 DEF RacesFit
<1>8. ChangesFit'
  <2>1. ToCommit(cli) = {} /\ ToCommit(cli') = {}
    BY <1>1, <1>3, EmptyToSet DEF ToCommit
  <2> QED BY <1>1, <2>1 DEF ChangesFit
<1> QED BY <1>4, <1>5, <1>6, <1>7, <1>8

LEMMA TestStoresInv == MonitoringInv /\ TestStores => MonitoringInv'
<1> SUFFICES ASSUME MonitoringInv, TestStores PROVE MonitoringInv'
  OBVIOUS
<1> USE MonitoringAssumption DEF MonitoringInv
<1> DEFINE r == cli.rule
           o == cli.seen
           b == cli.before
           new == EventsOf(r, o, b, cli.view)
<1>1. /\ cli # NoTest /\ cli.step = "inserting" /\ Insert(r, o, b)
      /\ cli' = [cli EXCEPT !.step = "stored", !.before = 0, !.pending = new,
                            !.record = Len(records[r]) + 1]
      /\ UNCHANGED <<rule, event, queued, copy, held, backoff, phase, now, due, todo, reply,
                     before, pending, found, cut, restUntil, relapsed, tests, deaths, clock>>
  BY NoTestIsNone DEF TestStores, TestIs, session, tick
<1>2. /\ cli \in ATest /\ r \in Rule /\ tests # 0
      /\ records[r] \in Seq(Observation) /\ Len(records[r]) \in Nat
  BY <1>1, TestIsOne
<1>3. /\ o \in Answers /\ b \in Nat /\ b <= Len(records[r]) /\ cli.view \in RuleRow
      /\ cli.pending = <<>>
  BY <1>1, <1>2 DEF TestFits, ATest
<1>4. /\ new \in Seq(Change)
      /\ \A e \in ToSet(new) : e \in Change /\ e.rule = r /\ e.record = Len(records[r]) + 1
      /\ StockDiffers(r, o) /\ b = LatestOf(records[r])
           => \E e \in ToSet(new) : e.type \in StockType
  <2> HIDE DEF r, o, b
  <2> QED BY <1>2, <1>3, EventsAre
<1> HIDE DEF new
<1>5. /\ cli' \in ATest /\ cli'.rule = r /\ cli'.pending = new /\ cli'.step = "stored"
      /\ cli'.seen = o /\ cli'.before = 0 /\ cli'.record = Len(records[r]) + 1
  <2> DEFINE n == Len(records[r]) + 1
  <2>1. new \in Changes /\ n \in Nat
    BY <1>2, <1>4 DEF Changes
  <2>2. cli' = [cli EXCEPT !.step = "stored", !.before = 0, !.pending = new, !.record = n]
    BY <1>1
  <2> HIDE DEF n
  <2>3. /\ cli' \in ATest /\ cli'.rule = r /\ cli'.pending = new /\ cli'.step = "stored"
        /\ cli'.seen = o /\ cli'.before = 0 /\ cli'.record = n
    BY <1>2, <2>1, <2>2 DEF ATest
  <2> QED BY <2>3 DEF n
<1> HIDE DEF r, o, b
<1>6. /\ records' = [records EXCEPT ![r] = Append(@, Stored(o))]
      /\ changed' \subseteq changed \union {<<r, Len(records[r]) + 1>>}
      /\ raced \subseteq raced'
      /\ \A c \in changed' \ changed :
           \/ c \in raced'
           \/ /\ c = <<r, Len(records[r]) + 1>> /\ StockDiffers(r, o)
              /\ b = LatestOf(records[r])
  BY <1>1, <1>2, InsertIs
<1>7. /\ records' \in [Rule -> Seq(Observation)]
      /\ Len(records'[r]) = Len(records[r]) + 1
      /\ Len(records[r]) + 1 \in DOMAIN records'[r]
      /\ \A q \in Rule : Len(records[q]) <= Len(records'[q])
      /\ \A q \in Rule : DOMAIN records[q] \subseteq DOMAIN records'[q]
      /\ \A q \in Rule : records[q] # <<>> => records'[q] # <<>>
  BY <1>2, <1>3, <1>6, AppendIs
<1>8. MTypes'
  <2>1. changed' \subseteq Rule \X Nat
    BY <1>2, <1>6 DEF MTypes
  <2> QED BY <1>1, <1>5, <1>7, <2>1 DEF MTypes
<1>9. RowsFit'
  <2>1. \A e \in event : e.rule \in Rule
    BY DEF MTypes, AnEvent
  <2> QED BY <1>1, <1>7, <2>1 DEF RowsFit
<1>10. BlocksFit' /\ RestsFit' /\ TiersFit'
  BY <1>1 DEF BlocksFit, RestsFit, TiersFit
<1>11. TickFits'
  BY <1>1, <1>7 DEF TickFits, MTypes
<1>12. PendingFits'
  <2>1. \A e \in ToSet(pending) : e.rule \in Rule
    <3>1. pending # <<>> => First(todo) \in Rule
      <4>1. pending # <<>> => todo \in SUBSET Rule /\ todo # {}
        BY DEF MTypes, PendingFits
      <4> QED BY <4>1, FirstIs
    <3> QED BY <3>1, EmptyToSet DEF PendingFits
  <2> QED BY <1>1, <1>7, <2>1 DEF PendingFits
<1>13. TestFits'
  <2>1. phase = "inserting" => before <= Len(records'[First(todo)])
    <3>1. phase = "inserting" => todo \in SUBSET Rule /\ todo # {}
      BY DEF MTypes, TickFits
    <3>2. phase = "inserting" => First(todo) \in Rule
      BY <3>1, FirstIs
    <3>3. \A q \in Rule : Len(records[q]) \in Nat /\ Len(records'[q]) \in Nat
      BY <1>7 DEF MTypes
    <3>4. before \in Nat /\ (phase = "inserting" => before <= Len(records[First(todo)]))
      BY DEF TestFits, MTypes
    <3>5. phase = "inserting" => Len(records[First(todo)]) <= Len(records'[First(todo)])
      BY <1>7, <3>2
    <3> QED BY <3>2, <3>3, <3>4, <3>5
  <2>2. 0 <= Len(records'[r]) /\ Len(records[r]) + 1 <= Len(records'[r])
    BY <1>2, <1>7
  <2>3. \A e \in ToSet(new) : /\ e.rule = r /\ e.record = Len(records[r]) + 1
                             /\ e.record \in DOMAIN records'[e.rule]
    BY <1>4, <1>7
  <2>4. phase' = phase /\ before' = before /\ todo' = todo
    BY <1>1
  <2>5. cli'.seen \in Answers
    BY <1>3, <1>5
  <2> QED BY <1>5, <2>1, <2>2, <2>3, <2>4, <2>5 DEF TestFits
<1>14. RacesFit'
  BY <1>1, <1>2 DEF RacesFit
<1>15. ChangesFit'
  <2>1. ToCommit(cli) = {} /\ (cli' # NoTest => ToCommit(cli') = ToSet(new))
    BY <1>3, <1>5, EmptyToSet DEF ToCommit
  <2>2. cli' # NoTest
    BY <1>5, NoTestIsNone
  <2>3. ASSUME NEW c \in changed'
        PROVE  \/ c \in cut \union raced'
               \/ \E e \in event' \union ToSet(pending') \union ToCommit(cli') :
                    e.rule = c[1] /\ e.record = c[2] /\ e.type \in StockType
    <3>1. CASE c \in changed
      BY <1>1, <1>6, <2>1, <3>1 DEF ChangesFit
    <3>2. CASE c = <<r, Len(records[r]) + 1>> /\ StockDiffers(r, o)
               /\ b = LatestOf(records[r])
      BY <1>4, <2>1, <2>2, <3>2
    <3> QED BY <1>6, <3>1, <3>2
  <2> QED BY <1>1, <2>3 DEF ChangesFit
<1> QED BY <1>8, <1>9, <1>10, <1>11, <1>12, <1>13, <1>14, <1>15

LEMMA TestCommitsInv == MonitoringInv /\ (TestStoresEvent \/ TestAlerts) => MonitoringInv'
<1> SUFFICES ASSUME MonitoringInv, TestStoresEvent \/ TestAlerts PROVE MonitoringInv'
  OBVIOUS
<1> USE MonitoringAssumption DEF MonitoringInv
<1>1. /\ cli # NoTest /\ cli.step = "stored"
      /\ UNCHANGED <<rule, records, copy, held, backoff, phase, now, due, todo, reply, before,
                     pending, found, changed, raced, cut, restUntil, relapsed, tests, deaths,
                     clock>>
  BY NoTestIsNone DEF TestStoresEvent, TestAlerts, TestIs, session, tick, history, stored, command
<1>2. /\ cli \in ATest /\ cli.rule \in Rule /\ tests # 0
      /\ records[cli.rule] \in Seq(Observation) /\ Len(records[cli.rule]) \in Nat
  BY <1>1, TestIsOne
<1>3. BlocksFit' /\ TickFits' /\ PendingFits' /\ RestsFit' /\ TiersFit'
  BY <1>1, TickStays
<1>4. RacesFit'
  BY <1>1, <1>2 DEF RacesFit
<1>5. CASE TestAlerts
  <2>1. /\ queued \subseteq queued' /\ queued' \subseteq queued \union event
        /\ event' = event /\ cli' = cli
    BY <1>5 DEF TestAlerts, command
  <2>2. MTypes' /\ RowsFit' /\ TestFits' /\ ChangesFit'
    BY <1>1, <2>1 DEF MTypes, RowsFit, TestFits, ChangesFit
  <2> QED BY <1>3, <1>4, <2>2
<1>6. CASE TestStoresEvent
  <2> DEFINE e == Head(cli.pending)
             rest == Tail(cli.pending)
  <2>1. /\ cli.pending # <<>> /\ event' = event \union {e}
        /\ cli' = [cli EXCEPT !.pending = rest] /\ queued' = queued
    BY <1>6 DEF TestStoresEvent
  <2>2. /\ e \in Change /\ rest \in Seq(Change)
        /\ ToSet(cli.pending) = {e} \union ToSet(rest)
    <3>1. cli.pending \in Seq(Change)
      BY <1>2 DEF ATest, Changes
    <3> QED BY <2>1, <3>1, HeadAndTail
  <2> HIDE DEF e, rest
  <2>3. /\ cli' \in ATest /\ cli'.rule = cli.rule /\ cli'.pending = rest
        /\ cli'.step = "stored" /\ cli'.seen = cli.seen /\ cli'.before = cli.before
        /\ cli'.record = cli.record
    <3>1. rest \in Changes
      BY <2>2 DEF Changes
    <3> QED BY <1>1, <1>2, <2>1, <3>1 DEF ATest
  <2>4. e.record \in DOMAIN records[e.rule] /\ e \in AnEvent
    BY <1>1, <2>2 DEF TestFits, Change, AnEvent, EventType
  <2>5. MTypes'
    <3>1. event' \subseteq AnEvent /\ event \subseteq event'
      BY <2>1, <2>4 DEF MTypes
    <3>2. found' \in [Rule -> SUBSET event']
      BY <1>1, <3>1 DEF MTypes
    <3> QED BY <1>1, <2>3, <3>1, <3>2 DEF MTypes
  <2>6. RowsFit'
    BY <1>1, <2>1, <2>4 DEF RowsFit
  <2>7. TestFits'
    BY <1>1, <2>2, <2>3 DEF TestFits
  <2>8. ChangesFit'
    <3>1. cli' # NoTest
      BY <2>3, NoTestIsNone
    <3>2. ToCommit(cli) = {e} \union ToSet(rest) /\ ToCommit(cli') = ToSet(rest)
      BY <1>1, <2>2, <2>3, <3>1 DEF ToCommit
    <3> QED BY <1>1, <2>1, <3>2 DEF ChangesFit
  <2> QED BY <1>3, <1>4, <2>5, <2>6, <2>7, <2>8
<1> QED BY <1>5, <1>6

LEMMA TestDiesInv == MonitoringInv /\ TestDies => MonitoringInv'
<1> SUFFICES ASSUME MonitoringInv, TestDies PROVE MonitoringInv'
  OBVIOUS
<1> USE MonitoringAssumption DEF MonitoringInv
<1>1. /\ cli # NoTest /\ cli' = NoTest /\ deaths' = deaths + 1 /\ cut' = Cut(cli.pending)
      /\ UNCHANGED <<rule, records, event, queued, copy, held, backoff, phase, now, due, todo,
                     reply, before, pending, found, changed, raced, restUntil, relapsed, tests,
                     clock>>
  BY DEF TestDies, tables, session, tick, stored
<1>2. tests # 0
  BY <1>1, TestIsOne
<1>3. MTypes' /\ RowsFit' /\ TestFits' /\ RacesFit'
  BY <1>1, <1>2 DEF MTypes, RowsFit, TestFits, RacesFit
<1>4. BlocksFit' /\ TickFits' /\ PendingFits' /\ RestsFit' /\ TiersFit'
  BY <1>1, TickStays
<1>5. ChangesFit'
  <2>1. /\ IsFiniteSet(cut') /\ Cardinality(cut') <= deaths' /\ cut \subseteq cut'
        /\ \A e \in ToSet(cli.pending) : <<e.rule, e.record>> \in cut'
    <3>1. \A e, f \in ToSet(cli.pending) : e.rule = f.rule /\ e.record = f.record
      BY <1>1 DEF TestFits
    <3>2. IsFiniteSet(cut) /\ Cardinality(cut) <= deaths /\ deaths \in Nat
      BY DEF ChangesFit, MTypes
    <3> HIDE DEF MonitoringInv
    <3> QED BY <1>1, <3>1, <3>2, CutIs
  <2>2. ASSUME NEW c \in changed, c \notin cut',
               NEW e \in ToSet(cli.pending), e.rule = c[1], e.record = c[2]
        PROVE  FALSE
    <3>1. c = <<c[1], c[2]>>
      BY DEF MTypes
    <3>2. c \in cut'
      BY <2>1, <2>2, <3>1
    <3> QED BY <2>2, <3>2
  <2>3. ToCommit(cli) = ToSet(cli.pending) /\ ToCommit(cli') = {}
    BY <1>1 DEF ToCommit
  <2> QED BY <1>1, <2>1, <2>2, <2>3 DEF ChangesFit
<1> QED BY <1>3, <1>4, <1>5

LEMMA ClockTicksInv == MonitoringInv /\ ClockTicks => MonitoringInv'
<1> SUFFICES ASSUME MonitoringInv, ClockTicks PROVE MonitoringInv'
  OBVIOUS
<1> USE MonitoringAssumption DEF MonitoringInv
<1> USE DEF ClockTicks, tables, session, tick, history, stored, command
<1>1. MTypes'
  BY DEF MTypes
<1>2. RowsFit' /\ ChangesFit' /\ TiersFit'
  BY DEF RowsFit, ChangesFit, TiersFit
<1>3. TickFits' /\ PendingFits' /\ TestFits' /\ RacesFit'
  BY TestStays DEF TickFits, PendingFits
<1>4. BlocksFit' /\ RestsFit'
  <2>1. clock \in Nat /\ clock' = clock + 1
    BY DEF MTypes
  <2>2. \A m \in Merchant : backoff[m].until \in Nat /\ restUntil[m] \in Nat
    BY DEF MTypes
  <2>3. ASSUME NEW m \in Merchant
        PROVE  \/ backoff[m].until <= clock' + MaxBackoff
               \/ \E after \in RetryAfter : backoff[m].until <= clock' + after
    <3>1. CASE backoff[m].until <= clock + MaxBackoff
      BY <2>1, <2>2, <3>1
    <3>2. ASSUME NEW after \in RetryAfter, backoff[m].until <= clock + after
          PROVE  backoff[m].until <= clock' + after
      BY <2>1, <2>2, <3>2
    <3> QED BY <3>1, <3>2 DEF BlocksFit
  <2>4. BlocksFit'
    BY <2>3 DEF BlocksFit
  <2>5. RestsFit'
    <3>1. \A r \in Rule : MerchantOf[r] \in Merchant
      OBVIOUS
    <3> QED BY <2>1, <2>2, <3>1 DEF RestsFit, MTypes
  <2> QED BY <2>4, <2>5
<1> QED BY <1>1, <1>2, <1>3, <1>4

LEMMA MonitoringInvStep == MonitoringInv /\ [Next]_vars => MonitoringInv'
<1> SUFFICES ASSUME MonitoringInv, [Next]_vars PROVE MonitoringInv'
  OBVIOUS
<1>1. CASE WorkerNext
  BY <1>1, StartInv, CheckInv, ReadPreviousInv, StoreObservationInv, StoreEventInv,
     ReconcileInv, NotifyInv, AlertChangesInv, RecordTierInv, AlertShiftInv, EndTickInv, RecoveryInv, PurchaseInv DEF WorkerNext
<1>2. CASE CommandLineNext
  BY <1>2, EditInv, TestStartsInv, TestReadsInv, TestStoresInv, TestCommitsInv, TestDiesInv
     DEF CommandLineNext
<1>3. CASE Die \/ ClockTicks
  BY <1>3, DieInv, ClockTicksInv
<1>4. CASE UNCHANGED vars
  <2> USE <1>4 DEF vars, tables, session, tick, history, stored, command, MonitoringInv
  <2>1. MTypes' /\ RowsFit' /\ BlocksFit' /\ TickFits'
    BY DEF MTypes, RowsFit, BlocksFit, TickFits
  <2>2. PendingFits' /\ ChangesFit' /\ RestsFit' /\ TiersFit'
    BY DEF PendingFits, ChangesFit, RestsFit, TiersFit
  <2>3. TestFits' /\ RacesFit'
    BY TestStays
  <2> QED BY <2>1, <2>2, <2>3
<1> QED BY <1>1, <1>2, <1>3, <1>4 DEF Next

\* The invariant holds in every state (all of the monitoring loop).
THEOREM MonitoringCorrect == Spec => []MonitoringInv
BY InitInv, MonitoringInvStep, PTL DEF Spec

-----------------------------------------------------------------------------
(* What the runs check. *)

\* The types of the state hold in every state: a delivery is of a stored event, an
\* event of a stored observation, and a merchant is blocked for no longer than the
\* cap or what it asked for (engine/backoff.py).
THEOREM TypesHold == Spec => []TypeOK
<1>1. MonitoringInv => TypeOK
  <2> SUFFICES ASSUME MonitoringInv PROVE TypeOK
    OBVIOUS
  <2> USE DEF MonitoringInv
  <2>1. ToSet(pending) \subseteq AnEvent
    <3>1. \A i \in DOMAIN pending : pending[i] \in Change
      BY DEF MTypes
    <3> QED BY <3>1 DEF ToSet, Change, AnEvent, EventType
  <2>2. \A m \in Merchant :
          /\ backoff[m].failures = 0 => backoff[m].until = 0
          /\ \/ backoff[m].until <= clock + MaxBackoff
             \/ \E after \in RetryAfter : backoff[m].until <= clock + after
    BY DEF BlocksFit
  <2>3. \A e \in event : e.record \in DOMAIN records[e.rule]
    BY DEF RowsFit
  <2>4. queued \subseteq event
    BY DEF RowsFit
  <2>5. cli # NoTest => /\ cli.rule \in Tested
                        /\ cli.step \in {"checking", "inserting", "stored"}
                        /\ cli.record \in 0..Len(records[cli.rule])
                        /\ ToSet(cli.pending) \subseteq AnEvent
    <3> SUFFICES ASSUME cli # NoTest
                 PROVE  /\ cli.rule \in Tested
                        /\ cli.step \in {"checking", "inserting", "stored"}
                        /\ cli.record \in 0..Len(records[cli.rule])
                        /\ ToSet(cli.pending) \subseteq AnEvent
      OBVIOUS
    <3>1. cli \in ATest /\ Len(records[cli.rule]) \in Nat
      BY TestIsOne
    <3>2. \A i \in DOMAIN cli.pending : cli.pending[i] \in Change
      BY <3>1 DEF ATest, Changes
    <3>3. ToSet(cli.pending) \subseteq AnEvent
      BY <3>2 DEF ToSet, Change, AnEvent, EventType
    <3> QED BY <3>1, <3>3 DEF ATest, TestFits
  <2> QED BY <2>1, <2>2, <2>3, <2>4, <2>5 DEF TypeOK, MTypes, RuleRow, Observation, Reply
<1> QED BY <1>1, MonitoringCorrect, PTL

\* A change of stock between two successive observations of a listing has its event,
\* unless a death of the worker or of a test cut its storing off, one change a death
\* at most, or the worker and a test had read the same record
\* (engine/monitoring.py::store_check_result).
THEOREM ChangesAreKept == Spec => []ChangesLeaveEvents
<1>1. MonitoringInv => ChangesLeaveEvents
  <2> SUFFICES ASSUME MonitoringInv PROVE ChangesLeaveEvents
    OBVIOUS
  <2> USE DEF MonitoringInv
  <2>1. ASSUME NEW c \in changed, NEW list, NEW e \in ToSet(list),
               e.rule = c[1], e.record = c[2]
        PROVE  In(list, c)
    <3>1. c = <<c[1], c[2]>>
      BY DEF MTypes
    <3>2. PICK i \in DOMAIN list : e = list[i]
      BY DEF ToSet
    <3> QED BY <2>1, <3>1, <3>2 DEF In
  <2>2. ASSUME NEW c \in changed,
               NEW e \in ToSet(pending) \union ToCommit(cli), e.rule = c[1], e.record = c[2]
        PROVE  InStorage(c)
    <3>1. CASE e \in ToSet(pending)
      BY <2>1, <2>2, <3>1 DEF InStorage
    <3>2. CASE e \in ToCommit(cli)
      <4>1. cli # NoTest /\ e \in ToSet(cli.pending)
        BY <3>2 DEF ToCommit
      <4> QED BY <2>1, <2>2, <4>1 DEF InStorage
    <3> QED BY <2>2, <3>1, <3>2
  <2>3. raced # {} => tests > 0
    BY DEF RacesFit, MTypes
  <2> QED BY <2>2, <2>3 DEF ChangesLeaveEvents, ChangesFit, StockType
<1> QED BY <1>1, MonitoringCorrect, PTL

\* No tick starts a check of a merchant before the pause is over that the first error
\* of the merchant in an earlier tick asked for, counted from the start of that tick,
\* although other rules succeeded on it (engine/worker.py::run_monitoring_tick).
THEOREM MerchantsRest == Spec => BackedOffMerchantsRest
<1>1. MonitoringInv /\ [Next]_vars
        => [due' # due => \A r \in due' : clock >= restUntil[MerchantOf[r]]]_vars
  <2> SUFFICES ASSUME MonitoringInv, [Next]_vars, due' # due, NEW r \in due'
               PROVE  clock >= restUntil[MerchantOf[r]]
    OBVIOUS
  <2> USE DEF MonitoringInv
  <2>1. CASE StartTick
    <3>1. r \in Rule /\ Checkable(r)
      BY <2>1 DEF StartTick
    <3>2. MerchantOf[r] \in Merchant /\ backoff[MerchantOf[r]].until <= clock
      BY <3>1, MonitoringAssumption DEF Checkable, IsBlocked, MTypes
    <3> QED BY <3>2 DEF RestsFit, MTypes
  <2>2. CASE Die \/ EndTick
    BY <2>2 DEF Die, EndTick
  <2>3. CASE WorkerNext /\ ~StartTick /\ ~EndTick
    BY <2>3 DEF WorkerNext, StartWorker, EmptyTick, StartStoring, ReadPrevious,
       StoreObservation, StoreEvent, Reconcile, NotifyChanges, AlertChanges, NoEvaluation, RecordTier, AlertShift, Advance, ExpireAll, Check,
       PurchaseReads, PurchaseEnds, Backfill, vars, tick
  <2>4. CASE CommandLineNext \/ ClockTicks \/ UNCHANGED vars
    BY <2>4 DEF CommandLineNext, Edit, TestStarts, TestReads, TestStores, TestStoresEvent,
       TestAlerts, TestEnds, TestDies, ClockTicks, vars, tick
  <2> QED BY <2>1, <2>2, <2>3, <2>4 DEF Next
<1> QED BY <1>1, MonitoringCorrect, PTL DEF Spec, BackedOffMerchantsRest

\* The steps that send a new alert or start a purchase: where their rule comes from.
LEMMA NewDeliveries ==
  ASSUME MonitoringInv, [Next]_vars
  PROVE  /\ \A e \in queued' \ queued :
              e.rule \in Rule /\ (e.rule \in due \/ View(e.rule).enabled
                                 \/ (cli # NoTest /\ cli.rule = e.rule))
         /\ held' \subseteq held \union due
<1> USE DEF MonitoringInv
<1>1. CASE AlertChanges
  <2> DEFINE r == First(todo)
  <2>1. r \in Rule /\ r \in due
    <3>1. todo \in SUBSET Rule /\ todo # {} /\ todo \subseteq due
      BY <1>1 DEF MTypes, TickFits, AlertChanges
    <3> QED BY <3>1, FirstIs
  <2>2. \E sent \in SUBSET found[r], attempt \in SUBSET {r} :
          queued' = queued \union sent /\ held' = held \union attempt
    BY <1>1 DEF AlertChanges
  <2> HIDE DEF r
  <2>3. \A e \in found[r] : e.rule = r
    BY <2>1 DEF RowsFit
  <2> QED BY <2>1, <2>2, <2>3
<1>2. CASE AlertShift
  <2>1. First(todo) \in Rule /\ First(todo) \in due
    <3>1. todo \in SUBSET Rule /\ todo # {} /\ todo \subseteq due
      BY <1>2 DEF MTypes, TickFits, AlertShift
    <3> QED BY <3>1, FirstIs
  <2> QED BY <1>2, <2>1 DEF AlertShift
<1>3. ASSUME NEW e \in event, Backfill(e)
      PROVE  /\ \A f \in queued' \ queued : f.rule \in Rule /\ View(f.rule).enabled
             /\ held' = held
  <2>1. e.rule \in Rule
    BY DEF MTypes, AnEvent
  <2> QED BY <1>3, <2>1 DEF Backfill, Allowed
<1>4. CASE TestAlerts
  <2>1. cli # NoTest /\ cli.rule \in Rule /\ held' = held
    BY <1>4, TestIsOne, NoTestIsNone DEF TestAlerts, TestIs, session
  <2> QED BY <1>4, <2>1 DEF TestAlerts
<1>5. CASE WorkerNext /\ ~AlertChanges /\ ~AlertShift /\ ~(\E e \in event : Backfill(e))
  <2>1. queued' = queued /\ (held' = held \/ \E r \in Rule : held' = held \ {r})
    BY <1>5 DEF WorkerNext, StartWorker, StartTick, EmptyTick, StartStoring, ReadPrevious,
       StoreObservation, StoreEvent, Reconcile, NotifyChanges, NoEvaluation, RecordTier,
       EndTick, ExpireAll, Check, PurchaseReads, PurchaseEnds, vars, tables, session
  <2> QED BY <2>1
<1>6. CASE CommandLineNext /\ ~TestAlerts
  <2>1. queued' = queued /\ held' = held
    BY <1>6 DEF CommandLineNext, Edit, TestStarts, TestReads, TestStores, TestStoresEvent,
       TestEnds, TestDies, tables, session
  <2> QED BY <2>1
<1>7. CASE Die \/ ClockTicks \/ UNCHANGED vars
  <2>1. queued' = queued /\ (held' = held \/ held' = {})
    BY <1>7 DEF Die, ClockTicks, vars, tables, session
  <2> QED BY <2>1
<1> QED BY <1>1, <1>2, <1>3, <1>4, <1>5, <1>6, <1>7 DEF Next

\* A rule that is disabled, that no tick and no test of the command line checks and no
\* purchase attempt holds gets no alert and no purchase any more, whatever its old
\* events (app/delivery.py).
THEOREM DisabledRulesAreSilent == Spec => DisabledRulesFallSilent
<1>1. MonitoringInv /\ [Next]_vars
        => [\A r \in Rule :
              ~rule[r].enabled /\ LetGo(r)
                => /\ \A e \in queued' \ queued : e.rule # r
                   /\ r \in held' => r \in held]_vars
  BY NewDeliveries DEF View, LetGo
<1> QED BY <1>1, MonitoringCorrect, PTL DEF Spec, DisabledRulesFallSilent

\* An alert that an opportunity improved follows an observation of it below that,
\* restarts of the worker included (app/opportunity_alerts.py).
THEOREM OpportunityAlertsTakeTurns == Spec => OpportunityAlertsAlternate
<1>1. MonitoringInv /\ [Next]_vars
        => [\A e \in event' \ event :
              e.type = "opportunity_score_improved" => e.rule \in relapsed]_vars
  <2> SUFFICES ASSUME MonitoringInv, [Next]_vars, NEW e \in event' \ event,
                      e.type = "opportunity_score_improved"
               PROVE  e.rule \in relapsed
    OBVIOUS
  <2> USE DEF MonitoringInv
  <2>1. CASE StoreEvent
    <3>1. Head(pending) \in Change /\ event' = event \union {Head(pending)}
      BY <2>1, HeadAndTail DEF StoreEvent, MTypes
    <3> QED BY <3>1 DEF Change, ChangeType
  <2>2. CASE AlertShift
    <3>1. First(todo) \in relapsed
      BY <2>2 DEF AlertShift, TiersFit
    <3> QED BY <2>2, <3>1 DEF AlertShift
  <2>3. CASE TestStoresEvent
    <3>1. cli \in ATest /\ cli.pending # <<>> /\ event' = event \union {Head(cli.pending)}
      BY <2>3, TestIsOne, NoTestIsNone DEF TestStoresEvent, TestIs
    <3>2. Head(cli.pending) \in Change
      BY <3>1, HeadAndTail DEF ATest, Changes
    <3> QED BY <3>1, <3>2 DEF Change, ChangeType
  <2>4. CASE WorkerNext /\ ~StoreEvent /\ ~AlertShift
    BY <2>4 DEF WorkerNext, StartWorker, StartTick, EmptyTick, StartStoring, ReadPrevious,
       StoreObservation, Reconcile, NotifyChanges, AlertChanges, NoEvaluation, RecordTier,
       EndTick, ExpireAll, Check, PurchaseReads, PurchaseEnds, Backfill, vars, tables
  <2>5. CASE (CommandLineNext /\ ~TestStoresEvent) \/ Die \/ ClockTicks \/ UNCHANGED vars
    BY <2>5 DEF CommandLineNext, Edit, TestStarts, TestReads, TestStores, TestAlerts, TestEnds,
       TestDies, Die, ClockTicks, vars, tables
  <2> QED BY <2>1, <2>2, <2>3, <2>4, <2>5 DEF Next
<1> QED BY <1>1, MonitoringCorrect, PTL DEF Spec, OpportunityAlertsAlternate
=============================================================================
