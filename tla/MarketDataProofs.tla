------------------------- MODULE MarketDataProofs -------------------------
(***************************************************************************)
(* Theorems about MarketData, for any number of symbols, collectors and    *)
(* sessions.  What a collection writes is decided long before it writes:   *)
(* the invariants follow each file through the copy that was read, the     *)
(* copy that was prepared and the manifest that will describe it.          *)
(***************************************************************************)
EXTENDS MarketData, SequenceTheorems, FiniteSetTheorems,
        WellFoundedInduction, TLAPS

(***************************************************************************)
(* Sets of days.                                                           *)
(***************************************************************************)

(* The order of the natural numbers as a relation.                         *)
LEMMA Earlier ==
    ASSUME NEW x \in Nat, NEW y \in Nat, y < x
    PROVE  <<y, x>> \in OpToRel(<, Nat)
<1>1. OpToRel(<, Nat) = {ss \in Nat \X Nat : ss[1] < ss[2]}
  BY Zenon DEF OpToRel
<1> QED BY <1>1

(* A set of days that is not empty has an earliest day.                    *)
LEMMA EarliestDay ==
    ASSUME NEW S, S \subseteq Nat, S # {}
    PROVE  \E x \in S : \A y \in S : x <= y
<1>1. IsWellFoundedOn(OpToRel(<, Nat), Nat)
  BY NatLessThanWellFounded
<1> DEFINE R == OpToRel(<, Nat)
<1> HIDE DEF R
<1>2. PICK x \in S : \A y \in S : ~ (<<y, x>> \in R)
  BY <1>1, WFMin DEF R
<1>3. ASSUME NEW y \in S PROVE x <= y
  <2>1. ~ (<<y, x>> \in OpToRel(<, Nat))
    BY <1>2 DEF R
  <2>2. x \in Nat /\ y \in Nat
    OBVIOUS
  <2>3. ~ (y < x)
    BY <2>1, <2>2, Earlier
  <2> QED BY <2>2, <2>3
<1> QED BY <1>3

(* A bounded one has a latest day.                                         *)
LEMMA LatestDay ==
    ASSUME NEW n \in Nat, NEW S, S \subseteq 0..n, S # {}
    PROVE  \E x \in S : \A y \in S : x >= y
<1> DEFINE D == {n - y : y \in S}
<1>1. D \subseteq Nat /\ D # {}
  <2>1. \A y \in S : y \in Int /\ y <= n
    OBVIOUS
  <2>2. \A y \in S : n - y \in Nat
    BY <2>1
  <2> QED BY <2>2
<1>2. PICK m \in D : \A y \in D : m <= y
  BY <1>1, EarliestDay
<1>3. PICK x \in S : m = n - x
  OBVIOUS
<1>4. ASSUME NEW y \in S PROVE x >= y
  <2>1. n - y \in D
    OBVIOUS
  <2>2. n - x <= n - y
    BY <1>2, <1>3, <2>1
  <2>3. x \in Nat /\ y \in Nat
    OBVIOUS
  <2> QED BY <2>2, <2>3
<1> QED BY <1>4

(* The first and the last day of a file.                                   *)
LEMMA FirstDay ==
    ASSUME NEW rows, DOMAIN rows \subseteq Nat, DOMAIN rows # {}
    PROVE  First(rows) \in DOMAIN rows /\ \A d \in DOMAIN rows : First(rows) <= d
<1>1. \E x \in DOMAIN rows : \A y \in DOMAIN rows : x <= y
  BY EarliestDay
<1> QED BY <1>1 DEF First, Min

(* Likewise the last one.                                                  *)
LEMMA LastDay ==
    ASSUME NEW n \in Nat, NEW rows, DOMAIN rows \subseteq 0..n, DOMAIN rows # {}
    PROVE  Last(rows) \in DOMAIN rows /\ \A d \in DOMAIN rows : d <= Last(rows)
<1>1. PICK x \in DOMAIN rows : \A y \in DOMAIN rows : x >= y
  BY LatestDay
<1>2. Last(rows) \in DOMAIN rows /\ \A y \in DOMAIN rows : Last(rows) >= y
  BY <1>1 DEF Last, Max
<1>3. DOMAIN rows \subseteq Nat
  OBVIOUS
<1> QED BY <1>2, <1>3

(***************************************************************************)
(* Files.                                                                  *)
(***************************************************************************)

(* What the assumption on the constants gives.                             *)
LEMMA Constants ==
    /\ Bootstrap \in Nat /\ InitialDay \in Nat /\ MaxDay \in Nat
    /\ Bootstrap <= InitialDay /\ InitialDay <= MaxDay
    /\ Days \subseteq 0..MaxDay /\ Days \subseteq Nat
BY MarketDataAssumption DEF Days

(* What it is to be the content of a file.                                 *)
LEMMA RowsAre ==
    ASSUME NEW rows
    PROVE  rows \in Rows <=>
             /\ rows = [d \in DOMAIN rows |-> rows[d]]
             /\ DOMAIN rows \subseteq Days
             /\ \A d \in DOMAIN rows : rows[d] \in 0..MaxDay
<1>1. ASSUME rows \in Rows
      PROVE  /\ rows = [d \in DOMAIN rows |-> rows[d]]
             /\ DOMAIN rows \subseteq Days
             /\ \A d \in DOMAIN rows : rows[d] \in 0..MaxDay
  <2>1. PICK D \in SUBSET Days : rows \in [D -> 0..MaxDay]
    BY <1>1 DEF Rows
  <2> QED BY <2>1
<1>2. ASSUME rows = [d \in DOMAIN rows |-> rows[d]], DOMAIN rows \subseteq Days,
             \A d \in DOMAIN rows : rows[d] \in 0..MaxDay
      PROVE  rows \in Rows
  <2>1. rows \in [DOMAIN rows -> 0..MaxDay]
    BY <1>2
  <2> QED BY <1>2, <2>1 DEF Rows
<1> QED BY <1>1, <1>2

(* A missing file is a file without days.                                  *)
LEMMA NoFileRows == NoFile \in Rows /\ DOMAIN NoFile = {}
<1>1. DOMAIN NoFile = {} /\ NoFile = [d \in DOMAIN NoFile |-> NoFile[d]]
  BY DEF NoFile
<1> QED BY <1>1, RowsAre

(* And the only one.                                                       *)
LEMMA SomeFile ==
    ASSUME NEW rows \in Rows
    PROVE  rows = NoFile <=> DOMAIN rows = {}
<1>1. rows = [d \in DOMAIN rows |-> rows[d]]
  BY RowsAre
<1> QED BY <1>1, NoFileRows DEF NoFile

(* A file without gaps.                                                    *)
Contiguous(rows) == \A a, b \in DOMAIN rows : a..b \subseteq DOMAIN rows

(* The prices as the broker showed them on day t, given the days with a    *)
(* corporate action.                                                       *)
Effective(acts, d, t) == {x \in acts : d < x /\ x <= t}
Dated(rows, acts, t) ==
    \A d \in DOMAIN rows : d <= t /\ rows[d] = Cardinality(Effective(acts, d, t))

(* A file without gaps whose prices all come from one and the same day.    *)
Sound(rows, acts, now) ==
    /\ rows \in Rows
    /\ Contiguous(rows)
    /\ \E t \in InitialDay..now : Dated(rows, acts, t)

(* Corporate actions that have happened.                                   *)
Past(acts, now) == acts \subseteq InitialDay + 1..now

(* A missing file is sound.                                                *)
LEMMA NoFileSound ==
    ASSUME NEW acts, NEW now \in InitialDay..MaxDay
    PROVE  Sound(NoFile, acts, now)
BY NoFileRows, Constants DEF Sound, Contiguous, Dated

(* A candle accounts for no more actions than there are sessions.          *)
LEMMA Counted ==
    ASSUME NEW now \in InitialDay..MaxDay, NEW acts, Past(acts, now), NEW d, NEW t
    PROVE  /\ IsFiniteSet(acts) /\ IsFiniteSet(Effective(acts, d, t))
           /\ Cardinality(Effective(acts, d, t)) \in 0..MaxDay
<1>1. acts \subseteq 1..MaxDay
  BY Constants DEF Past
<1>2. IsFiniteSet(1..MaxDay) /\ Cardinality(1..MaxDay) = MaxDay
  BY Constants, FS_Interval
<1>3. Effective(acts, d, t) \in SUBSET (1..MaxDay) /\ acts \in SUBSET (1..MaxDay)
  BY <1>1 DEF Effective
<1>4. /\ IsFiniteSet(acts) /\ IsFiniteSet(Effective(acts, d, t))
      /\ Cardinality(Effective(acts, d, t)) <= MaxDay
  BY <1>2, <1>3, FS_Subset
<1>5. Cardinality(Effective(acts, d, t)) \in Nat
  BY <1>4, FS_CardinalityType
<1> QED BY <1>4, <1>5, Constants

(* A file stays sound while sessions go by.                                *)
LEMMA SoundLater ==
    ASSUME NEW now \in InitialDay..MaxDay, NEW rows, NEW acts, NEW more,
           Sound(rows, acts, now), acts \subseteq more,
           more \subseteq acts \union {now + 1}
    PROVE  Sound(rows, more, now + 1)
<1>1. PICK t \in InitialDay..now : Dated(rows, acts, t)
  BY DEF Sound
<1>2. ASSUME NEW d PROVE Effective(more, d, t) = Effective(acts, d, t)
  <2>1. ~ (now + 1 <= t)
    BY Constants
  <2> QED BY <2>1 DEF Effective
<1>3. Dated(rows, more, t)
  BY <1>1, <1>2 DEF Dated
<1>4. t \in InitialDay..now + 1
  BY Constants
<1> QED BY <1>3, <1>4 DEF Sound

(***************************************************************************)
(* What a fetch adds to a file.                                            *)
(***************************************************************************)

(* What the broker returns for some days.                                  *)
Prices(acts, returned) ==
    [d \in returned |-> Cardinality({x \in acts : x > d})]

(* What Fetch has checked when it merges.                                  *)
Checked(rows, fetched, target) ==
    Covers(rows, fetched, target) /\ OverlapMatches(rows, fetched, target)

(* The broker's prices are those of the present day.                       *)
LEMMA PricesNow ==
    ASSUME NEW now \in InitialDay..MaxDay, NEW acts, Past(acts, now),
           NEW returned, NEW d \in returned
    PROVE  Prices(acts, returned)[d] = Cardinality(Effective(acts, d, now))
<1>1. \A x \in acts : x \in Int /\ x <= now
  BY Constants DEF Past
<1>2. Effective(acts, d, now) = {x \in acts : x > d}
  <2>1. d \in Int \/ d \notin Int
    OBVIOUS
  <2> QED BY <1>1 DEF Effective
<1> QED BY <1>2 DEF Prices

(* What it returns could be a file.                                        *)
LEMMA PricesRows ==
    ASSUME NEW now \in InitialDay..MaxDay, NEW acts, Past(acts, now),
           NEW returned, returned \subseteq Days
    PROVE  /\ Prices(acts, returned) \in Rows
           /\ DOMAIN Prices(acts, returned) = returned
           /\ Prices(acts, returned) = NoFile <=> returned = {}
<1>1. DOMAIN Prices(acts, returned) = returned
  BY DEF Prices
<1>2. \A d \in returned : Prices(acts, returned)[d] \in 0..MaxDay
  BY PricesNow, Counted
<1>3. Prices(acts, returned) = [d \in returned |-> Prices(acts, returned)[d]]
  BY DEF Prices
<1>4. Prices(acts, returned) \in Rows
  BY <1>1, <1>2, <1>3, RowsAre
<1> QED BY <1>1, <1>4, SomeFile

(* Rows that are priced now, on contiguous days, are sound.                *)
LEMMA PricedNow ==
    ASSUME NEW now \in InitialDay..MaxDay, NEW acts, Past(acts, now),
           NEW D, D \subseteq Days, NEW rows, rows = [d \in D |-> rows[d]],
           \A a, b \in D : a..b \subseteq D,
           \A d \in D : d <= now /\ rows[d] = Cardinality(Effective(acts, d, now))
    PROVE  Sound(rows, acts, now)
<1>1. DOMAIN rows = D
  OBVIOUS
<1>2. \A d \in D : rows[d] \in 0..MaxDay
  BY Counted
<1>3. rows \in Rows
  BY <1>1, <1>2, RowsAre
<1>4. Dated(rows, acts, now) /\ Contiguous(rows)
  BY <1>1 DEF Dated, Contiguous
<1>5. now \in InitialDay..now
  BY Constants
<1> QED BY <1>3, <1>4, <1>5 DEF Sound

(* The days of a merged file.                                              *)
MergedOn(kept, rows, fetched) ==
    [d \in kept \union DOMAIN fetched |-> IF d \in kept THEN rows[d] ELSE fetched[d]]

(* The days of a merged file, and where each comes from.                   *)
LEMMA MergedDays ==
    ASSUME NEW rows, NEW fetched, NEW target
    PROVE  /\ Whole(rows) => Merged(rows, fetched, target)
                = MergedOn({d \in DOMAIN rows : d > target}, rows, fetched)
           /\ ~Whole(rows) => Merged(rows, fetched, target)
                = MergedOn(DOMAIN rows, rows, fetched)
<1>1. CASE Whole(rows)
  BY <1>1 DEF Merged, MergedOn
<1>2. CASE ~Whole(rows)
  BY <1>2 DEF Merged, MergedOn
<1> QED BY <1>1, <1>2

(* A file that is fetched as a whole: only the session that completed      *)
(* meanwhile can be kept from the old one.                                 *)
LEMMA WholeMerge ==
    ASSUME NEW now \in InitialDay..MaxDay, NEW acts, Past(acts, now),
           NEW target \in 0..MaxDay, target <= now, now <= target + 1,
           NEW rows, Sound(rows, acts, now), Whole(rows),
           NEW returned, returned \subseteq Bootstrap..target,
           NEW fetched, fetched = Prices(acts, returned),
           Checked(rows, fetched, target)
    PROVE  /\ Sound(Merged(rows, fetched, target), acts, now)
           /\ DOMAIN rows \subseteq DOMAIN Merged(rows, fetched, target)
           /\ target \in DOMAIN Merged(rows, fetched, target)
<1>1. returned \subseteq Days /\ returned \subseteq Nat
  BY Constants DEF Days
<1>2. DOMAIN fetched = returned /\ returned # {}
  BY <1>1, PricesRows DEF Checked, Covers
<1> DEFINE F == First(fetched)
<1>3. F \in returned /\ \A d \in returned : F <= d
  BY <1>1, <1>2, FirstDay
<1>4. F..target \subseteq returned
  BY <1>2 DEF Checked, Covers, CoverageStart
<1> HIDE DEF F
<1>5. F \in Nat /\ F <= target /\ returned = F..target
  <2>1. \A d \in returned : d \in Nat /\ F <= d /\ d <= target
    BY <1>1, <1>3, Constants
  <2>2. F \in Nat /\ F <= target
    BY <1>3, <2>1
  <2>3. returned \subseteq F..target
    BY <2>1, <2>2
  <2> QED BY <1>4, <2>2, <2>3
<1> DEFINE kept == {d \in DOMAIN rows : d > target}
           M == Merged(rows, fetched, target)
<1>6. ASSUME NEW d \in kept
      PROVE  d = now /\ d = target + 1 /\ rows[d] = Cardinality(Effective(acts, d, now))
  <2>1. PICK t \in InitialDay..now : Dated(rows, acts, t)
    BY DEF Sound
  <2>2. d \in DOMAIN rows /\ d > target /\ d \in Nat
    BY RowsAre, Constants DEF Sound
  <2>3. d <= t /\ rows[d] = Cardinality(Effective(acts, d, t))
    BY <2>1, <2>2 DEF Dated
  <2>4. d = now /\ d = target + 1 /\ t = now
    BY <2>2, <2>3, Constants
  <2> QED BY <2>3, <2>4
<1>7. M = [d \in kept \union returned |-> IF d \in kept THEN rows[d] ELSE fetched[d]]
  <2>1. M = MergedOn(kept, rows, fetched)
    BY Zenon, MergedDays
  <2> HIDE DEF M, kept
  <2> QED BY <1>2, <2>1 DEF MergedOn
<1>8. kept \subseteq Days
  BY RowsAre DEF Sound
<1> HIDE DEF kept, M
<1> DEFINE D == kept \union returned
<1>9. \A a, b \in D : a..b \subseteq D
  <2>1. ASSUME NEW a \in D, NEW b \in D, NEW x \in a..b PROVE x \in D
    <3>1. a >= F /\ a \in Nat /\ b \in Nat
      BY <1>1, <1>5, <1>6
    <3>2. CASE x <= target
      BY <1>5, <3>1, <3>2
    <3>3. CASE ~ (x <= target)
      <4>1. b \notin returned
        BY <1>5, <3>1, <3>3
      <4>2. b \in kept /\ b = target + 1
        BY <4>1, <1>6
      <4>3. x = b
        BY <3>1, <3>3, <4>2
      <4> QED BY <4>2, <4>3
    <3> QED BY <3>2, <3>3
  <2> QED BY <2>1
<1>10. \A d \in D : d <= now /\ M[d] = Cardinality(Effective(acts, d, now))
  <2>1. ASSUME NEW d \in kept PROVE d <= now /\ M[d] = Cardinality(Effective(acts, d, now))
    <3>1. M[d] = rows[d]
      BY <1>7
    <3> QED BY <1>6, <3>1
  <2>2. ASSUME NEW d \in returned, d \notin kept
        PROVE  d <= now /\ M[d] = Cardinality(Effective(acts, d, now))
    <3>1. M[d] = fetched[d]
      BY <1>7, <2>2
    <3>2. d <= now
      BY <1>5, Constants
    <3> QED BY <3>1, <3>2, PricesNow
  <2> QED BY <2>1, <2>2
<1>11. M = [d \in D |-> M[d]]
  BY <1>7
<1>12. D \subseteq Days
  BY <1>1, <1>8
<1>13. Sound(M, acts, now)
  <2> HIDE DEF D
  <2> QED BY <1>9, <1>10, <1>11, <1>12, PricedNow
<1>14. DOMAIN M = D
  BY <1>7
<1>15. target \in D
  BY <1>5
<1>16. ASSUME NEW d \in DOMAIN rows PROVE d \in D
  <2>1. CASE d > target
    BY <2>1 DEF kept
  <2>2. CASE ~ (d > target)
    <3>1. d \in Nat
      BY RowsAre, Constants DEF Sound
    <3>2. rows # NoFile
      BY NoFileRows
    <3>3. NeedsBackfill(rows)
      BY <3>2 DEF Whole
    <3>4. d <= target
      BY <2>2, <3>1
    <3>5. d \in DOMAIN fetched
      BY <3>3, <3>4 DEF Checked, OverlapMatches
    <3> QED BY <1>2, <3>5
  <2> QED BY <2>1, <2>2
<1> QED BY <1>13, <1>14, <1>15, <1>16 DEF M

(* A file that is extended: the stored last session is confirmed at        *)
(* today's price, so no action has taken effect since the file was priced. *)
LEMMA ExtendMerge ==
    ASSUME NEW now \in InitialDay..MaxDay, NEW acts, Past(acts, now),
           NEW target \in 0..MaxDay, target <= now,
           NEW rows, Sound(rows, acts, now), ~Whole(rows), ~UpToDate(rows, target),
           NEW returned, returned \subseteq Last(rows)..target,
           NEW fetched, fetched = Prices(acts, returned),
           Checked(rows, fetched, target)
    PROVE  /\ Sound(Merged(rows, fetched, target), acts, now)
           /\ DOMAIN rows \subseteq DOMAIN Merged(rows, fetched, target)
           /\ target \in DOMAIN Merged(rows, fetched, target)
<1>1. /\ rows \in Rows /\ rows # NoFile /\ ~NeedsBackfill(rows)
      /\ DOMAIN rows \subseteq Days /\ DOMAIN rows # {}
  BY RowsAre, SomeFile DEF Whole, Sound
<1> DEFINE F == First(rows)
           L == Last(rows)
<1>2. DOMAIN rows \subseteq Nat /\ DOMAIN rows \subseteq 0..MaxDay
  BY <1>1, Constants
<1>3. /\ F \in DOMAIN rows /\ \A d \in DOMAIN rows : F <= d
      /\ L \in DOMAIN rows /\ \A d \in DOMAIN rows : d <= L
  BY <1>1, <1>2, FirstDay, LastDay, Constants
<1>4. L < target
  BY <1>1, <1>2, <1>3 DEF UpToDate
<1>5. L..target \subseteq DOMAIN fetched
  BY Zenon DEF Checked, Covers, CoverageStart
<1>6. rows[L] = fetched[L]
  <2>1. L \in DOMAIN fetched /\ rows[L] = fetched[L]
    BY <1>1, <1>3 DEF Checked, OverlapMatches
  <2> QED BY <2>1
<1>7. DOMAIN fetched = returned
  BY DEF Prices
<1>8. returned \subseteq L..target
  OBVIOUS
<1> HIDE DEF F, L
<1>9. F \in Nat /\ L \in Nat /\ F \in Days /\ L \in Days
  BY <1>1, <1>2, <1>3
<1>10. returned = L..target
  BY <1>5, <1>7, <1>8
<1>11. DOMAIN rows = F..L
  <2>1. F..L \subseteq DOMAIN rows
    BY <1>3 DEF Sound, Contiguous
  <2>2. \A d \in DOMAIN rows : d \in Nat /\ F <= d /\ d <= L
    BY <1>2, <1>3
  <2>3. DOMAIN rows \subseteq F..L
    BY <1>9, <2>2
  <2> QED BY <2>1, <2>3
<1>12. PICK t \in InitialDay..now : Dated(rows, acts, t)
  BY DEF Sound
<1>13. L <= t /\ rows[L] = Cardinality(Effective(acts, L, t))
  BY <1>3, <1>12 DEF Dated
<1>14. L \in returned
  BY <1>4, <1>9, <1>10
<1>15. Cardinality(Effective(acts, L, t)) = Cardinality(Effective(acts, L, now))
  BY <1>6, <1>13, <1>14, PricesNow
<1>16. Effective(acts, L, t) = Effective(acts, L, now)
  <2>1. \A x \in acts : x \in Int
    BY Constants DEF Past
  <2>2. Effective(acts, L, t) \subseteq Effective(acts, L, now)
    BY <2>1, Constants DEF Effective
  <2>3. IsFiniteSet(Effective(acts, L, now))
    BY Counted
  <2> QED BY <1>15, <2>2, <2>3, FS_Subset
<1>17. ASSUME NEW d PROVE Effective(acts, d, t) = Effective(acts, d, now)
  <2>1. \A x \in acts : x \in Int
    BY Constants DEF Past
  <2>2. \A x \in acts : x <= now => x <= t
    <3>1. ASSUME NEW x \in acts, x <= now, ~ (x <= t) PROVE FALSE
      <4>1. L < x
        BY <1>9, <1>13, <2>1, <3>1, Constants
      <4>2. x \in Effective(acts, L, now)
        BY <3>1, <4>1 DEF Effective
      <4>3. x \in Effective(acts, L, t)
        BY <1>16, <4>2
      <4> QED BY <3>1, <4>3 DEF Effective
    <3> QED BY <3>1
  <2>3. \A x \in acts : x <= t => x <= now
    BY <2>1, Constants
  <2> QED BY <2>2, <2>3 DEF Effective
<1> DEFINE M == Merged(rows, fetched, target)
           D == F..target
<1>18. M = [d \in DOMAIN rows \union returned |->
              IF d \in DOMAIN rows THEN rows[d] ELSE fetched[d]]
  <2>1. M = MergedOn(DOMAIN rows, rows, fetched)
    BY Zenon, MergedDays
  <2> HIDE DEF M
  <2> QED BY <1>7, <2>1 DEF MergedOn
<1> HIDE DEF M
<1>19. DOMAIN rows \union returned = D
  <2>1. F <= L
    BY <1>3
  <2> QED BY <1>4, <1>9, <1>10, <1>11, <2>1
<1>20. D \subseteq Days
  BY <1>9, Constants DEF Days
<1>21. \A a, b \in D : a..b \subseteq D
  BY <1>9
<1>22. \A d \in D : d <= now /\ M[d] = Cardinality(Effective(acts, d, now))
  <2>1. ASSUME NEW d \in DOMAIN rows
        PROVE  d <= now /\ M[d] = Cardinality(Effective(acts, d, now))
    <3>1. M[d] = rows[d]
      BY <1>18
    <3>2. d <= t /\ rows[d] = Cardinality(Effective(acts, d, t))
      BY <1>12 DEF Dated
    <3>3. d <= now
      BY <1>2, <3>2, Constants
    <3> QED BY <1>17, <3>1, <3>2, <3>3
  <2>2. ASSUME NEW d \in returned, d \notin DOMAIN rows
        PROVE  d <= now /\ M[d] = Cardinality(Effective(acts, d, now))
    <3>1. M[d] = fetched[d]
      BY <1>18, <2>2
    <3>2. d <= now
      BY <1>9, <1>10, Constants
    <3> QED BY <3>1, <3>2, PricesNow
  <2> QED BY <1>19, <2>1, <2>2
<1>23. M = [d \in D |-> M[d]] /\ DOMAIN M = D
  BY <1>18, <1>19
<1>24. target \in D
  <2>1. F <= L
    BY <1>3
  <2> QED BY <1>4, <1>9, <2>1
<1>25. Sound(M, acts, now)
  <2> HIDE DEF D
  <2> QED BY <1>20, <1>21, <1>22, <1>23, PricedNow
<1> QED BY <1>19, <1>23, <1>24, <1>25 DEF M

(***************************************************************************)
(* The invariant.                                                          *)
(***************************************************************************)

(* The locals of a collector.                                              *)
Locals ==
    [pc : {"idle", "read", "fetch", "replace"},
     target : 0..MaxDay, k : Nat, rows : Rows,
     prepared : [Symbols -> Rows], metadata : [Symbols -> Rows]]

(* What a collector holds is sound, even if others have replaced the files *)
(* since; it is at most one session late.                                  *)
Collecting(l) ==
    /\ l.k >= 1
    /\ l.pc # "idle" => l.target <= today /\ today <= l.target + 1
    /\ l.pc = "fetch" =>
          /\ l.k <= Len(COLLECTED_SYMBOLS)
          /\ Sound(l.rows, actions[COLLECTED_SYMBOLS[l.k]], today)
          /\ ~UpToDate(l.rows, l.target)
    /\ \A s \in Symbols : Sound(l.prepared[s], actions[s], today)

(* A file with a session of the target or later.                           *)
Reaches(rows, target) == \E d \in DOMAIN rows : d >= target

(* How a collector that is alone relates to the files f and the manifest   *)
(* m: what it prepared goes beyond the files, what it skipped is current,  *)
(* what it replaced is as prepared.                                        *)
Described(f, m) == \A s \in Symbols : DOMAIN m[s] \subseteq DOMAIN f[s]

(* Prepared files go beyond those they replace, and to the target.         *)
Extends(l, f) ==
    \A s \in Symbols : l.prepared[s] # NoFile =>
       DOMAIN f[s] \subseteq DOMAIN l.prepared[s] /\ l.target \in DOMAIN l.prepared[s]

(* While files are replaced: those that are left alone are current, and    *)
(* the manifest to be written describes what each file is to be.           *)
Committing(l, f, m) ==
    l.pc = "replace" => \A s \in Symbols :
       /\ l.prepared[s] = NoFile => Reaches(f[s], l.target)
       /\ l.metadata[s] = IF l.prepared[s] # NoFile THEN l.prepared[s] ELSE m[s]

(* Symbols that were skipped are current; files that were replaced are as  *)
(* prepared.                                                               *)
Treated(l, f) ==
    \A i \in DOMAIN COLLECTED_SYMBOLS : i < l.k =>
       LET s == COLLECTED_SYMBOLS[i] IN
       /\ l.pc \in {"read", "fetch"} /\ l.prepared[s] = NoFile => Reaches(f[s], l.target)
       /\ l.pc = "replace" /\ l.prepared[s] # NoFile => f[s] = l.prepared[s]

(* A collector that is alone, against the files and the manifest.          *)
Undisturbed(l, f, m) ==
    /\ Described(f, m)
    /\ Extends(l, f)
    /\ Committing(l, f, m)
    /\ Treated(l, f)
    /\ l.pc = "fetch" => l.rows = f[COLLECTED_SYMBOLS[l.k]]

(* The parts of the invariant.                                             *)
FilesSound == \A s \in Symbols : Sound(file[s], actions[s], today)
ActionsPast == \A s \in Symbols : Past(actions[s], today)
CollectorsSound == \A c \in Collectors : Collecting(proc[c])
LoneCollector == Alone => \A c \in Collectors : Undisturbed(proc[c], file, manifest)

IInv == TypeOK /\ FilesSound /\ ActionsPast /\ CollectorsSound /\ LoneCollector

(* Symbols have positions in the list that is collected.                   *)
LEMMA SetupFacts ==
    ASSUME setup \in Setups
    PROVE  /\ COLLECTED_SYMBOLS \in Seq(Symbols)
           /\ IsFiniteSet(Collectors)
           /\ \A s \in Symbols : \E i \in DOMAIN COLLECTED_SYMBOLS : s = COLLECTED_SYMBOLS[i]
           /\ \A i \in Nat : i >= 1 /\ i <= Len(COLLECTED_SYMBOLS) =>
                 i \in DOMAIN COLLECTED_SYMBOLS /\ COLLECTED_SYMBOLS[i] \in Symbols
<1>1. COLLECTED_SYMBOLS \in Seq(Symbols) /\ IsFiniteSet(Collectors)
  BY MarketDataAssumption DEF COLLECTED_SYMBOLS, Symbols, Collectors
<1>2. \A s \in Symbols : \E i \in DOMAIN COLLECTED_SYMBOLS : s = COLLECTED_SYMBOLS[i]
  BY DEF Symbols, Range
<1>3. \A i \in Nat : i >= 1 /\ i <= Len(COLLECTED_SYMBOLS) =>
        i \in DOMAIN COLLECTED_SYMBOLS /\ COLLECTED_SYMBOLS[i] \in Symbols
  <2> DEFINE S == COLLECTED_SYMBOLS
             T == Symbols
  <2>1. S \in Seq(T)
    BY <1>1
  <2> HIDE DEF S, T
  <2>2. \A i \in Nat : i >= 1 /\ i <= Len(S) => i \in DOMAIN S /\ S[i] \in T
    BY <2>1
  <2> QED BY <2>2 DEF S, T
<1> QED BY <1>1, <1>2, <1>3

(* What does not change with the state.                                    *)
LEMMA SameSetup ==
    ASSUME setup' = setup
    PROVE  /\ Symbols' = Symbols /\ Collectors' = Collectors
           /\ COLLECTED_SYMBOLS' = COLLECTED_SYMBOLS
           /\ Locals' = Locals /\ (Alone <=> Alone')
           /\ Nothing' = Nothing
BY DEF Symbols, Collectors, COLLECTED_SYMBOLS, Locals, Alone, Nothing

(* The types by name.                                                      *)
LEMMA Types ==
    ASSUME TypeOK
    PROVE  /\ proc \in [Collectors -> Locals] /\ file \in [Symbols -> Rows]
           /\ manifest \in [Symbols -> Rows] /\ today \in InitialDay..MaxDay
           /\ today \in 0..MaxDay
BY Constants DEF TypeOK, Locals

(* Collecting depends on the market only ...                               *)
LEMMA SameCollecting ==
    ASSUME setup' = setup, today' = today, actions' = actions, NEW l
    PROVE  Collecting(l)' <=> Collecting(l)
BY SameSetup DEF Collecting

(* ... and Undisturbed on its arguments.                                   *)
LEMMA SameUndisturbed ==
    ASSUME setup' = setup, NEW l, NEW f, NEW m
    PROVE  Undisturbed(l, f, m)' <=> Undisturbed(l, f, m)
BY SameSetup DEF Undisturbed, Described, Extends, Committing, Treated

(* A collector that is alone.                                              *)
LEMMA OnlyOne ==
    ASSUME TypeOK, Alone, NEW c \in Collectors
    PROVE  Collectors = {c}
<1>1. IsFiniteSet(Collectors)
  BY SetupFacts DEF TypeOK
<1> QED BY <1>1, FS_Singleton DEF Alone

(***************************************************************************)
(* A step of a collector: what it has to show of its new locals, of the    *)
(* files and of the manifest.                                              *)
(***************************************************************************)

(* It keeps the invariant if they satisfy its parts.                       *)
LEMMA OwnStep ==
    ASSUME IInv, UNCHANGED <<setup, today, actions>>,
           NEW c \in Collectors, NEW l \in Locals, Collecting(l),
           proc' = [proc EXCEPT ![c] = l],
           NEW f \in [Symbols -> Rows], NEW m \in [Symbols -> Rows],
           file' = f, manifest' = m,
           \A s \in Symbols : Sound(f[s], actions[s], today),
           Alone => Undisturbed(l, f, m)
    PROVE  IInv'
<1>1. TypeOK /\ FilesSound /\ ActionsPast /\ CollectorsSound /\ LoneCollector
  BY DEF IInv
<1>2. /\ Symbols' = Symbols /\ Collectors' = Collectors
      /\ COLLECTED_SYMBOLS' = COLLECTED_SYMBOLS /\ (Alone <=> Alone')
  BY SameSetup
<1>3. proc \in [Collectors -> Locals]
  BY <1>1, Types
<1>4. proc' \in [Collectors -> Locals] /\ proc'[c] = l
      /\ \A x \in Collectors : x # c => proc'[x] = proc[x]
  BY <1>3
<1>5. TypeOK'
  BY <1>1, <1>2, <1>4 DEF TypeOK, Locals
<1>6. FilesSound' /\ ActionsPast'
  BY <1>1, <1>2 DEF FilesSound, ActionsPast
<1>7. CollectorsSound'
  <2>1. ASSUME NEW x \in Collectors PROVE Collecting(proc[x])'
    <3>1. PICK v : v = proc'[x]
      OBVIOUS
    <3>2. Collecting(v)
      BY <1>1, <1>4, <3>1 DEF CollectorsSound
    <3>3. Collecting(v)'
      BY <3>2, SameCollecting
    <3> QED BY <3>1, <3>3 DEF Collecting
  <2> QED BY <1>2, <2>1 DEF CollectorsSound
<1>8. LoneCollector'
  <2>1. SUFFICES ASSUME Alone PROVE Undisturbed(proc[c], file, manifest)'
    <3>1. Alone => Collectors = {c}
      BY <1>1, OnlyOne
    <3> QED BY <1>2, <2>1, <3>1 DEF LoneCollector
  <2>2. Undisturbed(l, f, m)'
    BY <2>1, SameUndisturbed
  <2> QED BY <1>4, <2>2 DEF Undisturbed, Described, Extends, Committing, Treated
<1> QED BY <1>5, <1>6, <1>7, <1>8 DEF IInv

(* What a collector knows at the beginning of its step.                    *)
LEMMA Own ==
    ASSUME IInv, NEW c \in Collectors
    PROVE  /\ proc[c] \in Locals /\ Collecting(proc[c])
           /\ file \in [Symbols -> Rows] /\ manifest \in [Symbols -> Rows]
           /\ \A s \in Symbols : Sound(file[s], actions[s], today)
           /\ Alone => Undisturbed(proc[c], file, manifest)
BY Types DEF IInv, CollectorsSound, FilesSound, LoneCollector

(* A collector that starts has nothing in its hands.                       *)
LEMMA FreshLocals ==
    ASSUME TypeOK, NEW l, l \in {Idle, [Idle EXCEPT !.pc = "read", !.target = today]}
    PROVE  /\ l \in Locals /\ Collecting(l)
           /\ l.pc \in {"idle", "read"} /\ l.k = 1 /\ l.prepared = Nothing
<1>1. /\ NoFile \in Rows /\ Nothing \in [Symbols -> Rows]
      /\ today \in 0..MaxDay /\ 0 \in 0..MaxDay
  BY NoFileRows, Types, Constants DEF Nothing
<1>2. l \in Locals /\ l.pc \in {"idle", "read"} /\ l.k = 1 /\ l.prepared = Nothing
      /\ (l.pc # "idle" => l.target = today)
  <2>1. PICK n \in 0..MaxDay, pc \in {"idle", "read"} :
           /\ l = [pc |-> pc, target |-> n, k |-> 1, rows |-> NoFile,
                   prepared |-> Nothing, metadata |-> Nothing]
           /\ pc # "idle" => n = today
    <3>1. CASE l = Idle
      BY <1>1, <3>1 DEF Idle
    <3>2. CASE l = [Idle EXCEPT !.pc = "read", !.target = today]
      <4>1. l = [pc |-> "read", target |-> today, k |-> 1, rows |-> NoFile,
                 prepared |-> Nothing, metadata |-> Nothing]
        BY <3>2 DEF Idle
      <4> QED BY <1>1, <4>1
    <3> QED BY <3>1, <3>2
  <2> QED BY <1>1, <2>1 DEF Locals
<1>3. \A s \in Symbols : Sound(l.prepared[s], actions[s], today)
  BY <1>2, NoFileSound, Types DEF Nothing
<1>4. Collecting(l)
  BY <1>1, <1>2, <1>3 DEF Collecting
<1> QED BY <1>2, <1>4

(* A collection that begins, or ends, holds nothing.                       *)
LEMMA FreshStep ==
    ASSUME IInv, UNCHANGED <<setup, today, actions>>, file' = file,
           NEW c \in Collectors,
           NEW l, l \in {Idle, [Idle EXCEPT !.pc = "read", !.target = today]},
           proc' = [proc EXCEPT ![c] = l],
           NEW m \in [Symbols -> Rows], manifest' = m,
           Alone => Described(file, m)
    PROVE  IInv'
<1>1. /\ l \in Locals /\ Collecting(l)
      /\ l.pc \in {"idle", "read"} /\ l.k = 1 /\ l.prepared = Nothing
  BY FreshLocals DEF IInv
<1>2. PICK f : f = file
  OBVIOUS
<1>3. /\ f \in [Symbols -> Rows] /\ \A s \in Symbols : Sound(f[s], actions[s], today)
  BY <1>2, Own
<1>4. Alone => Undisturbed(l, f, m)
  <2>1. DOMAIN COLLECTED_SYMBOLS \subseteq Nat \ {0}
    BY SetupFacts DEF IInv, TypeOK
  <2>2. Extends(l, f) /\ Committing(l, f, m) /\ l.pc # "fetch"
    BY <1>1 DEF Extends, Committing, Nothing
  <2>3. Treated(l, f)
    BY <1>1, <2>1 DEF Treated
  <2> QED BY <1>2, <2>2, <2>3 DEF Undisturbed
<1> QED BY <1>1, <1>2, <1>3, <1>4, OwnStep

(* A collection starts.                                                    *)
LEMMA StartStep ==
    ASSUME IInv, NEW c \in Collectors, Start(c)
    PROVE  IInv'
<1>1. PICK l : l = [Idle EXCEPT !.pc = "read", !.target = today]
  OBVIOUS
<1>2. PICK m : m = manifest
  OBVIOUS
<1>3. m \in [Symbols -> Rows] /\ (Alone => Described(file, m))
  BY <1>2, Own DEF Undisturbed
<1>4. /\ proc' = [proc EXCEPT ![c] = l]
      /\ UNCHANGED <<setup, today, actions>> /\ file' = file /\ manifest' = m
  BY <1>1, <1>2 DEF Start
<1> QED BY <1>1, <1>3, <1>4, FreshStep

(* It ends without a write: nothing to do, a failed fetch, or killed.      *)
LEMMA EndStep ==
    ASSUME IInv, NEW c \in Collectors, End(c),
           UNCHANGED <<setup, today, actions, file, manifest>>
    PROVE  IInv'
<1>1. PICK l : l = Idle
  OBVIOUS
<1>2. PICK m : m = manifest
  OBVIOUS
<1>3. m \in [Symbols -> Rows] /\ (Alone => Described(file, m))
  BY <1>2, Own DEF Undisturbed
<1>4. proc' = [proc EXCEPT ![c] = l]
  BY <1>1 DEF End
<1> QED BY <1>1, <1>2, <1>3, <1>4, FreshStep

(* A file is read, and skipped when it is up to date.                      *)
LEMMA ReadStep ==
    ASSUME IInv, NEW c \in Collectors, Read(c)
    PROVE  IInv'
<1> DEFINE v == proc[c]
           S == COLLECTED_SYMBOLS
<1>1. /\ v \in Locals /\ Collecting(v)
      /\ \A s \in Symbols : file[s] \in Rows /\ Sound(file[s], actions[s], today)
      /\ Alone => Undisturbed(v, file, manifest)
  BY Own
<1>2. /\ v.pc = "read" /\ v.k \in Nat /\ v.k >= 1 /\ v.k <= Len(S)
      /\ v.k \in DOMAIN S /\ S[v.k] \in Symbols
      /\ v.target <= today /\ today <= v.target + 1
  BY <1>1, SetupFacts DEF Read, At, Collecting, Locals, IInv, TypeOK
<1>3. PICK f, m : f = file /\ m = manifest
  OBVIOUS
<1>4. /\ f \in [Symbols -> Rows] /\ m \in [Symbols -> Rows]
      /\ \A s \in Symbols : Sound(f[s], actions[s], today)
      /\ UNCHANGED <<setup, today, actions>> /\ file' = f /\ manifest' = m
  BY <1>1, <1>3, Own DEF Read
<1>5. CASE UpToDate(file[S[v.k]], v.target)
  <2>1. PICK l : l = [pc |-> v.pc, target |-> v.target, k |-> v.k + 1, rows |-> v.rows,
                      prepared |-> v.prepared, metadata |-> v.metadata]
    OBVIOUS
  <2>2. proc' = [proc EXCEPT ![c] = l]
    <3>1. proc' = [proc EXCEPT ![c].k = @ + 1]
      BY <1>5 DEF Read, Symbol
    <3>2. l = [v EXCEPT !.k = @ + 1]
      BY <1>1, <2>1 DEF Locals
    <3> QED BY <3>1, <3>2
  <2>3. l \in Locals /\ Collecting(l)
    BY <1>1, <1>2, <2>1 DEF Locals, Collecting
  <2>4. Reaches(f[S[v.k]], v.target)
    <3>1. PICK rows : rows = f[S[v.k]]
      OBVIOUS
    <3>2. rows \in Rows /\ UpToDate(rows, v.target)
      BY <1>2, <1>3, <1>4, <1>5, <3>1
    <3>3. DOMAIN rows \subseteq 0..MaxDay /\ DOMAIN rows # {}
      BY <3>2, SomeFile, RowsAre, Constants DEF UpToDate
    <3>4. Last(rows) \in DOMAIN rows
      BY <3>3, LastDay, Constants
    <3> QED BY <3>1, <3>2, <3>4 DEF Reaches, UpToDate
  <2>5. Alone => Undisturbed(l, f, m)
    <3>1. SUFFICES ASSUME Alone PROVE Undisturbed(l, f, m)
      OBVIOUS
    <3>2. Undisturbed(v, f, m)
      BY <1>1, <1>3, <3>1
    <3>3. /\ l.pc = "read" /\ l.target = v.target /\ l.k = v.k + 1
          /\ l.prepared = v.prepared
      BY <1>2, <2>1
    <3>4. Described(f, m) /\ Extends(l, f) /\ Committing(l, f, m)
      BY <3>2, <3>3 DEF Undisturbed, Extends, Committing
    <3>5. Treated(l, f)
      <4>1. \A i \in DOMAIN S : i < l.k => i < v.k \/ i = v.k
        BY <1>2, <3>3, SetupFacts DEF IInv, TypeOK
      <4> HIDE DEF v
      <4> QED BY <1>2, <2>4, <3>2, <3>3, <4>1 DEF Undisturbed, Treated
    <3> QED BY <3>3, <3>4, <3>5 DEF Undisturbed
  <2> QED BY <1>4, <2>2, <2>3, <2>5, OwnStep
<1>6. CASE ~UpToDate(file[S[v.k]], v.target)
  <2>1. PICK r \in Rows : r = f[S[v.k]]
    BY <1>2, <1>4
  <2>2. PICK l : l = [v EXCEPT !.pc = "fetch", !.rows = r]
    OBVIOUS
  <2>3. proc' = [proc EXCEPT ![c] = l]
    <3>1. proc' = [proc EXCEPT ![c].pc = "fetch", ![c].rows = r]
      BY <1>3, <1>6, <2>1 DEF Read, Symbol
    <3>2. proc \in [Collectors -> Locals]
      BY Types DEF IInv
    <3> QED BY <2>2, <3>1, <3>2
  <2>4. /\ l \in Locals /\ l.pc = "fetch" /\ l.target = v.target /\ l.k = v.k
        /\ l.rows = r /\ l.prepared = v.prepared
    <3>1. v \in Locals
      BY <1>1
    <3> HIDE DEF v
    <3> QED BY <2>2, <3>1 DEF Locals
  <2>6. Collecting(l)
    BY <1>1, <1>2, <1>3, <1>6, <2>1, <2>4 DEF Collecting
  <2>5. Alone => Undisturbed(l, f, m)
    <3>1. SUFFICES ASSUME Alone PROVE Undisturbed(l, f, m)
      OBVIOUS
    <3>2. Undisturbed(v, f, m)
      BY <1>1, <1>3, <3>1
    <3>3. /\ l.pc = "fetch" /\ l.target = v.target /\ l.k = v.k /\ v.pc = "read"
          /\ l.prepared = v.prepared /\ l.rows = f[S[v.k]]
      BY <1>2, <2>1, <2>4
    <3> HIDE DEF v
    <3>4. Described(f, m) /\ Extends(l, f) /\ Committing(l, f, m)
      BY <3>2, <3>3 DEF Undisturbed, Extends, Committing
    <3>5. Treated(l, f)
      BY <3>2, <3>3 DEF Undisturbed, Treated
    <3> QED BY <3>3, <3>4, <3>5 DEF Undisturbed
  <2> QED BY <1>4, <2>3, <2>4, <2>5, <2>6, OwnStep
<1> QED BY <1>5, <1>6

(* The candles are fetched, checked and merged.                            *)
LEMMA FetchStep ==
    ASSUME IInv, NEW c \in Collectors, Fetch(c)
    PROVE  IInv'
<1> DEFINE S == COLLECTED_SYMBOLS
<1>1. PICK v : v = proc[c]
  OBVIOUS
<1>2. PICK f, m, s : f = file /\ m = manifest /\ s = Symbol(c)
  OBVIOUS
<1>3. /\ v \in Locals /\ Collecting(v)
      /\ Alone => Undisturbed(v, f, m)
      /\ f \in [Symbols -> Rows] /\ m \in [Symbols -> Rows]
      /\ \A x \in Symbols : Sound(f[x], actions[x], today)
  BY <1>1, <1>2, Own
<1>4. /\ v.pc = "fetch" /\ v.k \in Nat /\ v.k >= 1 /\ v.k <= Len(S)
      /\ v.target \in 0..MaxDay /\ v.target <= today /\ today <= v.target + 1
      /\ v.prepared \in [Symbols -> Rows] /\ s = S[v.k]
  BY <1>1, <1>2, <1>3 DEF Fetch, At, Collecting, Locals, Symbol
<1>5. v.k \in DOMAIN S /\ s \in Symbols
  BY <1>4, SetupFacts DEF IInv, TypeOK
<1>6. /\ Sound(v.rows, actions[s], today) /\ ~UpToDate(v.rows, v.target)
      /\ Past(actions[s], today) /\ today \in InitialDay..MaxDay
  BY <1>3, <1>4, <1>5, Types DEF Collecting, IInv, ActionsPast
<1>7. PICK returned, fetched :
        /\ returned \in SUBSET (FetchStart(v.rows)..v.target)
        /\ fetched = Prices(actions[s], returned)
        /\ Checked(v.rows, fetched, v.target)
        /\ proc' = [proc EXCEPT
             ![c].pc = "read", ![c].k = @ + 1, ![c].rows = NoFile,
             ![c].prepared[s] = Merged(v.rows, fetched, v.target)]
  <2>1. PICK returned \in SUBSET (FetchStart(proc[c].rows)..proc[c].target) :
          /\ Covers(proc[c].rows, [d \in returned |-> Price(Symbol(c), d)], proc[c].target)
          /\ OverlapMatches(proc[c].rows, [d \in returned |-> Price(Symbol(c), d)], proc[c].target)
          /\ proc' = [proc EXCEPT
               ![c].pc = "read", ![c].k = @ + 1, ![c].rows = NoFile,
               ![c].prepared[Symbol(c)] =
                  Merged(proc[c].rows, [d \in returned |-> Price(Symbol(c), d)], proc[c].target)]
    BY Zenon DEF Fetch
  <2>2. [d \in returned |-> Price(Symbol(c), d)] = Prices(actions[s], returned)
    BY <1>2 DEF Prices, Price
  <2>3. PICK fetched : fetched = Prices(actions[s], returned)
    OBVIOUS
  <2>4. /\ Checked(v.rows, fetched, v.target)
        /\ proc' = [proc EXCEPT
             ![c].pc = "read", ![c].k = @ + 1, ![c].rows = NoFile,
             ![c].prepared[s] = Merged(v.rows, fetched, v.target)]
    BY <1>1, <1>2, <2>1, <2>2, <2>3 DEF Checked
  <2> QED BY <1>1, <2>3, <2>4
<1>8. PICK merged : merged = Merged(v.rows, fetched, v.target)
  OBVIOUS
<1>9. Sound(merged, actions[s], today) /\ DOMAIN v.rows \subseteq DOMAIN merged
      /\ v.target \in DOMAIN merged
  <2>1. CASE Whole(v.rows)
    <3>1. returned \subseteq Bootstrap..v.target
      BY <1>7, <2>1 DEF FetchStart
    <3> QED BY <1>4, <1>6, <1>7, <1>8, <2>1, <3>1, WholeMerge
  <2>2. CASE ~Whole(v.rows)
    <3>1. returned \subseteq Last(v.rows)..v.target
      BY <1>7, <2>2 DEF FetchStart
    <3> QED BY <1>4, <1>6, <1>7, <1>8, <2>2, <3>1, ExtendMerge
  <2> QED BY <2>1, <2>2
<1>10. merged \in Rows /\ merged # NoFile
  BY <1>9, NoFileRows DEF Sound
<1>11. PICK P : P = [v.prepared EXCEPT ![s] = merged]
  OBVIOUS
<1>12. P \in [Symbols -> Rows] /\ P[s] = merged
       /\ \A x \in Symbols : x # s => P[x] = v.prepared[x]
  BY <1>4, <1>5, <1>10, <1>11
<1>13. PICK l : l = [v EXCEPT !.pc = "read", !.k = v.k + 1, !.rows = NoFile, !.prepared = P]
  OBVIOUS
<1>14. proc' = [proc EXCEPT ![c] = l]
  <2>1. proc \in [Collectors -> Locals]
    BY Types DEF IInv
  <2> QED BY <1>1, <1>7, <1>8, <1>11, <1>13, <2>1 DEF Locals
<1>15. /\ l \in Locals /\ l.pc = "read" /\ l.target = v.target /\ l.k = v.k + 1
       /\ l.prepared = P
  <2>1. PICK k \in Nat : k = v.k + 1
    BY <1>4
  <2>2. l = [v EXCEPT !.pc = "read", !.k = k, !.rows = NoFile, !.prepared = P]
    BY <1>13, <2>1
  <2>3. NoFile \in Rows
    BY NoFileRows
  <2>4. /\ l \in Locals /\ l.pc = "read" /\ l.target = v.target /\ l.k = k
        /\ l.prepared = P
    BY <1>3, <1>12, <2>2, <2>3 DEF Locals
  <2> QED BY <2>1, <2>4
<1>16. Collecting(l)
  BY <1>3, <1>4, <1>5, <1>9, <1>12, <1>15 DEF Collecting
<1>17. Alone => Undisturbed(l, f, m)
  <2>1. SUFFICES ASSUME Alone PROVE Undisturbed(l, f, m)
    OBVIOUS
  <2>2. Undisturbed(v, f, m) /\ v.rows = f[s]
    BY <1>3, <1>4, <2>1 DEF Undisturbed
  <2>3. Described(f, m) /\ Committing(l, f, m)
    BY <1>15, <2>2 DEF Undisturbed, Committing
  <2>4. Extends(l, f)
    <3>1. ASSUME NEW x \in Symbols, P[x] # NoFile
          PROVE  DOMAIN f[x] \subseteq DOMAIN P[x] /\ v.target \in DOMAIN P[x]
      <4>1. CASE x = s
        BY <1>9, <1>12, <2>2, <4>1
      <4>2. CASE x # s
        BY <1>12, <2>2, <3>1, <4>2 DEF Undisturbed, Extends
      <4> QED BY <4>1, <4>2
    <3> QED BY <1>15, <3>1 DEF Extends
  <2>5. Treated(l, f)
    <3>1. ASSUME NEW i \in DOMAIN S, i < l.k, P[S[i]] = NoFile
          PROVE  Reaches(f[S[i]], v.target)
      <4>1. i # v.k
        BY <1>4, <1>10, <1>12, <3>1
      <4>2. i < v.k /\ S[i] \in Symbols
        <5>1. i \in Nat /\ S[i] \in Symbols
          BY SetupFacts DEF IInv, TypeOK
        <5> QED BY <1>4, <1>15, <3>1, <4>1, <5>1
      <4>3. S[i] # s
        BY <1>10, <1>12, <3>1
      <4>4. v.prepared[S[i]] = NoFile
        BY <1>12, <3>1, <4>2, <4>3
      <4> QED BY <1>4, <2>2, <4>2, <4>4 DEF Undisturbed, Treated
    <3> QED BY <1>15, <3>1 DEF Treated
  <2> QED BY <1>15, <2>3, <2>4, <2>5 DEF Undisturbed
<1>18. UNCHANGED <<setup, today, actions>> /\ file' = f /\ manifest' = m
  BY <1>2 DEF Fetch
<1> QED BY <1>3, <1>14, <1>15, <1>16, <1>17, <1>18, OwnStep

(* All symbols are through: the manifest is prepared.                      *)
LEMMA ReadMetadataStep ==
    ASSUME IInv, NEW c \in Collectors, ReadMetadata(c)
    PROVE  IInv'
<1> DEFINE S == COLLECTED_SYMBOLS
<1>1. PICK v : v = proc[c]
  OBVIOUS
<1>2. PICK f, m : f = file /\ m = manifest
  OBVIOUS
<1>3. /\ v \in Locals /\ Collecting(v)
      /\ Alone => Undisturbed(v, f, m)
      /\ f \in [Symbols -> Rows] /\ m \in [Symbols -> Rows]
      /\ \A x \in Symbols : Sound(f[x], actions[x], today)
  BY <1>1, <1>2, Own
<1>4. /\ v.pc = "read" /\ v.k > Len(S) /\ v.k \in Nat
      /\ v.target <= today /\ today <= v.target + 1
      /\ v.prepared \in [Symbols -> Rows]
  BY <1>1, <1>3 DEF ReadMetadata, At, Collecting, Locals
<1>5. PICK M : M = [s \in Symbols |-> IF v.prepared[s] # NoFile THEN v.prepared[s]
                                                                ELSE m[s]]
  OBVIOUS
<1>6. M \in [Symbols -> Rows]
  BY <1>3, <1>4, <1>5
<1>7. PICK l : l = [v EXCEPT !.pc = "replace", !.k = 1, !.metadata = M]
  OBVIOUS
<1>8. proc' = [proc EXCEPT ![c] = l]
  <2>1. M = [s \in Symbols |-> IF s \in Prepared(c) THEN proc[c].prepared[s]
                                                    ELSE manifest[s]]
    BY <1>1, <1>2, <1>5 DEF Prepared
  <2>2. proc' = [proc EXCEPT ![c].pc = "replace", ![c].k = 1, ![c].metadata = M]
    BY <2>1 DEF ReadMetadata
  <2>3. proc \in [Collectors -> Locals]
    BY Types DEF IInv
  <2> QED BY <1>1, <1>7, <2>2, <2>3
<1>9. /\ l \in Locals /\ l.pc = "replace" /\ l.target = v.target /\ l.k = 1
      /\ l.prepared = v.prepared /\ l.metadata = M
  BY <1>3, <1>6, <1>7 DEF Locals
<1>10. Collecting(l)
  BY <1>3, <1>4, <1>9 DEF Collecting
<1>11. Alone => Undisturbed(l, f, m)
  <2>1. SUFFICES ASSUME Alone PROVE Undisturbed(l, f, m)
    OBVIOUS
  <2>2. Undisturbed(v, f, m)
    BY <1>3, <2>1
  <2>3. Described(f, m) /\ Extends(l, f)
    BY <1>9, <2>2 DEF Undisturbed, Extends
  <2>4. Committing(l, f, m)
    <3>1. ASSUME NEW s \in Symbols, v.prepared[s] = NoFile
          PROVE  Reaches(f[s], v.target)
      <4>1. PICK i \in DOMAIN S : s = S[i]
        BY SetupFacts DEF IInv, TypeOK
      <4>2. i < v.k
        BY <1>4, SetupFacts DEF IInv, TypeOK
      <4> QED BY <1>4, <2>2, <3>1, <4>1, <4>2 DEF Undisturbed, Treated
    <3> QED BY <1>5, <1>9, <3>1 DEF Committing
  <2>5. Treated(l, f)
    <3>1. \A i \in DOMAIN S : ~ (i < 1)
      BY SetupFacts DEF IInv, TypeOK
    <3> QED BY <1>9, <3>1 DEF Treated
  <2> QED BY <1>9, <2>3, <2>4, <2>5 DEF Undisturbed
<1>12. UNCHANGED <<setup, today, actions>> /\ file' = f /\ manifest' = m
  BY <1>2 DEF ReadMetadata
<1> QED BY <1>3, <1>8, <1>9, <1>10, <1>11, <1>12, OwnStep

(* A replacement, or none for a file that was skipped.                     *)
LEMMA ReplaceStep ==
    ASSUME IInv, NEW c \in Collectors, Replace(c)
    PROVE  /\ IInv'
           /\ Alone => \A s \in Symbols : DOMAIN file[s] \subseteq DOMAIN file'[s]
<1> DEFINE S == COLLECTED_SYMBOLS
<1>1. PICK v : v = proc[c]
  OBVIOUS
<1>2. PICK f, g, m, s : f = file /\ g = file' /\ m = manifest /\ s = Symbol(c)
  OBVIOUS
<1>3. /\ v \in Locals /\ Collecting(v)
      /\ Alone => Undisturbed(v, f, m)
      /\ f \in [Symbols -> Rows] /\ m \in [Symbols -> Rows]
      /\ \A x \in Symbols : Sound(f[x], actions[x], today)
      /\ \A x \in Symbols : Sound(v.prepared[x], actions[x], today)
  BY <1>1, <1>2, Own DEF Collecting
<1>4. /\ v.pc = "replace" /\ v.k <= Len(S) /\ v.k \in Nat /\ v.k >= 1
      /\ v.target <= today /\ today <= v.target + 1
      /\ v.prepared \in [Symbols -> Rows] /\ s = S[v.k]
  BY <1>1, <1>2, <1>3 DEF Replace, At, Collecting, Locals, Symbol
<1>5. v.k \in DOMAIN S /\ s \in Symbols
  BY <1>4, SetupFacts DEF IInv, TypeOK
<1>6. g = IF v.prepared[s] # NoFile THEN [f EXCEPT ![s] = v.prepared[s]] ELSE f
  BY <1>1, <1>2, <1>5 DEF Replace, Prepared
<1>7. /\ g \in [Symbols -> Rows]
      /\ v.prepared[s] # NoFile => g[s] = v.prepared[s]
      /\ \A x \in Symbols : g[x] = f[x] \/ (x = s /\ v.prepared[s] # NoFile
                                                  /\ g[x] = v.prepared[x])
  BY <1>3, <1>4, <1>5, <1>6
<1>8. PICK l : l = [v EXCEPT !.k = v.k + 1]
  OBVIOUS
<1>9. proc' = [proc EXCEPT ![c] = l]
  BY <1>1, <1>8 DEF Replace
<1>10. /\ l \in Locals /\ l.pc = "replace" /\ l.target = v.target /\ l.k = v.k + 1
       /\ l.prepared = v.prepared /\ l.metadata = v.metadata
  BY <1>3, <1>4, <1>8 DEF Locals
<1>11. Collecting(l)
  BY <1>3, <1>4, <1>10 DEF Collecting
<1>12. \A x \in Symbols : Sound(g[x], actions[x], today)
  BY <1>3, <1>7
<1>13. ASSUME Alone
       PROVE  \A x \in Symbols : DOMAIN f[x] \subseteq DOMAIN g[x]
  BY <1>3, <1>7, <1>13 DEF Undisturbed, Extends
<1>14. Alone => Undisturbed(l, g, m)
  <2>1. SUFFICES ASSUME Alone PROVE Undisturbed(l, g, m)
    OBVIOUS
  <2>2. Undisturbed(v, f, m) /\ \A x \in Symbols : DOMAIN f[x] \subseteq DOMAIN g[x]
    BY <1>3, <1>13, <2>1
  <2>3. Described(g, m)
    BY <2>2 DEF Undisturbed, Described
  <2>4. Extends(l, g)
    BY <1>7, <1>10, <2>2 DEF Undisturbed, Extends
  <2>5. Committing(l, g, m)
    BY <1>4, <1>10, <2>2 DEF Undisturbed, Committing, Reaches
  <2>6. Treated(l, g)
    <3>1. ASSUME NEW i \in DOMAIN S, i < l.k, v.prepared[S[i]] # NoFile
          PROVE  g[S[i]] = v.prepared[S[i]]
      <4>1. i \in Nat /\ S[i] \in Symbols
        BY SetupFacts DEF IInv, TypeOK
      <4>2. CASE i = v.k
        BY <1>4, <1>7, <3>1, <4>2
      <4>3. CASE i < v.k
        <5>1. f[S[i]] = v.prepared[S[i]]
          BY <1>4, <2>2, <3>1, <4>3 DEF Undisturbed, Treated
        <5> QED BY <1>7, <4>1, <5>1
      <4> QED BY <1>4, <1>10, <3>1, <4>1, <4>2, <4>3
    <3> QED BY <1>10, <3>1 DEF Treated
  <2> QED BY <1>10, <2>3, <2>4, <2>5, <2>6 DEF Undisturbed
<1>15. UNCHANGED <<setup, today, actions>> /\ file' = g /\ manifest' = m
  BY <1>2 DEF Replace
<1>16. IInv'
  BY <1>3, <1>7, <1>9, <1>10, <1>11, <1>12, <1>14, <1>15, OwnStep
<1> QED BY <1>2, <1>13, <1>16

(* When a lone collector has gone through the symbols in order to replace  *)
(* their files, every file is current and as its metadata says.            *)
LEMMA Replaced ==
    ASSUME TypeOK, NEW l, NEW f, NEW m, Undisturbed(l, f, m), l.k \in Nat,
           l.target \in Nat, l.pc = "replace", l.k > Len(COLLECTED_SYMBOLS), NEW s \in Symbols
    PROVE  Reaches(f[s], l.target) /\ DOMAIN l.metadata[s] \subseteq DOMAIN f[s]
<1> DEFINE S == COLLECTED_SYMBOLS
<1>1. CASE l.prepared[s] = NoFile
  <2>1. Reaches(f[s], l.target) /\ l.metadata[s] = m[s]
    BY <1>1 DEF Undisturbed, Committing
  <2> QED BY <2>1 DEF Undisturbed, Described
<1>2. CASE l.prepared[s] # NoFile
  <2>1. PICK i \in DOMAIN S : s = S[i]
    BY SetupFacts DEF TypeOK
  <2>2. i < l.k
    BY SetupFacts DEF TypeOK
  <2>3. f[s] = l.prepared[s] /\ l.metadata[s] = l.prepared[s]
    BY <1>2, <2>1, <2>2 DEF Undisturbed, Treated, Committing
  <2>4. l.target \in DOMAIN f[s]
    BY <1>2, <2>3 DEF Undisturbed, Extends
  <2>5. l.target >= l.target
    OBVIOUS
  <2> QED BY <2>3, <2>4, <2>5 DEF Reaches
<1> QED BY <1>1, <1>2

(* The manifest is replaced.                                               *)
LEMMA ReplaceMetadataStep ==
    ASSUME IInv, NEW c \in Collectors, ReplaceMetadata(c)
    PROVE  IInv'
<1>1. PICK l : l = Idle
  OBVIOUS
<1>2. PICK v, m : v = proc[c] /\ m = proc[c].metadata
  OBVIOUS
<1>3. /\ v \in Locals /\ v.metadata = m /\ v.pc = "replace" /\ v.k > Len(COLLECTED_SYMBOLS)
      /\ Alone => Undisturbed(v, file, manifest)
  BY <1>2, Own DEF ReplaceMetadata, At
<1>4. m \in [Symbols -> Rows] /\ v.k \in Nat /\ v.target \in Nat
  BY <1>3, Constants DEF Locals
<1>5. Alone => Described(file, m)
  <2>1. SUFFICES ASSUME Alone, NEW s \in Symbols PROVE DOMAIN m[s] \subseteq DOMAIN file[s]
    BY DEF Described
  <2>2. PICK f, n : f = file /\ n = manifest
    OBVIOUS
  <2>3. Undisturbed(v, f, n)
    BY <1>3, <2>1, <2>2
  <2> QED BY <1>3, <1>4, <2>2, <2>3, Replaced DEF IInv
<1>6. /\ proc' = [proc EXCEPT ![c] = l]
      /\ UNCHANGED <<setup, today, actions>> /\ file' = file /\ manifest' = m
  BY <1>1, <1>2 DEF ReplaceMetadata, End
<1> QED BY <1>1, <1>4, <1>5, <1>6, FreshStep

(***************************************************************************)
(* The other steps.                                                        *)
(***************************************************************************)

(* A session completes, maybe with corporate actions.                      *)
LEMMA NextSessionStep ==
    ASSUME IInv, NextSession
    PROVE  IInv'
<1>1. TypeOK /\ FilesSound /\ ActionsPast /\ CollectorsSound /\ LoneCollector
  BY DEF IInv
<1>2. /\ setup' = setup /\ file' = file /\ manifest' = manifest /\ proc' = proc
      /\ today' = today + 1 /\ today < MaxDay
      /\ \A c \in Collectors : proc[c].pc # "idle" => proc[c].target = today
  BY DEF NextSession, At
<1>3. /\ Symbols' = Symbols /\ Collectors' = Collectors /\ Locals' = Locals
      /\ COLLECTED_SYMBOLS' = COLLECTED_SYMBOLS /\ (Alone <=> Alone')
  BY <1>2, SameSetup
<1>4. /\ today \in InitialDay..MaxDay /\ today' \in InitialDay..MaxDay
      /\ today + 1 \in InitialDay + 1..MaxDay
  BY <1>1, <1>2, Constants DEF TypeOK
<1>5. /\ actions' = [s \in Symbols |-> actions'[s]]
      /\ \A s \in Symbols : /\ actions[s] \subseteq actions'[s]
                            /\ actions'[s] \subseteq actions[s] \union {today + 1}
  <2>1. PICK acting \in SUBSET Symbols :
          actions' = [s \in Symbols |-> IF s \in acting THEN actions[s] \union {today + 1}
                                                        ELSE actions[s]]
    BY DEF NextSession
  <2> QED BY <2>1
<1>6. TypeOK'
  <2>1. actions' \in [Symbols -> SUBSET (InitialDay + 1..MaxDay)]
    BY <1>1, <1>4, <1>5 DEF TypeOK
  <2> QED BY <1>1, <1>2, <1>3, <1>4, <2>1 DEF TypeOK
<1>7. ASSUME NEW s \in Symbols, NEW rows, Sound(rows, actions[s], today)
      PROVE  Sound(rows, actions'[s], today')
  BY <1>2, <1>4, <1>5, <1>7, SoundLater
<1>8. FilesSound'
  BY <1>1, <1>2, <1>3, <1>7 DEF FilesSound
<1>9. ActionsPast'
  <2>1. ASSUME NEW s \in Symbols PROVE Past(actions'[s], today')
    <3>1. actions[s] \subseteq InitialDay + 1..today
      BY <1>1 DEF ActionsPast, Past
    <3> QED BY <1>2, <1>4, <1>5, <3>1, Constants DEF Past
  <2> QED BY <1>3, <2>1 DEF ActionsPast, Past
<1>10. CollectorsSound'
  <2>1. ASSUME NEW c \in Collectors PROVE Collecting(proc[c])'
    <3>1. PICK v : v = proc[c]
      OBVIOUS
    <3>2. v \in Locals /\ Collecting(v) /\ (v.pc # "idle" => v.target = today)
      BY <1>1, <1>2, <3>1, Types DEF CollectorsSound
    <3>3. v.pc # "idle" => v.target <= today' /\ today' <= v.target + 1
      BY <1>2, <1>4, <3>2, Constants
    <3>4. v.pc = "fetch" => Sound(v.rows, actions'[COLLECTED_SYMBOLS[v.k]], today')
      <4>1. SUFFICES ASSUME v.pc = "fetch"
                     PROVE  Sound(v.rows, actions'[COLLECTED_SYMBOLS[v.k]], today')
        OBVIOUS
      <4>2. COLLECTED_SYMBOLS[v.k] \in Symbols
        <5>1. v.k \in Nat /\ v.k >= 1 /\ v.k <= Len(COLLECTED_SYMBOLS)
          BY <3>2, <4>1 DEF Collecting, Locals
        <5> QED BY <1>1, <5>1, SetupFacts DEF TypeOK
      <4> QED BY <1>7, <3>2, <4>1, <4>2 DEF Collecting
    <3>5. \A s \in Symbols : Sound(v.prepared[s], actions'[s], today')
      BY <1>7, <3>2 DEF Collecting
    <3>6. v.k >= 1 /\ (v.pc = "fetch" => v.k <= Len(COLLECTED_SYMBOLS)
                                          /\ ~UpToDate(v.rows, v.target))
      BY <3>2 DEF Collecting
    <3>7. Collecting(v)'
      BY <1>3, <3>3, <3>4, <3>5, <3>6 DEF Collecting
    <3> QED BY <1>2, <3>1, <3>7 DEF Collecting
  <2> QED BY <1>3, <2>1 DEF CollectorsSound
<1>11. LoneCollector'
  <2>1. SUFFICES ASSUME Alone, NEW c \in Collectors
                 PROVE  Undisturbed(proc[c], file, manifest)'
    BY <1>3 DEF LoneCollector
  <2>2. PICK v, f, m : v = proc[c] /\ f = file /\ m = manifest
    OBVIOUS
  <2>3. Undisturbed(v, f, m)
    BY <1>1, <2>1, <2>2 DEF LoneCollector
  <2>4. Undisturbed(v, f, m)'
    BY <1>2, <2>3, SameUndisturbed
  <2> QED BY <1>2, <2>2, <2>4 DEF Undisturbed, Described, Extends, Committing, Treated
<1> QED BY <1>6, <1>8, <1>9, <1>10, <1>11 DEF IInv

(* Every step keeps the invariant, and files of a lone collector grow.     *)
LEMMA NextIInv ==
    ASSUME IInv, Next
    PROVE  /\ IInv'
           /\ Alone => \A s \in Symbols : DOMAIN file[s] \subseteq DOMAIN file'[s]
<1>1. CASE NextSession
  BY <1>1, NextSessionStep DEF NextSession
<1>2. ASSUME NEW c \in Collectors, Start(c) \/ Read(c)
      PROVE  IInv' /\ file' = file
  BY <1>2, StartStep, ReadStep DEF Start, Read
<1>3. ASSUME NEW c \in Collectors, Fetch(c)
      PROVE  IInv' /\ file' = file
  BY <1>3, FetchStep DEF Fetch
<1>4. ASSUME NEW c \in Collectors, FetchFails(c) \/ NothingToCommit(c) \/ Crash(c)
      PROVE  IInv' /\ file' = file
  BY <1>4, EndStep DEF FetchFails, NothingToCommit, Crash
<1>5. ASSUME NEW c \in Collectors, ReadMetadata(c) \/ ReplaceMetadata(c)
      PROVE  IInv' /\ file' = file
  BY <1>5, ReadMetadataStep, ReplaceMetadataStep DEF ReadMetadata, ReplaceMetadata
<1> QED BY <1>1, <1>2, <1>3, <1>4, <1>5, ReplaceStep DEF Next

(* So does a stutter.                                                      *)
LEMMA StutterIInv ==
    ASSUME IInv, UNCHANGED vars
    PROVE  IInv'
<1>1. /\ setup' = setup /\ today' = today /\ actions' = actions
      /\ file' = file /\ manifest' = manifest /\ proc' = proc
  BY DEF vars
<1>2. /\ Symbols' = Symbols /\ Collectors' = Collectors /\ Locals' = Locals
      /\ COLLECTED_SYMBOLS' = COLLECTED_SYMBOLS /\ (Alone <=> Alone')
  BY <1>1, SameSetup
<1>3. TypeOK' /\ FilesSound' /\ ActionsPast'
  BY <1>1, <1>2 DEF IInv, TypeOK, FilesSound, ActionsPast
<1>4. CollectorsSound' /\ LoneCollector'
  BY <1>1, <1>2 DEF IInv, CollectorsSound, LoneCollector, Collecting, Undisturbed,
                    Described, Extends, Committing, Treated
<1> QED BY <1>3, <1>4 DEF IInv

(* The repository's own data satisfies it.                                 *)
LEMMA InitIInv == Init => IInv
<1>1. SUFFICES ASSUME Init PROVE IInv
  OBVIOUS
<1>2. /\ setup \in Setups /\ today = InitialDay /\ manifest = file
      /\ actions = [s \in Symbols |-> {}]
      /\ proc = [c \in Collectors |-> Idle]
  BY <1>1 DEF Init
<1>3. ASSUME NEW a \in Bootstrap..InitialDay + 1
      PROVE  Sound([d \in a..InitialDay |-> 0], {}, InitialDay)
  <2>1. Past({}, InitialDay)
    BY DEF Past
  <2>2. \A d : Cardinality(Effective({}, d, InitialDay)) = 0
    BY FS_EmptySet DEF Effective
  <2>3. a..InitialDay \subseteq Days
    BY Constants DEF Days
  <2>4. \A x, y \in a..InitialDay : x..y \subseteq a..InitialDay
    BY Constants
  <2>5. InitialDay \in InitialDay..MaxDay
    BY Constants
  <2> DEFINE rows == [d \in a..InitialDay |-> 0]
             D == a..InitialDay
  <2>6. \A d \in D : d <= InitialDay /\ rows[d] = Cardinality(Effective({}, d, InitialDay))
    BY <2>2, Constants
  <2>7. rows = [d \in D |-> rows[d]]
    OBVIOUS
  <2> HIDE DEF rows, D
  <2>8. Sound(rows, {}, InitialDay)
    BY <2>1, <2>3, <2>4, <2>5, <2>6, <2>7, PricedNow DEF D
  <2> QED BY <2>8 DEF rows
<1>4. /\ file = [s \in Symbols |-> file[s]]
      /\ \A s \in Symbols : Sound(file[s], actions[s], today)
  <2>1. \A s \in Symbols : \E a \in Bootstrap..InitialDay + 1 :
           file[s] = [d \in a..InitialDay |-> 0]
    BY <1>1 DEF Init
  <2>2. file = [s \in Symbols |-> file[s]]
    BY <1>1 DEF Init
  <2> QED BY <1>2, <1>3, <2>1, <2>2
<1>5. file \in [Symbols -> Rows]
  BY <1>4 DEF Sound
<1>6. Idle \in Locals /\ Idle.pc = "idle" /\ Idle.k = 1 /\ Idle.prepared = Nothing
  BY NoFileRows, Constants DEF Idle, Locals, Nothing
<1>7. proc \in [Collectors -> Locals]
  BY <1>2, <1>6
<1>8. TypeOK
  <2>1. today \in InitialDay..MaxDay
    BY <1>2, Constants
  <2> QED BY <1>2, <1>5, <1>7, <2>1 DEF TypeOK, Locals
<1>9. FilesSound /\ ActionsPast
  BY <1>2, <1>4 DEF FilesSound, ActionsPast, Past
<1>10. CollectorsSound
  <2>1. Collecting(Idle)
    BY <1>8, FreshLocals
  <2> QED BY <1>2, <2>1 DEF CollectorsSound
<1>11. LoneCollector
  <2>1. DOMAIN COLLECTED_SYMBOLS \subseteq Nat \ {0}
    BY <1>2, SetupFacts
  <2>2. Undisturbed(Idle, file, manifest)
    BY <1>2, <1>6, <2>1 DEF Undisturbed, Described, Extends, Committing, Treated, Nothing
  <2> QED BY <1>2, <2>2 DEF LoneCollector
<1> QED BY <1>8, <1>9, <1>10, <1>11 DEF IInv

(* The invariant holds in every reachable state.                           *)
LEMMA Invariance == Spec => []IInv
<1>1. IInv /\ [Next]_vars => IInv'
  BY NextIInv, StutterIInv
<1> QED BY InitIInv, <1>1, PTL DEF Spec

(***************************************************************************)
(* Theorems.                                                               *)
(***************************************************************************)

(* Every step of a collection and of the market keeps to the types.        *)
THEOREM MarketDataTypeCorrect == Spec => []TypeOK
<1>1. IInv => TypeOK
  BY DEF IInv
<1> QED BY Invariance, <1>1, PTL

(* No file has a gap, for any number of collectors that replace each       *)
(* other's files, are killed, and get incomplete answers.                  *)
THEOREM NoGaps == Spec => []ContiguousSessions
<1>1. IInv => ContiguousSessions
  BY DEF IInv, FilesSound, Sound, Contiguous, ContiguousSessions
<1> QED BY Invariance, <1>1, PTL

(* No file mixes price bases, for any number of collectors and any         *)
(* corporate actions: comparing the last stored session is enough.         *)
THEOREM OnePriceBasis == Spec => []OneBasis
<1>1. IInv => OneBasis
  <2>1. SUFFICES ASSUME IInv, NEW s \in Symbols
                 PROVE  \E t \in InitialDay..today : \A d \in DOMAIN file[s] :
                          file[s][d] = Cardinality({x \in actions[s] : d < x /\ x <= t})
    BY DEF OneBasis
  <2>2. PICK t \in InitialDay..today : Dated(file[s], actions[s], t)
    BY <2>1 DEF IInv, FilesSound, Sound
  <2> QED BY <2>2 DEF Dated, Effective
<1> QED BY Invariance, <1>1, PTL

(* One collection at a time, killed anywhere: the manifest claims no       *)
(* session that its file does not have.                                    *)
THEOREM ManifestAfterFiles == Spec => []ManifestNeverAhead
<1>1. IInv => ManifestNeverAhead
  <2>1. SUFFICES ASSUME IInv, Alone, NEW s \in Symbols
                 PROVE  DOMAIN manifest[s] \subseteq DOMAIN file[s]
    BY DEF ManifestNeverAhead
  <2>2. PICK c : Collectors = {c}
    <3>1. IsFiniteSet(Collectors)
      BY <2>1, SetupFacts DEF IInv, TypeOK
    <3> QED BY <2>1, <3>1, FS_Singleton DEF Alone
  <2>3. Undisturbed(proc[c], file, manifest)
    BY <2>1, <2>2 DEF IInv, LoneCollector
  <2> QED BY <2>3 DEF Undisturbed, Described
<1> QED BY Invariance, <1>1, PTL

(* ... and no stored session is ever taken out of a file.                  *)
THEOREM NoSessionLost == Spec => FilesNeverRegress
<1>1. IInv /\ [Next]_vars =>
        [Alone => \A s \in Symbols : DOMAIN file[s] \subseteq DOMAIN file'[s]]_vars
  BY NextIInv
<1> QED BY Invariance, <1>1, PTL DEF Spec, FilesNeverRegress

(* A lone collection that reports success has brought every file to its    *)
(* target, whatever earlier ones were killed before.                       *)
THEOREM SuccessMeansCurrent == Spec => CompletedMeansCurrent
<1> DEFINE A == \A c \in Collectors : Alone /\ Completes(c) =>
                  \A s \in Symbols : /\ file'[s] # NoFile
                                     /\ Last(file'[s]) >= proc[c].target
<1>1. IInv => A
  <2>1. SUFFICES ASSUME IInv, NEW c \in Collectors, Alone, Completes(c), NEW s \in Symbols
                 PROVE  /\ file'[s] # NoFile
                        /\ Last(file'[s]) >= proc[c].target
    OBVIOUS
  <2>2. PICK v, f, m : v = proc[c] /\ f = file /\ m = manifest
    OBVIOUS
  <2>3. /\ v \in Locals /\ v.k > Len(COLLECTED_SYMBOLS) /\ v.k \in Nat
        /\ Undisturbed(v, f, m) /\ f[s] \in Rows /\ file' = f
        /\ v.target \in Nat
    BY <2>1, <2>2, Own, Constants DEF Completes, NothingToCommit, ReplaceMetadata, Locals
  <2>4. Reaches(f[s], v.target)
    <3>1. CASE NothingToCommit(c)
      <4>1. v.pc = "read" /\ v.prepared[s] = NoFile
        BY <2>2, <3>1 DEF NothingToCommit, At, Prepared
      <4>2. PICK i \in DOMAIN COLLECTED_SYMBOLS : s = COLLECTED_SYMBOLS[i]
        BY <2>1, SetupFacts DEF IInv, TypeOK
      <4>3. i < v.k
        BY <2>1, <2>3, SetupFacts DEF IInv, TypeOK
      <4> QED BY <2>3, <4>1, <4>2, <4>3 DEF Undisturbed, Treated
    <3>2. CASE ReplaceMetadata(c)
      <4>1. v.pc = "replace"
        BY <2>2, <3>2 DEF ReplaceMetadata, At
      <4> QED BY <2>1, <2>3, <4>1, Replaced DEF IInv
    <3> QED BY <2>1, <3>1, <3>2 DEF Completes
  <2>5. PICK d \in DOMAIN f[s] : d >= v.target
    BY <2>4 DEF Reaches
  <2>6. DOMAIN f[s] \subseteq 0..MaxDay /\ DOMAIN f[s] # {}
    BY <2>3, <2>5, RowsAre, Constants
  <2>7. Last(f[s]) \in DOMAIN f[s] /\ d <= Last(f[s])
    BY <2>6, LastDay, Constants
  <2>8. Last(f[s]) >= v.target
    BY <2>3, <2>5, <2>6, <2>7
  <2> QED BY <2>2, <2>3, <2>6, <2>8, NoFileRows
<1>2. IInv /\ [Next]_vars => [A]_vars
  BY <1>1
<1> QED BY Invariance, <1>2, PTL DEF Spec, CompletedMeansCurrent
=============================================================================
