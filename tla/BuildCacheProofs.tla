--------------------------- MODULE BuildCacheProofs ---------------------------
(***************************************************************************)
(* Proofs about BuildCache, for every number of entries and workers, every  *)
(* day to begin at and any horizon: the dates are the days of the clock, no *)
(* young entry is pruned, a worker measures what discovery saw, and it      *)
(* deletes what its action was planned for and less than one entry more.    *)
(***************************************************************************)
EXTENDS BuildCache, PlannerProofs, FiniteSetTheorems, WellFoundedInduction

(* Arithmetic. *)
LEMMA LeastOf ==
  ASSUME NEW S \in SUBSET Nat, S # {}
  PROVE  Min(S) \in S /\ \A m \in S : Min(S) <= m
<1>1. IsWellFoundedOn(OpToRel(<, Nat), Nat) BY NatLessThanWellFounded
<1>2. PICK n \in S : \A m \in S : <<m, n>> \notin OpToRel(<, Nat)
  BY <1>1, WFMin
<1>3. \A m \in S : ~(m < n) BY <1>2 DEF OpToRel
<1>4. \E l \in S : \A m \in S : l <= m BY <1>3
<1> QED BY <1>4 DEF Min

LEMMA Times ==
  ASSUME NEW a \in Nat, NEW b \in Nat, a <= b, NEW d \in Nat
  PROVE  a * d \in Nat /\ a * d <= b * d
OBVIOUS

LEMMA OnceMore ==
  ASSUME NEW d \in Nat, NEW q \in Int
  PROVE  d * q \in Int /\ d * (q + 1) = d * q + d
OBVIOUS

LEMMA Quotient ==
  ASSUME NEW n \in Nat, NEW d \in Nat, 0 < d
  PROVE  /\ n \div d \in Nat /\ n % d \in 0 .. d - 1
         /\ n = d * (n \div d) + (n % d)
OBVIOUS

LEMMA QuotientIs ==
  ASSUME NEW n \in Nat, NEW d \in Nat, 0 < d, NEW q \in Nat, NEW r \in 0 .. d - 1,
         n = d * q + r
  PROVE  n \div d = q /\ n % d = r
<1>1. CASE n \div d < q
  <2>1. d * (n \div d + 1) <= d * q BY <1>1, Quotient
  <2> QED BY <2>1, Quotient
<1>2. CASE n \div d > q
  <2>1. d * (q + 1) <= d * (n \div d) BY <1>2, Quotient
  <2> QED BY <2>1, Quotient
<1>3. n \div d \in Nat BY Quotient
<1>4. n \div d = q BY <1>1, <1>2, <1>3
<1> QED BY <1>4, Quotient

(* The hour that begins a day. *)
LEMMA NextHour ==
  ASSUME NEW n \in Nat, NEW d \in Nat, 0 < d
  PROVE  (n + 1) \div d = IF (n + 1) % d = 0 THEN n \div d + 1 ELSE n \div d
<1> DEFINE q == n \div d
           r == n % d
<1>1. q \in Nat /\ r \in 0 .. d - 1 /\ n = d * q + r BY Quotient
<1>2. d * q \in Int /\ d * (q + 1) = d * q + d BY <1>1, OnceMore
<1> HIDE DEF q, r
<1>3. CASE r = d - 1
  <2>1. n + 1 = d * (q + 1) + 0 BY <1>1, <1>2, <1>3
  <2>2. q + 1 \in Nat /\ 0 \in 0 .. d - 1 /\ n + 1 \in Nat BY <1>1
  <2>3. (n + 1) \div d = q + 1 /\ (n + 1) % d = 0
    BY <2>1, <2>2, QuotientIs
  <2> QED BY <2>3 DEF q
<1>4. CASE r # d - 1
  <2>1. n + 1 = d * q + (r + 1) BY <1>1, <1>2
  <2>2. r + 1 \in 0 .. d - 1 /\ n + 1 \in Nat BY <1>1, <1>4
  <2>3. (n + 1) \div d = q /\ (n + 1) % d = r + 1
    BY <1>1, <2>1, <2>2, QuotientIs
  <2> QED BY <1>1, <2>3 DEF q
<1> QED BY <1>3, <1>4

LEMMA DayZero ==
  ASSUME NEW d \in Nat, 0 < d
  PROVE  0 \div d = 0
<1>1. 0 = d * 0 + 0 /\ 0 \in 0 .. d - 1 OBVIOUS
<1> QED BY <1>1, QuotientIs

-----------------------------------------------------------------------------
(* The calendar. *)

(* Days before the March of a year, in the years that begin with it.        *)
InEra(a, b) == a * 146097 + b * 365 + b \div 4 - b \div 100

Before(y) == InEra(y \div 400, y % 400)

Shifted(month) == month + (IF month > 2 THEN -3 ELSE 9)

LEMMA Civil ==
  ASSUME NEW d
  PROVE  DaysFromCivil(d)
           = Before(d.year - (IF d.month <= 2 THEN 1 ELSE 0))
               + (153 * Shifted(d.month) + 2) \div 5 + d.day - 1 - 719468
BY DEF DaysFromCivil, Before, InEra, Shifted

(* A year from March on has a day more if it ends in a leap February.       *)
LEMMA YearLength ==
  ASSUME NEW y \in Int
  PROVE  /\ Before(y) \in Int
         /\ Before(y) - Before(y - 1) = IF LeapYear(y) THEN 366 ELSE 365
<1> DEFINE a == y \div 400
           b == y % 400
<1>1. a \in Int /\ b \in 0 .. 399 /\ y = 400 * a + b OBVIOUS
<1>2. y % 4 = b % 4 /\ y % 100 = b % 100 /\ y % 400 = b BY <1>1
<1>3. Before(y) = a * 146097 + b * 365 + b \div 4 - b \div 100
  BY DEF Before, InEra
<1> HIDE DEF a, b
<1>4. CASE b > 0
  <2>1. (y - 1) \div 400 = a /\ (y - 1) % 400 = b - 1 BY <1>1, <1>4
  <2>2. Before(y - 1)
          = a * 146097 + (b - 1) * 365 + (b - 1) \div 4 - (b - 1) \div 100
    <3>1. Before(y - 1) = InEra((y - 1) \div 400, (y - 1) % 400) BY DEF Before
    <3>2. Before(y - 1) = InEra(a, b - 1) BY <2>1, <3>1, Zenon
    <3> QED BY <3>2 DEF InEra
  <2>3. b \div 4 - (b - 1) \div 4 = IF b % 4 = 0 THEN 1 ELSE 0
    BY <1>1, <1>4
  <2>4. b \div 100 - (b - 1) \div 100 = IF b % 100 = 0 THEN 1 ELSE 0
    BY <1>1, <1>4
  <2>5. b % 100 = 0 => b % 4 = 0 BY <1>1
  <2>6. LeapYear(y) <=> b % 4 = 0 /\ b % 100 # 0
    BY <1>1, <1>2, <1>4 DEF LeapYear
  <2> QED BY <1>1, <1>3, <2>2, <2>3, <2>4, <2>5, <2>6
<1>5. CASE b = 0
  <2>1. (y - 1) \div 400 = a - 1 /\ (y - 1) % 400 = 399 BY <1>1, <1>5
  <2>2. Before(y - 1) = (a - 1) * 146097 + 399 * 365 + 399 \div 4 - 399 \div 100
    <3>1. Before(y - 1) = InEra((y - 1) \div 400, (y - 1) % 400) BY DEF Before
    <3>2. Before(y - 1) = InEra(a - 1, 399) BY <2>1, <3>1, Zenon
    <3> QED BY <3>2 DEF InEra
  <2>3. LeapYear(y) BY <1>1, <1>2, <1>5 DEF LeapYear
  <2> QED BY <1>1, <1>3, <1>5, <2>2, <2>3
<1> QED BY <1>1, <1>4, <1>5

Valid(d) == d \in Date /\ d.day <= DaysIn(d.year, d.month)

(* Every day has its number, one more than that of the day before.          *)
LEMMA NextDayCounts ==
  ASSUME NEW d \in Date, Valid(d)
  PROVE  /\ Valid(NextDay(d))
         /\ DaysFromCivil(d) \in Int
         /\ DaysFromCivil(NextDay(d)) = DaysFromCivil(d) + 1
<1>1. d.year \in Nat /\ d.month \in 1 .. 12 /\ d.day \in 1 .. 31
  BY DEF Date
<1>2. \A y \in Nat, m \in 1 .. 12 : DaysIn(y, m) \in 28 .. 31
  BY DEF DaysIn
<1>3. Before(d.year) \in Int /\ Before(d.year - 1) \in Int
  BY <1>1, YearLength
<1>4. DaysFromCivil(d) \in Int
  BY <1>1, <1>3, Civil DEF Shifted
<1>5. CASE d.day < DaysIn(d.year, d.month)
  <2> DEFINE n == [d EXCEPT !.day = @ + 1]
  <2>1. NextDay(d) = n BY <1>5 DEF NextDay
  <2>2. /\ n \in Date /\ n.year = d.year /\ n.month = d.month
        /\ n.day = d.day + 1
    BY <1>1, <1>2, <1>5 DEF Date
  <2>3. Valid(n) BY <1>1, <1>2, <1>5, <2>2 DEF Valid
  <2> HIDE DEF n
  <2>4. DaysFromCivil(n) = DaysFromCivil(d) + 1
    <3> DEFINE y == d.year - (IF d.month <= 2 THEN 1 ELSE 0)
               m == (153 * Shifted(d.month) + 2) \div 5
    <3>1. DaysFromCivil(d) = Before(y) + m + d.day - 1 - 719468 BY Civil
    <3>2. DaysFromCivil(n) = Before(y) + m + n.day - 1 - 719468
      BY <2>2, Civil
    <3>3. Before(y) \in Int /\ m \in Int
      BY <1>1, <1>3 DEF Shifted
    <3> HIDE DEF y, m
    <3> QED BY <1>1, <2>2, <3>1, <3>2, <3>3
  <2> QED BY <1>4, <2>1, <2>3, <2>4
<1>6. CASE d.day = DaysIn(d.year, d.month) /\ d.month < 12
  <2> DEFINE n == [year |-> d.year, month |-> d.month + 1, day |-> 1]
  <2>1. NextDay(d) = n BY <1>1, <1>2, <1>6 DEF NextDay
  <2>2. /\ n \in Date /\ n.year = d.year /\ n.month = d.month + 1 /\ n.day = 1
    BY <1>1, <1>6 DEF Date
  <2> HIDE DEF n
  <2>3. Valid(n)
    <3>1. DaysIn(n.year, n.month) \in 28 .. 31 BY <1>1, <1>2, <2>2 DEF Date
    <3> QED BY <2>2, <3>1 DEF Valid
  <2>4. DaysFromCivil(n) = DaysFromCivil(d) + 1
    <3>1. CASE d.month = 2
      <4>1. d.day = IF LeapYear(d.year) THEN 29 ELSE 28
        BY <1>6, <3>1 DEF DaysIn
      <4>2. DaysFromCivil(d) = Before(d.year - 1) + 337 + d.day - 719469
        BY <1>1, <1>3, <3>1, Civil DEF Shifted
      <4>3. DaysFromCivil(n) = Before(d.year) + 0 + 1 - 719469
        BY <1>1, <1>3, <2>2, <3>1, Civil DEF Shifted
      <4> QED BY <1>1, <1>3, <4>1, <4>2, <4>3, YearLength
    <3>2. CASE d.month # 2
      <4>1. d.day = IF d.month \in {4, 6, 9, 11} THEN 30 ELSE 31
        BY <1>6, <3>2 DEF DaysIn
      <4>2. (n.month <= 2) <=> (d.month <= 2) BY <1>1, <2>2, <3>2
      <4>3. (153 * Shifted(n.month) + 2) \div 5
              = (153 * Shifted(d.month) + 2) \div 5 + d.day
        BY <1>1, <1>6, <2>2, <3>2, <4>1 DEF Shifted
      <4>4. (153 * Shifted(d.month) + 2) \div 5 \in Int
        BY <1>1 DEF Shifted
      <4> QED BY <1>1, <1>3, <2>2, <4>2, <4>3, <4>4, Civil
    <3> QED BY <3>1, <3>2
  <2> QED BY <1>4, <2>1, <2>3, <2>4
<1>7. CASE d.day = DaysIn(d.year, d.month) /\ d.month = 12
  <2> DEFINE n == [year |-> d.year + 1, month |-> 1, day |-> 1]
  <2>1. NextDay(d) = n BY <1>1, <1>7 DEF NextDay
  <2>2. n \in Date /\ n.year = d.year + 1 /\ n.month = 1 /\ n.day = 1
    BY <1>1 DEF Date
  <2> HIDE DEF n
  <2>3. Valid(n)
    <3>1. DaysIn(n.year, n.month) \in 28 .. 31 BY <1>1, <1>2, <2>2 DEF Date
    <3> QED BY <2>2, <3>1 DEF Valid
  <2>4. d.day = 31 BY <1>7 DEF DaysIn
  <2>5. DaysFromCivil(d) = Before(d.year) + 275 + 31 - 719469
    BY <1>1, <1>3, <1>7, <2>4, Civil DEF Shifted
  <2>6. DaysFromCivil(n) = Before(d.year) + 306 + 1 - 719469
    BY <1>1, <1>3, <2>2, Civil DEF Shifted
  <2>7. DaysFromCivil(n) = DaysFromCivil(d) + 1 BY <1>3, <2>5, <2>6
  <2> QED BY <1>4, <2>1, <2>3, <2>7
<1> QED BY <1>1, <1>2, <1>5, <1>6, <1>7 DEF Valid

-----------------------------------------------------------------------------
(* What every state has. *)
Typed ==
  /\ now \in Nat /\ date \in Date
  /\ entry \in [Entries -> [stage : Stages, used : Nat, date : Date]]

LEMMA DaysTyped ==
  ASSUME NEW d \in Date
  PROVE  DaysFromCivil(d) \in Int
<1>1. d.year \in Nat /\ d.month \in 1 .. 12 /\ d.day \in 1 .. 31
  BY DEF Date
<1>2. Before(d.year) \in Int /\ Before(d.year - 1) \in Int
  BY <1>1, YearLength
<1> QED BY <1>1, <1>2, Civil DEF Shifted

LEMMA NextDayTyped ==
  ASSUME NEW d \in Date
  PROVE  NextDay(d) \in Date
<1>1. d.year \in Nat /\ d.month \in 1 .. 12 /\ d.day \in 1 .. 31
  BY DEF Date
<1>2. DaysIn(d.year, d.month) \in 28 .. 31 BY DEF DaysIn
<1>3. CASE d.day < DaysIn(d.year, d.month)
  <2>1. NextDay(d) = [d EXCEPT !.day = @ + 1] BY <1>3 DEF NextDay
  <2> QED BY <1>1, <1>2, <1>3, <2>1 DEF Date
<1>4. CASE ~(d.day < DaysIn(d.year, d.month))
  BY <1>1, <1>4 DEF NextDay, Date
<1> QED BY <1>3, <1>4

LEMMA DayBegun ==
  ASSUME Typed
  PROVE  /\ Today \in Nat
         /\ (now + 1) \div HoursPerDay = IF Midnight THEN Today + 1 ELSE Today
<1>1. HoursPerDay \in Nat /\ 0 < HoursPerDay
  BY BuildCacheAssumption DEF BuildCacheAssumption
<1> QED BY <1>1, NextHour, Quotient DEF Typed, Today, Midnight

LEMMA StartTyped ==
  Init => Typed
<1> SUFFICES ASSUME Init PROVE Typed OBVIOUS
<1>1. PICK start \in StartDates :
        /\ date = start.date /\ now = start.days * HoursPerDay
        /\ entry \in [Entries -> {InStage("future"), InStage("busy"),
                                  [stage |-> "idle", used |-> now, date |-> date]}]
  BY DEF Init
<1>2. start.date \in Date /\ start.days \in Nat /\ HoursPerDay \in Nat
  BY BuildCacheAssumption DEF BuildCacheAssumption
<1>3. now \in Nat /\ date \in Date BY <1>1, <1>2, Times
<1>4. Epoch \in Date BY DEF Epoch, Date
<1>5. {InStage("future"), InStage("busy"),
       [stage |-> "idle", used |-> now, date |-> date]}
        \subseteq [stage : Stages, used : Nat, date : Date]
  BY <1>3, <1>4 DEF InStage, Stages
<1> QED BY <1>1, <1>3, <1>5 DEF Typed

(* A step changes an entry, or the clock, or nothing of either.             *)
EntrySteps ==
  \E e \in Entries :
    \E to \in {InStage("busy"), InStage("gone"),
              [stage |-> "idle", used |-> now, date |-> date]} :
      entry' = [entry EXCEPT ![e] = to]

Removed == \E S \in SUBSET Entries :
  entry' = [e \in Entries |-> IF e \in S THEN InStage("gone") ELSE entry[e]]

LEMMA StepsOfTheCache ==
  Next => \/ UNCHANGED clockVars /\ (EntrySteps \/ Removed \/ UNCHANGED entry)
          \/ PassHour
<1> SUFFICES ASSUME Next, ~PassHour
             PROVE  /\ UNCHANGED clockVars
                    /\ EntrySteps \/ Removed \/ UNCHANGED entry
  OBVIOUS
<1>1. CASE Build BY <1>1 DEF Build, Change, EntrySteps
<1>2. ASSUME NEW w \in Workers, Work(w)
      PROVE  UNCHANGED clockVars /\ (Removed \/ UNCHANGED entry)
  <2>1. ASSUME NEW until, NEW limit, PruneCommand(w, until, limit)
        PROVE  Removed
    BY <2>1 DEF PruneCommand, Removals, Prunable, Removed
  <2>2. CASE Prune(w) BY <2>1, <2>2 DEF Prune
  <2>3. CASE Fallback(w) BY <2>1, <2>3 DEF Fallback
  <2>4. CASE Discover(w) BY <2>4 DEF Discover
  <2>5. CASE Measure(w) BY <2>5 DEF Measure
  <2>6. CASE UnknownFlag(w) BY <2>6 DEF UnknownFlag
  <2>7. CASE CommandFails(w) BY <2>7 DEF CommandFails
  <2> QED BY <1>2, <2>2, <2>3, <2>4, <2>5, <2>6, <2>7 DEF Work
<1> QED BY <1>1, <1>2 DEF Next

LEMMA StepTyped ==
  Typed /\ [Next]_vars => Typed'
<1> SUFFICES ASSUME Typed, [Next]_vars PROVE Typed' OBVIOUS
<1> USE DEF Typed
<1>1. CASE UNCHANGED vars BY <1>1 DEF vars, clockVars
<1>2. CASE PassHour
  <2>1. date' \in Date BY <1>2, NextDayTyped DEF PassHour
  <2> QED BY <1>2, <2>1 DEF PassHour
<1>3. CASE UNCHANGED clockVars /\ (EntrySteps \/ Removed \/ UNCHANGED entry)
  <2>1. now' \in Nat /\ date' \in Date BY <1>3 DEF clockVars
  <2>2. Epoch \in Date BY DEF Epoch, Date
  <2>3. {InStage("busy"), InStage("gone"),
         [stage |-> "idle", used |-> now, date |-> date]}
          \subseteq [stage : Stages, used : Nat, date : Date]
    BY <2>2 DEF InStage, Stages
  <2>4. CASE EntrySteps BY <2>1, <2>3, <2>4 DEF EntrySteps
  <2>5. CASE Removed BY <2>1, <2>3, <2>5 DEF Removed
  <2> QED BY <1>3, <2>1, <2>4, <2>5
<1> QED BY <1>1, <1>2, <1>3, StepsOfTheCache

-----------------------------------------------------------------------------
(* The calendar counts right from where it begins.                          *)
StartsExact ==
  \A start \in StartDates :
    Valid(start.date) /\ DaysFromCivil(start.date) = start.days

Counting ==
  /\ Typed /\ Valid(date) /\ DaysFromCivil(date) = Today
  /\ \A e \in Entries :
       DaysFromCivil(entry[e].date) = entry[e].used \div HoursPerDay

LEMMA EpochCounts ==
  DaysFromCivil(Epoch) = 0 \div HoursPerDay
<1>1. 0 \div HoursPerDay = 0
  BY BuildCacheAssumption, DayZero DEF BuildCacheAssumption
<1>2. DaysFromCivil(Epoch) = 0 BY DEF DaysFromCivil, Epoch
<1> QED BY <1>1, <1>2

LEMMA CalendarInvariant ==
  ASSUME StartsExact
  PROVE  /\ Init => Counting
         /\ Counting /\ [Next]_vars => Counting'
<1>1. HoursPerDay \in Nat /\ 0 < HoursPerDay
  BY BuildCacheAssumption DEF BuildCacheAssumption
<1>2. ASSUME Init PROVE Counting
  <2>1. PICK start \in StartDates :
          /\ date = start.date /\ now = start.days * HoursPerDay
          /\ entry \in [Entries -> {InStage("future"), InStage("busy"),
                               [stage |-> "idle", used |-> now, date |-> date]}]
    BY <1>2 DEF Init
  <2>2. start.days \in Nat
    BY BuildCacheAssumption DEF BuildCacheAssumption
  <2>3. now = HoursPerDay * start.days + 0 /\ 0 \in 0 .. HoursPerDay - 1
    BY <1>1, <2>1, <2>2
  <2>4. now \in Nat BY <1>2, StartTyped DEF Typed
  <2>5. Today = start.days
    BY <1>1, <2>2, <2>3, <2>4, QuotientIs DEF Today
  <2>6. Valid(date) /\ DaysFromCivil(date) = now \div HoursPerDay
    BY <2>1, <2>5 DEF StartsExact, Today
  <2>7. ASSUME NEW e \in Entries
        PROVE  DaysFromCivil(entry[e].date) = entry[e].used \div HoursPerDay
    <3>1. \/ entry[e] \in {InStage("future"), InStage("busy")}
          \/ entry[e] = [stage |-> "idle", used |-> now, date |-> date]
      BY <2>1
    <3> QED BY <2>6, <3>1, EpochCounts DEF InStage
  <2> QED BY <1>2, <2>6, <2>7, StartTyped DEF Counting, Today
<1>3. ASSUME Counting, [Next]_vars PROVE Counting'
  <2>1. Typed /\ Typed' BY <1>3, StepTyped DEF Counting
  <2>2. CASE UNCHANGED vars
    BY <1>3, <2>1, <2>2 DEF Counting, vars, clockVars, Today
  <2>3. CASE PassHour
    <3>1. Valid(date') /\ DaysFromCivil(date') = now' \div HoursPerDay
      <4>1. CASE Midnight
        <5>1. date' = NextDay(date) /\ now' = now + 1
          BY <2>3, <4>1 DEF PassHour
        <5>2. date \in Date /\ Valid(date) /\ DaysFromCivil(date) = Today
          BY <1>3 DEF Counting, Typed
        <5>3. Valid(date') /\ DaysFromCivil(date') = Today + 1
          BY <5>1, <5>2, NextDayCounts
        <5> QED BY <2>1, <4>1, <5>1, <5>3, DayBegun
      <4>2. CASE ~Midnight
        <5>1. date' = date /\ now' = now + 1 BY <2>3, <4>2 DEF PassHour
        <5> QED BY <1>3, <2>1, <4>2, <5>1, DayBegun DEF Counting
      <4> QED BY <4>1, <4>2
    <3>2. entry' = entry BY <2>3 DEF PassHour
    <3> QED BY <1>3, <2>1, <3>1, <3>2 DEF Counting, Today
  <2>4. CASE UNCHANGED clockVars /\ (EntrySteps \/ Removed \/ UNCHANGED entry)
    <3>1. now' = now /\ date' = date BY <2>4 DEF clockVars
    <3>2. \A stage :
            DaysFromCivil(InStage(stage).date)
              = InStage(stage).used \div HoursPerDay
      BY EpochCounts DEF InStage
    <3>3. ASSUME NEW e \in Entries
          PROVE  DaysFromCivil(entry'[e].date) = entry'[e].used \div HoursPerDay
      <4>1. \/ entry'[e] = entry[e]
            \/ entry'[e] \in {InStage("busy"), InStage("gone")}
            \/ entry'[e] = [stage |-> "idle", used |-> now, date |-> date]
        BY <2>1, <2>4 DEF EntrySteps, Removed, Typed
      <4> QED BY <1>3, <3>2, <4>1 DEF Counting, Today
    <3> QED BY <1>3, <2>1, <3>1, <3>3 DEF Counting, Today
  <2> QED BY <1>3, <2>2, <2>3, <2>4, StepsOfTheCache
<1> QED BY <1>2, <1>3

(* If the dates to begin at are the days they are said to be, the dates are *)
(* the days of the clock for ever: over the ends of all months, of leap     *)
(* years and of centuries days_from_civil counts every day once, and the    *)
(* ages in dates are never off.                                             *)
THEOREM CalendarAgrees ==
  ASSUME StartsExact
  PROVE  Spec => []CalendarExact
<1>1. Init => Counting BY CalendarInvariant
<1>2. Counting /\ [Next]_vars => Counting' BY CalendarInvariant
<1>3. Counting => CalendarExact BY DEF Counting, CalendarExact
<1> QED BY <1>1, <1>2, <1>3, PTL DEF Spec

-----------------------------------------------------------------------------
(* What discovery sees. *)
LEMMA Ages ==
  ASSUME Typed, NEW e \in Entries
  PROVE  AgeDays(e) \in Nat \cup {None}
<1>1. DaysFromCivil(entry[e].date) \in Int BY DaysTyped DEF Typed
<1>2. Today \in Nat BY DayBegun
<1> QED BY <1>1, <1>2 DEF AgeDays

LEMMA SameView ==
  ASSUME entry' = entry, shown' = shown, Today' = Today
  PROVE  /\ Eligible' = Eligible
         /\ \A e \in Entries : AgeDays(e)' = AgeDays(e)
<1>1. \A e \in Entries : AgeDays(e)' = AgeDays(e)
  BY DEF AgeDays, Legible
<1>2. \A e \in Entries : OldEnough(e, MinUnusedAgeDays)'
                         = OldEnough(e, MinUnusedAgeDays)
  BY <1>1 DEF OldEnough
<1>3. InCache' = InCache BY DEF InCache
<1>4. \A e \in Entries : KnownIdle(e)' = KnownIdle(e)
  BY DEF KnownIdle, Legible
<1>5. InCache \subseteq Entries BY DEF InCache
<1>6. Eligible' = Eligible BY <1>2, <1>3, <1>4, <1>5 DEF Eligible
<1> QED BY <1>1, <1>6

(* An action for the cache is of the least age of what is counted in, and   *)
(* nothing illegible is left out of that.                                   *)
LEMMA PlannedAge ==
  ASSUME Typed, Eligible # {}, NEW remaining, NEW plan,
         plan = PlanCandidate([InitialPlan EXCEPT !.remaining = remaining],
                              BuildCacheCandidate),
         plan.actions # <<>>, NEW age,
         age = plan.actions[1].candidate.age_days
  PROVE  /\ age \in Nat /\ age >= MinUnusedAgeDays
         /\ \A e \in Eligible : AgeDays(e) \in Nat /\ AgeDays(e) >= age
<1> DEFINE p == [InitialPlan EXCEPT !.remaining = remaining]
           c == BuildCacheCandidate
<1>1. p.actions = <<>> /\ p.skipped = <<>> BY DEF InitialPlan
<1>2. \A why : Skip(p, c, why).actions = <<>> BY DEF Skip, InitialPlan
<1>3. RejectionReason(c) = None
  BY <1>2 DEF PlanCandidate
<1>4. c.metadata_complete /\ ~(c.age_days < MinUnusedAgeDays)
  BY <1>3, PolicyAssumption DEF RejectionReason, PolicyAssumption, Reasons
<1> DEFINE sized == {e \in Eligible : Legible(e, "Size")}
<1>5. sized = Eligible /\ c.age_days = Min({AgeDays(e) : e \in Eligible})
  BY <1>4 DEF BuildCacheCandidate
<1>6. \A e \in Eligible : AgeDays(e) \in Nat
  BY Ages DEF Eligible, InCache, OldEnough
<1>7. /\ c.age_days \in Nat
      /\ \A e \in Eligible : c.age_days <= AgeDays(e)
  <2> DEFINE S == {AgeDays(e) : e \in Eligible}
  <2>1. S \in SUBSET Nat /\ S # {} BY <1>6
  <2> HIDE DEF S
  <2>2. Min(S) \in S /\ \A m \in S : Min(S) <= m BY <2>1, LeastOf
  <2>3. c.age_days = Min(S) BY <1>5 DEF S
  <2>4. \A e \in Eligible : AgeDays(e) \in S BY DEF S
  <2> QED BY <2>1, <2>2, <2>3, <2>4
<1>8. age = c.age_days
  <2>1. \A d, left : Take(p, d, left).actions[1].candidate = d
    BY DEF Take, InitialPlan
  <2>2. \/ \E left : plan = Take(p, c, left)
        \/ \E left : plan = [Take(p, c, left) EXCEPT !.reserved = TRUE]
        \/ \E size, left : plan = Take(p, [c EXCEPT !.size_bytes = size], left)
    <3>1. plan \in {ReserveForUnknown(p, c), SpendOnKnown(p, c)}
      BY <1>2, <1>3 DEF PlanCandidate
    <3>4. \A why : plan # Skip(p, c, why) BY <1>2
    <3> HIDE DEF p, c
    <3>2. CASE plan = ReserveForUnknown(p, c)
      BY <3>2, <3>4 DEF ReserveForUnknown
    <3>3. CASE plan = SpendOnKnown(p, c)
      BY <3>3, <3>4 DEF SpendOnKnown
    <3> QED BY <3>1, <3>2, <3>3
  <2>3. \A left : [Take(p, c, left) EXCEPT !.reserved = TRUE].actions
                    = Take(p, c, left).actions
    BY DEF Take, InitialPlan
  <2>4. \A size : [c EXCEPT !.size_bytes = size].age_days = c.age_days
    BY DEF BuildCacheCandidate
  <2> HIDE DEF p, c
  <2>5. plan.actions[1].candidate.age_days = c.age_days
    <3>1. ASSUME NEW left, plan = Take(p, c, left)
          PROVE  plan.actions[1].candidate = c
      BY <2>1, <3>1
    <3>2. ASSUME NEW left, plan = [Take(p, c, left) EXCEPT !.reserved = TRUE]
          PROVE  plan.actions[1].candidate = c
      <4>1. plan.actions = Take(p, c, left).actions BY <2>3, <3>2
      <4> QED BY <2>1, <4>1
    <3>3. ASSUME NEW size, NEW left,
                 plan = Take(p, [c EXCEPT !.size_bytes = size], left)
          PROVE  plan.actions[1].candidate.age_days = c.age_days
      <4>1. plan.actions[1].candidate = [c EXCEPT !.size_bytes = size]
        BY <2>1, <3>3
      <4> QED BY <2>4, <4>1
    <3> QED BY <2>2, <3>1, <3>2, <3>3
  <2> QED BY <2>5
<1>9. MinUnusedAgeDays \in Nat BY PolicyAssumption DEF PolicyAssumption
<1> HIDE DEF c
<1> QED BY <1>4, <1>6, <1>7, <1>8, <1>9

-----------------------------------------------------------------------------
(* A worker at a command goes by the age of its action, which discovery     *)
(* found, and as long as nothing has changed by what discovery saw.         *)
Running == {"measure", "prune", "fallback"}

Recorded(r) ==
  r = [at |-> r.at, age |-> r.age, target |-> r.target, limit |-> r.limit,
       seen |-> r.seen, measured |-> r.measured, pruned |-> r.pruned,
       other |-> r.other]

OfAge(r) ==
  r.at \in Running => r.age \in Nat /\ r.age >= MinUnusedAgeDays

AsSeen(r) ==
  r.seen # {} =>
    /\ r.at = "measure" =>
         /\ r.seen = Eligible
         /\ \A e \in Eligible : AgeDays(e) \in Nat /\ AgeDays(e) >= r.age
    /\ r.at \in {"prune", "fallback"} => r.measured = r.seen

Guided ==
  /\ Typed
  /\ worker = [w \in Workers |-> worker[w]]
  /\ \A w \in Workers :
       Recorded(worker[w]) /\ OfAge(worker[w]) /\ AsSeen(worker[w])

(* Forgetting what was seen. *)
LEMMA Forgotten ==
  ASSUME NEW r, Recorded(r), OfAge(r), NEW q, q = [r EXCEPT !.seen = {}]
  PROVE  /\ Recorded(q) /\ OfAge(q) /\ q.seen = {} /\ q.pruned = r.pruned
<1>1. q = [at |-> r.at, age |-> r.age, target |-> r.target, limit |-> r.limit,
           seen |-> {}, measured |-> r.measured, pruned |-> r.pruned,
           other |-> r.other]
  BY DEF Recorded
<1>2. q.at = r.at /\ q.age = r.age /\ q.seen = {} /\ q.pruned = r.pruned
  BY <1>1
<1>3. Recorded(q) BY <1>1 DEF Recorded
<1>4. OfAge(q) BY <1>2 DEF OfAge
<1> QED BY <1>2, <1>3, <1>4

(* A worker that did not move, while cache and day stayed as they were.     *)
LEMMA Kept ==
  ASSUME Guided, NEW w \in Workers, worker'[w] = worker[w],
         entry' = entry, shown' = shown, Today' = Today
  PROVE  Recorded(worker'[w]) /\ OfAge(worker'[w]) /\ AsSeen(worker[w])'
<1>1. Eligible' = Eligible /\ \A e \in Entries : AgeDays(e)' = AgeDays(e)
  BY SameView
<1>2. Eligible \subseteq Entries BY DEF Eligible, InCache
<1>3. Recorded(worker[w]) /\ OfAge(worker[w]) /\ AsSeen(worker[w])
  BY DEF Guided
<1>4. AsSeen(worker[w])' BY <1>1, <1>2, <1>3 DEF AsSeen
<1> QED BY <1>3, <1>4

LEMMA GuidedFirst ==
  Init => Guided
<1> SUFFICES ASSUME Init PROVE Guided OBVIOUS
<1>1. worker = [w \in Workers |-> Idle] BY DEF Init
<1>2. Recorded(Idle) /\ OfAge(Idle) /\ Idle.seen = {}
  BY DEF Recorded, OfAge, Idle, Running
<1>3. AsSeen(Idle) BY <1>2 DEF AsSeen
<1> QED BY <1>1, <1>2, <1>3, StartTyped DEF Guided

(* A step of one worker that leaves the cache alone.                        *)
LEMMA OneMoves ==
  ASSUME Guided, NEW w \in Workers, NEW r,
         worker' = [worker EXCEPT ![w] = r],
         UNCHANGED <<entry, shown, clockVars>>,
         Recorded(r), OfAge(r), AsSeen(r)
  PROVE  Guided'
<1>1. Today' = Today /\ entry' = entry /\ shown' = shown /\ now' = now
        /\ date' = date
  BY DEF clockVars, Today
<1>2. Typed' BY <1>1 DEF Guided, Typed
<1>3. worker' = [v \in Workers |-> worker'[v]]
        /\ worker'[w] = r /\ \A v \in Workers \ {w} : worker'[v] = worker[v]
  BY DEF Guided
<1>4. Eligible' = Eligible /\ \A e \in Entries : AgeDays(e)' = AgeDays(e)
  BY <1>1, SameView
<1>5. Eligible \subseteq Entries BY DEF Eligible, InCache
<1>6. AsSeen(worker[w])' BY <1>3, <1>4, <1>5 DEF AsSeen
<1>7. \A v \in Workers \ {w} :
        Recorded(worker'[v]) /\ OfAge(worker'[v]) /\ AsSeen(worker[v])'
  BY <1>1, <1>3, Kept
<1> QED BY <1>2, <1>3, <1>6, <1>7 DEF Guided

LEMMA Assigned ==
  ASSUME NEW age, NEW target, NEW seen, NEW r,
         r = [Idle EXCEPT !.at = "measure", !.age = age, !.target = target,
                          !.seen = seen]
  PROVE  r = [at |-> "measure", age |-> age, target |-> target,
              limit |-> None, seen |-> seen, measured |-> {},
              pruned |-> {}, other |-> {}]
BY DEF Idle

LEMMA DiscoverGuided ==
  ASSUME Guided, NEW w \in Workers, Discover(w)
  PROVE  Guided' /\ worker'[w].pruned = {}
<1>1. Typed /\ Eligible # {} BY DEF Guided, Discover
<1>2. PICK remaining \in 0 .. MaxDeleteBytes :
        LET plan == PlanCandidate([InitialPlan EXCEPT !.remaining = remaining],
                                  BuildCacheCandidate)
        IN  /\ plan.actions # <<>>
            /\ worker' = [worker EXCEPT ![w] =
                 [Idle EXCEPT !.at = "measure",
                              !.age = plan.actions[1].candidate.age_days,
                              !.target = plan.actions[1].candidate.size_bytes,
                              !.seen = Eligible]]
  BY DEF Discover
<1> DEFINE plan == PlanCandidate([InitialPlan EXCEPT !.remaining = remaining],
                                 BuildCacheCandidate)
           age == plan.actions[1].candidate.age_days
           target == plan.actions[1].candidate.size_bytes
           r == [at |-> "measure", age |-> age, target |-> target,
                 limit |-> None, seen |-> Eligible, measured |-> {},
                 pruned |-> {}, other |-> {}]
<1>3. /\ age \in Nat /\ age >= MinUnusedAgeDays
      /\ \A e \in Eligible : AgeDays(e) \in Nat /\ AgeDays(e) >= age
  BY <1>1, <1>2, PlannedAge
<1>4. /\ r.at = "measure" /\ r.age = age /\ r.seen = Eligible
      /\ r.pruned = {}
  OBVIOUS
<1>r. Recorded(r) BY DEF Recorded
<1>5. worker' = [worker EXCEPT ![w] = r]
  <2>1. worker' = [worker EXCEPT ![w] =
          [Idle EXCEPT !.at = "measure", !.age = age, !.target = target,
                       !.seen = Eligible]]
    BY <1>2, Zenon
  <2>2. [Idle EXCEPT !.at = "measure", !.age = age, !.target = target,
                     !.seen = Eligible] = r
    BY Assigned, Zenon
  <2> QED BY <2>1, <2>2, Zenon
<1> HIDE DEF age, r
<1>6. OfAge(r) /\ AsSeen(r) BY <1>3, <1>4 DEF OfAge, AsSeen
<1>7. worker'[w] = r BY <1>5 DEF Guided
<1>8. Guided' BY <1>r, <1>5, <1>6, OneMoves DEF Discover
<1> QED BY <1>4, <1>7, <1>8

LEMMA FailedGuided ==
  ASSUME Guided, NEW w \in Workers,
         worker' = [worker EXCEPT ![w] = Failed],
         UNCHANGED <<entry, shown, clockVars>>
  PROVE  Guided' /\ worker'[w].pruned = {}
<1>1. Recorded(Failed) /\ OfAge(Failed) /\ Failed.seen = {} /\ Failed.pruned = {}
  BY DEF Recorded, OfAge, Failed, Idle, Running
<1>2. AsSeen(Failed) BY <1>1 DEF AsSeen
<1>3. worker'[w] = Failed BY DEF Guided
<1>4. Guided' BY <1>1, <1>2, OneMoves
<1> QED BY <1>1, <1>3, <1>4

(* Who is counted when nothing has changed since discovery.                 *)
LEMMA MeasureGuided ==
  ASSUME Guided, NEW w \in Workers, Measure(w)
  PROVE  Guided' /\ worker'[w].pruned \subseteq worker[w].pruned
<1>1. UNCHANGED <<entry, shown, clockVars>> /\ worker[w].at = "measure"
  BY DEF Measure
<1>2. CASE worker' = [worker EXCEPT ![w] = Failed]
  BY <1>1, <1>2, FailedGuided
<1>3. CASE worker' # [worker EXCEPT ![w] = Failed]
  <2> DEFINE old == worker[w]
             r == [at |-> "prune", age |-> old.age, target |-> old.target,
                   limit |-> KeepBytes(Total(Counted(w)), old.target),
                   seen |-> old.seen, measured |-> Counted(w),
                   pruned |-> old.pruned, other |-> old.other]
  <2>1. /\ Measurable(w)
        /\ worker' = [worker EXCEPT
             ![w].at = "prune", ![w].measured = Counted(w),
             ![w].limit = KeepBytes(Total(Counted(w)), worker[w].target)]
    BY <1>3 DEF Measure
  <2>2. Recorded(old) /\ OfAge(old) /\ AsSeen(old) BY DEF Guided
  <2>3. worker' = [worker EXCEPT ![w] = r]
    <3>1. worker'[w] = r BY <2>1, <2>2 DEF Recorded, Guided
    <3> QED BY <2>1, <3>1 DEF Guided
  <2>4. /\ r.at = "prune" /\ r.age = old.age /\ r.seen = old.seen
        /\ r.measured = Counted(w) /\ r.pruned = old.pruned
    OBVIOUS
  <2>5. Recorded(r) BY DEF Recorded
  <2>6. OfAge(r) BY <1>1, <2>2, <2>4 DEF OfAge, Running
  <2>7. ASSUME old.seen # {} PROVE Counted(w) = Eligible
    <3>1. /\ old.age \in Nat /\ old.age >= MinUnusedAgeDays
          /\ \A e \in Eligible : AgeDays(e) \in Nat /\ AgeDays(e) >= old.age
      BY <1>1, <2>2, <2>7 DEF OfAge, AsSeen, Running
    <3>2. MinUnusedAgeDays \in Nat
      BY PolicyAssumption DEF PolicyAssumption
    <3>3. ASSUME NEW e \in Counted(w) PROVE e \in Eligible
      <4>1. /\ e \in InCache /\ e \in Entries /\ entry[e].stage = "idle"
            /\ AgeDays(e) # None /\ AgeDays(e) >= old.age
        BY <3>3 DEF Counted, InCache, OldEnough
      <4>2. AgeDays(e) \in Nat BY <4>1, Ages DEF Guided
      <4>3. KnownIdle(e) BY <2>1, <4>1 DEF Measurable, KnownIdle
      <4> QED BY <3>1, <3>2, <4>1, <4>2, <4>3 DEF Eligible, OldEnough
    <3>4. ASSUME NEW e \in Eligible PROVE e \in Counted(w)
      <4>1. e \in InCache /\ entry[e].stage = "idle" /\ AgeDays(e) # None
        BY <3>4 DEF Eligible, KnownIdle, OldEnough
      <4> QED BY <3>1, <4>1 DEF Counted, OldEnough
    <3> QED BY <3>3, <3>4
  <2>8. old.seen # {} => old.seen = Eligible
    BY <1>1, <2>2 DEF AsSeen
  <2> HIDE DEF r
  <2>9. AsSeen(r) BY <2>4, <2>7, <2>8 DEF AsSeen
  <2>10. worker'[w] = r BY <2>3 DEF Guided
  <2>11. Guided' BY <1>1, <2>3, <2>5, <2>6, <2>9, OneMoves
  <2> QED BY <2>4, <2>10, <2>11
<1> QED BY <1>2, <1>3

LEMMA UnknownFlagGuided ==
  ASSUME Guided, NEW w \in Workers, UnknownFlag(w)
  PROVE  Guided' /\ worker'[w].pruned \subseteq worker[w].pruned
<1> DEFINE old == worker[w]
           r == [at |-> "fallback", age |-> old.age, target |-> old.target,
                 limit |-> old.limit, seen |-> old.seen,
                 measured |-> old.measured, pruned |-> old.pruned,
                 other |-> old.other]
<1>1. /\ worker' = [worker EXCEPT ![w].at = "fallback"]
      /\ UNCHANGED <<entry, shown, clockVars>> /\ old.at = "prune"
  BY DEF UnknownFlag
<1>2. Recorded(old) /\ OfAge(old) /\ AsSeen(old) BY DEF Guided
<1>3. worker' = [worker EXCEPT ![w] = r]
  <2>1. worker'[w] = r BY <1>1, <1>2 DEF Recorded, Guided
  <2> QED BY <1>1, <2>1 DEF Guided
<1>4. /\ r.at = "fallback" /\ r.age = old.age /\ r.seen = old.seen
      /\ r.measured = old.measured /\ r.pruned = old.pruned
  OBVIOUS
<1>5. Recorded(r) BY DEF Recorded
<1> HIDE DEF r
<1>6. OfAge(r) BY <1>1, <1>2, <1>4 DEF OfAge, Running
<1>7. AsSeen(r) BY <1>1, <1>2, <1>4 DEF AsSeen
<1>8. worker'[w] = r BY <1>3 DEF Guided
<1>9. Guided' BY <1>1, <1>3, <1>5, <1>6, <1>7, OneMoves
<1> QED BY <1>4, <1>8, <1>9

(* What is kept of a worker that has pruned.                                *)
LEMMA EndedFields ==
  ASSUME NEW r, NEW last, NEW gone, NEW limited, NEW q,
         q = Ended(r, last, gone, limited)
  PROVE  /\ Recorded(q)
         /\ q.at = last /\ q.age = 0 /\ q.limit = None /\ q.seen = {}
         /\ q.pruned = gone
         /\ gone = {} => q.target = 0 /\ q.measured = {} /\ q.other = {}
         /\ gone # {} => /\ q.target = r.target /\ q.measured = r.measured
                        /\ q.other = limited \ r.measured
<1> DEFINE e == [at |-> last, age |-> 0, target |-> 0, limit |-> None,
                 seen |-> {}, measured |-> {}, pruned |-> {}, other |-> {}]
           p == [at |-> last, age |-> 0, target |-> r.target, limit |-> None,
                 seen |-> {}, measured |-> r.measured, pruned |-> gone,
                 other |-> limited \ r.measured]
<1>1. CASE gone = {}
  <2>1. q = e BY <1>1 DEF Ended, Idle
  <2>2. Recorded(e) BY DEF Recorded
  <2> QED BY <1>1, <2>1, <2>2
<1>2. CASE gone # {}
  <2>1. q = p BY <1>2 DEF Ended, Idle
  <2>2. Recorded(p) BY DEF Recorded
  <2> QED BY <1>2, <2>1, <2>2
<1> QED BY <1>1, <1>2

(* What a prune takes nobody used for the hours it is told.                 *)
LEMMA PruneTakes ==
  ASSUME Guided, NEW w \in Workers, NEW limit, NEW until \in Nat,
         until >= MinUnusedAgeDays * HoursPerDay,
         PruneCommand(w, until, limit), UNCHANGED <<shown, clockVars>>
  PROVE  /\ Guided'
         /\ \A v \in Workers : \A e \in worker'[v].pruned \ worker[v].pruned :
              /\ entry[e].stage = "idle"
              /\ now - entry[e].used >= MinUnusedAgeDays * HoursPerDay
<1>1. PICK scope \in Scopes, last \in {"done", "failed"} :
      \E gone \in Removals(until, limit, scope) :
        /\ entry' = [e \in Entries |-> IF e \in gone THEN InStage("gone")
                                                     ELSE entry[e]]
        /\ worker' = [v \in Workers |->
             IF v # w
             THEN [worker[v] EXCEPT !.seen = IF gone = {} THEN @ ELSE {}]
             ELSE Ended(worker[w], last, gone, Limited(until, scope))]
  BY DEF PruneCommand
<1>0. PICK gone \in Removals(until, limit, scope) :
        /\ entry' = [e \in Entries |-> IF e \in gone THEN InStage("gone")
                                                     ELSE entry[e]]
        /\ worker' = [v \in Workers |->
             IF v # w
             THEN [worker[v] EXCEPT !.seen = IF gone = {} THEN @ ELSE {}]
             ELSE Ended(worker[w], last, gone, Limited(until, scope))]
  BY <1>1
<1>2. gone \subseteq Prunable(until) /\ gone \subseteq Entries
  BY DEF Removals, Prunable
<1>3. Typed /\ Today' = Today /\ shown' = shown /\ now' = now /\ date' = date
  BY DEF Guided, clockVars, Today
<1>4. Typed'
  <2>1. Epoch \in Date BY DEF Epoch, Date
  <2>2. InStage("gone") \in [stage : Stages, used : Nat, date : Date]
    BY <2>1 DEF InStage, Stages
  <2> QED BY <1>0, <1>3, <2>2 DEF Typed
<1> DEFINE own == Ended(worker[w], last, gone, Limited(until, scope))
<1>5. worker'[w] = own BY <1>0, Zenon
<1>6. Recorded(own) /\ own.seen = {} /\ own.pruned = gone /\ own.at = last
  BY EndedFields
<1> HIDE DEF own
<1>7. OfAge(own) /\ AsSeen(worker[w])'
  <2>1. worker'[w].seen = {} BY <1>5, <1>6
  <2> QED BY <1>6, <2>1 DEF OfAge, AsSeen, Running
<1>8. ASSUME NEW v \in Workers, v # w
      PROVE  /\ Recorded(worker'[v]) /\ OfAge(worker'[v]) /\ AsSeen(worker[v])'
             /\ worker'[v].pruned = worker[v].pruned
  <2>1. Recorded(worker[v]) /\ OfAge(worker[v]) BY DEF Guided
  <2>2. CASE gone = {}
    <3>1. worker'[v] = worker[v]
      BY <1>0, <1>8, <2>1, <2>2 DEF Recorded
    <3>2. entry' = entry BY <1>0, <1>3, <2>2 DEF Typed
    <3> QED BY <1>3, <3>1, <3>2, Kept
  <2>3. CASE gone # {}
    <3>1. worker'[v] = [worker[v] EXCEPT !.seen = {}] BY <1>0, <1>8, <2>3
    <3>2. /\ Recorded(worker'[v]) /\ OfAge(worker'[v])
          /\ worker'[v].seen = {} /\ worker'[v].pruned = worker[v].pruned
      BY <2>1, <3>1, Forgotten
    <3> QED BY <3>2 DEF AsSeen
  <2> QED BY <2>2, <2>3
<1>9. worker' = [v \in Workers |-> worker'[v]] BY <1>0, Zenon
<1>10. Guided' BY <1>4, <1>5, <1>6, <1>7, <1>8, <1>9 DEF Guided
<1>11. ASSUME NEW e \in gone
       PROVE  /\ entry[e].stage = "idle"
              /\ now - entry[e].used >= MinUnusedAgeDays * HoursPerDay
  <2>1. entry[e].stage = "idle" /\ now - entry[e].used >= until
    BY <1>2, <1>11 DEF Prunable
  <2>2. entry[e].used \in Nat /\ now \in Nat BY <1>2, <1>3, <1>11 DEF Typed
  <2>3. MinUnusedAgeDays * HoursPerDay \in Nat
    BY PolicyAssumption, BuildCacheAssumption, Times
       DEF PolicyAssumption, BuildCacheAssumption
  <2> QED BY <2>1, <2>2, <2>3
<1> QED BY <1>5, <1>6, <1>8, <1>10, <1>11

(* A step of one worker, and what it may have pruned by it.                 *)
LEMMA WorkGuided ==
  ASSUME Guided, NEW w \in Workers, Work(w)
  PROVE  /\ Guided'
         /\ \A v \in Workers : \A e \in worker'[v].pruned \ worker[v].pruned :
              /\ entry[e].stage = "idle"
              /\ now - entry[e].used >= MinUnusedAgeDays * HoursPerDay
<1>1. ASSUME NEW x, worker' = [worker EXCEPT ![w] = x],
             worker'[w].pruned \subseteq worker[w].pruned
      PROVE  \A v \in Workers : worker'[v].pruned \ worker[v].pruned = {}
  <2>1. \A v \in Workers \ {w} : worker'[v] = worker[v] BY <1>1 DEF Guided
  <2> QED BY <1>1, <2>1
<1>2. CASE Discover(w)
  <2>1. PICK x : worker' = [worker EXCEPT ![w] = x]
    BY <1>2, Zenon DEF Discover
  <2> QED BY <1>1, <1>2, <2>1, DiscoverGuided
<1>3. CASE Measure(w)
  <2>1. \A v \in Workers \ {w} : worker'[v] = worker[v]
    BY <1>3 DEF Measure, Guided
  <2>2. Guided' /\ worker'[w].pruned \subseteq worker[w].pruned
    BY <1>3, MeasureGuided
  <2> QED BY <2>1, <2>2
<1>4. CASE UnknownFlag(w)
  <2>1. \A v \in Workers \ {w} : worker'[v] = worker[v]
    BY <1>4 DEF UnknownFlag, Guided
  <2>2. Guided' /\ worker'[w].pruned \subseteq worker[w].pruned
    BY <1>4, UnknownFlagGuided
  <2> QED BY <2>1, <2>2
<1>5. CASE CommandFails(w)
  <2>1. /\ worker' = [worker EXCEPT ![w] = Failed]
        /\ UNCHANGED <<entry, shown, clockVars>>
    BY <1>5 DEF CommandFails
  <2> QED BY <1>1, <2>1, FailedGuided
<1>6. CASE Prune(w) \/ Fallback(w)
  <2>1. /\ worker[w].at \in Running
        /\ PruneCommand(w, Until(w), worker[w].limit)
        /\ UNCHANGED <<shown, clockVars>>
    BY <1>6 DEF Prune, Fallback, Running
  <2>2. worker[w].age \in Nat /\ worker[w].age >= MinUnusedAgeDays
    BY <2>1 DEF Guided, OfAge
  <2>3. MinUnusedAgeDays \in Nat /\ HoursPerDay \in Nat
    BY PolicyAssumption, BuildCacheAssumption
       DEF PolicyAssumption, BuildCacheAssumption
  <2>4. Until(w) \in Nat /\ Until(w) >= MinUnusedAgeDays * HoursPerDay
    <3>1. MinUnusedAgeDays * HoursPerDay \in Nat
            /\ MinUnusedAgeDays * HoursPerDay <= worker[w].age * HoursPerDay
      BY <2>2, <2>3, Times
    <3>2. worker[w].age * HoursPerDay \in Nat BY <2>2, <2>3, Times
    <3> QED BY <3>1, <3>2 DEF Until
  <2> QED BY <2>1, <2>4, PruneTakes
<1> QED BY <1>2, <1>3, <1>4, <1>5, <1>6 DEF Work

LEMMA BuildGuided ==
  ASSUME Guided, Typed', worker' = Disturbed
  PROVE  Guided' /\ \A w \in Workers : worker'[w].pruned = worker[w].pruned
<1>1. ASSUME NEW w \in Workers
      PROVE  /\ Recorded(worker'[w]) /\ OfAge(worker'[w]) /\ AsSeen(worker[w])'
             /\ worker'[w].pruned = worker[w].pruned
  <2>1. worker'[w] = [worker[w] EXCEPT !.seen = {}] BY DEF Disturbed
  <2>2. Recorded(worker[w]) /\ OfAge(worker[w]) BY DEF Guided
  <2>3. /\ Recorded(worker'[w]) /\ OfAge(worker'[w])
        /\ worker'[w].seen = {} /\ worker'[w].pruned = worker[w].pruned
    BY <2>1, <2>2, Forgotten
  <2> QED BY <2>3 DEF AsSeen
<1>2. worker' = [w \in Workers |-> worker'[w]] BY DEF Disturbed
<1> QED BY <1>1, <1>2 DEF Guided

(* The inductive invariant, and what a step may prune.                      *)
LEMMA GuidedSteps ==
  ASSUME Guided, [Next]_vars
  PROVE  /\ Guided'
         /\ \A w \in Workers : \A e \in worker'[w].pruned \ worker[w].pruned :
              /\ entry[e].stage = "idle"
              /\ now - entry[e].used >= MinUnusedAgeDays * HoursPerDay
<1>1. Typed' BY StepTyped DEF Guided
<1>2. ASSUME worker' = worker, entry' = entry, shown' = shown, Today' = Today
      PROVE  Guided'
  <2>1. \A w \in Workers :
          Recorded(worker'[w]) /\ OfAge(worker'[w]) /\ AsSeen(worker[w])'
    BY <1>2, Kept
  <2> QED BY <1>1, <1>2, <2>1 DEF Guided
<1>3. CASE UNCHANGED vars BY <1>2, <1>3 DEF vars, clockVars, Today
<1>4. CASE Build
  <2>1. Guided' /\ \A w \in Workers : worker'[w].pruned = worker[w].pruned
    BY <1>1, <1>4, BuildGuided DEF Build
  <2> QED BY <2>1
<1>5. CASE PassHour
  <2>1. CASE Midnight
    <3>1. Guided' /\ \A w \in Workers : worker'[w].pruned = worker[w].pruned
      BY <1>1, <1>5, <2>1, BuildGuided DEF PassHour
    <3> QED BY <3>1
  <2>2. CASE ~Midnight
    <3>1. worker' = worker /\ entry' = entry /\ shown' = shown /\ now' = now + 1
      BY <1>5, <2>2 DEF PassHour
    <3>2. Today' = Today BY <2>2, <3>1, DayBegun DEF Guided, Today
    <3> QED BY <1>2, <3>1, <3>2
  <2> QED BY <2>1, <2>2
<1>6. CASE \E w \in Workers : Work(w) BY <1>6, WorkGuided
<1> QED BY <1>3, <1>4, <1>5, <1>6 DEF Next

(* Nothing is pruned that a build used within the last min_unused_age_days  *)
(* full days: not by a command of a late worker, not by the fallback, and   *)
(* not by a limit worked out from a cache that has changed since.           *)
THEOREM YoungKept ==
  Spec => YoungCacheKept
<1>1. Guided /\ [Next]_vars =>
        [\A w \in Workers : \A e \in worker'[w].pruned \ worker[w].pruned :
           /\ entry[e].stage = "idle"
           /\ now - entry[e].used >= MinUnusedAgeDays * HoursPerDay]_vars
  BY GuidedSteps
<1>2. Guided /\ [Next]_vars => Guided' BY GuidedSteps
<1> QED BY <1>1, <1>2, GuidedFirst, PTL DEF Spec, YoungCacheKept

(* A worker counts the entries discovery counted, as long as neither the    *)
(* cache nor the day has changed: the least age of an entry of the          *)
(* candidate is a bound that leaves none of them out.                       *)
THEOREM MeasureAsSeen ==
  Spec => []MeasureAgrees
<1>1. Guided /\ [Next]_vars => Guided' BY GuidedSteps
<1>2. Guided => MeasureAgrees BY DEF Guided, AsSeen, MeasureAgrees
<1> QED BY <1>1, <1>2, GuidedFirst, PTL DEF Spec

-----------------------------------------------------------------------------
(* Sums over sets of entries.  Weight is computed by a function of its own  *)
(* for every set; what follows makes one sum of them, by induction on the   *)
(* number of entries: a set of counterexamples would have one of least      *)
(* cardinality.                                                             *)
PickOf(S) == CHOOSE e \in S : TRUE
SumStep(size, f, S) == IF S = {} THEN 0 ELSE size[PickOf(S)] + f[S \ {PickOf(S)}]
Sums(size, S) == CHOOSE f : f = [T \in SUBSET S |-> SumStep(size, f, T)]

LEMMA WeightBySums ==
  ASSUME NEW size, NEW S
  PROVE  Weight(size, S) = Sums(size, S)[S]
BY DEF Weight, MapThenSumSet, MapThenFoldSet, Sums, SumStep, PickOf

LEMMA EntriesFinite ==
  ASSUME NEW S \in SUBSET Entries
  PROVE  /\ IsFiniteSet(S) /\ Cardinality(S) \in Nat
         /\ \A e \in S : Cardinality(S \ {e}) = Cardinality(S) - 1
         /\ \A T \in SUBSET S : Cardinality(T) <= Cardinality(S)
         /\ Cardinality(S) = 0 <=> S = {}
<1>1. IsFiniteSet(Entries) BY BuildCacheAssumption DEF BuildCacheAssumption
<1>2. IsFiniteSet(S) BY <1>1, FS_Subset
<1> QED
  BY <1>2, FS_CardinalityType, FS_RemoveElement, FS_Subset, FS_EmptySet

(* A family of sets of entries has one of least cardinality. *)
LEMMA SmallestSet ==
  ASSUME NEW F \in SUBSET (SUBSET Entries), F # {}
  PROVE  \E S \in F : \A T \in F : Cardinality(S) <= Cardinality(T)
<1> DEFINE sizes == {Cardinality(S) : S \in F}
<1>1. sizes \in SUBSET Nat /\ sizes # {}
  <2>1. \A S \in F : Cardinality(S) \in Nat BY EntriesFinite
  <2> QED BY <2>1
<1>2. \A S \in F : Cardinality(S) \in sizes OBVIOUS
<1> HIDE DEF sizes
<1>3. Min(sizes) \in sizes /\ \A m \in sizes : Min(sizes) <= m BY <1>1, LeastOf
<1>4. \E S \in F : Cardinality(S) = Min(sizes) BY <1>3 DEF sizes
<1> QED BY <1>2, <1>3, <1>4

LEMMA PickIsMember ==
  ASSUME NEW size \in [Entries -> Nat], NEW S \in SUBSET Entries, S # {}
  PROVE  PickOf(S) \in S /\ size[PickOf(S)] \in Nat
<1>1. PickOf(S) \in S BY DEF PickOf
<1> QED BY <1>1

LEMMA SumsUnique ==
  ASSUME NEW size \in [Entries -> Nat], NEW R \in SUBSET Entries, NEW f, NEW g,
         \A S \in SUBSET R : f[S] = SumStep(size, f, S) /\ g[S] = SumStep(size, g, S)
  PROVE  \A S \in SUBSET R : f[S] = g[S]
<1> DEFINE Differ == {S \in SUBSET R : f[S] # g[S]}
<1>1. ASSUME Differ # {} PROVE FALSE
  <2>1. Differ \in SUBSET (SUBSET Entries) OBVIOUS
  <2>2. PICK S \in Differ : \A T \in Differ : Cardinality(S) <= Cardinality(T)
    BY <1>1, <2>1, SmallestSet
  <2>3. S \in SUBSET R /\ f[S] # g[S] BY <2>2
  <2>4. S # {} BY <2>3 DEF SumStep
  <2>5. PickOf(S) \in S BY <2>3, <2>4, PickIsMember
  <2>6. S \ {PickOf(S)} \notin Differ
    <3>1. Cardinality(S \ {PickOf(S)}) = Cardinality(S) - 1
            /\ Cardinality(S) \in Nat
      BY <2>3, <2>5, EntriesFinite
    <3> QED BY <2>2, <3>1
  <2>7. f[S \ {PickOf(S)}] = g[S \ {PickOf(S)}] BY <2>3, <2>6
  <2> QED BY <2>3, <2>7 DEF SumStep
<1> QED BY <1>1

(* The sums of the sets of at most n entries. *)
UpTo(R, n) == {S \in SUBSET R : Cardinality(S) <= n}
SumTable(size, f, R, n) ==
  f \in [UpTo(R, n) -> Nat] /\ \A S \in UpTo(R, n) : f[S] = SumStep(size, f, S)

LEMMA SumTableExists ==
  ASSUME NEW size \in [Entries -> Nat], NEW R \in SUBSET Entries
  PROVE  \A n \in Nat : \E f : SumTable(size, f, R, n)
<1> DEFINE Missing == {n \in Nat : ~\E f : SumTable(size, f, R, n)}
<1>1. ASSUME Missing # {} PROVE FALSE
  <2>0. Missing \in SUBSET Nat OBVIOUS
  <2>1. Min(Missing) \in Missing /\ \A m \in Missing : Min(Missing) <= m
    <3> HIDE DEF Missing
    <3> QED BY <1>1, <2>0, LeastOf
  <2>2. PICK n \in Missing : \A m \in Missing : n <= m BY <2>1
  <2>3. CASE n = 0
    <3>1. UpTo(R, 0) = {{}}
      BY EntriesFinite DEF UpTo
    <3>2. SumTable(size, [S \in UpTo(R, 0) |-> 0], R, 0)
      BY <3>1 DEF SumTable, SumStep
    <3> QED BY <2>2, <2>3, <3>2
  <2>4. CASE n # 0
    <3>1. n \in Nat /\ n - 1 \in Nat /\ n - 1 \notin Missing BY <2>2, <2>4
    <3>2. PICK f : SumTable(size, f, R, n - 1) BY <3>1
    <3> DEFINE g == [S \in UpTo(R, n) |-> SumStep(size, f, S)]
    <3>3. ASSUME NEW S \in UpTo(R, n), S # {}
          PROVE  S \ {PickOf(S)} \in UpTo(R, n - 1) \cap UpTo(R, n)
      <4>1. S \in SUBSET R /\ S \in SUBSET Entries /\ Cardinality(S) <= n
        BY DEF UpTo
      <4>2. PickOf(S) \in S BY <3>3, <4>1, PickIsMember
      <4>3. Cardinality(S \ {PickOf(S)}) = Cardinality(S) - 1
              /\ Cardinality(S) \in Nat
        BY <4>1, <4>2, EntriesFinite
      <4> QED BY <3>1, <4>1, <4>3 DEF UpTo
    <3>4. ASSUME NEW S \in UpTo(R, n) PROVE SumStep(size, f, S) \in Nat
      <4>1. CASE S = {} BY <4>1 DEF SumStep
      <4>2. CASE S # {}
        <5>1. f[S \ {PickOf(S)}] \in Nat BY <3>2, <3>3, <4>2 DEF SumTable
        <5>2. size[PickOf(S)] \in Nat BY <4>2, PickIsMember DEF UpTo
        <5> QED BY <4>2, <5>1, <5>2 DEF SumStep
      <4> QED BY <4>1, <4>2
    <3>5. ASSUME NEW S \in UpTo(R, n) PROVE g[S] = SumStep(size, g, S)
      <4>1. CASE S = {} BY <4>1 DEF SumStep
      <4>2. CASE S # {}
        <5> DEFINE rest == S \ {PickOf(S)}
        <5>1. rest \in UpTo(R, n - 1) /\ rest \in UpTo(R, n) BY <3>3, <4>2
        <5>2. f[rest] = SumStep(size, f, rest) BY <3>2, <5>1 DEF SumTable
        <5>3. g[rest] = SumStep(size, f, rest) BY <5>1
        <5>4. g[rest] = f[rest] BY <5>2, <5>3
        <5>5. g[S] = SumStep(size, f, S) OBVIOUS
        <5> HIDE DEF g
        <5> QED BY <4>2, <5>4, <5>5 DEF SumStep
      <4> QED BY <4>1, <4>2
    <3>6. g \in [UpTo(R, n) -> Nat] BY <3>4
    <3>7. SumTable(size, g, R, n)
      <4> HIDE DEF g
      <4> QED BY <3>5, <3>6 DEF SumTable
    <3> QED BY <2>2, <3>7
  <2> QED BY <2>3, <2>4
<1> QED BY <1>1

LEMMA SumsEquation ==
  ASSUME NEW size \in [Entries -> Nat], NEW R \in SUBSET Entries
  PROVE  /\ Sums(size, R) \in [SUBSET R -> Nat]
         /\ \A S \in SUBSET R : Sums(size, R)[S] = SumStep(size, Sums(size, R), S)
<1>1. PICK f : SumTable(size, f, R, Cardinality(R)) BY SumTableExists, EntriesFinite
<1>2. UpTo(R, Cardinality(R)) = SUBSET R BY EntriesFinite DEF UpTo
<1>3. /\ f \in [SUBSET R -> Nat]
      /\ \A S \in SUBSET R : f[S] = SumStep(size, f, S)
  BY <1>1, <1>2 DEF SumTable
<1>4. f = [S \in SUBSET R |-> SumStep(size, f, S)] BY <1>3
<1>5. Sums(size, R) = [S \in SUBSET R |-> SumStep(size, Sums(size, R), S)]
  BY <1>4 DEF Sums
<1>6. \A S \in SUBSET R : Sums(size, R)[S] = SumStep(size, Sums(size, R), S)
  <2>1. ASSUME NEW h, h = [S \in SUBSET R |-> SumStep(size, h, S)]
        PROVE  \A S \in SUBSET R : h[S] = SumStep(size, h, S)
    BY <2>1
  <2> QED BY <1>5, <2>1
<1>7. \A S \in SUBSET R : Sums(size, R)[S] = f[S]
  <2> DEFINE h == Sums(size, R)
  <2>1. \A S \in SUBSET R : h[S] = SumStep(size, h, S) /\ f[S] = SumStep(size, f, S)
    BY <1>3, <1>6
  <2> HIDE DEF h
  <2>2. \A S \in SUBSET R : h[S] = f[S] BY <2>1, SumsUnique
  <2> QED BY <2>2 DEF h
<1> QED BY <1>3, <1>5, <1>6, <1>7

(* The sum does not depend on the set it is computed within. *)
LEMMA SumsAgree ==
  ASSUME NEW size \in [Entries -> Nat], NEW R \in SUBSET Entries, NEW S \in SUBSET R
  PROVE  Sums(size, R)[S] = Weight(size, S)
<1>1. \A T \in SUBSET S :
        /\ Sums(size, R)[T] = SumStep(size, Sums(size, R), T)
        /\ Sums(size, S)[T] = SumStep(size, Sums(size, S), T)
  BY SumsEquation
<1>2. Sums(size, R)[S] = Sums(size, S)[S] BY <1>1, SumsUnique
<1> QED BY <1>2, WeightBySums

LEMMA WeightTyped ==
  ASSUME NEW size \in [Entries -> Nat], NEW S \in SUBSET Entries
  PROVE  Weight(size, S) \in Nat
<1>1. Sums(size, S) \in [SUBSET S -> Nat] BY SumsEquation
<1>2. Sums(size, S)[S] \in Nat BY <1>1
<1> QED BY <1>2, WeightBySums

LEMMA WeightPick ==
  ASSUME NEW size \in [Entries -> Nat], NEW S \in SUBSET Entries
  PROVE  Weight(size, S) = IF S = {} THEN 0
                     ELSE size[PickOf(S)] + Weight(size, S \ {PickOf(S)})
<1>1. Weight(size, S) = SumStep(size, Sums(size, S), S) BY SumsEquation, WeightBySums
<1>2. S # {} => Sums(size, S)[S \ {PickOf(S)}] = Weight(size, S \ {PickOf(S)})
  BY SumsAgree
<1> QED BY <1>1, <1>2 DEF SumStep

(* Whichever entry is taken first. *)
LEMMA WeightWithout ==
  ASSUME NEW size \in [Entries -> Nat]
  PROVE  \A S \in SUBSET Entries : \A e \in S :
    Weight(size, S) = size[e] + Weight(size, S \ {e})
<1> DEFINE Good(S) == \A e \in S : Weight(size, S) = size[e] + Weight(size, S \ {e})
           Bad == {S \in SUBSET Entries : ~Good(S)}
<1>1. ASSUME Bad # {} PROVE FALSE
  <2>1. PICK S \in Bad : \A T \in Bad : Cardinality(S) <= Cardinality(T)
    <3>1. Bad \in SUBSET (SUBSET Entries) OBVIOUS
    <3> HIDE DEF Bad
    <3> QED BY <1>1, <3>1, SmallestSet
  <2>2. S \in SUBSET Entries /\ ~Good(S) BY <2>1
  <2>3. PICK e \in S : Weight(size, S) # size[e] + Weight(size, S \ {e}) BY <2>2
  <2> DEFINE x == PickOf(S)
  <2>4. /\ x \in S
        /\ Weight(size, S) = size[x] + Weight(size, S \ {x})
    BY <2>2, <2>3, PickIsMember, WeightPick
  <2> HIDE DEF x
  <2>5. e # x BY <2>3, <2>4
  <2>6. ASSUME NEW y \in S PROVE Good(S \ {y})
    <3>1. Cardinality(S \ {y}) = Cardinality(S) - 1 /\ Cardinality(S) \in Nat
      BY <2>2, EntriesFinite
    <3>2. S \ {y} \notin Bad
      <4> HIDE DEF Bad
      <4> QED BY <2>1, <3>1
    <3> QED BY <2>2, <3>2
  <2>7. Weight(size, S \ {x}) = size[e] + Weight(size, (S \ {x}) \ {e})
    BY <2>4, <2>5, <2>6
  <2>8. Weight(size, S \ {e}) = size[x] + Weight(size, (S \ {e}) \ {x})
    BY <2>4, <2>5, <2>6
  <2>9. (S \ {x}) \ {e} = (S \ {e}) \ {x} OBVIOUS
  <2>10. /\ size[e] \in Nat /\ size[x] \in Nat
         /\ Weight(size, (S \ {e}) \ {x}) \in Nat
    BY <2>2, <2>4, WeightTyped
  <2>11. Weight(size, (S \ {x}) \ {e}) = Weight(size, (S \ {e}) \ {x}) BY <2>9, Zenon
  <2> HIDE DEF Bad
  <2> QED BY <2>3, <2>4, <2>7, <2>8, <2>10, <2>11
<1> QED BY <1>1

LEMMA WeightJoin ==
  ASSUME NEW size \in [Entries -> Nat], NEW A \in SUBSET Entries
  PROVE  \A B \in SUBSET (Entries \ A) :
           Weight(size, A \cup B) = Weight(size, A) + Weight(size, B)
<1> DEFINE Bad == {B \in SUBSET (Entries \ A) :
                     Weight(size, A \cup B) # Weight(size, A) + Weight(size, B)}
<1>1. ASSUME Bad # {} PROVE FALSE
  <2>1. PICK B \in Bad : \A T \in Bad : Cardinality(B) <= Cardinality(T)
    <3>1. Bad \in SUBSET (SUBSET Entries) OBVIOUS
    <3> HIDE DEF Bad
    <3> QED BY <1>1, <3>1, SmallestSet
  <2>2. /\ B \in SUBSET (Entries \ A) /\ B \in SUBSET Entries
        /\ Weight(size, A \cup B) # Weight(size, A) + Weight(size, B)
    BY <2>1
  <2>3. B # {}
    <3>1. Weight(size, {}) = 0 BY WeightPick
    <3>2. A \cup {} = A /\ Weight(size, A) \in Nat BY WeightTyped
    <3> QED BY <2>2, <3>1, <3>2
  <2>4. PICK e \in B : TRUE BY <2>3
  <2>5. B \ {e} \notin Bad
    <3>1. Cardinality(B \ {e}) = Cardinality(B) - 1 /\ Cardinality(B) \in Nat
      BY <2>2, EntriesFinite
    <3> HIDE DEF Bad
    <3> QED BY <2>1, <3>1
  <2>6. Weight(size, A \cup (B \ {e})) = Weight(size, A) + Weight(size, B \ {e})
    BY <2>2, <2>5
  <2>7. Weight(size, B) = size[e] + Weight(size, B \ {e}) BY <2>2, WeightWithout
  <2>8. Weight(size, A \cup B) = size[e] + Weight(size, (A \cup B) \ {e})
    BY <2>2, <2>4, WeightWithout
  <2>9. (A \cup B) \ {e} = A \cup (B \ {e}) BY <2>2, <2>4
  <2>10. /\ size[e] \in Nat /\ Weight(size, A) \in Nat /\ Weight(size, B \ {e}) \in Nat
    BY <2>2, WeightTyped
  <2>11. Weight(size, (A \cup B) \ {e}) = Weight(size, A \cup (B \ {e})) BY <2>9, Zenon
  <2> HIDE DEF Bad
  <2> QED BY <2>2, <2>6, <2>7, <2>8, <2>10, <2>11
<1> QED BY <1>1

LEMMA WeightSplit ==
  ASSUME NEW size \in [Entries -> Nat], NEW S \in SUBSET Entries, NEW T \in SUBSET S
  PROVE  /\ Weight(size, T) \in Nat /\ Weight(size, S) \in Nat
         /\ Weight(size, S \ T) \in Nat
         /\ Weight(size, S) = Weight(size, T) + Weight(size, S \ T)
         /\ Weight(size, T) <= Weight(size, S)
<1>1. S = T \cup (S \ T) /\ S \ T \in SUBSET (Entries \ T) /\ T \in SUBSET Entries
  OBVIOUS
<1>2. Weight(size, T \cup (S \ T)) = Weight(size, T) + Weight(size, S \ T)
  BY <1>1, WeightJoin
<1>3. Weight(size, S) = Weight(size, T) + Weight(size, S \ T)
  <2>1. Weight(size, S) = Weight(size, T \cup (S \ T)) BY <1>1, Zenon
  <2> QED BY <1>2, <2>1
<1>4. Weight(size, T) \in Nat /\ Weight(size, S) \in Nat /\ Weight(size, S \ T) \in Nat
  BY <1>1, WeightTyped
<1>5. \A a, b, d \in Nat : a = b + d => b <= a OBVIOUS
<1> QED BY <1>3, <1>4, <1>5
(* What is read is a number of bytes again. *)
LEMMA ReadTyped ==
  /\ SizeOf \in [Entries -> Nat]
  /\ ReadSize \in [Entries -> Nat]
<1>1. ASSUME NEW e \in Entries
      PROVE  ParseHumanSizeBytes(HumanSize(SizeOf[e])) \in Nat
  <2> DEFINE n == SizeOf[e]
             unit == Min({u \in Units : n < Digits * u})
             value == (n + unit \div 2) \div unit
  <2>1. n \in Nat BY BuildCacheAssumption DEF BuildCacheAssumption
  <2>2. /\ {u \in Units : n < Digits * u} \in SUBSET Nat
        /\ {u \in Units : n < Digits * u} # {}
    BY BuildCacheAssumption DEF BuildCacheAssumption
  <2>3. unit \in Nat \ {0}
    <3>1. unit \in {u \in Units : n < Digits * u} BY <2>2, LeastOf
    <3> QED BY <3>1, BuildCacheAssumption DEF BuildCacheAssumption
  <2> HIDE DEF n, unit
  <2>4. value \in Nat
    <3>1. unit \div 2 \in Nat BY <2>3
    <3>2. n + unit \div 2 \in Nat BY <2>1, <3>1
    <3> QED BY <2>3, <3>2, Quotient
  <2>5. value * unit \in Nat
    <3> HIDE DEF value
    <3> QED BY <2>3, <2>4, Times
  <2>6. ParseHumanSizeBytes(HumanSize(SizeOf[e])) = value * unit
    BY DEF ParseHumanSizeBytes, HumanSize, n, unit, value
  <2> QED BY <2>5, <2>6
<1> QED BY <1>1, BuildCacheAssumption DEF ReadSize, BuildCacheAssumption

-----------------------------------------------------------------------------
(* What a step may make of the record of a worker. *)
WorkerRecord ==
  [at : {"idle", "measure", "prune", "fallback", "done", "failed"},
   age : Nat, target : Nat, limit : Nat \cup {None},
   seen : SUBSET Entries, measured : SUBSET Entries,
   pruned : SUBSET Entries, other : SUBSET Entries]

Rests(r, q) == q = r \/ q = [r EXCEPT !.seen = {}]

Begins(q) ==
  \E age, target \in Nat, seen \in SUBSET Entries :
    q = [at |-> "measure", age |-> age, target |-> target, limit |-> None,
         seen |-> seen, measured |-> {}, pruned |-> {}, other |-> {}]

Measured(r, q) ==
  \E counted \in SUBSET InCache :
    /\ r.at = "measure"
    /\ q = [r EXCEPT !.at = "prune", !.measured = counted,
                     !.limit = KeepBytes(Total(counted), r.target)]

FallsBack(r, q) == r.at = "prune" /\ q = [r EXCEPT !.at = "fallback"]

Prunes(r, q) ==
  \E until \in Int, last \in {"done", "failed"}, scope \in Scopes :
    \E gone \in Removals(until, r.limit, scope) :
      /\ r.at \in {"prune", "fallback"}
      /\ q = Ended(r, last, gone, Limited(until, scope))

Moves(r, q) ==
  \/ Rests(r, q) \/ Begins(q) \/ q = Failed
  \/ Measured(r, q) \/ FallsBack(r, q) \/ Prunes(r, q)

(* What is planned for the cache is known, and within the budget.           *)
LEMMA PlannedTarget ==
  ASSUME Typed, NEW remaining \in Nat, NEW plan,
         plan = PlanCandidate([InitialPlan EXCEPT !.remaining = remaining],
                              BuildCacheCandidate),
         plan.actions # <<>>, NEW target,
         target = plan.actions[1].candidate.size_bytes
  PROVE  target \in Nat /\ target <= remaining
<1> DEFINE p == [InitialPlan EXCEPT !.remaining = remaining]
           c == BuildCacheCandidate
<1>1. p.actions = <<>> /\ p.remaining = remaining BY DEF InitialPlan
<1>2. \A why : Skip(p, c, why).actions = <<>> BY DEF Skip, InitialPlan
<1>3. RejectionReason(c) = None
  BY <1>2 DEF PlanCandidate
<1>4. c.metadata_complete
  BY <1>3, PolicyAssumption DEF RejectionReason, PolicyAssumption, Reasons
<1> DEFINE sized == {e \in Eligible : Legible(e, "Size")}
<1>5. c.size_bytes = Total(sized) /\ Total(sized) > 0
  BY <1>4 DEF BuildCacheCandidate
<1>6. Total(sized) \in Nat
  <2>1. sized \in SUBSET Entries BY DEF Eligible, InCache
  <2> QED
    BY <2>1, ReadTyped, WeightTyped, PlannerAssumption
       DEF Total, PlannerAssumption
<1>7. c.size_bytes # None BY <1>5, <1>6, PolicyAssumption DEF PolicyAssumption
<1>8. \A d, left : Take(p, d, left).actions[1].candidate = d
  BY DEF Take, InitialPlan
<1>9. plan = SpendOnKnown(p, c)
  BY <1>2, <1>7 DEF PlanCandidate
<1>10. \A size : [c EXCEPT !.size_bytes = size].size_bytes = size
  BY DEF BuildCacheCandidate
<1> HIDE DEF p, c, sized
<1>11. \/ c.size_bytes <= remaining /\ plan = Take(p, c, remaining - c.size_bytes)
       \/ plan = Take(p, [c EXCEPT !.size_bytes = remaining], 0)
  BY <1>1, <1>2, <1>9 DEF SpendOnKnown
<1>12. c.size_bytes \in Nat BY <1>5, <1>6
<1>13. CASE c.size_bytes <= remaining /\ plan = Take(p, c, remaining - c.size_bytes)
  <2>1. target = c.size_bytes BY <1>8, <1>13
  <2> QED BY <1>12, <1>13, <2>1
<1>14. CASE plan = Take(p, [c EXCEPT !.size_bytes = remaining], 0)
  <2> DEFINE d == [c EXCEPT !.size_bytes = remaining]
  <2>2. d.size_bytes = remaining BY <1>10
  <2>3. plan = Take(p, d, 0) BY <1>14
  <2> HIDE DEF d
  <2>1. target = remaining BY <1>8, <2>2, <2>3
  <2> QED BY <2>1
<1> QED BY <1>11, <1>13, <1>14

LEMMA DiscoverMoves ==
  ASSUME Typed, NEW w \in Workers, Discover(w)
  PROVE  \E q : worker' = [worker EXCEPT ![w] = q] /\ Begins(q)
<1>1. PICK remaining \in 0 .. MaxDeleteBytes :
        LET plan == PlanCandidate([InitialPlan EXCEPT !.remaining = remaining],
                                  BuildCacheCandidate)
        IN  /\ plan.actions # <<>>
            /\ worker' = [worker EXCEPT ![w] =
                 [Idle EXCEPT !.at = "measure",
                              !.age = plan.actions[1].candidate.age_days,
                              !.target = plan.actions[1].candidate.size_bytes,
                              !.seen = Eligible]]
  BY DEF Discover
<1> DEFINE plan == PlanCandidate([InitialPlan EXCEPT !.remaining = remaining],
                                 BuildCacheCandidate)
           age == plan.actions[1].candidate.age_days
           target == plan.actions[1].candidate.size_bytes
           q == [at |-> "measure", age |-> age, target |-> target,
                 limit |-> None, seen |-> Eligible, measured |-> {},
                 pruned |-> {}, other |-> {}]
<1>2. remaining \in Nat
  BY PlannerAssumption DEF PlannerAssumption, MaxDeleteBytes
<1>3. age \in Nat BY <1>1, PlannedAge DEF Discover
<1>4. target \in Nat BY <1>1, <1>2, PlannedTarget
<1>5. Eligible \in SUBSET Entries BY DEF Eligible, InCache
<1>6. worker' = [worker EXCEPT ![w] = q]
  <2>1. worker' = [worker EXCEPT ![w] =
          [Idle EXCEPT !.at = "measure", !.age = age, !.target = target,
                       !.seen = Eligible]]
    BY <1>1, Zenon
  <2>2. [Idle EXCEPT !.at = "measure", !.age = age, !.target = target,
                     !.seen = Eligible] = q
    BY Assigned, Zenon
  <2> QED BY <2>1, <2>2, Zenon
<1> HIDE DEF age, target
<1>7. Begins(q) BY <1>3, <1>4, <1>5 DEF Begins
<1> QED BY <1>6, <1>7, Zenon

LEMMA PruneMoves ==
  ASSUME worker \in [Workers -> WorkerRecord], NEW w \in Workers,
         worker[w].at \in {"prune", "fallback"}, NEW until \in Int,
         PruneCommand(w, until, worker[w].limit)
  PROVE  \A v \in Workers : Moves(worker[v], worker'[v])
<1>1. PICK scope \in Scopes, last \in {"done", "failed"} :
      \E gone \in Removals(until, worker[w].limit, scope) :
        worker' = [v \in Workers |->
             IF v # w
             THEN [worker[v] EXCEPT !.seen = IF gone = {} THEN @ ELSE {}]
             ELSE Ended(worker[w], last, gone, Limited(until, scope))]
  BY DEF PruneCommand
<1>0. PICK gone \in Removals(until, worker[w].limit, scope) :
        worker' = [v \in Workers |->
             IF v # w
             THEN [worker[v] EXCEPT !.seen = IF gone = {} THEN @ ELSE {}]
             ELSE Ended(worker[w], last, gone, Limited(until, scope))]
  BY <1>1
<1>2. ASSUME NEW v \in Workers, v # w PROVE Rests(worker[v], worker'[v])
  <2>1. worker[v] \in WorkerRecord OBVIOUS
  <2>2. worker'[v] = [worker[v] EXCEPT !.seen = IF gone = {} THEN @ ELSE {}]
    BY <1>0, <1>2
  <2>3. \/ worker'[v] = [worker[v] EXCEPT !.seen = {}]
        \/ worker'[v] = [worker[v] EXCEPT !.seen = @]
    BY <2>2
  <2>4. [worker[v] EXCEPT !.seen = @] = worker[v] BY <2>1 DEF WorkerRecord
  <2> QED BY <2>3, <2>4 DEF Rests
<1>3. worker'[w] = Ended(worker[w], last, gone, Limited(until, scope))
  BY <1>0, Zenon
<1>4. Prunes(worker[w], worker'[w]) BY <1>1, <1>3 DEF Prunes
<1> QED BY <1>2, <1>4 DEF Moves

LEMMA Movements ==
  ASSUME Typed, worker \in [Workers -> WorkerRecord], [Next]_vars
  PROVE  /\ worker' = [w \in Workers |-> worker'[w]]
         /\ \A w \in Workers : Moves(worker[w], worker'[w])
<1>1. CASE UNCHANGED worker BY <1>1 DEF Moves, Rests
<1>2. CASE worker' = Disturbed BY <1>2 DEF Disturbed, Moves, Rests
<1>3. ASSUME NEW w \in Workers, NEW q, worker' = [worker EXCEPT ![w] = q],
             Moves(worker[w], q)
      PROVE  /\ worker' = [v \in Workers |-> worker'[v]]
             /\ \A v \in Workers : Moves(worker[v], worker'[v])
  <2>1. worker'[w] = q /\ \A v \in Workers \ {w} : worker'[v] = worker[v]
    BY <1>3
  <2>2. worker' = [v \in Workers |-> worker'[v]] BY <1>3
  <2> QED BY <1>3, <2>1, <2>2 DEF Moves, Rests
<1>4. ASSUME NEW w \in Workers, Work(w)
      PROVE  /\ worker' = [v \in Workers |-> worker'[v]]
             /\ \A v \in Workers : Moves(worker[v], worker'[v])
  <2>1. CASE Discover(w)
    BY <1>3, <2>1, DiscoverMoves DEF Moves
  <2>2. CASE worker' = [worker EXCEPT ![w] = Failed]
    BY <1>3, <2>2 DEF Moves
  <2>3. CASE Measure(w) /\ worker' # [worker EXCEPT ![w] = Failed]
    <3> DEFINE q == [worker[w] EXCEPT
                       !.at = "prune", !.measured = Counted(w),
                       !.limit = KeepBytes(Total(Counted(w)), worker[w].target)]
    <3>1. worker' = [worker EXCEPT
             ![w].at = "prune", ![w].measured = Counted(w),
             ![w].limit = KeepBytes(Total(Counted(w)), worker[w].target)]
      BY <2>3 DEF Measure
    <3>2. worker' = [worker EXCEPT ![w] = q] BY <3>1
    <3>3. Counted(w) \in SUBSET InCache BY DEF Counted
    <3>4. Measured(worker[w], q) BY <2>3, <3>3 DEF Measure, Measured
    <3> HIDE DEF q
    <3> QED BY <1>3, <3>2, <3>4 DEF Moves
  <2>4. CASE UnknownFlag(w)
    <3> DEFINE q == [worker[w] EXCEPT !.at = "fallback"]
    <3>1. worker' = [worker EXCEPT ![w] = q] BY <2>4 DEF UnknownFlag
    <3>2. FallsBack(worker[w], q) BY <2>4 DEF UnknownFlag, FallsBack
    <3> HIDE DEF q
    <3> QED BY <1>3, <3>1, <3>2 DEF Moves
  <2>5. CASE Prune(w) \/ Fallback(w)
    <3>1. /\ worker[w].at \in {"prune", "fallback"}
          /\ PruneCommand(w, Until(w), worker[w].limit)
      BY <2>5 DEF Prune, Fallback
    <3>2. Until(w) \in Int
      <4>1. worker[w].age \in Nat /\ HoursPerDay \in Nat
        BY BuildCacheAssumption DEF WorkerRecord, BuildCacheAssumption
      <4> QED BY <4>1, Times DEF Until
    <3>3. worker' = [v \in Workers |-> worker'[v]]
      BY <3>1, Zenon DEF PruneCommand
    <3> QED BY <3>1, <3>2, <3>3, PruneMoves
  <2> QED
    BY <1>4, <2>1, <2>2, <2>3, <2>4, <2>5 DEF Work, Measure, CommandFails
<1> QED
  BY <1>1, <1>2, <1>4 DEF Next, Build, PassHour, vars

-----------------------------------------------------------------------------
(* The types of the workers. *)
LEMMA TotalTyped ==
  ASSUME NEW S \in SUBSET Entries
  PROVE  Total(S) \in Nat
BY ReadTyped, WeightTyped, PlannerAssumption DEF Total, PlannerAssumption

LEMMA MovesTyped ==
  ASSUME NEW r \in WorkerRecord, NEW q, Moves(r, q)
  PROVE  q \in WorkerRecord
<1>1. CASE Rests(r, q) BY <1>1 DEF Rests, WorkerRecord
<1>2. CASE Begins(q) BY <1>2 DEF Begins, WorkerRecord
<1>3. CASE q = Failed BY <1>3 DEF Failed, Idle, WorkerRecord
<1>4. CASE Measured(r, q)
  <2>1. PICK counted \in SUBSET InCache :
          q = [r EXCEPT !.at = "prune", !.measured = counted,
                        !.limit = KeepBytes(Total(counted), r.target)]
    BY <1>4 DEF Measured
  <2>2. counted \in SUBSET Entries BY DEF InCache
  <2>3. KeepBytes(Total(counted), r.target) \in Nat \cup {None}
    BY <2>2, TotalTyped DEF KeepBytes, WorkerRecord
  <2> QED BY <2>1, <2>2, <2>3 DEF WorkerRecord
<1>5. CASE FallsBack(r, q) BY <1>5 DEF FallsBack, WorkerRecord
<1>6. CASE Prunes(r, q)
  <2>1. PICK until \in Int, last \in {"done", "failed"}, scope \in Scopes :
          \E gone \in Removals(until, r.limit, scope) :
            q = Ended(r, last, gone, Limited(until, scope))
    BY <1>6 DEF Prunes
  <2>2. PICK gone \in Removals(until, r.limit, scope) :
          q = Ended(r, last, gone, Limited(until, scope))
    BY <2>1
  <2>3. gone \in SUBSET Entries /\ Limited(until, scope) \subseteq Entries
    BY DEF Removals, Limited, Prunable, InCache
  <2>4. /\ Recorded(q)
        /\ q.at = last /\ q.age = 0 /\ q.limit = None /\ q.seen = {}
        /\ q.pruned = gone
        /\ gone = {} => q.target = 0 /\ q.measured = {} /\ q.other = {}
        /\ gone # {} => /\ q.target = r.target /\ q.measured = r.measured
                       /\ q.other = Limited(until, scope) \ r.measured
    BY <2>2, EndedFields
  <2>5. /\ q.at \in {"done", "failed"} /\ q.age \in Nat /\ q.target \in Nat
        /\ q.seen \in SUBSET Entries /\ q.measured \in SUBSET Entries
        /\ q.other \in SUBSET Entries
    BY <2>3, <2>4 DEF WorkerRecord
  <2> QED BY <2>3, <2>4, <2>5 DEF WorkerRecord, Recorded
<1> QED BY <1>1, <1>2, <1>3, <1>4, <1>5, <1>6 DEF Moves

WorkersTyped == Typed /\ worker \in [Workers -> WorkerRecord]

LEMMA WorkersTypedFirst == Init => WorkersTyped
<1>1. Idle \in WorkerRecord BY DEF Idle, WorkerRecord
<1> QED BY <1>1, StartTyped DEF Init, WorkersTyped

LEMMA WorkersTypedStep == WorkersTyped /\ [Next]_vars => WorkersTyped'
<1> SUFFICES ASSUME WorkersTyped, [Next]_vars PROVE WorkersTyped' OBVIOUS
<1>1. Typed' BY StepTyped DEF WorkersTyped
<1>2. \A w \in Workers : worker'[w] \in WorkerRecord
  BY Movements, MovesTyped DEF WorkersTyped
<1>3. worker' = [w \in Workers |-> worker'[w]] BY Movements DEF WorkersTyped
<1> QED BY <1>1, <1>2, <1>3 DEF WorkersTyped

(* For every number of entries and workers: the dates stay dates, and a     *)
(* worker that has an action has an age, a target and a limit that are      *)
(* bytes and days, or no limit (prune_build_cache, DeleteBudget).           *)
THEOREM CacheTyped == Spec => []TypeOK
<1> DEFINE Clock == shown \in Showings /\ hours \in 0 .. Horizon
<1>1. Init => Clock BY BuildCacheAssumption DEF Init, BuildCacheAssumption
<1>2. Clock /\ [Next]_vars => Clock'
  <2>1. CASE PassHour
    BY <2>1, BuildCacheAssumption DEF PassHour, BuildCacheAssumption
  <2>2. [Next]_vars /\ ~PassHour => UNCHANGED <<shown, hours>>
    BY DEF Next, Build, Work, Discover, Measure, Prune, UnknownFlag, Fallback,
           CommandFails, vars, clockVars
  <2> QED BY <2>1, <2>2
<1>3. WorkersTyped /\ Clock => TypeOK
  BY DEF WorkersTyped, Typed, WorkerRecord, TypeOK
<1> HIDE DEF Clock
<1> QED
  BY <1>1, <1>2, <1>3, WorkersTypedFirst, WorkersTypedStep, PTL DEF Spec

-----------------------------------------------------------------------------
(* The limit a worker goes by leaves its target, of what it has measured.   *)
LimitFits(r) ==
  /\ r.at \in {"prune", "fallback"} =>
       r.limit = KeepBytes(Weight(ReadSize, r.measured), r.target)
  /\ r.at \in Running => r.pruned = {}
  /\ LET bound == r.target + RoundedOff(r.measured) + Weight(SizeOf, r.other)
     IN  r.pruned # {} =>
           \/ Weight(SizeOf, r.pruned) <= bound
           \/ \E e \in r.pruned : Weight(SizeOf, r.pruned \ {e}) < bound

LimitsFit == \A w \in Workers : LimitFits(worker[w])

(* The bytes read of the cache fit into a u64: their sum is not saturated.  *)
CacheFits == Weight(ReadSize, InCache) <= MaxU64

(* A set of entries, against one it overlaps with. *)
LEMMA WeightOverlap ==
  ASSUME NEW size \in [Entries -> Nat],
         NEW A \in SUBSET Entries, NEW B \in SUBSET Entries
  PROVE  /\ Weight(size, A) \in Nat /\ Weight(size, B) \in Nat
         /\ Weight(size, A \ B) \in Nat
         /\ Weight(size, A) <= Weight(size, B) + Weight(size, A \ B)
<1>1. /\ Weight(size, A \cap B) \in Nat /\ Weight(size, A) \in Nat
      /\ Weight(size, A) = Weight(size, A \cap B)
                             + Weight(size, A \ (A \cap B))
  BY WeightSplit
<1>2. /\ Weight(size, B) \in Nat /\ Weight(size, A \cap B) <= Weight(size, B)
  BY WeightSplit
<1>3. A \ (A \cap B) = A \ B OBVIOUS
<1>4. Weight(size, A \ B) \in Nat BY WeightTyped
<1>5. Weight(size, A \ (A \cap B)) = Weight(size, A \ B) BY <1>3, Zenon
<1>6. \A a, b, c, d \in Nat : a = c + d /\ c <= b => a <= b + d OBVIOUS
<1> QED BY <1>1, <1>2, <1>4, <1>5, <1>6

(* One prune with that limit, whatever the runtime applies it to.           *)
LEMMA RemovalBounded ==
  ASSUME NEW until, NEW scope \in Scopes, NEW measured \in SUBSET Entries,
         NEW target \in Nat,
         NEW gone \in Removals(until, KeepBytes(Weight(ReadSize, measured), target),
                               scope),
         gone # {}, NEW bound,
         bound = target + RoundedOff(measured)
                   + Weight(SizeOf, Limited(until, scope) \ measured)
  PROVE  \/ Weight(SizeOf, gone) <= bound
         \/ \E e \in gone : Weight(SizeOf, gone \ {e}) < bound
<1> DEFINE limited == Limited(until, scope)
           read == Weight(ReadSize, measured)
           limit == KeepBytes(read, target)
           there == Weight(SizeOf, measured)
           other == Weight(SizeOf, limited \ measured)
<1>1. limited \in SUBSET Entries /\ gone \in SUBSET limited
  BY DEF Prunable, Removals, Limited, InCache
<1>2. \/ limit = None
      \/ \E last \in gone : Weight(SizeOf, limited \ (gone \ {last})) > limit
  BY DEF Removals
<1>3. /\ Weight(SizeOf, limited) \in Nat /\ there \in Nat /\ other \in Nat
      /\ Weight(SizeOf, limited) <= there + other
      /\ read \in Nat
  BY <1>1, ReadTyped, WeightOverlap, WeightTyped
<1>4. bound = target + (there - read) + other BY DEF RoundedOff
<1> HIDE DEF limited, there, other, read
<1>5. CASE limit = None
  <2>1. read <= target
    BY <1>3, <1>5, PolicyAssumption DEF KeepBytes, PolicyAssumption
  <2>2. Weight(SizeOf, gone) <= Weight(SizeOf, limited)
          /\ Weight(SizeOf, gone) \in Nat
    BY <1>1, ReadTyped, WeightSplit
  <2> QED BY <1>3, <1>4, <2>1, <2>2
<1>6. ASSUME NEW last \in gone,
             Weight(SizeOf, limited \ (gone \ {last})) > limit, limit # None
      PROVE  Weight(SizeOf, gone \ {last}) < bound
  <2>1. limit = read - target BY <1>6 DEF KeepBytes
  <2>2. gone \ {last} \in SUBSET limited BY <1>1
  <2>3. /\ Weight(SizeOf, gone \ {last}) \in Nat
        /\ Weight(SizeOf, limited \ (gone \ {last})) \in Nat
        /\ Weight(SizeOf, limited) = Weight(SizeOf, gone \ {last})
             + Weight(SizeOf, limited \ (gone \ {last}))
    <3>1. SizeOf \in [Entries -> Nat] BY ReadTyped
    <3> QED BY <1>1, <2>2, <3>1, WeightSplit
  <2> HIDE DEF limit
  <2> QED BY <1>3, <1>4, <1>6, <2>1, <2>3
<1> QED BY <1>2, <1>5, <1>6

LEMMA MoveFits ==
  ASSUME CacheFits, NEW r \in WorkerRecord, LimitFits(r), NEW q, Moves(r, q)
  PROVE  LimitFits(q)
<1>1. CASE Rests(r, q)
  <2>1. /\ q.at = r.at /\ q.limit = r.limit /\ q.measured = r.measured
        /\ q.target = r.target /\ q.other = r.other /\ q.pruned = r.pruned
    BY <1>1 DEF Rests, WorkerRecord
  <2> QED BY <2>1 DEF LimitFits
<1>2. ASSUME q.pruned = {}, q.at \notin {"prune", "fallback"} PROVE LimitFits(q)
  BY <1>2 DEF LimitFits
<1>3. CASE Begins(q) BY <1>2, <1>3 DEF Begins
<1>4. CASE q = Failed BY <1>2, <1>4 DEF Failed, Idle
<1>5. CASE Measured(r, q)
  <2>1. PICK counted \in SUBSET InCache :
          /\ r.at = "measure"
          /\ q = [r EXCEPT !.at = "prune", !.measured = counted,
                           !.limit = KeepBytes(Total(counted), r.target)]
    BY <1>5 DEF Measured
  <2>2. counted \in SUBSET Entries /\ InCache \in SUBSET Entries
    BY DEF InCache
  <2>3. Total(counted) = Weight(ReadSize, counted)
    <3>1. /\ Weight(ReadSize, counted) <= Weight(ReadSize, InCache)
          /\ Weight(ReadSize, counted) \in Nat
          /\ Weight(ReadSize, InCache) \in Nat
      BY <2>2, ReadTyped, WeightSplit
    <3>2. MaxU64 \in Nat BY PlannerAssumption DEF PlannerAssumption
    <3> QED BY <3>1, <3>2 DEF Total, CacheFits
  <2>4. /\ q.at = "prune" /\ q.measured = counted /\ q.target = r.target
        /\ q.limit = KeepBytes(Weight(ReadSize, counted), r.target)
        /\ q.pruned = r.pruned
    BY <2>1, <2>3 DEF WorkerRecord
  <2>5. r.pruned = {} BY <2>1 DEF LimitFits, Running
  <2> QED BY <2>4, <2>5 DEF LimitFits
<1>6. CASE FallsBack(r, q)
  <2>1. /\ q.limit = r.limit /\ q.measured = r.measured /\ r.at = "prune"
        /\ q.target = r.target /\ q.other = r.other /\ q.pruned = r.pruned
    BY <1>6 DEF FallsBack, WorkerRecord
  <2> QED BY <2>1 DEF LimitFits, Running
<1>7. CASE Prunes(r, q)
  <2>1. PICK until \in Int, last \in {"done", "failed"}, scope \in Scopes :
          \E gone \in Removals(until, r.limit, scope) :
            /\ r.at \in {"prune", "fallback"}
            /\ q = Ended(r, last, gone, Limited(until, scope))
    BY <1>7 DEF Prunes
  <2>2. PICK gone \in Removals(until, r.limit, scope) :
          /\ r.at \in {"prune", "fallback"}
          /\ q = Ended(r, last, gone, Limited(until, scope))
    BY <2>1
  <2>3. /\ q.at \in {"done", "failed"} /\ q.pruned = gone
        /\ gone # {} => /\ q.target = r.target /\ q.measured = r.measured
                        /\ q.other = Limited(until, scope) \ r.measured
    BY <2>2, EndedFields
  <2>4. r.limit = KeepBytes(Weight(ReadSize, r.measured), r.target)
    BY <2>2 DEF LimitFits
  <2>5. r.measured \in SUBSET Entries /\ r.target \in Nat BY DEF WorkerRecord
  <2>6. ASSUME gone # {}
        PROVE  LET bound == r.target + RoundedOff(r.measured)
                     + Weight(SizeOf, Limited(until, scope) \ r.measured)
               IN  \/ Weight(SizeOf, gone) <= bound
                   \/ \E e \in gone : Weight(SizeOf, gone \ {e}) < bound
    BY <2>4, <2>5, <2>6, RemovalBounded
  <2> QED BY <2>3, <2>6 DEF LimitFits, Running
<1> QED BY <1>1, <1>3, <1>4, <1>5, <1>6, <1>7 DEF Moves

(* For every number of entries and workers, in whatever order they measure, *)
(* prune and are pruned for, and whatever the sizes are rounded by: as long *)
(* as the bytes read of the cache fit into a u64, a worker deletes what its *)
(* action was planned for and less than one entry more, up to the rounding  *)
(* and to what the limit applies to unmeasured (prune_build_cache).         *)
THEOREM PruneWithinPlan == Spec /\ []CacheFits => []PruneBounded
<1>1. Init => LimitsFit
  <2>1. LimitFits(Idle) BY DEF LimitFits, Idle, Running
  <2> QED BY <2>1 DEF Init, LimitsFit
<1>2. WorkersTyped /\ CacheFits /\ LimitsFit /\ [Next]_vars => LimitsFit'
  <2> SUFFICES ASSUME WorkersTyped, CacheFits, LimitsFit, [Next]_vars,
                      NEW w \in Workers
               PROVE  LimitFits(worker'[w])
    BY DEF LimitsFit, LimitFits, RoundedOff
  <2> QED BY Movements, MoveFits DEF WorkersTyped, LimitsFit
<1>3. LimitsFit => PruneBounded BY DEF LimitsFit, LimitFits, PruneBounded
<1> QED
  BY <1>1, <1>2, <1>3, WorkersTypedFirst, WorkersTypedStep, PTL DEF Spec
=============================================================================
