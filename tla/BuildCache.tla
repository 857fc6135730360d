----------------------------- MODULE BuildCache -----------------------------
(***************************************************************************)
(* The build cache of Docker (src/src/docker_backend.rs), the one candidate *)
(* that is deleted in part: discovery adds up the entries that are old      *)
(* enough, the planner cuts the candidate down to what is left of its       *)
(* budget, and a worker of the executor measures the cache again, works out *)
(* how much of it must stay, and has it pruned.  These are three commands,  *)
(* with builds at work and the clock going on in between, and the worker of *)
(* an earlier, timed-out action may still be at them.                       *)
(*                                                                         *)
(* prune-guard counts the age of an entry in days of the calendar, from the *)
(* date it reads; the runtime counts the hours.                             *)
(***************************************************************************)
EXTENDS Planner

CONSTANTS
  Entries,         \* cache entries; an id is never used twice
  SizeOf,          \* bytes of each
  Units, Digits,   \* a size is shown as less than Digits of one of the units
  Scopes,          \* what the limit of a prune may apply to
  Showings,        \* ways in which fields of the entries may be legible
  Workers,         \* threads of the executor, late ones included
  HoursPerDay,     \* 24
  StartDates,      \* dates to begin at, with their days since 1970-01-01
  Horizon          \* hours the clock runs (bound)

Fields == {"InUse", "Age", "Size"}

Date == [year : Nat, month : 1 .. 12, day : 1 .. 31]

ASSUME BuildCacheAssumption ==
  /\ IsFiniteSet(Entries)
  /\ SizeOf \in [Entries -> Nat]
  /\ Units \subseteq Nat \ {0} /\ Digits \in Nat
  /\ \A e \in Entries : \E u \in Units : SizeOf[e] < Digits * u
  /\ Scopes \subseteq {"prunable", "cache"}
  /\ Showings \subseteq [Entries -> SUBSET Fields]
  /\ HoursPerDay \in Nat \ {0}
  /\ StartDates \subseteq [date : Date, days : Nat]
  /\ Horizon \in Nat

-----------------------------------------------------------------------------
(* The runtime shows a size rounded to a few digits of a unit (external).   *)
HumanSize(bytes) ==
  LET unit == Min({u \in Units : bytes < Digits * u})
  IN  [value |-> (bytes + unit \div 2) \div unit, unit |-> unit]

ParseHumanSizeBytes(text) == text.value * text.unit

(* The sizes as prune-guard reads them.                                     *)
ReadSize == [e \in Entries |-> ParseHumanSizeBytes(HumanSize(SizeOf[e]))]

Weight(size, S) == MapThenSumSet(LAMBDA e : size[e], S)

(* Mutated form of DaysFromCivil: every fourth year is a leap year.         *)
DaysFromJulian(date) ==
  LET year  == date.year - (IF date.month <= 2 THEN 1 ELSE 0)
      era   == year \div 400
      of_era == year % 400
      month == date.month + (IF date.month > 2 THEN -3 ELSE 9)
  IN  era * 146097 + of_era * 365 + of_era \div 4
        + (153 * month + 2) \div 5 + date.day - 1 - 719468

(* The days from 1970-01-01 on; years begin in March, eras of 400 years in  *)
(* the year 0.                                                              *)
DaysFromCivil(date) ==
  LET year  == date.year - (IF date.month <= 2 THEN 1 ELSE 0)
      era   == year \div 400
      of_era == year % 400
      month == date.month + (IF date.month > 2 THEN -3 ELSE 9)
  IN  era * 146097 + of_era * 365 + of_era \div 4 - of_era \div 100
        + (153 * month + 2) \div 5 + date.day - 1 - 719468

(* The calendar the dates are written in.                                   *)
LeapYear(y) == y % 4 = 0 /\ (y % 100 # 0 \/ y % 400 = 0)
DaysIn(y, m) ==
  IF m = 2 THEN (IF LeapYear(y) THEN 29 ELSE 28)
  ELSE IF m \in {4, 6, 9, 11} THEN 30 ELSE 31

NextDay(date) ==
  IF date.day < DaysIn(date.year, date.month)
  THEN [date EXCEPT !.day = @ + 1]
  ELSE IF date.month < 12
  THEN [year |-> date.year, month |-> date.month + 1, day |-> 1]
  ELSE [year |-> date.year + 1, month |-> 1, day |-> 1]

-----------------------------------------------------------------------------
VARIABLES
  entry,       \* the cache, by id
  shown,       \* fields of it that docker system df shows in a legible way
  hours,       \* hours since it began
  now, date,   \* hours since 1970-01-01, and the date of today
  worker       \* the threads

clockVars == <<hours, now, date>>
vars == <<entry, shown, clockVars, worker>>

Stages == {"future", "idle", "busy", "gone"}

(* When an entry was used last matters while it is not in use.              *)
Epoch == [year |-> 1970, month |-> 1, day |-> 1]
InStage(stage) == [stage |-> stage, used |-> 0, date |-> Epoch]

(* A worker is idle until discovery and planning give it an action, then at *)
(* a command ("measure", "prune", or "fallback" with the older flag), or    *)
(* has ended ("done", "failed").  What the code keeps in between are the    *)
(* age and the target of the action and the limit; the rest is history:     *)
(* what discovery saw, as long as cache and day are as they were then, what *)
(* was measured and pruned, and what the limit was applied to that had not  *)
(* been measured.                                                           *)
Idle == [at |-> "idle", age |-> 0, target |-> 0, limit |-> None,
         seen |-> {}, measured |-> {}, pruned |-> {}, other |-> {}]

Init ==
  /\ \E start \in StartDates :
       /\ date = start.date /\ now = start.days * HoursPerDay
       /\ entry \in [Entries -> {InStage("future"), InStage("busy"),
                                 [stage |-> "idle", used |-> now, date |-> date]}]
  /\ shown \in Showings
  /\ hours = 0
  /\ worker = [w \in Workers |-> Idle]

-----------------------------------------------------------------------------
(* The builds and the users of the cache (external).  An entry is as old as *)
(* its last use, or its creation if it was never used.                      *)
Change(e, from, to) ==
  entry[e].stage \in from /\ entry' = [entry EXCEPT ![e] = to]

Disturbed == [w \in Workers |-> [worker[w] EXCEPT !.seen = {}]]

Build ==
  /\ \E e \in Entries :
       \/ Change(e, {"future", "idle"}, InStage("busy"))
       \/ Change(e, {"busy"}, [stage |-> "idle", used |-> now, date |-> date])
       \/ Change(e, {"idle"}, InStage("gone"))
  /\ worker' = Disturbed
  /\ UNCHANGED <<shown, clockVars>>

Midnight == (now + 1) % HoursPerDay = 0

PassHour ==
  /\ hours < Horizon
  /\ hours' = hours + 1 /\ now' = now + 1
  /\ date' = IF Midnight THEN NextDay(date) ELSE date
  /\ worker' = IF Midnight THEN Disturbed ELSE worker
  /\ UNCHANGED <<entry, shown>>

-----------------------------------------------------------------------------
(* What docker system df -v shows. *)
InCache == {e \in Entries : entry[e].stage \in {"idle", "busy"}}
Legible(e, field) == field \in shown[e]

KnownIdle(e) == Legible(e, "InUse") /\ entry[e].stage = "idle"

Today == now \div HoursPerDay

(* parse_age_days *)
AgeDays(e) ==
  IF Legible(e, "Age") /\ DaysFromCivil(entry[e].date) <= Today
  THEN Today - DaysFromCivil(entry[e].date)
  ELSE None

OldEnough(e, days) == AgeDays(e) # None /\ AgeDays(e) >= days

(* saturating_add of the sizes that are read.                               *)
Total(S) == LET sum == Weight(ReadSize, S)
            IN  IF sum > MaxU64 THEN MaxU64 ELSE sum

Eligible ==
  {e \in InCache : KnownIdle(e) /\ OldEnough(e, MinUnusedAgeDays)}

(* build_build_cache_candidate, of at least one eligible entry. *)
BuildCacheCandidate ==
  LET sized == {e \in Eligible : Legible(e, "Size")}
      complete == sized = Eligible /\ Total(sized) > 0
  IN  [identifier |-> Blank, display_name |-> None, labels |-> {},
       backend |-> RequestBackend, resource_kind |-> "BuildCache",
       size_bytes |-> IF Total(sized) > 0 THEN Total(sized) ELSE None,
       age_days |-> IF sized = {} THEN None ELSE Min({AgeDays(e) : e \in sized}),
       in_use |-> "no", referenced |-> "no", protected |-> FALSE,
       metadata_complete |-> complete, metadata_ambiguous |-> ~complete]

(* Discovery, and the pass of the planner over its last candidate, with     *)
(* whatever the others left of the budget.  The executor hands the action   *)
(* to a thread, beside those it no longer waits for.                        *)
Discover(w) ==
  /\ worker[w].at = "idle"
  /\ Eligible # {}
  /\ \E remaining \in 0 .. MaxDeleteBytes :
       LET plan == PlanCandidate([InitialPlan EXCEPT !.remaining = remaining],
                                 BuildCacheCandidate)
       IN  /\ plan.actions # <<>>
           /\ worker' = [worker EXCEPT ![w] =
                [Idle EXCEPT !.at = "measure",
                             !.age = plan.actions[1].candidate.age_days,
                             !.target = plan.actions[1].candidate.size_bytes,
                             !.seen = Eligible]]
  /\ UNCHANGED <<entry, shown, clockVars>>

Failed == [Idle EXCEPT !.at = "failed"]

-----------------------------------------------------------------------------
(* Mutated form of Counted: the youngest entries are left out.              *)
CountedOlder(w) ==
  {e \in InCache : entry[e].stage = "idle" /\ OldEnough(e, worker[w].age + 1)}

(* collect_build_cache_prunable_size_bytes: what it adds up.  It is an      *)
(* error where it cannot tell whether an entry counts, or how large it is.  *)
Counted(w) ==
  {e \in InCache : entry[e].stage = "idle" /\ OldEnough(e, worker[w].age)}

Measurable(w) ==
  \A e \in InCache :
    /\ Legible(e, "InUse")
    /\ entry[e].stage = "idle" => AgeDays(e) # None
    /\ e \in Counted(w) => Legible(e, "Size")

(* Mutated form of KeepBytes: even if less is left than the target.         *)
KeepUnchecked(prunable, target) == prunable - target

(* What must stay of the prunable bytes; None for no limit.                 *)
KeepBytes(prunable, target) ==
  IF prunable > target THEN prunable - target ELSE None

Measure(w) ==
  /\ worker[w].at = "measure"
  /\ \/ /\ Measurable(w)
        /\ worker' = [worker EXCEPT
             ![w].at = "prune", ![w].measured = Counted(w),
             ![w].limit = KeepBytes(Total(Counted(w)), worker[w].target)]
     \/ worker' = [worker EXCEPT ![w] = Failed]
  /\ UNCHANGED <<entry, shown, clockVars>>

(* The runtime's prune (external): what nobody uses and was last used at    *)
(* least so many hours ago goes, the least recently used first, until what  *)
(* is left is within the limit: of the prunable entries or, in other        *)
(* versions, of the whole cache.                                            *)
Prunable(until) ==
  {e \in Entries : entry[e].stage = "idle" /\ now - entry[e].used >= until}

Limited(until, scope) == IF scope = "cache" THEN InCache ELSE Prunable(until)

Removals(until, limit, scope) ==
  LET all == Prunable(until)
      Left(gone) == Weight(SizeOf, Limited(until, scope) \ gone)
  IN
  {gone \in SUBSET all :
     /\ \A e \in gone, f \in all : entry[f].used < entry[e].used => f \in gone
     /\ gone = all \/ (limit # None /\ Left(gone) <= limit)
     /\ limit # None /\ gone # {} =>
          \E last \in gone :
            /\ \A e \in gone : entry[e].used <= entry[last].used
            /\ Left(gone \ {last}) > limit}

(* A worker after its prune, with what is worth remembering of it.          *)
Ended(r, last, gone, limited) ==
  IF gone = {} THEN [Idle EXCEPT !.at = last]
  ELSE [Idle EXCEPT !.at = last, !.target = r.target, !.measured = r.measured,
                    !.pruned = gone, !.other = limited \ r.measured]

(* The command with those arguments.  It may fail, even after its effect.   *)
PruneCommand(w, until, limit) ==
  \E scope \in Scopes, last \in {"done", "failed"} :
  \E gone \in Removals(until, limit, scope) :
    /\ entry' = [e \in Entries |-> IF e \in gone THEN InStage("gone")
                                                 ELSE entry[e]]
    /\ worker' = [v \in Workers |->
         IF v # w
         THEN [worker[v] EXCEPT !.seen = IF gone = {} THEN @ ELSE {}]
         ELSE Ended(worker[w], last, gone, Limited(until, scope))]

(* The filter until=<hours>h; an action of age 0 has none.                  *)
Until(w) == worker[w].age * HoursPerDay

(* prune_build_cache after the budget: the command with --max-used-space.   *)
Prune(w) ==
  /\ worker[w].at = "prune"
  /\ PruneCommand(w, Until(w), worker[w].limit)
  /\ UNCHANGED <<shown, clockVars>>

(* A Docker that does not know the flag.                                    *)
UnknownFlag(w) ==
  /\ worker[w].at = "prune" /\ worker[w].limit # None
  /\ worker' = [worker EXCEPT ![w].at = "fallback"]
  /\ UNCHANGED <<entry, shown, clockVars>>

(* Mutated forms of Fallback: without the filter, without the limit.        *)
FallbackOfAnyAge(w) ==
  /\ worker[w].at = "fallback"
  /\ PruneCommand(w, 0, worker[w].limit)
  /\ UNCHANGED <<shown, clockVars>>

FallbackUnlimited(w) ==
  /\ worker[w].at = "fallback"
  /\ PruneCommand(w, Until(w), None)
  /\ UNCHANGED <<shown, clockVars>>

(* Again, with --keep-storage instead.                                      *)
Fallback(w) ==
  /\ worker[w].at = "fallback"
  /\ PruneCommand(w, Until(w), worker[w].limit)
  /\ UNCHANGED <<shown, clockVars>>

(* A command that could not be run has no effect.                           *)
CommandFails(w) ==
  /\ worker[w].at \in {"prune", "fallback"}
  /\ worker' = [worker EXCEPT ![w] = Failed]
  /\ UNCHANGED <<entry, shown, clockVars>>

Work(w) ==
  \/ Discover(w) \/ Measure(w) \/ Prune(w) \/ UnknownFlag(w) \/ Fallback(w)
  \/ CommandFails(w)

Next == Build \/ PassHour \/ \E w \in Workers : Work(w)

Spec == Init /\ [][Next]_vars

-----------------------------------------------------------------------------
TypeOK ==
  /\ entry \in [Entries -> [stage : Stages, used : Nat, date : Date]]
  /\ shown \in Showings
  /\ hours \in 0 .. Horizon /\ now \in Nat /\ date \in Date
  /\ worker \in [Workers ->
       [at : {"idle", "measure", "prune", "fallback", "done", "failed"},
        age : Nat, target : Nat, limit : Nat \cup {None},
        seen : SUBSET Entries, measured : SUBSET Entries,
        pruned : SUBSET Entries, other : SUBSET Entries]]

(* The dates the ages are computed from are the days of the clock: over the *)
(* ends of months, years and centuries days_from_civil counts every day     *)
(* once.                                                                    *)
CalendarExact ==
  /\ DaysFromCivil(date) = Today
  /\ \A e \in Entries :
       DaysFromCivil(entry[e].date) = entry[e].used \div HoursPerDay

(* Nothing is pruned that a build used within the last                      *)
(* min_unused_age_days full days, although the age is counted in dates, the *)
(* action was planned earlier and older Dockers get other arguments.        *)
YoungCacheKept ==
  [][\A w \in Workers : \A e \in worker'[w].pruned \ worker[w].pruned :
       /\ entry[e].stage = "idle"
       /\ now - entry[e].used >= MinUnusedAgeDays * HoursPerDay]_vars

(* By how much the sizes that were added up fall short of the bytes there.  *)
RoundedOff(S) == Weight(SizeOf, S) - Weight(ReadSize, S)

(* A worker prunes what its action was planned for and less than one entry  *)
(* more, up to what the limit cannot know of: the bytes that the measured   *)
(* sizes were rounded by, and the entries it applies to that were not       *)
(* measured.  Neither a cache that grew or shrank since the planning nor    *)
(* another worker makes it delete more (prune_build_cache, the planner).    *)
PruneBounded ==
  \A w \in Workers :
    LET gone == worker[w].pruned
        bound == worker[w].target + RoundedOff(worker[w].measured)
                   + Weight(SizeOf, worker[w].other)
    IN  gone # {} => \/ Weight(SizeOf, gone) <= bound
                     \/ \E e \in gone : Weight(SizeOf, gone \ {e}) < bound

(* If the cache and the day are still those of the discovery, the worker    *)
(* counts the same entries as discovery did, or none since there is one it  *)
(* cannot read.                                                             *)
MeasureAgrees ==
  \A w \in Workers :
    worker[w].seen # {} /\ worker[w].at \in {"prune", "fallback"} =>
      worker[w].measured = worker[w].seen
=============================================================================
