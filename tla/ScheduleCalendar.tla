-------------------------- MODULE ScheduleCalendar --------------------------
(***************************************************************************)
(* The arithmetic under the Job Scheduler (internal/schedule): which       *)
(* configurations a schedule may have, and the instants it fires at when   *)
(* it is evaluated at some moments and not at others. Schedules takes the  *)
(* instants as given; here they come from local times and time zones.      *)
(*                                                                         *)
(* Instants and times of day are counted in the same unit, Day of them to  *)
(* a calendar day and Second to a second; an instant is what the clock of  *)
(* UTC reads. The clock, the listed times and the offsets of the zones are *)
(* of whole seconds; the start and the end of a schedule may not be.       *)
(***************************************************************************)
EXTENDS Integers, Sequences, FiniteSets
LOCAL INSTANCE SequencesExt

CONSTANTS
  Request,       \* configurations a client may ask for
  Zone,          \* known time zone -> its offsets, and the instants they change at
  Moment,        \* instants at which the schedule may be evaluated
  Day,           \* units in a day
  Second,        \* units in a second, the grain the mark is stored at
  MonthStart,    \* the first day of each month, the first month's is 0
  FirstWeekday,  \* the weekday of day 0, Sunday being 0
  None

CONSTANTS        \* limits of the code
  MaxInterval, MaxTimes, MaxWeekdays, MaxRecurrence,
  MaxPerTick,    \* MaxOccurrencesPerTick
  MaxScan        \* maxScanDays

CONSTANTS        \* bounds of the model
  LastDay,       \* the last day anything is due on
  MaxStarted     \* jobs after which it is no longer evaluated

CalendarAssumption ==
  /\ {Day, Second, MaxPerTick, MaxScan, MaxTimes, MaxWeekdays, MaxInterval, MaxRecurrence} \subseteq Nat \ {0}
  /\ Day % Second = 0 /\ \A now \in Moment : now % Second = 0
  /\ Moment \subseteq Nat /\ FirstWeekday \in 0..6 /\ LastDay \in Nat /\ MaxStarted \in Nat
  /\ MonthStart[1] = 0
  /\ \A z \in DOMAIN Zone : Len(Zone[z].offset) = Len(Zone[z].at) + 1

VARIABLES
  cfg,      \* the stored configuration
  mark,     \* FiredThrough: the second of the occurrence listed last, 0 for none
  started,  \* the instants jobs were started for, in that order
  asked,    \* when it was evaluated last
  scanned   \* whether the last evaluation saw its whole window

vars == <<cfg, mark, started, asked, scanned>>

-----------------------------------------------------------------------------
(* Time zones, as package time of Go has them.                               *)
OffsetAt(z, t) == Zone[z].offset[Cardinality({i \in DOMAIN Zone[z].at : Zone[z].at[i] <= t}) + 1]

Reading(z, t) == t + OffsetAt(z, t)
DayOf(z, t) == Reading(z, t) \div Day

\* time.Date: the offset in force were the reading UTC's; where that leads past a
\* change, the offset in force there.
Date(z, d, m) ==
  LET local == d * Day + m IN local - OffsetAt(z, local - OffsetAt(z, local))

\* Mutant: a day is 24 hours.
NextByHours(z, t) == t + Day

\* Time.AddDate(0, 0, 1)
NextDay(z, t) == Date(z, DayOf(z, t) + 1, Reading(z, t) % Day)

Month(d) == Cardinality({i \in DOMAIN MonthStart : MonthStart[i] <= d})
DayOfMonth(d) == d - MonthStart[Month(d)] + 1
Weekday(d) == (d + FirstWeekday) % 7

-----------------------------------------------------------------------------
\* A request's dates are local to its zone, or carry an offset of their own.
Instant(x, z) == IF x.local THEN Date(z, x.at \div Day, x.at % Day) ELSE x.at

Begin(c) == Instant(c.start, c.zone)
End(c) == Instant(c.end, c.zone)

\* parseTimes
Minutes(c) == {c.times[i] : i \in DOMAIN c.times}
TimesAccepted(c) == Len(c.times) \in 1..MaxTimes /\ Minutes(c) \subseteq 0..(Day - 1)

\* parseWeekdays
Weekdays(c) == {c.weekdays[i] : i \in DOMAIN c.weekdays}
WeekdaysAccepted(c) == Len(c.weekdays) \in 1..MaxWeekdays /\ Weekdays(c) \subseteq 0..6

\* parseOccurrence
OccurrenceAccepted(c) ==
  /\ c.occurrence # None
  /\ \/ c.occurrence.type = "DayOfMonth" /\ c.occurrence.day \in 1..31
     \/ /\ c.occurrence.type = "OrdinalWeekday"
        /\ c.occurrence.week \in 1..5 /\ c.occurrence.weekday \in 0..6

\* Config.validate. A field of another type is refused here and there.
Accepted(c) ==
  /\ c.zone \in DOMAIN Zone
  /\ End(c) > Begin(c)
  /\ \/ c.type = "Cron" /\ c.interval \in 1..MaxInterval /\ c.times = <<>> /\ c.weekdays = <<>>
     \/ c.type = "Daily" /\ TimesAccepted(c) /\ c.weekdays = <<>> /\ c.occurrence = None
     \/ c.type = "Weekly" /\ TimesAccepted(c) /\ WeekdaysAccepted(c) /\ c.occurrence = None
     \/ c.type = "Monthly" /\ TimesAccepted(c) /\ c.recurrence \in 1..MaxRecurrence /\ OccurrenceAccepted(c)

-----------------------------------------------------------------------------
\* cronOccurrences: the multiples of the interval in the window.
CronOccurrences(c, after, until) ==
  LET first == IF after >= Begin(c) THEN (after - Begin(c)) \div c.interval + 1 ELSE 0
      last == (until - Begin(c)) \div c.interval
      from == IF last - first + 1 > MaxPerTick THEN last - MaxPerTick + 1 ELSE first
  IN  [i \in 1..(last - from + 1) |-> Begin(c) + (from + i - 1) * c.interval]

\* dayQualifies, of a calendar day
Qualifies(c, d) ==
  LET months == Month(d) - Month(DayOf(c.zone, Begin(c))) IN
  \/ c.type = "Daily"
  \/ c.type = "Weekly" /\ Weekday(d) \in Weekdays(c)
  \/ /\ c.type = "Monthly" /\ months >= 0 /\ months % c.recurrence = 0
     /\ \/ c.occurrence.type = "DayOfMonth" /\ DayOfMonth(d) = c.occurrence.day
        \/ /\ c.occurrence.type = "OrdinalWeekday" /\ Weekday(d) = c.occurrence.weekday
           /\ (DayOfMonth(d) - 1) \div 7 + 1 = c.occurrence.week

\* The midnights calendarOccurrences walks through, as far as until or MaxScan.
Walk(c, after, until) ==
  LET from[day \in Int, left \in 0..MaxScan] ==
        IF day > until \/ left = 0 THEN <<>> ELSE <<day>> \o from[NextDay(c.zone, day), left - 1]
  IN  from[Date(c.zone, DayOf(c.zone, after), 0), MaxScan]

Newest(list) == SubSeq(list, IF Len(list) > MaxPerTick THEN Len(list) - MaxPerTick + 1 ELSE 1, Len(list))

\* calendarOccurrences: day by day, the times of each in the order of the clock.
CalendarOccurrences(c, after, until) ==
  LET times == SortSeq(SetToSeq(Minutes(c)), <)
      Due(day) ==
        IF Qualifies(c, DayOf(c.zone, day))
        THEN SelectSeq([i \in DOMAIN times |-> Date(c.zone, DayOf(c.zone, day), times[i])],
                       LAMBDA t : after < t /\ t <= until)
        ELSE <<>>
      midnights == Walk(c, after, until)
  IN  Newest(FlattenSeq([k \in DOMAIN midnights |-> Due(midnights[k])]))

\* Mutant: the occurrence at the start is left out.
LowerAtStart(c, after) == IF after < Begin(c) THEN Begin(c) ELSE after

\* Where a window opens and closes, within the schedule's own.
Lower(c, after) == IF after < Begin(c) - 1 THEN Begin(c) - 1 ELSE after
Upper(c, until) == IF until > End(c) THEN End(c) ELSE until

\* Config.Occurrences: what is due in (after, until].
Occurrences(c, after, until) ==
  LET from == Lower(c, after)
      to == Upper(c, until)
  IN  CASE to <= from -> <<>>
        [] to > from /\ c.type = "Cron" -> CronOccurrences(c, from, to)
        [] to > from /\ c.type # "Cron" -> CalendarOccurrences(c, from, to)

-----------------------------------------------------------------------------
Init == cfg = None /\ mark = 0 /\ started = <<>> /\ asked = 0 /\ scanned = FALSE

\* Time.Unix: the second an instant is in.
Unix(t) == t - (t % Second)

\* fireDue: every occurrence since the mark, which becomes the second of the one
\* listed last.
Fire(c, now) ==
  LET after == IF mark = 0 THEN Begin(c) - Second ELSE mark
      list == Occurrences(c, after, now)
  IN  /\ started' = started \o list
      /\ mark' = IF list = <<>> THEN mark ELSE Unix(list[Len(list)])
      /\ asked' = now
      /\ scanned' = (c.type = "Cron" \/ Len(Walk(c, Lower(c, after), Upper(c, now))) < MaxScan)

\* createItemSchedule: what Parse accepts is stored, and evaluated at once.
Create(c, now) ==
  /\ cfg = None /\ Accepted(c)
  /\ cfg' = c
  /\ Fire(c, now)

\* A poll of the item's schedules or jobs, or the clock moved.
Evaluate(now) ==
  /\ cfg # None /\ Len(started) < MaxStarted
  /\ Fire(cfg, now)
  /\ UNCHANGED cfg

Next == \E now \in Moment : (\E c \in Request : Create(c, now)) \/ Evaluate(now)

Spec == Init /\ [][Next]_vars

-----------------------------------------------------------------------------
(***************************************************************************)
(* Properties.                                                             *)
(***************************************************************************)
\* The days a calendar schedule is meant for: day n of a month or its nth
\* Monday, in every recurrence-th month from the one it starts in.
MeantDays(c) ==
  LET cadence == {i \in DOMAIN MonthStart : \E k \in 0..Len(MonthStart) :
                    i = Month(DayOf(c.zone, Begin(c))) + k * c.recurrence}
      Of(i) == {d \in 0..LastDay : Month(d) = i}
      Same(i) == {d \in Of(i) : Weekday(d) = c.occurrence.weekday}
  IN  CASE c.type = "Daily" -> 0..LastDay
        [] c.type = "Weekly" -> {d \in 0..LastDay : \E w \in Weekdays(c) : (d + FirstWeekday - w) % 7 = 0}
        [] c.type = "Monthly" /\ c.occurrence.type = "DayOfMonth" ->
             {d \in 0..LastDay : \E i \in cadence : d = MonthStart[i] + c.occurrence.day - 1 /\ d \in Of(i)}
        [] c.type = "Monthly" /\ c.occurrence.type = "OrdinalWeekday" ->
             UNION {{d \in Same(i) : Cardinality({e \in Same(i) : e <= d}) = c.occurrence.week} : i \in cadence}

Readings(z, r) ==
  {t \in {r - Zone[z].offset[i] : i \in DOMAIN Zone[z].offset} : Reading(z, t) = r}

\* What is meant, as sets of instants of which one is to start a job: an instant
\* of a Cron, or the instants at which a calendar's clock reads one of its times,
\* two when it is set back.
Meant(c) ==
  IF c.type = "Cron"
  THEN {{t} : t \in {u \in Begin(c)..End(c) : (u - Begin(c)) % c.interval = 0}}
  ELSE {S \in {Readings(c.zone, d * Day + m) : d \in MeantDays(c), m \in Minutes(c)} :
          S # {} /\ \A t \in S : t \in Begin(c)..End(c)}

\* Neither a midnight nor a listed time is one that the clock jumps over.
Regular(c) ==
  c.type = "Cron" \/ \A d \in 0..LastDay, m \in {0} \cup Minutes(c) : Readings(c.zone, d * Day + m) # {}

Started == {started[i] : i \in DOMAIN started}

\* However it is polled, jobs are started in the order of time ("oldest first",
\* schedule.go).
InOrder == \A i, j \in DOMAIN started : i < j => started[i] <= started[j]

\* No instant has two jobs ("never fire the same instant twice", schedule.go; "no
\* occurrence is ever run twice", store/schedules.go).
Once == \A i, j \in DOMAIN started : i # j => started[i] # started[j]

\* A Cron counts from its start, fraction and all. With one, the newest instant is
\* after the second it was marked at, and every evaluation fires it again: Once
\* fails of such a schedule, against both comments.
InSeconds(c) == c.type = "Cron" => Begin(c) % Second = 0

\* Every job is for a time on the schedule, and a time is not for two jobs, not
\* even one at which the clock is set back.
OnSchedule ==
  /\ \A t \in Started : Begin(cfg) <= t /\ t <= End(cfg)
  /\ \A S \in Meant(cfg) : Cardinality(S \cap Started) <= 1
  /\ cfg.type # "Cron" =>
       \A t \in Started : \E d \in MeantDays(cfg), m \in Minutes(cfg) : Reading(cfg.zone, t) = d * Day + m

\* What the mark has passed, or an evaluation that saw its whole window, has a
\* job, or at least MaxPerTick newer ones have.
NothingLost ==
  \A S \in Meant(cfg) :
    (\A t \in S : t <= mark \/ (scanned /\ t <= asked))
      => \/ S \cap Started # {}
         \/ \A t \in S : Cardinality({u \in Started : u > t}) >= MaxPerTick

\* Local times, months and weekdays, 23 and 25 hour days: whatever the moments of
\* the evaluations, each meant instant is fired, and fired once unless it has a
\* fraction of a second.
OccurrencesSound ==
  cfg # None /\ Regular(cfg) =>
    InOrder /\ OnSchedule /\ NothingLost /\ (InSeconds(cfg) => Once)

\* schedule.go, of a field that belongs to another type: "the wrong-shaped request
\* should fail".
OwnFieldsOnly ==
  cfg # None =>
    /\ cfg.weekdays # <<>> => cfg.type = "Weekly"
    /\ cfg.occurrence # None \/ cfg.recurrence # 0 => cfg.type = "Monthly"
    /\ cfg.interval # 0 => cfg.type = "Cron"

=============================================================================
