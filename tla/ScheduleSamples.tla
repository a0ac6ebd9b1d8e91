--------------------------- MODULE ScheduleSamples ---------------------------
(* Schedule configurations for model checking, given in half hours, 48 to a    *)
(* day. Nothing but a start is finer than that, so half an hour stands for the *)
(* second that instants are stored at, and the unit is half of it. Day 0 is a  *)
(* Wednesday, the 1 January of a year without a leap day. Each zone changes    *)
(* its offset once, in the night to the third day.                             *)
EXTENDS Integers, Sequences

CONSTANT None

HalfHour == 2
DayUnits == 48 * HalfHour
Scaled(list) == [i \in DOMAIN list |-> list[i] * HalfHour]

Months == <<0, 31, 59, 90>>

HalfHourZones ==
  [utc |-> [offset |-> <<0>>, at |-> <<>>],
   kolkata |-> [offset |-> <<11>>, at |-> <<>>],
   newYorkSpring |-> [offset |-> <<-10, -8>>, at |-> <<110>>],
   newYorkFall |-> [offset |-> <<-8, -10>>, at |-> <<108>>],
   berlinSpring |-> [offset |-> <<2, 4>>, at |-> <<98>>],
   berlinFall |-> [offset |-> <<4, 2>>, at |-> <<98>>],
   \* The clock goes from midnight to one, the day begins at one.
   santiagoSpring |-> [offset |-> <<-8, -6>>, at |-> <<104>>]]
Zones ==
  [z \in DOMAIN HalfHourZones |-> [offset |-> Scaled(HalfHourZones[z].offset), at |-> Scaled(HalfHourZones[z].at)]]

Local(at) == [local |-> TRUE, at |-> at * HalfHour]
Fixed(at) == [local |-> FALSE, at |-> at * HalfHour]
Fraction(x) == [x EXCEPT !.at = @ + 1]

Plain == [type |-> "Daily", zone |-> "utc", start |-> Local(48), end |-> Local(240), interval |-> 0,
          times |-> <<>>, weekdays |-> <<>>, occurrence |-> None, recurrence |-> 0]

Cron(interval, start) == [Plain EXCEPT !.type = "Cron", !.interval = interval * HalfHour, !.start = start]
Daily(zone, times) == [Plain EXCEPT !.zone = zone, !.times = Scaled(times)]
Weekly(zone, days) == [Daily(zone, <<18, 47>>) EXCEPT !.type = "Weekly", !.weekdays = days]
Monthly(start, each, occurrence) ==
  [Daily("kolkata", <<2>>) EXCEPT !.type = "Monthly", !.start = Local(start * 48), !.end = Local(4300),
                                 !.recurrence = each, !.occurrence = occurrence]
On(n) == [type |-> "DayOfMonth", day |-> n]
The(n, weekday) == [type |-> "OrdinalWeekday", week |-> n, weekday |-> weekday]

\* Times before, in and after the hour that is skipped or repeated.
Regulars ==
  {Daily(z, <<18, 2, 6, 2>>) : z \in DOMAIN Zones \ {"santiagoSpring"}}
  \cup {Daily("newYorkFall", <<3, 4>>), Daily("berlinFall", <<3, 4, 5>>),
        [Daily("newYorkSpring", <<0, 47>>) EXCEPT !.start = Fixed(60)],
        [Daily("utc", <<18, 20>>) EXCEPT !.start = Fraction(Local(66))],
        Cron(1, Local(60)), Cron(13, Fixed(50)), Cron(500, Local(50)),
        Cron(13, Fraction(Local(50))), Cron(1, Fraction(Fixed(110))),
        Weekly("berlinFall", <<5, 6, 5>>), Weekly("newYorkSpring", <<0, 4>>),
        Monthly(0, 1, On(31)), Monthly(0, 2, On(30)),
        Monthly(0, 1, The(5, 5)), Monthly(31, 2, The(1, 1)),
        \* Its weekdays are accepted, and say nothing.
        [Monthly(20, 1, On(20)) EXCEPT !.weekdays = <<1>>]}

\* A listed time, or a midnight, that the clock jumps over.
Irregulars ==
  {Daily("newYorkSpring", <<3, 5>>), Daily("newYorkSpring", <<3, 4>>), Daily("berlinSpring", <<5, 6>>),
   Daily("santiagoSpring", <<18>>)}

\* Fields that are missing, out of range, or those of another type.
Refused ==
  {[Plain EXCEPT !.type = "Hourly"], [Plain EXCEPT !.zone = "mars", !.times = Scaled(<<1>>)],
   Cron(0, Local(48)), Cron(601, Local(48)), [Cron(1, Local(48)) EXCEPT !.times = Scaled(<<1>>)], Cron(1, Local(240)),
   Daily("utc", <<>>), Daily("utc", <<48>>), Daily("utc", <<1, 2, 3, 4, 5>>),
   [Daily("utc", <<1>>) EXCEPT !.occurrence = On(1)],
   Weekly("utc", <<>>), Weekly("utc", <<7>>), Monthly(0, 0, On(1)), Monthly(0, 3, On(1)),
   Monthly(0, 1, None), Monthly(0, 1, On(32)), Monthly(0, 1, The(6, 1))}

\* When it is looked at: around the change, days later, and months later.
Moments == {t * HalfHour : t \in {40, 60, 100, 107, 111, 114, 150, 192, 1500, 4400}}
=============================================================================
