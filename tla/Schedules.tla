----------------------------- MODULE Schedules -----------------------------
(***************************************************************************)
(* The dates event-service offers for a performance: _schedule_days reads  *)
(* the weekdays out of the KOPIS schedule text, compute_schedules walks    *)
(* the calendar.  A date is its number, 0 a Monday; a text is what the two *)
(* patterns find in it: the ranges "a ~ b" and the names.                  *)
(***************************************************************************)
EXTENDS Integers, Sequences, FiniteSets, FiniteSetsExt

Weekdays == 0 .. 6
Weekend  == {5, 6}
Unset    == -1      \* a start or an end that is NULL

Text == [ranges : SUBSET (Weekdays \X Weekdays), names : SUBSET Weekdays]

\* Mutant: a range over the end of the week is empty.
DaysOfRangeInWeek(s, e) == s .. e

DaysOfRange(s, e) == IF e >= s THEN s .. e ELSE (s .. 6) \cup (0 .. e)

\* The second pattern finds the ends of the ranges again.
ScheduleDays(t) ==
    LET days == (UNION {DaysOfRange(p[1], p[2]) : p \in t.ranges})
                  \cup t.names \cup (UNION {{p[1], p[2]} : p \in t.ranges})
    IN  IF days = {} THEN Weekend ELSE days

\* The loop of compute_schedules: dates[n] is its result after n days.
ComputeSchedules(start, end, days, max) ==
    IF Unset \in {start, end} \/ end < start
    THEN <<>>
    ELSE LET dates[n \in 0 .. end - start + 1] ==
               IF n = 0 THEN <<>>
               ELSE LET result == dates[n - 1]
                        cur    == start + n - 1
                    IN  IF Len(result) < max /\ cur % 7 \in days
                        THEN Append(result, cur) ELSE result
         IN  dates[end - start + 1]

-----------------------------------------------------------------------------
(* Properties                                                              *)

\* Texts of one or two ranges, and of no range, with up to one more name.
Texts ==
    LET pairs == Weekdays \X Weekdays
        names == {{}} \cup {{w} : w \in Weekdays}
    IN  [ranges : {{}} \cup {{p, q} : p \in pairs, q \in pairs}, names : names]

\* A weekday is played on exactly if the text names it or it lies on the way,
\* onwards through the week, from the first to the last day of a range: also
\* when Sunday comes in between.
DaysFollowTheText ==
    \A t \in Texts : t.ranges # {} \/ t.names # {} => ScheduleDays(t) =
        {w \in Weekdays : w \in t.names \/ \E p \in t.ranges : (w - p[1]) % 7 <= (p[2] - p[1]) % 7}

\* dates are the first max of the days from start to end that fall on one of the
\* weekdays, each once and in order.
AreTheFirst(dates, start, end, days, max) ==
    LET chosen == {dates[i] : i \in DOMAIN dates}
        all    == {d \in start .. end : d % 7 \in days}
    IN  /\ \A i, j \in DOMAIN dates : i < j => dates[i] < dates[j]
        /\ chosen \subseteq all
        /\ Len(dates) = Min({max, Cardinality(all)})
        /\ \A d \in all \ chosen : \A c \in chosen : c < d

\* Those are the dates offered from a day on.
DatesAreTheFirst == [start \in 0 .. 13 |->
    \A days \in SUBSET Weekdays, length \in 0 .. 16, max \in {0, 1, 3} :
        LET end == start + length - 1
        IN  AreTheFirst(ComputeSchedules(start, end, days, max), start, end, days, max)]
=============================================================================
