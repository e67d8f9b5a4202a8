----------------------------- MODULE Recurrence -----------------------------
(***************************************************************************)
(* The calendar of recurring services: nextOccurrence() on calendar dates. *)
(* A date is a day number; day 0 is a Sunday.  Months are intervals of     *)
(* days given by the constant MonthFirst, so that every statement here is  *)
(* about any calendar whose months follow each other.                      *)
(***************************************************************************)
EXTENDS Integers

CONSTANTS
  LastMonth,   \* the months are numbered 0..LastMonth
  MonthFirst   \* the first day of each month, and of the one that follows them

ASSUME MonthsFollowEachOther ==
  /\ LastMonth \in Nat \ {0}
  /\ MonthFirst \in [0..LastMonth + 1 -> Nat]
  /\ MonthFirst[0] = 0
  /\ \A m \in 0..LastMonth : MonthFirst[m] < MonthFirst[m + 1]

NoDate == -1   \* SQL NULL

Dates == 0..MonthFirst[LastMonth] - 1   \* the dates on which a month follows

Frequencies == {"WEEKLY", "EVERY_TWO_WEEKS", "MONTHLY", "CUSTOM"}

\* A rule as validate() accepts it.
Rule ==
  [frequency  : Frequencies,
   effective  : Dates,             \* effectiveDate
   end        : Dates \cup {NoDate},
   weekday    : 0..6,              \* used by the weekly frequencies
   dayOfMonth : 1..31]             \* used by MONTHLY

-----------------------------------------------------------------------------
\* The first day from date on that falls on weekday.
OnOrAfter(date, weekday) == date + ((weekday - (date % 7) + 7) % 7)

MonthOf(date) ==
  CHOOSE m \in 0..LastMonth : MonthFirst[m] <= date /\ date < MonthFirst[m + 1]

MonthLength(m) == MonthFirst[m + 1] - MonthFirst[m]

\* monthlyDate: a short month uses its last day.
MonthlyDate(m, day) ==
  MonthFirst[m] + (IF day <= MonthLength(m) THEN day ELSE MonthLength(m)) - 1

\* Mutant of Fortnight: alternate weeks are counted from any other week.
FortnightFromHere(rule, candidate) ==
  IF (candidate - OnOrAfter(candidate, rule.weekday)) % 14 # 0 THEN candidate + 7 ELSE candidate

\* Alternate weeks are anchored at the first weekday of the agreement.
Fortnight(rule, candidate) ==
  IF (candidate - OnOrAfter(rule.effective, rule.weekday)) % 14 # 0
    THEN candidate + 7
    ELSE candidate

\* This month's date, or next month's when it has passed.
Monthly(rule, start) ==
  LET candidate == MonthlyDate(MonthOf(start), rule.dayOfMonth) IN
  IF candidate < start THEN MonthlyDate(MonthOf(start) + 1, rule.dayOfMonth) ELSE candidate

CandidateStart(rule, from) == IF from > rule.effective THEN from ELSE rule.effective

Candidate(rule, start) ==
  CASE rule.frequency = "WEEKLY"          -> OnOrAfter(start, rule.weekday)
    [] rule.frequency = "EVERY_TWO_WEEKS" -> Fortnight(rule, OnOrAfter(start, rule.weekday))
    [] rule.frequency = "MONTHLY"         -> Monthly(rule, start)

NextOccurrence(rule, from) ==
  IF rule.frequency = "CUSTOM" THEN NoDate
  ELSE LET candidate == Candidate(rule, CandidateStart(rule, from)) IN
       IF rule.end # NoDate /\ candidate > rule.end THEN NoDate ELSE candidate

-----------------------------------------------------------------------------
(* What the decision record says an occurrence is *)

\* The date is the month's requested day, or the last day of a shorter month.
OnMonthlyDay(rule, date) ==
  \E m \in 0..LastMonth :
    /\ MonthFirst[m] <= date /\ date < MonthFirst[m + 1]
    /\ \/ date = MonthFirst[m] + rule.dayOfMonth - 1
       \/ date = MonthFirst[m + 1] - 1 /\ rule.dayOfMonth > MonthLength(m)

\* The date falls in an even week of the weekday's first week.
OnAlternateWeek(rule, date) ==
  \E first \in rule.effective..rule.effective + 6 :
    /\ first % 7 = rule.weekday
    /\ date >= first
    /\ (date - first) % 14 = 0

OnRule(rule, date) ==
  /\ date >= rule.effective
  /\ rule.end # NoDate => date <= rule.end
  /\ CASE rule.frequency = "WEEKLY"          -> date % 7 = rule.weekday
       [] rule.frequency = "EVERY_TWO_WEEKS" -> OnAlternateWeek(rule, date)
       [] rule.frequency = "MONTHLY"         -> OnMonthlyDay(rule, date)
       [] OTHER                              -> FALSE

\* The date is the first occurrence of the rule from a day on.
FirstOnRule(rule, from, date) ==
  /\ OnRule(rule, date)
  /\ date >= from
  /\ \A earlier \in from..date - 1 : ~OnRule(rule, earlier)

=============================================================================
