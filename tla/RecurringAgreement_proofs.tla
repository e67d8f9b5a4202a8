--------------------- MODULE RecurringAgreement_proofs ---------------------
(***************************************************************************)
(* Proofs about RecurringAgreement, for every calendar of consecutive      *)
(* months, every set of rules, and any number of agreements, requests,     *)
(* processes and failures.  The first part is about Recurrence:            *)
(* nextOccurrence() returns the first date of the rule, for every rule and *)
(* every starting date.                                                    *)
(***************************************************************************)
EXTENDS RecurringAgreement, FiniteSetTheorems, WellFoundedInduction, TLAPS

-----------------------------------------------------------------------------
(* Weekdays *)

LEMMA OnOrAfterIsFirst ==
  ASSUME NEW date \in Nat, NEW weekday \in 0..6
  PROVE  /\ OnOrAfter(date, weekday) \in date..date + 6
         /\ OnOrAfter(date, weekday) % 7 = weekday
BY DEF OnOrAfter

LEMMA OneWeekdayAWeek ==
  ASSUME NEW a \in Nat, NEW b \in Nat, a % 7 = b % 7, a <= b, b < a + 7
  PROVE  a = b
OBVIOUS

-----------------------------------------------------------------------------
(* Months *)

\* A nonempty set of natural numbers has a least one.
LEMMA LeastNatural ==
  ASSUME NEW T \in SUBSET Nat, T # {}
  PROVE  \E x \in T : \A y \in T : x <= y
<1>1. PICK R : /\ R = {ss \in Nat \X Nat : ss[1] < ss[2]}
               /\ IsWellFoundedOn(R, Nat)
  BY NatLessThanWellFounded, Zenon DEF OpToRel
<1>2. \E x \in T : \A y \in T : ~ (<<y, x>> \in R)
  BY <1>1, WFMin, Zenon
<1>3. \A x, y \in Nat : <<y, x>> \in R <=> y < x
  BY <1>1
<1>4. PICK x \in T : \A y \in T : ~ (<<y, x>> \in R)
  BY <1>2, Zenon
<1>5. \A y \in T : y \in Nat /\ x \in Nat /\ ~ (y < x)
  BY <1>3, <1>4, Zenon
<1> QED
  BY <1>5

LEMMA MonthFirstIsNatural ==
  \A m \in 0..LastMonth + 1 : MonthFirst[m] \in Nat
BY MonthsFollowEachOther

\* A month ends before every later month begins.
LEMMA MonthsInOrder ==
  \A m, n \in 0..LastMonth + 1 : m < n => MonthFirst[m] < MonthFirst[n]
<1> DEFINE Late == {n \in 0..LastMonth + 1 :
                      \E m \in 0..LastMonth + 1 : m < n /\ MonthFirst[m] >= MonthFirst[n]}
<1>1. SUFFICES ASSUME Late # {} PROVE FALSE
  <2>1. Late = {}
    BY <1>1
  <2>2. \A m, n \in 0..LastMonth + 1 : ~ (m < n /\ MonthFirst[m] >= MonthFirst[n])
    BY <2>1
  <2> QED
    BY <2>2, MonthFirstIsNatural
<1>2. Late \in SUBSET Nat
  BY MonthsFollowEachOther
<1>3. PICK n \in Late : \A k \in Late : n <= k
  BY <1>1, <1>2, LeastNatural
<1>4. PICK m \in 0..LastMonth + 1 : m < n /\ MonthFirst[m] >= MonthFirst[n]
  BY <1>3
<1>5. /\ n - 1 \in 0..LastMonth /\ n - 1 \in 0..LastMonth + 1
      /\ n \in 0..LastMonth + 1
  BY <1>3, <1>4, MonthsFollowEachOther
<1>6. MonthFirst[m] \in Nat /\ MonthFirst[n] \in Nat /\ MonthFirst[n - 1] \in Nat
  BY <1>4, <1>5, MonthFirstIsNatural
<1> HIDE DEF Late
<1>7. MonthFirst[n - 1] < MonthFirst[n]
  <2>1. MonthFirst[n - 1] < MonthFirst[n - 1 + 1]
    BY <1>5, MonthsFollowEachOther
  <2> QED
    BY <2>1, <1>5
<1>8. CASE m = n - 1
  BY <1>4, <1>7, <1>8, <1>6
<1>9. CASE m < n - 1
  <2>1. n - 1 \notin Late
    BY <1>3, <1>5
  <2>2. ~ (MonthFirst[m] >= MonthFirst[n - 1])
    BY <2>1, <1>4, <1>5, <1>9 DEF Late
  <2> QED
    BY <2>2, <1>4, <1>7, <1>6
<1> QED
  BY <1>4, <1>5, <1>8, <1>9

\* The month of a date exists, and another one follows it.
LEMMA MonthOfDate ==
  ASSUME NEW date \in Dates
  PROVE  /\ MonthOf(date) \in 0..LastMonth - 1
         /\ MonthFirst[MonthOf(date)] <= date
         /\ date < MonthFirst[MonthOf(date) + 1]
<1> DEFINE Ending == {m \in 0..LastMonth : date < MonthFirst[m + 1]}
<1>1. date \in Nat /\ LastMonth \in Nat /\ LastMonth > 0 /\ date < MonthFirst[LastMonth]
  BY MonthsFollowEachOther, MonthFirstIsNatural DEF Dates
<1>2. Ending \in SUBSET Nat
  BY <1>1
<1>3. LastMonth - 1 \in Ending
  <2>1. LastMonth - 1 + 1 = LastMonth /\ LastMonth - 1 \in 0..LastMonth
    BY <1>1
  <2> QED
    BY <1>1, <2>1
<1>4. PICK m \in Ending : \A k \in Ending : m <= k
  BY <1>2, <1>3, LeastNatural
<1>5. m \in 0..LastMonth /\ date < MonthFirst[m + 1]
  BY <1>4
<1>6. MonthFirst[m] <= date
  <2>1. CASE m = 0
    BY <2>1, <1>1, MonthsFollowEachOther
  <2>2. CASE m > 0
    <3>1. m - 1 \notin Ending
      BY <1>4, <1>5, <2>2, <1>1
    <3>2. m - 1 \in 0..LastMonth /\ m - 1 + 1 = m
      BY <1>5, <2>2, <1>1
    <3>3. ~ (date < MonthFirst[m])
      BY <3>1, <3>2
    <3> QED
      BY <3>3, <1>1, <1>5, MonthFirstIsNatural
  <2> QED
    BY <2>1, <2>2, <1>5
<1>7. /\ MonthOf(date) \in 0..LastMonth
      /\ MonthFirst[MonthOf(date)] <= date
      /\ date < MonthFirst[MonthOf(date) + 1]
  BY <1>5, <1>6 DEF MonthOf
<1>8. MonthOf(date) # LastMonth
  BY <1>1, <1>7, MonthFirstIsNatural
<1> QED
  BY <1>7, <1>8, <1>1

\* A month's date lies in the month, and is the only one the rule has in it.
LEMMA MonthlyDateInMonth ==
  ASSUME NEW m \in 0..LastMonth, NEW day \in 1..31
  PROVE  /\ MonthlyDate(m, day) \in Nat
         /\ MonthFirst[m] <= MonthlyDate(m, day)
         /\ MonthlyDate(m, day) < MonthFirst[m + 1]
<1>1. /\ MonthFirst[m] \in Nat /\ MonthFirst[m + 1] \in Nat
      /\ MonthFirst[m] < MonthFirst[m + 1]
  BY MonthsFollowEachOther
<1> QED
  BY <1>1 DEF MonthlyDate, MonthLength

LEMMA OneMonthOfADate ==
  ASSUME NEW date \in Nat, NEW m \in 0..LastMonth, NEW n \in 0..LastMonth,
         MonthFirst[m] <= date, date < MonthFirst[m + 1],
         MonthFirst[n] <= date, date < MonthFirst[n + 1]
  PROVE  m = n
<1>1. \A i, j \in 0..LastMonth : i < j => MonthFirst[i + 1] <= MonthFirst[j]
  <2> SUFFICES ASSUME NEW i \in 0..LastMonth, NEW j \in 0..LastMonth, i < j
               PROVE  MonthFirst[i + 1] <= MonthFirst[j]
    OBVIOUS
  <2>1. CASE i + 1 = j
    <3>1. MonthFirst[j] \in Nat
      BY MonthFirstIsNatural, MonthsFollowEachOther
    <3> QED
      BY <2>1, <3>1
  <2>2. CASE i + 1 < j
    <3>1. i + 1 \in 0..LastMonth + 1 /\ j \in 0..LastMonth + 1
      BY <2>2, MonthsFollowEachOther
    <3>2. MonthFirst[i + 1] < MonthFirst[j]
      BY <2>2, <3>1, MonthsInOrder
    <3>3. MonthFirst[i + 1] \in Nat /\ MonthFirst[j] \in Nat
      BY <3>1, MonthFirstIsNatural
    <3> QED
      BY <3>2, <3>3
  <2> QED
    BY <2>1, <2>2
<1>2. \A i \in 0..LastMonth : MonthFirst[i] \in Nat /\ MonthFirst[i + 1] \in Nat
  <2>1. \A i \in 0..LastMonth : i \in 0..LastMonth + 1 /\ i + 1 \in 0..LastMonth + 1
    BY MonthsFollowEachOther
  <2> QED
    BY <2>1, MonthFirstIsNatural
<1>3. ASSUME m < n PROVE FALSE
  <2>1. MonthFirst[m + 1] <= MonthFirst[n]
    BY <1>1, <1>3
  <2> QED
    BY <2>1, <1>2
<1>4. ASSUME n < m PROVE FALSE
  <2>1. MonthFirst[n + 1] <= MonthFirst[m]
    BY <1>1, <1>4
  <2> QED
    BY <2>1, <1>2
<1> QED
  BY <1>3, <1>4, MonthsFollowEachOther

-----------------------------------------------------------------------------
(* The first date of a rule *)

LEMMA CandidateStartIsLater ==
  ASSUME NEW rule \in Rule, NEW from \in Dates
  PROVE  /\ CandidateStart(rule, from) \in Dates
         /\ CandidateStart(rule, from) >= from
         /\ CandidateStart(rule, from) >= rule.effective
<1>1. from \in Nat /\ rule.effective \in Nat /\ rule.effective \in Dates
  BY MonthFirstIsNatural, MonthsFollowEachOther DEF Dates, Rule
<1> QED
  BY <1>1 DEF CandidateStart

\* The date is on the rule's weekday or monthly day, whatever its end date.
OnPattern(rule, date) ==
  CASE rule.frequency = "WEEKLY"          -> date % 7 = rule.weekday
    [] rule.frequency = "EVERY_TWO_WEEKS" -> OnAlternateWeek(rule, date)
    [] rule.frequency = "MONTHLY"         -> OnMonthlyDay(rule, date)
    [] OTHER                              -> FALSE

\* What the three lemmas on candidates say, one for each frequency.
FirstOnPattern(rule, start, date) ==
  /\ date \in Nat
  /\ date >= start
  /\ OnPattern(rule, date)
  /\ \A earlier \in start..date - 1 : ~OnPattern(rule, earlier)

LEMMA WeeklyCandidate ==
  ASSUME NEW rule \in Rule, NEW start \in Dates, rule.frequency = "WEEKLY"
  PROVE  FirstOnPattern(rule, start, Candidate(rule, start))
<1>1. start \in Nat /\ rule.weekday \in 0..6
  BY MonthFirstIsNatural, MonthsFollowEachOther DEF Dates, Rule
<1>2. Candidate(rule, start) = OnOrAfter(start, rule.weekday)
  BY DEF Candidate
<1>3. /\ OnOrAfter(start, rule.weekday) \in start..start + 6
      /\ OnOrAfter(start, rule.weekday) % 7 = rule.weekday
  BY <1>1, OnOrAfterIsFirst
<1>4. \A date : OnPattern(rule, date) <=> date % 7 = rule.weekday
  BY DEF OnPattern
<1>5. ASSUME NEW earlier \in start..Candidate(rule, start) - 1,
             earlier % 7 = rule.weekday
      PROVE  FALSE
  BY <1>1, <1>2, <1>3, <1>5, OneWeekdayAWeek
<1> QED
  BY <1>1, <1>2, <1>3, <1>4, <1>5 DEF FirstOnPattern

\* The alternate weeks of a rule are those that are even weeks from its anchor.
LEMMA AlternateWeeks ==
  ASSUME NEW rule \in Rule, NEW date \in Nat
  PROVE  LET anchor == OnOrAfter(rule.effective, rule.weekday) IN
         OnAlternateWeek(rule, date) <=> date >= anchor /\ (date - anchor) % 14 = 0
<1> DEFINE anchor == OnOrAfter(rule.effective, rule.weekday)
<1>1. rule.effective \in Nat /\ rule.weekday \in 0..6
  BY MonthFirstIsNatural, MonthsFollowEachOther DEF Dates, Rule
<1>2. anchor \in rule.effective..rule.effective + 6 /\ anchor % 7 = rule.weekday
  BY <1>1, OnOrAfterIsFirst
<1>3. ASSUME NEW first \in rule.effective..rule.effective + 6, first % 7 = rule.weekday
      PROVE  first = anchor
  <2>1. first \in Nat /\ anchor \in Nat
    BY <1>1, <1>2
  <2>2. CASE first <= anchor
    BY <2>1, <2>2, <1>1, <1>2, <1>3, OneWeekdayAWeek
  <2>3. CASE anchor <= first
    BY <2>1, <2>3, <1>1, <1>2, <1>3, OneWeekdayAWeek
  <2> QED
    BY <2>1, <2>2, <2>3
<1> HIDE DEF anchor
<1>4. OnAlternateWeek(rule, date) <=> date >= anchor /\ (date - anchor) % 14 = 0
  BY <1>2, <1>3 DEF OnAlternateWeek
<1> QED
  BY <1>4 DEF anchor

LEMMA FortnightArithmetic ==
  ASSUME NEW anchor \in Nat, NEW start \in Nat, NEW candidate \in Nat,
         anchor % 7 = candidate % 7,
         anchor <= candidate, candidate \in start..start + 6,
         NEW next, next = IF (candidate - anchor) % 14 # 0 THEN candidate + 7 ELSE candidate
  PROVE  /\ (next - anchor) % 14 = 0
         /\ \A earlier \in start..next - 1 : earlier < anchor \/ (earlier - anchor) % 14 # 0
<1>1. CASE (candidate - anchor) % 14 = 0
  <2>1. ASSUME NEW earlier \in start..candidate - 1, earlier >= anchor,
               (earlier - anchor) % 14 = 0
        PROVE  FALSE
    BY <2>1, <1>1
  <2> QED
    BY <1>1, <2>1
<1>2. CASE (candidate - anchor) % 14 # 0
  <2>1. (candidate - anchor) % 14 = 7
    BY <1>2
  <2>2. (candidate + 7 - anchor) % 14 = 0
    BY <2>1
  <2>3. ASSUME NEW earlier \in start..candidate + 6, earlier >= anchor,
               (earlier - anchor) % 14 = 0
        PROVE  FALSE
    BY <2>1, <2>3
  <2>4. candidate + 7 - 1 = candidate + 6
    OBVIOUS
  <2> QED
    BY <1>2, <2>2, <2>3, <2>4
<1> QED
  BY <1>1, <1>2

LEMMA FortnightlyCandidate ==
  ASSUME NEW rule \in Rule, NEW start \in Dates, start >= rule.effective,
         rule.frequency = "EVERY_TWO_WEEKS"
  PROVE  FirstOnPattern(rule, start, Candidate(rule, start))
<1> DEFINE anchor == OnOrAfter(rule.effective, rule.weekday)
           candidate == OnOrAfter(start, rule.weekday)
           next == IF (candidate - anchor) % 14 # 0 THEN candidate + 7 ELSE candidate
<1>1. start \in Nat /\ rule.effective \in Nat /\ rule.weekday \in 0..6
  BY MonthFirstIsNatural, MonthsFollowEachOther DEF Dates, Rule
<1>2. anchor \in rule.effective..rule.effective + 6 /\ anchor % 7 = rule.weekday
  BY <1>1, OnOrAfterIsFirst
<1>3. candidate \in start..start + 6 /\ candidate % 7 = rule.weekday
  BY <1>1, OnOrAfterIsFirst
<1>4. Candidate(rule, start) = next
  BY DEF Candidate, Fortnight
<1>5. \A date \in Nat : OnPattern(rule, date) <=> date >= anchor /\ (date - anchor) % 14 = 0
  BY AlternateWeeks DEF OnPattern
<1> HIDE DEF anchor, candidate
<1>6. anchor \in Nat /\ candidate \in Nat
  BY <1>1, <1>2, <1>3
<1>7. anchor <= candidate
  <2>1. CASE candidate < anchor
    BY <2>1, <1>1, <1>2, <1>3, <1>6, OneWeekdayAWeek
  <2> QED
    BY <2>1, <1>6
<1>8. /\ (next - anchor) % 14 = 0
      /\ \A earlier \in start..next - 1 : earlier < anchor \/ (earlier - anchor) % 14 # 0
  <2>1. anchor % 7 = candidate % 7 /\ candidate \in start..start + 6
    BY <1>2, <1>3
  <2> HIDE DEF next
  <2>2. next = IF (candidate - anchor) % 14 # 0 THEN candidate + 7 ELSE candidate
    BY DEF next
  <2>3. start \in Nat
    BY <1>1
  <2> QED
    BY <1>6, <1>7, <2>1, <2>2, <2>3, FortnightArithmetic, SMTT(20)
<1>9. next \in Nat /\ next >= start /\ next >= anchor
  BY <1>1, <1>3, <1>6, <1>7
<1> HIDE DEF next
<1>10. OnPattern(rule, next)
  BY <1>5, <1>8, <1>9
<1>11. ASSUME NEW earlier \in start..next - 1, OnPattern(rule, earlier)
       PROVE  FALSE
  <2>1. earlier \in Nat
    BY <1>1, <1>9
  <2>2. earlier >= anchor /\ (earlier - anchor) % 14 = 0
    BY <2>1, <1>5, <1>11
  <2> QED
    BY <2>1, <2>2, <1>6, <1>8
<1> QED
  BY <1>4, <1>9, <1>10, <1>11 DEF FirstOnPattern

LEMMA MonthlyDays ==
  ASSUME NEW rule \in Rule, NEW date \in Nat, NEW m \in 0..LastMonth,
         MonthFirst[m] <= date, date < MonthFirst[m + 1]
  PROVE  OnMonthlyDay(rule, date) <=> date = MonthlyDate(m, rule.dayOfMonth)
<1>1. /\ MonthFirst[m] \in Nat /\ MonthFirst[m + 1] \in Nat
      /\ rule.dayOfMonth \in 1..31
  BY MonthsFollowEachOther DEF Rule
<1>2. OnMonthlyDay(rule, date) <=>
        \/ date = MonthFirst[m] + rule.dayOfMonth - 1
        \/ date = MonthFirst[m + 1] - 1 /\ rule.dayOfMonth > MonthLength(m)
  BY OneMonthOfADate DEF OnMonthlyDay
<1> QED
  BY <1>1, <1>2 DEF MonthlyDate, MonthLength

LEMMA MonthlyCandidate ==
  ASSUME NEW rule \in Rule, NEW start \in Dates, rule.frequency = "MONTHLY"
  PROVE  FirstOnPattern(rule, start, Candidate(rule, start))
<1> DEFINE m == MonthOf(start)
           this == MonthlyDate(m, rule.dayOfMonth)
           following == MonthlyDate(m + 1, rule.dayOfMonth)
<1>1. start \in Nat /\ rule.dayOfMonth \in 1..31
  BY MonthFirstIsNatural, MonthsFollowEachOther DEF Dates, Rule
<1>2. m \in 0..LastMonth - 1 /\ MonthFirst[m] <= start /\ start < MonthFirst[m + 1]
  BY MonthOfDate
<1>3. \A date : OnPattern(rule, date) <=> OnMonthlyDay(rule, date)
  BY DEF OnPattern
<1>4. Candidate(rule, start) = IF this < start THEN following ELSE this
  BY DEF Candidate, Monthly
<1> HIDE DEF m
<1>5. m \in 0..LastMonth /\ m + 1 \in 0..LastMonth
  BY <1>2, MonthsFollowEachOther
<1>6. /\ this \in Nat /\ MonthFirst[m] <= this /\ this < MonthFirst[m + 1]
      /\ following \in Nat /\ MonthFirst[m + 1] <= following
      /\ following < MonthFirst[m + 1 + 1]
  BY <1>1, <1>5, MonthlyDateInMonth
<1>7. /\ MonthFirst[m] \in Nat /\ MonthFirst[m + 1] \in Nat /\ MonthFirst[m + 1 + 1] \in Nat
      /\ MonthFirst[m] < MonthFirst[m + 1]
  BY <1>5, MonthsFollowEachOther
<1>8. \A date \in Nat :
        /\ MonthFirst[m] <= date /\ date < MonthFirst[m + 1] =>
             (OnPattern(rule, date) <=> date = this)
        /\ MonthFirst[m + 1] <= date /\ date < MonthFirst[m + 1 + 1] =>
             (OnPattern(rule, date) <=> date = following)
  BY <1>3, <1>5, MonthlyDays
<1> HIDE DEF this, following
<1>9. CASE this < start
  <2>1. following >= start /\ OnPattern(rule, following)
    BY <1>1, <1>2, <1>6, <1>7, <1>8
  <2>2. ASSUME NEW earlier \in start..following - 1, OnPattern(rule, earlier)
        PROVE  FALSE
    <3>1. earlier \in Nat /\ start <= earlier /\ earlier < following
      BY <1>1, <1>6
    <3>2. CASE earlier < MonthFirst[m + 1]
      BY <3>1, <3>2, <2>2, <1>1, <1>2, <1>6, <1>7, <1>8, <1>9
    <3>3. CASE MonthFirst[m + 1] <= earlier
      BY <3>1, <3>3, <2>2, <1>6, <1>7, <1>8
    <3> QED
      BY <3>1, <3>2, <3>3, <1>7
  <2> QED
    BY <2>1, <2>2, <1>4, <1>6, <1>9 DEF FirstOnPattern
<1>10. CASE ~ (this < start)
  <2>1. this >= start /\ OnPattern(rule, this)
    BY <1>1, <1>6, <1>8, <1>10
  <2>2. ASSUME NEW earlier \in start..this - 1, OnPattern(rule, earlier)
        PROVE  FALSE
    <3>1. earlier \in Nat /\ start <= earlier /\ earlier < this
      BY <1>1, <1>6
    <3>2. MonthFirst[m] <= earlier /\ earlier < MonthFirst[m + 1]
      BY <3>1, <1>1, <1>2, <1>6, <1>7
    <3> QED
      BY <3>1, <3>2, <2>2, <1>6, <1>8
  <2> QED
    BY <2>1, <2>2, <1>4, <1>6, <1>10 DEF FirstOnPattern
<1> QED
  BY <1>9, <1>10

LEMMA CandidateIsFirst ==
  ASSUME NEW rule \in Rule, NEW from \in Dates, rule.frequency # "CUSTOM"
  PROVE  FirstOnPattern(rule, CandidateStart(rule, from), Candidate(rule, CandidateStart(rule, from)))
<1>1. /\ CandidateStart(rule, from) \in Dates
      /\ CandidateStart(rule, from) >= rule.effective
  BY CandidateStartIsLater
<1>2. rule.frequency \in {"WEEKLY", "EVERY_TWO_WEEKS", "MONTHLY"}
  BY DEF Rule, Frequencies
<1> QED
  BY <1>1, <1>2, WeeklyCandidate, FortnightlyCandidate, MonthlyCandidate

LEMMA OnRuleIsOnPattern ==
  ASSUME NEW rule, NEW date
  PROVE  OnRule(rule, date) <=>
           /\ date >= rule.effective
           /\ rule.end # NoDate => date <= rule.end
           /\ OnPattern(rule, date)
BY DEF OnRule, OnPattern

\* No date of the rule precedes the candidate.
LEMMA NothingEarlier ==
  ASSUME NEW rule \in Rule, NEW from \in Dates, rule.frequency # "CUSTOM",
         NEW date \in Nat, date >= from, OnRule(rule, date)
  PROVE  date >= Candidate(rule, CandidateStart(rule, from))
<1> DEFINE start == CandidateStart(rule, from)
           candidate == Candidate(rule, start)
<1>1. rule.effective \in Nat /\ from \in Nat
  BY MonthFirstIsNatural, MonthsFollowEachOther DEF Dates, Rule
<1>2. start = from \/ start = rule.effective
  BY DEF CandidateStart
<1>3. FirstOnPattern(rule, start, candidate)
  BY CandidateIsFirst
<1>4. date >= rule.effective /\ OnPattern(rule, date)
  BY OnRuleIsOnPattern
<1> HIDE DEF start
<1>5. date >= start /\ start \in Nat
  BY <1>1, <1>2, <1>4
<1> HIDE DEF candidate
<1>6. candidate \in Nat /\ ~ (date \in start..candidate - 1)
  BY <1>3, <1>4 DEF FirstOnPattern
<1>7. date >= candidate
  BY <1>5, <1>6
<1> QED
  BY <1>7 DEF start, candidate

\* The types nextOccurrence() returns: a date, or null.
LEMMA NextOccurrenceType ==
  ASSUME NEW rule \in Rule, NEW from \in Dates
  PROVE  NextOccurrence(rule, from) \in Nat \cup {NoDate}
<1>1. CASE rule.frequency = "CUSTOM"
  BY <1>1 DEF NextOccurrence
<1>2. CASE rule.frequency # "CUSTOM"
  BY <1>2, CandidateIsFirst DEF NextOccurrence, FirstOnPattern
<1> QED
  BY <1>1, <1>2

\* nextOccurrence() returns a date on the rule, not before the starting date,
\* and no earlier one is on the rule: it neither catches up nor skips.
THEOREM NextOccurrenceIsFirst ==
  ASSUME NEW rule \in Rule, NEW from \in Dates, NextOccurrence(rule, from) # NoDate
  PROVE  FirstOnRule(rule, from, NextOccurrence(rule, from))
<1> DEFINE start == CandidateStart(rule, from)
           candidate == Candidate(rule, start)
<1>1. /\ rule.frequency # "CUSTOM"
      /\ NextOccurrence(rule, from) = candidate
      /\ rule.end # NoDate => ~ (candidate > rule.end)
  BY DEF NextOccurrence
<1>2. FirstOnPattern(rule, start, candidate)
  BY <1>1, CandidateIsFirst
<1>3. start \in Dates /\ start >= from /\ start >= rule.effective
  BY CandidateStartIsLater
<1>4. /\ rule.effective \in Nat /\ from \in Nat /\ rule.end \in Nat \cup {NoDate}
      /\ start \in Nat
  BY <1>3, MonthFirstIsNatural, MonthsFollowEachOther DEF Dates, Rule
<1>5. ASSUME NEW earlier \in from..candidate - 1, OnRule(rule, earlier)
      PROVE  FALSE
  <2>1. earlier \in Nat /\ earlier >= from /\ candidate \in Nat
    BY <1>2, <1>4 DEF FirstOnPattern
  <2>2. earlier >= candidate
    BY <2>1, <1>1, <1>5, NothingEarlier
  <2> QED
    BY <2>1, <2>2
<1> HIDE DEF start, candidate
<1>6. /\ candidate \in Nat /\ candidate >= start /\ OnPattern(rule, candidate)
  BY <1>2 DEF FirstOnPattern
<1>7. candidate >= from /\ candidate >= rule.effective
  BY <1>3, <1>4, <1>6
<1>8. rule.end # NoDate => candidate <= rule.end
  BY <1>1, <1>4, <1>6 DEF NoDate
<1>9. OnRule(rule, candidate)
  BY <1>6, <1>7, <1>8, OnRuleIsOnPattern
<1> QED
  BY <1>1, <1>5, <1>7, <1>9 DEF FirstOnRule

\* When nextOccurrence() returns null for a scheduled rule, none of the rule's
\* dates is left.
THEOREM NullWhenNoneIsLeft ==
  ASSUME NEW rule \in Rule, NEW from \in Dates, rule.frequency # "CUSTOM",
         NextOccurrence(rule, from) = NoDate
  PROVE  \A date \in Nat : date >= from => ~OnRule(rule, date)
<1> DEFINE candidate == Candidate(rule, CandidateStart(rule, from))
<1>1. candidate \in Nat
  BY CandidateIsFirst DEF FirstOnPattern
<1> HIDE DEF candidate
<1>2. rule.end # NoDate /\ candidate > rule.end
  BY <1>1 DEF NextOccurrence, NoDate, candidate
<1>3. rule.end \in Nat
  BY <1>2, MonthFirstIsNatural, MonthsFollowEachOther DEF Dates, Rule
<1>4. SUFFICES ASSUME NEW date \in Nat, date >= from, OnRule(rule, date)
               PROVE  FALSE
  OBVIOUS
<1>5. date >= candidate
  BY <1>4, NothingEarlier DEF candidate
<1>6. date <= rule.end
  BY <1>2, <1>4, OnRuleIsOnPattern
<1> QED
  BY <1>1, <1>2, <1>3, <1>5, <1>6

-----------------------------------------------------------------------------
(* Type correctness *)

LEMMA RulesAndDays == Rules \subseteq Rule /\ Days \subseteq Dates /\ Days \subseteq Nat
BY RulesAreValid, DaysAreDates, MonthFirstIsNatural, MonthsFollowEachOther DEF Dates

\* Every next date computed from a rule and a day of the model.
LEMMA NextType ==
  ASSUME NEW rule \in Rules, NEW day \in Days
  PROVE  NextOccurrence(rule, day) \in Nat \cup {NoDate}
BY RulesAndDays, NextOccurrenceType

LEMMA InitType == Init => RecurringTypeOK
<1> SUFFICES ASSUME Init PROVE RecurringTypeOK
  OBVIOUS
<1>1. PICK rule \in [Agreements -> Rules], quoted \in [Agreements -> BOOLEAN] :
        /\ agreement = [a \in Agreements |->
             IF quoted[a] THEN CreatedByQuote(rule[a]) ELSE CreatedByOffice(rule[a])]
        /\ visits = [a \in Agreements |-> IF quoted[a] THEN {rule[a].effective} ELSE {}]
  BY DEF Init
<1>2. today \in Days
  BY DEF Init
<1>3. ASSUME NEW a \in Agreements
      PROVE  /\ CreatedByOffice(rule[a]) \in Row /\ CreatedByQuote(rule[a]) \in Row
             /\ rule[a].effective \in Nat
  <2>1. rule[a] \in Rules
    OBVIOUS
  <2>2. rule[a].effective \in Nat
    BY <2>1, RulesAndDays, MonthFirstIsNatural, MonthsFollowEachOther DEF Rule, Dates
  <2>3. NextOccurrence(rule[a], today) \in Nat \cup {NoDate}
    BY <1>2, <2>1, NextType
  <2> QED
    BY <2>1, <2>2, <2>3 DEF CreatedByOffice, CreatedByQuote, Row, Statuses
<1>4. agreement \in [Agreements -> Row] /\ visits \in [Agreements -> SUBSET Nat]
  BY <1>1, <1>3
<1>5. failures \in 0..MaxFailures
  BY FailuresBounded DEF Init
<1> QED
  BY <1>2, <1>4, <1>5 DEF Init, RecurringTypeOK

LEMMA WrittenType ==
  ASSUME NEW row \in Row, NEW asked \in PendingStatus \cup PendingEdit
  PROVE  Written(row, asked) \in Row
<1>1. CASE asked \in PendingStatus
  BY <1>1 DEF Written, PendingStatus, Row
<1>2. CASE asked \in PendingEdit
  BY <1>2 DEF Written, PendingEdit, Row
<1> QED
  BY <1>1, <1>2

LEMMA ResumedType ==
  ASSUME NEW row \in Row, NEW rule \in Rules, NEW day \in Days
  PROVE  Resumed(row, rule, day) \in Row
<1>1. NextOccurrence(rule, day) \in Nat \cup {NoDate}
  BY NextType
<1> QED
  BY <1>1 DEF Resumed, Row, Statuses

\* The rows a pass has left, while it is running.
LEMMA LeftType ==
  ASSUME RecurringTypeOK, NEW p \in Processes, NEW read \in pass[p].left
  PROVE  /\ pass[p] \in Pass
         /\ read[1] \in Agreements /\ read[2] \in Rules /\ pass[p].today \in Days
<1>1. pass[p] \in Pass \cup {Resting}
  BY DEF RecurringTypeOK
<1>2. pass[p] # Resting
  BY DEF Resting
<1> QED
  BY <1>1, <1>2 DEF Pass

LEMMA StepType == RecurringTypeOK /\ [Next]_vars => RecurringTypeOK'
<1> SUFFICES ASSUME RecurringTypeOK, [Next]_vars PROVE RecurringTypeOK'
  OBVIOUS
<1> USE DEF RecurringTypeOK
<1>1. ASSUME NEW r \in Requests, StatusRead(r) PROVE RecurringTypeOK'
  <2>1. PICK a \in Agreements, status \in Statuses :
          \E resumeOn \in IF status = "PAUSED" THEN ResumeDates(agreement[a]) ELSE {NoDate} :
            request' = [request EXCEPT ![r] =
              [kind |-> "status", agreement |-> a, status |-> status,
               next |-> ChangedNext(agreement[a], status), resumeOn |-> resumeOn]]
    BY <1>1 DEF StatusRead
  <2>2. PICK resumeOn \in IF status = "PAUSED" THEN ResumeDates(agreement[a]) ELSE {NoDate} :
          request' = [request EXCEPT ![r] =
            [kind |-> "status", agreement |-> a, status |-> status,
             next |-> ChangedNext(agreement[a], status), resumeOn |-> resumeOn]]
    BY <2>1
  <2>3. resumeOn \in ResumeDays \cup {NoDate}
    BY DEF ResumeDates, ResumeDays
  <2>4. ChangedNext(agreement[a], status) \in Nat \cup {NoDate}
    <3>1. agreement[a] \in Row
      OBVIOUS
    <3> QED
      BY <3>1, NextType DEF Row, ChangedNext
  <2>5. [kind |-> "status", agreement |-> a, status |-> status,
         next |-> ChangedNext(agreement[a], status), resumeOn |-> resumeOn] \in PendingStatus
    BY <2>3, <2>4 DEF PendingStatus
  <2>6. request' \in [Requests -> {Idle} \cup PendingStatus \cup PendingEdit]
    BY <2>2, <2>5
  <2> QED
    BY <2>6, <1>1 DEF StatusRead
<1>2. ASSUME NEW r \in Requests, EditRead(r) PROVE RecurringTypeOK'
  <2>1. PICK a \in Agreements, rule \in Rules :
          request' = [request EXCEPT ![r] =
            [kind |-> "edit", agreement |-> a, rule |-> rule, next |-> NextOccurrence(rule, today)]]
    BY <1>2 DEF EditRead
  <2>2. [kind |-> "edit", agreement |-> a, rule |-> rule,
         next |-> NextOccurrence(rule, today)] \in PendingEdit
    BY NextType DEF PendingEdit
  <2>3. request' \in [Requests -> {Idle} \cup PendingStatus \cup PendingEdit]
    BY <2>1, <2>2
  <2> QED
    BY <2>3, <1>2 DEF EditRead
<1>3. ASSUME NEW r \in Requests, Write(r) PROVE RecurringTypeOK'
  <2>1. request[r] \in PendingStatus \cup PendingEdit
    BY <1>3 DEF Write
  <2>2. request[r].agreement \in Agreements
    BY <2>1 DEF PendingStatus, PendingEdit
  <2>3. Written(agreement[request[r].agreement], request[r]) \in Row
    BY <2>1, <2>2, WrittenType
  <2>4. agreement' \in [Agreements -> Row]
    BY <2>2, <2>3, <1>3 DEF Write
  <2>5. request' \in [Requests -> {Idle} \cup PendingStatus \cup PendingEdit]
    BY <1>3 DEF Write
  <2> QED
    BY <2>4, <2>5, <1>3 DEF Write
<1>4. ASSUME NEW a \in Agreements, EndElapsed(a) PROVE RecurringTypeOK'
  <2>1. [agreement[a] EXCEPT !.status = "ENDED", !.next = NoDate, !.resumeOn = NoDate] \in Row
    BY DEF Row, Statuses
  <2> QED
    BY <2>1, <1>4 DEF EndElapsed
<1>5. ASSUME NEW a \in Agreements, Generate(a) PROVE RecurringTypeOK'
  <2>1. agreement[a] \in Row /\ agreement[a].rule \in Rules
    BY DEF Row
  <2> DEFINE occurrence == NextOccurrence(agreement[a].rule, today)
  <2>2. occurrence \in Nat
    <3>1. occurrence \in Nat \cup {NoDate} /\ occurrence # NoDate
      BY <2>1, <1>5, NextType DEF Generate
    <3> QED
      BY <3>1
  <2>3. /\ visits' = [visits EXCEPT ![a] = @ \cup {occurrence}]
        /\ agreement' = [agreement EXCEPT ![a].next = occurrence]
        /\ UNCHANGED <<today, request, pass, failures>>
    BY <1>5 DEF Generate
  <2> HIDE DEF occurrence
  <2>4. [agreement[a] EXCEPT !.next = occurrence] \in Row
    BY <2>1, <2>2 DEF Row
  <2>5. agreement' \in [Agreements -> Row]
    BY <2>3, <2>4
  <2>6. visits' \in [Agreements -> SUBSET Nat]
    BY <2>2, <2>3
  <2> QED
    BY <2>3, <2>5, <2>6
<1>6. ASSUME NEW a \in Agreements, RemoveVisit(a) PROVE RecurringTypeOK'
  <2>1. visits' \in [Agreements -> SUBSET Nat]
    BY <1>6 DEF RemoveVisit
  <2> QED
    BY <2>1, <1>6 DEF RemoveVisit
<1>7. ASSUME NEW p \in Processes, BeginPass(p) PROVE RecurringTypeOK'
  <2>1. PICK batch \in Batches :
          pass' = [pass EXCEPT ![p] = [running |-> TRUE, today |-> today,
                                       left |-> {<<a, agreement[a].rule>> : a \in batch}]]
    BY <1>7 DEF BeginPass
  <2>2. batch \subseteq Agreements
    BY DEF Batches, Due
  <2>3. \A a \in batch : agreement[a].rule \in Rules
    BY <2>2 DEF Row
  <2>4. {<<a, agreement[a].rule>> : a \in batch} \subseteq Agreements \X Rules
    BY <2>2, <2>3
  <2>5. [running |-> TRUE, today |-> today,
         left |-> {<<a, agreement[a].rule>> : a \in batch}] \in Pass
    BY <2>4 DEF Pass
  <2>6. pass' \in [Processes -> Pass \cup {Resting}]
    BY <2>1, <2>5
  <2> QED
    BY <2>6, <1>7 DEF BeginPass
<1>8. ASSUME NEW p \in Processes, ResumeOne(p) PROVE RecurringTypeOK'
  <2>1. PICK read \in pass[p].left :
          /\ agreement' = [agreement EXCEPT ![read[1]] =
               IF StillDue(@, pass[p].today) THEN Resumed(@, read[2], pass[p].today) ELSE @]
          /\ pass' = [pass EXCEPT ![p].left = @ \ {read}]
    BY <1>8 DEF ResumeOne
  <2>2. /\ pass[p] \in Pass
        /\ read[1] \in Agreements /\ read[2] \in Rules /\ pass[p].today \in Days
    BY LeftType
  <2>3. Resumed(agreement[read[1]], read[2], pass[p].today) \in Row
    BY <2>2, ResumedType
  <2>4. agreement' \in [Agreements -> Row]
    BY <2>1, <2>2, <2>3
  <2> DEFINE rest == [pass[p] EXCEPT !.left = @ \ {read}]
  <2>5. rest \in Pass
    BY <2>2 DEF Pass
  <2>6. pass' = [pass EXCEPT ![p] = rest]
    BY <2>1
  <2> HIDE DEF rest
  <2>7. pass' \in [Processes -> Pass \cup {Resting}]
    BY <2>5, <2>6
  <2> QED
    BY <2>4, <2>7, <1>8 DEF ResumeOne
<1>9. ASSUME NEW p \in Processes, EndPass(p) PROVE RecurringTypeOK'
  BY <1>9 DEF EndPass
<1>10. ASSUME NEW p \in Processes, FailPass(p) PROVE RecurringTypeOK'
  <2>1. failures' \in 0..MaxFailures
    BY <1>10, FailuresBounded DEF FailPass
  <2>2. pass' \in [Processes -> Pass \cup {Resting}]
    BY <1>10 DEF FailPass, Abandoned
  <2> QED
    BY <2>1, <2>2, <1>10 DEF FailPass
<1>11. CASE NewDay
  BY <1>11 DEF NewDay
<1>12. CASE UNCHANGED vars
  BY <1>12 DEF vars
<1> QED
  BY <1>1, <1>2, <1>3, <1>4, <1>5, <1>6, <1>7, <1>8, <1>9, <1>10, <1>11, <1>12 DEF Next

\* Every variable keeps its type; a resume date lies after the day of its pause.
THEOREM RecurringTypeCorrect == Spec => []RecurringTypeOK
<1>1. RecurringTypeOK /\ [Next]_vars => RecurringTypeOK'
  BY StepType
<1> QED
  BY InitType, <1>1, PTL DEF Spec

-----------------------------------------------------------------------------
(* Resume dates *)

\* What a status request is about to write carries a resume date only with a pause.
ResumeInv ==
  /\ ResumeDateOnlyPaused
  /\ \A r \in Requests :
       request[r] # Idle /\ request[r].kind = "status" /\ request[r].resumeOn # NoDate
         => request[r].status = "PAUSED"

LEMMA InitResume == Init => ResumeInv
BY DEF Init, ResumeInv, ResumeDateOnlyPaused, CreatedByOffice, CreatedByQuote, Idle

\* A step that writes one row which keeps the rule.
LEMMA RowStep ==
  ASSUME RecurringTypeOK, ResumeInv, NEW a \in Agreements, NEW row \in Row,
         agreement' = [agreement EXCEPT ![a] = row],
         row.resumeOn # NoDate => row.status = "PAUSED"
  PROVE  ResumeDateOnlyPaused'
BY DEF RecurringTypeOK, ResumeInv, ResumeDateOnlyPaused

LEMMA StepResume == RecurringTypeOK /\ ResumeInv /\ [Next]_vars => ResumeInv'
<1> SUFFICES ASSUME RecurringTypeOK, ResumeInv, [Next]_vars PROVE ResumeInv'
  OBVIOUS
<1>1. ASSUME NEW r \in Requests, StatusRead(r) PROVE ResumeInv'
  <2>1. PICK a \in Agreements, status \in Statuses :
          \E resumeOn \in IF status = "PAUSED" THEN ResumeDates(agreement[a]) ELSE {NoDate} :
            request' = [request EXCEPT ![r] =
              [kind |-> "status", agreement |-> a, status |-> status,
               next |-> ChangedNext(agreement[a], status), resumeOn |-> resumeOn]]
    BY <1>1 DEF StatusRead
  <2>2. PICK resumeOn \in IF status = "PAUSED" THEN ResumeDates(agreement[a]) ELSE {NoDate} :
          request' = [request EXCEPT ![r] =
            [kind |-> "status", agreement |-> a, status |-> status,
             next |-> ChangedNext(agreement[a], status), resumeOn |-> resumeOn]]
    BY <2>1
  <2>3. resumeOn # NoDate => status = "PAUSED"
    OBVIOUS
  <2>4. ASSUME NEW q \in Requests,
               request'[q] # Idle, request'[q].kind = "status", request'[q].resumeOn # NoDate
        PROVE  request'[q].status = "PAUSED"
    <3>1. CASE q = r
      BY <3>1, <2>2, <2>3, <2>4 DEF RecurringTypeOK
    <3>2. CASE q # r
      BY <3>2, <2>2, <2>4 DEF RecurringTypeOK, ResumeInv
    <3> QED
      BY <3>1, <3>2
  <2> QED
    BY <2>4, <1>1 DEF StatusRead, ResumeInv, ResumeDateOnlyPaused
<1>2. ASSUME NEW r \in Requests, EditRead(r) PROVE ResumeInv'
  <2>1. PICK a \in Agreements, rule \in Rules :
          request' = [request EXCEPT ![r] =
            [kind |-> "edit", agreement |-> a, rule |-> rule, next |-> NextOccurrence(rule, today)]]
    BY <1>2 DEF EditRead
  <2>2. ASSUME NEW q \in Requests,
               request'[q] # Idle, request'[q].kind = "status", request'[q].resumeOn # NoDate
        PROVE  request'[q].status = "PAUSED"
    <3>1. q # r
      BY <2>1, <2>2 DEF RecurringTypeOK
    <3> QED
      BY <3>1, <2>1, <2>2 DEF RecurringTypeOK, ResumeInv
  <2> QED
    BY <2>2, <1>2 DEF EditRead, ResumeInv, ResumeDateOnlyPaused
<1>3. ASSUME NEW r \in Requests, Write(r) PROVE ResumeInv'
  <2> DEFINE a == request[r].agreement
             row == Written(agreement[a], request[r])
  <2>1. request[r] \in PendingStatus \cup PendingEdit
    BY <1>3 DEF Write, RecurringTypeOK
  <2>2. a \in Agreements
    BY <2>1 DEF PendingStatus, PendingEdit
  <2>3. agreement[a] \in Row /\ row \in Row
    BY <2>1, <2>2, WrittenType DEF RecurringTypeOK
  <2>4. row.resumeOn # NoDate => row.status = "PAUSED"
    <3>1. CASE request[r] \in PendingStatus
      <4>1. request[r].kind = "status" /\ request[r] # Idle
        BY <3>1, <1>3 DEF PendingStatus, Write
      <4>2. row.resumeOn = request[r].resumeOn /\ row.status = request[r].status
        BY <4>1, <2>3 DEF Written, Row
      <4> QED
        BY <4>1, <4>2 DEF ResumeInv
    <3>2. CASE request[r] \in PendingEdit
      <4>1. request[r].kind = "edit"
        BY <3>2 DEF PendingEdit
      <4>2. row.resumeOn = agreement[a].resumeOn /\ row.status = agreement[a].status
        BY <4>1, <2>3 DEF Written, Row
      <4> QED
        BY <4>2, <2>2 DEF ResumeInv, ResumeDateOnlyPaused
    <3> QED
      BY <2>1, <3>1, <3>2
  <2>5. agreement' = [agreement EXCEPT ![a] = row]
    BY <1>3, <2>2 DEF Write, RecurringTypeOK
  <2> HIDE DEF row, a
  <2>6. ResumeDateOnlyPaused'
    BY <2>2, <2>3, <2>4, <2>5, RowStep
  <2>7. \A q \in Requests : request'[q] = Idle \/ request'[q] = request[q]
    BY <1>3 DEF Write, RecurringTypeOK
  <2> QED
    BY <2>6, <2>7 DEF ResumeInv
<1>4. ASSUME NEW a \in Agreements, EndElapsed(a) PROVE ResumeInv'
  BY <1>4 DEF EndElapsed, ResumeInv, ResumeDateOnlyPaused, RecurringTypeOK, Row
<1>5. ASSUME NEW a \in Agreements, Generate(a) PROVE ResumeInv'
  BY <1>5 DEF Generate, ResumeInv, ResumeDateOnlyPaused, RecurringTypeOK, Row
<1>6. ASSUME NEW p \in Processes, ResumeOne(p) PROVE ResumeInv'
  <2>1. PICK read \in pass[p].left :
          agreement' = [agreement EXCEPT ![read[1]] =
            IF StillDue(@, pass[p].today) THEN Resumed(@, read[2], pass[p].today) ELSE @]
    BY <1>6 DEF ResumeOne
  <2> DEFINE row == Resumed(agreement[read[1]], read[2], pass[p].today)
  <2>2. read[1] \in Agreements /\ read[2] \in Rules /\ pass[p].today \in Days
    BY LeftType
  <2>3. row \in Row
    BY <2>2, ResumedType DEF RecurringTypeOK
  <2>4. row.resumeOn = NoDate
    BY <2>2 DEF Resumed, RecurringTypeOK, Row
  <2> HIDE DEF row
  <2>5. CASE StillDue(agreement[read[1]], pass[p].today)
    <3>1. agreement' = [agreement EXCEPT ![read[1]] = row]
      BY <2>1, <2>2, <2>5 DEF row, RecurringTypeOK
    <3> QED
      BY <3>1, <2>2, <2>3, <2>4, <1>6, RowStep DEF ResumeOne, ResumeInv
  <2>6. CASE ~StillDue(agreement[read[1]], pass[p].today)
    <3>1. agreement' = agreement
      BY <2>1, <2>2, <2>6 DEF RecurringTypeOK
    <3> QED
      BY <3>1, <1>6 DEF ResumeOne, ResumeInv, ResumeDateOnlyPaused
  <2> QED
    BY <2>5, <2>6
<1>7. CASE UNCHANGED <<agreement, request>>
  BY <1>7 DEF ResumeInv, ResumeDateOnlyPaused
<1> QED
  BY <1>1, <1>2, <1>3, <1>4, <1>5, <1>6, <1>7
     DEF Next, vars, RemoveVisit, BeginPass, EndPass, FailPass, NewDay

\* Only a paused agreement has an automatic resume date.
THEOREM ResumeDatesBelongToPauses == Spec => []ResumeDateOnlyPaused
<1>1. RecurringTypeOK /\ ResumeInv /\ [Next]_vars => ResumeInv'
  BY StepResume
<1>2. ResumeInv => ResumeDateOnlyPaused
  BY DEF ResumeInv
<1> QED
  BY RecurringTypeCorrect, InitResume, <1>1, <1>2, PTL DEF Spec

-----------------------------------------------------------------------------
(* Visits *)

\* Two visits that lie ahead are one.
AtMostOneAhead ==
  \A a \in Agreements : \A d, e \in visits[a] : d >= today /\ e >= today => d = e

LEMMA InitAhead == Init => AtMostOneAhead
BY DEF Init, AtMostOneAhead

LEMMA StepAhead == RecurringTypeOK /\ AtMostOneAhead /\ [Next]_vars => AtMostOneAhead'
<1> SUFFICES ASSUME RecurringTypeOK, AtMostOneAhead, [Next]_vars PROVE AtMostOneAhead'
  OBVIOUS
<1>1. today \in Nat /\ visits \in [Agreements -> SUBSET Nat]
  BY RulesAndDays DEF RecurringTypeOK
<1>2. ASSUME NEW a \in Agreements, Generate(a) PROVE AtMostOneAhead'
  <2> DEFINE occurrence == NextOccurrence(agreement[a].rule, today)
  <2>1. /\ Upcoming(a) = {}
        /\ visits' = [visits EXCEPT ![a] = @ \cup {occurrence}]
        /\ today' = today
    BY <1>2 DEF Generate
  <2> HIDE DEF occurrence
  <2>2. \A d \in visits[a] : ~ (d >= today)
    BY <2>1 DEF Upcoming
  <2> QED
    BY <1>1, <2>1, <2>2 DEF AtMostOneAhead
<1>3. ASSUME NEW a \in Agreements, RemoveVisit(a) PROVE AtMostOneAhead'
  BY <1>1, <1>3 DEF RemoveVisit, AtMostOneAhead
<1>4. CASE NewDay
  <2>1. \A a \in Agreements : \A d \in visits[a] : d \in Nat
    BY <1>1
  <2>2. visits' = visits /\ today' = today + 1
    BY <1>4 DEF NewDay
  <2>3. \A d \in Nat : d >= today' => d >= today
    BY <1>1, <2>2
  <2> QED
    BY <2>1, <2>2, <2>3 DEF AtMostOneAhead
<1>5. CASE UNCHANGED <<today, visits>>
  BY <1>5 DEF AtMostOneAhead
<1> QED
  BY <1>2, <1>3, <1>4, <1>5
     DEF Next, vars, StatusRead, EditRead, Write, EndElapsed, BeginPass, ResumeOne, EndPass, FailPass

LEMMA AheadMeansOne == RecurringTypeOK /\ AtMostOneAhead => OneUpcomingVisit
<1> SUFFICES ASSUME AtMostOneAhead, NEW a \in Agreements
             PROVE  Cardinality({date \in visits[a] : date >= today}) <= 1
  BY DEF OneUpcomingVisit
<1> DEFINE ahead == {date \in visits[a] : date >= today}
<1>1. CASE ahead = {}
  BY <1>1, FS_EmptySet
<1>2. CASE ahead # {}
  <2>1. PICK d \in ahead : TRUE
    BY <1>2
  <2>2. ahead = {d}
    BY <2>1 DEF AtMostOneAhead
  <2>3. Cardinality({d}) = 1
    BY FS_Singleton
  <2> QED
    BY <2>2, <2>3
<1> QED
  BY <1>1, <1>2

\* However often its rule is edited, an agreement has one upcoming visit at most.
THEOREM OneVisitAhead == Spec => []OneUpcomingVisit
<1>1. RecurringTypeOK /\ AtMostOneAhead /\ [Next]_vars => AtMostOneAhead'
  BY StepAhead
<1> QED
  BY RecurringTypeCorrect, InitAhead, <1>1, AheadMeansOne, PTL DEF Spec

LEMMA StepVisit ==
  RecurringTypeOK /\ [Next]_vars =>
    \A a \in Agreements : \A date \in visits'[a] \ visits[a] :
      /\ agreement[a].status = "ACTIVE"
      /\ FirstOnRule(agreement[a].rule, today, date)
<1> SUFFICES ASSUME RecurringTypeOK, [Next]_vars,
                    NEW a \in Agreements, NEW date \in visits'[a] \ visits[a]
             PROVE  /\ agreement[a].status = "ACTIVE"
                    /\ FirstOnRule(agreement[a].rule, today, date)
  OBVIOUS
<1>1. visits \in [Agreements -> SUBSET Nat]
  BY DEF RecurringTypeOK
<1>2. ASSUME NEW b \in Agreements, Generate(b)
      PROVE  /\ agreement[a].status = "ACTIVE"
             /\ FirstOnRule(agreement[a].rule, today, date)
  <2>1. b = a /\ date = NextOccurrence(agreement[a].rule, today)
    BY <1>1, <1>2 DEF Generate
  <2>2. agreement[a].status = "ACTIVE" /\ date # NoDate
    BY <1>2, <2>1 DEF Generate
  <2>3. agreement[a].rule \in Rule /\ today \in Dates
    BY RulesAndDays DEF RecurringTypeOK, Row
  <2> QED
    BY <2>1, <2>2, <2>3, NextOccurrenceIsFirst
<1>3. ASSUME NEW b \in Agreements, RemoveVisit(b) PROVE FALSE
  BY <1>1, <1>3 DEF RemoveVisit
<1>4. visits' # visits
  OBVIOUS
<1> QED
  BY <1>2, <1>3, <1>4
     DEF Next, vars, StatusRead, EditRead, Write, EndElapsed, BeginPass, ResumeOne, EndPass,
         FailPass, NewDay

\* Every generated visit is the first date of the agreement's rule.
THEOREM VisitsFollowTheRule == Spec => VisitIsNext
<1>1. RecurringTypeOK /\ [Next]_vars =>
        [\A a \in Agreements : \A date \in visits'[a] \ visits[a] :
           /\ agreement[a].status = "ACTIVE"
           /\ FirstOnRule(agreement[a].rule, today, date)]_vars
  BY StepVisit
<1> QED
  BY RecurringTypeCorrect, <1>1, PTL DEF Spec, VisitIsNext

-----------------------------------------------------------------------------
(* The runner *)

\* A pass works with the date of a day that has come.
PassInThePast == \A p \in Processes : pass[p].left # {} => pass[p].today <= today

LEMMA InitPass == Init => PassInThePast
BY DEF Init, PassInThePast, Resting

LEMMA StepPass == RecurringTypeOK /\ PassInThePast /\ [Next]_vars => PassInThePast'
<1> SUFFICES ASSUME RecurringTypeOK, PassInThePast, [Next]_vars PROVE PassInThePast'
  OBVIOUS
<1>1. today \in Nat /\ pass \in [Processes -> Pass \cup {Resting}]
  BY RulesAndDays DEF RecurringTypeOK
<1>2. ASSUME NEW p \in Processes, BeginPass(p) PROVE PassInThePast'
  BY <1>1, <1>2 DEF BeginPass, PassInThePast
<1>3. ASSUME NEW p \in Processes, ResumeOne(p) PROVE PassInThePast'
  <2>1. PICK read \in pass[p].left : pass' = [pass EXCEPT ![p].left = @ \ {read}]
    BY <1>3 DEF ResumeOne
  <2>2. pass[p] \in Pass
    BY LeftType
  <2>3. /\ pass'[p].today = pass[p].today /\ pass[p].left # {}
        /\ \A q \in Processes : q # p => pass'[q] = pass[q]
    BY <1>1, <2>1, <2>2 DEF Pass
  <2>4. today' = today
    BY <1>3 DEF ResumeOne
  <2> QED
    BY <2>3, <2>4 DEF PassInThePast
<1>4. ASSUME NEW p \in Processes, EndPass(p) \/ FailPass(p) PROVE PassInThePast'
  <2>1. pass' = [pass EXCEPT ![p] = Resting] /\ today' = today
    BY <1>4 DEF EndPass, FailPass, Abandoned
  <2> QED
    BY <1>1, <2>1 DEF PassInThePast, Resting
<1>5. CASE NewDay
  <2>1. pass' = pass /\ today' = today + 1
    BY <1>5 DEF NewDay
  <2>2. \A p \in Processes : pass[p].left # {} => pass[p].today \in Nat
    BY LeftType, RulesAndDays
  <2> QED
    BY <1>1, <2>1, <2>2 DEF PassInThePast
<1>6. CASE UNCHANGED <<today, pass>>
  BY <1>6 DEF PassInThePast
<1> QED
  BY <1>2, <1>3, <1>4, <1>5, <1>6
     DEF Next, vars, StatusRead, EditRead, Write, EndElapsed, Generate, RemoveVisit

LEMMA StepDecisions ==
  RecurringTypeOK /\ PassInThePast /\ [Next]_vars =>
    \A p \in Processes : pass'[p] # pass[p] =>
      \A a \in Agreements : agreement'[a] # agreement[a] => a \in Due
<1> SUFFICES ASSUME RecurringTypeOK, PassInThePast, [Next]_vars,
                    NEW a \in Agreements, agreement'[a] # agreement[a],
                    pass' # pass
             PROVE  a \in Due
  OBVIOUS
<1>1. ASSUME NEW p \in Processes, ResumeOne(p) PROVE a \in Due
  <2>1. PICK read \in pass[p].left :
          agreement' = [agreement EXCEPT ![read[1]] =
            IF StillDue(@, pass[p].today) THEN Resumed(@, read[2], pass[p].today) ELSE @]
    BY <1>1 DEF ResumeOne
  <2>2. pass[p].today \in Nat /\ today \in Nat /\ pass[p].today <= today
    BY LeftType, RulesAndDays DEF RecurringTypeOK, PassInThePast
  <2>3. StillDue(agreement[a], pass[p].today)
    BY <2>1 DEF RecurringTypeOK
  <2>4. agreement[a].resumeOn \in Int
    BY PausesArePositive, RulesAndDays DEF RecurringTypeOK, Row, ResumeDays, NoDate
  <2> QED
    BY <2>2, <2>3, <2>4 DEF StillDue, DueOn, Due
<1>2. agreement' # agreement /\ pass' # pass
  OBVIOUS
<1> QED
  BY <1>1, <1>2
     DEF Next, vars, StatusRead, EditRead, Write, EndElapsed, Generate, RemoveVisit, BeginPass,
         EndPass, FailPass, NewDay

\* A pass changes no row that an operator has resumed, cancelled, ended or
\* paused for longer since the pass read it.
THEOREM PassesKeepDecisions == Spec => PassKeepsDecisions
<1>1. RecurringTypeOK /\ PassInThePast /\ [Next]_vars => PassInThePast'
  BY StepPass
<1>2. RecurringTypeOK /\ PassInThePast /\ [Next]_vars =>
        [\A p \in Processes : pass'[p] # pass[p] =>
           \A a \in Agreements : agreement'[a] # agreement[a] => a \in Due]_vars
  BY StepDecisions
<1> QED
  BY RecurringTypeCorrect, InitPass, <1>1, <1>2, PTL DEF Spec, PassKeepsDecisions

-----------------------------------------------------------------------------
(* Cancellations *)

\* A request that has read agreement a and is about to write its status.
Changes(r, a) == request[r] # Idle /\ request[r].kind = "status" /\ request[r].agreement = a

\* No two changes of the status of one agreement are on their way at once.
OneChangeAtATime == \A a \in Agreements, r, q \in Requests : Changes(r, a) /\ Changes(q, a) => r = q

\* A cancelled agreement stays cancelled.
CancelledStays ==
  [][\A a \in Agreements : agreement[a].status = "CANCELLED" => agreement'[a].status = "CANCELLED"]_vars

\* What is about to be written to a cancelled agreement cancels it.
CancelInv ==
  \A a \in Agreements, r \in Requests :
    agreement[a].status = "CANCELLED" /\ Changes(r, a) => request[r].status = "CANCELLED"

\* What a step writes is nothing, an agreement that was not cancelled, the rest of a
\* row, or what a request has asked for.
LEMMA StatusWrites ==
  ASSUME RecurringTypeOK, [Next]_vars, NEW a \in Agreements
  PROVE  \/ agreement'[a].status = agreement[a].status
         \/ agreement[a].status # "CANCELLED" /\ agreement'[a].status # "CANCELLED" /\ request' = request
         \/ \E r \in Requests :
              /\ Changes(r, a) /\ agreement'[a].status = request[r].status
              /\ request' = [request EXCEPT ![r] = Idle]
<1> DEFINE Goal == \/ agreement'[a].status = agreement[a].status
                   \/ agreement[a].status # "CANCELLED" /\ agreement'[a].status # "CANCELLED" /\ request' = request
                   \/ \E r \in Requests :
                        /\ Changes(r, a) /\ agreement'[a].status = request[r].status
                        /\ request' = [request EXCEPT ![r] = Idle]
<1>1. ASSUME NEW r \in Requests, Write(r)
      PROVE  Goal
  <2> DEFINE b   == request[r].agreement
             row == Written(agreement[b], request[r])
  <2>1. request[r] \in PendingStatus \cup PendingEdit /\ request' = [request EXCEPT ![r] = Idle]
    BY <1>1 DEF Write, RecurringTypeOK
  <2>2. b \in Agreements /\ agreement[b] \in Row
    BY <2>1 DEF PendingStatus, PendingEdit, RecurringTypeOK
  <2>3. agreement' = [agreement EXCEPT ![b] = row]
    BY <1>1, <2>2 DEF Write, RecurringTypeOK
  <2>4. CASE request[r] \in PendingStatus
    <3>1. request[r].kind = "status" /\ request[r] # Idle
      BY <1>1, <2>4 DEF PendingStatus, Write
    <3>2. row.status = request[r].status
      BY <2>2, <3>1 DEF Written, Row
    <3> HIDE DEF row
    <3> QED
      BY <2>1, <2>2, <2>3, <3>1, <3>2 DEF Changes, RecurringTypeOK
  <2>5. CASE request[r] \in PendingEdit
    <3>1. request[r].kind = "edit"
      BY <2>5 DEF PendingEdit
    <3>2. row.status = agreement[b].status
      BY <2>2, <3>1 DEF Written, Row
    <3> HIDE DEF row
    <3> QED
      BY <2>2, <2>3, <3>2 DEF RecurringTypeOK
  <2> QED
    BY <2>1, <2>4, <2>5
<1>2. ASSUME NEW b \in Agreements, EndElapsed(b)
      PROVE  Goal
  BY <1>2 DEF EndElapsed, RecurringTypeOK, Row
<1>3. ASSUME NEW b \in Agreements, Generate(b)
      PROVE  Goal
  BY <1>3 DEF Generate, RecurringTypeOK, Row
<1>4. ASSUME NEW p \in Processes, ResumeOne(p)
      PROVE  Goal
  <2>1. PICK read \in pass[p].left :
          agreement' = [agreement EXCEPT ![read[1]] =
            IF StillDue(@, pass[p].today) THEN Resumed(@, read[2], pass[p].today) ELSE @]
    BY <1>4 DEF ResumeOne
  <2>2. read[1] \in Agreements /\ agreement[read[1]] \in Row /\ request' = request
    BY <1>4, LeftType DEF ResumeOne, RecurringTypeOK
  <2> DEFINE row == Resumed(agreement[read[1]], read[2], pass[p].today)
  <2>3. row.status \in {"ENDED", "ACTIVE"}
    BY <2>2 DEF Resumed, Row
  <2> HIDE DEF row
  <2>4. CASE StillDue(agreement[read[1]], pass[p].today)
    <3>1. agreement' = [agreement EXCEPT ![read[1]] = row]
      BY <2>1, <2>2, <2>4 DEF row, RecurringTypeOK
    <3>2. agreement[read[1]].status = "PAUSED"
      BY <2>4 DEF StillDue, DueOn
    <3> QED
      BY <2>2, <2>3, <3>1, <3>2 DEF RecurringTypeOK
  <2>5. CASE ~StillDue(agreement[read[1]], pass[p].today)
    BY <2>1, <2>2, <2>5 DEF RecurringTypeOK
  <2> QED
    BY <2>4, <2>5
<1>5. CASE UNCHANGED agreement
  BY <1>5
<1> QED
  BY <1>1, <1>2, <1>3, <1>4, <1>5
  DEF Next, vars, StatusRead, EditRead, RemoveVisit, BeginPass, EndPass, FailPass, NewDay

\* A request that comes to change a status has seen that the agreement is not cancelled,
\* or cancels it.
LEMMA ChangeIsAllowed ==
  ASSUME RecurringTypeOK, [Next]_vars, NEW a \in Agreements, NEW r \in Requests, Changes(r, a)'
  PROVE  \/ Changes(r, a) /\ request'[r] = request[r]
         \/ UNCHANGED agreement /\ (agreement[a].status = "CANCELLED" => request'[r].status = "CANCELLED")
<1>1. CASE request'[r] = request[r]
  BY <1>1 DEF Changes
<1>2. CASE request'[r] # request[r]
  <2>1. \A q \in Requests : ~Write(q)
    BY <1>2 DEF Write, Changes, RecurringTypeOK
  <2>2. \A q \in Requests : ~EditRead(q)
    <3> SUFFICES ASSUME NEW q \in Requests, EditRead(q) PROVE FALSE
      OBVIOUS
    <3>1. PICK b \in Agreements, rule \in Rules :
            request' = [request EXCEPT ![q] =
              [kind |-> "edit", agreement |-> b, rule |-> rule, next |-> NextOccurrence(rule, today)]]
      BY DEF EditRead
    <3> QED
      BY <1>2, <3>1 DEF Changes, RecurringTypeOK
  <2>3. PICK q \in Requests : StatusRead(q)
    BY <1>2, <2>1, <2>2
    DEF Next, vars, EndElapsed, Generate, RemoveVisit, BeginPass, ResumeOne, EndPass, FailPass, NewDay
  <2>4. PICK b \in Agreements, status \in Statuses :
          \E resumeOn \in IF status = "PAUSED" THEN ResumeDates(agreement[b]) ELSE {NoDate} :
            /\ agreement[b].status = "CANCELLED" => status = "CANCELLED"
            /\ request' = [request EXCEPT ![q] =
                 [kind |-> "status", agreement |-> b, status |-> status,
                  next |-> ChangedNext(agreement[b], status), resumeOn |-> resumeOn]]
    BY <2>3 DEF StatusRead
  <2>5. r = q /\ request'[r].agreement = b /\ request'[r].status = status
    BY <1>2, <2>4 DEF RecurringTypeOK
  <2> QED
    BY <2>3, <2>4, <2>5 DEF StatusRead, Changes
<1> QED
  BY <1>1, <1>2

\* As long as the changes of an agreement's status do not overlap, a cancelled agreement
\* is not resumed, paused or ended: neither by a request, nor by the passes of any
\* number of processes, nor by edits and visits that come at the same time.
THEOREM CancelledStaysCancelled == Spec => ([]OneChangeAtATime => CancelledStays)
<1>1. Init => CancelInv
  BY DEF Init, CancelInv, Changes
<1>2. RecurringTypeOK /\ CancelInv /\ OneChangeAtATime /\ [Next]_vars =>
        /\ CancelInv'
        /\ \A a \in Agreements : agreement[a].status = "CANCELLED" => agreement'[a].status = "CANCELLED"
  <2> SUFFICES ASSUME RecurringTypeOK, CancelInv, OneChangeAtATime, [Next]_vars
               PROVE  /\ CancelInv'
                      /\ \A a \in Agreements :
                           agreement[a].status = "CANCELLED" => agreement'[a].status = "CANCELLED"
    OBVIOUS
  <2>1. ASSUME NEW a \in Agreements, agreement[a].status = "CANCELLED"
        PROVE  agreement'[a].status = "CANCELLED"
    BY <2>1, StatusWrites DEF CancelInv
  <2>2. ASSUME NEW a \in Agreements, NEW r \in Requests,
               agreement'[a].status = "CANCELLED", Changes(r, a)'
        PROVE  request'[r].status = "CANCELLED"
    <3>1. CASE Changes(r, a) /\ request'[r] = request[r]
      <4>1. agreement[a].status = "CANCELLED"
        <5>1. ASSUME NEW q \in Requests, Changes(q, a), request' = [request EXCEPT ![q] = Idle]
              PROVE  FALSE
          <6>1. r = q
            BY <3>1, <5>1 DEF OneChangeAtATime
          <6> QED
            BY <2>2, <5>1, <6>1 DEF Changes, RecurringTypeOK
        <5> QED
          BY <2>2, <5>1, StatusWrites
      <4> QED
        BY <3>1, <4>1 DEF CancelInv
    <3>2. CASE UNCHANGED agreement /\ (agreement[a].status = "CANCELLED" => request'[r].status = "CANCELLED")
      BY <2>2, <3>2
    <3> QED
      BY <2>2, <3>1, <3>2, ChangeIsAllowed
  <2> QED
    BY <2>1, <2>2 DEF CancelInv, Changes
<1> QED
  BY RecurringTypeCorrect, <1>1, <1>2, PTL DEF Spec, CancelledStays

=============================================================================
