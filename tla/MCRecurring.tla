---------------------------- MODULE MCRecurring ----------------------------
(* Small instances of RecurringAgreement for TLC. *)
EXTENDS RecurringAgreement

\* Months of 5, 3 and 6 days, so that month ends and short months are near.
ShortMonths ==
  [m \in 0..8 |-> CASE m % 3 = 0 -> 14 * (m \div 3)
                    [] m % 3 = 1 -> 14 * (m \div 3) + 5
                    [] OTHER     -> 14 * (m \div 3) + 8]

\* Alternate weeks from day 2 on, the last day of the month, a weekly
\* agreement that ends during the run, and one scheduled by hand.
Fortnightly == [frequency |-> "EVERY_TWO_WEEKS", effective |-> 2, end |-> NoDate,
                weekday |-> 2, dayOfMonth |-> 1]
MonthEnd    == [frequency |-> "MONTHLY", effective |-> 4, end |-> NoDate,
                weekday |-> 0, dayOfMonth |-> 5]
Elapsing    == [frequency |-> "WEEKLY", effective |-> 1, end |-> 10,
                weekday |-> 3, dayOfMonth |-> 1]
Manual      == [frequency |-> "CUSTOM", effective |-> 1, end |-> NoDate,
                weekday |-> 0, dayOfMonth |-> 1]

AllRules == {Fortnightly, MonthEnd, Elapsing, Manual}

\* What a behaviour looks at: in "rules" one agreement lives under every rule
\* and the others are cancelled for good; in "passes" several agreements keep
\* one rule, and nothing is edited.
VARIABLE view

First == CHOOSE a \in Agreements : TRUE

LastDay == CHOOSE day \in Days : \A other \in Days : other <= day

ViewsInit ==
  /\ Init
  /\ view \in {"rules", "passes"}
  /\ \A a \in Agreements : view = "passes" \/ a # First => agreement[a].rule = Elapsing

ViewsNext ==
  /\ Next
  /\ UNCHANGED view
  /\ view = "rules" =>
       /\ \A a \in Agreements \ {First} : UNCHANGED <<agreement[a], visits[a]>>
       /\ \A r \in Requests : request'[r].kind = "idle" \/ request'[r].agreement = First
       /\ failures' = 0
  /\ view = "passes" =>
       /\ today' # LastDay
       /\ \A a \in Agreements : UNCHANGED agreement[a].rule
       /\ \A r \in Requests : request'[r].kind # "edit"

ViewsSpec == ViewsInit /\ [][ViewsNext]_<<vars, view>> /\ Fairness

=============================================================================
