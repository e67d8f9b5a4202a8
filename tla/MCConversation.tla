--------------------------- MODULE MCConversation ---------------------------
(* Small instances of ConversationSystem for TLC. *)
EXTENDS ConversationSystem, TLC

\* The number 1 of the correction menu opens the first question again.
FirstQuestionMenu == [a \in Answers |-> IF a = "1" THEN {1} ELSE {}]

\* The answer 3 is one that the contract of a Quote refuses.
RefusedDrafts == {[q \in Questions |-> "3"]}

\* What a behaviour looks at: two deliveries at once and changes of control;
\* more messages, one delivery at a time; facts that the contract refuses, and
\* their correction; a form offered while a CONFIRM is under way; two offers of
\* forms, and a message meanwhile; or two deliveries of the completions of one
\* form.
VARIABLE view

Arrives(n) == \A m \in Messages : m > n => inbox'[m] = Absent
AtOnce(n) == Cardinality({w \in Workers : work'[w] # Idle}) <= n

\* Deliveries differ in nothing but their names: one is taken up by the first
\* worker unless that one is busy.
First == CHOOSE w \in Workers : TRUE
FirstIfFree ==
  \A w \in Workers : work[w] = Idle /\ work'[w] # Idle => w = First \/ work[First] # Idle

ViewsInit ==
  /\ Init
  /\ view \in {"overlap", "sequence", "refused", "formed", "offers", "completions"}
  /\ CASE view = "overlap"                   -> conv.draft[1] = "1"
       [] view = "sequence"                  -> conv.draft[1] \in {"1", None}
       [] view = "refused"                   -> conv.draft[1] = "3"
       [] view = "formed"                    -> conv.draft[1] = "1" /\ conv.summary # None
       [] view \in {"offers", "completions"} -> conv.draft[1] = None

ViewsNext ==
  /\ Next
  /\ UNCHANGED view
  /\ FirstIfFree
  /\ view = "overlap"     => Arrives(2) /\ reviews' = 0 /\ UNCHANGED formVars
  /\ view = "sequence"    => AtOnce(1) /\ UNCHANGED <<control, formVars>>
  /\ view = "refused"     => AtOnce(1) /\ UNCHANGED <<control, formVars, reviews>>
  /\ view = "formed"      => /\ Arrives(1) /\ inbox'[1].text \in {"CONFIRM", None}
                             /\ sessions'[2] = NoSession
                             /\ UNCHANGED <<control, reviews, filing, filed>>
  /\ view # "refused"     => \A m \in Messages : inbox'[m].text # "3"
  /\ view = "offers"      => Arrives(1) /\ AtOnce(1) /\ inbox'[1].text \in {"1", None}
                             /\ UNCHANGED <<control, failures, reviews, filing, filed>>
  /\ view = "completions" => Arrives(0) /\ UNCHANGED reviews /\ sessions'[2] = NoSession

ViewsSpec == ViewsInit /\ [][ViewsNext]_<<systemVars, view>> /\ Fairness

=============================================================================
