---------------------------- MODULE QuoteRequest ----------------------------
(***************************************************************************)
(* What a conversation promises the customer: a request is drafted, the    *)
(* facts are shown, the customer confirms them, and one Quote is made of   *)
(* exactly those facts.  Facts that change have to be shown and confirmed  *)
(* again, and nothing changes once the request is with the Quote desk.     *)
(***************************************************************************)
CONSTANTS Facts, None

VARIABLES facts, shown, confirmed, sent, quote

requestVars == <<facts, shown, confirmed, sent, quote>>

Init ==
  /\ facts \in Facts
  /\ shown \in {None, facts}
  /\ confirmed = FALSE /\ sent = FALSE /\ quote = None

\* Also: what was shown is withdrawn.
Redraft ==
  /\ ~sent
  /\ facts' \in Facts /\ shown' = None /\ confirmed' = FALSE
  /\ UNCHANGED <<sent, quote>>

Show ==
  /\ ~sent
  /\ shown' = facts /\ confirmed' = FALSE
  /\ UNCHANGED <<facts, sent, quote>>

Confirm ==
  /\ shown # None /\ ~sent
  /\ confirmed' = TRUE
  /\ UNCHANGED <<facts, shown, sent, quote>>

SendOn ==
  /\ confirmed
  /\ sent' = TRUE
  /\ UNCHANGED <<facts, shown, confirmed, quote>>

MakeQuote ==
  /\ sent /\ quote = None
  /\ quote' = shown
  /\ UNCHANGED <<facts, shown, confirmed, sent>>

Next == Redraft \/ Show \/ Confirm \/ SendOn \/ MakeQuote

Spec == Init /\ [][Next]_requestVars

=============================================================================
