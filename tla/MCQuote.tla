------------------------------ MODULE MCQuote ------------------------------
(* Small instances of QuoteSystem for TLC. *)
EXTENDS QuoteSystem, TLC

\* Grants and the requests in flight are told apart by nothing.
QuoteSymmetry ==
  Permutations(Grants) \cup Permutations(Responders) \cup Permutations(Senders)

\* What a behaviour looks at: in "decision" nothing is sent; in "delivery" no customer
\* answers and one send is under way at a time; in "race" two sends are, of a Quote
\* that nobody decides or prices anew.
VARIABLE view

ViewsInit == Init /\ view \in {"decision", "delivery", "race"}

ViewsNext ==
  /\ Next
  /\ UNCHANGED view
  /\ view = "decision" => UNCHANGED <<deliveryRows, send, recover>>
  /\ view # "decision" => UNCHANGED <<respond, told, serviceActive, lapsed>>
  /\ view = "delivery" => Cardinality({s \in Senders : send'[s].phase # "idle"}) <= 1
  /\ view = "race"     => UNCHANGED <<quote, pricing>>

ViewsSpec == ViewsInit /\ [][ViewsNext]_<<quoteVars, view>>

=============================================================================
