------------------------------- MODULE Ledger -------------------------------
(***************************************************************************)
(* What the contract promises its users, with no word on how: every peer   *)
(* knows a growing set of facts, and what it reports is one function of    *)
(* that set.  In which order, how often and in whose company the facts     *)
(* came is forgotten, so peers that know the same facts report the same.   *)
(***************************************************************************)
CONSTANTS
  Peer,
  Fact,      \* all there is to know
  View(_)    \* what is reported of a set of facts

VARIABLES
  known,     \* the facts each peer has been given
  report     \* what each peer reports

Init ==
  /\ known = [p \in Peer |-> {}]
  /\ report = [p \in Peer |-> View({})]

\* A peer is given facts, of which it may have known some.
Learn(p) ==
  /\ known' = [known EXCEPT ![p] = known'[p]]
  /\ known[p] \subseteq known'[p] /\ known'[p] \subseteq Fact
  /\ report' = [report EXCEPT ![p] = View(known'[p])]

Next == \E p \in Peer : Learn(p)

Spec == Init /\ [][Next]_<<known, report>>
=============================================================================
