------------------------------ MODULE Contract ------------------------------
(***************************************************************************)
(* The contract's interface to the network                                 *)
(* (contracts/adjourn-contract/src/lib.rs): what a node runs on the bytes  *)
(* it stores.  Empty bytes are the empty state, an empty summary and an    *)
(* empty delta, and are those values here.                                 *)
(***************************************************************************)
EXTENDS GameState

ValidateState(st) == AllValid(st)

\* An update u carries a state, a delta, or both; a half it does not carry is
\* Empty, and absorbing Empty into a normalised state changes nothing.
\* One record that does not verify refuses the whole update.
Accepts(u) == AllValid(u.state) /\ AllValid(u.delta)

\* A slip: an update takes the place of the stored state.
UpdateOverwrites(st, u) == ApplyDelta(FilterValid(u.state), u.delta)

\* The new state after an update that Accepts.  The stored state is normalised
\* first, for ValidateState lets an oversized state be stored.
UpdateState(st, u) == ApplyDelta(Merge(FilterValid(st), u.state), u.delta)

SummarizeState(st) == Summarize(FilterValid(st))

\* A slip: the stored bytes are compared as they are.
DeltaOfStored(st, summary) == DeltaAgainst(st, summary)

GetStateDelta(st, summary) == DeltaAgainst(FilterValid(st), summary)
============================================================================
