-------------------------------- MODULE Sync --------------------------------
(***************************************************************************)
(* Peers that hold the contract of one game and keep it in step.           *)
(*                                                                         *)
(* A client hands records to a peer (the one-record UPDATE of a session),  *)
(* somebody stores a whole state at a peer (PUT), and peers exchange       *)
(* summaries and the deltas computed against them.  Messages are lost,     *)
(* repeated and delayed, so a delta may be computed against a summary, and *)
(* applied to a state, that have moved on.  Which of these calls happens   *)
(* when is the network's choice; what each call does to the stored state   *)
(* is the contract's (Contract.tla).                                       *)
(***************************************************************************)
EXTENDS Contract, Canonical

CONSTANTS
  Peer,
  Crafted,   \* states and deltas somebody may make up and send
  MaxNet     \* bound on the messages in flight

ASSUME CraftedAssumption == Crafted \subseteq Delta
ASSUME MaxNetAssumption == MaxNet \in Nat

VARIABLES
  replica,   \* the state each peer stores
  heard,     \* history: the genuine records each peer has been given
  net        \* the messages in flight

vars == <<replica, heard, net>>

L == INSTANCE Ledger WITH
       Fact <- GenuineRecords, View <- Canon,
       known <- heard, report <- [p \in Peer |-> FilterValid(replica[p])]

SummaryMessage == [type : {"summary"}, from : Peer, to : Peer, summary : Summary]
DeltaMessage == [type : {"delta"}, from : Peer, to : Peer, delta : Delta]

Init ==
  /\ replica = [p \in Peer |-> Empty]
  /\ heard = [p \in Peer |-> {}]
  /\ net = {}

Hear(p, recs) == heard' = [heard EXCEPT ![p] = @ \cup recs]

\* PUT: a peer with nothing stores any state that decodes and validates, as it
\* came; a peer that has the contract takes it as an update.
Put(p, st) ==
  /\ IsState(st) /\ ValidateState(st)
  /\ replica' = [replica EXCEPT ![p] =
       IF @ = Empty THEN st ELSE UpdateState(@, [state |-> st, delta |-> Empty])]
  /\ Hear(p, st)
  /\ UNCHANGED net

\* A client's UPDATE with a record it has just had signed.
Submit(p, r) ==
  /\ Verify(r)
  /\ replica' = [replica EXCEPT ![p] =
       UpdateState(@, [state |-> Empty, delta |-> {r}])]
  /\ Hear(p, {r})
  /\ UNCHANGED net

\* A peer sends a delta nobody's contract computed.
Inject(p, q, d) ==
  /\ p # q
  /\ Cardinality(net) < MaxNet
  /\ net' = net \cup {[type |-> "delta", from |-> p, to |-> q, delta |-> d]}
  /\ UNCHANGED <<replica, heard>>

SendSummary(p, q) ==
  /\ p # q
  /\ Cardinality(net) < MaxNet
  /\ net' = net \cup {[type |-> "summary", from |-> p, to |-> q,
                       summary |-> SummarizeState(replica[p])]}
  /\ UNCHANGED <<replica, heard>>

\* The answer to a summary.  Nothing is sent when there is nothing to send.
\* rest is what the network still holds: with or without the message.
Answer(m, rest) ==
  LET delta == GetStateDelta(replica[m.to], m.summary) IN
  /\ m.type = "summary"
  /\ IF delta = Empty
     THEN net' = rest
     ELSE /\ Cardinality(rest) < MaxNet
          /\ net' = rest \cup {[type |-> "delta", from |-> m.to, to |-> m.from,
                                delta |-> delta]}
  /\ UNCHANGED <<replica, heard>>

\* A delta arrives: it is applied, or refused whole.
Deliver(m, rest) ==
  LET u == [state |-> Empty, delta |-> m.delta] IN
  /\ m.type = "delta"
  /\ IF Accepts(u)
     THEN /\ replica' = [replica EXCEPT ![m.to] = UpdateState(@, u)]
          /\ Hear(m.to, m.delta)
     ELSE UNCHANGED <<replica, heard>>
  /\ net' = rest

Lose(m) ==
  /\ net' = net \ {m}
  /\ UNCHANGED <<replica, heard>>

Next ==
  \/ \E p \in Peer, st \in Crafted : Put(p, st)
  \/ \E p \in Peer, r \in Record : Submit(p, r)
  \/ \E p, q \in Peer, d \in Crafted : Inject(p, q, d)
  \/ \E p, q \in Peer : SendSummary(p, q)
  \/ \E m \in net : \E rest \in {net, net \ {m}} : Answer(m, rest) \/ Deliver(m, rest)
  \/ \E m \in net : Lose(m)

Spec == Init /\ [][Next]_vars

\* The network keeps trying: for every pair of peers a summary goes out, is
\* answered and its answer applied again and again, whatever is lost between.
Fairness ==
  \A p \in Peer : \A q \in Peer \ {p} :
    /\ SF_vars(SendSummary(p, q))
    /\ SF_vars(\E m \in net : m.from = p /\ m.to = q /\ Answer(m, net \ {m}))
    /\ SF_vars(\E m \in net : m.from = p /\ m.to = q /\ Deliver(m, net \ {m}))

FairSpec == Spec /\ Fairness
-----------------------------------------------------------------------------
TypeOK ==
  /\ replica \in [Peer -> SUBSET Record] /\ \A p \in Peer : IsState(replica[p])
  /\ heard \in [Peer -> SUBSET Record]
  /\ net \subseteq SummaryMessage \cup DeltaMessage

Report(p) == FilterValid(replica[p])

\* A peer's report is the canonical form of the records it was given: it does
\* not depend on the order they came in, on repetitions, on which travelled
\* together, or on whether the stored bytes had been normalised.
OrderIndependence == \A p \in Peer : Report(p) = Canon(heard[p])

\* Sync soundness, for stale summaries too: a delta computed now against any
\* summary a peer ever sent brings that peer to the merge of both states,
\* however much it has taken in or evicted since it sent the summary.
StaleSummaryIsSound ==
  \A m \in net : m.type = "summary" =>
    UpdateState(replica[m.from],
                [state |-> Empty, delta |-> GetStateDelta(replica[m.to], m.summary)])
      = Merge(Report(m.from), Report(m.to))

\* Peers that were given records of the same canonical form, whatever they store
\* and in whatever order it came, have nothing to send one another.
SettledPeersAreQuiet ==
  \A p, q \in Peer : Canon(heard[p]) = Canon(heard[q]) =>
    GetStateDelta(replica[q], SummarizeState(replica[p])) = Empty

MovesAt(I, key, ply) ==
  {i \in I : /\ Statement[i].kind = "Move"
             /\ Statement[i].signer = key
             /\ Statement[i].ply = ply}

\* The proof that a player signed two moves at one ply survives eviction,
\* whatever else that player signs to bury it.
FraudProofSurvives ==
  \A p \in Peer, i \in Id :
    LET at(I) == MovesAt(I, Statement[i].signer, Statement[i].ply) IN
    Cardinality(at(IdsOf(heard[p]))) >= 2 => Cardinality(at(IdsOf(Report(p)))) >= 2

\* A signer who made no more statements of a kind at a ply than may be kept
\* keeps them all: nobody else's records evict them, and neither do their own
\* of another kind.
OnlyOwnRecordsEvict ==
  \A p \in Peer : \A i \in IdsOf(heard[p]) :
    LET own == {j \in IdsOf(heard[p]) :
                  /\ Statement[j].signer = Statement[i].signer
                  /\ Statement[j].kind = Statement[i].kind
                  /\ Statement[j].ply = Statement[i].ply}
    IN Cardinality(own) <= K(Statement[i].kind) => i \in IdsOf(Report(p))

\* The peers implement the abstract ledger.
ImplementsLedger == L!Spec

\* Once the players fall silent, every peer ends with all that any peer was
\* given.
Convergence ==
  <>[](\A p \in Peer : Report(p) = Canon(UNION {heard[q] : q \in Peer}))
=============================================================================
