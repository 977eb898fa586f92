------------------------------- MODULE Watch -------------------------------
(***************************************************************************)
(* A client that follows a game (watch_label in client/src/session.rs)     *)
(* while it is played, and while it moves to the address of a rebuilt      *)
(* contract (migrate_label).                                               *)
(*                                                                         *)
(* The client runs beside the node it talks to.  What reaches the node     *)
(* between two steps of the client, before it subscribes, before an answer *)
(* and while it waits, is up to the players and the network.  The opponent *)
(* may stay at the old address, move, or play at both.                     *)
(***************************************************************************)
EXTENDS Projection

CONSTANTS
  Us,        \* the player whose client this is
  MaxQueue   \* bound on the notifications not yet taken in

ASSUME WatchAssumption == Us \in Players /\ MaxQueue \in Nat /\ NoUci \notin Uci
ASSUME SignatureAssumption == \A i \in Id : \E r \in Genuine : {x \in Genuine : x.id = i} = {r}

VARIABLES
  at,      \* what the node has stored at each address
  bound,   \* the address the delegate has on record; with "new", "old" is its previous
  mig,     \* how far a migration has come, and what it has read
  watch,   \* the client: where it is in watch_label, and its local variables
  shown,   \* the state of the last report to the user
  subs,    \* the addresses the connection is subscribed to
  queue    \* the notifications sent over it that wait to be taken

vars == <<at, bound, mig, watch, shown, subs, queue>>

Address == {"old", "new"}
NoMigration == [stage |-> "idle", read |-> Empty]
Off == [pc |-> "off", addr |-> "old", previous |-> FALSE, state |-> Empty,
        cached |-> Empty, unreachable |-> FALSE, skewed |-> FALSE]

Following == {"previous", "asking", "waiting"}
Ended == {"off", "done", "failed"}

RecordOf(i) == CHOOSE r \in Genuine : r.id = i

\* The game has begun at the old address.
Init ==
  /\ \E I \in SUBSET Id : /\ \A i \in I : Statement[i].ref \in I \cup {Genesis}
                          /\ at = [old |-> FilterValid({RecordOf(i) : i \in I}), new |-> Empty]
                          /\ ~IsOver(at.old)
  /\ bound = "old" /\ mig = NoMigration
  /\ watch = Off /\ shown = Empty
  /\ subs = {} /\ queue = <<>>
-----------------------------------------------------------------------------
\* What a node may send when records have changed what it stores.
Notifications(a, st, recs) ==
  {[from |-> a, state |-> st, delta |-> Empty], [from |-> a, state |-> Empty, delta |-> recs],
   [from |-> a, state |-> st, delta |-> recs]}

\* Records are merged at an address, and subscribers are told if that changed it.
Store(a, recs) ==
  LET st == ApplyDelta(at[a], recs) IN
  /\ at' = [at EXCEPT ![a] = st]
  /\ IF a \in subs /\ st # at[a]
     THEN /\ Len(queue) < MaxQueue
          /\ \E n \in Notifications(a, st, recs) : queue' = Append(queue, n)
     ELSE UNCHANGED queue

\* A statement reaches the node.  The player's own are made at the bound address,
\* or copied from the old one; the opponent's arrive anywhere.
Arrive(a, i) ==
  /\ Statement[i].signer = Us => a = bound \/ i \in IdsOf(at.old)
  /\ Store(a, {RecordOf(i)})
  /\ UNCHANGED <<bound, mig, watch, shown, subs>>

MigrateRead ==
  /\ mig.stage = "idle" /\ bound = "old"
  /\ mig' = [stage |-> "read", read |-> at.old]
  /\ UNCHANGED <<at, bound, watch, shown, subs, queue>>

MigratePut ==
  /\ mig.stage = "read"
  /\ Store("new", mig.read)
  /\ mig' = [mig EXCEPT !.stage = "put"]
  /\ UNCHANGED <<bound, watch, shown, subs>>

\* A slip: the delegate is told first.
MigrateRebindEarly ==
  /\ mig.stage = "read"
  /\ bound' = "new" /\ mig' = NoMigration
  /\ UNCHANGED <<at, watch, shown, subs, queue>>

MigrateRebind ==
  /\ mig.stage = "put"
  /\ bound' = "new" /\ mig' = NoMigration
  /\ UNCHANGED <<at, watch, shown, subs, queue>>

\* Any of its calls may fail.
MigrateStop ==
  /\ mig.stage # "idle"
  /\ mig' = NoMigration
  /\ UNCHANGED <<at, bound, watch, shown, subs, queue>>
-----------------------------------------------------------------------------
\* A slip: every record has a previous address.
HasPreviousAlways == TRUE

HasPrevious == bound = "new"

\* open_game: the bound address is read and reported.  A client that has watched
\* before may come back on its old connection, whatever is left on that.
Open ==
  /\ watch.pc \in Ended
  /\ shown' = at[bound]
  /\ watch' = [Off EXCEPT !.pc = IF IsOver(at[bound]) THEN "done" ELSE "opened",
                          !.addr = bound, !.previous = HasPrevious, !.state = at[bound]]
  /\ \/ UNCHANGED <<subs, queue>>
     \/ subs' = {} /\ queue' = <<>>
  /\ UNCHANGED <<at, bound, mig>>

\* The second GET: the node subscribes the client first and answers later.
Subscribe ==
  /\ watch.pc = "opened"
  /\ subs' = subs \cup {watch.addr}
  /\ watch' = [watch EXCEPT !.pc = "subscribing"]
  /\ UNCHANGED <<at, bound, mig, shown, queue>>

Then == IF watch.previous THEN "previous" ELSE "waiting"

\* Slips: the answer is only proof of the subscription; it is kept to oneself.
SubscribedDiscarding ==
  /\ watch.pc = "subscribing"
  /\ watch' = [watch EXCEPT !.pc = Then]
  /\ UNCHANGED <<at, bound, mig, shown, subs, queue>>
SubscribedQuietly ==
  /\ watch.pc = "subscribing"
  /\ watch' = [watch EXCEPT !.state = Merge(@, at[watch.addr]), !.pc = Then]
  /\ UNCHANGED <<at, bound, mig, shown, subs, queue>>

\* Its answer is merged, and reported if it changed the number of records.
Subscribed ==
  LET st == Merge(watch.state, at[watch.addr])
      moved == Cardinality(st) # Cardinality(watch.state) IN
  /\ watch.pc = "subscribing"
  /\ shown' = IF moved THEN st ELSE shown
  /\ watch' = [watch EXCEPT !.state = st,
                            !.pc = IF moved /\ IsOver(st) THEN "done" ELSE Then]
  /\ UNCHANGED <<at, bound, mig, subs, queue>>

\* The previous address is subscribed to and read, unless the node has nothing
\* under it.
AskPrevious ==
  /\ watch.pc = "previous"
  /\ \/ /\ watch' = [watch EXCEPT !.pc = "asking"]
        /\ subs' = subs \cup {"old"}
     \/ /\ at.old = Empty
        /\ watch' = [watch EXCEPT !.pc = "waiting"]
        /\ UNCHANGED subs
  /\ UNCHANGED <<at, bound, mig, shown, queue>>

\* opponent_moved_on_previous
OpponentAhead(current, previous) ==
  \E r \in previous : Statement[r.id].signer # Us /\ r.id \notin IdsOf(current)

\* A slip: once skewed, always skewed.
SkewLatches(current, previous) == watch.skewed \/ OpponentAhead(current, previous)

\* recompute_skew: what the user has been told last of the opponent.
Skew(current, previous) == OpponentAhead(current, previous)

\* refresh_previous_state and recompute_skew.  Nothing was cached before there was
\* something to cache.
PreviousAnswers ==
  LET cached == IF at.old = Empty THEN watch.cached ELSE at.old IN
  /\ watch.pc = "asking"
  /\ watch' = [watch EXCEPT !.pc = "waiting", !.cached = cached,
                            !.skewed = Skew(watch.state, cached)]
  /\ UNCHANGED <<at, bound, mig, shown, subs, queue>>

\* The GET fails, and the previous address is not asked again.
PreviousFails ==
  /\ watch.pc = "asking"
  /\ watch' = [watch EXCEPT !.pc = "waiting", !.unreachable = TRUE]
  /\ UNCHANGED <<at, bound, mig, shown, subs, queue>>

\* Slips: what comes replaces what is there; deltas are not understood.
ReceivedReplaces(st, n) == IF n.state = Empty THEN ApplyDelta(st, n.delta) ELSE n.state
ReceivedStates(st, n) == Merge(st, n.state)

\* The payload may be a state, a delta, or both; an empty part is skipped.
Received(st, n) == ApplyDelta(Merge(st, n.state), n.delta)

\* next_update: a notification of the game, of its previous address, or of
\* something else.
TakeUpdate ==
  LET n == Head(queue)
      st == Received(watch.state, n) IN
  /\ watch.pc = "waiting" /\ queue # <<>> /\ n.from = watch.addr
  /\ watch' = [watch EXCEPT !.state = st,
                            !.skewed = IF watch.previous THEN Skew(st, watch.cached) ELSE @,
                            !.pc = IF IsOver(st) THEN "done" ELSE @]
  /\ shown' = st
  /\ queue' = Tail(queue)
  /\ UNCHANGED <<at, bound, mig, subs>>

TakeOther ==
  /\ watch.pc = "waiting" /\ queue # <<>> /\ Head(queue).from # watch.addr
  /\ watch' = IF watch.previous /\ ~watch.unreachable
              THEN [watch EXCEPT !.pc = "asking"] ELSE watch
  /\ queue' = Tail(queue)
  /\ UNCHANGED <<at, bound, mig, shown, subs>>

\* A GET of the game fails, or the connection is lost.
Fail ==
  /\ watch.pc \notin Ended
  /\ watch' = [watch EXCEPT !.pc = "failed"]
  /\ UNCHANGED <<at, bound, mig, shown, subs, queue>>

\* What the client does by itself once it has been opened.
Proceed == \/ Subscribe \/ Subscribed \/ AskPrevious \/ PreviousAnswers \/ PreviousFails
           \/ TakeUpdate \/ TakeOther

Next ==
  \/ \E a \in Address, i \in Id : Arrive(a, i)
  \/ MigrateRead \/ MigratePut \/ MigrateRebind \/ MigrateStop
  \/ Open \/ Proceed \/ Fail

Spec == Init /\ [][Next]_vars

\* The client can go on: a call of its own is pending, or a notification waits.
CanProceed == \/ watch.pc \in {"opened", "subscribing", "previous", "asking"}
              \/ watch.pc = "waiting" /\ queue # <<>>

\* The client's executor runs it whenever it can go on, and each call of the node
\* ends: with an answer or, after RESPONSE_TIMEOUT, without.  This is the weak
\* fairness of Proceed written out, as CanProceed says when it is enabled.
FairSpec == Spec /\ ([]<>~CanProceed \/ []<><<Proceed>>_vars)
-----------------------------------------------------------------------------
Note == [from : Address, state : SUBSET Record, delta : SUBSET Record]

TypeOK ==
  /\ \A a \in Address : IsState(at[a])
  /\ bound \in Address
  /\ mig \in [stage : {"idle", "read", "put"}, read : SUBSET Record]
  /\ watch \in [pc : Following \cup Ended \cup {"opened", "subscribing"}, addr : Address,
                previous : BOOLEAN, state : SUBSET Record, cached : SUBSET Record,
                unreachable : BOOLEAN, skewed : BOOLEAN]
  /\ watch.previous => watch.addr = "new"
  /\ IsState(watch.state) /\ IsState(watch.cached) /\ IsState(shown)
  /\ subs \subseteq Address
  /\ queue \in Seq(Note) /\ Len(queue) <= MaxQueue

\* What is on its way to the client from its game.
Coming ==
  UNION {queue[n].state \cup queue[n].delta : n \in {m \in DOMAIN queue : queue[m].from = watch.addr}}

\* No move is lost to a client that follows: not one that came between its first
\* look and its subscription, nor one that came while it asked about something
\* else.  What it holds and what is on its way make up what the node has.
NothingIsMissed ==
  watch.pc \in Following => ApplyDelta(watch.state, Coming) = at[watch.addr]

\* A client that follows has reported what it holds.  Counting the records tells it
\* so, as long as none that it has reported was pushed out by another.
ShownIsHeld ==
  watch.pc \in Following /\ shown \subseteq watch.state => shown = watch.state

\* A client that has taken everything in has its user warned if, and only if, the
\* opponent has said something at the address left behind that has not come over.
SkewIsReported ==
  (watch.pc = "waiting" /\ queue = <<>> /\ "old" \in subs /\ watch.previous /\ ~watch.unreachable)
    => watch.skewed = OpponentAhead(at.new, at.old)

\* The moves shown of a game at one address are not taken back, except to uncover
\* a double sign.
MovesShownStand ==
  (watch'.addr = watch.addr /\ shown' # shown
   /\ DoubleSignedPlies(shown') = DoubleSignedPlies(shown)) =>
    LET before == Walk(shown).chain  after == Walk(shown').chain IN
    Len(after) >= Len(before) /\ SubSeq(after, 1, Len(before)) = before
MovesShownStay == [][MovesShownStand]_vars

\* By the time the delegate points to the new address, all that the migration
\* found at the old one is there.
MigrationLosesNothing == [][bound' # bound => ApplyDelta(at'.new, mig.read) = at'.new]_vars

\* A client that keeps following catches up, again and again.
CaughtUp == /\ watch.pc = "waiting" /\ watch.state = at[watch.addr]
EventuallyFollowed == []<>(watch.pc \in Ended \/ CaughtUp)

\* A decided game produces no further notification, so that a watch which ends
\* with the game has shown how it ended.
TheEndIsFinal == watch.pc = "done" => Decision(shown) = Decision(at[watch.addr])
=============================================================================
