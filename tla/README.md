# A formal model of adjourn

adjourn is correspondence chess without a server: two players sign statements
about their game ("I play e2e4 at ply 1 after the start", "I resign"), and a set
of such statements, kept in a Freenet contract, *is* the game. Any peer may hold
the set, in part, in any order; whoever holds it computes the position from it.

This directory holds TLA+ modules that model the program, configurations with
which TLC checks them on small instances, and proofs checked by TLAPS. Paths
below are relative to the repository; lines are those of the modelled commit.

## 1. The system

| Component | Source | State | Operations |
|---|---|---|---|
| records | `common/src/types.rs` | none (values) | `sign`, `verify`, id, group and limit of a record |
| game state | `common/src/state.rs` | a map from record id to record | `absorb`, `evict`, `merge`, `filter_valid`, `summarize`, `delta_against`, `apply_delta` |
| game contract | `contracts/adjourn-contract` | the bytes a node stores for a game | `validate_state`, `update_state`, `summarize_state`, `get_state_delta` |
| network of nodes | Freenet (external) | each node's replica, messages in flight | PUT, UPDATE, exchange of summaries and deltas, subscriptions |
| delegate | `delegates/adjourn-delegate`, `common/src/delegate_policy.rs` | a secret store: key, quality and owner of a label, the game it is bound to, a record per game with the last signed ply | `CreateGameKey`, `BindGame`, `Rebind`, `Sign`, `ListGames` |
| projection | `common/src/project.rs` | none (a function) | `project`: walk of the chain, forfeit, resignation, board result, claim, agreement |
| session commands | `client/src/session.rs` | what one command has read | `play_move`, `resign`, `draw_offer`, `draw_accept`, `draw_claim`, `sign_and_submit` |
| watching | `client/src/session.rs` (`watch_label`) | merged state, cached previous state, skew flag | two GETs, notifications, report of version skew |
| migration, invitation, binding | `client/src/session.rs`, `client/src/invite.rs` | none of their own | `migrate_label`, `invite_new`, `invite_accept`, `game_bind` |
| transports | `cli/src/ws.rs`, `ui/src/node.rs` | socket, parked notifications, close latch | request and response without ids, timeouts |
| browser actors | `ui/src/conn.rs` | two clients, the shared view and error signals | a command actor and a watch actor |
| screens, command line | `ui/src/views`, `cli/src/main.rs` | display | rendering, parsing |

How they meet. A command of a session reads the game from the player's node
(GET), projects it, decides what to say, asks the delegate to sign it, and sends
the signed record to the node (UPDATE). The node runs the contract on its
replica; nodes exchange summaries of what they hold and the deltas against them.
A watch is told of every change of the replica. Between any two of these calls
anything else may happen: another client of the same player, the opponent, the
network.

What is hard about it, and what must be true:

* **Order and loss.** Nodes get records in any order and grouping, repeatedly or
  never, and evict the excess of a group. Their reports must depend only on the
  set of records they were given; deltas against stale summaries must be sound;
  nodes that agree must fall silent, and nodes that try must come to agree.
* **Malleability and flooding.** A statement may have several valid signatures,
  and a player may sign any number of statements. Neither may split the nodes or
  bury the proof of a double sign.
* **Half-done writes.** The delegate's store is written one secret at a time. No
  failure between two writes may let it sign two moves at a ply, lose the game of
  a label, or hand a key to somebody else.
* **Stale views.** A client acts on what it read. However old that is, an honest
  player must never forfeit, must always be able to go on, and the two players
  must see one game.
* **Dishonest opponents.** One key holder may publish anything. The other must not
  be made to lose a move, or to lose or draw the game other than by the rules.
* **Decisions.** A decided game stays decided unless something stronger is learnt.
* **Connections.** The browser has two actors with a socket each, one view and one address
  between them. Answers carry no request id; a socket dies at any time and says so once; a
  command cancels a watch in the middle of a request. No answer may be taken for another,
  nothing may be lost or wait for ever, and no board may show another game.

`PROJECT.json` lists the components with their status and every hazard with its
line and the properties aimed at it.

## 2. The modules

```
Records <- GameState <- Contract <- Sync (with Canonical; implements Ledger)
                ^                     ^ MCSync
            Projection <- Game (implements OneGame) <- MCGame
                ^ Watch <- MCWatch
Delegate <- MCDelegate                Transport <- Browser <- MCBrowser

CanonicalTheorems <- SyncProofs                               DelegateProofs
        ^
ProjectionTheorems <- GameProofs <- OneGameProofs             BrowserProofs
        ^ WatchProofs
```

A module on the right of an arrow extends the one on its left. The lower half holds the
proofs: each `...Proofs` module also extends the specification it is about.

* **Records** — statements, the limit `K` of each kind, `Verify`. A statement *is*
  its id (ids are hashes of the body and exclude the signature); ids are numbers
  because eviction compares them, and the instance chooses their order. A record
  is an id with a signature; `Genuine` says which pairs verify. More than one
  signature of a statement may be genuine, which is what malleability amounts to.
  `Statement` gives the signer, the kind, the ply and the record or move referred to.
* **GameState** — the operations of `state.rs` over sets of records. `absorb` is
  written as the outcome of a sequence of insertions: for each id, the record no
  other beats. `AbsorbAll`, `Evict` and their composition `Merge` keep the source's
  order of steps.
* **Contract** — the four entry points. A stored state need not be in normal form:
  what a PUT stores is validated and kept as it came, and every entry point
  filters it first.
* **Canonical** — `Canon`, one expression for what a state should be: of each id the
  genuine record with the least signature, of each group the smallest ids.
* **Ledger** — the promise of replication: everybody has a growing set of facts and
  reports a function of it. **Sync** — peers, with PUT, a client's UPDATE, summaries,
  deltas and made-up messages, over a network that loses, repeats and delays;
  `Sync` implements `Ledger`.
* **Delegate** — the secret store with each of its five kinds of secret a variable,
  one action per request that writes, and with every action the number of its
  writes that landed (`landed`). A refusal changes nothing and is a stutter.
  `released` and `creator` are history variables.
* **Projection** — `project` as operators. Chess is a graph of positions given as a
  constant (`Play`), with the set of mates, stalemates and dead positions, the
  repetition key and the halfmove clock of each position. The recursion of the
  walk is a recursive function over the number of turns.
* **OneGame** — the promise of a game: moves in turn at one board. **Game** — two
  players, each with a node, the two fields of the delegate's record that
  `decide_sign` uses, and any number of clients. A command is split where it waits:
  it reads and decides (`PlayMove`, `ResignGame`, `DrawOffer`, `DrawAccept`,
  `DrawClaim`), has its statement signed (`Sign`), publishes (`Submit`), and may
  end at any point (`Abandon`). `Gossip` is the network, as `Sync` shows it to be;
  `Cheat` is a player whose program is not this one. `Game` implements `OneGame`.
* **Watch** — `watch_label` beside a node that stores the game at an old and a new
  address, and `migrate_label` in its three calls (`MigrateRead`, `MigratePut`,
  `MigrateRebind`), each of which may be the last (`MigrateStop`). `watch` holds where the
  client is and its local variables, `shown` the argument of the last `on_status`, `queue`
  the notifications on its connection. `Arrive` is the rest of the world: records published
  at either address, by an opponent who may stay, move or play at both. `Open`,
  `Subscribe` and `Subscribed` are the first GET and the two halves of the second;
  `AskPrevious`, `PreviousAnswers`, `PreviousFails` the GET of the previous address;
  `TakeUpdate` and `TakeOther` the loop.
* **Transport** — the connections of the browser's two actors and the node behind them. A
  connection `c` is a record: the socket, the set of requests sent and not answered (`sent`), the set
  of answers to subscribing GETs not sent yet (`ready`), the subscriptions, and the fields of
  `BrowserClient`: `inbox`, `pending`, `closed`. A request that was given up and will be answered
  all the same is marked with a number of its own, so that two of them stay two; 0 marks one that is
  waited for. `Observe`, `Park`, `Read` and `Fits` are
  `CloseLatch::observe`, `next_routed`, `route` and the pattern each operation waits for. Of a
  game only the number of records matters, so an answer or a notification carries the game
  and a number. The node answers in any order, fails any request, and tells subscribers of
  each change; a dying socket drops what was sent over it and leaves one `closed`.
* **Browser** — the two actors of `conn.rs` over `Transport`, and what the screens ask of them.
  The browser runs one task at a time, so a step goes from one point where an actor waits to
  the next: `actor[a].pc` is the `.await` it stands at (for a command, a connection, an answer,
  the next update) and `todo` the requests its command has still to make, the first of which it
  waits for. `Take` is the top of both loops, `Connect` the open socket, `Receive` a frame for the
  request that waits, `Timeout` the timer, `Cancel` the `select!` that drops a watch, `NextUpdate`
  the wait without a timer; `Ask`, `End`, `EndWithError` and `Fail` are what they come to. A watch that returns, at
  whichever of its exits, goes through `End`, which asks of the connection whether it is dead. `Click`, `Move`,
  `Retry`, `RetryWatch` and `Settings` are the user. What is in an answer is `Watch`'s business and
  `Game`'s; whose it is and when it comes is Browser's.

Definitions whose comment begins with "A slip" are not used by the
specifications: each is a plausible mistake in the definition that follows it,
and shows that a property would notice (section 4).

## 3. What is checked

All with TLC 2, two workers, each in at most three minutes or so.

| Run | Instance | What it shows |
|---|---|---|
| `sync` | 2 peers, 4 statements, 3 of them in one group that keeps 2, one with two genuine signatures, an oversized PUT, a delta with a forgery, 1 message in flight | reports are `Canon` of what was heard at every step; stale summaries are sound; peers that agree are quiet; a fraud proof survives; others' records never evict; `Ledger` is implemented |
| `converge` | 2 peers, 3 statements, fair network | all peers come to agree |
| `delegate` | 2 labels that meet in a game, 2 games, 2 contract addresses, 2 callers, 7 bodies, `MAX_PLY` 3 | no double sign, no counter goes back, no lost index, no address left is forgotten, only the creator signs |
| `game` | White with 2 clients, Black with 1, 4 plies with all 7 moves, a repetition, a mate, a forced draw, a claim of either kind, an offer and its acceptance, White's resignation | an honest player never forfeits and is never stuck; decisions hold; the nodes together show one game at one board |
| `cheat` | one honest White, a Black that publishes illegal moves, moves in White's place, two moves at a ply, a late acceptance, a claim out of turn | White cannot be robbed of a move or of a result |
| `watch` | White's client, a game at two addresses, a move, two offers of Black at one ply, of which one pushes out the other, 2 notifications waiting | nothing is missed, what is held is shown, moves shown stay, skew is reported while there is any and withdrawn after, a migration carries everything it read, the client catches up |
| `browser` | two games, one under way that has moved here from another address and one that is over, one socket that dies, one give-up that is answered late, two wishes of the user | an answer is never taken for another's as long as none is late; a watch loses no record and does not end in silence; the view never shows a game under another's label; nobody talks to an address that was left; a connection known to be dead is kept by nobody; every command ends and every death is noticed |
| `delegate_create`, `delegate_format`, `draw_undone`, `watch_end`, `browser_dead` | expected violations | section 6 |

**Bounds, and why they are enough.** Groups are independent of each other but for
ids, so one group that overflows by one, with a statement outside it whose id is
smaller than all of them, has every case of eviction; two signatures have every
case of a tie. One message in flight suffices for staleness because a summary may
wait while its sender is changed in any way by PUTs, UPDATEs and repeated deliveries.
The delegate needs two labels in one game for the record that is keyed by the game
alone, two games for a label that is bound twice, and three plies for a counter
with something below and above it, a ply of the other side, and one past the cap.
The constants of the draw rules are scaled with the board (`FIVEFOLD` 3 and
`THREEFOLD` 2, `SEVENTY_FIVE_MOVE_HALFMOVES` 3 and `FIFTY_MOVE_HALFMOVES` 2); the
model only uses their order, which `DrawAssumption` states. The board has a line
that repeats the start, one that mates and one that exhausts the clock. Two
notifications waiting at a client are what it takes for one to be older than what the
client holds, and for one address to come before the other.
In `browser` a game with two records to come has one of them before and one after any
subscription; two wishes are what it takes for one to overtake, cancel or re-address the
other, the first `ListGames` coming on top of them; one socket that dies suffices because the
actors share nothing but the view and their queues. A request that was given up on a connection that is kept
is answered later for `MaxLate` of them and never for the others. The node has every game at its
address. Every notification can be read: one that cannot is reported by the code and lost.
`MaxNet`, `MaxQueue`, `MaxDeaths`, `MaxLate`, `MaxAsked` and the sets of ids, bodies and crafted messages are the only other bounds; no other
counter is cut off by a guard.

**Symmetry** is used for the two peers of `sync` and the addresses of `delegate`,
which occur in no constant function. It is not used with liveness.

**Deadlock** is checked for `sync`, `converge`, `delegate` and `watch`. A game really ends,
and a browser whose user has nothing more to ask waits: the configurations of `Game` and
`Browser` switch the check off.

**Fairness.** `converge`, `watch` and `browser` assume some. In `converge`, for each ordered pair of peers, sending a
summary, answering it and applying the answer are strongly fair. The contract has
no scheduler; Freenet calls `summarize_state` and `get_state_delta` again and again
for every neighbour and redelivers, and messages may still be lost any number of
times. Weak fairness would not do, since losing a message disables its delivery.
In `watch` the client itself is weakly fair: its executor runs it when it can go on, and every
call of the node ends within `RESPONSE_TIMEOUT` (`cli/src/ws.rs`). `FairSpec` writes that out with
`CanProceed` for ENABLED, which TLC evaluates much faster. Nothing is assumed of the players.
In `browser` the steps of each actor are weakly fair: the page's executor runs a task that can go on, and
the timer of `after` ends every wait but that of `next_update`. `CanStep` again stands for
ENABLED. Nothing is assumed of the node, which need not answer, nor of the user.

## 4. Mutants

Every property of a passing run is matched, in `PROJECT.json`, with a mistake in a
mapped definition that breaks it under the same configuration: `absorb` that lets
the first signature stay, a delta chosen by ids alone, an eviction that keeps one
move, the index written before the record, a ply check that lets any move pass at
the last ply, a decision that looks at the board before resignations,
a cancelled watch whose socket is used again, a close that is reported but not latched, and so on.

## 5. What is proved

Every safety invariant and every action property that a passing run checks is also a theorem,
and so are both refinements: for all values of the constants that satisfy the named assumptions.
The theorems are listed in `PROJECT.json`. Here is what carries each of them.

**`CanonicalTheorems`.** Eviction distributes over union (`CanonAbsorbs`), so a merge of
genuine states is `Canon` of their union, is associative, commutative and
idempotent, and an accepted update leaves `Canon` of everything stored and received.
Whether an id stays depends only on how many smaller ids its group
has, and dropping an id that has `K` smaller ones never lets another in. Induction on
`K` is avoided by counting with the library's facts on finite cardinality.

**`SyncProofs`.** Type correctness, `OrderIndependence`, `StaleSummaryIsSound`,
`SettledPeersAreQuiet`, `OnlyOwnRecordsEvict`, `FraudProofSurvives`, and that `Sync`
implements `Ledger`. The inductive invariant says that each replica is a valid state
with `Canon[replica] = Canon[heard]` and that each summary in flight is one its sender
could have sent from a part of what it has heard. Equality of the reports alone is not
inductive: stored bytes need not be normalised, and a summary says nothing of records
evicted since.

**`DelegateProofs`.** Type correctness, `NoDoubleSign`, `GuardNeverResets`,
`IndexLeadsToOwnGame`, `OldAddressIsKept`, `OnlyTheCreatorSigns`. The invariant ties
each released move to the counter of its game: a move released at the last signed
ply is the move remembered, and none lies above it. That the address left is kept follows from what a
request may store over the record of a bound game (`Succeeds`). The invariant needs that what is indexed is
readable, so the theorems assume `Carried \subseteq Readable`, and for
`OnlyTheCreatorSigns` that `CreateGameKey` is not in `Faulty`; section 6 shows what
happens otherwise.

**`ProjectionTheorems`.** The walk of `project` for every set of genuine records and every board.
A walk is defined by recursion over its turns, and the prover does no induction over data. What
holds of all turns is therefore proved by a least counterexample: the turns at which it fails are a
set of numbers, which has a least element, and the turn before that is a contradiction
(`CountingUp`). `AtMostOneCandidate`: a walk never has to choose between two moves, because two
candidates at a ply would be a double sign of whoever is to move. `OneWalk`: of two
sets without a double sign between them one shows the other's game, perhaps further on
(the walks are compared turn by turn, `WalksDoNotPart`). `DoubleSignsOutlast`: eviction keeps two
moves of a group that has two. `MergedWalk`: a merge that uncovers no double sign
takes no move of a walk away, since eviction drops no move that is alone in its group (`WalkKeepsUp`).

**`GameProofs`**, for any number of clients and any dishonest player:

* `NeverTwoCandidates`, `NodesShowOneGame` and `NoMoveIsTakenBack` are the theorems above, for what
  nodes store.
* `HonestNeverForfeits` from `SignedOnce`: of the moves a player has let out of the delegate, published
  or not, each is at most at the delegate's count, the one at the count is the one it remembers, and
  no two are at one ply. That the published moves make no double sign is not inductive alone:
  two clients may each hold a signed move.
* `HonestLosesFairly` from `SaidAtHead`: an honest player's offers and acceptances are at the ply of the
  move they are about. Otherwise an opponent could turn one against a later position.
* `HonestCanMove` from `PendingFits`: what is signed and not yet published still fits the game as the
  player's own node shows it, so the next command signs it again rather than another move at that ply. The
  theorem takes a hypothesis, `MovesToMake`: in a game that goes on, an honest player to move has
  a statement of a legal move. It is a fact of chess and of the ids in play and not of this code;
  TLC evaluates it on both boards of `MCGame`, over all sets of records.

**`OneGameProofs`.** For two honest players (`Honest = Players`), that `Game` implements `OneGame` and that
`DecisionsStand`. The invariant `HonestInv` adds to `TypeInv`, `SignedOnce` and `SaidAtHead` that whatever has been said, published or
not, is said of the game both nodes know together (`Along`), and that every move published is
played in it (`AllPlayed`). Neither holds when a player may publish what the program does not
sign, hence the hypothesis. A step of `Game` is then a move, a resignation or a stutter of
`OneGame`.

**`WatchProofs`.** All safety of `Watch`, from one relation: `Has(R, S)`, merging `S` into `R` changes
nothing. `HeldInv` says who has what: a node what its watcher holds and what waits in its queue, the
client what it has shown. `FollowInv`: what a client that follows holds and what waits for it together make up
what the node has (`NothingIsMissed` speaks of both addresses at once and is not inductive without
the subscription). `LookInv`: until it is subscribed a client holds exactly what it has shown.
`SkewInv`: the warning a client has given agrees with what it holds of both addresses, and if the
previous one has moved on a notification waits.

**`BrowserProofs`.** All safety of `Browser`, for any number of games, wishes, dying sockets and late answers:

* `TypeInv` is more than types. What is left of a command is a suffix of its requests (`Planned`: a subscription
  is preceded by a GET, the GET of the previous address by the subscription, and a watch ends with one of
  the two); only a dead socket leaves a `closed` or a refusal in an inbox, and only an open one has
  anything out (`Sound`); and who waits or follows has a connection (`Stands`).
* `AnswersAreOwn` and `ViewShowsItsGame` from `OwnInv`: while nothing was given up to be answered
  late, nothing is out for an actor that does not wait, and for one that does one request or its answer, of its
  type and label, wherever it is. Two facts make this inductive: no answer comes behind the `closed` in an inbox
  (`LastWord`), so a read that fails leaves none behind; and what is given up is dropped (`NoneLate`).
* `OldNodeIsLeft` from `LeftInv`: as soon as the main actor has dealt with a change of the address its
  own connection leads to the new one, and the watch's does or a `Reconnect` waits for it. The property,
  which speaks of both queues being clear, is not inductive: the main actor empties its queue by
  filling the other's.
* `NoSilentDeath` is inductive given `TypeInv`: of the ways a watch comes to rest each has the game decided, an error
  shown, or a command waiting. `KnownDeadIsDropped` is too: whatever ends, by an error, a decision or a death,
  drops a connection whose latch is set; only following goes on over one, for what was parked there.
* `NothingIsMissed` from `MissInv`: it holds already from the answer to the first GET on, before it is read
  (`OnTrack`), which is what makes it hold when the second request is sent over a connection that
  an earlier watch has subscribed; and what the node answers in two parts is a subscription (`Says`), so a
  watch that does without its previous address gives up no record of its game.

The assumptions, each an `ASSUME` that TLC evaluates in the runs: ids are a finite set of numbers and
determine their statements (hashes do not collide); the order of the draw rules' constants; Black is not White; a
move, and only a move, is of a `uci`. `Game` and `Watch` also assume one genuine signature for each statement
(`SignatureAssumption`): they are about what is said, and that a second signature of the same
statement splits no nodes is what `Sync`, which does not assume it, shows.

Only checked by TLC: `Convergence`, `EventuallyFollowed`, `CommandsEnd` and `DeathIsNoticed` (liveness
under fairness is out of the prover's reach, as is that `CanProceed` and `CanStep` are ENABLED of the
steps they stand for), what the runs of section 6 refute, and the mutants.

## 6. Where the code and its documentation part

1. `delegate_create`: a failed write in `handle_create_game_key` leaves a key without an
   owner, against the comment at `delegates/adjourn-delegate/src/lib.rs:65-71`. In the trace the
   quality write fails after the key has been stored, so the owner's is never tried, and a caller
   without an origin binds the label and is handed its resignation.
2. `delegate_format`: a stored record of an unknown format is read as no record
   (`secrets.rs:120-126`), so the refusal `StaleRecordFormat` that
   `common/src/delegate_policy.rs:85-92` describes is not reached and a bind starts a
   counter at 0. In the trace the record has format 4, one later than the delegate's own, and the
   label gets a second move at ply 1.
3. `draw_undone`: `draw_offer` does not ask whose turn it is, so an agreed draw can be
   voided by the player who offered it, against `common/src/project.rs:282-287`.
4. `watch_end`: a decided game does produce further notifications, against
   `client/src/session.rs:716-718`. When both players resign at about the same time, the
   second resignation reaches the node after the watch has ended and changes the decision.

5. `browser_dead`: a client whose socket died between two commands is not torn down, against
   `ui/src/conn.rs:597-606` and `ui/src/node.rs:452-454`. The close waits in the inbox; the next command's
   send fails and returns before anything is read, so the latch stays open, `is_disconnected()`
   answers no, and the client is kept for the command after, which fails in the same way. Only
   editing the address (`Reconnect`), or reloading the page, ends this.

Limits of the browser that the code accepts: once an answer comes late over a connection that
was kept (only a cancelled watch drops its own), it is taken for the answer to the next request, or fails it
if the types differ,
so `AnswersAreOwn`, `NothingIsMissed` and `ViewShowsItsGame` are stated for `late = 0`; the view may go back
when a command's GET is older than what the watch has merged, until the next notification.

Two limits of a watch that no comment contradicts: a move of one's own published at the old
address after a migration has read it stays behind, and `opponent_moved_on_previous` does not
warn of it; and a second GET whose answer has as many records as the first, one having pushed
out another, is merged but not reported (`ShownIsHeld` excepts it).

## 7. Not modelled, and the plan

Left out for good: hashing, CBOR and Ed25519 (values), the rules of chess (a constant),
FEN, `Status.ignored`, wording, rendering and argument parsing (no state), the wire types
of `delegate_api.rs`, the test double `fake.rs`, the build and its scripts. `ListGames` reads
only. The delegate's check of a move against the local replica may only refuse; a
refusal is a stutter in `Delegate` and an `Abandon` in `Game`. `CreateGameKey`'s mixing of
entropy is reduced to which sources there are. A stored record holds the body whose hash
the code stores: two bodies with one hash are not considered.

Of the browser, the setup and migration commands and the signals `mismatch`, `skew`, `busy` and
`connected` are not modelled, nor is a stray subscribe acknowledgement, nor a notification of the
previous address (`Watch` has it). A PUT is answered like an UPDATE and has no request type of its own.
`cli/src/ws.rs` has the same request loop without a latch, one command to a connection; what is
shown of `Browser` does not cover it.

Next, in this order:

1. **Setup** — the invitation, acceptance and binding of two players over two delegates,
   with a failure at each step and a retry; with it the commands `NewGame`, `Accept`, `Bind` and
   `Migrate` of the browser.
2. **Proofs** — of what setup adds: that each failure leaves a label that can be bound again, and
   never a game bound under two keys. For the modules there are: how far `OneGame` is
   implemented when one player is not honest (the walk both nodes know is still a game, but records
   said of no position take part in it), and the safety of the browser's actors when answers come late, as far as it
   goes: `OldNodeIsLeft` and `NoSilentDeath` already do not assume `late = 0`.
