----------------------------- MODULE Transport -----------------------------
(***************************************************************************)
(* The browser's connections to its node (ui/src/node.rs).  A              *)
(* BrowserClient sends one request at a time and reads frames off one      *)
(* queue: answers, which do not say what they answer, notifications, and   *)
(* what the error handler makes of everything else.                        *)
(*                                                                         *)
(* How an owner of a connection uses it is the business of Browser.  Here  *)
(* are the connection, the operations it offers, and the node.             *)
(***************************************************************************)
EXTENDS Integers, Sequences

CONSTANTS
  Label,       \* the games
  Decided,     \* how many more records decide each
  MaxDeaths,   \* bound on the sockets that die
  MaxLate      \* bound on the answers that come after they were given up

ASSUME TransportAssumption == Decided \in [Label -> Nat] /\ MaxDeaths \in Nat /\ MaxLate \in Nat

VARIABLES
  game,     \* how many records the node has of each game
  conn,     \* the connection of each owner
  url,      \* the address of the node, as set by the user
  deaths,   \* how many sockets have died
  late      \* how many requests were given up on a connection that was kept, to be
            \* answered later

transportVars == <<game, conn, url, deaths, late>>

\* The actors that own a connection each: one runs the commands, one watches.
Owner == {"main", "watch"}
Url == {1, 2}
Count == {0} \cup UNION {0..Decided[l] : l \in Label}

\* A GET of a game, one that also subscribes, and one of the address the game was
\* moved away from are answered alike.  What was given up to be answered later is
\* numbered; 0 is a request that is waited for.
Type == {"Register", "Games", "Sign", "Get", "Subscribe", "Previous", "Update"}
Request == [type : Type, label : Label \cup {"none"}, late : 0..MaxLate]
Gets == {"Get", "Subscribe", "Previous"}

Answer == [kind : {"answer", "missing", "failed"}, to : Type, label : Label \cup {"none"},
           n : Count, late : 0..MaxLate]
Frame == Answer
         \cup [kind : {"update"}, label : Label, n : Count]
         \cup [kind : {"garbled", "closed"}]

NoConn == [sock |-> "none", url |-> 1, sent |-> {}, ready |-> {}, subs |-> {},
           inbox |-> <<>>, pending |-> <<>>, closed |-> FALSE]
Opening == [NoConn EXCEPT !.sock = "opening", !.url = url]

Init ==
  /\ game \in [Label -> {0}]
  /\ conn = [a \in Owner |-> NoConn]
  /\ url = 1 /\ deaths = 0 /\ late = 0
-----------------------------------------------------------------------------
(* What a BrowserClient does, on a connection c.                           *)

SendTo(c, r) == [c EXCEPT !.sent = @ \cup {r}]

\* A slip: a close is reported to whoever waits for an answer, and not remembered.
ObserveNothing(c, f) == c

\* A slip: every failure is taken for a close.
ObserveAnyFailure(c, f) ==
  IF f.kind \in {"closed", "garbled", "failed"} THEN [c EXCEPT !.closed = TRUE] ELSE c

\* CloseLatch::observe
Observe(c, f) == IF f.kind = "closed" THEN [c EXCEPT !.closed = TRUE] ELSE c

\* A slip: what is not the answer is skipped.
ParkNothing(c, f) == [c EXCEPT !.inbox = Tail(@)]

\* next_routed: a notification is parked, everything else is for the caller.
Park(c, f) == [c EXCEPT !.inbox = Tail(@), !.pending = Append(@, f)]

Read(c) == Observe([c EXCEPT !.inbox = Tail(@)], Head(c.inbox))

\* Whether a response is of the type that the waiting operation looks for.  Only a
\* GET takes a missing contract for an answer.
Fits(type, f) ==
  \/ /\ f.kind = "answer"
     /\ \/ type = "Register" /\ f.to \in {"Register", "Games", "Sign"}
        \/ type \in Gets /\ f.to \in Gets
        \/ type \notin {"Register"} \cup Gets /\ f.to = type
  \/ f.kind = "missing" /\ type \in Gets

IsAnswer(f) == f.kind \in {"answer", "missing", "failed"}

\* What is waited for of a set of requests or answers, given up: it still comes, or it
\* never does.
Late(S) == {x \in S : x.late # 0}
MadeLate(S) == {[x EXCEPT !.late = IF @ = 0 THEN late + 1 ELSE @] : x \in S}
AnsweredLate(c) == [c EXCEPT !.sent = MadeLate(@), !.ready = MadeLate(@)]
NeverAnswered(c) == [c EXCEPT !.sent = Late(@), !.ready = Late(@)]
-----------------------------------------------------------------------------
(* The node, and the network behind it.                                    *)

\* Those who have subscribed to a game are told of a change.
Notify(l, n, cs) ==
  conn' = [a \in Owner |-> IF cs[a].sock = "open" /\ l \in cs[a].subs
             THEN [cs[a] EXCEPT !.inbox = Append(@, [kind |-> "update", label |-> l, n |-> n])]
             ELSE cs[a]]

\* The opponent's record reaches the node.
OpponentMoves(l) ==
  /\ game[l] < Decided[l]
  /\ game' = [game EXCEPT ![l] = @ + 1]
  /\ Notify(l, game[l] + 1, conn)
  /\ UNCHANGED <<url, deaths, late>>

AnswerTo(r, kind) == [kind |-> kind, to |-> r.type, label |-> r.label, late |-> r.late,
                      n |-> IF r.type \in {"Get", "Subscribe"} THEN game[r.label] ELSE 0]

\* The node answers a request, or says that it failed.  Of those it has it may take
\* up any.  It may know of nothing at an address left behind.
NodeAnswers(a, r) ==
  LET grows == r.type = "Update" /\ game[r.label] < Decided[r.label]
      Done(kind) == [conn EXCEPT ![a].sent = @ \ {r},
                                 ![a].inbox = Append(@, AnswerTo(r, kind))] IN
  /\ r \in conn[a].sent
  /\ \/ /\ grows
        /\ game' = [game EXCEPT ![r.label] = @ + 1]
        /\ Notify(r.label, game[r.label] + 1, Done("answer"))
     \/ ~grows /\ r.type # "Subscribe" /\ conn' = Done("answer") /\ UNCHANGED game
     \/ conn' = Done("failed") /\ UNCHANGED game
     \/ r.type = "Previous" /\ conn' = Done("missing") /\ UNCHANGED game
  /\ UNCHANGED <<url, deaths, late>>

\* It takes up a subscription: a change may be told before the answer is sent.
NodeSubscribes(a, r) ==
  /\ r \in conn[a].sent /\ r.type = "Subscribe"
  /\ conn' = [conn EXCEPT ![a].sent = @ \ {r}, ![a].subs = @ \cup {r.label},
                          ![a].ready = @ \cup {AnswerTo(r, "answer")}]
  /\ UNCHANGED <<game, url, deaths, late>>

NodeHasSubscribed(a, f) ==
  /\ f \in conn[a].ready
  /\ conn' = [conn EXCEPT ![a].inbox = Append(@, f), ![a].ready = @ \ {f}]
  /\ UNCHANGED <<game, url, deaths, late>>

\* onclose fires once.
SocketDies(a) ==
  /\ conn[a].sock = "open" /\ deaths < MaxDeaths
  /\ deaths' = deaths + 1
  /\ conn' = [conn EXCEPT ![a].sock = "dead", ![a].sent = {}, ![a].ready = {}, ![a].subs = {},
                          ![a].inbox = Append(@, [kind |-> "closed"])]
  /\ UNCHANGED <<game, url, late>>

World ==
  \/ \E l \in Label : OpponentMoves(l)
  \/ \E a \in Owner : \E r \in conn[a].sent : NodeAnswers(a, r) \/ NodeSubscribes(a, r)
  \/ \E a \in Owner : \E f \in conn[a].ready : NodeHasSubscribed(a, f)
  \/ \E a \in Owner : SocketDies(a)
-----------------------------------------------------------------------------
Conn == [sock : {"none", "opening", "open", "dead"}, url : Url, sent : SUBSET Request,
         ready : SUBSET Answer, subs : SUBSET Label, inbox : Seq(Frame), pending : Seq(Frame), closed : BOOLEAN]

\* Only a socket that has died is known to be gone: no failure is taken for a close.
TransportTypeOK ==
  /\ \A l \in Label : game[l] \in 0..Decided[l]
  /\ \A a \in Owner : conn[a] \in Conn
  /\ url \in Url /\ deaths \in 0..MaxDeaths /\ late \in 0..MaxLate
  /\ \A a \in Owner : conn[a].closed => conn[a].sock = "dead"
=============================================================================
