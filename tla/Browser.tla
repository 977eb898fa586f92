------------------------------ MODULE Browser ------------------------------
(***************************************************************************)
(* The two actors of the browser (ui/src/conn.rs), each with a connection  *)
(* of its own, and what the screens ask of them.  The main actor runs one  *)
(* command after the other.  The watch actor follows one game until the    *)
(* game or the connection ends, or until the next command cancels it.      *)
(*                                                                         *)
(* A browser runs one task at a time: a step is what an actor does from    *)
(* one answer, timeout or command to the next point where it waits.        *)
(***************************************************************************)
EXTENDS Transport, SequencesExt

CONSTANTS
  Moved,     \* the games that have moved here from another address
  MaxAsked   \* bound on what the user asks for

ASSUME BrowserAssumption == Moved \subseteq Label /\ MaxAsked \in Nat /\ "none" \notin Label

VARIABLES
  actor,       \* what each actor does: where it is, for which command, what of it is left
  cmds,        \* the commands waiting for each
  view,        \* the game on display: its label, and the game the records are of
  error,       \* whether an error is shown, of a command and of a watch
  screen,      \* the game screen the user has open
  asked        \* how often the user has asked for something

browserVars == <<actor, cmds, view, error, screen, asked>>
vars == <<transportVars, browserVars>>

NoView == [label |-> "none", of |-> "none"]
Cmd(name, l) == [name |-> name, label |-> l]
NoCmd == Cmd("Connect", "none")
Idle(c, held) == [pc |-> "idle", cmd |-> c, todo |-> <<>>, held |-> held]

BrowserInit ==
  /\ Init
  /\ actor = [a \in Owner |-> Idle(NoCmd, 0)]
  \* The list is asked for as the app is mounted.
  /\ cmds = [main |-> <<Cmd("ListGames", "none")>>, watch |-> <<>>]
  /\ view = NoView /\ error = [main |-> FALSE, watch |-> FALSE]
  /\ screen = "none" /\ asked = 0

\* The requests of a command, in order.  Resigning and the draw commands are made
\* like a move, which looks at the game before and after.
Look == <<"Games", "Get">>
Program(a, c) ==
  CASE c.name = "ListGames" -> <<"Games">>
    [] c.name = "Open" -> Look
    [] c.name = "Play" -> <<"Games", "Get", "Sign", "Update", "Get", "Games", "Get">>
    [] c.name = "Watch" /\ a = "main" -> <<>>
    [] c.name = "Watch" /\ a = "watch" /\ c.label \in Moved ->
         <<"Games", "Get", "Subscribe", "Previous">>
    [] OTHER -> <<"Games", "Get", "Subscribe">>
-----------------------------------------------------------------------------
(* The screens.                                                            *)

Tell(c) == cmds' = [cmds EXCEPT !.main = @ \o c]

AskedFor == asked < MaxAsked /\ asked' = asked + 1

\* A row of the list: the game is opened, and its screen watches it as it is mounted.
Click(l) ==
  /\ AskedFor /\ screen' = l
  /\ Tell(<<Cmd("Open", l), Cmd("Watch", l)>>)
  /\ UNCHANGED <<transportVars, actor, view, error>>

\* A move is made on the board of the open screen, which shows its own game only.
Move ==
  /\ AskedFor /\ screen # "none" /\ view.label = screen
  /\ Tell(<<Cmd("Play", screen)>>)
  /\ UNCHANGED <<transportVars, actor, view, error, screen>>

\* The two banners each have a button of their own.
Retry ==
  /\ AskedFor /\ error.main
  /\ Tell(<<Cmd("ListGames", "none")>>)
  /\ UNCHANGED <<transportVars, actor, view, error, screen>>
RetryWatch ==
  /\ AskedFor /\ error.watch /\ screen # "none"
  /\ Tell(<<Cmd("Watch", screen)>>)
  /\ UNCHANGED <<transportVars, actor, view, error, screen>>

\* The address is edited on a screen of its own.
Settings ==
  /\ AskedFor /\ url' = 2 /\ screen' = "none"
  /\ Tell(<<Cmd("Reconnect", "none")>>)
  /\ UNCHANGED <<game, conn, deaths, late, actor, view, error>>

User == (\E l \in Label : Click(l)) \/ Move \/ Retry \/ RetryWatch \/ Settings
-----------------------------------------------------------------------------
(* What an actor does when its command ends, and when it goes on.          *)

IsDead(c) == c.sock = "none" \/ c.closed

\* Goes on over c without what was asked there.
Leave(a, c) ==
  \/ /\ conn' = [conn EXCEPT ![a] = NeverAnswered(c)]
     /\ UNCHANGED late
  \/ /\ AnsweredLate(c) # NeverAnswered(c) /\ late < MaxLate
     /\ conn' = [conn EXCEPT ![a] = AnsweredLate(c)]
     /\ late' = late + 1

\* What was watched last is remembered for what the properties say of it.
Rest(a, held) ==
  actor' = [actor EXCEPT ![a] = IF a = "watch" THEN Idle(@.cmd, held) ELSE Idle(NoCmd, 0)]
Show(a, shown) == error' = [error EXCEPT ![a] = shown]

\* The command has failed, over c.  A connection that is known to be dead goes.
EndWithError(a, c) ==
  /\ Rest(a, actor[a].held) /\ Show(a, TRUE)
  /\ IF IsDead(c) THEN conn' = [conn EXCEPT ![a] = NoConn] /\ UNCHANGED late
                  ELSE Leave(a, c)

\* A slip: what does not fail ends quietly.
EndQuietly(a, c, held) ==
  /\ Rest(a, held) /\ Show(a, FALSE)
  /\ conn' = [conn EXCEPT ![a] = c]
  /\ UNCHANGED late

\* It has not failed.  A watch returns in the same way when its game is over and when its
\* connection is: it asks of the connection whether that is dead.
End(a, c, held) ==
  LET lost == a = "watch" /\ IsDead(c) IN
  /\ Rest(a, held) /\ Show(a, lost)
  /\ conn' = [conn EXCEPT ![a] = IF lost THEN NoConn ELSE c]
  /\ UNCHANGED late

Go(a, pc, todo, cmd, held) ==
  actor' = [actor EXCEPT ![a] = [pc |-> pc, cmd |-> cmd, todo |-> todo, held |-> held]]

\* next_update is waited for from here on.
Follow(a, cmd, held) == Go(a, "follow", <<>>, cmd, held) /\ Show(a, FALSE)

\* Sends the next request over c, which a dead socket refuses.
Ask(a, c, todo, cmd, held) ==
  LET refused == [c EXCEPT !.inbox = Append(@, [kind |-> "garbled"])] IN
  \/ todo = <<>> /\ a = "main" /\ End(a, c, held)
  \/ /\ todo = <<>> /\ a = "watch" /\ Follow(a, cmd, held)
     /\ conn' = [conn EXCEPT ![a] = c] /\ UNCHANGED late
  \/ /\ todo # <<>> /\ c.sock = "open"
     /\ Go(a, "wait", todo, cmd, held) /\ Show(a, FALSE)
     /\ conn' = [conn EXCEPT ![a] =
                   SendTo(c, [type |-> Head(todo), label |-> cmd.label, late |-> 0])]
     /\ UNCHANGED late
  \/ /\ todo # <<>> /\ c.sock # "open" /\ Head(todo) = "Previous"
     /\ Follow(a, cmd, held) /\ Leave(a, refused)
  \/ /\ todo # <<>> /\ c.sock # "open" /\ Head(todo) # "Previous"
     /\ EndWithError(a, refused)

\* Begins a command over c.  The main actor hands a watch over to the other.
Begin(a, cmd, c, queue) ==
  /\ cmds' = IF a = "main" /\ cmd.name = "Watch"
             THEN [queue EXCEPT !.watch = Append(@, cmd)] ELSE queue
  /\ view' = IF cmd.name = "Open" THEN NoView ELSE view
  /\ Ask(a, c, Program(a, cmd), cmd, 0)

\* A slip: the watch is not told.
ReconnectAlone(a, queue) == cmds' = queue

\* The main actor passes a Reconnect on.
PassOn(a, queue) ==
  cmds' = IF a = "main" THEN [queue EXCEPT !.watch = Append(@, Cmd("Reconnect", "none"))]
          ELSE queue

\* The next command.  Without a client it needs a connection first, to the address
\* that is set now.
Take(a) ==
  LET cmd == Head(cmds[a])
      queue == [cmds EXCEPT ![a] = Tail(@)] IN
  /\ actor[a].pc = "idle" /\ cmds[a] # <<>>
  /\ \/ /\ cmd.name = "Reconnect"
        /\ conn' = [conn EXCEPT ![a] = NoConn]
        /\ actor' = [actor EXCEPT ![a] = Idle(NoCmd, 0)] /\ Show(a, FALSE)
        /\ PassOn(a, queue)
        /\ UNCHANGED <<late, view>>
     \/ /\ cmd.name # "Reconnect" /\ conn[a].sock = "none"
        /\ conn' = [conn EXCEPT ![a] = Opening]
        /\ Go(a, "connect", <<>>, cmd, 0) /\ Show(a, FALSE)
        /\ cmds' = queue
        /\ UNCHANGED <<late, view>>
     \/ /\ cmd.name # "Reconnect" /\ conn[a].sock # "none"
        /\ Begin(a, cmd, conn[a], queue)
  /\ UNCHANGED <<game, url, deaths, screen, asked>>

\* The socket opens, and the delegate is registered; or it fails to, or takes too long.
Connect(a) ==
  /\ actor[a].pc = "connect"
  /\ \/ Ask(a, [conn[a] EXCEPT !.sock = "open"], <<"Register">>, actor[a].cmd, 0)
     \/ EndWithError(a, NoConn)
  /\ UNCHANGED <<game, url, deaths, cmds, view, screen, asked>>

\* A slip: a request that fails is made again.
FailRetries(a, c) ==
  /\ UNCHANGED <<cmds, view>>
  /\ Ask(a, NeverAnswered(c), actor[a].todo, actor[a].cmd, actor[a].held)

\* What a request comes to that is not answered as it should be.  A connection whose
\* delegate is not registered was never the client; a watch does without its previous
\* address.
Fail(a, c) ==
  /\ \/ Head(actor[a].todo) = "Register" /\ EndWithError(a, NoConn)
     \/ /\ Head(actor[a].todo) = "Previous"
        /\ Follow(a, actor[a].cmd, actor[a].held) /\ Leave(a, c)
     \/ Head(actor[a].todo) \notin {"Register", "Previous"} /\ EndWithError(a, c)
  /\ UNCHANGED <<cmds, view>>
-----------------------------------------------------------------------------
(* Answers.                                                                *)

\* A slip: the watch reports to whatever game is on display.
ReportAnyway(l, of) == [view EXCEPT !.of = of]

\* on_status: what the watch of l reports of a game.
Report(l, of) == IF view.label = l THEN [view EXCEPT !.of = of] ELSE view

\* The main actor has the answer f to the first request of todo.  Its own check
\* may refuse a move, and refuses it once the game is over.
AcceptForMain(c, f, cmd, todo) ==
  LET checks == Head(todo) = "Get" /\ "Sign" \in ToSet(todo) IN
  \/ /\ checks => f.n < Decided[cmd.label]
     /\ view' = IF Tail(todo) = <<>> /\ cmd.name # "ListGames"
                THEN [label |-> cmd.label, of |-> f.label] ELSE view
     /\ Ask("main", c, Tail(todo), cmd, 0)
  \/ checks /\ UNCHANGED view /\ EndWithError("main", c)

\* The watch has.  It reports the first GET, and the second if that says more, and
\* stops if the game is over.
AcceptForWatch(c, f, cmd, todo) ==
  LET held == IF f.n > actor["watch"].held THEN f.n ELSE actor["watch"].held
      news == \/ Head(todo) = "Get"
              \/ Head(todo) = "Subscribe" /\ held # actor["watch"].held IN
  /\ view' = IF news THEN Report(cmd.label, f.label) ELSE view
  /\ IF news /\ held >= Decided[cmd.label]
     THEN End("watch", c, held)
     ELSE Ask("watch", c, Tail(todo), cmd, held)

\* A frame for the request that waits.  A notification is parked.
Receive(a) ==
  LET f == Head(conn[a].inbox)
      todo == actor[a].todo IN
  /\ actor[a].pc = "wait" /\ conn[a].inbox # <<>>
  /\ \/ /\ f.kind = "update"
        /\ conn' = [conn EXCEPT ![a] = Park(@, f)]
        /\ UNCHANGED <<late, actor, error, cmds, view>>
     \/ /\ f.kind # "update" /\ Fits(Head(todo), f)
        /\ IF Head(todo) = "Register" THEN Begin(a, actor[a].cmd, Read(conn[a]), cmds)
           ELSE /\ IF a = "main" THEN AcceptForMain(Read(conn[a]), f, actor[a].cmd, todo)
                                 ELSE AcceptForWatch(Read(conn[a]), f, actor[a].cmd, todo)
                /\ UNCHANGED cmds
     \/ f.kind # "update" /\ ~Fits(Head(todo), f) /\ Fail(a, Read(conn[a]))
  /\ UNCHANGED <<game, url, deaths, screen, asked>>

\* RESPONSE_TIMEOUT has passed without a frame.
Timeout(a) ==
  /\ actor[a].pc = "wait" /\ conn[a].inbox = <<>>
  /\ Fail(a, conn[a])
  /\ UNCHANGED <<game, url, deaths, screen, asked>>
-----------------------------------------------------------------------------
(* A watch under way.                                                      *)

\* A slip: the connection of a watch that was cancelled is used again.
CancelOnly ==
  /\ cmds.watch # <<>> /\ actor["watch"].todo # <<"Register">>
  /\ actor["watch"].pc \in {"wait", "follow"}
  /\ Rest("watch", actor["watch"].held)
  /\ UNCHANGED <<transportVars, cmds, view, error, screen, asked>>

\* The next command cancels it, and its connection goes with it.  What comes before
\* watch_label, connecting and registering, is not cancelled.
Cancel ==
  /\ cmds.watch # <<>> /\ actor["watch"].todo # <<"Register">>
  /\ actor["watch"].pc \in {"wait", "follow"}
  /\ Rest("watch", actor["watch"].held)
  /\ conn' = [conn EXCEPT !["watch"] = NoConn]
  /\ UNCHANGED <<game, url, deaths, late, cmds, view, error, screen, asked>>

\* A slip: a watch that has seen the end of its game asks no further.
NotifiedQuietly(c, f) ==
  LET w == actor["watch"]
      held == IF f.n > w.held THEN f.n ELSE w.held IN
  /\ view' = IF f.label = w.cmd.label THEN Report(f.label, f.label) ELSE view
  /\ conn' = [conn EXCEPT !["watch"] = c]
  /\ actor' = [actor EXCEPT !["watch"] =
                 IF f.label # w.cmd.label THEN @
                 ELSE IF held >= Decided[f.label] THEN Idle(w.cmd, held) ELSE [@ EXCEPT !.held = held]]
  /\ UNCHANGED <<error, late>>

\* A notification, taken from c.  Those of other games are skipped; the one that decides
\* the game ends the watch, and may have been parked on a connection that died since.
Notified(c, f) ==
  LET w == actor["watch"]
      own == f.label = w.cmd.label
      held == IF own /\ f.n > w.held THEN f.n ELSE w.held IN
  /\ view' = IF own THEN Report(f.label, f.label) ELSE view
  /\ \/ own /\ held >= Decided[f.label] /\ End("watch", c, held)
     \/ /\ ~own \/ held < Decided[f.label]
        /\ actor' = [actor EXCEPT !["watch"] = [@ EXCEPT !.held = held]]
        /\ conn' = [conn EXCEPT !["watch"] = c]
        /\ UNCHANGED <<error, late>>

\* next_update: what was parked first, then the latch, then the queue, of which
\* answers and failures are skipped.
NextUpdate ==
  LET c == conn["watch"]
      f == Head(c.inbox) IN
  /\ actor["watch"].pc = "follow"
  /\ \/ /\ c.pending # <<>>
        /\ Notified([c EXCEPT !.pending = Tail(@)], Head(c.pending))
     \/ /\ c.pending = <<>> /\ c.closed /\ UNCHANGED view
        /\ End("watch", c, actor["watch"].held)
     \/ /\ c.pending = <<>> /\ ~c.closed /\ c.inbox # <<>>
        /\ \/ f.kind = "update" /\ Notified(Read(c), f)
           \/ /\ f.kind = "closed" /\ UNCHANGED view
              /\ End("watch", Read(c), actor["watch"].held)
           \/ /\ f.kind \notin {"update", "closed"}
              /\ conn' = [conn EXCEPT !["watch"] = Read(c)]
              /\ UNCHANGED <<actor, error, late, view>>
  /\ UNCHANGED <<game, url, deaths, cmds, screen, asked>>
-----------------------------------------------------------------------------
Step(a) == \/ Take(a) \/ Connect(a) \/ Receive(a) \/ Timeout(a)
           \/ a = "watch" /\ (Cancel \/ NextUpdate)

Next == User \/ (World /\ UNCHANGED browserVars) \/ \E a \in Owner : Step(a)

Spec == BrowserInit /\ [][Next]_vars

\* Where a step of an actor is enabled: whatever a request that waits is sent, or is
\* not, ends the wait or parks a notification.
CanStep(a) ==
  \/ actor[a].pc = "idle" /\ cmds[a] # <<>>
  \/ actor[a].pc \in {"connect", "wait"}
  \/ /\ actor[a].pc = "follow"
     /\ \/ cmds[a] # <<>>
        \/ conn[a].pending # <<>> \/ conn[a].closed \/ conn[a].inbox # <<>>

\* The browser runs a task that can go on, and its timer ends every wait but that of
\* next_update.  This is weak fairness of the steps of each actor, written out.  The
\* node and the user owe nothing.
FairSpec == Spec /\ \A a \in Owner : []<>~CanStep(a) \/ []<><<Step(a)>>_vars
-----------------------------------------------------------------------------
Command == [name : {"Connect", "ListGames", "Open", "Play", "Watch", "Reconnect"},
            label : Label \cup {"none"}]

TypeOK ==
  /\ TransportTypeOK
  /\ \A a \in Owner :
       /\ actor[a].pc \in {"idle", "connect", "wait", "follow"}
       /\ actor[a].cmd \in Command /\ actor[a].held \in Count
       /\ (actor[a].pc = "wait" <=> actor[a].todo # <<>>)
       /\ cmds[a] \in Seq(Command) /\ error[a] \in BOOLEAN
  /\ view.label \in Label \cup {"none"} /\ view.of \in Label \cup {"none"}
  /\ screen \in Label \cup {"none"} /\ asked \in 0..MaxAsked

\* What a connection still has to answer, and where it is.
Outstanding(a) ==
  LET c == conn[a] IN
  {<<"sent", r>> : r \in c.sent} \cup {<<"ready", f>> : f \in c.ready}
  \cup {<<"inbox", n>> : n \in {m \in DOMAIN c.inbox : IsAnswer(c.inbox[m])}}

\* Answers do not say what they answer.  As long as no request was given up on a
\* connection that was kept, there is nothing on a connection but the answer to what
\* its owner is waiting for.
AnswersAreOwn ==
  late = 0 => \A a \in Owner :
    LET c == conn[a]
        Own(label, type) == label = actor[a].cmd.label /\ type = Head(actor[a].todo) IN
    /\ actor[a].pc # "wait" => Outstanding(a) = {}
    /\ \A x, y \in Outstanding(a) : x = y
    /\ \A r \in c.sent : Own(r.label, r.type)
    /\ \A f \in c.ready \cup ToSet(c.inbox) : IsAnswer(f) => Own(f.label, f.to)

\* How much of game l a watch holds, has parked, or has yet to read.
Reaches(l) ==
  LET c == conn["watch"]
      waiting == c.ready \cup ToSet(c.inbox) \cup ToSet(c.pending) IN
  {actor["watch"].held} \cup {f.n : f \in {g \in waiting : g.kind \in {"update", "answer"} /\ g.label = l}}

\* Once the node counts a watch among the subscribers of its game, no record of the
\* game is lost to it: not one that comes before the answer, nor one that comes while
\* it asks about something else.  (Every notification can be read.)
NothingIsMissed ==
  LET w == actor["watch"] IN
  (/\ late = 0 /\ conn["watch"].sock = "open"
   /\ w.cmd.label \in conn["watch"].subs
   /\ w.pc = "follow" \/ (w.pc = "wait" /\ Head(w.todo) \in {"Subscribe", "Previous"}))
  => \E n \in Reaches(w.cmd.label) : n >= game[w.cmd.label]

\* A watch does not end silently: the game is over, or the user is told.
NoSilentDeath ==
  (actor["watch"].pc = "idle" /\ actor["watch"].cmd.name = "Watch" /\ cmds.watch = <<>>)
  => actor["watch"].held >= Decided[actor["watch"].cmd.label] \/ error.watch

\* A connection that is known to be dead is kept by nobody but a watch that has still to
\* look at what was parked there: whatever ends, the next command does not start on it.
KnownDeadIsDropped == \A a \in Owner : actor[a].pc # "follow" => ~conn[a].closed

\* A board that is labelled with one game never shows another, whichever of the two
\* actors wrote it last.
ViewShowsItsGame == late = 0 => view.of = view.label

\* When a change of the address has been dealt with, nobody talks to the old node.
OldNodeIsLeft ==
  (\A a \in Owner : \A n \in DOMAIN cmds[a] : cmds[a][n].name # "Reconnect")
  => \A a \in Owner : conn[a].sock # "none" => conn[a].url = url

\* Every command ends, whatever the node does.
CommandsEnd == actor["main"].pc # "idle" ~> actor["main"].pc = "idle"

\* A watch does not wait for updates on a dead socket for ever.
DeathIsNoticed ==
  actor["watch"].pc = "follow" /\ conn["watch"].sock = "dead" ~> actor["watch"].pc # "follow"

\* A command that fails on a socket that is gone tears the client down, so that the
\* next one connects again.
DeadClientsGo ==
  [][actor["main"].pc = "idle" /\ cmds.main # <<>> /\ cmds'.main = Tail(cmds.main)
     /\ conn["main"].sock = "dead" /\ error'["main"] => conn'["main"].sock # "dead"]_vars
=============================================================================
