---------------------------- MODULE BrowserProofs ----------------------------
(***************************************************************************)
(* The two actors of the browser are correct for any number of games,      *)
(* dying sockets, late answers and wishes of the user.                     *)
(*                                                                         *)
(* Both actors go on over a connection in the same few ways: they send a   *)
(* request, follow a game, rest, or give up what they waited for.  What    *)
(* these do to a connection is proved first (GivenUp, AskComesTo); each    *)
(* invariant then goes through the steps that lead to them.                *)
(***************************************************************************)
EXTENDS Browser, SequenceTheorems, TLAPS

\* What the commands are that wait for each actor.
OfGame == {"Open", "Play", "Watch"}
Given(a) ==
  {c \in Command : /\ c.name \in {"Watch", "Reconnect"} \cup
                                 IF a = "main" THEN {"ListGames", "Open", "Play"} ELSE {}
                   /\ c.name \in OfGame => c.label \in Label}

\* What is left of the requests of a command.  A watch makes its own in a fixed order.
Planned(a, cmd, todo) ==
  /\ todo \in Seq(Type)
  /\ \A n \in DOMAIN todo :
       /\ todo[n] = "Register" => Len(todo) = 1
       /\ todo[n] \notin {"Register", "Games"} => cmd.label \in Label
       /\ a = "watch" =>
            /\ todo[n] \notin {"Sign", "Update"}
            /\ n > 1 /\ todo[n] = "Subscribe" => todo[n - 1] = "Get"
            /\ n > 1 /\ todo[n] = "Previous" => todo[n - 1] = "Subscribe"
            /\ n = Len(todo) => todo[n] \in {"Register", "Subscribe", "Previous"}

Work == [pc : {"idle", "connect", "wait", "follow"}, cmd : Command, todo : Seq(Type), held : Count]

AtWork(a, w) ==
  /\ w \in Work
  /\ w.pc = "wait" <=> w.todo # <<>>
  /\ w.pc # "idle" => w.cmd \in Given(a) /\ w.cmd.name # "Reconnect"
  /\ Planned(a, w.cmd, w.todo)

\* What a connection knows of its socket, and what was ever sent over it.
Sound(c) ==
  /\ c \in Conn
  /\ c.closed => c.sock = "dead"
  /\ \A n \in DOMAIN c.inbox : c.inbox[n].kind \in {"closed", "garbled"} => c.sock = "dead"
  /\ c.sock # "open" => c.sent = {} /\ c.ready = {} /\ c.subs = {}
  /\ \A r \in c.sent : r.type \notin {"Register", "Games"} => r.label \in Label
  /\ \A n \in DOMAIN c.pending : c.pending[n].kind = "update"

\* Where an actor may stand with its connection.
Stands(pc, c) ==
  /\ pc = "connect" => c.sock = "opening" /\ c.inbox = <<>> /\ c.pending = <<>>
  /\ c.sock = "opening" => pc = "connect"
  /\ pc \in {"wait", "follow"} => c.sock # "none"

WorldTyped ==
  /\ game \in [Label -> Nat] /\ \A l \in Label : game[l] <= Decided[l]
  /\ url \in Url /\ deaths \in 0..MaxDeaths /\ late \in 0..MaxLate

ActorsTyped ==
  /\ actor \in [Owner -> Work] /\ conn \in [Owner -> Conn] /\ error \in [Owner -> BOOLEAN]
  /\ \A a \in Owner : AtWork(a, actor[a]) /\ Sound(conn[a]) /\ Stands(actor[a].pc, conn[a])

CmdsTyped(q) == q \in [Owner -> Seq(Command)] /\ \A a \in Owner : q[a] \in Seq(Given(a))

UserTyped ==
  /\ CmdsTyped(cmds)
  /\ view \in [label : Label \cup {"none"}, of : Label \cup {"none"}]
  /\ screen \in Label \cup {"none"} /\ asked \in 0..MaxAsked

TypeInv == WorldTyped /\ ActorsTyped /\ UserTyped
-----------------------------------------------------------------------------
(* Sequences, and the numbers of records.                                  *)

\* What is left of a sequence without its first.
LEMMA Rest1 ==
  ASSUME NEW S, NEW s \in Seq(S), s # <<>>
  PROVE  /\ Tail(s) \in Seq(S) /\ Head(s) \in S /\ Head(s) = s[1] /\ 1 \in DOMAIN s
         /\ Len(s) \in Nat /\ Len(s) >= 1 /\ Len(Tail(s)) = Len(s) - 1
         /\ DOMAIN s = 1..Len(s) /\ DOMAIN Tail(s) = 1..(Len(s) - 1)
         /\ \A n \in DOMAIN Tail(s) : n + 1 \in DOMAIN s /\ n + 1 > 1 /\ Tail(s)[n] = s[n + 1]
<1>1. /\ Tail(s) \in Seq(S) /\ Head(s) \in S /\ Head(s) = s[1]
      /\ Len(s) \in Nat /\ Len(s) >= 1 /\ Len(Tail(s)) = Len(s) - 1
      /\ DOMAIN s = 1..Len(s) /\ DOMAIN Tail(s) = 1..(Len(s) - 1)
      /\ \A n \in 1..(Len(s) - 1) : Tail(s)[n] = s[n + 1]
  BY HeadTailProperties
<1> QED  BY <1>1

\* A sequence with one more at its end.
LEMMA OneMore ==
  ASSUME NEW S, NEW s \in Seq(S), NEW x \in S
  PROVE  /\ Append(s, x) \in Seq(S) /\ Append(s, x) # <<>>
         /\ Len(s) \in Nat /\ DOMAIN s = 1..Len(s) /\ DOMAIN Append(s, x) = 1..(Len(s) + 1)
         /\ Append(s, x)[Len(s) + 1] = x
         /\ \A n \in DOMAIN s : n \in DOMAIN Append(s, x) /\ n < Len(s) + 1 /\ Append(s, x)[n] = s[n]
         /\ \A n \in DOMAIN Append(s, x) : n \in DOMAIN s \/ n = Len(s) + 1
<1>1. /\ Append(s, x) \in Seq(S) /\ Append(s, x) # <<>>
      /\ Len(s) \in Nat /\ DOMAIN s = 1..Len(s) /\ DOMAIN Append(s, x) = 1..(Len(s) + 1)
      /\ Append(s, x)[Len(s) + 1] = x
      /\ \A n \in 1..Len(s) : Append(s, x)[n] = s[n]
  BY AppendProperties
<1> QED  BY <1>1

\* Nothing, and one: what a queue begins with.
LEMMA FewInAQueue ==
  ASSUME NEW S
  PROVE  <<>> \in Seq(S) /\ \A x \in S : <<x>> \in Seq(S) /\ \A y \in S : <<x, y>> \in Seq(S)
OBVIOUS

LEMMA Counted ==
  /\ Count \subseteq Nat /\ 0 \in Count
  /\ \A l \in Label, n \in Nat : n <= Decided[l] => n \in Count
BY TransportAssumption DEF Count
-----------------------------------------------------------------------------
(* Programs.                                                               *)

\* The requests of each command, written out.
LEMMA ProgramIs ==
  ASSUME NEW a \in Owner, NEW cmd \in Given(a), cmd.name # "Reconnect"
  PROVE  \/ a = "main" /\ Program(a, cmd) = <<"Games">>
         \/ a = "main" /\ cmd.label \in Label /\ Program(a, cmd) = <<"Games", "Get">>
         \/ /\ a = "main" /\ cmd.label \in Label
            /\ Program(a, cmd) = <<"Games", "Get", "Sign", "Update", "Get", "Games", "Get">>
         \/ a = "main" /\ Program(a, cmd) = <<>>
         \/ a = "watch" /\ cmd.label \in Label /\ Program(a, cmd) = <<"Games", "Get", "Subscribe">>
         \/ /\ a = "watch" /\ cmd.label \in Label
            /\ Program(a, cmd) = <<"Games", "Get", "Subscribe", "Previous">>
BY DEF Owner, Given, OfGame, Program, Look

LEMMA ProgramPlanned ==
  ASSUME NEW a \in Owner, NEW cmd \in Given(a), cmd.name # "Reconnect"
  PROVE  Planned(a, cmd, Program(a, cmd))
<1>1. Planned(a, cmd, <<>>)
  BY DEF Planned
<1>2. ASSUME a = "main" PROVE Planned(a, cmd, <<"Games">>)
  BY <1>2 DEF Planned, Type
<1>3. ASSUME a = "main", cmd.label \in Label PROVE Planned(a, cmd, <<"Games", "Get">>)
  BY <1>3 DEF Planned, Type
<1>4. ASSUME a = "main", cmd.label \in Label
      PROVE  Planned(a, cmd, <<"Games", "Get", "Sign", "Update", "Get", "Games", "Get">>)
  BY <1>4 DEF Planned, Type
<1>5. ASSUME cmd.label \in Label
      PROVE  Planned(a, cmd, <<"Games", "Get", "Subscribe">>)
  BY <1>5 DEF Planned, Type
<1>6. ASSUME cmd.label \in Label
      PROVE  Planned(a, cmd, <<"Games", "Get", "Subscribe", "Previous">>)
  BY <1>6 DEF Planned, Type
<1> QED  BY <1>1, <1>2, <1>3, <1>4, <1>5, <1>6, ProgramIs

\* Once the first is answered the rest is planned as before.
LEMMA StillPlanned ==
  ASSUME NEW a \in Owner, NEW cmd, NEW todo, Planned(a, cmd, todo), todo # <<>>
  PROVE  Planned(a, cmd, Tail(todo))
<1>1. /\ Tail(todo) \in Seq(Type)
      /\ Len(todo) \in Nat /\ Len(todo) >= 1 /\ Len(Tail(todo)) = Len(todo) - 1
      /\ DOMAIN Tail(todo) = 1..(Len(todo) - 1)
      /\ \A n \in DOMAIN Tail(todo) : n + 1 \in DOMAIN todo /\ n + 1 > 1 /\ Tail(todo)[n] = todo[n + 1]
  BY Rest1 DEF Planned
<1> SUFFICES ASSUME NEW n \in DOMAIN Tail(todo)
             PROVE  /\ Tail(todo)[n] = "Register" => Len(Tail(todo)) = 1
                    /\ Tail(todo)[n] \notin {"Register", "Games"} => cmd.label \in Label
                    /\ a = "watch" =>
                         /\ Tail(todo)[n] \notin {"Sign", "Update"}
                         /\ n > 1 /\ Tail(todo)[n] = "Subscribe" => Tail(todo)[n - 1] = "Get"
                         /\ n > 1 /\ Tail(todo)[n] = "Previous" => Tail(todo)[n - 1] = "Subscribe"
                         /\ n = Len(Tail(todo)) => Tail(todo)[n] \in {"Register", "Subscribe", "Previous"}
  BY <1>1 DEF Planned
<1>2. n + 1 \in DOMAIN todo /\ n + 1 > 1 /\ Tail(todo)[n] = todo[n + 1] /\ n \in 1..(Len(todo) - 1)
  BY <1>1
<1>3. todo[n + 1] # "Register"
  BY <1>1, <1>2 DEF Planned
<1>4. n > 1 => Tail(todo)[n - 1] = todo[n] /\ n \in DOMAIN todo
  <2> SUFFICES ASSUME n > 1 PROVE Tail(todo)[n - 1] = todo[n] /\ n \in DOMAIN todo
    OBVIOUS
  <2>1. n - 1 \in DOMAIN Tail(todo) /\ (n - 1) + 1 = n
    BY <1>1, <1>2
  <2> QED  BY <1>1, <2>1
<1>5. (n + 1) - 1 = n /\ (n = Len(Tail(todo)) => n + 1 = Len(todo))
  BY <1>1, <1>2
<1> QED  BY <1>1, <1>2, <1>3, <1>4, <1>5 DEF Planned
-----------------------------------------------------------------------------
(* What is done to a connection.                                           *)

LEMMA FreshIsSound == url \in Url => Sound(NoConn) /\ Sound(Opening)
<1>1. <<>> \in Seq(Frame) /\ 1 \in Url
  BY DEF Url
<1>2. NoConn \in Conn /\ (url \in Url => Opening \in Conn)
  BY <1>1 DEF NoConn, Opening, Conn
<1>3. /\ NoConn.inbox = <<>> /\ NoConn.pending = <<>> /\ NoConn.sent = {} /\ NoConn.ready = {}
      /\ NoConn.subs = {} /\ NoConn.closed = FALSE
      /\ Opening.inbox = <<>> /\ Opening.pending = <<>> /\ Opening.sent = {} /\ Opening.ready = {}
      /\ Opening.subs = {} /\ Opening.closed = FALSE
  BY DEF NoConn, Opening
<1>4. \A n \in DOMAIN <<>> : FALSE
  OBVIOUS
<1> QED  BY <1>2, <1>3, <1>4 DEF Sound

\* What is given up is given up for good, or still to come, under a number of its own.
GivenUp(c, d) ==
  \/ d = NeverAnswered(c) /\ late' = late
  \/ d = AnsweredLate(c) /\ late < MaxLate /\ late' = late + 1

LEMMA GivenUpTyped ==
  ASSUME late \in 0..MaxLate, NEW c \in Conn, NEW d, GivenUp(c, d)
  PROVE  /\ d \in Conn /\ late' \in 0..MaxLate
         /\ d = [c EXCEPT !.sent = d.sent, !.ready = d.ready]
         /\ \A r \in d.sent : \E s \in c.sent : r.type = s.type /\ r.label = s.label
         /\ \A f \in d.ready : \E s \in c.ready : f.n = s.n /\ f.label = s.label
<1>1. MaxLate \in Nat
  BY TransportAssumption
<1>2. Late(c.sent) \in SUBSET Request /\ Late(c.ready) \in SUBSET Answer
  BY DEF Late, Conn
<1>3. CASE d = NeverAnswered(c) /\ late' = late
  BY <1>2, <1>3 DEF NeverAnswered, Conn, Late
<1>4. CASE d = AnsweredLate(c) /\ late < MaxLate /\ late' = late + 1
  <2>1. late + 1 \in 0..MaxLate
    BY <1>1, <1>4
  <2>2. MadeLate(c.sent) \in SUBSET Request /\ MadeLate(c.ready) \in SUBSET Answer
    <3>1. ASSUME NEW r \in Request PROVE [r EXCEPT !.late = IF @ = 0 THEN late + 1 ELSE @] \in Request
      BY <2>1 DEF Request
    <3>2. ASSUME NEW f \in Answer PROVE [f EXCEPT !.late = IF @ = 0 THEN late + 1 ELSE @] \in Answer
      BY <2>1 DEF Answer
    <3> QED  BY <3>1, <3>2 DEF MadeLate, Conn
  <2>3. /\ \A r \in MadeLate(c.sent) : \E s \in c.sent : r.type = s.type /\ r.label = s.label
        /\ \A f \in MadeLate(c.ready) : \E s \in c.ready : f.n = s.n /\ f.label = s.label
    BY DEF MadeLate, Conn, Request, Answer
  <2> QED  BY <1>4, <2>1, <2>2, <2>3 DEF AnsweredLate, Conn
<1> QED  BY <1>3, <1>4 DEF GivenUp

LEMMA GivenUpSound ==
  ASSUME late \in 0..MaxLate, NEW c, Sound(c), NEW d, GivenUp(c, d)
  PROVE  Sound(d) /\ late' \in 0..MaxLate /\ d.sock = c.sock /\ d.url = c.url
<1>1. /\ d \in Conn /\ late' \in 0..MaxLate
      /\ d = [c EXCEPT !.sent = d.sent, !.ready = d.ready]
      /\ \A r \in d.sent : \E s \in c.sent : r.type = s.type /\ r.label = s.label
      /\ \A f \in d.ready : \E s \in c.ready : f.n = s.n /\ f.label = s.label
  BY GivenUpTyped DEF Sound
<1>2. /\ d.sock = c.sock /\ d.closed = c.closed /\ d.inbox = c.inbox /\ d.subs = c.subs
      /\ d.pending = c.pending /\ d.url = c.url
  BY <1>1 DEF Sound, Conn
<1> QED  BY <1>1, <1>2 DEF Sound

\* A refusal is something that cannot be read in the inbox.
Refused(c) == [c EXCEPT !.inbox = Append(@, [kind |-> "garbled"])]

LEMMA PushSound ==
  ASSUME NEW c, Sound(c), NEW f \in Frame, f.kind \in {"closed", "garbled"} => c.sock = "dead"
  PROVE  Sound([c EXCEPT !.inbox = Append(@, f)])
<1> DEFINE d == [c EXCEPT !.inbox = Append(@, f)]
<1>1. c \in Conn /\ c.inbox \in Seq(Frame)
  BY DEF Sound, Conn
<1>2. /\ Append(c.inbox, f) \in Seq(Frame) /\ Append(c.inbox, f)[Len(c.inbox) + 1] = f
      /\ \A n \in DOMAIN c.inbox : Append(c.inbox, f)[n] = c.inbox[n]
      /\ \A n \in DOMAIN Append(c.inbox, f) : n \in DOMAIN c.inbox \/ n = Len(c.inbox) + 1
  BY <1>1, OneMore
<1>3. /\ d \in Conn /\ d.inbox = Append(c.inbox, f) /\ d.sock = c.sock /\ d.closed = c.closed
      /\ d.sent = c.sent /\ d.ready = c.ready /\ d.subs = c.subs /\ d.pending = c.pending
  BY <1>1, <1>2 DEF Conn
<1>4. \A n \in DOMAIN d.inbox : d.inbox[n].kind \in {"closed", "garbled"} => d.sock = "dead"
  BY <1>2, <1>3 DEF Sound
<1> QED  BY <1>3, <1>4 DEF Sound

LEMMA RefusedSound ==
  ASSUME NEW c, Sound(c), c.sock \in {"open", "dead"}, c.sock # "open"
  PROVE  Sound(Refused(c)) /\ Refused(c).sock = "dead" /\ Refused(c).url = c.url
<1>1. [kind |-> "garbled"] \in Frame
  BY DEF Frame
<1> QED  BY <1>1, PushSound DEF Refused, Sound, Conn

\* What is read is gone from the inbox, and nothing else is but for the latch.
LEMMA ReadIs ==
  ASSUME NEW c, Sound(c), c.inbox # <<>>
  PROVE  /\ Sound(Read(c)) /\ Head(c.inbox) \in Frame
         /\ Read(c).inbox = Tail(c.inbox) /\ Read(c).sock = c.sock /\ Read(c).url = c.url
         /\ Read(c).sent = c.sent /\ Read(c).ready = c.ready /\ Read(c).subs = c.subs
         /\ Read(c).pending = c.pending
         /\ Read(c).closed <=> c.closed \/ Head(c.inbox).kind = "closed"
<1> DEFINE f == Head(c.inbox)
<1>1. c \in Conn /\ c.inbox \in Seq(Frame)
  BY DEF Sound, Conn
<1>2. /\ Tail(c.inbox) \in Seq(Frame) /\ f \in Frame /\ f = c.inbox[1] /\ 1 \in DOMAIN c.inbox
      /\ \A n \in DOMAIN Tail(c.inbox) : n + 1 \in DOMAIN c.inbox /\ Tail(c.inbox)[n] = c.inbox[n + 1]
  BY <1>1, Rest1
<1>3. /\ Read(c) \in Conn
      /\ Read(c).inbox = Tail(c.inbox) /\ Read(c).sock = c.sock /\ Read(c).url = c.url
      /\ Read(c).sent = c.sent /\ Read(c).ready = c.ready /\ Read(c).subs = c.subs
      /\ Read(c).pending = c.pending
      /\ Read(c).closed <=> c.closed \/ f.kind = "closed"
  BY <1>1, <1>2 DEF Read, Observe, Conn
<1>4. f.kind = "closed" => c.sock = "dead"
  BY <1>2 DEF Sound
<1>5. \A n \in DOMAIN Read(c).inbox :
        Read(c).inbox[n].kind \in {"closed", "garbled"} => Read(c).sock = "dead"
  BY <1>2, <1>3 DEF Sound
<1> QED  BY <1>2, <1>3, <1>4, <1>5 DEF Sound

LEMMA ParkSound ==
  ASSUME NEW c, Sound(c), c.inbox # <<>>, Head(c.inbox).kind = "update"
  PROVE  /\ Sound(Park(c, Head(c.inbox))) /\ Park(c, Head(c.inbox)).sock = c.sock
         /\ Park(c, Head(c.inbox)).url = c.url /\ Park(c, Head(c.inbox)).sent = c.sent
         /\ Park(c, Head(c.inbox)).ready = c.ready /\ Park(c, Head(c.inbox)).subs = c.subs
         /\ Park(c, Head(c.inbox)).closed = c.closed
         /\ Park(c, Head(c.inbox)).inbox = Tail(c.inbox)
         /\ Park(c, Head(c.inbox)).pending = Append(c.pending, Head(c.inbox))
<1> DEFINE f == Head(c.inbox)
           d == Park(c, f)
<1>1. c \in Conn /\ c.inbox \in Seq(Frame) /\ c.pending \in Seq(Frame)
  BY DEF Sound, Conn
<1>2. /\ Tail(c.inbox) \in Seq(Frame) /\ f \in Frame
      /\ \A n \in DOMAIN Tail(c.inbox) : n + 1 \in DOMAIN c.inbox /\ Tail(c.inbox)[n] = c.inbox[n + 1]
  BY <1>1, Rest1
<1>3. /\ Append(c.pending, f) \in Seq(Frame) /\ Append(c.pending, f)[Len(c.pending) + 1] = f
      /\ \A n \in DOMAIN c.pending : Append(c.pending, f)[n] = c.pending[n]
      /\ \A n \in DOMAIN Append(c.pending, f) : n \in DOMAIN c.pending \/ n = Len(c.pending) + 1
  BY <1>1, <1>2, OneMore
<1>4. /\ d \in Conn /\ d.sock = c.sock /\ d.closed = c.closed /\ d.inbox = Tail(c.inbox)
      /\ d.sent = c.sent /\ d.ready = c.ready /\ d.subs = c.subs /\ d.url = c.url
      /\ d.pending = Append(c.pending, f)
  BY <1>1, <1>2, <1>3 DEF Park, Conn
<1>5. \A n \in DOMAIN d.inbox : d.inbox[n].kind \in {"closed", "garbled"} => d.sock = "dead"
  BY <1>2, <1>4 DEF Sound
<1>6. \A n \in DOMAIN d.pending : d.pending[n].kind = "update"
  BY <1>3, <1>4 DEF Sound
<1> QED  BY <1>4, <1>5, <1>6 DEF Sound
-----------------------------------------------------------------------------
(* What an actor comes to.                                                 *)

Became(a, w, c, shown) ==
  /\ actor' = [actor EXCEPT ![a] = w]
  /\ conn' = [conn EXCEPT ![a] = c]
  /\ error' = [error EXCEPT ![a] = shown]

At(pc, todo, cmd, held) == [pc |-> pc, cmd |-> cmd, todo |-> todo, held |-> held]
Rested(a) == IF a = "watch" THEN Idle(actor[a].cmd, actor[a].held) ELSE Idle(NoCmd, 0)

\* The command has failed over c.
FailsOver(a, c) ==
  \E d : /\ Became(a, Rested(a), d, TRUE)
         /\ \/ IsDead(c) /\ d = NoConn /\ late' = late
            \/ ~IsDead(c) /\ GivenUp(c, d)

\* Following goes on over what is left of c.
FollowsOver(a, c, cmd, held) ==
  \E d : GivenUp(c, d) /\ Became(a, At("follow", <<>>, cmd, held), d, FALSE)

LEMMA LeaveIs ==
  ASSUME NEW a, NEW c, Leave(a, c)
  PROVE  \E d : GivenUp(c, d) /\ conn' = [conn EXCEPT ![a] = d]
BY DEF Leave, GivenUp

LEMMA EndWithErrorIs ==
  ASSUME ActorsTyped, NEW a \in Owner, NEW c, EndWithError(a, c)
  PROVE  FailsOver(a, c)
<1>1. actor' = [actor EXCEPT ![a] = Rested(a)] /\ error' = [error EXCEPT ![a] = TRUE]
  BY DEF EndWithError, Rest, Show, Rested, ActorsTyped
<1>2. CASE IsDead(c)
  BY <1>1, <1>2 DEF EndWithError, FailsOver, Became
<1>3. CASE ~IsDead(c)
  BY <1>1, <1>3, LeaveIs DEF EndWithError, FailsOver, Became
<1> QED  BY <1>2, <1>3

\* A watch that returns rests, and keeps its connection unless that is dead.
LEMMA WatchEnds ==
  ASSUME ActorsTyped, NEW c, NEW held, End("watch", c, held)
  PROVE  /\ Became("watch", Idle(actor["watch"].cmd, held), IF IsDead(c) THEN NoConn ELSE c, IsDead(c))
         /\ late' = late
<1>1. actor' = [actor EXCEPT !["watch"] = Idle(actor["watch"].cmd, held)]
  BY DEF End, Rest, ActorsTyped, Owner
<1>2. "watch" = "watch" /\ IsDead(c) <=> IsDead(c)
  OBVIOUS
<1> QED  BY <1>1, <1>2 DEF End, Show, Became, IsDead

\* A notification ends the watch, or changes what it holds.
LEMMA NotifiedIs ==
  ASSUME ActorsTyped, NEW c, NEW f, Notified(c, f)
  PROVE  LET w == actor["watch"]
             own == f.label = w.cmd.label
             held == IF own /\ f.n > w.held THEN f.n ELSE w.held
         IN  \/ own /\ held >= Decided[f.label] /\ End("watch", c, held)
             \/ /\ ~own \/ held < Decided[f.label]
                /\ Became("watch", [w EXCEPT !.held = held], c, error["watch"]) /\ late' = late
<1> DEFINE w == actor["watch"]
           own == f.label = w.cmd.label
           held == IF own /\ f.n > w.held THEN f.n ELSE w.held
<1>1. CASE own /\ held >= Decided[f.label] /\ End("watch", c, held)
  BY <1>1
<1>2. CASE /\ ~own \/ held < Decided[f.label]
           /\ actor' = [actor EXCEPT !["watch"] = [@ EXCEPT !.held = held]]
           /\ conn' = [conn EXCEPT !["watch"] = c]
           /\ UNCHANGED <<error, late>>
  <2>1. actor' = [actor EXCEPT !["watch"] = [w EXCEPT !.held = held]]
    BY <1>2
  <2>2. error' = [error EXCEPT !["watch"] = error["watch"]]
    BY <1>2 DEF ActorsTyped
  <2> QED  BY <1>2, <2>1, <2>2 DEF Became
<1> QED  BY <1>1, <1>2 DEF Notified

LEMMA FollowAndLeave ==
  ASSUME NEW a, NEW c, NEW cmd, NEW held, Follow(a, cmd, held), Leave(a, c)
  PROVE  FollowsOver(a, c, cmd, held)
BY LeaveIs DEF Follow, Go, Show, FollowsOver, Became, At

LEMMA AskComesTo ==
  ASSUME ActorsTyped, NEW a \in Owner, NEW c, NEW todo, NEW cmd, NEW held, Ask(a, c, todo, cmd, held)
  PROVE  \/ /\ todo = <<>> /\ a = "main" /\ late' = late
            /\ Became(a, Idle(NoCmd, 0), c, FALSE)
         \/ /\ todo = <<>> /\ a = "watch" /\ late' = late
            /\ Became(a, At("follow", <<>>, cmd, held), c, FALSE)
         \/ /\ todo # <<>> /\ c.sock = "open" /\ late' = late
            /\ Became(a, At("wait", todo, cmd, held),
                      SendTo(c, [type |-> Head(todo), label |-> cmd.label, late |-> 0]), FALSE)
         \/ /\ todo # <<>> /\ c.sock # "open" /\ Head(todo) = "Previous"
            /\ FollowsOver(a, Refused(c), cmd, held)
         \/ todo # <<>> /\ c.sock # "open" /\ Head(todo) # "Previous" /\ FailsOver(a, Refused(c))
<1>1. CASE todo = <<>> /\ a = "main" /\ End(a, c, held)
  BY <1>1 DEF End, Rest, Show, Became, Rested, Owner
<1>2. CASE /\ todo = <<>> /\ a = "watch" /\ Follow(a, cmd, held)
           /\ conn' = [conn EXCEPT ![a] = c] /\ UNCHANGED late
  BY <1>2 DEF Follow, Go, Show, Became, At
<1>3. CASE /\ todo # <<>> /\ c.sock = "open"
           /\ Go(a, "wait", todo, cmd, held) /\ Show(a, FALSE)
           /\ conn' = [conn EXCEPT ![a] =
                         SendTo(c, [type |-> Head(todo), label |-> cmd.label, late |-> 0])]
           /\ UNCHANGED late
  BY <1>3 DEF Go, Show, Became, At
<1>4. CASE /\ todo # <<>> /\ c.sock # "open" /\ Head(todo) = "Previous"
           /\ Follow(a, cmd, held) /\ Leave(a, Refused(c))
  BY <1>4, FollowAndLeave
<1>5. CASE todo # <<>> /\ c.sock # "open" /\ Head(todo) # "Previous" /\ EndWithError(a, Refused(c))
  BY <1>5, EndWithErrorIs
<1> QED  BY <1>1, <1>2, <1>3, <1>4, <1>5 DEF Ask, Refused

LEMMA BecameTyped ==
  ASSUME ActorsTyped, NEW a \in Owner, NEW w, NEW c, NEW shown \in BOOLEAN, Became(a, w, c, shown),
         AtWork(a, w), Sound(c), Stands(w.pc, c)
  PROVE  ActorsTyped'
<1>1. w \in Work /\ c \in Conn
  BY DEF AtWork, Sound
<1>2. /\ actor' \in [Owner -> Work] /\ conn' \in [Owner -> Conn] /\ error' \in [Owner -> BOOLEAN]
      /\ actor'[a] = w /\ conn'[a] = c
      /\ \A b \in Owner : b # a => actor'[b] = actor[b] /\ conn'[b] = conn[b]
  BY <1>1 DEF Became, ActorsTyped
<1>3. \A b \in Owner : AtWork(b, actor'[b]) /\ Sound(conn'[b]) /\ Stands(actor'[b].pc, conn'[b])
  BY <1>2 DEF ActorsTyped
<1> QED  BY <1>2, <1>3 DEF ActorsTyped, AtWork, Sound, Stands, Planned

LEMMA IdleAtWork ==
  ASSUME NEW a \in Owner, NEW cmd \in Command, NEW held \in Count
  PROVE  AtWork(a, Idle(cmd, held)) /\ Idle(cmd, held).pc = "idle"
<1>1. <<>> \in Seq(Type) /\ \A n \in DOMAIN <<>> : FALSE
  OBVIOUS
<1>2. Idle(cmd, held) = [pc |-> "idle", cmd |-> cmd, todo |-> <<>>, held |-> held]
  BY DEF Idle
<1>3. Planned(a, cmd, <<>>)
  BY <1>1 DEF Planned
<1> QED  BY <1>1, <1>2, <1>3 DEF AtWork, Work

LEMMA RestedAtWork ==
  ASSUME ActorsTyped, NEW a \in Owner
  PROVE  AtWork(a, Rested(a)) /\ Rested(a).pc = "idle"
<1>1. NoCmd \in Command /\ 0 \in Count
  BY Counted DEF NoCmd, Cmd, Command
<1>2. actor[a].cmd \in Command /\ actor[a].held \in Count
  BY DEF ActorsTyped, Work
<1> QED  BY <1>1, <1>2, IdleAtWork DEF Rested
LEMMA FailsTyped ==
  ASSUME WorldTyped, ActorsTyped, NEW a \in Owner, NEW c, Sound(c), c.sock # "opening", FailsOver(a, c)
  PROVE  ActorsTyped' /\ late' \in 0..MaxLate
<1>1. PICK d : /\ Became(a, Rested(a), d, TRUE)
               /\ \/ IsDead(c) /\ d = NoConn /\ late' = late
                  \/ ~IsDead(c) /\ GivenUp(c, d)
  BY DEF FailsOver
<1>2. /\ Sound(d) /\ d.sock # "opening" /\ late' \in 0..MaxLate
  <2>1. CASE d = NoConn /\ late' = late
    BY <2>1, FreshIsSound DEF WorldTyped, NoConn
  <2>2. CASE GivenUp(c, d)
    BY <2>2, GivenUpSound DEF WorldTyped
  <2> QED  BY <1>1, <2>1, <2>2
<1>3. Stands("idle", d)
  BY <1>2 DEF Stands
<1> QED  BY <1>1, <1>2, <1>3, BecameTyped, RestedAtWork

\* A command under way is the actor's own, and a watch is of a game.
LEMMA FollowsTyped ==
  ASSUME WorldTyped, ActorsTyped, NEW a \in Owner, NEW c, Sound(c), c.sock \in {"open", "dead"},
         NEW cmd \in Given(a), cmd.name # "Reconnect", NEW held \in Count,
         FollowsOver(a, c, cmd, held)
  PROVE  ActorsTyped' /\ late' \in 0..MaxLate
<1>1. PICK d : GivenUp(c, d) /\ Became(a, At("follow", <<>>, cmd, held), d, FALSE)
  BY DEF FollowsOver
<1>2. Sound(d) /\ d.sock = c.sock /\ late' \in 0..MaxLate
  BY <1>1, GivenUpSound DEF WorldTyped
<1>3. AtWork(a, At("follow", <<>>, cmd, held))
  <2>1. Planned(a, cmd, <<>>)
    BY DEF Planned
  <2>2. At("follow", <<>>, cmd, held) \in Work
    BY FewInAQueue DEF At, Work, Given
  <2> QED  BY <2>1, <2>2 DEF AtWork, At
<1>4. Stands("follow", d) /\ At("follow", <<>>, cmd, held).pc = "follow"
  BY <1>2 DEF Stands, At
<1> QED  BY <1>1, <1>2, <1>3, <1>4, BecameTyped

LEMMA AskTyped ==
  ASSUME WorldTyped, ActorsTyped, NEW a \in Owner, NEW c, Sound(c), c.sock \in {"open", "dead"},
         NEW cmd \in Given(a), cmd.name # "Reconnect", NEW todo, Planned(a, cmd, todo),
         NEW held \in Count, Ask(a, c, todo, cmd, held)
  PROVE  ActorsTyped' /\ late' \in 0..MaxLate
<1>1. cmd \in Command /\ todo \in Seq(Type) /\ late \in 0..MaxLate /\ 0 \in 0..MaxLate
  BY TransportAssumption DEF Given, Planned, WorldTyped
<1>2. CASE todo = <<>> /\ a = "main" /\ late' = late /\ Became(a, Idle(NoCmd, 0), c, FALSE)
  <2>1. NoCmd \in Command /\ 0 \in Count
    BY Counted DEF NoCmd, Cmd, Command
  <2> QED  BY <1>1, <1>2, <2>1, IdleAtWork, BecameTyped DEF Stands
<1>3. CASE /\ todo = <<>> /\ a = "watch" /\ late' = late
           /\ Became(a, At("follow", <<>>, cmd, held), c, FALSE)
  <2>1. AtWork(a, At("follow", <<>>, cmd, held))
    BY <1>1, <1>3 DEF AtWork, At, Work
  <2>2. Stands(At("follow", <<>>, cmd, held).pc, c)
    BY DEF Stands, At
  <2> QED  BY <1>1, <1>3, <2>1, <2>2, BecameTyped
<1>4. CASE /\ todo # <<>> /\ c.sock = "open" /\ late' = late
           /\ Became(a, At("wait", todo, cmd, held),
                     SendTo(c, [type |-> Head(todo), label |-> cmd.label, late |-> 0]), FALSE)
  <2> DEFINE r == [type |-> Head(todo), label |-> cmd.label, late |-> 0]
  <2>1. Head(todo) = todo[1] /\ 1 \in DOMAIN todo /\ Head(todo) \in Type
    BY <1>1, <1>4, Rest1
  <2>2. r \in Request /\ (r.type \notin {"Register", "Games"} => r.label \in Label)
    BY <1>1, <2>1 DEF Request, Planned, Command
  <2>3. Sound(SendTo(c, r)) /\ SendTo(c, r).sock = "open"
    BY <1>4, <2>2 DEF SendTo, Sound, Conn
  <2>4. AtWork(a, At("wait", todo, cmd, held)) /\ Stands(At("wait", todo, cmd, held).pc, SendTo(c, r))
    BY <1>1, <1>4, <2>3 DEF AtWork, At, Work, Stands
  <2> QED  BY <1>1, <1>4, <2>3, <2>4, BecameTyped
<1>5. CASE c.sock # "open" /\ FollowsOver(a, Refused(c), cmd, held)
  BY <1>5, RefusedSound, FollowsTyped
<1>6. CASE c.sock # "open" /\ FailsOver(a, Refused(c))
  BY <1>6, RefusedSound, FailsTyped
<1> QED  BY <1>2, <1>3, <1>4, <1>5, <1>6, AskComesTo
-----------------------------------------------------------------------------
(* Every variable has its type.                                            *)

LEMMA FrameParts ==
  ASSUME NEW f \in Frame
  PROVE  /\ f.kind = "update" => f.label \in Label /\ f.n \in Count
         /\ IsAnswer(f) => f \in Answer
         /\ \A type : Fits(type, f) => f \in Answer /\ f.label \in Label \cup {"none"} /\ f.n \in Count
BY DEF Frame, Answer, IsAnswer, Fits

LEMMA TakenTyped ==
  ASSUME CmdsTyped(cmds), NEW a \in Owner, cmds[a] # <<>>
  PROVE  CmdsTyped([cmds EXCEPT ![a] = Tail(@)]) /\ Head(cmds[a]) \in Given(a)
<1>1. cmds[a] \in Seq(Given(a)) /\ cmds[a] \in Seq(Command)
  BY DEF CmdsTyped
<1>2. Tail(cmds[a]) \in Seq(Given(a)) /\ Tail(cmds[a]) \in Seq(Command) /\ Head(cmds[a]) \in Given(a)
  BY <1>1, Rest1
<1> QED  BY <1>2 DEF CmdsTyped

LEMMA ToldTyped ==
  ASSUME NEW q, CmdsTyped(q), NEW cmd \in Given("watch")
  PROVE  CmdsTyped([q EXCEPT !.watch = Append(@, cmd)])
<1>1. q["watch"] \in Seq(Given("watch")) /\ q["watch"] \in Seq(Command) /\ cmd \in Command
  BY DEF CmdsTyped, Owner, Given
<1>2. Append(q["watch"], cmd) \in Seq(Given("watch")) /\ Append(q["watch"], cmd) \in Seq(Command)
  BY <1>1, OneMore
<1> QED  BY <1>2 DEF CmdsTyped, Owner

LEMMA BeginTyped ==
  ASSUME WorldTyped, ActorsTyped, UserTyped, NEW a \in Owner, NEW c, Sound(c), c.sock \in {"open", "dead"},
         NEW cmd \in Given(a), cmd.name # "Reconnect", NEW queue, CmdsTyped(queue),
         Begin(a, cmd, c, queue)
  PROVE  /\ ActorsTyped' /\ late' \in 0..MaxLate /\ CmdsTyped(cmds')
         /\ view' \in [label : Label \cup {"none"}, of : Label \cup {"none"}]
<1>1. ActorsTyped' /\ late' \in 0..MaxLate
  BY Counted, ProgramPlanned, AskTyped DEF Begin
<1>2. CmdsTyped(cmds')
  <2>1. CASE a = "main" /\ cmd.name = "Watch"
    <3>1. cmd \in Given("watch")
      BY <2>1 DEF Given
    <3> QED  BY <2>1, <3>1, ToldTyped DEF Begin
  <2> QED  BY <2>1 DEF Begin
<1>3. view' \in [label : Label \cup {"none"}, of : Label \cup {"none"}]
  BY DEF Begin, UserTyped, NoView
<1> QED  BY <1>1, <1>2, <1>3

LEMMA Unchanged ==
  ASSUME WorldTyped, UNCHANGED <<game, url, deaths>>, late' \in 0..MaxLate
  PROVE  WorldTyped'
BY DEF WorldTyped

LEMMA TakeTyped ==
  ASSUME TypeInv, NEW a \in Owner, Take(a)
  PROVE  TypeInv'
<1> DEFINE cmd == Head(cmds[a])
           queue == [cmds EXCEPT ![a] = Tail(@)]
<1>1. WorldTyped /\ ActorsTyped /\ UserTyped
  BY DEF TypeInv
<1>2. CmdsTyped(queue) /\ cmd \in Given(a) /\ cmd \in Command
  BY <1>1, TakenTyped DEF Take, UserTyped, Given
<1>3. NoCmd \in Command /\ 0 \in Count
  BY Counted DEF NoCmd, Cmd, Command
<1>4. late \in 0..MaxLate /\ url \in Url
  BY <1>1 DEF WorldTyped
<1>5. actor[a].pc = "idle" /\ Sound(conn[a]) /\ Stands("idle", conn[a])
  BY <1>1 DEF Take, ActorsTyped
<1>6. CASE /\ cmd.name = "Reconnect"
           /\ conn' = [conn EXCEPT ![a] = NoConn]
           /\ actor' = [actor EXCEPT ![a] = Idle(NoCmd, 0)] /\ Show(a, FALSE)
           /\ PassOn(a, queue)
           /\ UNCHANGED <<late, view>>
  <2>1. Became(a, Idle(NoCmd, 0), NoConn, FALSE)
    BY <1>6 DEF Became, Show
  <2>2. Stands("idle", NoConn) /\ Sound(NoConn)
    BY <1>4, FreshIsSound DEF Stands, NoConn
  <2>3. ActorsTyped'
    BY <1>1, <1>3, <2>1, <2>2, IdleAtWork, BecameTyped
  <2>4. Cmd("Reconnect", "none") \in Given("watch")
    BY DEF Given, Cmd, Command, OfGame
  <2>5. CmdsTyped(cmds')
    BY <1>2, <1>6, <2>4, ToldTyped DEF PassOn
  <2> QED  BY <1>1, <1>4, <1>6, <2>3, <2>5, Unchanged DEF TypeInv, Take, UserTyped
<1>7. CASE /\ cmd.name # "Reconnect" /\ conn[a].sock = "none"
           /\ conn' = [conn EXCEPT ![a] = Opening]
           /\ Go(a, "connect", <<>>, cmd, 0) /\ Show(a, FALSE)
           /\ cmds' = queue
           /\ UNCHANGED <<late, view>>
  <2>1. Became(a, At("connect", <<>>, cmd, 0), Opening, FALSE)
    BY <1>7 DEF Became, Show, Go, At
  <2>2. Stands("connect", Opening) /\ Sound(Opening)
    BY <1>4, FreshIsSound DEF Stands, Opening, NoConn
  <2>3. At("connect", <<>>, cmd, 0) \in Work /\ Planned(a, cmd, <<>>)
    BY <1>2, <1>3, FewInAQueue DEF At, Work, Planned
  <2>4. AtWork(a, At("connect", <<>>, cmd, 0)) /\ At("connect", <<>>, cmd, 0).pc = "connect"
    BY <1>2, <1>7, <2>3 DEF AtWork, At
  <2>5. ActorsTyped'
    BY <1>1, <2>1, <2>2, <2>4, BecameTyped
  <2> QED  BY <1>1, <1>2, <1>4, <1>7, <2>5, Unchanged DEF TypeInv, Take, UserTyped
<1>8. CASE cmd.name # "Reconnect" /\ conn[a].sock # "none" /\ Begin(a, cmd, conn[a], queue)
  <2>1. conn[a].sock \in {"open", "dead"}
    BY <1>5, <1>8 DEF Stands, Sound, Conn
  <2> QED  BY <1>1, <1>2, <1>5, <1>8, <2>1, BeginTyped, Unchanged DEF TypeInv, Take, UserTyped
<1> QED  BY <1>6, <1>7, <1>8 DEF Take
\* An actor that waits has a command of its own, and a socket.
LEMMA Waiting ==
  ASSUME ActorsTyped, NEW a \in Owner, actor[a].pc = "wait"
  PROVE  /\ actor[a].todo # <<>> /\ Planned(a, actor[a].cmd, actor[a].todo)
         /\ actor[a].cmd \in Given(a) /\ actor[a].cmd \in Command /\ actor[a].cmd.name # "Reconnect"
         /\ actor[a].held \in Count /\ Sound(conn[a]) /\ conn[a].sock \in {"open", "dead"}
<1>1. AtWork(a, actor[a]) /\ Sound(conn[a]) /\ Stands("wait", conn[a])
  BY DEF ActorsTyped
<1> QED  BY <1>1 DEF AtWork, Work, Given, Stands, Sound, Conn

LEMMA ConnectTyped ==
  ASSUME TypeInv, NEW a \in Owner, Connect(a)
  PROVE  TypeInv'
<1>1. WorldTyped /\ ActorsTyped /\ UserTyped /\ late \in 0..MaxLate /\ url \in Url
  BY DEF TypeInv, WorldTyped
<1>2. AtWork(a, actor[a]) /\ Sound(conn[a]) /\ Stands("connect", conn[a]) /\ actor[a].pc = "connect"
  BY <1>1 DEF Connect, ActorsTyped
<1>3. actor[a].cmd \in Given(a) /\ actor[a].cmd.name # "Reconnect"
  BY <1>2 DEF AtWork
<1>4. CASE Ask(a, [conn[a] EXCEPT !.sock = "open"], <<"Register">>, actor[a].cmd, 0)
  <2>1. Sound([conn[a] EXCEPT !.sock = "open"]) /\ [conn[a] EXCEPT !.sock = "open"].sock = "open"
    <3>1. conn[a] \in Conn /\ conn[a].inbox = <<>> /\ conn[a].pending = <<>> /\ conn[a].sent = {}
          /\ conn[a].sock = "opening" /\ ~conn[a].closed
      BY <1>2 DEF Sound, Stands, Conn
    <3>2. \A n \in DOMAIN <<>> : FALSE
      OBVIOUS
    <3> QED  BY <3>1, <3>2 DEF Sound, Conn
  <2>2. Planned(a, actor[a].cmd, <<"Register">>)
    BY DEF Planned, Type
  <2>3. ActorsTyped' /\ late' \in 0..MaxLate
    BY <1>1, <1>3, <1>4, <2>1, <2>2, Counted, AskTyped
  <2> QED  BY <1>1, <2>3, Unchanged DEF TypeInv, Connect, UserTyped
<1>5. CASE EndWithError(a, NoConn)
  <2>1. ActorsTyped' /\ late' \in 0..MaxLate
    BY <1>1, <1>5, EndWithErrorIs, FailsTyped, FreshIsSound DEF NoConn
  <2> QED  BY <1>1, <2>1, Unchanged DEF TypeInv, Connect, UserTyped
<1> QED  BY <1>4, <1>5 DEF Connect

LEMMA FailTyped ==
  ASSUME TypeInv, NEW a \in Owner, actor[a].pc = "wait",
         NEW c, Sound(c), c.sock \in {"open", "dead"}, Fail(a, c)
  PROVE  ActorsTyped' /\ late' \in 0..MaxLate /\ UNCHANGED <<cmds, view>>
<1>1. WorldTyped /\ ActorsTyped /\ url \in Url
  BY DEF TypeInv, WorldTyped
<1>2. /\ actor[a].cmd \in Given(a) /\ actor[a].cmd.name # "Reconnect" /\ actor[a].held \in Count
  BY <1>1, Waiting
<1>3. CASE EndWithError(a, NoConn)
  BY <1>1, <1>3, EndWithErrorIs, FailsTyped, FreshIsSound DEF Fail, NoConn
<1>4. CASE Follow(a, actor[a].cmd, actor[a].held) /\ Leave(a, c)
  BY <1>1, <1>2, <1>4, FollowAndLeave, FollowsTyped DEF Fail
<1>5. CASE EndWithError(a, c)
  BY <1>1, <1>5, EndWithErrorIs, FailsTyped DEF Fail
<1> QED  BY <1>3, <1>4, <1>5 DEF Fail

LEMMA EndTyped ==
  ASSUME TypeInv, NEW c, Sound(c), c.sock # "opening", NEW held \in Count, End("watch", c, held)
  PROVE  ActorsTyped' /\ late' \in 0..MaxLate
<1> DEFINE w == Idle(actor["watch"].cmd, held)
           d == IF IsDead(c) THEN NoConn ELSE c
<1>1. WorldTyped /\ ActorsTyped /\ late \in 0..MaxLate /\ url \in Url /\ "watch" \in Owner
  BY DEF TypeInv, WorldTyped, Owner
<1>2. Became("watch", w, d, IsDead(c)) /\ late' = late
  BY <1>1, WatchEnds
<1>3. Sound(d) /\ Stands("idle", d) /\ IsDead(c) \in BOOLEAN
  BY <1>1, FreshIsSound DEF Stands, NoConn, IsDead, Sound, Conn
<1>4. AtWork("watch", w) /\ w.pc = "idle"
  BY <1>1, IdleAtWork DEF ActorsTyped, Work
<1> QED  BY <1>1, <1>2, <1>3, <1>4, BecameTyped

LEMMA AcceptTyped ==
  ASSUME TypeInv, NEW a \in Owner, actor[a].pc = "wait",
         NEW c, Sound(c), c.sock \in {"open", "dead"},
         NEW f, f.label \in Label \cup {"none"}, f.n \in Count,
         \/ a = "main" /\ AcceptForMain(c, f, actor[a].cmd, actor[a].todo)
         \/ a = "watch" /\ AcceptForWatch(c, f, actor[a].cmd, actor[a].todo)
  PROVE  /\ ActorsTyped' /\ late' \in 0..MaxLate
         /\ view' \in [label : Label \cup {"none"}, of : Label \cup {"none"}]
<1> DEFINE cmd == actor[a].cmd
           todo == actor[a].todo
<1>1. WorldTyped /\ ActorsTyped /\ UserTyped /\ late \in 0..MaxLate
  BY DEF TypeInv, WorldTyped
<1>2. /\ cmd \in Given(a) /\ cmd \in Command /\ cmd.name # "Reconnect" /\ actor[a].held \in Count
      /\ Planned(a, cmd, Tail(todo)) /\ cmd.label \in Label \cup {"none"}
  BY <1>1, Waiting, StillPlanned DEF Command
<1>3. CASE a = "main"
  <2>1. view' \in [label : Label \cup {"none"}, of : Label \cup {"none"}]
    BY <1>1, <1>2, <1>3 DEF AcceptForMain, UserTyped
  <2>2. Ask("main", c, Tail(todo), cmd, 0) \/ EndWithError("main", c)
    BY <1>3 DEF AcceptForMain
  <2> QED  BY <1>1, <1>2, <1>3, <2>1, <2>2, Counted, AskTyped, EndWithErrorIs, FailsTyped
<1>4. CASE a = "watch"
  <2> DEFINE held == IF f.n > actor["watch"].held THEN f.n ELSE actor["watch"].held
             news == \/ Head(todo) = "Get"
                     \/ Head(todo) = "Subscribe" /\ held # actor["watch"].held
  <2>1. held \in Count
    BY <1>2, <1>4
  <2>2. view' \in [label : Label \cup {"none"}, of : Label \cup {"none"}]
    <3>1. view' \in {view, [view EXCEPT !.of = f.label]}
      BY <1>4 DEF AcceptForWatch, Report
    <3> QED  BY <1>1, <3>1 DEF UserTyped
  <2>3. CASE End("watch", c, held)
    BY <2>1, <2>2, <2>3, EndTyped
  <2>4. CASE Ask("watch", c, Tail(todo), cmd, held)
    BY <1>1, <1>2, <1>4, <2>1, <2>2, <2>4, AskTyped
  <2> QED  BY <1>4, <2>3, <2>4 DEF AcceptForWatch
<1> QED  BY <1>3, <1>4 DEF Owner
LEMMA ReceiveTyped ==
  ASSUME TypeInv, NEW a \in Owner, Receive(a)
  PROVE  TypeInv'
<1> DEFINE f == Head(conn[a].inbox)
           todo == actor[a].todo
<1>1. WorldTyped /\ ActorsTyped /\ UserTyped /\ late \in 0..MaxLate
  BY DEF TypeInv, WorldTyped
<1>2. /\ actor[a].pc = "wait" /\ conn[a].inbox # <<>> /\ AtWork(a, actor[a]) /\ Stands("wait", conn[a])
      /\ actor[a].cmd \in Given(a) /\ actor[a].cmd.name # "Reconnect"
      /\ Sound(conn[a]) /\ conn[a].sock \in {"open", "dead"} /\ error[a] \in BOOLEAN
  BY <1>1, Waiting DEF Receive, ActorsTyped
<1>3. f \in Frame /\ Sound(Read(conn[a])) /\ Read(conn[a]).sock = conn[a].sock
  BY <1>2, ReadIs
<1>4. CASE /\ f.kind = "update"
           /\ conn' = [conn EXCEPT ![a] = Park(@, f)]
           /\ UNCHANGED <<late, actor, error, cmds, view>>
  <2>1. Became(a, actor[a], Park(conn[a], f), error[a])
    BY <1>1, <1>4 DEF Became, ActorsTyped
  <2>2. Sound(Park(conn[a], f)) /\ Stands("wait", Park(conn[a], f))
    BY <1>2, <1>4, ParkSound DEF Stands
  <2>3. ActorsTyped'
    BY <1>1, <1>2, <2>1, <2>2, BecameTyped
  <2> QED  BY <1>1, <1>4, <2>3, Unchanged DEF TypeInv, Receive, UserTyped
<1>5. CASE Fits(Head(todo), f) /\ Begin(a, actor[a].cmd, Read(conn[a]), cmds)
  BY <1>1, <1>2, <1>3, <1>5, BeginTyped, Unchanged DEF TypeInv, Receive, UserTyped
<1>6. CASE /\ Fits(Head(todo), f)
           /\ IF a = "main" THEN AcceptForMain(Read(conn[a]), f, actor[a].cmd, todo)
                            ELSE AcceptForWatch(Read(conn[a]), f, actor[a].cmd, todo)
           /\ UNCHANGED cmds
  <2>1. f.label \in Label \cup {"none"} /\ f.n \in Count
    BY <1>3, <1>6, FrameParts
  <2>2. \/ a = "main" /\ AcceptForMain(Read(conn[a]), f, actor[a].cmd, todo)
        \/ a = "watch" /\ AcceptForWatch(Read(conn[a]), f, actor[a].cmd, todo)
    BY <1>6 DEF Owner
  <2>3. /\ ActorsTyped' /\ late' \in 0..MaxLate
        /\ view' \in [label : Label \cup {"none"}, of : Label \cup {"none"}]
    BY <1>2, <1>3, <2>1, <2>2, AcceptTyped
  <2> QED  BY <1>1, <1>6, <2>3, Unchanged DEF TypeInv, Receive, UserTyped
<1>7. CASE Fail(a, Read(conn[a]))
  BY <1>1, <1>2, <1>3, <1>7, FailTyped, Unchanged DEF TypeInv, Receive, UserTyped
<1> QED  BY <1>4, <1>5, <1>6, <1>7 DEF Receive

LEMMA TimeoutTyped ==
  ASSUME TypeInv, NEW a \in Owner, Timeout(a)
  PROVE  TypeInv'
<1>1. WorldTyped /\ ActorsTyped /\ UserTyped
  BY DEF TypeInv
<1>2. actor[a].pc = "wait" /\ Sound(conn[a]) /\ conn[a].sock \in {"open", "dead"}
  BY <1>1, Waiting DEF Timeout
<1> QED  BY <1>1, <1>2, FailTyped, Unchanged DEF TypeInv, Timeout, UserTyped

LEMMA CancelTyped ==
  ASSUME TypeInv, Cancel
  PROVE  TypeInv'
<1>1. WorldTyped /\ ActorsTyped /\ UserTyped /\ late \in 0..MaxLate /\ url \in Url /\ "watch" \in Owner
  BY DEF TypeInv, WorldTyped, Owner
<1>2. Became("watch", Rested("watch"), NoConn, error["watch"]) /\ error["watch"] \in BOOLEAN
  BY <1>1 DEF Became, Cancel, Rest, Rested, ActorsTyped
<1>3. Sound(NoConn) /\ Stands("idle", NoConn)
  BY <1>1, FreshIsSound DEF Stands, NoConn
<1>4. ActorsTyped'
  BY <1>1, <1>2, <1>3, RestedAtWork, BecameTyped
<1> QED  BY <1>1, <1>4, Unchanged DEF TypeInv, Cancel, UserTyped

\* The next of what was parked.
LEMMA UnparkIs ==
  ASSUME NEW c, Sound(c), c.pending # <<>>
  PROVE  /\ Sound([c EXCEPT !.pending = Tail(@)])
         /\ Head(c.pending) \in Frame /\ Head(c.pending).kind = "update"
<1> DEFINE d == [c EXCEPT !.pending = Tail(@)]
<1>1. c \in Conn /\ c.pending \in Seq(Frame)
  BY DEF Sound, Conn
<1>2. /\ Tail(c.pending) \in Seq(Frame) /\ Head(c.pending) \in Frame
      /\ Head(c.pending) = c.pending[1] /\ 1 \in DOMAIN c.pending
      /\ \A n \in DOMAIN Tail(c.pending) : n + 1 \in DOMAIN c.pending /\ Tail(c.pending)[n] = c.pending[n + 1]
  BY <1>1, Rest1
<1>3. /\ d \in Conn /\ d.inbox = c.inbox /\ d.sock = c.sock /\ d.closed = c.closed
      /\ d.sent = c.sent /\ d.ready = c.ready /\ d.subs = c.subs /\ d.pending = Tail(c.pending)
  BY <1>1, <1>2 DEF Conn
<1> QED  BY <1>2, <1>3 DEF Sound

\* A watch that is under way goes on or rests.
LEMMA NotifiedTyped ==
  ASSUME TypeInv, actor["watch"].pc = "follow", NEW c, Sound(c), c.sock \in {"open", "dead"},
         NEW f \in Frame, f.kind = "update", Notified(c, f)
  PROVE  /\ ActorsTyped' /\ late' \in 0..MaxLate
         /\ view' \in [label : Label \cup {"none"}, of : Label \cup {"none"}]
<1> DEFINE w == actor["watch"]
           held == IF f.label = w.cmd.label /\ f.n > w.held THEN f.n ELSE w.held
<1>1. WorldTyped /\ ActorsTyped /\ UserTyped /\ late \in 0..MaxLate /\ "watch" \in Owner
  BY DEF TypeInv, WorldTyped, Owner
<1>2. AtWork("watch", w) /\ w.held \in Count /\ f.label \in Label /\ f.n \in Count
      /\ error["watch"] \in BOOLEAN /\ w \in Work /\ held \in Count
  BY <1>1, FrameParts DEF ActorsTyped, AtWork, Work
<1>3. view' \in [label : Label \cup {"none"}, of : Label \cup {"none"}]
  <2>1. view' \in {view, [view EXCEPT !.of = f.label]}
    BY DEF Notified, Report
  <2> QED  BY <1>1, <1>2, <2>1 DEF UserTyped
<1>4. CASE End("watch", c, held)
  BY <1>2, <1>3, <1>4, EndTyped
<1>5. CASE Became("watch", [w EXCEPT !.held = held], c, error["watch"]) /\ late' = late
  <2>1. AtWork("watch", [w EXCEPT !.held = held]) /\ [w EXCEPT !.held = held].pc = "follow"
    BY <1>2 DEF AtWork, Work
  <2> QED  BY <1>1, <1>2, <1>3, <1>5, <2>1, BecameTyped DEF Stands
<1> QED  BY <1>1, <1>4, <1>5, NotifiedIs

LEMMA NextUpdateTyped ==
  ASSUME TypeInv, NextUpdate
  PROVE  TypeInv'
<1> DEFINE c == conn["watch"]
           f == Head(c.inbox)
<1>1. WorldTyped /\ ActorsTyped /\ UserTyped /\ late \in 0..MaxLate /\ "watch" \in Owner
  BY DEF TypeInv, WorldTyped, Owner
<1>2. /\ actor["watch"].pc = "follow" /\ Sound(c) /\ c.sock \in {"open", "dead"}
      /\ AtWork("watch", actor["watch"]) /\ error["watch"] \in BOOLEAN /\ actor["watch"].held \in Count
  BY <1>1 DEF NextUpdate, ActorsTyped, Stands, Sound, Conn, Work
<1>3. CASE c.pending # <<>> /\ Notified([c EXCEPT !.pending = Tail(@)], Head(c.pending))
  <2>1. [c EXCEPT !.pending = Tail(@)].sock = c.sock
    BY <1>2 DEF Sound, Conn
  <2>2. Sound([c EXCEPT !.pending = Tail(@)]) /\ Head(c.pending) \in Frame /\ Head(c.pending).kind = "update"
    BY <1>2, <1>3, UnparkIs
  <2> QED  BY <1>1, <1>2, <1>3, <2>1, <2>2, NotifiedTyped, Unchanged DEF TypeInv, NextUpdate, UserTyped
<1>4. CASE UNCHANGED view /\ End("watch", c, actor["watch"].held)
  BY <1>1, <1>2, <1>4, EndTyped, Unchanged DEF TypeInv, NextUpdate, UserTyped
<1>5. ASSUME c.inbox # <<>>
      PROVE  Sound(Read(c)) /\ Read(c).sock = c.sock /\ f \in Frame
  BY <1>2, <1>5, ReadIs
<1>6. CASE c.inbox # <<>> /\ f.kind = "update" /\ Notified(Read(c), f)
  BY <1>1, <1>2, <1>5, <1>6, NotifiedTyped, Unchanged DEF TypeInv, NextUpdate, UserTyped
<1>7. CASE c.inbox # <<>> /\ UNCHANGED view /\ End("watch", Read(c), actor["watch"].held)
  BY <1>1, <1>2, <1>5, <1>7, EndTyped, Unchanged DEF TypeInv, NextUpdate, UserTyped
<1>8. CASE c.inbox # <<>> /\ conn' = [conn EXCEPT !["watch"] = Read(c)] /\ UNCHANGED <<actor, error, late, view>>
  <2>1. Became("watch", actor["watch"], Read(c), error["watch"])
    BY <1>1, <1>8 DEF Became, ActorsTyped
  <2>2. ActorsTyped'
    BY <1>1, <1>2, <1>5, <1>8, <2>1, BecameTyped DEF Stands
  <2> QED  BY <1>1, <1>8, <2>2, Unchanged DEF TypeInv, NextUpdate, UserTyped
<1> QED  BY <1>3, <1>4, <1>6, <1>7, <1>8 DEF NextUpdate
-----------------------------------------------------------------------------
(* What the node does, and the user.                                       *)

\* A change is told over open sockets only, by one more notification.
News(l, n) == [kind |-> "update", label |-> l, n |-> n]
Told(c, f) == [c EXCEPT !.inbox = Append(@, f)]

LEMMA ToldIs ==
  ASSUME NEW c, Sound(c), NEW f \in Frame, f.kind \in {"closed", "garbled"} => c.sock = "dead"
  PROVE  /\ Sound(Told(c, f)) /\ Told(c, f) \in Conn /\ Told(c, f).inbox = Append(c.inbox, f)
         /\ Told(c, f).sock = c.sock /\ Told(c, f).closed = c.closed /\ Told(c, f).sent = c.sent
         /\ Told(c, f).ready = c.ready /\ Told(c, f).subs = c.subs
         /\ Told(c, f).pending = c.pending /\ Told(c, f).url = c.url
<1>1. c \in Conn /\ Sound(Told(c, f))
  BY PushSound DEF Told, Sound
<1> QED  BY <1>1 DEF Told, Conn, Sound

LEMMA Notifies ==
  ASSUME NEW l, NEW n, NEW cs, Notify(l, n, cs), NEW a \in Owner
  PROVE  \/ conn'[a] = cs[a] /\ ~(cs[a].sock = "open" /\ l \in cs[a].subs)
         \/ cs[a].sock = "open" /\ l \in cs[a].subs /\ conn'[a] = Told(cs[a], News(l, n))
BY DEF Notify, Told, News

LEMMA NewsTyped ==
  ASSUME NEW l \in Label, NEW n \in Count
  PROVE  News(l, n) \in Frame /\ News(l, n).kind = "update"
BY DEF News, Frame

LEMMA NotifySound ==
  ASSUME NEW l \in Label, NEW n \in Count, NEW cs \in [Owner -> Conn], Notify(l, n, cs),
         \A a \in Owner : Sound(cs[a])
  PROVE  /\ conn' \in [Owner -> Conn]
         /\ \A a \in Owner : /\ Sound(conn'[a])
                             /\ conn'[a] = cs[a] \/ (cs[a].sock = "open" /\ conn'[a].sock = "open")
<1>1. ASSUME NEW a \in Owner
      PROVE  /\ Sound(conn'[a]) /\ conn'[a] \in Conn
             /\ conn'[a] = cs[a] \/ (cs[a].sock = "open" /\ conn'[a].sock = "open")
  <2>1. Sound(Told(cs[a], News(l, n))) /\ Told(cs[a], News(l, n)).sock = cs[a].sock
    BY NewsTyped, ToldIs
  <2>2. conn'[a] = cs[a] \/ (cs[a].sock = "open" /\ conn'[a] = Told(cs[a], News(l, n)))
    BY Notifies
  <2> QED  BY <2>1, <2>2 DEF Sound
<1>2. conn' = [a \in Owner |-> conn'[a]]
  BY DEF Notify
<1> QED  BY <1>1, <1>2

\* An answer carries what the node has of a game that is asked for.
LEMMA AnswerTyped ==
  ASSUME WorldTyped, NEW r \in Request, r.type \notin {"Register", "Games"} => r.label \in Label,
         NEW kind \in {"answer", "missing", "failed"}
  PROVE  AnswerTo(r, kind) \in Answer /\ AnswerTo(r, kind) \in Frame
<1>1. r.type \in {"Get", "Subscribe"} => game[r.label] \in Count
  BY Counted DEF WorldTyped
<1> QED  BY <1>1, Counted DEF AnswerTo, Answer, Frame, Request

\* The node acts over open sockets only.
LEMMA ByTheNode ==
  ASSUME ActorsTyped, UNCHANGED <<actor, error>>, conn' \in [Owner -> Conn],
         \A a \in Owner : /\ Sound(conn'[a])
                          /\ \/ conn'[a] = conn[a]
                             \/ conn[a].sock = "open" /\ conn'[a].sock \in {"open", "dead"}
  PROVE  ActorsTyped'
<1>1. \A a \in Owner : Stands(actor[a].pc, conn'[a])
  BY DEF ActorsTyped, Stands
<1> QED  BY <1>1 DEF ActorsTyped, AtWork, Sound, Stands, Planned

\* An answer is given, whatever it says.
Replied(a, r, kind) == [conn EXCEPT ![a].sent = @ \ {r}, ![a].inbox = Append(@, AnswerTo(r, kind))]

LEMMA Answered ==
  ASSUME ActorsTyped, WorldTyped, NEW a \in Owner, NEW r \in conn[a].sent,
         NEW kind \in {"answer", "missing", "failed"},
         NEW cs, cs = Replied(a, r, kind)
  PROVE  /\ cs \in [Owner -> Conn] /\ \A b \in Owner : Sound(cs[b])
         /\ cs[a].sent = conn[a].sent \ {r} /\ cs[a].inbox = Append(conn[a].inbox, AnswerTo(r, kind))
         /\ cs[a].ready = conn[a].ready /\ cs[a].subs = conn[a].subs
         /\ cs[a].pending = conn[a].pending
         /\ conn[a].sock = "open" /\ cs[a].sock = "open" /\ \A b \in Owner : b # a => cs[b] = conn[b]
<1> DEFINE c == conn[a]
           f == AnswerTo(r, kind)
           d == Told(c, f)
<1>1. Sound(c) /\ c \in Conn /\ r \in Request /\ c.sock = "open" /\ conn \in [Owner -> Conn]
  BY DEF ActorsTyped, Sound, Conn
<1>2. f \in Frame /\ f.kind = kind
  BY <1>1, AnswerTyped DEF Sound, AnswerTo
<1>3. /\ Sound(d) /\ d.sock = "open" /\ d.inbox = Append(c.inbox, f) /\ d.sent = c.sent
      /\ d.ready = c.ready /\ d.subs = c.subs /\ d.pending = c.pending /\ d \in Conn
  BY <1>1, <1>2, ToldIs
<1>4. cs[a] = [d EXCEPT !.sent = @ \ {r}] /\ cs = [conn EXCEPT ![a] = [d EXCEPT !.sent = @ \ {r}]]
  BY <1>1 DEF Conn, Replied, Told
<1> HIDE DEF d
<1>5. /\ Sound(cs[a]) /\ cs[a].sock = "open" /\ cs[a].sent = c.sent \ {r}
      /\ cs[a].inbox = Append(c.inbox, f) /\ cs[a].ready = c.ready /\ cs[a].subs = c.subs
      /\ cs[a].pending = c.pending
  BY <1>1, <1>3, <1>4 DEF Sound, Conn
<1>6. cs \in [Owner -> Conn] /\ \A b \in Owner : b # a => cs[b] = conn[b]
  BY <1>1, <1>4, <1>5 DEF Sound
<1> QED  BY <1>1, <1>5, <1>6 DEF ActorsTyped

LEMMA NodeAnswersTyped ==
  ASSUME TypeInv, NEW a \in Owner, NEW r \in conn[a].sent, NodeAnswers(a, r), UNCHANGED browserVars
  PROVE  TypeInv'
<1>1. WorldTyped /\ ActorsTyped /\ UserTyped /\ Sound(conn[a]) /\ r \in Request
      /\ UNCHANGED <<url, deaths, late>>
  BY DEF TypeInv, ActorsTyped, Sound, Conn, NodeAnswers
<1>2. ASSUME NEW kind \in {"answer", "failed", "missing"}, conn' = Replied(a, r, kind), UNCHANGED game
      PROVE  TypeInv'
  <2>0. PICK cs : cs = Replied(a, r, kind)
    OBVIOUS
  <2>1. /\ cs \in [Owner -> Conn] /\ \A b \in Owner : Sound(cs[b])
        /\ conn[a].sock = "open" /\ cs[a].sock = "open" /\ \A b \in Owner : b # a => cs[b] = conn[b]
    BY <1>1, <2>0, Answered
  <2>2. ActorsTyped'
    BY <1>1, <1>2, <2>0, <2>1, ByTheNode DEF browserVars
  <2> QED  BY <1>1, <1>2, <2>2 DEF TypeInv, WorldTyped, UserTyped, browserVars
<1>3. CASE /\ r.type = "Update" /\ game[r.label] < Decided[r.label]
           /\ game' = [game EXCEPT ![r.label] = @ + 1]
           /\ Notify(r.label, game[r.label] + 1, Replied(a, r, "answer"))
  <2>1. r.label \in Label
    BY <1>1, <1>3 DEF Sound
  <2>2. /\ game \in [Label -> Nat] /\ game[r.label] \in Nat /\ Decided[r.label] \in Nat
        /\ game[r.label] + 1 \in Nat /\ game[r.label] + 1 <= Decided[r.label]
    <3>1. game \in [Label -> Nat] /\ Decided \in [Label -> Nat]
      BY <1>1, TransportAssumption DEF WorldTyped
    <3>2. game[r.label] \in Nat /\ Decided[r.label] \in Nat /\ game[r.label] < Decided[r.label]
      BY <1>3, <2>1, <3>1
    <3> QED  BY <3>1, <3>2
  <2>9. game[r.label] + 1 \in Count
    BY <2>1, <2>2, Counted
  <2>3. WorldTyped'
    BY <1>1, <1>3, <2>1, <2>2 DEF WorldTyped
  <2>4. PICK cs : cs = Replied(a, r, "answer")
    OBVIOUS
  <2>5. /\ cs \in [Owner -> Conn] /\ \A b \in Owner : Sound(cs[b])
        /\ conn[a].sock = "open" /\ cs[a].sock = "open"
        /\ \A b \in Owner : b # a => cs[b] = conn[b]
    BY <1>1, <2>4, Answered
  <2>6. conn' \in [Owner -> Conn]
        /\ \A b \in Owner : /\ Sound(conn'[b])
                            /\ conn'[b] = cs[b] \/ (cs[b].sock = "open" /\ conn'[b].sock = "open")
    BY <1>3, <2>1, <2>9, <2>4, <2>5, NotifySound
  <2>7. \A b \in Owner : /\ Sound(conn'[b])
                         /\ conn'[b] = conn[b] \/ (conn[b].sock = "open" /\ conn'[b].sock \in {"open", "dead"})
    BY <2>5, <2>6
  <2>10. conn' \in [Owner -> Conn]
    BY <2>6
  <2>8. ActorsTyped'
    BY <1>1, <2>7, <2>10, ByTheNode DEF browserVars
  <2> QED  BY <1>1, <2>3, <2>8 DEF TypeInv, UserTyped, browserVars
<1> QED  BY <1>2, <1>3 DEF NodeAnswers, Replied

LEMMA NodeSubscribesTyped ==
  ASSUME TypeInv, NEW a \in Owner, NEW r \in conn[a].sent, NodeSubscribes(a, r), UNCHANGED browserVars
  PROVE  TypeInv'
<1> DEFINE c == conn[a]
           f == AnswerTo(r, "answer")
           d == [c EXCEPT !.sent = @ \ {r}, !.subs = @ \cup {r.label}, !.ready = @ \cup {f}]
<1>1. WorldTyped /\ ActorsTyped /\ UserTyped /\ Sound(c) /\ r \in Request /\ c \in Conn
      /\ UNCHANGED <<game, url, deaths, late>> /\ r.type = "Subscribe" /\ c.sock = "open"
  BY DEF TypeInv, ActorsTyped, Sound, Conn, NodeSubscribes
<1>2. r.label \in Label /\ f \in Answer
  BY <1>1, AnswerTyped DEF Sound
<1>3. conn' = [conn EXCEPT ![a] = d]
  BY <1>1 DEF NodeSubscribes, ActorsTyped
<1>4. Sound(d) /\ d.sock = "open"
  BY <1>1, <1>2 DEF Sound, Conn
<1>5. conn' \in [Owner -> Conn] /\ conn'[a] = d /\ \A b \in Owner : b # a => conn'[b] = conn[b]
  BY <1>1, <1>3, <1>4 DEF ActorsTyped, Sound
<1>6. \A b \in Owner : /\ Sound(conn'[b])
                       /\ conn'[b] = conn[b] \/ (conn[b].sock = "open" /\ conn'[b].sock \in {"open", "dead"})
  BY <1>1, <1>4, <1>5 DEF ActorsTyped
<1>7. ActorsTyped'
  BY <1>1, <1>5, <1>6, ByTheNode DEF browserVars
<1> QED  BY <1>1, <1>7 DEF TypeInv, WorldTyped, UserTyped, browserVars

LEMMA NodeHasSubscribedTyped ==
  ASSUME TypeInv, NEW a \in Owner, NEW f \in conn[a].ready, NodeHasSubscribed(a, f), UNCHANGED browserVars
  PROVE  TypeInv'
<1> DEFINE c == conn[a]
           b1 == [c EXCEPT !.inbox = Append(@, f)]
           d == [b1 EXCEPT !.ready = @ \ {f}]
<1>1. WorldTyped /\ ActorsTyped /\ UserTyped /\ Sound(c) /\ f \in Answer /\ c \in Conn
      /\ UNCHANGED <<game, url, deaths, late>> /\ c.sock = "open"
  BY DEF TypeInv, ActorsTyped, Sound, Conn, NodeHasSubscribed
<1>2. f \in Frame /\ f.kind \notin {"closed", "garbled"}
  BY <1>1 DEF Frame, Answer
<1>3. conn' = [conn EXCEPT ![a] = d]
  BY <1>1 DEF NodeHasSubscribed, ActorsTyped, Conn
<1>4. Sound(b1) /\ b1.sock = "open"
  BY <1>1, <1>2, PushSound DEF Conn
<1>5. Sound(d) /\ d.sock = "open"
  BY <1>4 DEF Sound, Conn
<1>6. conn' \in [Owner -> Conn] /\ conn'[a] = d /\ \A b \in Owner : b # a => conn'[b] = conn[b]
  BY <1>1, <1>3, <1>5 DEF ActorsTyped, Sound
<1>7. \A b \in Owner : /\ Sound(conn'[b])
                       /\ conn'[b] = conn[b] \/ (conn[b].sock = "open" /\ conn'[b].sock \in {"open", "dead"})
  BY <1>1, <1>5, <1>6 DEF ActorsTyped
<1>8. ActorsTyped'
  BY <1>1, <1>6, <1>7, ByTheNode DEF browserVars
<1> QED  BY <1>1, <1>8 DEF TypeInv, WorldTyped, UserTyped, browserVars

LEMMA SocketDiesTyped ==
  ASSUME TypeInv, NEW a \in Owner, SocketDies(a), UNCHANGED browserVars
  PROVE  TypeInv'
<1> DEFINE c == conn[a]
           b1 == [c EXCEPT !.sock = "dead", !.sent = {}, !.ready = {}, !.subs = {}]
           f == [kind |-> "closed"]
           d == Told(b1, f)
<1>1. WorldTyped /\ ActorsTyped /\ UserTyped /\ Sound(c) /\ c \in Conn
      /\ UNCHANGED <<game, url, late>> /\ c.sock = "open"
  BY DEF TypeInv, ActorsTyped, Sound, SocketDies
<1>2. WorldTyped'
  BY <1>1, TransportAssumption DEF WorldTyped, SocketDies
<1>3. conn' = [conn EXCEPT ![a] = d]
  BY <1>1 DEF SocketDies, ActorsTyped, Conn, Told
<1>4. Sound(b1) /\ b1.sock = "dead"
  BY <1>1 DEF Sound, Conn
<1>5. f \in Frame
  BY DEF Frame
<1>6. Sound(d) /\ d.sock = "dead"
  BY <1>4, <1>5, ToldIs
<1>7. conn' \in [Owner -> Conn] /\ conn'[a] = d /\ \A b \in Owner : b # a => conn'[b] = conn[b]
  BY <1>1, <1>3, <1>6 DEF ActorsTyped, Sound
<1>8. \A b \in Owner : /\ Sound(conn'[b])
                       /\ conn'[b] = conn[b] \/ (conn[b].sock = "open" /\ conn'[b].sock \in {"open", "dead"})
  BY <1>1, <1>6, <1>7 DEF ActorsTyped
<1>9. ActorsTyped'
  BY <1>1, <1>7, <1>8, ByTheNode DEF browserVars
<1> QED  BY <1>1, <1>2, <1>9 DEF TypeInv, UserTyped, browserVars

LEMMA OpponentMovesTyped ==
  ASSUME TypeInv, NEW l \in Label, OpponentMoves(l), UNCHANGED browserVars
  PROVE  TypeInv'
<1>1. WorldTyped /\ ActorsTyped /\ UserTyped /\ UNCHANGED <<url, deaths, late>>
      /\ conn \in [Owner -> Conn] /\ \A b \in Owner : Sound(conn[b])
  BY DEF TypeInv, ActorsTyped, OpponentMoves
<1>2. game[l] + 1 \in Nat /\ game[l] + 1 <= Decided[l] /\ game' = [game EXCEPT ![l] = game[l] + 1]
  BY <1>1, TransportAssumption DEF OpponentMoves, WorldTyped
<1>3. game[l] + 1 \in Count
  BY <1>2, Counted
<1>4. WorldTyped'
  BY <1>1, <1>2 DEF WorldTyped
<1>5. Notify(l, game[l] + 1, conn)
  BY DEF OpponentMoves
<1>6. /\ conn' \in [Owner -> Conn]
      /\ \A b \in Owner : /\ Sound(conn'[b])
                          /\ conn'[b] = conn[b] \/ (conn[b].sock = "open" /\ conn'[b].sock \in {"open", "dead"})
  BY <1>1, <1>3, <1>5, NotifySound
<1>7. conn' \in [Owner -> Conn]
  BY <1>6
<1>8. ActorsTyped'
  <2>1. \A b \in Owner : /\ Sound(conn'[b])
                         /\ conn'[b] = conn[b] \/ (conn[b].sock = "open" /\ conn'[b].sock \in {"open", "dead"})
    BY <1>6
  <2> QED  BY <1>1, <1>7, <2>1, ByTheNode DEF browserVars
<1> QED  BY <1>1, <1>4, <1>8 DEF TypeInv, UserTyped, browserVars

LEMMA WorldStepTyped ==
  ASSUME TypeInv, World, UNCHANGED browserVars
  PROVE  TypeInv'
BY OpponentMovesTyped, NodeAnswersTyped, NodeSubscribesTyped, NodeHasSubscribedTyped, SocketDiesTyped
   DEF World

LEMMA UserStepTyped ==
  ASSUME TypeInv, User
  PROVE  TypeInv'
<1>1. /\ WorldTyped /\ ActorsTyped /\ UserTyped
      /\ UNCHANGED <<game, conn, deaths, late, actor, view, error>>
  BY DEF TypeInv, User, Click, Move, Retry, RetryWatch, Settings, transportVars
<1>2. asked' \in 0..MaxAsked
  <2>1. asked < MaxAsked /\ asked' = asked + 1
    BY DEF User, Click, Move, Retry, RetryWatch, Settings, AskedFor
  <2> QED  BY <1>1, <2>1, BrowserAssumption DEF UserTyped
<1>3. /\ url' \in Url /\ screen' \in Label \cup {"none"}
  BY <1>1 DEF WorldTyped, UserTyped, User, Click, Move, Retry, RetryWatch, Settings, transportVars, Url
<1>4. PICK s : s \in Seq(Given("main")) /\ s \in Seq(Command) /\ Tell(s)
  <2>1. ASSUME NEW cmd \in Given("main") PROVE <<cmd>> \in Seq(Given("main")) /\ <<cmd>> \in Seq(Command)
    BY <2>1 DEF Given
  <2>2. ASSUME NEW l \in Label, Click(l)
        PROVE  \E s : s \in Seq(Given("main")) /\ s \in Seq(Command) /\ Tell(s)
    <3>1. Cmd("Open", l) \in Given("main") /\ Cmd("Watch", l) \in Given("main")
      BY DEF Cmd, Given, Command, OfGame
    <3>2. <<Cmd("Open", l), Cmd("Watch", l)>> \in Seq(Given("main"))
          /\ <<Cmd("Open", l), Cmd("Watch", l)>> \in Seq(Command)
      BY <3>1 DEF Given
    <3> QED  BY <2>2, <3>2 DEF Click
  <2>3. ASSUME NEW cmd \in Given("main"), Tell(<<cmd>>)
        PROVE  \E s : s \in Seq(Given("main")) /\ s \in Seq(Command) /\ Tell(s)
    BY <2>1, <2>3
  <2>4. /\ Cmd("ListGames", "none") \in Given("main") /\ Cmd("Reconnect", "none") \in Given("main")
        /\ \A l \in Label : Cmd("Play", l) \in Given("main") /\ Cmd("Watch", l) \in Given("main")
    BY DEF Cmd, Given, Command, OfGame
  <2>5. screen # "none" => screen \in Label
    BY <1>1 DEF UserTyped
  <2> QED  BY <2>2, <2>3, <2>4, <2>5 DEF User, Move, Retry, RetryWatch, Settings
<1>5. CmdsTyped(cmds')
  <2>1. /\ cmds["main"] \in Seq(Given("main")) /\ cmds["main"] \in Seq(Command)
        /\ cmds' = [cmds EXCEPT !["main"] = cmds["main"] \o s]
    BY <1>1, <1>4 DEF UserTyped, CmdsTyped, Owner, Tell
  <2>2. cmds["main"] \o s \in Seq(Given("main")) /\ cmds["main"] \o s \in Seq(Command)
    BY <1>4, <2>1, ConcatProperties
  <2> QED  BY <1>1, <2>1, <2>2 DEF UserTyped, CmdsTyped, Owner
<1> QED  BY <1>1, <1>2, <1>3, <1>5 DEF TypeInv, WorldTyped, ActorsTyped, UserTyped, AtWork, Sound, Stands, Planned

\* A record with a field for each owner is a function of the owner.
LEMMA OneEach ==
  ASSUME NEW x, NEW y
  PROVE  [main |-> x, watch |-> y] = [a \in Owner |-> IF a = "main" THEN x ELSE y]
BY Z3 DEF Owner

LEMMA EachTyped ==
  ASSUME NEW S, NEW x \in S, NEW y \in S
  PROVE  [main |-> x, watch |-> y] \in [Owner -> S]
BY DEF Owner

LEMMA InitTypeInv == BrowserInit => TypeInv
<1> SUFFICES ASSUME BrowserInit PROVE TypeInv
  OBVIOUS
<1>1. WorldTyped
  BY TransportAssumption DEF BrowserInit, Init, WorldTyped, Url
<1>2. ActorsTyped
  <2>1. NoCmd \in Command /\ 0 \in Count
    BY Counted DEF NoCmd, Cmd, Command
  <2>2. \A a \in Owner : AtWork(a, Idle(NoCmd, 0)) /\ Idle(NoCmd, 0).pc = "idle"
    BY <2>1, IdleAtWork
  <2>3. Sound(NoConn) /\ Stands("idle", NoConn)
    BY <1>1, FreshIsSound DEF WorldTyped, Stands, NoConn
  <2>4. error \in [Owner -> BOOLEAN]
    BY EachTyped, Zenon DEF BrowserInit
  <2>5. actor \in [Owner -> {Idle(NoCmd, 0)}] /\ conn \in [Owner -> {NoConn}]
    BY DEF BrowserInit, Init
  <2> QED  BY <2>2, <2>3, <2>4, <2>5 DEF ActorsTyped, AtWork, Sound
<1>3. UserTyped
  <2>1. <<Cmd("ListGames", "none")>> \in Seq(Given("main")) /\ <<Cmd("ListGames", "none")>> \in Seq(Command)
    <3>1. Cmd("ListGames", "none") \in Given("main") /\ Cmd("ListGames", "none") \in Command
      BY DEF Given, Cmd, Command, OfGame
    <3> QED  BY <3>1
  <2>2. CmdsTyped(cmds)
    <3>1. cmds = [a \in Owner |-> IF a = "main" THEN <<Cmd("ListGames", "none")>> ELSE <<>>]
      BY OneEach DEF BrowserInit
    <3> QED  BY <2>1, <3>1, FewInAQueue DEF CmdsTyped, Owner
  <2> QED  BY <2>2, BrowserAssumption DEF BrowserInit, UserTyped, NoView
<1> QED  BY <1>1, <1>2, <1>3 DEF TypeInv

LEMMA NextTypeInv == TypeInv /\ [Next]_vars => TypeInv'
<1> SUFFICES ASSUME TypeInv, [Next]_vars PROVE TypeInv'
  OBVIOUS
<1>1. CASE User
  BY <1>1, UserStepTyped
<1>2. CASE World /\ UNCHANGED browserVars
  BY <1>2, WorldStepTyped
<1>3. ASSUME NEW a \in Owner, Step(a) PROVE TypeInv'
  BY <1>3, TakeTyped, ConnectTyped, ReceiveTyped, TimeoutTyped, CancelTyped, NextUpdateTyped DEF Step
<1>4. CASE UNCHANGED vars
  BY <1>4 DEF vars, transportVars, browserVars, TypeInv, WorldTyped, ActorsTyped, UserTyped,
              AtWork, Sound, Stands, Planned, CmdsTyped
<1> QED  BY <1>1, <1>2, <1>3, <1>4 DEF Next

\* The browser keeps every variable of its type: in particular an actor waits exactly
\* while it has a request left, and a connection takes itself for closed only when its
\* socket has died.
THEOREM BrowserTypeCorrect == Spec => []TypeOK
<1>1. TypeInv => TypeOK
  BY DEF TypeInv, WorldTyped, ActorsTyped, UserTyped, AtWork, Work, Sound, CmdsTyped, TypeOK, TransportTypeOK
<1> QED  BY InitTypeInv, NextTypeInv, <1>1, PTL DEF Spec
-----------------------------------------------------------------------------
(* An answer is to what is waited for, as long as none comes late.         *)

NoAnswers(c) == \A n \in DOMAIN c.inbox : ~IsAnswer(c.inbox[n])
Quiet(c) == c.sent = {} /\ c.ready = {} /\ NoAnswers(c)

\* At most one request of that type for that label is out, or its answer.
Due(c, label, type) ==
  /\ \A r, s \in c.sent : r = s
  /\ \A f, g \in c.ready : f = g
  /\ \A m, n \in DOMAIN c.inbox : IsAnswer(c.inbox[m]) /\ IsAnswer(c.inbox[n]) => m = n
  /\ c.sent # {} => c.ready = {} /\ NoAnswers(c)
  /\ c.ready # {} => NoAnswers(c)
  /\ \A r \in c.sent : r.label = label /\ r.type = type
  /\ \A f \in c.ready : f.label = label /\ f.to = type
  /\ \A n \in DOMAIN c.inbox :
       IsAnswer(c.inbox[n]) => c.inbox[n].label = label /\ c.inbox[n].to = type

\* After a close, or after what could not be sent, no answer comes.
Final(f) == f.kind \in {"closed", "garbled"}
LastWord(c) == \A m, n \in DOMAIN c.inbox : m < n /\ Final(c.inbox[m]) => ~IsAnswer(c.inbox[n])

NoneLate(c) == (\A r \in c.sent : r.late = 0) /\ (\A f \in c.ready : f.late = 0)

OwnOnly(w, c) ==
  /\ NoneLate(c) /\ LastWord(c)
  /\ w.pc # "wait" => Quiet(c)
  /\ w.pc = "wait" => Due(c, w.cmd.label, Head(w.todo))

OwnInv == late = 0 => \A a \in Owner : OwnOnly(actor[a], conn[a])

\* What is given up and does not come late does not come at all.
LEMMA GivenUpQuiet ==
  ASSUME late = 0, late' = 0, NEW c \in Conn, NoneLate(c), NoAnswers(c), NEW d, GivenUp(c, d)
  PROVE  Quiet(d) /\ NoneLate(d) /\ LastWord(d)
<1>1. d = NeverAnswered(c)
  BY DEF GivenUp
<1>2. Late(c.sent) = {} /\ Late(c.ready) = {}
  BY DEF Late, NoneLate
<1>3. d.sent = {} /\ d.ready = {} /\ d.inbox = c.inbox
  BY <1>1, <1>2 DEF NeverAnswered, Conn
<1> QED  BY <1>3 DEF Quiet, NoAnswers, NoneLate, LastWord

LEMMA QuietIsOwn ==
  ASSUME NEW w, NEW c, Quiet(c), w.pc # "wait"
  PROVE  OwnOnly(w, c)
BY DEF OwnOnly, Quiet, NoAnswers, NoneLate, LastWord

LEMMA NoConnIsQuiet == Quiet(NoConn) /\ Quiet(Opening)
<1>1. NoConn.inbox = <<>> /\ Opening.inbox = <<>> /\ \A n \in DOMAIN <<>> : FALSE
  BY DEF NoConn, Opening
<1> QED  BY <1>1 DEF Quiet, NoAnswers, NoConn, Opening

LEMMA RefusedHasNoAnswers ==
  ASSUME NEW c \in Conn, NoAnswers(c), NoneLate(c)
  PROVE  Refused(c) \in Conn /\ NoAnswers(Refused(c)) /\ NoneLate(Refused(c))
<1> DEFINE f == [kind |-> "garbled"]
<1>1. f \in Frame /\ c.inbox \in Seq(Frame) /\ ~IsAnswer(f)
  BY DEF Frame, Conn, IsAnswer
<1>2. /\ Append(c.inbox, f) \in Seq(Frame) /\ Append(c.inbox, f)[Len(c.inbox) + 1] = f
      /\ \A n \in DOMAIN c.inbox : Append(c.inbox, f)[n] = c.inbox[n]
      /\ \A n \in DOMAIN Append(c.inbox, f) : n \in DOMAIN c.inbox \/ n = Len(c.inbox) + 1
  BY <1>1, OneMore
<1>3. /\ Refused(c) \in Conn /\ Refused(c).inbox = Append(c.inbox, f)
      /\ Refused(c).sent = c.sent /\ Refused(c).ready = c.ready
  BY <1>1, <1>2 DEF Refused, Conn
<1> QED  BY <1>1, <1>2, <1>3 DEF NoAnswers, NoneLate

LEMMA FailsOwn ==
  ASSUME late = 0, late' = 0, ActorsTyped, NEW a \in Owner,
         NEW c \in Conn, NoneLate(c), NoAnswers(c), FailsOver(a, c)
  PROVE  OwnOnly(actor'[a], conn'[a])
<1>1. PICK d : /\ Became(a, Rested(a), d, TRUE)
               /\ \/ IsDead(c) /\ d = NoConn /\ late' = late
                  \/ ~IsDead(c) /\ GivenUp(c, d)
  BY DEF FailsOver
<1>2. Quiet(d)
  BY <1>1, GivenUpQuiet, NoConnIsQuiet
<1>3. actor'[a] = Rested(a) /\ conn'[a] = d /\ Rested(a).pc = "idle"
  BY <1>1, RestedAtWork DEF Became, ActorsTyped
<1> QED  BY <1>2, <1>3, QuietIsOwn

LEMMA FollowsOwn ==
  ASSUME late = 0, late' = 0, ActorsTyped, NEW a \in Owner, NEW cmd, NEW held,
         NEW c \in Conn, NoneLate(c), NoAnswers(c), FollowsOver(a, c, cmd, held)
  PROVE  OwnOnly(actor'[a], conn'[a])
<1>1. PICK d : GivenUp(c, d) /\ Became(a, At("follow", <<>>, cmd, held), d, FALSE)
  BY DEF FollowsOver
<1>2. Quiet(d)
  BY <1>1, GivenUpQuiet
<1>3. actor'[a].pc = "follow" /\ conn'[a] = d
  BY <1>1 DEF Became, ActorsTyped, At
<1> QED  BY <1>2, <1>3, QuietIsOwn

\* A request is made over a connection on which nothing else is out.
LEMMA AskOwn ==
  ASSUME late = 0, late' = 0, ActorsTyped, NEW a \in Owner, NEW c \in Conn, Quiet(c),
         NEW todo, NEW cmd, NEW held, Ask(a, c, todo, cmd, held)
  PROVE  OwnOnly(actor'[a], conn'[a])
<1>1. NoneLate(c) /\ NoAnswers(c) /\ LastWord(c)
  BY DEF Quiet, NoneLate, NoAnswers, LastWord
<1>2. CASE Became(a, Idle(NoCmd, 0), c, FALSE)
  BY <1>2, QuietIsOwn DEF Became, ActorsTyped, Idle
<1>3. CASE Became(a, At("follow", <<>>, cmd, held), c, FALSE)
  BY <1>3, QuietIsOwn DEF Became, ActorsTyped, At
<1>4. CASE Became(a, At("wait", todo, cmd, held),
                  SendTo(c, [type |-> Head(todo), label |-> cmd.label, late |-> 0]), FALSE)
  <2> DEFINE r == [type |-> Head(todo), label |-> cmd.label, late |-> 0]
  <2>1. actor'[a] = At("wait", todo, cmd, held) /\ conn'[a] = SendTo(c, r)
    BY <1>4 DEF Became, ActorsTyped
  <2>2. /\ SendTo(c, r).sent = {r} /\ SendTo(c, r).ready = {} /\ SendTo(c, r).inbox = c.inbox
    BY DEF SendTo, Conn, Quiet
  <2>3. /\ At("wait", todo, cmd, held).pc = "wait" /\ At("wait", todo, cmd, held).cmd = cmd
        /\ At("wait", todo, cmd, held).todo = todo
    BY DEF At
  <2>4. Due(SendTo(c, r), cmd.label, Head(todo))
    BY <1>1, <2>2 DEF Due, NoAnswers
  <2> QED  BY <1>1, <2>1, <2>2, <2>3, <2>4 DEF OwnOnly, NoneLate, LastWord
<1>5. CASE FollowsOver(a, Refused(c), cmd, held)
  BY <1>1, <1>5, RefusedHasNoAnswers, FollowsOwn
<1>6. CASE FailsOver(a, Refused(c))
  BY <1>1, <1>6, RefusedHasNoAnswers, FailsOwn
<1> QED  BY <1>2, <1>3, <1>4, <1>5, <1>6, AskComesTo

\* A step of one actor leaves the other's connection alone, and gives up one request
\* at most.
Apart(a) ==
  /\ \A b \in Owner \ {a} : actor'[b] = actor[b] /\ conn'[b] = conn[b] /\ error'[b] = error[b]
  /\ late' = late \/ late' = late + 1

LEMMA FailsApart ==
  ASSUME ActorsTyped, NEW a \in Owner, NEW c, FailsOver(a, c)
  PROVE  Apart(a)
BY DEF FailsOver, Became, GivenUp, ActorsTyped, Apart

LEMMA FollowsApart ==
  ASSUME ActorsTyped, NEW a \in Owner, NEW c, NEW cmd, NEW held, FollowsOver(a, c, cmd, held)
  PROVE  Apart(a)
BY DEF FollowsOver, Became, GivenUp, ActorsTyped, Apart

LEMMA AskApart ==
  ASSUME ActorsTyped, NEW a \in Owner, NEW c, NEW todo, NEW cmd, NEW held, Ask(a, c, todo, cmd, held)
  PROVE  Apart(a)
<1>1. ASSUME NEW w, NEW d, NEW shown, Became(a, w, d, shown), late' = late PROVE Apart(a)
  BY <1>1 DEF Became, ActorsTyped, Apart
<1> QED  BY <1>1, AskComesTo, FailsApart, FollowsApart

LEMMA FailApart ==
  ASSUME ActorsTyped, NEW a \in Owner, NEW c, Fail(a, c)
  PROVE  Apart(a)
BY EndWithErrorIs, FailsApart, FollowAndLeave, FollowsApart DEF Fail

LEMMA EndApart ==
  ASSUME ActorsTyped, NEW c, NEW held, End("watch", c, held)
  PROVE  Apart("watch")
BY WatchEnds DEF Became, ActorsTyped, Apart

LEMMA NotifiedApart ==
  ASSUME ActorsTyped, NEW c, NEW f, Notified(c, f)
  PROVE  Apart("watch")
BY NotifiedIs, EndApart DEF Became, ActorsTyped, Apart

LEMMA StepApart ==
  ASSUME ActorsTyped, NEW a \in Owner, Step(a)
  PROVE  Apart(a)
<1>1. CASE Take(a)
  <2>1. ASSUME NEW w, NEW c, conn' = [conn EXCEPT ![a] = c], actor' = [actor EXCEPT ![a] = w],
               Show(a, FALSE), UNCHANGED late
        PROVE  Apart(a)
    BY <2>1 DEF ActorsTyped, Apart, Show
  <2> QED  BY <1>1, <2>1, AskApart DEF Take, Go, Begin
<1>2. CASE Connect(a)
  BY <1>2, AskApart, EndWithErrorIs, FailsApart DEF Connect
<1>3. CASE Receive(a)
  <2> DEFINE f == Head(conn[a].inbox)
  <2>1. CASE conn' = [conn EXCEPT ![a] = Park(@, f)] /\ UNCHANGED <<late, actor, error, cmds, view>>
    BY <2>1 DEF ActorsTyped, Apart
  <2>2. CASE Begin(a, actor[a].cmd, Read(conn[a]), cmds)
    BY <2>2, AskApart DEF Begin
  <2>3. CASE a = "main" /\ AcceptForMain(Read(conn[a]), f, actor[a].cmd, actor[a].todo)
    BY <2>3, AskApart, EndWithErrorIs, FailsApart DEF AcceptForMain
  <2>4. CASE a = "watch" /\ AcceptForWatch(Read(conn[a]), f, actor[a].cmd, actor[a].todo)
    <3>1. ASSUME NEW held, End("watch", Read(conn[a]), held) PROVE Apart(a)
      BY <2>4, <3>1, EndApart
    <3> QED  BY <2>4, <3>1, AskApart DEF AcceptForWatch
  <2>5. CASE Fail(a, Read(conn[a]))
    BY <2>5, FailApart
  <2> QED  BY <1>3, <2>1, <2>2, <2>3, <2>4, <2>5 DEF Receive, Owner
<1>4. CASE Timeout(a)
  BY <1>4, FailApart DEF Timeout
<1>5. CASE a = "watch" /\ Cancel
  BY <1>5 DEF Cancel, Rest, ActorsTyped, Apart
<1>6. CASE a = "watch" /\ NextUpdate
  <2>1. CASE conn' = [conn EXCEPT !["watch"] = Read(conn["watch"])] /\ UNCHANGED <<actor, error, late, view>>
    BY <1>6, <2>1 DEF ActorsTyped, Apart
  <2> QED  BY <1>6, <2>1, NotifiedApart, EndApart DEF NextUpdate
<1> QED  BY <1>1, <1>2, <1>3, <1>4, <1>5, <1>6 DEF Step

LEMMA FrameKinds ==
  ASSUME NEW f \in Frame
  PROVE  /\ IsAnswer(f) \/ f.kind = "update" \/ Final(f)
         /\ f.kind = "update" => ~IsAnswer(f)
         /\ \A type : Fits(type, f) => IsAnswer(f)
BY DEF Frame, Answer, IsAnswer, Final, Fits

\* The answer read, nothing is out; and after anything else but a notification, what
\* is out is not answered.
LEMMA ReadOwn ==
  ASSUME NEW w, NEW c, OwnOnly(w, c), w.pc = "wait", Sound(c), c.inbox # <<>>,
         Head(c.inbox).kind # "update"
  PROVE  /\ IsAnswer(Head(c.inbox)) => Quiet(Read(c))
         /\ NoneLate(Read(c)) /\ NoAnswers(Read(c)) /\ Read(c) \in Conn
<1> DEFINE f == Head(c.inbox)
<1>1. /\ Read(c).inbox = Tail(c.inbox) /\ Read(c).sent = c.sent /\ Read(c).ready = c.ready
      /\ f \in Frame /\ Read(c) \in Conn
  BY ReadIs DEF Sound
<1>2. /\ f = c.inbox[1] /\ 1 \in DOMAIN c.inbox
      /\ \A n \in DOMAIN Tail(c.inbox) : /\ n + 1 \in DOMAIN c.inbox /\ n + 1 > 1
                                         /\ Tail(c.inbox)[n] = c.inbox[n + 1]
  BY Rest1 DEF Sound, Conn
<1>3. NoneLate(c) /\ LastWord(c) /\ Due(c, w.cmd.label, Head(w.todo))
  BY DEF OwnOnly
<1>4. NoneLate(Read(c))
  BY <1>1, <1>3 DEF NoneLate
<1>5. CASE IsAnswer(f)
  <2>1. c.sent = {} /\ c.ready = {}
    BY <1>2, <1>3, <1>5 DEF Due, NoAnswers
  <2>2. ASSUME NEW n \in DOMAIN Tail(c.inbox) PROVE ~IsAnswer(Tail(c.inbox)[n])
    BY <1>2, <1>3, <1>5 DEF Due
  <2> QED  BY <1>1, <1>4, <2>1, <2>2 DEF Quiet, NoAnswers
<1>6. CASE Final(f)
  <2>1. ASSUME NEW n \in DOMAIN Tail(c.inbox) PROVE ~IsAnswer(Tail(c.inbox)[n])
    BY <1>2, <1>3, <1>6 DEF LastWord
  <2> QED  BY <1>1, <1>4, <1>6, <2>1 DEF NoAnswers, Final, IsAnswer
<1> QED  BY <1>1, <1>5, <1>6, FrameKinds

\* Taking the first from an inbox leaves an actor with no more than it had.
LEMMA LessOwn ==
  ASSUME NEW w, NEW c \in Conn, OwnOnly(w, c), c.inbox # <<>>,
         NEW d, d.inbox = Tail(c.inbox), d.sent = c.sent, d.ready = c.ready
  PROVE  OwnOnly(w, d)
<1>1. /\ DOMAIN Tail(c.inbox) = 1..(Len(c.inbox) - 1) /\ DOMAIN c.inbox = 1..Len(c.inbox)
      /\ Len(c.inbox) \in Nat
      /\ \A n \in DOMAIN Tail(c.inbox) : n + 1 \in DOMAIN c.inbox /\ Tail(c.inbox)[n] = c.inbox[n + 1]
  BY Rest1 DEF Conn
<1>2. LastWord(d)
  <2> SUFFICES ASSUME NEW m \in DOMAIN Tail(c.inbox), NEW n \in DOMAIN Tail(c.inbox),
                      m < n, Final(Tail(c.inbox)[m])
               PROVE  ~IsAnswer(Tail(c.inbox)[n])
    BY DEF LastWord
  <2>1. m + 1 < n + 1
    BY <1>1
  <2> QED  BY <1>1, <2>1 DEF OwnOnly, LastWord
<1>3. NoneLate(d) /\ (NoAnswers(c) => NoAnswers(d))
  BY <1>1 DEF OwnOnly, NoneLate, NoAnswers
<1>4. ASSUME w.pc = "wait" PROVE Due(d, w.cmd.label, Head(w.todo))
  <2>1. Due(c, w.cmd.label, Head(w.todo))
    BY <1>4 DEF OwnOnly
  <2>2. ASSUME NEW m \in DOMAIN Tail(c.inbox), NEW n \in DOMAIN Tail(c.inbox),
               IsAnswer(Tail(c.inbox)[m]), IsAnswer(Tail(c.inbox)[n])
        PROVE  m = n
    <3>1. m + 1 = n + 1
      BY <1>1, <2>1, <2>2 DEF Due
    <3> QED  BY <1>1, <3>1
  <2> QED  BY <1>1, <1>3, <2>1, <2>2 DEF Due
<1> QED  BY <1>2, <1>3, <1>4 DEF OwnOnly, Quiet

LEMMA TakeOwn ==
  ASSUME TypeInv, late = 0, late' = 0, NEW a \in Owner, OwnOnly(actor[a], conn[a]), Take(a)
  PROVE  OwnOnly(actor'[a], conn'[a])
<1>1. ActorsTyped /\ actor[a].pc = "idle" /\ Quiet(conn[a]) /\ conn[a] \in Conn
  BY DEF TypeInv, Take, OwnOnly, ActorsTyped
<1>2. ASSUME conn' = [conn EXCEPT ![a] = NoConn], actor' = [actor EXCEPT ![a] = Idle(NoCmd, 0)]
      PROVE  OwnOnly(actor'[a], conn'[a])
  BY <1>1, <1>2, QuietIsOwn, NoConnIsQuiet DEF ActorsTyped, Idle
<1>3. ASSUME NEW cmd, conn' = [conn EXCEPT ![a] = Opening], Go(a, "connect", <<>>, cmd, 0)
      PROVE  OwnOnly(actor'[a], conn'[a])
  BY <1>1, <1>3, QuietIsOwn, NoConnIsQuiet DEF ActorsTyped, Go
<1> QED  BY <1>1, <1>2, <1>3, AskOwn DEF Take, Begin

LEMMA ConnectOwn ==
  ASSUME TypeInv, late = 0, late' = 0, NEW a \in Owner, OwnOnly(actor[a], conn[a]), Connect(a)
  PROVE  OwnOnly(actor'[a], conn'[a])
<1> DEFINE c == [conn[a] EXCEPT !.sock = "open"]
<1>1. ActorsTyped /\ Quiet(conn[a]) /\ conn[a] \in Conn
  BY DEF TypeInv, Connect, OwnOnly, ActorsTyped
<1>2. c \in Conn /\ c.sent = conn[a].sent /\ c.ready = conn[a].ready /\ c.inbox = conn[a].inbox
  BY <1>1 DEF Conn
<1>3. Quiet(c)
  BY <1>1, <1>2 DEF Quiet, NoAnswers
<1>4. NoConn \in Conn /\ NoneLate(NoConn) /\ NoAnswers(NoConn)
  BY FreshIsSound, NoConnIsQuiet DEF TypeInv, WorldTyped, Sound, Quiet, NoneLate
<1>5. CASE Ask(a, c, <<"Register">>, actor[a].cmd, 0)
  BY <1>1, <1>2, <1>3, <1>5, AskOwn
<1>6. CASE EndWithError(a, NoConn)
  BY <1>1, <1>4, <1>6, EndWithErrorIs, FailsOwn
<1> QED  BY <1>5, <1>6 DEF Connect

LEMMA FailOwn ==
  ASSUME TypeInv, late = 0, late' = 0, NEW a \in Owner,
         NEW c \in Conn, NoneLate(c), NoAnswers(c), Fail(a, c)
  PROVE  OwnOnly(actor'[a], conn'[a])
<1>1. ActorsTyped
  BY DEF TypeInv
<1>2. NoConn \in Conn /\ NoneLate(NoConn) /\ NoAnswers(NoConn)
  BY FreshIsSound, NoConnIsQuiet DEF TypeInv, WorldTyped, Sound, Quiet, NoneLate
<1>3. CASE EndWithError(a, NoConn)
  BY <1>1, <1>2, <1>3, EndWithErrorIs, FailsOwn
<1>4. CASE Follow(a, actor[a].cmd, actor[a].held) /\ Leave(a, c)
  <2>1. FollowsOver(a, c, actor[a].cmd, actor[a].held)
    BY <1>4, FollowAndLeave
  <2> QED  BY <1>1, <2>1, FollowsOwn
<1>5. CASE EndWithError(a, c)
  BY <1>1, <1>5, EndWithErrorIs, FailsOwn
<1> QED  BY <1>3, <1>4, <1>5 DEF Fail

LEMMA EndOwn ==
  ASSUME ActorsTyped, NEW c, Quiet(c), NEW held, End("watch", c, held)
  PROVE  OwnOnly(actor'["watch"], conn'["watch"])
<1>1. /\ actor'["watch"] = Idle(actor["watch"].cmd, held)
      /\ conn'["watch"] = IF IsDead(c) THEN NoConn ELSE c
  BY WatchEnds DEF Became, ActorsTyped, Owner
<1>2. Quiet(conn'["watch"]) /\ actor'["watch"].pc # "wait"
  BY <1>1, NoConnIsQuiet DEF Idle
<1> QED  BY <1>2, QuietIsOwn

LEMMA ReceiveOwn ==
  ASSUME TypeInv, late = 0, late' = 0, NEW a \in Owner, OwnOnly(actor[a], conn[a]), Receive(a)
  PROVE  OwnOnly(actor'[a], conn'[a])
<1> DEFINE c == conn[a]
           f == Head(c.inbox)
           todo == actor[a].todo
<1>1. /\ ActorsTyped /\ actor[a].pc = "wait" /\ c.inbox # <<>> /\ Sound(c) /\ c \in Conn /\ f \in Frame
      /\ actor \in [Owner -> Work] /\ conn \in [Owner -> Conn]
  BY ReadIs DEF TypeInv, Receive, ActorsTyped
<1>2. CASE f.kind = "update" /\ conn' = [conn EXCEPT ![a] = Park(@, f)] /\ UNCHANGED actor
  <2>1. conn'[a] = Park(c, f) /\ actor'[a] = actor[a]
    BY <1>1, <1>2
  <2>2. Park(c, f).inbox = Tail(c.inbox) /\ Park(c, f).sent = c.sent /\ Park(c, f).ready = c.ready
    BY <1>1, <1>2, ParkSound
  <2> QED  BY <1>1, <2>1, <2>2, LessOwn
<1>3. ASSUME f.kind # "update"
      PROVE  /\ IsAnswer(f) => Quiet(Read(c))
             /\ NoneLate(Read(c)) /\ NoAnswers(Read(c)) /\ Read(c) \in Conn
  BY <1>1, <1>3, ReadOwn
<1>4. Fits(Head(todo), f) => IsAnswer(f)
  BY <1>1, FrameKinds
<1>5. CASE f.kind # "update" /\ Fits(Head(todo), f) /\ Begin(a, actor[a].cmd, Read(c), cmds)
  BY <1>1, <1>3, <1>4, <1>5, AskOwn DEF Begin
<1>6. CASE /\ f.kind # "update" /\ Fits(Head(todo), f) /\ a = "main"
           /\ AcceptForMain(Read(c), f, actor[a].cmd, todo)
  BY <1>1, <1>3, <1>4, <1>6, AskOwn, EndWithErrorIs, FailsOwn DEF AcceptForMain
<1>7. CASE /\ f.kind # "update" /\ Fits(Head(todo), f) /\ a = "watch"
           /\ AcceptForWatch(Read(c), f, actor[a].cmd, todo)
  <2>1. ASSUME NEW held, End("watch", Read(c), held) PROVE OwnOnly(actor'[a], conn'[a])
    BY <1>1, <1>3, <1>4, <1>7, <2>1, EndOwn
  <2> QED  BY <1>1, <1>3, <1>4, <1>7, <2>1, AskOwn DEF AcceptForWatch
<1>8. CASE f.kind # "update" /\ Fail(a, Read(c))
  BY <1>1, <1>3, <1>8, FailOwn
<1> QED  BY <1>2, <1>5, <1>6, <1>7, <1>8 DEF Receive, Owner

LEMMA TimeoutOwn ==
  ASSUME TypeInv, late = 0, late' = 0, NEW a \in Owner, OwnOnly(actor[a], conn[a]), Timeout(a)
  PROVE  OwnOnly(actor'[a], conn'[a])
<1>1. conn[a] \in Conn /\ conn[a].inbox = <<>> /\ NoneLate(conn[a]) /\ Fail(a, conn[a])
  BY DEF TypeInv, ActorsTyped, Timeout, OwnOnly
<1>2. NoAnswers(conn[a])
  <2>1. \A n \in DOMAIN <<>> : FALSE
    OBVIOUS
  <2> QED  BY <1>1, <2>1 DEF NoAnswers
<1> QED  BY <1>1, <1>2, FailOwn

LEMMA NextUpdateOwn ==
  ASSUME TypeInv, OwnOnly(actor["watch"], conn["watch"]), NextUpdate
  PROVE  OwnOnly(actor'["watch"], conn'["watch"])
<1> DEFINE c == conn["watch"]
           w == actor["watch"]
           f == Head(c.inbox)
<1>1. /\ ActorsTyped /\ w.pc = "follow" /\ Sound(c) /\ c \in Conn /\ Quiet(c) /\ "watch" \in Owner
      /\ actor \in [Owner -> Work] /\ conn \in [Owner -> Conn] /\ w \in Work
  BY DEF TypeInv, NextUpdate, ActorsTyped, OwnOnly, Owner
<1>2. ASSUME NEW d, Quiet(d), NEW g, Notified(d, g)
      PROVE  OwnOnly(actor'["watch"], conn'["watch"])
  <2>1. CASE \E held : End("watch", d, held)
    BY <1>1, <1>2, <2>1, EndOwn
  <2>2. CASE \E held : Became("watch", [w EXCEPT !.held = held], d, error["watch"])
    <3>1. conn'["watch"] = d /\ actor'["watch"].pc # "wait"
      BY <1>1, <2>2 DEF Became, Work
    <3> QED  BY <1>2, <3>1, QuietIsOwn
  <2> QED  BY <1>1, <1>2, <2>1, <2>2, NotifiedIs
<1>3. ASSUME NEW d, Quiet(d), End("watch", d, w.held)
      PROVE  OwnOnly(actor'["watch"], conn'["watch"])
  BY <1>1, <1>3, EndOwn
<1>4. ASSUME c.inbox # <<>> PROVE Quiet(Read(c)) /\ OwnOnly(w, Read(c))
  <2>1. Read(c).inbox = Tail(c.inbox) /\ Read(c).sent = c.sent /\ Read(c).ready = c.ready
    BY <1>1, <1>4, ReadIs
  <2>2. OwnOnly(w, Read(c))
    BY <1>1, <1>4, <2>1, LessOwn
  <2> QED  BY <1>1, <2>2 DEF OwnOnly
<1>5. Quiet([c EXCEPT !.pending = Tail(@)])
  BY <1>1 DEF Quiet, NoAnswers, Conn
<1>6. CASE c.inbox # <<>> /\ conn' = [conn EXCEPT !["watch"] = Read(c)] /\ UNCHANGED actor
  BY <1>1, <1>4, <1>6
<1> QED  BY <1>1, <1>2, <1>3, <1>4, <1>5, <1>6 DEF NextUpdate

LEMMA StepOwn ==
  ASSUME TypeInv, late = 0, late' = 0, NEW a \in Owner, OwnOnly(actor[a], conn[a]), Step(a)
  PROVE  OwnOnly(actor'[a], conn'[a])
<1>1. CASE a = "watch" /\ Cancel
  <2>1. conn'[a] = NoConn /\ actor'[a].pc = "idle"
    BY <1>1 DEF TypeInv, ActorsTyped, Cancel, Rest, Idle
  <2> QED  BY <2>1, NoConnIsQuiet, QuietIsOwn
<1> QED  BY <1>1, TakeOwn, ConnectOwn, ReceiveOwn, TimeoutOwn, NextUpdateOwn DEF Step

\* What is no answer may always arrive.
LEMMA TellOwn ==
  ASSUME NEW w, NEW c \in Conn, OwnOnly(w, c), NEW f \in Frame, ~IsAnswer(f),
         NEW d, d.inbox = Append(c.inbox, f), d.sent \subseteq c.sent, d.ready \subseteq c.ready
  PROVE  OwnOnly(w, d)
<1>1. /\ Append(c.inbox, f)[Len(c.inbox) + 1] = f
      /\ \A n \in DOMAIN c.inbox : n < Len(c.inbox) + 1 /\ Append(c.inbox, f)[n] = c.inbox[n]
      /\ \A n \in DOMAIN Append(c.inbox, f) : n \in DOMAIN c.inbox \/ n = Len(c.inbox) + 1
      /\ DOMAIN c.inbox = 1..Len(c.inbox) /\ Len(c.inbox) \in Nat
  BY OneMore DEF Conn
<1>2. ASSUME NEW n \in DOMAIN d.inbox, IsAnswer(d.inbox[n])
      PROVE  n \in DOMAIN c.inbox /\ d.inbox[n] = c.inbox[n]
  BY <1>1, <1>2
<1>3. LastWord(d)
  <2> SUFFICES ASSUME NEW m \in DOMAIN d.inbox, NEW n \in DOMAIN d.inbox,
                      m < n, Final(d.inbox[m]), IsAnswer(d.inbox[n])
               PROVE  FALSE
    BY DEF LastWord
  <2>1. n \in DOMAIN c.inbox /\ d.inbox[n] = c.inbox[n] /\ n <= Len(c.inbox)
    BY <1>1, <1>2
  <2>2. m \in DOMAIN c.inbox /\ d.inbox[m] = c.inbox[m]
    BY <1>1, <2>1
  <2> QED  BY <2>1, <2>2 DEF OwnOnly, LastWord
<1>4. NoneLate(d) /\ (NoAnswers(c) => NoAnswers(d))
  BY <1>2 DEF OwnOnly, NoneLate, NoAnswers
<1>5. ASSUME w.pc = "wait" PROVE Due(d, w.cmd.label, Head(w.todo))
  <2>1. Due(c, w.cmd.label, Head(w.todo))
    BY <1>5 DEF OwnOnly
  <2> QED  BY <1>2, <1>4, <2>1 DEF Due
<1> QED  BY <1>3, <1>4, <1>5 DEF OwnOnly, Quiet

\* The one answer arrives at the one who waits for it.
LEMMA ArrivesOwn ==
  ASSUME NEW w, w.pc = "wait", NEW c \in Conn, NoAnswers(c),
         \A n \in DOMAIN c.inbox : ~Final(c.inbox[n]),
         NEW f \in Frame, f.label = w.cmd.label, f.to = Head(w.todo),
         NEW d, d.inbox = Append(c.inbox, f), d.sent = {}, d.ready = {}
  PROVE  OwnOnly(w, d)
<1>1. /\ Append(c.inbox, f)[Len(c.inbox) + 1] = f
      /\ \A n \in DOMAIN c.inbox : n < Len(c.inbox) + 1 /\ Append(c.inbox, f)[n] = c.inbox[n]
      /\ \A n \in DOMAIN Append(c.inbox, f) : n \in DOMAIN c.inbox \/ n = Len(c.inbox) + 1
      /\ DOMAIN c.inbox = 1..Len(c.inbox) /\ Len(c.inbox) \in Nat
  BY OneMore DEF Conn
<1>2. ASSUME NEW n \in DOMAIN d.inbox, IsAnswer(d.inbox[n])
      PROVE  n = Len(c.inbox) + 1 /\ d.inbox[n] = f
  BY <1>1, <1>2 DEF NoAnswers
<1>3. LastWord(d)
  <2> SUFFICES ASSUME NEW m \in DOMAIN d.inbox, NEW n \in DOMAIN d.inbox,
                      m < n, Final(d.inbox[m])
               PROVE  FALSE
    BY DEF LastWord
  <2>1. m \in DOMAIN c.inbox /\ d.inbox[m] = c.inbox[m]
    BY <1>1
  <2> QED  BY <2>1
<1>4. Due(d, w.cmd.label, Head(w.todo))
  BY <1>2 DEF Due
<1> QED  BY <1>3, <1>4 DEF OwnOnly, NoneLate

LEMMA NotFinal ==
  ASSUME NEW c, Sound(c), c.sock = "open"
  PROVE  \A n \in DOMAIN c.inbox : ~Final(c.inbox[n])
BY DEF Sound, Final

LEMMA NotifyOwn ==
  ASSUME NEW l \in Label, NEW n \in Count, NEW cs, Notify(l, n, cs), NEW a \in Owner,
         Sound(cs[a]), NEW w, OwnOnly(w, cs[a])
  PROVE  OwnOnly(w, conn'[a])
<1> DEFINE f == News(l, n)
<1>1. f \in Frame /\ ~IsAnswer(f) /\ f.kind = "update" /\ cs[a] \in Conn
  BY NewsTyped, FrameKinds DEF Sound
<1>2. OwnOnly(w, Told(cs[a], f))
  BY <1>1, ToldIs, TellOwn
<1> QED  BY <1>2, Notifies

LEMMA WorldOwn ==
  ASSUME TypeInv, late = 0, NEW b \in Owner, OwnOnly(actor[b], conn[b]), World, UNCHANGED browserVars
  PROVE  OwnOnly(actor'[b], conn'[b])
<1> DEFINE c == conn[b]
           w == actor[b]
<1>1. /\ WorldTyped /\ ActorsTyped /\ Sound(c) /\ c \in Conn /\ conn \in [Owner -> Conn]
      /\ actor'[b] = w
  BY DEF TypeInv, ActorsTyped, browserVars
<1>2. ASSUME NEW l \in Label, OpponentMoves(l) PROVE OwnOnly(w, conn'[b])
  <2>1. game[l] + 1 \in Count /\ Notify(l, game[l] + 1, conn)
    <3>1. game[l] \in Nat /\ Decided[l] \in Nat /\ game[l] < Decided[l]
      BY <1>1, <1>2, TransportAssumption DEF OpponentMoves, WorldTyped
    <3> QED  BY <1>2, <3>1, Counted DEF OpponentMoves
  <2> QED  BY <1>1, <2>1, NotifyOwn
<1>3. ASSUME NEW a \in Owner, NEW r \in conn[a].sent, NodeAnswers(a, r) PROVE OwnOnly(w, conn'[b])
  <2>1. ASSUME NEW kind \in {"answer", "missing", "failed"}, NEW cs, cs = Replied(a, r, kind)
        PROVE  OwnOnly(w, cs[b]) /\ Sound(cs[b])
    <3>1. /\ Sound(cs[b]) /\ (b # a => cs[b] = c) /\ conn[a].sock = "open"
          /\ cs[a].sent = conn[a].sent \ {r} /\ cs[a].ready = conn[a].ready
          /\ cs[a].inbox = Append(conn[a].inbox, AnswerTo(r, kind))
      BY <1>1, <2>1, Answered
    <3>2. ASSUME a = b PROVE OwnOnly(w, cs[b])
      <4>1. w.pc = "wait" /\ Due(c, w.cmd.label, Head(w.todo)) /\ r \in c.sent
        BY <1>3, <3>2 DEF OwnOnly, Quiet
      <4>2. /\ NoAnswers(c) /\ cs[b].sent = {} /\ cs[b].ready = {}
            /\ r.label = w.cmd.label /\ r.type = Head(w.todo)
        BY <3>1, <3>2, <4>1 DEF Due
      <4>3. r \in Request /\ (r.type \notin {"Register", "Games"} => r.label \in Label)
        BY <1>1, <4>1 DEF Sound, Conn
      <4>4. /\ AnswerTo(r, kind) \in Frame /\ AnswerTo(r, kind).label = r.label
            /\ AnswerTo(r, kind).to = r.type
        BY <1>1, <2>1, <4>3, AnswerTyped DEF AnswerTo
      <4> QED  BY <1>1, <3>1, <3>2, <4>1, <4>2, <4>4, ArrivesOwn, NotFinal
    <3> QED  BY <3>1, <3>2
  <2>2. CASE \E kind \in {"answer", "missing", "failed"} : conn' = Replied(a, r, kind)
    <3>1. PICK kind \in {"answer", "missing", "failed"} : conn' = Replied(a, r, kind)
      BY <2>2
    <3>2. PICK cs : cs = Replied(a, r, kind)
      OBVIOUS
    <3> QED  BY <2>1, <3>1, <3>2
  <2>3. CASE /\ r.type = "Update" /\ game[r.label] < Decided[r.label]
             /\ Notify(r.label, game[r.label] + 1, Replied(a, r, "answer"))
    <3>1. r.label \in Label
      BY <1>1, <1>3, <2>3 DEF ActorsTyped, Sound
    <3>2. game[r.label] + 1 \in Count
      <4>1. game[r.label] \in Nat /\ Decided[r.label] \in Nat /\ game[r.label] < Decided[r.label]
        BY <1>1, <2>3, <3>1, TransportAssumption DEF WorldTyped
      <4> QED  BY <3>1, <4>1, Counted
    <3>3. PICK cs : cs = Replied(a, r, "answer")
      OBVIOUS
    <3>4. OwnOnly(w, cs[b]) /\ Sound(cs[b]) /\ Notify(r.label, game[r.label] + 1, cs)
      BY <2>1, <2>3, <3>3
    <3> QED  BY <3>1, <3>2, <3>4, NotifyOwn
  <2> QED  BY <1>3, <2>2, <2>3 DEF NodeAnswers, Replied
<1>4. ASSUME NEW a \in Owner, NEW r \in conn[a].sent, NodeSubscribes(a, r) PROVE OwnOnly(w, conn'[b])
  <2>1. b # a => conn'[b] = c
    BY <1>1, <1>4 DEF NodeSubscribes
  <2>2. ASSUME a = b PROVE OwnOnly(w, conn'[b])
    <3> DEFINE f == AnswerTo(r, "answer")
    <3>1. /\ conn'[b].sent = c.sent \ {r} /\ conn'[b].ready = c.ready \cup {f}
          /\ conn'[b].inbox = c.inbox
      BY <1>1, <1>4, <2>2 DEF NodeSubscribes, Conn
    <3>2. w.pc = "wait" /\ Due(c, w.cmd.label, Head(w.todo)) /\ r \in c.sent /\ NoneLate(c) /\ LastWord(c)
      BY <1>4, <2>2 DEF OwnOnly, Quiet
    <3>3. /\ NoAnswers(c) /\ c.sent \ {r} = {} /\ c.ready = {}
          /\ f.label = w.cmd.label /\ f.to = Head(w.todo) /\ f.late = 0
      BY <3>2 DEF Due, NoneLate, AnswerTo
    <3>4. Due(conn'[b], w.cmd.label, Head(w.todo))
      BY <3>1, <3>3 DEF Due, NoAnswers
    <3> QED  BY <3>1, <3>2, <3>3, <3>4 DEF OwnOnly, NoneLate, LastWord
  <2> QED  BY <2>1, <2>2
<1>5. ASSUME NEW a \in Owner, NEW f \in conn[a].ready, NodeHasSubscribed(a, f) PROVE OwnOnly(w, conn'[b])
  <2>1. b # a => conn'[b] = c
    BY <1>1, <1>5 DEF NodeHasSubscribed
  <2>2. ASSUME a = b PROVE OwnOnly(w, conn'[b])
    <3>1. /\ conn'[b].sent = c.sent /\ conn'[b].ready = c.ready \ {f}
          /\ conn'[b].inbox = Append(c.inbox, f)
      BY <1>1, <1>5, <2>2 DEF NodeHasSubscribed, Conn
    <3>2. w.pc = "wait" /\ Due(c, w.cmd.label, Head(w.todo)) /\ f \in c.ready
      BY <1>5, <2>2 DEF OwnOnly, Quiet
    <3>3. /\ NoAnswers(c) /\ c.sent = {} /\ c.ready \ {f} = {}
          /\ f.label = w.cmd.label /\ f.to = Head(w.todo)
      BY <3>2 DEF Due
    <3>4. f \in Frame /\ \A n \in DOMAIN c.inbox : ~Final(c.inbox[n])
      BY <1>1, <3>2, NotFinal DEF Sound, Conn, Frame
    <3> QED  BY <1>1, <3>1, <3>2, <3>3, <3>4, ArrivesOwn
  <2> QED  BY <2>1, <2>2
<1>6. ASSUME NEW a \in Owner, SocketDies(a) PROVE OwnOnly(w, conn'[b])
  <2>1. b # a => conn'[b] = c
    BY <1>1, <1>6 DEF SocketDies
  <2>2. ASSUME a = b PROVE OwnOnly(w, conn'[b])
    <3> DEFINE f == [kind |-> "closed"]
    <3>1. /\ conn'[b].sent = {} /\ conn'[b].ready = {}
          /\ conn'[b].inbox = Append(c.inbox, f)
      BY <1>1, <1>6, <2>2 DEF SocketDies, Conn
    <3>2. f \in Frame /\ ~IsAnswer(f)
      BY DEF Frame, IsAnswer
    <3> QED  BY <1>1, <3>1, <3>2, TellOwn
  <2> QED  BY <2>1, <2>2
<1> QED  BY <1>1, <1>2, <1>3, <1>4, <1>5, <1>6 DEF World

LEMMA NextOwnInv == TypeInv /\ OwnInv /\ [Next]_vars => OwnInv'
<1> SUFFICES ASSUME TypeInv, OwnInv, [Next]_vars, late' = 0, NEW b \in Owner
             PROVE  OwnOnly(actor'[b], conn'[b])
  BY DEF OwnInv, OwnOnly, Quiet, Due, NoneLate, LastWord, NoAnswers
<1>1. late \in Nat /\ ActorsTyped
  BY TransportAssumption DEF TypeInv, WorldTyped
<1>2. ASSUME NEW a \in Owner, Step(a) PROVE OwnOnly(actor'[b], conn'[b])
  <2>1. Apart(a)
    BY <1>1, <1>2, StepApart
  <2>2. late = 0 /\ OwnOnly(actor[b], conn[b])
    BY <1>1, <2>1 DEF Apart, OwnInv
  <2> QED  BY <1>2, <2>1, <2>2, StepOwn DEF Apart
<1>3. CASE World /\ UNCHANGED browserVars
  <2>1. late' = late
    BY <1>3 DEF World, OpponentMoves, NodeAnswers, NodeSubscribes, NodeHasSubscribed, SocketDies
  <2> QED  BY <1>3, <2>1, WorldOwn DEF OwnInv
<1>4. CASE User \/ UNCHANGED vars
  BY <1>4 DEF User, Click, Move, Retry, RetryWatch, Settings, vars, transportVars, browserVars, OwnInv
<1> QED  BY <1>2, <1>3, <1>4 DEF Next

LEMMA InitOwnInv == BrowserInit => OwnInv
<1> SUFFICES ASSUME BrowserInit, NEW a \in Owner PROVE OwnOnly(actor[a], conn[a])
  BY DEF OwnInv
<1>1. conn[a] = NoConn /\ actor[a].pc = "idle"
  BY DEF BrowserInit, Init, Idle
<1> QED  BY <1>1, NoConnIsQuiet, QuietIsOwn

\* An answer is taken by the request it belongs to, whatever is cancelled, dies or is
\* refused in between, as long as nothing was given up on a connection that was kept
\* and is answered after all.
THEOREM NoAnswerGoesAstray == Spec => []AnswersAreOwn
<1>1. TypeInv /\ OwnInv => AnswersAreOwn
  <2> SUFFICES ASSUME TypeInv, OwnInv, late = 0, NEW a \in Owner
               PROVE  LET c == conn[a]
                          Own(label, type) == label = actor[a].cmd.label /\ type = Head(actor[a].todo) IN
                      /\ actor[a].pc # "wait" => Outstanding(a) = {}
                      /\ \A x, y \in Outstanding(a) : x = y
                      /\ \A r \in c.sent : Own(r.label, r.type)
                      /\ \A f \in c.ready \cup ToSet(c.inbox) : IsAnswer(f) => Own(f.label, f.to)
    BY DEF AnswersAreOwn
  <2>1. OwnOnly(actor[a], conn[a])
    BY DEF OwnInv
  <2>2. CASE actor[a].pc # "wait"
    <3>1. Quiet(conn[a])
      BY <2>1, <2>2 DEF OwnOnly
    <3>2. Outstanding(a) = {}
      BY <3>1 DEF Quiet, NoAnswers, Outstanding
    <3> QED  BY <2>2, <3>1, <3>2 DEF Quiet, NoAnswers, ToSet
  <2>3. CASE actor[a].pc = "wait"
    <3>1. Due(conn[a], actor[a].cmd.label, Head(actor[a].todo))
      BY <2>1, <2>3 DEF OwnOnly
    <3>2. ASSUME NEW x \in Outstanding(a), NEW y \in Outstanding(a) PROVE x = y
      <4> DEFINE c == conn[a]
                 Of(z) == \/ \E r \in c.sent : z = <<"sent", r>>
                          \/ \E f \in c.ready : z = <<"ready", f>>
                          \/ \E n \in DOMAIN c.inbox : IsAnswer(c.inbox[n]) /\ z = <<"inbox", n>>
      <4>1. Of(x) /\ Of(y)
        BY DEF Outstanding
      <4> QED  BY <3>1, <4>1 DEF Due, NoAnswers
    <3> QED  BY <2>3, <3>1, <3>2 DEF Due, ToSet
  <2> QED  BY <2>2, <2>3
<1> QED  BY InitTypeInv, NextTypeInv, InitOwnInv, NextOwnInv, <1>1, PTL DEF Spec

LEMMA NextView == TypeInv /\ OwnInv /\ ViewShowsItsGame /\ [Next]_vars => ViewShowsItsGame'
<1> SUFFICES ASSUME TypeInv, OwnInv, ViewShowsItsGame, [Next]_vars, late' = 0
             PROVE  view'.of = view'.label
  BY DEF ViewShowsItsGame
<1>1. late \in Nat /\ ActorsTyped /\ view \in [label : Label \cup {"none"}, of : Label \cup {"none"}]
  BY TransportAssumption DEF TypeInv, WorldTyped, UserTyped
<1>2. ASSUME NEW a \in Owner, Step(a) PROVE view'.of = view'.label
  <2>1. late = 0 /\ view.of = view.label /\ OwnOnly(actor[a], conn[a])
    BY <1>1, <1>2, StepApart DEF Apart, ViewShowsItsGame, OwnInv
  <2>2. NoView.of = NoView.label
    BY DEF NoView
  <2>3. ASSUME NEW l PROVE Report(l, l).of = Report(l, l).label
    BY <1>1, <2>1 DEF Report
  <2>4. CASE Receive(a)
    <3> DEFINE f == Head(conn[a].inbox)
               cmd == actor[a].cmd
    <3>1. actor[a].pc = "wait" /\ conn[a].inbox # <<>> /\ Sound(conn[a])
      BY <1>1, <2>4 DEF Receive, ActorsTyped
    <3>2. f \in Frame /\ f = conn[a].inbox[1] /\ 1 \in DOMAIN conn[a].inbox
      BY <3>1, ReadIs, Rest1 DEF Sound, Conn
    <3>3. IsAnswer(f) => f.label = cmd.label
      BY <2>1, <3>1, <3>2 DEF OwnOnly, Due
    <3>4. Fits(Head(actor[a].todo), f) => f.label = cmd.label
      BY <3>2, <3>3, FrameKinds
    <3>5. CASE Begin(a, cmd, Read(conn[a]), cmds)
      BY <2>1, <2>2, <3>5 DEF Begin
    <3>6. CASE /\ Fits(Head(actor[a].todo), f)
               /\ AcceptForMain(Read(conn[a]), f, cmd, actor[a].todo)
      BY <2>1, <3>4, <3>6 DEF AcceptForMain
    <3>7. CASE /\ Fits(Head(actor[a].todo), f)
               /\ AcceptForWatch(Read(conn[a]), f, cmd, actor[a].todo)
      BY <2>1, <2>3, <3>4, <3>7 DEF AcceptForWatch
    <3> QED  BY <2>1, <2>4, <3>5, <3>6, <3>7 DEF Receive, Fail
  <2>5. CASE NextUpdate
    <3>1. ASSUME NEW c, NEW f, Notified(c, f) PROVE view'.of = view'.label
      BY <2>1, <2>3, <3>1 DEF Notified
    <3> QED  BY <2>1, <2>5, <3>1 DEF NextUpdate
  <2>6. CASE Take(a)
    BY <2>1, <2>2, <2>6 DEF Take, Begin
  <2>7. CASE Connect(a) \/ Timeout(a) \/ Cancel
    BY <2>1, <2>7 DEF Connect, Timeout, Fail, Cancel
  <2> QED  BY <1>2, <2>4, <2>5, <2>6, <2>7 DEF Step
<1>3. CASE World /\ UNCHANGED browserVars
  BY <1>3 DEF World, OpponentMoves, NodeAnswers, NodeSubscribes, NodeHasSubscribed, SocketDies,
              browserVars, ViewShowsItsGame
<1>4. CASE User \/ UNCHANGED vars
  BY <1>4 DEF User, Click, Move, Retry, RetryWatch, Settings, vars, transportVars, browserVars,
              ViewShowsItsGame
<1> QED  BY <1>2, <1>3, <1>4 DEF Next

\* The board labelled with a game shows that game, whichever of the two actors wrote the
\* view last and for whichever game the user has asked meanwhile.
THEOREM BoardIsTheLabelled == Spec => []ViewShowsItsGame
<1>1. BrowserInit => ViewShowsItsGame
  BY DEF BrowserInit, NoView, ViewShowsItsGame
<1> QED  BY InitTypeInv, NextTypeInv, InitOwnInv, NextOwnInv, NextView, <1>1, PTL DEF Spec
-----------------------------------------------------------------------------
(* The address that was left.                                              *)

\* No change of the address waits for an actor.
Clear(q) == \A n \in DOMAIN q : q[n].name # "Reconnect"

\* The watch hears of a change from the main actor.
LeftInv ==
  Clear(cmds["main"]) =>
    /\ conn["main"].sock # "none" => conn["main"].url = url
    /\ Clear(cmds["watch"]) /\ conn["watch"].sock # "none" => conn["watch"].url = url

\* What becomes of a connection leads to the same node, if to any.
SameNode(a, c) == conn'[a].sock # "none" => conn'[a].url = c.url

LEMMA NoConnFails ==
  ASSUME ActorsTyped, NEW a \in Owner, EndWithError(a, NoConn)
  PROVE  Became(a, Rested(a), NoConn, TRUE)
<1>1. IsDead(NoConn)
  BY DEF IsDead, NoConn
<1> QED  BY <1>1, EndWithErrorIs DEF EndWithError, Rest, Show, Rested, Became

LEMMA FailsSame ==
  ASSUME WorldTyped, ActorsTyped, NEW a \in Owner, NEW c, Sound(c), FailsOver(a, c)
  PROVE  SameNode(a, c)
<1>1. PICK d : /\ Became(a, Rested(a), d, TRUE)
               /\ d = NoConn \/ GivenUp(c, d)
  BY DEF FailsOver
<1>2. d.sock = "none" \/ d.url = c.url
  BY <1>1, GivenUpSound DEF WorldTyped, NoConn
<1> QED  BY <1>1, <1>2 DEF Became, ActorsTyped, SameNode

LEMMA FollowsSame ==
  ASSUME WorldTyped, ActorsTyped, NEW a \in Owner, NEW c, Sound(c), NEW cmd, NEW held,
         FollowsOver(a, c, cmd, held)
  PROVE  SameNode(a, c)
<1>1. PICK d : GivenUp(c, d) /\ Became(a, At("follow", <<>>, cmd, held), d, FALSE)
  BY DEF FollowsOver
<1>2. d.url = c.url
  BY <1>1, GivenUpSound DEF WorldTyped
<1> QED  BY <1>1, <1>2 DEF Became, ActorsTyped, SameNode

LEMMA AskSame ==
  ASSUME WorldTyped, ActorsTyped, NEW a \in Owner, NEW c, Sound(c), c.sock \in {"open", "dead"},
         NEW todo, NEW cmd, NEW held, Ask(a, c, todo, cmd, held)
  PROVE  SameNode(a, c)
<1>1. CASE \E w, shown : Became(a, w, c, shown)
  BY <1>1 DEF Became, ActorsTyped, SameNode
<1>2. CASE \E w, r, shown : Became(a, w, SendTo(c, r), shown)
  BY <1>2 DEF Became, ActorsTyped, SameNode, SendTo, Sound, Conn
<1>3. CASE c.sock # "open" /\ FollowsOver(a, Refused(c), cmd, held)
  BY <1>3, RefusedSound, FollowsSame DEF SameNode
<1>4. CASE c.sock # "open" /\ FailsOver(a, Refused(c))
  BY <1>4, RefusedSound, FailsSame DEF SameNode
<1> QED  BY <1>1, <1>2, <1>3, <1>4, AskComesTo

LEMMA FailSame ==
  ASSUME WorldTyped, ActorsTyped, NEW a \in Owner, NEW c, Sound(c), Fail(a, c)
  PROVE  SameNode(a, c)
<1>1. CASE EndWithError(a, NoConn)
  BY <1>1, NoConnFails DEF Became, ActorsTyped, SameNode, NoConn
<1>2. CASE Follow(a, actor[a].cmd, actor[a].held) /\ Leave(a, c)
  BY <1>2, FollowAndLeave, FollowsSame
<1>3. CASE EndWithError(a, c)
  BY <1>3, EndWithErrorIs, FailsSame
<1> QED  BY <1>1, <1>2, <1>3 DEF Fail

LEMMA EndSame ==
  ASSUME ActorsTyped, NEW c, NEW d, d.url = c.url, NEW held, End("watch", d, held)
  PROVE  SameNode("watch", c)
BY WatchEnds DEF Became, ActorsTyped, SameNode, NoConn, Owner

\* A step that takes no command stays with the node it had.
LEMMA StepSame ==
  ASSUME TypeInv, NEW a \in Owner, Step(a), ~Take(a)
  PROVE  SameNode(a, conn[a])
<1> DEFINE c == conn[a]
           f == Head(c.inbox)
<1>1. /\ WorldTyped /\ ActorsTyped /\ Sound(c) /\ c \in Conn /\ Stands(actor[a].pc, c)
      /\ conn \in [Owner -> Conn]
  BY DEF TypeInv, ActorsTyped
<1>2. CASE Connect(a)
  <2>1. CASE EndWithError(a, NoConn)
    BY <1>1, <2>1, NoConnFails DEF Became, SameNode, NoConn
  <2>2. CASE Ask(a, [c EXCEPT !.sock = "open"], <<"Register">>, actor[a].cmd, 0)
    <3>1. Stands("connect", c) /\ ~c.closed
      BY <1>1, <1>2 DEF Connect, Stands, Sound
    <3>2. \A n \in DOMAIN <<>> : FALSE
      OBVIOUS
    <3>3. Sound([c EXCEPT !.sock = "open"]) /\ [c EXCEPT !.sock = "open"].sock = "open"
          /\ [c EXCEPT !.sock = "open"].url = c.url
      BY <1>1, <3>1, <3>2 DEF Sound, Stands, Conn
    <3> QED  BY <1>1, <2>2, <3>3, AskSame DEF SameNode
  <2> QED  BY <1>2, <2>1, <2>2 DEF Connect
<1>3. CASE Receive(a)
  <2>1. /\ c.inbox # <<>> /\ Sound(Read(c)) /\ Read(c).url = c.url /\ Read(c).sock = c.sock
        /\ c.sock \in {"open", "dead"}
    BY <1>1, <1>3, ReadIs, Waiting DEF Receive
  <2>2. CASE f.kind = "update" /\ conn' = [conn EXCEPT ![a] = Park(@, f)]
    BY <1>1, <2>1, <2>2, ParkSound DEF SameNode
  <2>3. CASE Begin(a, actor[a].cmd, Read(c), cmds)
    BY <1>1, <2>1, <2>3, AskSame DEF Begin, SameNode
  <2>4. CASE a = "main" /\ AcceptForMain(Read(c), f, actor[a].cmd, actor[a].todo)
    BY <1>1, <2>1, <2>4, AskSame, EndWithErrorIs, FailsSame DEF AcceptForMain, SameNode
  <2>5. CASE a = "watch" /\ AcceptForWatch(Read(c), f, actor[a].cmd, actor[a].todo)
    <3>1. ASSUME NEW held, End("watch", Read(c), held) PROVE SameNode(a, c)
      BY <1>1, <2>1, <2>5, <3>1, EndSame
    <3> QED  BY <1>1, <2>1, <2>5, <3>1, AskSame DEF AcceptForWatch, SameNode
  <2>6. CASE Fail(a, Read(c))
    BY <1>1, <2>1, <2>6, FailSame DEF SameNode
  <2> QED  BY <1>3, <2>2, <2>3, <2>4, <2>5, <2>6 DEF Receive, Owner
<1>4. CASE Timeout(a)
  BY <1>1, <1>4, FailSame DEF Timeout
<1>5. CASE a = "watch" /\ Cancel
  BY <1>1, <1>5 DEF Cancel, SameNode, NoConn
<1>6. CASE a = "watch" /\ NextUpdate
  <2>1. ASSUME NEW d, d.url = c.url, conn' = [conn EXCEPT ![a] = d] PROVE SameNode(a, c)
    BY <1>1, <2>1 DEF SameNode
  <2>2. ASSUME NEW d, d.url = c.url, NEW g, Notified(d, g) PROVE SameNode(a, c)
    BY <1>1, <1>6, <2>1, <2>2, NotifiedIs, EndSame DEF Became
  <2>3. ASSUME NEW d, d.url = c.url, NEW held, End("watch", d, held) PROVE SameNode(a, c)
    BY <1>1, <1>6, <2>3, EndSame
  <2>4. c.inbox = <<>> \/ Read(c).url = c.url
    BY <1>1, ReadIs
  <2>5. [c EXCEPT !.pending = Tail(@)].url = c.url
    BY <1>1 DEF Conn
  <2>6. CASE c.closed /\ End("watch", c, actor["watch"].held)
    BY <2>3, <2>6
  <2> QED  BY <1>6, <2>1, <2>2, <2>3, <2>4, <2>5, <2>6 DEF NextUpdate
<1> QED  BY <1>2, <1>3, <1>4, <1>5, <1>6 DEF Step

\* What is clear after something was added to a queue, or taken from it, was clear.
LEMMA WasClear ==
  ASSUME NEW q \in Seq(Command)
  PROVE  /\ q # <<>> /\ Head(q).name # "Reconnect" /\ Clear(Tail(q)) => Clear(q)
         /\ \A c \in Command : Clear(Append(q, c)) => Clear(q) /\ c.name # "Reconnect"
         /\ \A s \in Seq(Command) : Clear(q \o s) => Clear(q) /\ Clear(s)
<1>1. ASSUME q # <<>>, Head(q).name # "Reconnect", Clear(Tail(q)), NEW n \in DOMAIN q
      PROVE  q[n].name # "Reconnect"
  <2>1. CASE n = 1
    BY <1>1, <2>1, Rest1
  <2>2. CASE n # 1
    <3>1. n - 1 \in DOMAIN Tail(q) /\ Tail(q)[n - 1] = q[n - 1 + 1] /\ n - 1 + 1 = n
      BY <1>1, <2>2, Rest1
    <3> QED  BY <1>1, <3>1 DEF Clear
  <2> QED  BY <2>1, <2>2
<1>2. ASSUME NEW c \in Command, Clear(Append(q, c)) PROVE Clear(q) /\ c.name # "Reconnect"
  <2>1. /\ Len(q) + 1 \in DOMAIN Append(q, c) /\ Append(q, c)[Len(q) + 1] = c
        /\ \A n \in DOMAIN q : n \in DOMAIN Append(q, c) /\ Append(q, c)[n] = q[n]
    BY OneMore
  <2> QED  BY <1>2, <2>1 DEF Clear
<1>3. ASSUME NEW s \in Seq(Command), Clear(q \o s) PROVE Clear(q) /\ Clear(s)
  <2>1. /\ DOMAIN (q \o s) = 1..(Len(q) + Len(s)) /\ DOMAIN q = 1..Len(q) /\ DOMAIN s = 1..Len(s)
        /\ Len(q) \in Nat /\ Len(s) \in Nat
        /\ \A n \in 1..Len(q) : (q \o s)[n] = q[n]
    BY ConcatProperties
  <2>2. ASSUME NEW n \in 1..Len(s) PROVE (q \o s)[Len(q) + n] = s[n]
    BY <2>1, ConcatProperties
  <2>3. Clear(q)
    BY <1>3, <2>1 DEF Clear
  <2>4. \A n \in 1..Len(s) : Len(q) + n \in 1..(Len(q) + Len(s))
    BY <2>1
  <2>5. Clear(s)
    BY <1>3, <2>1, <2>2, <2>4 DEF Clear
  <2> QED  BY <2>3, <2>5
<1> QED  BY <1>1, <1>2, <1>3 DEF Clear

\* Nothing an actor does clears the queues but that it takes up a change of the address.
LEMMA BeginClear ==
  ASSUME NEW q, CmdsTyped(q), NEW a \in Owner, NEW cmd \in Command, NEW c, Begin(a, cmd, c, q)
  PROVE  \A b \in Owner : Clear(cmds'[b]) => Clear(q[b])
<1>1. /\ q \in [Owner -> Seq(Command)] /\ "watch" \in Owner
      /\ Clear(Append(q["watch"], cmd)) => Clear(q["watch"])
  BY WasClear DEF CmdsTyped, Owner
<1>2. cmds' = q \/ cmds' = [q EXCEPT !["watch"] = Append(q["watch"], cmd)]
  BY DEF Begin
<1> QED  BY <1>1, <1>2
LEMMA StepClear ==
  ASSUME TypeInv, NEW a \in Owner, Step(a), ~(Take(a) /\ Head(cmds[a]).name = "Reconnect")
  PROVE  \A b \in Owner : Clear(cmds'[b]) => Clear(cmds[b])
<1>1. CmdsTyped(cmds) /\ cmds[a] \in Seq(Command) /\ actor[a].cmd \in Command
      /\ cmds \in [Owner -> Seq(Command)]
  BY DEF TypeInv, UserTyped, CmdsTyped, ActorsTyped, Work
<1>2. CASE Take(a)
  <2> DEFINE queue == [cmds EXCEPT ![a] = Tail(@)]
  <2>1. cmds[a] # <<>> /\ Head(cmds[a]) \in Command /\ CmdsTyped(queue)
    BY <1>1, <1>2, TakenTyped, Rest1 DEF Take
  <2>2. \A b \in Owner : Clear(queue[b]) => Clear(cmds[b])
    BY <1>1, <1>2, <2>1, WasClear
  <2>3. cmds' = queue \/ Begin(a, Head(cmds[a]), conn[a], queue)
    BY <1>2 DEF Take
  <2> QED  BY <2>1, <2>2, <2>3, BeginClear
<1>3. CASE Receive(a)
  BY <1>1, <1>3, BeginClear DEF Receive, Fail
<1> QED  BY <1>2, <1>3 DEF Step, Connect, Timeout, Fail, Cancel, NextUpdate

LEMMA TakeLeft ==
  ASSUME TypeInv, LeftInv, NEW a \in Owner, Take(a)
  PROVE  LeftInv'
<1>1. /\ WorldTyped /\ ActorsTyped /\ Sound(conn[a]) /\ Stands(actor[a].pc, conn[a])
      /\ conn \in [Owner -> Conn] /\ cmds \in [Owner -> Seq(Command)] /\ url' = url
      /\ actor[a].pc = "idle" /\ cmds[a] # <<>> /\ Apart(a)
  BY StepApart DEF TypeInv, UserTyped, CmdsTyped, ActorsTyped, Take, Step
<1>2. CASE Head(cmds[a]).name = "Reconnect"
  <2>1. conn' = [conn EXCEPT ![a] = NoConn] /\ PassOn(a, [cmds EXCEPT ![a] = Tail(@)])
    BY <1>2 DEF Take
  <2>2. conn'[a].sock = "none"
    BY <1>1, <2>1 DEF NoConn
  <2>3. CASE a = "main"
    <3> DEFINE told == Append(cmds["watch"], Cmd("Reconnect", "none"))
    <3>1. cmds'["watch"] = told
      BY <1>1, <2>1, <2>3 DEF PassOn, Owner
    <3>2. Cmd("Reconnect", "none") \in Command /\ cmds["watch"] \in Seq(Command)
          /\ Cmd("Reconnect", "none").name = "Reconnect"
      BY <1>1 DEF Cmd, Command, Owner
    <3>3. ~Clear(cmds'["watch"])
      BY <3>1, <3>2, WasClear
    <3> QED  BY <2>2, <2>3, <3>3 DEF LeftInv
  <2>4. CASE a = "watch"
    <3>1. cmds'["main"] = cmds["main"] /\ conn'["main"] = conn["main"]
      BY <1>1, <2>1, <2>4 DEF PassOn, Owner
    <3> QED  BY <1>1, <2>2, <2>4, <3>1 DEF LeftInv
  <2> QED  BY <2>3, <2>4 DEF Owner
<1>3. CASE Head(cmds[a]).name # "Reconnect"
  <2>1. \A b \in Owner : Clear(cmds'[b]) => Clear(cmds[b])
    BY <1>3, StepClear DEF Step
  <2>2. conn'[a].sock # "none" =>
          \/ conn'[a].url = url
          \/ conn[a].sock # "none" /\ conn'[a].url = conn[a].url
    <3>1. CASE conn' = [conn EXCEPT ![a] = Opening]
      <4>1. Opening.url = url /\ conn'[a] = Opening
        BY <1>1, <3>1 DEF Opening, NoConn
      <4> QED  BY <4>1
    <3>2. CASE conn[a].sock # "none" /\ Begin(a, Head(cmds[a]), conn[a], [cmds EXCEPT ![a] = Tail(@)])
      <4>1. conn[a].sock \in {"open", "dead"}
        BY <1>1, <3>2 DEF Sound, Stands, Conn
      <4> QED  BY <1>1, <3>2, <4>1, AskSame DEF Begin, SameNode
    <3> QED  BY <1>3, <3>1, <3>2 DEF Take
  <2>3. "main" \in Owner /\ "watch" \in Owner /\ \A b \in Owner : b = a \/ conn'[b] = conn[b]
    BY <1>1 DEF Apart, Owner
  <2> QED  BY <1>1, <2>1, <2>2, <2>3 DEF LeftInv
<1> QED  BY <1>2, <1>3

LEMMA NextLeftInv == TypeInv /\ LeftInv /\ [Next]_vars => LeftInv'
<1> SUFFICES ASSUME TypeInv, LeftInv, [Next]_vars PROVE LeftInv'
  OBVIOUS
<1>1. /\ ActorsTyped /\ cmds \in [Owner -> Seq(Command)] /\ conn \in [Owner -> Conn]
      /\ "main" \in Owner /\ "watch" \in Owner
  BY DEF TypeInv, UserTyped, CmdsTyped, ActorsTyped, Owner
<1>2. ASSUME NEW a \in Owner, Step(a), ~Take(a) PROVE LeftInv'
  <2>1. \A b \in Owner : Clear(cmds'[b]) => Clear(cmds[b])
    BY <1>2, StepClear
  <2>2. SameNode(a, conn[a]) /\ Apart(a) /\ conn[a].sock # "none"
    BY <1>1, <1>2, StepSame, StepApart DEF Step, Connect, Receive, Timeout, Cancel, NextUpdate,
                                           ActorsTyped, Stands
  <2>3. url' = url
    BY <1>2 DEF Step, Connect, Receive, Timeout, Cancel, NextUpdate
  <2> QED  BY <1>1, <2>1, <2>2, <2>3 DEF LeftInv, SameNode, Apart
<1>3. CASE World /\ UNCHANGED browserVars
  <2>1. \A b \in Owner : conn'[b].url = conn[b].url /\ (conn'[b].sock = "none" <=> conn[b].sock = "none")
    <3>1. ASSUME NEW l, NEW n, NEW cs \in [Owner -> Conn], Notify(l, n, cs)
          PROVE  \A b \in Owner : conn'[b].url = cs[b].url /\ conn'[b].sock = cs[b].sock
      BY <3>1 DEF Notify, Conn
    <3>2. CASE \E l \in Label : OpponentMoves(l)
      BY <1>1, <3>1, <3>2 DEF OpponentMoves
    <3>3. ASSUME NEW a \in Owner, NEW r \in conn[a].sent, NodeAnswers(a, r)
          PROVE  \A b \in Owner : conn'[b].url = conn[b].url /\ conn'[b].sock = conn[b].sock
      <4>1. ASSUME NEW kind \in {"answer", "failed", "missing"}
            PROVE  /\ \A b \in Owner : /\ Replied(a, r, kind)[b].url = conn[b].url
                                       /\ Replied(a, r, kind)[b].sock = conn[b].sock
                   /\ "url" \in DOMAIN conn[a]
        BY <1>1 DEF Replied, Conn
      <4>2. CASE \E kind \in {"answer", "failed", "missing"} : conn' = Replied(a, r, kind)
        BY <4>1, <4>2
      <4>3. ASSUME Notify(r.label, game[r.label] + 1, Replied(a, r, "answer"))
            PROVE  \A b \in Owner : conn'[b].url = conn[b].url /\ conn'[b].sock = conn[b].sock
        <5>1. ASSUME NEW b \in Owner PROVE "url" \in DOMAIN Replied(a, r, "answer")[b]
                                         /\ "sock" \in DOMAIN Replied(a, r, "answer")[b]
          BY <1>1 DEF Replied, Conn
        <5> QED  BY <4>1, <4>3, <5>1 DEF Notify
      <4> QED  BY <3>3, <4>2, <4>3 DEF NodeAnswers, Replied
    <3>4. ASSUME NEW a \in Owner, \/ \E r \in conn[a].sent : NodeSubscribes(a, r)
                                 \/ \E f \in conn[a].ready : NodeHasSubscribed(a, f)
          PROVE  \A b \in Owner : conn'[b].url = conn[b].url /\ conn'[b].sock = conn[b].sock
      <4> SUFFICES ASSUME NEW b \in Owner
                   PROVE  conn'[b].url = conn[b].url /\ conn'[b].sock = conn[b].sock
        OBVIOUS
      <4>1. ASSUME NEW r, NodeSubscribes(a, r)
            PROVE  conn'[b].url = conn[b].url /\ conn'[b].sock = conn[b].sock
        BY <1>1, <4>1 DEF NodeSubscribes, Conn
      <4>2. ASSUME NEW f, NodeHasSubscribed(a, f)
            PROVE  conn'[b].url = conn[b].url /\ conn'[b].sock = conn[b].sock
        BY <1>1, <4>2 DEF NodeHasSubscribed, Conn
      <4> QED  BY <3>4, <4>1, <4>2
    <3>5. ASSUME NEW a \in Owner, SocketDies(a)
          PROVE  /\ \A b \in Owner : conn'[b].url = conn[b].url
                 /\ \A b \in Owner : conn'[b].sock = "none" <=> conn[b].sock = "none"
      BY <1>1, <3>5 DEF SocketDies, Conn
    <3> QED  BY <1>3, <3>2, <3>3, <3>4, <3>5 DEF World
  <2>2. url' = url /\ cmds' = cmds
    BY <1>3 DEF World, OpponentMoves, NodeAnswers, NodeSubscribes, NodeHasSubscribed, SocketDies,
                browserVars
  <2> QED  BY <1>1, <2>1, <2>2 DEF LeftInv
<1>4. CASE User
  <2>1. conn' = conn /\ cmds'["watch"] = cmds["watch"]
    BY <1>1, <1>4 DEF User, Click, Move, Retry, RetryWatch, Settings, Tell, transportVars
  <2>2. CASE Settings
    <3>1. cmds'["main"] = cmds["main"] \o <<Cmd("Reconnect", "none")>>
      BY <1>1, <2>2 DEF Settings, Tell
    <3> DEFINE s == <<Cmd("Reconnect", "none")>>
    <3>2. s \in Seq(Command) /\ cmds["main"] \in Seq(Command)
      <4>1. Cmd("Reconnect", "none") \in Command
        BY DEF Cmd, Command
      <4> QED  BY <1>1, <4>1, FewInAQueue
    <3>3. s[1].name = "Reconnect" /\ 1 \in DOMAIN s
      BY DEF Cmd
    <3>4. ~Clear(s)
      BY <3>3 DEF Clear
    <3> QED  BY <3>1, <3>2, <3>4, WasClear DEF LeftInv
  <2>3. CASE User /\ ~Settings
    <3>1. url' = url /\ \E s \in Seq(Command) : cmds'["main"] = cmds["main"] \o s
      <4>1. ASSUME NEW s \in Seq(Command), Tell(s) PROVE cmds'["main"] = cmds["main"] \o s
        BY <1>1, <4>1 DEF Tell
      <4>2. \A l \in Label \cup {"none"} : \A name \in {"ListGames", "Open", "Play", "Watch"} :
              Cmd(name, l) \in Command
        BY DEF Cmd, Command
      <4>3. screen \in Label \cup {"none"}
        BY DEF TypeInv, UserTyped
      <4>4. CASE \E l \in Label : Click(l)
        <5>1. PICK l \in Label : Click(l)
          BY <4>4
        <5>2. <<Cmd("Open", l), Cmd("Watch", l)>> \in Seq(Command)
          BY <4>2, FewInAQueue
        <5> QED  BY <4>1, <5>1, <5>2 DEF Click, transportVars
      <4>5. CASE Move \/ Retry \/ RetryWatch
        <5>1. \A name \in {"Play", "Watch"} : <<Cmd(name, screen)>> \in Seq(Command)
          BY <4>2, <4>3, FewInAQueue
        <5>2. <<Cmd("ListGames", "none")>> \in Seq(Command)
          BY <4>2, FewInAQueue
        <5> QED  BY <4>1, <4>5, <5>1, <5>2 DEF Move, Retry, RetryWatch, transportVars
      <4> QED  BY <2>3, <4>4, <4>5 DEF User
    <3> QED  BY <1>1, <2>1, <3>1, WasClear DEF LeftInv
  <2> QED  BY <1>4, <2>2, <2>3
<1>5. CASE UNCHANGED vars
  BY <1>5 DEF vars, transportVars, browserVars, LeftInv
<1> QED  BY <1>2, <1>3, <1>4, <1>5, TakeLeft DEF Next

\* When no change of the address waits to be dealt with, whoever has a connection has one
\* to the address that is set: the watch is left behind no more than the commands are.
THEOREM NobodyIsLeftBehind == Spec => []OldNodeIsLeft
<1>1. BrowserInit => LeftInv
  BY DEF BrowserInit, Init, LeftInv, NoConn, Owner
<1>2. TypeInv /\ LeftInv => OldNodeIsLeft
  BY DEF LeftInv, OldNodeIsLeft, Clear, Owner
<1> QED  BY InitTypeInv, NextTypeInv, NextLeftInv, <1>1, <1>2, PTL DEF Spec
-----------------------------------------------------------------------------
(* The end of a watch.                                                     *)

\* The watch has not come to rest; or its game is over, or the user is told.
NotSilent ==
  \/ actor'["watch"].pc # "idle"
  \/ actor'["watch"].held >= Decided[actor'["watch"].cmd.label]
  \/ error'["watch"]

LEMMA WatchFails ==
  ASSUME ActorsTyped, NEW c, EndWithError("watch", c)
  PROVE  NotSilent
BY DEF EndWithError, Show, ActorsTyped, Owner, NotSilent

LEMMA WatchAsks ==
  ASSUME ActorsTyped, NEW c, NEW todo, NEW cmd, NEW held, Ask("watch", c, todo, cmd, held)
  PROVE  NotSilent
<1>1. ASSUME NEW pc \in {"wait", "follow"}, NEW t, Go("watch", pc, t, cmd, held) PROVE NotSilent
  BY <1>1 DEF Go, ActorsTyped, Owner, NotSilent
<1> QED  BY <1>1, WatchFails DEF Ask, Follow

LEMMA WatchFailsToHear ==
  ASSUME ActorsTyped, NEW c, Fail("watch", c)
  PROVE  NotSilent
<1>1. ASSUME NEW cmd, NEW held, Follow("watch", cmd, held) PROVE NotSilent
  BY <1>1 DEF Follow, Go, ActorsTyped, Owner, NotSilent
<1> QED  BY <1>1, WatchFails DEF Fail

LEMMA DecidedIsHeard ==
  ASSUME ActorsTyped, NEW c, NEW held, held >= Decided[actor["watch"].cmd.label],
         End("watch", c, held)
  PROVE  NotSilent
<1>1. actor'["watch"] = Idle(actor["watch"].cmd, held)
  BY WatchEnds DEF Became, ActorsTyped, Owner
<1> QED  BY <1>1 DEF Idle, NotSilent

\* What the main actor does leaves the watch alone, or gives it something to do.
LEMMA MainTells ==
  ASSUME TypeInv, Step("main")
  PROVE  cmds'["watch"] = cmds["watch"] \/ cmds'["watch"] # <<>>
<1>1. cmds \in [Owner -> Seq(Command)] /\ CmdsTyped(cmds) /\ actor["main"].cmd \in Command
      /\ "main" \in Owner /\ "watch" \in Owner
  BY DEF TypeInv, UserTyped, CmdsTyped, ActorsTyped, Work, Owner
<1>2. ASSUME NEW q \in [Owner -> Seq(Command)], q["watch"] = cmds["watch"], NEW c \in Command,
             cmds' = q \/ cmds' = [q EXCEPT !["watch"] = Append(@, c)]
      PROVE  cmds'["watch"] = cmds["watch"] \/ cmds'["watch"] # <<>>
  BY <1>1, <1>2, OneMore
<1>3. CASE Take("main")
  <2> DEFINE queue == [cmds EXCEPT !["main"] = Tail(@)]
  <2>1. /\ queue \in [Owner -> Seq(Command)] /\ queue["watch"] = cmds["watch"]
        /\ Head(cmds["main"]) \in Command /\ Cmd("Reconnect", "none") \in Command
    BY <1>1, <1>3, TakenTyped DEF Take, CmdsTyped, Given, Cmd, Command
  <2>2. CASE PassOn("main", queue)
    BY <1>2, <2>1, <2>2 DEF PassOn
  <2>3. CASE cmds' = queue \/ Begin("main", Head(cmds["main"]), conn["main"], queue)
    BY <1>2, <2>1, <2>3 DEF Begin
  <2> QED  BY <1>3, <2>2, <2>3 DEF Take
<1>4. CASE Receive("main")
  BY <1>1, <1>2, <1>4 DEF Receive, Fail, Begin
<1> QED  BY <1>3, <1>4 DEF Step, Connect, Timeout, Fail

\* What the watch does itself.
LEMMA WatchIsHeard ==
  ASSUME TypeInv, Step("watch"), ~Cancel
  PROVE  NotSilent \/ actor'["watch"].cmd.name # "Watch"
<1> DEFINE w == actor["watch"]
           c == conn["watch"]
           f == Head(c.inbox)
<1>1. /\ ActorsTyped /\ Sound(c) /\ "watch" \in Owner /\ actor \in [Owner -> Work]
      /\ error \in [Owner -> BOOLEAN]
  BY DEF TypeInv, ActorsTyped, Owner
<1>2. CASE Take("watch")
  <2>1. CASE actor' = [actor EXCEPT !["watch"] = Idle(NoCmd, 0)]
    BY <1>1, <2>1 DEF Idle, NoCmd, Cmd
  <2>2. CASE Go("watch", "connect", <<>>, Head(cmds["watch"]), 0)
    BY <1>1, <2>2 DEF Go, NotSilent
  <2> QED  BY <1>1, <1>2, <2>1, <2>2, WatchAsks DEF Take, Begin
<1>3. CASE Connect("watch")
  BY <1>1, <1>3, WatchAsks, WatchFails DEF Connect
<1>4. CASE Receive("watch")
  <2>1. CASE actor' = actor
    BY <1>4, <2>1 DEF Receive, NotSilent
  <2>2. CASE Begin("watch", w.cmd, Read(c), cmds)
    BY <1>1, <2>2, WatchAsks DEF Begin
  <2>3. CASE AcceptForWatch(Read(c), f, w.cmd, w.todo)
    <3>1. ASSUME NEW held, held >= Decided[w.cmd.label], End("watch", Read(c), held)
          PROVE  NotSilent
      BY <1>1, <3>1, DecidedIsHeard
    <3> QED  BY <1>1, <2>3, <3>1, WatchAsks DEF AcceptForWatch
  <2> QED  BY <1>1, <1>4, <2>1, <2>2, <2>3, WatchFailsToHear DEF Receive
<1>5. CASE Timeout("watch")
  BY <1>1, <1>5, WatchFailsToHear DEF Timeout
<1>6. CASE NextUpdate
  <2>1. ASSUME NEW d, NEW g, Notified(d, g) PROVE NotSilent
    <3>1. CASE \E held : held >= Decided[w.cmd.label] /\ End("watch", d, held)
      BY <1>1, <3>1, DecidedIsHeard
    <3>2. CASE \E held : Became("watch", [w EXCEPT !.held = held], d, error["watch"])
      BY <1>1, <1>6, <3>2 DEF Became, NextUpdate, NotSilent, ActorsTyped, Work
    <3> QED  BY <1>1, <2>1, <3>1, <3>2, NotifiedIs
  <2>2. ASSUME NEW d, d.closed, NEW held, End("watch", d, held) PROVE NotSilent
    BY <1>1, <2>2 DEF End, Show, IsDead, NotSilent
  <2>3. ASSUME c.inbox # <<>>, f.kind = "closed" PROVE Read(c).closed
    BY <1>1, <2>3, ReadIs
  <2>4. CASE actor' = actor
    BY <1>6, <2>4 DEF NextUpdate, NotSilent
  <2> QED  BY <1>6, <2>1, <2>2, <2>3, <2>4 DEF NextUpdate
<1> QED  BY <1>2, <1>3, <1>4, <1>5, <1>6 DEF Step

LEMMA NextEnds == TypeInv /\ NoSilentDeath /\ [Next]_vars => NoSilentDeath'
<1> SUFFICES ASSUME TypeInv, NoSilentDeath, [Next]_vars PROVE NoSilentDeath'
  OBVIOUS
<1>1. ActorsTyped /\ cmds \in [Owner -> Seq(Command)] /\ "main" \in Owner /\ "watch" \in Owner
      /\ \A a \in Owner : a = "main" \/ a = "watch"
  BY DEF TypeInv, UserTyped, CmdsTyped, Owner
<1>2. CASE Step("main")
  <2>1. actor'["watch"] = actor["watch"] /\ error'["watch"] = error["watch"]
    BY <1>1, <1>2, StepApart DEF Apart, Owner
  <2> QED  BY <1>2, <2>1, MainTells DEF NoSilentDeath
<1>3. CASE Step("watch") /\ ~Cancel
  BY <1>3, WatchIsHeard DEF NotSilent, NoSilentDeath
<1>4. CASE Cancel
  BY <1>4 DEF Cancel, NoSilentDeath
<1>5. CASE User
  <2>1. actor' = actor /\ error' = error /\ cmds'["watch"] = cmds["watch"]
    BY <1>1, <1>5 DEF User, Click, Move, Retry, RetryWatch, Settings, Tell
  <2> QED  BY <2>1 DEF NoSilentDeath
<1>6. CASE UNCHANGED browserVars
  BY <1>6 DEF browserVars, NoSilentDeath
<1> QED  BY <1>1, <1>2, <1>3, <1>4, <1>5, <1>6 DEF Next, vars

\* A watch that has come to rest, with no command for it to take up, has seen its game
\* decided, or the user is shown that it has failed: no order of dying sockets, answers,
\* timeouts and commands ends it quietly.
THEOREM NoWatchEndsQuietly == Spec => []NoSilentDeath
<1>1. BrowserInit => NoSilentDeath
  BY DEF BrowserInit, Idle, NoCmd, Cmd, Owner, NoSilentDeath
<1> QED  BY InitTypeInv, NextTypeInv, NextEnds, <1>1, PTL DEF Spec
-----------------------------------------------------------------------------
(* What is known to be dead.                                               *)

\* Of an actor: it has no dead connection, or it is a watch that follows its game.
Dropped(a) == actor[a].pc # "follow" => ~conn[a].closed

LEMMA BecameDropped ==
  ASSUME ActorsTyped, NEW a \in Owner, NEW w, NEW c, NEW shown, Became(a, w, c, shown),
         w.pc = "follow" \/ ~c.closed
  PROVE  Dropped(a)'
BY DEF Became, ActorsTyped, Dropped

LEMMA FailsDropped ==
  ASSUME WorldTyped, ActorsTyped, NEW a \in Owner, NEW c, c \in Conn, FailsOver(a, c)
  PROVE  Dropped(a)'
<1>1. PICK d : Became(a, Rested(a), d, TRUE) /\ (d = NoConn \/ (~IsDead(c) /\ GivenUp(c, d)))
  BY DEF FailsOver
<1>2. ~NoConn.closed
  BY DEF NoConn
<1>3. ~IsDead(c) /\ GivenUp(c, d) => ~d.closed
  BY DEF IsDead, GivenUp, NeverAnswered, AnsweredLate, Conn
<1> QED  BY <1>1, <1>2, <1>3, BecameDropped

LEMMA FollowsDropped ==
  ASSUME ActorsTyped, NEW a \in Owner, NEW c, NEW cmd, NEW held, FollowsOver(a, c, cmd, held)
  PROVE  Dropped(a)'
BY BecameDropped DEF FollowsOver, At

LEMMA AskDropped ==
  ASSUME WorldTyped, ActorsTyped, NEW a \in Owner, NEW c, Sound(c), ~c.closed,
         c.sock \in {"open", "dead"}, NEW todo, NEW cmd, NEW held, Ask(a, c, todo, cmd, held)
  PROVE  Dropped(a)'
<1>1. c \in Conn /\ (c.sock # "open" => Refused(c) \in Conn)
  BY RefusedSound DEF Sound
<1>2. \A r : ~SendTo(c, r).closed
  BY <1>1 DEF SendTo, Conn
<1> QED  BY <1>1, <1>2, AskComesTo, BecameDropped, FailsDropped, FollowsDropped

LEMMA FailDropped ==
  ASSUME WorldTyped, ActorsTyped, NEW a \in Owner, NEW c, Sound(c), Fail(a, c)
  PROVE  Dropped(a)'
<1>1. NoConn \in Conn /\ c \in Conn
  BY FreshIsSound DEF WorldTyped, Sound
<1>2. CASE Follow(a, actor[a].cmd, actor[a].held) /\ Leave(a, c)
  BY <1>2, FollowAndLeave, FollowsDropped
<1>3. CASE EndWithError(a, NoConn) \/ EndWithError(a, c)
  BY <1>1, <1>3, EndWithErrorIs, FailsDropped
<1> QED  BY <1>2, <1>3 DEF Fail

LEMMA EndDropped ==
  ASSUME ActorsTyped, NEW c, NEW held, End("watch", c, held)
  PROVE  Dropped("watch")'
<1>1. ~(IF IsDead(c) THEN NoConn ELSE c).closed
  BY DEF IsDead, NoConn
<1> QED  BY <1>1, WatchEnds, BecameDropped DEF Owner

\* What waits for an answer hears of the end of its connection, and then it fails.
LEMMA ReceiveDropped ==
  ASSUME TypeInv, NEW a \in Owner, Dropped(a), Receive(a)
  PROVE  Dropped(a)'
<1> DEFINE c == conn[a]
           f == Head(c.inbox)
           todo == actor[a].todo
<1>1. /\ WorldTyped /\ ActorsTyped /\ Sound(c) /\ c \in Conn /\ actor[a].pc = "wait" /\ ~c.closed
      /\ c.inbox # <<>> /\ actor \in [Owner -> Work] /\ conn \in [Owner -> Conn]
  BY DEF TypeInv, ActorsTyped, Receive, Dropped, Sound
<1>2. /\ Sound(Read(c)) /\ f \in Frame /\ (Read(c).closed <=> c.closed \/ f.kind = "closed")
      /\ Read(c).sock \in {"open", "dead"}
  BY <1>1, ReadIs, Waiting
<1>3. CASE f.kind = "update" /\ conn' = [conn EXCEPT ![a] = Park(@, f)] /\ UNCHANGED actor
  <2>1. Park(c, f).closed = c.closed
    BY <1>1, <1>3, ParkSound
  <2> QED  BY <1>1, <1>3, <2>1 DEF Dropped
<1>4. Fits(Head(todo), f) => ~Read(c).closed
  BY <1>1, <1>2, FrameKinds DEF IsAnswer
<1>5. CASE Fits(Head(todo), f) /\ Begin(a, actor[a].cmd, Read(c), cmds)
  BY <1>1, <1>2, <1>4, <1>5, AskDropped DEF Begin
<1>6. CASE /\ Fits(Head(todo), f) /\ a = "main"
           /\ AcceptForMain(Read(c), f, actor[a].cmd, todo)
  BY <1>1, <1>2, <1>4, <1>6, AskDropped, EndWithErrorIs, FailsDropped DEF AcceptForMain, Sound
<1>7. CASE /\ Fits(Head(todo), f) /\ a = "watch"
           /\ AcceptForWatch(Read(c), f, actor[a].cmd, todo)
  <2>1. ASSUME NEW held, End("watch", Read(c), held) PROVE Dropped(a)'
    BY <1>1, <1>7, <2>1, EndDropped
  <2> QED  BY <1>1, <1>2, <1>4, <1>7, <2>1, AskDropped DEF AcceptForWatch
<1>8. CASE Fail(a, Read(c))
  BY <1>1, <1>2, <1>8, FailDropped
<1> QED  BY <1>3, <1>5, <1>6, <1>7, <1>8 DEF Receive, Owner

LEMMA StepDropped ==
  ASSUME TypeInv, NEW a \in Owner, Dropped(a), Step(a)
  PROVE  Dropped(a)'
<1> DEFINE c == conn[a]
<1>1. /\ WorldTyped /\ ActorsTyped /\ Sound(c) /\ c \in Conn /\ actor \in [Owner -> Work]
      /\ conn \in [Owner -> Conn] /\ ~NoConn.closed /\ ~Opening.closed
  BY DEF TypeInv, ActorsTyped, Sound, NoConn, Opening
<1>2. CASE Take(a)
  <2>1. actor[a].pc = "idle" /\ ~c.closed
    BY <1>2 DEF Take, Dropped
  <2>2. CASE conn' = [conn EXCEPT ![a] = NoConn] \/ conn' = [conn EXCEPT ![a] = Opening]
    BY <1>1, <2>2 DEF Dropped
  <2>3. CASE c.sock # "none" /\ Begin(a, Head(cmds[a]), c, [cmds EXCEPT ![a] = Tail(@)])
    <3>1. c.sock \in {"open", "dead"}
      BY <1>1, <2>1, <2>3 DEF ActorsTyped, Stands, Conn
    <3> QED  BY <1>1, <2>1, <2>3, <3>1, AskDropped DEF Begin
  <2> QED  BY <1>2, <2>2, <2>3 DEF Take
<1>3. CASE Connect(a)
  <2> DEFINE d == [c EXCEPT !.sock = "open"]
  <2>1. Stands("connect", c) /\ ~c.closed
    BY <1>1, <1>3 DEF Connect, ActorsTyped, Dropped
  <2>2. \A n \in DOMAIN <<>> : FALSE
    OBVIOUS
  <2>3. Sound(d) /\ ~d.closed /\ d.sock = "open"
    BY <1>1, <2>1, <2>2 DEF Sound, Stands, Conn
  <2>4. NoConn \in Conn
    BY <1>1, FreshIsSound DEF WorldTyped, Sound
  <2>5. CASE Ask(a, d, <<"Register">>, actor[a].cmd, 0)
    BY <1>1, <2>3, <2>5, AskDropped
  <2>6. CASE EndWithError(a, NoConn)
    BY <1>1, <2>4, <2>6, EndWithErrorIs, FailsDropped
  <2> QED  BY <1>3, <2>5, <2>6 DEF Connect
<1>4. CASE Receive(a)
  BY <1>4, ReceiveDropped
<1>5. CASE Timeout(a)
  BY <1>1, <1>5, FailDropped DEF Timeout
<1>6. CASE a = "watch" /\ Cancel
  BY <1>1, <1>6 DEF Cancel, Dropped
<1>7. CASE a = "watch" /\ NextUpdate
  <2>1. ASSUME NEW d, NEW held, End("watch", d, held) PROVE Dropped(a)'
    BY <1>1, <1>7, <2>1, EndDropped
  <2>2. ASSUME actor'["watch"].pc = "follow" PROVE Dropped(a)'
    BY <1>7, <2>2 DEF Dropped
  <2>3. ASSUME NEW d, NEW g, Notified(d, g) PROVE Dropped(a)'
    <3>1. CASE \E held : End("watch", d, held)
      BY <2>1, <3>1
    <3>2. CASE \E held : Became("watch", [actor["watch"] EXCEPT !.held = held], d, error["watch"])
      BY <1>1, <1>7, <2>2, <3>2 DEF Became, NextUpdate, Work
    <3> QED  BY <1>1, <2>3, <3>1, <3>2, NotifiedIs
  <2>4. CASE UNCHANGED actor
    BY <1>7, <2>2, <2>4 DEF NextUpdate
  <2> QED  BY <1>7, <2>1, <2>3, <2>4 DEF NextUpdate
<1> QED  BY <1>2, <1>3, <1>4, <1>5, <1>6, <1>7 DEF Step

\* What comes of the world, an actor has still to read.
LEMMA WorldKeepsLatch ==
  ASSUME ActorsTyped, World, NEW a \in Owner
  PROVE  conn'[a].closed = conn[a].closed
<1>1. conn \in [Owner -> Conn]
  BY DEF ActorsTyped
<1>2. ASSUME NEW l, NEW n, NEW cs, Notify(l, n, cs), "closed" \in DOMAIN cs[a]
      PROVE  conn'[a].closed = cs[a].closed
  BY <1>2 DEF Notify
<1>3. CASE \E l \in Label : OpponentMoves(l)
  <2>1. "closed" \in DOMAIN conn[a]
    BY <1>1 DEF Conn
  <2> QED  BY <1>2, <1>3, <2>1 DEF OpponentMoves
<1>4. ASSUME NEW b \in Owner, NEW r \in conn[b].sent, NodeAnswers(b, r)
      PROVE  conn'[a].closed = conn[a].closed
  <2>1. ASSUME NEW kind
        PROVE  /\ Replied(b, r, kind)[a].closed = conn[a].closed
               /\ "closed" \in DOMAIN Replied(b, r, kind)[a]
    BY <1>1 DEF Replied, Conn
  <2>2. CASE \E kind : conn' = Replied(b, r, kind)
    BY <2>1, <2>2
  <2>3. CASE Notify(r.label, game[r.label] + 1, Replied(b, r, "answer"))
    BY <1>2, <2>1, <2>3
  <2> QED  BY <1>4, <2>2, <2>3 DEF NodeAnswers, Replied
<1>5. ASSUME NEW b \in Owner, NEW r, NodeSubscribes(b, r)
      PROVE  conn'[a].closed = conn[a].closed
  BY <1>1, <1>5 DEF NodeSubscribes, Conn
<1>6. ASSUME NEW b \in Owner, NEW f, NodeHasSubscribed(b, f)
      PROVE  conn'[a].closed = conn[a].closed
  BY <1>1, <1>6 DEF NodeHasSubscribed, Conn
<1>7. ASSUME NEW b \in Owner, SocketDies(b)
      PROVE  conn'[a].closed = conn[a].closed
  BY <1>1, <1>7 DEF SocketDies, Conn
<1> QED  BY <1>3, <1>4, <1>5, <1>6, <1>7 DEF World

LEMMA NextDropped == TypeInv /\ KnownDeadIsDropped /\ [Next]_vars => KnownDeadIsDropped'
<1> SUFFICES ASSUME TypeInv, KnownDeadIsDropped, [Next]_vars, NEW a \in Owner PROVE Dropped(a)'
  BY DEF KnownDeadIsDropped, Dropped
<1>1. ActorsTyped /\ Dropped(a)
  BY DEF TypeInv, KnownDeadIsDropped, Dropped
<1>2. ASSUME NEW b \in Owner, Step(b) PROVE Dropped(a)'
  <2>1. CASE a = b
    BY <1>1, <1>2, <2>1, StepDropped
  <2>2. CASE a # b
    BY <1>1, <1>2, <2>2, StepApart DEF Apart, Dropped
  <2> QED  BY <2>1, <2>2
<1>3. CASE World /\ UNCHANGED browserVars
  <2>1. conn'[a].closed = conn[a].closed
    BY <1>1, <1>3, WorldKeepsLatch
  <2> QED  BY <1>1, <1>3, <2>1 DEF browserVars, Dropped
<1>4. CASE User \/ UNCHANGED vars
  BY <1>1, <1>4 DEF User, Click, Move, Retry, RetryWatch, Settings, vars, transportVars, browserVars,
                    Dropped
<1> QED  BY <1>2, <1>3, <1>4 DEF Next

\* What an actor has learnt to be dead it does not keep for its next command, however its
\* last one ended: not even a watch whose game was decided by a notification that it had
\* parked before.
THEOREM DeadConnectionsGo == Spec => []KnownDeadIsDropped
<1>1. BrowserInit => KnownDeadIsDropped
  BY DEF BrowserInit, Init, NoConn, Owner, KnownDeadIsDropped
<1> QED  BY InitTypeInv, NextTypeInv, NextDropped, <1>1, PTL DEF Spec
-----------------------------------------------------------------------------
(* Nothing is missed once a watch counts among the subscribers.            *)

\* Frame f tells of record n of game l, or of a later one.
Carries(f, l, n) == f.kind \in {"update", "answer"} /\ f.label = l /\ f.n >= n

\* A watch knows of record n of game l, or has yet to read of it.
Holds(held, c, l, n) ==
  \/ held >= n
  \/ \E f \in c.ready : Carries(f, l, n)
  \/ \E m \in DOMAIN c.inbox : Carries(c.inbox[m], l, n)
  \/ \E m \in DOMAIN c.pending : Carries(c.pending[m], l, n)

\* A watch follows its game from when its first GET is answered.  Until then what it
\* has of the game may be older than the node's, and earlier notifications were for
\* another command.
OnTrack(w, c) ==
  \/ w.pc = "follow"
  \/ w.pc = "wait" /\ Head(w.todo) \in {"Subscribe", "Previous"}
  \/ w.pc = "wait" /\ Head(w.todo) = "Get" /\ \E m \in DOMAIN c.inbox : c.inbox[m].kind = "answer"

CaughtUp(w, c, g) ==
  c.sock = "open" /\ w.cmd.label \in c.subs /\ OnTrack(w, c) =>
    Holds(w.held, c, w.cmd.label, g[w.cmd.label])

\* What the node answers in two parts is a subscription; only of a previous address
\* may it know nothing.
Says(c) ==
  /\ \A f \in c.ready : f.kind = "answer" /\ f.to = "Subscribe"
  /\ \A n \in DOMAIN c.inbox : c.inbox[n].kind = "missing" => c.inbox[n].to = "Previous"

MissInv == late = 0 => Says(conn["watch"]) /\ CaughtUp(actor["watch"], conn["watch"], game)

\* What a watch knows of it goes on knowing of, whether a frame is read, parked or comes.
LEMMA SameHolds ==
  ASSUME NEW held, NEW c, NEW l, NEW n, Holds(held, c, l, n),
         NEW d, d.inbox = c.inbox, d.pending = c.pending, c.ready \subseteq d.ready
  PROVE  Holds(held, d, l, n)
BY DEF Holds

LEMMA ReadHolds ==
  ASSUME NEW held \in Nat, NEW c, Sound(c), c.inbox # <<>>, NEW l, NEW n \in Nat, Holds(held, c, l, n),
         NEW more \in Nat, more >= held, Carries(Head(c.inbox), l, n) => more >= n
  PROVE  Holds(more, Read(c), l, n)
<1>1. /\ Read(c).inbox = Tail(c.inbox) /\ Read(c).pending = c.pending /\ Read(c).ready = c.ready
      /\ c.inbox \in Seq(Frame)
  BY ReadIs DEF Sound, Conn
<1>2. ASSUME NEW m \in DOMAIN c.inbox, Carries(c.inbox[m], l, n)
      PROVE  m = 1 \/ \E k \in DOMAIN Tail(c.inbox) : Carries(Tail(c.inbox)[k], l, n)
  <2>1. m # 1 => m - 1 \in DOMAIN Tail(c.inbox) /\ Tail(c.inbox)[m - 1] = c.inbox[m - 1 + 1]
                 /\ m - 1 + 1 = m
    BY <1>1, Rest1
  <2> QED  BY <1>2, <2>1
<1>3. Head(c.inbox) = c.inbox[1]
  BY <1>1, Rest1
<1> QED  BY <1>1, <1>2, <1>3 DEF Holds

LEMMA ParkHolds ==
  ASSUME NEW held \in Nat, NEW c, Sound(c), c.inbox # <<>>, Head(c.inbox).kind = "update",
         NEW l, NEW n \in Nat, Holds(held, c, l, n)
  PROVE  Holds(held, Park(c, Head(c.inbox)), l, n)
<1> DEFINE f == Head(c.inbox)
           d == Park(c, f)
<1>0. c.inbox \in Seq(Frame) /\ c.pending \in Seq(Frame)
  BY DEF Sound, Conn
<1>1. /\ d.inbox = Tail(c.inbox) /\ d.pending = Append(c.pending, f) /\ d.ready = c.ready
      /\ c.inbox \in Seq(Frame) /\ c.pending \in Seq(Frame) /\ f \in Frame /\ f = c.inbox[1]
  BY <1>0, ParkSound, Rest1
<1>2. ASSUME NEW m \in DOMAIN c.inbox, Carries(c.inbox[m], l, n)
      PROVE  m = 1 \/ \E k \in DOMAIN Tail(c.inbox) : Carries(Tail(c.inbox)[k], l, n)
  <2>1. m # 1 => m - 1 \in DOMAIN Tail(c.inbox) /\ Tail(c.inbox)[m - 1] = c.inbox[m - 1 + 1]
                 /\ m - 1 + 1 = m
    BY <1>1, Rest1
  <2> QED  BY <1>2, <2>1
<1>3. /\ Len(c.pending) + 1 \in DOMAIN Append(c.pending, f)
      /\ Append(c.pending, f)[Len(c.pending) + 1] = f
      /\ \A m \in DOMAIN c.pending : m \in DOMAIN Append(c.pending, f) /\ Append(c.pending, f)[m] = c.pending[m]
  BY <1>1, OneMore
<1> QED  BY <1>1, <1>2, <1>3 DEF Holds

LEMMA UnparkHolds ==
  ASSUME NEW held \in Nat, NEW c, Sound(c), c.pending # <<>>, NEW l, NEW n \in Nat, Holds(held, c, l, n),
         NEW more \in Nat, more >= held, Carries(Head(c.pending), l, n) => more >= n
  PROVE  Holds(more, [c EXCEPT !.pending = Tail(@)], l, n)
<1> DEFINE d == [c EXCEPT !.pending = Tail(@)]
<1>1. /\ d.pending = Tail(c.pending) /\ d.inbox = c.inbox /\ d.ready = c.ready
      /\ c.pending \in Seq(Frame)
  BY DEF Sound, Conn
<1>2. ASSUME NEW m \in DOMAIN c.pending, Carries(c.pending[m], l, n)
      PROVE  m = 1 \/ \E k \in DOMAIN Tail(c.pending) : Carries(Tail(c.pending)[k], l, n)
  <2>1. m # 1 => m - 1 \in DOMAIN Tail(c.pending) /\ Tail(c.pending)[m - 1] = c.pending[m - 1 + 1]
                 /\ m - 1 + 1 = m
    BY <1>1, Rest1
  <2> QED  BY <1>2, <2>1
<1>3. Head(c.pending) = c.pending[1]
  BY <1>1, Rest1
<1> QED  BY <1>1, <1>2, <1>3 DEF Holds

LEMMA TellHolds ==
  ASSUME NEW held, NEW c \in Conn, NEW l, NEW n, NEW f \in Frame,
         Holds(held, c, l, n) \/ Carries(f, l, n),
         NEW d, d.inbox = Append(c.inbox, f), d.pending = c.pending,
         \A g \in c.ready : g \in d.ready \/ g = f
  PROVE  Holds(held, d, l, n)
<1>1. /\ Len(c.inbox) + 1 \in DOMAIN Append(c.inbox, f)
      /\ Append(c.inbox, f)[Len(c.inbox) + 1] = f
      /\ \A m \in DOMAIN c.inbox : m \in DOMAIN Append(c.inbox, f) /\ Append(c.inbox, f)[m] = c.inbox[m]
  BY OneMore DEF Conn
<1> QED  BY <1>1 DEF Holds

\* More frames put a watch on track only if one of them is an answer.
LEMMA TellTrack ==
  ASSUME NEW w, NEW c \in Conn, NEW f \in Frame, NEW d, d.inbox = Append(c.inbox, f), OnTrack(w, d)
  PROVE  OnTrack(w, c) \/ (f.kind = "answer" /\ w.pc = "wait" /\ Head(w.todo) = "Get")
<1>1. \A m \in DOMAIN Append(c.inbox, f) :
        \/ m \in DOMAIN c.inbox /\ Append(c.inbox, f)[m] = c.inbox[m]
        \/ Append(c.inbox, f)[m] = f
  BY OneMore DEF Conn
<1> QED  BY <1>1 DEF OnTrack

LEMMA SaysMore ==
  ASSUME NEW c \in Conn, Says(c), NEW f \in Frame, f.kind = "missing" => f.to = "Previous",
         NEW d, d.inbox = Append(c.inbox, f), d.ready \subseteq c.ready
  PROVE  Says(d)
<1>1. \A m \in DOMAIN Append(c.inbox, f) :
        \/ m \in DOMAIN c.inbox /\ Append(c.inbox, f)[m] = c.inbox[m]
        \/ Append(c.inbox, f)[m] = f
  BY OneMore DEF Conn
<1> QED  BY <1>1 DEF Says

\* Where nothing is out the node has said nothing.
LEMMA QuietSays ==
  ASSUME NEW c, NoAnswers(c), c.ready = {}
  PROVE  Says(c)
BY DEF NoAnswers, IsAnswer, Says

\* The next request of a watch is made after what it needs to know was read.
LEMMA AskCaughtUp ==
  ASSUME ActorsTyped, NEW c, Sound(c), c.sock \in {"open", "dead"}, late = 0, late' = 0,
         NEW todo, NEW cmd, NEW held, Ask("watch", c, todo, cmd, held),
         \/ todo # <<>> /\ Head(todo) \in {"Register", "Games"}
         \/ todo # <<>> /\ Head(todo) = "Get" /\ NoAnswers(c)
         \/ /\ todo # <<>> => Head(todo) \in {"Subscribe", "Previous"}
            /\ c.sock = "open" /\ cmd.label \in c.subs => Holds(held, c, cmd.label, game[cmd.label])
  PROVE  CaughtUp(actor'["watch"], conn'["watch"], game)
<1>1. "watch" \in Owner /\ c \in Conn
  BY DEF Owner, Sound
<1>2. CASE todo = <<>> /\ Became("watch", At("follow", <<>>, cmd, held), c, FALSE)
  <2>1. actor'["watch"] = At("follow", <<>>, cmd, held) /\ conn'["watch"] = c
    BY <1>1, <1>2 DEF Became, ActorsTyped
  <2>2. c.sock = "open" /\ cmd.label \in c.subs => Holds(held, c, cmd.label, game[cmd.label])
    BY <1>2
  <2> QED  BY <2>1, <2>2 DEF CaughtUp, At
<1>3. CASE /\ todo # <<>> /\ c.sock = "open"
           /\ Became("watch", At("wait", todo, cmd, held),
                     SendTo(c, [type |-> Head(todo), label |-> cmd.label, late |-> 0]), FALSE)
  <2> DEFINE d == SendTo(c, [type |-> Head(todo), label |-> cmd.label, late |-> 0])
             v == At("wait", todo, cmd, held)
  <2>1. actor'["watch"] = v /\ conn'["watch"] = d
    BY <1>1, <1>3 DEF Became, ActorsTyped
  <2>2. d.inbox = c.inbox /\ d.pending = c.pending /\ d.ready = c.ready /\ d.subs = c.subs
        /\ d.sock = c.sock
    BY <1>1 DEF SendTo, Conn
  <2>3. v.pc = "wait" /\ v.todo = todo /\ v.cmd = cmd /\ v.held = held
    BY DEF At
  <2>4. CASE Head(todo) \in {"Register", "Games"}
    BY <2>1, <2>3, <2>4 DEF CaughtUp, OnTrack
  <2>5. CASE Head(todo) = "Get" /\ NoAnswers(c)
    <3>1. ~OnTrack(v, d)
      BY <2>2, <2>3, <2>5 DEF OnTrack, NoAnswers, IsAnswer
    <3> QED  BY <2>1, <3>1 DEF CaughtUp
  <2>6. CASE c.sock = "open" /\ cmd.label \in c.subs => Holds(held, c, cmd.label, game[cmd.label])
    <3>1. c.sock = "open" /\ cmd.label \in c.subs => Holds(held, d, cmd.label, game[cmd.label])
      BY <2>2, <2>6, SameHolds
    <3> QED  BY <2>1, <2>2, <2>3, <3>1 DEF CaughtUp
  <2> QED  BY <1>3, <2>4, <2>5, <2>6
<1>4. CASE c.sock # "open" /\ FollowsOver("watch", Refused(c), cmd, held)
  <2>1. PICK d : GivenUp(Refused(c), d) /\ Became("watch", At("follow", <<>>, cmd, held), d, FALSE)
    BY <1>4 DEF FollowsOver
  <2>2. Refused(c).sock = "dead" /\ Refused(c) \in Conn
    BY <1>4, RefusedSound DEF Sound
  <2>3. d.sock = "dead"
    BY <2>1, <2>2 DEF GivenUp, NeverAnswered, AnsweredLate, Conn
  <2> QED  BY <1>1, <2>1, <2>3 DEF Became, ActorsTyped, CaughtUp
<1>5. CASE FailsOver("watch", Refused(c))
  <2>1. actor'["watch"] = Rested("watch") /\ Rested("watch").pc = "idle"
    BY <1>1, <1>5 DEF FailsOver, Became, ActorsTyped, Rested, Idle
  <2> QED  BY <2>1 DEF CaughtUp, OnTrack
<1> QED  BY <1>2, <1>3, <1>4, <1>5, AskComesTo, <1>1

\* A watch that rests has nothing to keep up with.
LEMMA RestsCaughtUp ==
  ASSUME ActorsTyped, actor'["watch"].pc \notin {"wait", "follow"}
  PROVE  CaughtUp(actor'["watch"], conn'["watch"], game)
BY DEF CaughtUp, OnTrack

LEMMA EndsIdle ==
  ASSUME ActorsTyped, NEW c, EndWithError("watch", c) \/ \E held : End("watch", c, held)
  PROVE  actor'["watch"].pc = "idle"
<1>1. PICK held : actor' = [actor EXCEPT !["watch"] = Idle(actor["watch"].cmd, held)]
  BY DEF EndWithError, End, Rest, ActorsTyped, Owner
<1> QED  BY <1>1 DEF Idle, ActorsTyped, Owner

\* What fails of a watch is not what told it of a record.
LEMMA FailCaughtUp ==
  ASSUME TypeInv, late = 0, late' = 0, actor["watch"].pc = "wait",
         NEW c, Sound(c), Fail("watch", c), c.ready = {},
         Head(actor["watch"].todo) = "Previous" =>
           (c.sock = "open" /\ actor["watch"].cmd.label \in c.subs =>
              Holds(actor["watch"].held, c, actor["watch"].cmd.label, game[actor["watch"].cmd.label]))
  PROVE  CaughtUp(actor'["watch"], conn'["watch"], game)
<1> DEFINE w == actor["watch"]
<1>1. ActorsTyped /\ "watch" \in Owner /\ c \in Conn
  BY DEF TypeInv, Owner, Sound
<1>2. CASE EndWithError("watch", NoConn) \/ EndWithError("watch", c)
  BY <1>1, <1>2, EndsIdle, RestsCaughtUp
<1>3. CASE Head(w.todo) = "Previous" /\ Follow("watch", w.cmd, w.held) /\ Leave("watch", c)
  <2>1. PICK d : GivenUp(c, d) /\ Became("watch", At("follow", <<>>, w.cmd, w.held), d, FALSE)
    BY <1>3, FollowAndLeave DEF FollowsOver
  <2>2. d = NeverAnswered(c)
    BY <2>1 DEF GivenUp
  <2>3. /\ d.inbox = c.inbox /\ d.pending = c.pending /\ c.ready \subseteq d.ready
        /\ d.sock = c.sock /\ d.subs = c.subs
    BY <1>1, <2>2 DEF NeverAnswered, Conn
  <2>4. c.sock = "open" /\ w.cmd.label \in c.subs => Holds(w.held, d, w.cmd.label, game[w.cmd.label])
    BY <1>3, <2>3, SameHolds
  <2>5. actor'["watch"] = At("follow", <<>>, w.cmd, w.held) /\ conn'["watch"] = d
    BY <1>1, <2>1 DEF Became, ActorsTyped
  <2> QED  BY <2>3, <2>4, <2>5 DEF CaughtUp, At
<1> QED  BY <1>2, <1>3 DEF Fail

LEMMA WatchBegins ==
  ASSUME NEW cmd \in Given("watch"), cmd.name # "Reconnect"
  PROVE  Program("watch", cmd) # <<>> /\ Head(Program("watch", cmd)) = "Games"
<1>1. \/ Program("watch", cmd) = <<"Games", "Get", "Subscribe">>
      \/ Program("watch", cmd) = <<"Games", "Get", "Subscribe", "Previous">>
  BY ProgramIs DEF Owner
<1>2. /\ <<"Games", "Get", "Subscribe">> # <<>>
      /\ Head(<<"Games", "Get", "Subscribe">>) = "Games"
  OBVIOUS
<1>3. /\ <<"Games", "Get", "Subscribe", "Previous">> # <<>>
      /\ Head(<<"Games", "Get", "Subscribe", "Previous">>) = "Games"
  OBVIOUS
<1> QED  BY <1>1, <1>2, <1>3

LEMMA ReceiveCaughtUp ==
  ASSUME TypeInv, late = 0, late' = 0, OwnOnly(actor["watch"], conn["watch"]), Says(conn["watch"]),
         CaughtUp(actor["watch"], conn["watch"], game), Receive("watch")
  PROVE  CaughtUp(actor'["watch"], conn'["watch"], game)
<1> DEFINE c == conn["watch"]
           w == actor["watch"]
           f == Head(c.inbox)
           l == w.cmd.label
           X == Head(w.todo)
<1>1. /\ ActorsTyped /\ "watch" \in Owner /\ Sound(c) /\ c \in Conn /\ w.pc = "wait" /\ c.inbox # <<>>
      /\ actor \in [Owner -> Work] /\ conn \in [Owner -> Conn] /\ c.sock \in {"open", "dead"}
      /\ w.todo # <<>> /\ Planned("watch", w.cmd, w.todo) /\ w.held \in Nat
      /\ game \in [Label -> Nat] /\ w.cmd \in Given("watch") /\ w.cmd.name # "Reconnect"
  BY Waiting, Counted DEF TypeInv, WorldTyped, ActorsTyped, Receive, Owner
<1>2. /\ f \in Frame /\ f = c.inbox[1] /\ 1 \in DOMAIN c.inbox
      /\ Sound(Read(c)) /\ Read(c).sock = c.sock /\ Read(c).subs = c.subs /\ Read(c).ready = c.ready
  BY <1>1, ReadIs, Rest1 DEF Conn
<1>3. Due(c, l, X)
  BY <1>1 DEF OwnOnly
<1>4. IsAnswer(f) => f.label = l /\ f.to = X
  BY <1>2, <1>3 DEF Due
<1>5. l \in c.subs => l \in Label /\ game[l] \in Nat
  BY <1>1 DEF Conn
<1>6. CASE f.kind = "update" /\ conn' = [conn EXCEPT !["watch"] = Park(@, f)] /\ UNCHANGED actor
  <2> DEFINE d == Park(c, f)
  <2>1. /\ conn'["watch"] = d /\ actor'["watch"] = w /\ d.sock = c.sock /\ d.subs = c.subs
        /\ d.inbox = Tail(c.inbox)
    BY <1>1, <1>6, ParkSound
  <2>2. OnTrack(w, d) => OnTrack(w, c)
    <3>1. \A m \in DOMAIN Tail(c.inbox) : m + 1 \in DOMAIN c.inbox /\ Tail(c.inbox)[m] = c.inbox[m + 1]
      BY <1>1, Rest1 DEF Conn
    <3> QED  BY <2>1, <3>1 DEF OnTrack
  <2>3. l \in c.subs /\ Holds(w.held, c, l, game[l]) => Holds(w.held, d, l, game[l])
    BY <1>1, <1>5, <1>6, ParkHolds
  <2> QED  BY <2>1, <2>2, <2>3 DEF CaughtUp
<1>7. CASE f.kind # "update" /\ Begin("watch", w.cmd, Read(c), cmds)
  <2>1. Program("watch", w.cmd) # <<>> /\ Head(Program("watch", w.cmd)) = "Games"
    BY <1>1, WatchBegins
  <2> QED  BY <1>1, <1>2, <1>7, <2>1, AskCaughtUp DEF Begin
<1>8. CASE /\ f.kind # "update" /\ X # "Register" /\ Fits(X, f)
           /\ AcceptForWatch(Read(c), f, w.cmd, w.todo)
  <2> DEFINE held == IF f.n > w.held THEN f.n ELSE w.held
             Y == Head(Tail(w.todo))
  <2>1. IsAnswer(f) /\ f.n \in Nat /\ f.label = l /\ f.to = X
    BY <1>2, <1>4, <1>8, FrameKinds, FrameParts, Counted
  <2>2. held \in Nat /\ held >= w.held /\ held >= f.n
    BY <1>1, <2>1
  <2>3. NoAnswers(Read(c)) /\ c.ready = {}
    BY <1>1, <1>2, <1>8, <2>1, ReadOwn DEF Quiet
  <2>4. \/ Tail(w.todo) = <<>> /\ X \in {"Subscribe", "Previous"}
        \/ Tail(w.todo) # <<>> /\ Y \in {"Register", "Games", "Get"}
        \/ Tail(w.todo) # <<>> /\ Y = "Subscribe" /\ X = "Get"
        \/ Tail(w.todo) # <<>> /\ Y = "Previous" /\ X = "Subscribe"
    <3>1. /\ w.todo \in Seq(Type) /\ X = w.todo[1] /\ 1 \in DOMAIN w.todo
          /\ Len(w.todo) \in Nat /\ Len(Tail(w.todo)) = Len(w.todo) - 1
          /\ DOMAIN w.todo = 1..Len(w.todo) /\ Tail(w.todo) \in Seq(Type)
      BY <1>1, Rest1 DEF Planned
    <3>2. CASE Tail(w.todo) = <<>>
      <4>1. Len(w.todo) = 1
        <5>1. Len(Tail(w.todo)) = 0
          BY <3>1, <3>2, EmptySeq
        <5> QED  BY <3>1, <5>1
      <4> QED  BY <1>1, <1>8, <3>1, <3>2, <4>1 DEF Planned
    <3>3. CASE Tail(w.todo) # <<>>
      <4>1. Y = Tail(w.todo)[1] /\ 1 \in DOMAIN Tail(w.todo) /\ Y \in Type
        BY <3>1, <3>3, Rest1
      <4>2. 1 + 1 \in DOMAIN w.todo /\ Y = w.todo[1 + 1] /\ 1 + 1 > 1 /\ (1 + 1) - 1 = 1
        BY <1>1, <3>1, <4>1, Rest1
      <4> QED  BY <1>1, <3>1, <3>3, <4>1, <4>2 DEF Planned, Type
    <3> QED  BY <3>2, <3>3
  <2>5. ASSUME X \in {"Get", "Subscribe", "Previous"}, c.sock = "open", l \in c.subs
        PROVE  Holds(held, Read(c), l, game[l])
    <3>1. f.kind = "answer" \/ X = "Previous"
      BY <1>2, <1>8, <2>1 DEF Says, Fits
    <3>2. OnTrack(w, c)
      BY <1>1, <1>2, <2>5, <3>1 DEF OnTrack
    <3>3. Holds(w.held, c, l, game[l])
      BY <2>5, <3>2 DEF CaughtUp
    <3>4. Carries(f, l, game[l]) => held >= game[l]
      BY <1>5, <2>1, <2>2, <2>5 DEF Carries
    <3> QED  BY <1>1, <1>5, <2>2, <2>5, <3>3, <3>4, ReadHolds
  <2>6. CASE Ask("watch", Read(c), Tail(w.todo), w.cmd, held)
    BY <1>1, <1>2, <2>3, <2>4, <2>5, <2>6, AskCaughtUp
  <2>7. CASE End("watch", Read(c), held)
    BY <1>1, <2>7, EndsIdle, RestsCaughtUp
  <2> QED  BY <1>8, <2>6, <2>7 DEF AcceptForWatch
<1>9. CASE f.kind # "update" /\ ~Fits(X, f) /\ Fail("watch", Read(c))
  <2>1. ASSUME X = "Previous", c.sock = "open", l \in c.subs PROVE Holds(w.held, Read(c), l, game[l])
    <3>1. Holds(w.held, c, l, game[l])
      BY <1>1, <2>1 DEF CaughtUp, OnTrack
    <3>2. ~Carries(f, l, game[l])
      BY <1>4, <1>9, <2>1 DEF Carries, Fits, IsAnswer, Gets
    <3> QED  BY <1>1, <1>5, <2>1, <3>1, <3>2, ReadHolds
  <2>2. X = "Previous" => c.ready = {}
    BY <1>3 DEF Due, Says
  <2>3. CASE X = "Previous"
    BY <1>1, <1>2, <1>9, <2>1, <2>2, <2>3, FailCaughtUp
  <2>4. CASE X # "Previous"
    BY <1>1, <1>9, <2>4, EndsIdle, RestsCaughtUp DEF Fail
  <2> QED  BY <2>3, <2>4
<1> QED  BY <1>6, <1>7, <1>8, <1>9 DEF Receive

LEMMA TimeoutCaughtUp ==
  ASSUME TypeInv, late = 0, late' = 0, OwnOnly(actor["watch"], conn["watch"]), Says(conn["watch"]),
         CaughtUp(actor["watch"], conn["watch"], game), Timeout("watch")
  PROVE  CaughtUp(actor'["watch"], conn'["watch"], game)
<1> DEFINE c == conn["watch"]
           w == actor["watch"]
<1>1. /\ ActorsTyped /\ Sound(c) /\ w.pc = "wait" /\ Fail("watch", c)
  BY DEF TypeInv, ActorsTyped, Timeout, Owner
<1>2. CASE Head(w.todo) = "Previous"
  <2>1. c.ready = {}
    BY <1>1, <1>2 DEF OwnOnly, Due, Says
  <2> QED  BY <1>1, <1>2, <2>1, FailCaughtUp DEF CaughtUp, OnTrack
<1>3. CASE Head(w.todo) # "Previous"
  BY <1>1, <1>3, EndsIdle, RestsCaughtUp DEF Fail
<1> QED  BY <1>2, <1>3

LEMMA NextUpdateCaughtUp ==
  ASSUME TypeInv, OwnOnly(actor["watch"], conn["watch"]),
         CaughtUp(actor["watch"], conn["watch"], game), NextUpdate
  PROVE  CaughtUp(actor'["watch"], conn'["watch"], game)
<1> DEFINE c == conn["watch"]
           w == actor["watch"]
           f == Head(c.inbox)
           l == w.cmd.label
<1>1. /\ ActorsTyped /\ "watch" \in Owner /\ Sound(c) /\ c \in Conn /\ w.pc = "follow" /\ w \in Work
      /\ actor \in [Owner -> Work] /\ conn \in [Owner -> Conn] /\ w.held \in Nat
      /\ game \in [Label -> Nat] /\ NoAnswers(c) /\ OnTrack(w, c)
  BY Counted DEF TypeInv, WorldTyped, ActorsTyped, NextUpdate, Owner, OwnOnly, Quiet, OnTrack, Work
<1>2. ASSUME c.sock = "open", l \in c.subs PROVE Holds(w.held, c, l, game[l]) /\ game[l] \in Nat
  BY <1>1, <1>2 DEF CaughtUp, Conn
<1>3. ASSUME NEW d, d.sock = c.sock, d.subs = c.subs, NEW g \in Frame, g.kind = "update", Notified(d, g),
             \A more \in Nat :
               /\ c.sock = "open" /\ l \in c.subs /\ more >= w.held
               /\ Carries(g, l, game[l]) => more >= game[l]
               => Holds(more, d, l, game[l])
      PROVE  CaughtUp(actor'["watch"], conn'["watch"], game)
  <2> DEFINE held == IF g.label = l /\ g.n > w.held THEN g.n ELSE w.held
  <2>1. g.n \in Nat /\ held \in Nat /\ held >= w.held /\ (g.label = l => held >= g.n)
    <3>1. g.n \in Nat /\ w.held \in Nat
      BY <1>1, <1>3, FrameParts, Counted
    <3> QED  BY <3>1
  <2>2. CASE End("watch", d, held)
    BY <1>1, <2>2, EndsIdle, RestsCaughtUp
  <2>3. CASE Became("watch", [w EXCEPT !.held = held], d, error["watch"])
    <3>1. actor'["watch"] = [w EXCEPT !.held = held] /\ conn'["watch"] = d
      BY <1>1, <2>3 DEF Became
    <3>2. [w EXCEPT !.held = held].held = held /\ [w EXCEPT !.held = held].cmd = w.cmd
      BY <1>1 DEF Work
    <3>3. c.sock = "open" /\ l \in c.subs => (Carries(g, l, game[l]) => held >= game[l])
      BY <1>2, <2>1 DEF Carries
    <3> QED  BY <1>3, <2>1, <3>1, <3>2, <3>3 DEF CaughtUp
  <2> QED  BY <1>1, <1>3, <2>2, <2>3, NotifiedIs
<1>4. CASE c.pending # <<>> /\ Notified([c EXCEPT !.pending = Tail(@)], Head(c.pending))
  <2> DEFINE d == [c EXCEPT !.pending = Tail(@)]
  <2>1. d.sock = c.sock /\ d.subs = c.subs /\ Head(c.pending) \in Frame /\ Head(c.pending).kind = "update"
    BY <1>1, <1>4, UnparkIs DEF Conn
  <2>2. ASSUME NEW more \in Nat, c.sock = "open", l \in c.subs, more >= w.held,
               Carries(Head(c.pending), l, game[l]) => more >= game[l]
        PROVE  Holds(more, d, l, game[l])
    BY <1>1, <1>2, <1>4, <2>2, UnparkHolds
  <2> QED  BY <1>3, <1>4, <2>1, <2>2
<1>5. ASSUME c.inbox # <<>>
      PROVE  /\ f \in Frame /\ Read(c).sock = c.sock /\ Read(c).subs = c.subs
             /\ \A more \in Nat :
                  /\ c.sock = "open" /\ l \in c.subs /\ more >= w.held
                  /\ Carries(f, l, game[l]) => more >= game[l]
                  => Holds(more, Read(c), l, game[l])
  BY <1>1, <1>2, <1>5, ReadIs, ReadHolds
<1>6. CASE c.inbox # <<>> /\ f.kind = "update" /\ Notified(Read(c), f)
  BY <1>3, <1>5, <1>6
<1>7. CASE /\ c.inbox # <<>> /\ f.kind \notin {"update", "closed"}
           /\ conn' = [conn EXCEPT !["watch"] = Read(c)] /\ UNCHANGED actor
  <2>1. ~IsAnswer(f)
    BY <1>1, <1>7, Rest1 DEF NoAnswers, Conn
  <2>2. ~Carries(f, l, game[l])
    BY <1>7, <2>1 DEF Carries, IsAnswer
  <2>3. w.held >= w.held
    BY <1>1
  <2> QED  BY <1>1, <1>5, <1>7, <2>2, <2>3 DEF CaughtUp
<1>8. ASSUME NEW d, NEW held, End("watch", d, held) PROVE CaughtUp(actor'["watch"], conn'["watch"], game)
  BY <1>1, <1>8, EndsIdle, RestsCaughtUp
<1> QED  BY <1>4, <1>6, <1>7, <1>8 DEF NextUpdate

\* A watch that comes to wait has just asked.
LEMMA AskedSays ==
  ASSUME NEW w, NEW c, OwnOnly(w, c), w.pc # "wait" \/ c.sent # {}
  PROVE  Says(c)
BY QuietSays DEF OwnOnly, Quiet, Due

LEMMA AskAsks ==
  ASSUME ActorsTyped, NEW c \in Conn, NEW todo, NEW cmd, NEW held, Ask("watch", c, todo, cmd, held)
  PROVE  actor'["watch"].pc # "wait" \/ conn'["watch"].sent # {}
<1>1. "watch" \in Owner
  BY DEF Owner
<1>2. ASSUME NEW r, conn' = [conn EXCEPT !["watch"] = SendTo(c, r)] PROVE conn'["watch"].sent # {}
  <2>1. conn'["watch"] = SendTo(c, r) /\ SendTo(c, r).sent = c.sent \cup {r}
    BY <1>1, <1>2 DEF ActorsTyped, SendTo, Conn
  <2> QED  BY <2>1
<1>3. ASSUME Follow("watch", cmd, held) PROVE actor'["watch"].pc # "wait"
  BY <1>1, <1>3 DEF Follow, Go, ActorsTyped
<1>4. ASSUME NEW d, EndWithError("watch", d) PROVE actor'["watch"].pc # "wait"
  BY <1>4, EndsIdle
<1> QED  BY <1>2, <1>3, <1>4 DEF Ask

LEMMA StepSays ==
  ASSUME TypeInv, Says(conn["watch"]), Step("watch"), OwnOnly(actor'["watch"], conn'["watch"])
  PROVE  Says(conn'["watch"])
<1> DEFINE c == conn["watch"]
           w == actor["watch"]
           f == Head(c.inbox)
<1>1. /\ ActorsTyped /\ "watch" \in Owner /\ Sound(c) /\ c \in Conn
      /\ actor \in [Owner -> Work] /\ conn \in [Owner -> Conn]
  BY DEF TypeInv, ActorsTyped, Owner
<1>2. ASSUME NEW d, Fail("watch", d) PROVE actor'["watch"].pc # "wait"
  <2>1. ASSUME NEW cmd, NEW held, Follow("watch", cmd, held) PROVE actor'["watch"].pc # "wait"
    BY <1>1, <2>1 DEF Follow, Go
  <2> QED  BY <1>1, <1>2, <2>1, EndsIdle DEF Fail
<1>3. CASE Take("watch")
  <2>1. ASSUME NEW cmd, Go("watch", "connect", <<>>, cmd, 0) PROVE actor'["watch"].pc # "wait"
    BY <1>1, <2>1 DEF Go
  <2>2. ASSUME actor' = [actor EXCEPT !["watch"] = Idle(NoCmd, 0)] PROVE actor'["watch"].pc # "wait"
    BY <1>1, <2>2 DEF Idle
  <2> QED  BY <1>1, <1>3, <2>1, <2>2, AskAsks, AskedSays DEF Take, Begin
<1>4. CASE Connect("watch")
  <2>1. [c EXCEPT !.sock = "open"] \in Conn
    BY <1>1 DEF Conn
  <2>2. ASSUME EndWithError("watch", NoConn) PROVE actor'["watch"].pc # "wait"
    BY <1>1, <2>2, EndsIdle
  <2> QED  BY <1>1, <1>4, <2>1, <2>2, AskAsks, AskedSays DEF Connect
<1>5. CASE Receive("watch")
  <2>1. c.inbox # <<>> /\ Read(c) \in Conn
    BY <1>1, <1>5, ReadIs DEF Receive, Sound
  <2>2. CASE f.kind = "update" /\ conn' = [conn EXCEPT !["watch"] = Park(@, f)]
    <3>1. conn'["watch"].inbox = Tail(c.inbox) /\ conn'["watch"].ready = c.ready
      BY <1>1, <2>1, <2>2, ParkSound
    <3>2. \A n \in DOMAIN Tail(c.inbox) : n + 1 \in DOMAIN c.inbox /\ Tail(c.inbox)[n] = c.inbox[n + 1]
      BY <1>1, <2>1, Rest1 DEF Conn
    <3> QED  BY <3>1, <3>2 DEF Says
  <2>3. CASE Begin("watch", w.cmd, Read(c), cmds)
    BY <1>1, <2>1, <2>3, AskAsks, AskedSays DEF Begin
  <2>4. CASE AcceptForWatch(Read(c), f, w.cmd, w.todo)
    <3>1. ASSUME NEW held, End("watch", Read(c), held) PROVE actor'["watch"].pc # "wait"
      BY <1>1, <3>1, EndsIdle
    <3> QED  BY <1>1, <2>1, <2>4, <3>1, AskAsks, AskedSays DEF AcceptForWatch
  <2>5. CASE Fail("watch", Read(c))
    BY <1>2, <2>5, AskedSays
  <2> QED  BY <1>5, <2>2, <2>3, <2>4, <2>5 DEF Receive
<1>6. CASE Timeout("watch")
  BY <1>2, <1>6, AskedSays DEF Timeout
<1>7. CASE Cancel
  <2>1. actor'["watch"].pc # "wait"
    BY <1>1, <1>7 DEF Cancel, Rest, Idle
  <2> QED  BY <2>1, AskedSays
<1>8. CASE NextUpdate
  <2>1. actor["watch"].pc = "follow"
    BY <1>8 DEF NextUpdate
  <2>2. ASSUME NEW d, NEW held, End("watch", d, held) PROVE actor'["watch"].pc # "wait"
    BY <1>1, <2>2, EndsIdle
  <2>3. ASSUME NEW d, NEW g, Notified(d, g) PROVE actor'["watch"].pc # "wait"
    <3>1. CASE \E held : End("watch", d, held)
      BY <2>2, <3>1
    <3>2. CASE \E held : Became("watch", [w EXCEPT !.held = held], d, error["watch"])
      BY <1>1, <2>1, <3>2 DEF Became, Work
    <3> QED  BY <1>1, <2>3, <3>1, <3>2, NotifiedIs
  <2>4. actor'["watch"].pc # "wait"
    BY <1>8, <2>1, <2>2, <2>3 DEF NextUpdate
  <2> QED  BY <2>4, AskedSays
<1> QED  BY <1>3, <1>4, <1>5, <1>6, <1>7, <1>8 DEF Step

LEMMA StepCaughtUp ==
  ASSUME TypeInv, late = 0, late' = 0, OwnOnly(actor["watch"], conn["watch"]), Says(conn["watch"]),
         CaughtUp(actor["watch"], conn["watch"], game), Step("watch")
  PROVE  CaughtUp(actor'["watch"], conn'["watch"], game)
<1> DEFINE c == conn["watch"]
           w == actor["watch"]
<1>1. /\ ActorsTyped /\ "watch" \in Owner /\ Sound(c) /\ c \in Conn /\ AtWork("watch", w)
      /\ Stands(w.pc, c) /\ actor \in [Owner -> Work] /\ conn \in [Owner -> Conn] /\ CmdsTyped(cmds)
  BY DEF TypeInv, ActorsTyped, UserTyped, Owner
<1>2. CASE Take("watch")
  <2>1. CASE actor' = [actor EXCEPT !["watch"] = Idle(NoCmd, 0)]
    BY <1>1, <2>1, RestsCaughtUp DEF Idle
  <2>2. CASE Go("watch", "connect", <<>>, Head(cmds["watch"]), 0)
    BY <1>1, <2>2, RestsCaughtUp DEF Go
  <2>3. CASE /\ Head(cmds["watch"]).name # "Reconnect" /\ c.sock # "none"
             /\ Begin("watch", Head(cmds["watch"]), c, [cmds EXCEPT !["watch"] = Tail(@)])
    <3>1. c.sock \in {"open", "dead"}
      BY <1>1, <1>2, <2>3 DEF Take, Stands, Conn
    <3>2. Head(cmds["watch"]) \in Given("watch")
      BY <1>1, <1>2, TakenTyped DEF Take
    <3>3. Program("watch", Head(cmds["watch"])) # <<>>
          /\ Head(Program("watch", Head(cmds["watch"]))) = "Games"
      BY <2>3, <3>2, WatchBegins
    <3> QED  BY <1>1, <2>3, <3>1, <3>3, AskCaughtUp DEF Begin
  <2> QED  BY <1>2, <2>1, <2>2, <2>3 DEF Take
<1>3. CASE Connect("watch")
  <2>1. CASE EndWithError("watch", NoConn)
    BY <1>1, <2>1, EndsIdle, RestsCaughtUp
  <2>2. CASE Ask("watch", [c EXCEPT !.sock = "open"], <<"Register">>, w.cmd, 0)
    <3>1. <<"Register">> # <<>> /\ Head(<<"Register">>) = "Register"
      OBVIOUS
    <3>2. Stands("connect", c) /\ \A n \in DOMAIN <<>> : FALSE
      BY <1>1, <1>3 DEF Connect
    <3>3. Sound([c EXCEPT !.sock = "open"]) /\ [c EXCEPT !.sock = "open"].sock = "open"
      BY <1>1, <3>2 DEF Sound, Stands, Conn
    <3> QED  BY <1>1, <2>2, <3>1, <3>3, AskCaughtUp
  <2> QED  BY <1>3, <2>1, <2>2 DEF Connect
<1>4. CASE Cancel
  BY <1>1, <1>4, RestsCaughtUp DEF Cancel, Rest, Idle
<1> QED  BY <1>2, <1>3, <1>4, ReceiveCaughtUp, TimeoutCaughtUp, NextUpdateCaughtUp DEF Step

\* Whoever has caught up is told of the next record.
LEMMA NotifyCaughtUp ==
  ASSUME game \in [Label -> Nat], NEW l \in Label, game[l] + 1 \in Count,
         game' = [game EXCEPT ![l] = @ + 1],
         NEW w, NEW cs, Sound(cs["watch"]), Notify(l, game[l] + 1, cs),
         Says(cs["watch"]), CaughtUp(w, cs["watch"], game)
  PROVE  Says(conn'["watch"]) /\ CaughtUp(w, conn'["watch"], game')
<1> DEFINE c == cs["watch"]
           f == News(l, game[l] + 1)
           k == w.cmd.label
<1>1. c \in Conn /\ "watch" \in Owner /\ f \in Frame /\ f.kind = "update"
      /\ (k \in c.subs => k \in Label)
  BY NewsTyped DEF Sound, Conn, Owner
<1>2. CASE conn'["watch"] = c /\ ~(c.sock = "open" /\ l \in c.subs)
  <2>1. k # l /\ k \in Label => game'[k] = game[k]
    OBVIOUS
  <2> QED  BY <1>1, <1>2, <2>1 DEF CaughtUp
<1>3. CASE conn'["watch"] = Told(c, f)
  <2> DEFINE d == Told(c, f)
  <2>1. /\ d.inbox = Append(c.inbox, f) /\ d.pending = c.pending /\ d.ready = c.ready
        /\ d.sock = c.sock /\ d.subs = c.subs
    BY <1>1, ToldIs
  <2>2. Says(d)
    BY <1>1, <2>1, SaysMore
  <2>3. ASSUME c.sock = "open", k \in c.subs, OnTrack(w, d) PROVE Holds(w.held, d, k, game'[k])
    <3>1. OnTrack(w, c)
      BY <1>1, <2>1, <2>3, TellTrack
    <3>2. Holds(w.held, c, k, game[k])
      BY <2>3, <3>1 DEF CaughtUp
    <3>3. CASE k = l
      <4>1. game'[k] = game[l] + 1 /\ game[l] + 1 \in Nat
        BY <3>3
      <4>2. Carries(f, k, game'[k])
        BY <3>3, <4>1 DEF Carries, News
      <4> QED  BY <1>1, <2>1, <4>2, TellHolds
    <3>4. CASE k # l
      <4>1. game'[k] = game[k]
        BY <1>1, <2>3, <3>4
      <4> QED  BY <1>1, <2>1, <3>2, <4>1, TellHolds
    <3> QED  BY <3>3, <3>4
  <2> QED  BY <1>3, <2>1, <2>2, <2>3 DEF CaughtUp
<1> QED  BY <1>1, <1>2, <1>3, Notifies

\* An answer to the watch tells it of all the node has, if it is the answer to a GET.
LEMMA RepliedCaughtUp ==
  ASSUME TypeInv, OwnOnly(actor["watch"], conn["watch"]), Says(conn["watch"]),
         CaughtUp(actor["watch"], conn["watch"], game), NEW a \in Owner, NEW r \in conn[a].sent,
         NEW kind \in {"answer", "missing", "failed"}, kind = "missing" => r.type = "Previous",
         NEW cs, cs = Replied(a, r, kind)
  PROVE  Says(cs["watch"]) /\ CaughtUp(actor["watch"], cs["watch"], game) /\ Sound(cs["watch"])
<1> DEFINE c == conn["watch"]
           w == actor["watch"]
           f == AnswerTo(r, kind)
           k == w.cmd.label
           d == cs["watch"]
<1>1. /\ ActorsTyped /\ WorldTyped /\ "watch" \in Owner /\ Sound(c) /\ c \in Conn
      /\ game \in [Label -> Nat]
  BY DEF TypeInv, WorldTyped, ActorsTyped, Owner
<1>2. /\ Sound(d) /\ cs[a].inbox = Append(conn[a].inbox, f) /\ cs[a].ready = conn[a].ready
      /\ cs[a].subs = conn[a].subs /\ cs[a].pending = conn[a].pending
      /\ conn[a].sock = "open" /\ cs[a].sock = "open" /\ \A b \in Owner : b # a => cs[b] = conn[b]
  BY <1>1, Answered
<1>3. CASE a # "watch"
  BY <1>1, <1>2, <1>3
<1>4. CASE a = "watch"
  <2>1. w.pc = "wait" /\ r.label = k /\ r.type = Head(w.todo)
    BY <1>4 DEF OwnOnly, Quiet, Due
  <2>2. r \in Request /\ (r.type \notin {"Register", "Games"} => r.label \in Label)
    BY <1>1, <1>4 DEF Sound, Conn
  <2>3. f \in Frame /\ f.kind = kind /\ f.to = r.type /\ f.label = r.label
        /\ (r.type = "Get" => f.n = game[r.label])
    BY <1>1, <2>2, AnswerTyped DEF AnswerTo
  <2>4. Says(d)
    BY <1>1, <1>2, <1>4, <2>3, SaysMore
  <2>5. ASSUME c.sock = "open", k \in c.subs, OnTrack(w, d) PROVE Holds(w.held, d, k, game[k])
    <3>1. CASE OnTrack(w, c)
      <4>1. Holds(w.held, c, k, game[k])
        BY <2>5, <3>1 DEF CaughtUp
      <4> QED  BY <1>1, <1>2, <1>4, <2>3, <4>1, TellHolds
    <3>2. CASE f.kind = "answer" /\ Head(w.todo) = "Get"
      <4>1. game[k] \in Nat /\ f.n = game[k]
        BY <1>1, <2>1, <2>2, <2>3, <3>2
      <4>2. Carries(f, k, game[k])
        BY <2>1, <2>3, <3>2, <4>1 DEF Carries
      <4> QED  BY <1>1, <1>2, <1>4, <2>3, <4>2, TellHolds
    <3> QED  BY <1>1, <1>2, <1>4, <2>3, <2>5, <3>1, <3>2, TellTrack
  <2> QED  BY <1>2, <1>4, <2>4, <2>5 DEF CaughtUp
<1> QED  BY <1>3, <1>4

LEMMA WorldCaughtUp ==
  ASSUME TypeInv, OwnOnly(actor["watch"], conn["watch"]), Says(conn["watch"]),
         CaughtUp(actor["watch"], conn["watch"], game), World, UNCHANGED browserVars
  PROVE  Says(conn'["watch"]) /\ CaughtUp(actor'["watch"], conn'["watch"], game')
<1> DEFINE c == conn["watch"]
           w == actor["watch"]
           k == w.cmd.label
           Goal == Says(conn'["watch"]) /\ CaughtUp(w, conn'["watch"], game')
<1>1. /\ ActorsTyped /\ WorldTyped /\ "watch" \in Owner /\ Sound(c) /\ c \in Conn
      /\ conn \in [Owner -> Conn] /\ game \in [Label -> Nat] /\ actor' = actor
  BY DEF TypeInv, WorldTyped, ActorsTyped, Owner, browserVars
<1>2. ASSUME NEW l \in Label, game[l] < Decided[l] PROVE game[l] + 1 \in Count
  <2>1. game[l] \in Nat /\ Decided[l] \in Nat
    BY <1>1, TransportAssumption
  <2> QED  BY <1>2, <2>1, Counted
<1>3. ASSUME NEW l \in Label, OpponentMoves(l) PROVE Goal
  BY <1>1, <1>2, <1>3, NotifyCaughtUp DEF OpponentMoves
<1>4. ASSUME NEW a \in Owner, NEW r \in conn[a].sent, NodeAnswers(a, r) PROVE Goal
  <2>1. ASSUME NEW kind \in {"answer", "missing", "failed"}, kind = "missing" => r.type = "Previous",
               conn' = Replied(a, r, kind), UNCHANGED game
        PROVE  Goal
    <3>1. PICK cs : cs = Replied(a, r, kind)
      OBVIOUS
    <3>2. Says(cs["watch"]) /\ CaughtUp(w, cs["watch"], game)
      BY <2>1, <3>1, RepliedCaughtUp
    <3> QED  BY <2>1, <3>1, <3>2
  <2>2. CASE /\ r.type = "Update" /\ game[r.label] < Decided[r.label]
             /\ game' = [game EXCEPT ![r.label] = @ + 1]
             /\ Notify(r.label, game[r.label] + 1, Replied(a, r, "answer"))
    <3>1. r.label \in Label
      BY <1>1, <2>2 DEF ActorsTyped, Sound
    <3>2. PICK cs : cs = Replied(a, r, "answer")
      OBVIOUS
    <3>3. Says(cs["watch"]) /\ CaughtUp(w, cs["watch"], game) /\ Sound(cs["watch"])
      BY <3>2, RepliedCaughtUp
    <3>4. Notify(r.label, game[r.label] + 1, cs)
      BY <2>2, <3>2
    <3> QED  BY <1>1, <1>2, <2>2, <3>1, <3>3, <3>4, NotifyCaughtUp
  <2> QED  BY <1>4, <2>1, <2>2 DEF NodeAnswers, Replied
<1>5. ASSUME NEW a \in Owner, NEW r \in conn[a].sent, NodeSubscribes(a, r) PROVE Goal
  <2>1. CASE a # "watch"
    BY <1>1, <1>5, <2>1 DEF NodeSubscribes
  <2>2. CASE a = "watch"
    <3> DEFINE f == AnswerTo(r, "answer")
               d == conn'["watch"]
    <3>1. /\ d.ready = c.ready \cup {f} /\ d.inbox = c.inbox /\ d.pending = c.pending /\ d.sock = c.sock
          /\ game' = game
      BY <1>1, <1>5, <2>2 DEF NodeSubscribes, Conn
    <3>2. r.label = k /\ r.type = "Subscribe"
      BY <1>5, <2>2 DEF NodeSubscribes, OwnOnly, Quiet, Due
    <3>3. f.kind = "answer" /\ f.to = "Subscribe" /\ f.label = k /\ f.n = game[k]
      BY <3>2 DEF AnswerTo
    <3>4. Says(d)
      BY <3>1, <3>3 DEF Says
    <3>5. k \in Label /\ game[k] \in Nat
      BY <1>1, <2>2, <3>2 DEF Sound
    <3>6. Carries(f, k, game[k])
      BY <3>3, <3>5 DEF Carries
    <3>7. Holds(w.held, d, k, game[k])
      BY <3>1, <3>6 DEF Holds
    <3> QED  BY <3>1, <3>4, <3>7 DEF CaughtUp
  <2> QED  BY <2>1, <2>2
<1>6. ASSUME NEW a \in Owner, NEW f \in conn[a].ready, NodeHasSubscribed(a, f) PROVE Goal
  <2>1. CASE a # "watch"
    BY <1>1, <1>6, <2>1 DEF NodeHasSubscribed
  <2>2. CASE a = "watch"
    <3> DEFINE d == conn'["watch"]
    <3>1. /\ d.ready = c.ready \ {f} /\ d.inbox = Append(c.inbox, f) /\ d.pending = c.pending
          /\ d.sock = c.sock /\ d.subs = c.subs /\ game' = game
      BY <1>1, <1>6, <2>2 DEF NodeHasSubscribed, Conn
    <3>2. f \in Frame /\ f.kind = "answer" /\ f.to = "Subscribe"
      BY <1>1, <2>2 DEF Conn, Frame, Says
    <3>3. w.pc = "wait" => f.to = Head(w.todo)
      BY <2>2 DEF OwnOnly, Due
    <3>4. Says(d)
      BY <1>1, <3>1, <3>2, SaysMore
    <3>5. ASSUME c.sock = "open", k \in c.subs, OnTrack(w, d) PROVE Holds(w.held, d, k, game[k])
      <4>1. OnTrack(w, c)
        BY <1>1, <3>1, <3>2, <3>3, <3>5, TellTrack
      <4>2. Holds(w.held, c, k, game[k])
        BY <3>5, <4>1 DEF CaughtUp
      <4> QED  BY <1>1, <3>1, <3>2, <4>2, TellHolds
    <3> QED  BY <3>1, <3>4, <3>5 DEF CaughtUp
  <2> QED  BY <2>1, <2>2
<1>7. ASSUME NEW a \in Owner, SocketDies(a) PROVE Goal
  <2>1. CASE a # "watch"
    BY <1>1, <1>7, <2>1 DEF SocketDies
  <2>2. CASE a = "watch"
    <3> DEFINE d == conn'["watch"]
               f == [kind |-> "closed"]
    <3>1. d.ready = {} /\ d.inbox = Append(c.inbox, f) /\ d.sock = "dead"
      BY <1>1, <1>7, <2>2 DEF SocketDies, Conn
    <3>2. f \in Frame /\ f.kind # "missing"
      BY DEF Frame
    <3>3. Says(d)
      BY <1>1, <3>1, <3>2, SaysMore
    <3> QED  BY <3>1, <3>3 DEF CaughtUp
  <2> QED  BY <2>1, <2>2
<1> QED  BY <1>1, <1>3, <1>4, <1>5, <1>6, <1>7 DEF World

LEMMA NextMissInv == TypeInv /\ OwnInv /\ OwnInv' /\ MissInv /\ [Next]_vars => MissInv'
<1> SUFFICES ASSUME TypeInv, OwnInv, OwnInv', MissInv, [Next]_vars, late' = 0
             PROVE  Says(conn'["watch"]) /\ CaughtUp(actor'["watch"], conn'["watch"], game')
  BY DEF MissInv, Says, CaughtUp, OnTrack, Holds, Carries
<1>1. late \in Nat /\ ActorsTyped /\ "watch" \in Owner /\ "main" \in Owner
  BY TransportAssumption DEF TypeInv, WorldTyped, Owner
<1>2. ASSUME NEW a \in Owner, Step(a)
      PROVE  Says(conn'["watch"]) /\ CaughtUp(actor'["watch"], conn'["watch"], game')
  <2>1. Apart(a) /\ game' = game
    BY <1>1, <1>2, StepApart DEF Step, Take, Connect, Receive, Timeout, Cancel, NextUpdate
  <2>2. late = 0 /\ OwnOnly(actor["watch"], conn["watch"]) /\ Says(conn["watch"])
        /\ CaughtUp(actor["watch"], conn["watch"], game)
    BY <1>1, <2>1 DEF Apart, OwnInv, MissInv
  <2>3. OwnOnly(actor'["watch"], conn'["watch"])
    BY <1>1 DEF OwnInv, OwnOnly, Quiet, Due, NoneLate, LastWord, NoAnswers
  <2>4. CASE a = "watch"
    BY <1>2, <2>1, <2>2, <2>3, <2>4, StepSays, StepCaughtUp
  <2>5. CASE a = "main"
    <3>1. actor'["watch"] = actor["watch"] /\ conn'["watch"] = conn["watch"]
      BY <1>1, <2>1, <2>5 DEF Apart
    <3> QED  BY <2>1, <2>2, <3>1
  <2> QED  BY <2>4, <2>5 DEF Owner
<1>3. CASE World /\ UNCHANGED browserVars
  <2>1. late' = late
    BY <1>3 DEF World, OpponentMoves, NodeAnswers, NodeSubscribes, NodeHasSubscribed, SocketDies
  <2> QED  BY <1>1, <1>3, <2>1, WorldCaughtUp DEF OwnInv, MissInv
<1>4. CASE User \/ UNCHANGED vars
  <2>1. game' = game /\ conn' = conn /\ actor' = actor /\ late' = late
    BY <1>4 DEF User, Click, Move, Retry, RetryWatch, Settings, vars, transportVars, browserVars
  <2> QED  BY <2>1 DEF MissInv
<1> QED  BY <1>2, <1>3, <1>4 DEF Next

\* A watch that counts among the subscribers of its game knows of all the records the
\* node has, or has yet to read of them, from the answer to its first GET to the end:
\* whatever was parked while it asked for something else, and in whichever order the
\* answer to its subscription and the notifications come.
THEOREM NoRecordIsMissed == Spec => []NothingIsMissed
<1>1. BrowserInit => MissInv
  <2> SUFFICES ASSUME BrowserInit
               PROVE  Says(conn["watch"]) /\ CaughtUp(actor["watch"], conn["watch"], game)
    BY DEF MissInv
  <2>1. conn["watch"] = NoConn
    BY DEF BrowserInit, Init, Owner
  <2>2. Says(NoConn)
    BY NoConnIsQuiet, QuietSays DEF Quiet
  <2> QED  BY <2>1, <2>2 DEF NoConn, CaughtUp
<1>2. TypeInv /\ MissInv => NothingIsMissed
  <2> DEFINE c == conn["watch"]
             w == actor["watch"]
             l == w.cmd.label
  <2> SUFFICES ASSUME TypeInv, MissInv, late = 0, c.sock = "open", l \in c.subs,
                      \/ w.pc = "follow"
                      \/ w.pc = "wait" /\ Head(w.todo) \in {"Subscribe", "Previous"}
               PROVE  \E n \in Reaches(l) : n >= game[l]
    BY DEF NothingIsMissed
  <2>1. Holds(w.held, c, l, game[l])
    BY DEF MissInv, CaughtUp, OnTrack
  <2>2. \A f \in c.ready \cup ToSet(c.inbox) \cup ToSet(c.pending) :
          Carries(f, l, game[l]) => f.n \in Reaches(l) /\ f.n >= game[l]
    BY DEF Carries, Reaches
  <2>3. w.held \in Reaches(l)
    BY DEF Reaches
  <2> QED  BY <2>1, <2>2, <2>3 DEF Holds, ToSet
<1> QED  BY InitTypeInv, NextTypeInv, InitOwnInv, NextOwnInv, NextMissInv, <1>1, <1>2, PTL DEF Spec
=============================================================================
