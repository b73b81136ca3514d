---------------------------- MODULE SessionsProofs ----------------------------
(***************************************************************************)
(* The life of a robot's game connection: for any number of incarnations,  *)
(* calls and reconnects, and whatever the surroundings do, there is one    *)
(* session, a shutdown leaves none, and only an Online brings one back.    *)
(*                                                                         *)
(* The argument.  An incarnation is carried by one token from where it is  *)
(* made to where it is dialed: by a goroutine that still has to register   *)
(* or to queue it, by the timer queue, a shard, the dispatcher, the        *)
(* connect queue, and in the end by its dialer.  Until it is registered    *)
(* nobody else knows of it.  A session that waits, logs in or runs is the  *)
(* registered one; whoever takes it out of the registry has stopped it     *)
(* before, and nothing wakes a stopped session whose token is spent.       *)
(***************************************************************************)
EXTENDS Sessions, TLAPS

\* What each goroutine can be doing.
OnlineAt == {"online", "check", "replace", "enqueue", "delete"}
DispAt == OnlineAt \cup {"idle", "reconnect", "ready", "requeue", "logout", "logoutClose", "logoutDelete"}
DirectAt == OnlineAt \cup {"idle"}
ForceAt == {"idle", "forceClose", "delete"}
RefishAt == {"idle", "refish", "succeed", "delay", "delete"}
DialAt == RefishAt \cup {"begin", "current", "dial", "register"}
ReadAt == RefishAt \cup {"read", "finish"}

\* The states that carry a new session in w, the ones that know a session v.
CarryAt == {"online", "check", "replace", "enqueue", "succeed", "delay"}
KnowAt == {"check", "delete", "reconnect", "ready", "requeue", "logoutClose", "logoutDelete",
           "forceClose", "begin", "current", "dial", "register", "refish", "succeed", "delay", "read", "finish"}

\* The goroutines of an incarnation.
Mine(v) == {Dialer(v), Reader(v), Refresher(v)}

\* What a shard's queue says of a session.
Message == [type : {"online", "reconnect", "logout"}, v : Vo \cup {None}]
Asks(m, v) == m.type # "logout" /\ m.v = v
Held(s, v) == \E i \in 1 .. Len(s) : Asks(s[i], v)
Offers(s, v) == \E i \in 1 .. Len(s) : s[i].type = "online" /\ s[i].v = v
Whole(s) == \A i \in 1 .. Len(s) : s[i].type # "logout" => s[i].v \in Vo
HeldOnce(s) ==
    \A i, j \in 1 .. Len(s) : s[i].type # "logout" /\ Asks(s[j], s[i].v) => i = j

\* What the connect queue says of a session.
Lists(q, v) == \E i \in 1 .. Len(q) : q[i] = v
ListedOnce(q) == \A i, j \in 1 .. Len(q) : q[i] = q[j] => i = j

\* What a goroutine t may have in hand.
Fit(t, r) ==
    /\ t = Disp => r.at \in DispAt
    /\ t = Direct => r.at \in DirectAt
    /\ t = Forcer => r.at \in ForceAt
    /\ \A v \in Vo : /\ t = Dialer(v) => r.at \in DialAt
                     /\ t = Reader(v) => r.at \in ReadAt
                     /\ t = Refresher(v) => r.at \in RefishAt
                     /\ t \in Mine(v) /\ r.at # "idle" => r.v = v
    /\ r.at = "idle" => r = Idle
    /\ r.w \in Vo <=> r.at \in CarryAt
    /\ r.at \in KnowAt => r.v \in Vo

Shape == (\A t \in Thread : Fit(t, th[t])) /\ Whole(shard)

\* Where an incarnation's token can be.
InThread(v) == \E t \in Thread : th[t].w = v
InShard(v) == Held(shard, v)
InDisp(v) == th[Disp].at \in {"reconnect", "ready", "requeue"} /\ th[Disp].v = v
InQueue(v) == Lists(connectQ, v)
InDial(v) == th[Dialer(v)].at # "idle"

OneToken ==
    /\ \A s, t \in Thread : th[s].w = th[t].w /\ th[t].w \in Vo => s = t
    /\ HeldOnce(shard) /\ ListedOnce(connectQ)
    /\ \A v \in Vo :
         /\ InThread(v) => ~(v \in delayed \/ InShard(v) \/ InDisp(v) \/ InQueue(v) \/ InDial(v))
         /\ v \in delayed => ~(InShard(v) \/ InDisp(v) \/ InQueue(v) \/ InDial(v))
         /\ InShard(v) => ~(InDisp(v) \/ InQueue(v) \/ InDial(v))
         /\ InDisp(v) => ~(InQueue(v) \/ InDial(v))
         /\ InQueue(v) => ~InDial(v)

\* Somebody besides the carrier of the token knows the incarnation.
Known(v) == cur = v \/ v \in closing \/ \E t \in Thread : th[t].v = v

Seen(v) == InThread(v) \/ v \in delayed \/ InShard(v) \/ InQueue(v) \/ Known(v)

\* The incarnation is made and not yet registered.
Offered(v) == Offers(shard, v)
Taken(v) == \E t \in Thread : th[t].at \in {"online", "check", "replace"} /\ th[t].w = v
Succeeding(v) == \E t \in Thread : th[t].at = "succeed" /\ th[t].w = v

NewUnknown == \A v \in Vo : st[v] = "new" => ~Seen(v)
EarlyUnknown ==
    \A v \in Vo : /\ Offered(v) \/ Taken(v) => st[v] = "stop" /\ ~Known(v)
                  /\ Succeeding(v) => st[v] = "init" /\ ~Known(v)

\* Who goes on with a session it has stopped.
StopAt == {"replace", "succeed", "delay", "delete", "logoutDelete"}
Stopped ==
    /\ \A t \in Thread : th[t].at \in StopAt /\ th[t].v \in Vo => st[th[t].v] = "stop"
    /\ \A v \in Vo : th[Reader(v)].at # "idle" => st[v] # "init"

Open(v) == st[v] \in {"init", "login", "run", "select"}
Registered ==
    /\ \A v \in Vo : Open(v) => cur = v \/ v \in closing \/ Succeeding(v)
    /\ conn \subseteq Alive

Stages ==
    /\ done <=> down \in {"queues", "collect", "close", "done"}
    /\ down # "close" => closing = {}
    /\ down \in {"close", "done"} => cur = None

SessionsInv ==
    /\ TypeOK /\ Shape /\ OneToken /\ NewUnknown /\ EarlyUnknown
    /\ Stopped /\ Registered /\ Stages

-----------------------------------------------------------------------------
(* The queues.                                                             *)

\* An empty queue asks for nothing; a message that supersedes stands alone.
LEMMA ShardEmpty ==
    /\ <<>> \in Seq(Message) /\ Whole(<<>>) /\ HeldOnce(<<>>)
    /\ \A v : ~Held(<<>>, v) /\ ~Offers(<<>>, v)
BY DEF Message, Whole, HeldOnce, Held, Offers

\* A message that supersedes the others stands alone.
LEMMA ShardOne ==
    ASSUME NEW m \in Message, m.type # "logout" => m.v \in Vo
    PROVE  /\ <<m>> \in Seq(Message) /\ Whole(<<m>>) /\ HeldOnce(<<m>>)
           /\ \A v : Held(<<m>>, v) => Asks(m, v)
           /\ \A v : Offers(<<m>>, v) => m.type = "online" /\ m.v = v
<1>1. Len(<<m>>) = 1 /\ <<m>>[1] = m /\ 1 .. 1 = {1} OBVIOUS
<1> QED BY <1>1 DEF Message, Whole, HeldOnce, Held, Offers

\* The head of a queue is asked for once: it is not in the tail.
LEMMA ShardTail ==
    ASSUME NEW s \in Seq(Message), s # <<>>, Whole(s), HeldOnce(s)
    PROVE  /\ Head(s) \in Message /\ Tail(s) \in Seq(Message)
           /\ Whole(Tail(s)) /\ HeldOnce(Tail(s))
           /\ Head(s).type # "logout" => Head(s).v \in Vo
           /\ \A v : Asks(Head(s), v) => Held(s, v) /\ ~Held(Tail(s), v)
           /\ \A v : Held(Tail(s), v) => Held(s, v)
           /\ \A v : Offers(Tail(s), v) => Offers(s, v)
           /\ \A v : Head(s).type = "online" /\ Head(s).v = v => Offers(s, v)
<1>1. /\ Len(s) \in Nat /\ Len(s) >= 1 /\ Len(Tail(s)) = Len(s) - 1
      /\ Head(s) = s[1] /\ Head(s) \in Message /\ Tail(s) \in Seq(Message)
  OBVIOUS
<1>2. \A i \in 1 .. Len(Tail(s)) : Tail(s)[i] = s[i + 1] /\ i + 1 \in 1 .. Len(s) /\ i + 1 # 1
  OBVIOUS
<1>3. 1 \in 1 .. Len(s) BY <1>1
<1>4. Whole(Tail(s)) BY <1>1, <1>2 DEF Whole
<1>5. HeldOnce(Tail(s))
  <2> SUFFICES ASSUME NEW i \in 1 .. Len(Tail(s)), NEW j \in 1 .. Len(Tail(s)),
                      Tail(s)[i].type # "logout", Asks(Tail(s)[j], Tail(s)[i].v)
               PROVE  i = j
    BY DEF HeldOnce
  <2>1. i + 1 = j + 1 BY <1>2 DEF HeldOnce
  <2> QED BY <2>1, <1>1
<1>6. \A v : Asks(Head(s), v) => Held(s, v) BY <1>1, <1>3 DEF Held
<1>7. ASSUME NEW v, Asks(Head(s), v), Held(Tail(s), v) PROVE FALSE
  <2> PICK i \in 1 .. Len(Tail(s)) : Asks(Tail(s)[i], v) BY <1>7 DEF Held
  <2> QED BY <1>1, <1>2, <1>3, <1>7 DEF HeldOnce, Asks
<1>8. \A v : Held(Tail(s), v) => Held(s, v) BY <1>2 DEF Held
<1>9. \A v : Offers(Tail(s), v) => Offers(s, v) BY <1>2 DEF Offers
<1>10. \A v : Head(s).type = "online" /\ Head(s).v = v => Offers(s, v) BY <1>1, <1>3 DEF Offers
<1>11. Head(s).type # "logout" => Head(s).v \in Vo BY <1>1, <1>3 DEF Whole
<1> QED BY <1>1, <1>4, <1>5, <1>6, <1>7, <1>8, <1>9, <1>10, <1>11

\* A reconnect that is due joins the queue.
LEMMA ShardAppend ==
    ASSUME NEW s \in Seq(Message), NEW v \in Vo, Whole(s), HeldOnce(s), ~Held(s, v)
    PROVE  LET a == Append(s, Msg("reconnect", v)) IN
           /\ a \in Seq(Message) /\ Whole(a) /\ HeldOnce(a)
           /\ \A x : Held(a, x) => Held(s, x) \/ x = v
           /\ \A x : Offers(a, x) => Offers(s, x)
<1> DEFINE m == Msg("reconnect", v)
           a == Append(s, m)
<1>1. m \in Message /\ m.type = "reconnect" /\ m.v = v BY DEF Msg, Message
<1> HIDE DEF m
<1>2. a \in Seq(Message) /\ Len(s) \in Nat /\ Len(a) = Len(s) + 1 /\ a[Len(s) + 1] = m BY <1>1
<1>3. \A i \in 1 .. Len(a) : (i \in 1 .. Len(s) /\ a[i] = s[i]) \/ i = Len(s) + 1 BY <1>1, <1>2
<1> HIDE DEF a
<1>4. Whole(a) BY <1>1, <1>2, <1>3 DEF Whole
<1>5. HeldOnce(a) BY <1>1, <1>2, <1>3 DEF HeldOnce, Held, Asks
<1>6. \A x : Held(a, x) => Held(s, x) \/ x = v BY <1>1, <1>2, <1>3 DEF Held, Asks
<1>7. \A x : Offers(a, x) => Offers(s, x) BY <1>1, <1>2, <1>3 DEF Offers
<1> QED BY <1>2, <1>4, <1>5, <1>6, <1>7 DEF a, m

\* The head of the connect queue is listed once.
LEMMA QueueTail ==
    ASSUME NEW q \in Seq(Vo), q # <<>>, ListedOnce(q)
    PROVE  /\ Head(q) \in Vo /\ Tail(q) \in Seq(Vo) /\ ListedOnce(Tail(q))
           /\ Lists(q, Head(q)) /\ ~Lists(Tail(q), Head(q))
           /\ \A v : Lists(Tail(q), v) => Lists(q, v)
<1>1. /\ Len(q) \in Nat /\ Len(q) >= 1 /\ Len(Tail(q)) = Len(q) - 1
      /\ Head(q) = q[1] /\ Head(q) \in Vo /\ Tail(q) \in Seq(Vo)
  OBVIOUS
<1>2. \A i \in 1 .. Len(Tail(q)) : Tail(q)[i] = q[i + 1] /\ i + 1 \in 1 .. Len(q) /\ i + 1 # 1
  OBVIOUS
<1>3. 1 \in 1 .. Len(q) BY <1>1
<1>4. ListedOnce(Tail(q))
  <2> SUFFICES ASSUME NEW i \in 1 .. Len(Tail(q)), NEW j \in 1 .. Len(Tail(q)), Tail(q)[i] = Tail(q)[j]
               PROVE  i = j
    BY DEF ListedOnce
  <2>1. i + 1 = j + 1 BY <1>2 DEF ListedOnce
  <2> QED BY <2>1, <1>1
<1>5. Lists(q, Head(q)) BY <1>1, <1>3 DEF Lists
<1>6. ~Lists(Tail(q), Head(q)) BY <1>1, <1>2, <1>3 DEF Lists, ListedOnce
<1>7. \A v : Lists(Tail(q), v) => Lists(q, v) BY <1>2 DEF Lists
<1> QED BY <1>1, <1>4, <1>5, <1>6, <1>7

\* A session that is not listed joins the connect queue.
LEMMA QueueAppend ==
    ASSUME NEW q \in Seq(Vo), NEW v \in Vo, ListedOnce(q), ~Lists(q, v)
    PROVE  /\ Append(q, v) \in Seq(Vo) /\ ListedOnce(Append(q, v))
           /\ \A x : Lists(Append(q, v), x) => Lists(q, x) \/ x = v
<1> DEFINE a == Append(q, v)
<1>1. a \in Seq(Vo) /\ Len(q) \in Nat /\ Len(a) = Len(q) + 1 /\ a[Len(q) + 1] = v OBVIOUS
<1>2. \A i \in 1 .. Len(a) : (i \in 1 .. Len(q) /\ a[i] = q[i]) \/ i = Len(q) + 1 BY <1>1
<1> HIDE DEF a
<1>3. ListedOnce(a) BY <1>1, <1>2 DEF ListedOnce, Lists
<1>4. \A x : Lists(a, x) => Lists(q, x) \/ x = v BY <1>1, <1>2 DEF Lists
<1> QED BY <1>1, <1>3, <1>4 DEF a

\* An empty connect queue lists nobody.
LEMMA QueueEmpty == ListedOnce(<<>>) /\ \A v : ~Lists(<<>>, v)
BY DEF ListedOnce, Lists

-----------------------------------------------------------------------------
(* The goroutines.                                                         *)

\* The goroutines are different ones.
LEMMA Threads ==
    /\ Disp \in Thread /\ Direct \in Thread /\ Forcer \in Thread
    /\ Disp # Direct /\ Disp # Forcer /\ Direct # Forcer
    /\ \A v \in Vo :
         /\ Dialer(v) \in Thread /\ Reader(v) \in Thread /\ Refresher(v) \in Thread
         /\ {Disp, Direct, Forcer} \cap Mine(v) = {}
         /\ Dialer(v) # Reader(v) /\ Dialer(v) # Refresher(v) /\ Reader(v) # Refresher(v)
    /\ \A v, w \in Vo : v # w => Mine(v) \cap Mine(w) = {}
    /\ \A t \in Thread : t \in {Disp, Direct, Forcer} \/ \E v \in Vo : t \in Mine(v)
<1>1. /\ Disp \in Thread /\ Direct \in Thread /\ Forcer \in Thread
      /\ Disp # Direct /\ Disp # Forcer /\ Direct # Forcer
  BY DEF Thread, Disp, Direct, Forcer
<1>2. ASSUME NEW v \in Vo
      PROVE  /\ Dialer(v) \in Thread /\ Reader(v) \in Thread /\ Refresher(v) \in Thread
             /\ {Disp, Direct, Forcer} \cap Mine(v) = {}
             /\ Dialer(v) # Reader(v) /\ Dialer(v) # Refresher(v) /\ Reader(v) # Refresher(v)
  BY DEF Thread, Disp, Direct, Forcer, Dialer, Reader, Refresher, Mine
<1>3. \A v, w \in Vo : v # w => Mine(v) \cap Mine(w) = {}
  BY DEF Dialer, Reader, Refresher, Mine
<1>4. \A t \in Thread : t \in {Disp, Direct, Forcer} \/ \E v \in Vo : t \in Mine(v)
  BY DEF Thread, Dialer, Reader, Refresher, Mine
<1> QED BY <1>1, <1>2, <1>3, <1>4

\* A step that moves one goroutine.
ThreadOK == th \in [Thread -> [at : Place, v : Vo \cup {None}, w : Vo \cup {None}]]
Moves(t, at, v, w) ==
    /\ ThreadOK'
    /\ th'[t] = At(at, v, w) /\ th'[t].at = at /\ th'[t].v = v /\ th'[t].w = w
    /\ \A s \in Thread : s # t => th'[s] = th[s]

\* Go and Finish move one goroutine and keep the types.
LEMMA GoMoves ==
    ASSUME ThreadOK, NEW t \in Thread, NEW at \in Place, NEW v \in Vo \cup {None}, NEW w \in Vo \cup {None},
           Go(t, at, v, w)
    PROVE  Moves(t, at, v, w)
BY DEF ThreadOK, Go, At, Moves

\* So does the end of a handler.
LEMMA FinishMoves ==
    ASSUME ThreadOK, NEW t \in Thread, Finish(t)
    PROVE  Moves(t, "idle", None, None)
BY DEF ThreadOK, Finish, Idle, At, Place, Moves

\* Which values fit.
LEMMA MoveShape ==
    ASSUME Shape, NEW t \in Thread, NEW at \in Place, NEW v \in Vo \cup {None}, NEW w \in Vo \cup {None},
           Moves(t, at, v, w), Whole(shard'),
           Fit(t, At(at, v, w))
    PROVE  Shape'
BY DEF Shape, Moves

\* Any goroutine may be idle.
LEMMA FitIdle ==
    ASSUME NEW t PROVE Fit(t, At("idle", None, None))
BY SessionsAssumption DEF Fit, Idle, At, DispAt, DirectAt, ForceAt, DialAt, ReadAt, RefishAt, CarryAt, KnowAt

\* A goroutine that goes on, or drops what it carries, moves no token.
LEMMA WalkToken ==
    ASSUME OneToken, NEW t \in Thread, NEW at, NEW v, NEW w, Moves(t, at, v, w),
           w \in {th[t].w, None},
           t = Disp /\ at \in {"reconnect", "ready", "requeue"}
              => th[t].at \in {"reconnect", "ready", "requeue"} /\ th[t].v = v,
           at # "idle" /\ th[t].at = "idle" => \A x \in Vo : t # Dialer(x),
           UNCHANGED <<shard, delayed, connectQ>>
    PROVE  OneToken' /\ \A x \in Vo : InThread(x)' => InThread(x)
<1> USE SessionsAssumption, Threads
<1>1. \A s \in Thread : th'[s].w = th[s].w \/ th'[s].w = None BY DEF Moves
<1>2. \A r, s \in Thread : th'[r].w = th'[s].w /\ th'[s].w \in Vo => r = s BY <1>1 DEF OneToken
<1>3. \A x \in Vo : InThread(x)' => InThread(x) BY <1>1 DEF InThread
<1>4. \A x \in Vo : InShard(x)' = InShard(x) /\ InQueue(x)' = InQueue(x) BY DEF InShard, InQueue
<1>5. \A x \in Vo : InDisp(x)' => InDisp(x) BY DEF InDisp, Moves
<1>6. \A x \in Vo : InDial(x)' => InDial(x) BY DEF InDial, Moves
<1> QED BY <1>2, <1>3, <1>4, <1>5, <1>6 DEF OneToken

\* Such a step makes nothing of the new sessions known.
LEMMA WalkSeen ==
    ASSUME TypeOK, Shape, NEW t \in Thread, NEW at, NEW v, NEW w, Moves(t, at, v, w),
           \A x \in Vo : InThread(x)' => InThread(x),
           v \in {th[t].v, th[t].w, cur, None},
           cur' \in {cur, None, th[t].w}, closing' \subseteq closing \cup {cur},
           UNCHANGED <<shard, delayed, connectQ>>
    PROVE  \A x \in Vo : Seen(x)' => Seen(x)
<1> USE SessionsAssumption
<1>1. \A x \in Vo : Known(x)' => Known(x) \/ InThread(x) BY DEF Known, InThread, Moves
<1>2. \A x \in Vo : InShard(x)' = InShard(x) /\ InQueue(x)' = InQueue(x) BY DEF InShard, InQueue
<1> QED BY <1>1, <1>2 DEF Seen

\* An offer is a message about the session.
LEMMA OfferedInShard == \A v : Offered(v) => InShard(v)
BY DEF Offered, InShard, Offers, Held, Asks

\* An incarnation in anybody's hands, or known, is not a new one.
LEMMA SeenNotNew ==
    ASSUME NewUnknown, NEW v \in Vo, Seen(v) PROVE st[v] # "new"
BY DEF NewUnknown

-----------------------------------------------------------------------------
(* Steps that move no token and register nobody.                           *)

\* A step that leaves the goroutines and the registry alone.
LEMMA Still ==
    ASSUME SessionsInv, TypeOK', Stages', UNCHANGED <<th, cur, shard, delayed, connectQ>>,
           closing' \subseteq closing, \A x \in closing : x \in closing' \/ st'[x] = "stop",
           \A x \in Vo : \/ st'[x] = st[x]
                         \/ st[x] # "new" /\ Known(x) /\ st'[x] = "stop"
                         \/ x \in Alive /\ x \in Alive',
           conn' \subseteq Alive'
    PROVE  SessionsInv'
<1> USE DEF SessionsInv
<1>1. Shape' BY DEF Shape
<1>2. OneToken' BY DEF OneToken, InThread, InShard, InDisp, InQueue, InDial
<1>3. \A x \in Vo : /\ Known(x)' => Known(x)
                    /\ Seen(x)' => Seen(x)
                    /\ Offered(x)' = Offered(x) /\ Taken(x)' = Taken(x) /\ Succeeding(x)' = Succeeding(x)
  BY DEF Known, Seen, InThread, InShard, InQueue, Offered, Taken, Succeeding
<1>4. \A x \in Vo : st'[x] # "new" \/ st[x] = "new" BY DEF Alive, TypeOK
<1>5. NewUnknown' BY <1>3, <1>4 DEF NewUnknown
<1>6. EarlyUnknown' BY <1>3 DEF EarlyUnknown, Alive
<1>7. Stopped' BY Threads DEF Stopped, Alive, TypeOK
<1>8. Registered' BY <1>3 DEF Registered, Open, Alive
<1> QED BY <1>1, <1>2, <1>5, <1>6, <1>7, <1>8

\* A goroutine goes on, drops what it carries, closes a session it knows or
\* takes a stopped one out of the registry.
WalkStep(t, at, v, w) ==
    /\ UNCHANGED <<shard, delayed, connectQ, done, down, closing>>
    /\ at \in Place /\ v \in {th[t].v, cur, None} /\ w \in {th[t].w, None}
    /\ Moves(t, at, v, w) /\ Fit(t, At(at, v, w))
    /\ at # "succeed" /\ th[t].at # "succeed"
    /\ at \in {"online", "check", "replace"} => th[t].at \in {"online", "check", "replace"}
    /\ t = Disp /\ at \in {"reconnect", "ready", "requeue"}
          => th[t].at \in {"reconnect", "ready", "requeue"} /\ th[t].v = v
    /\ at # "idle" /\ th[t].at = "idle" => \A x \in Vo : t # Dialer(x) /\ t # Reader(x)
    /\ at \in StopAt /\ v \in Vo => st'[v] = "stop"
    /\ \A x \in Vo : st'[x] = st[x] \/ (Known(x) /\ st'[x] = "stop")
    /\ cur' = cur \/ (cur' = None /\ (cur \in Vo => st'[cur] = "stop"))
    /\ conn' \subseteq conn /\ \A x \in conn' : st'[x] = st[x]

\* It keeps the invariant.
LEMMA Walk ==
    ASSUME SessionsInv, TypeOK', NEW t \in Thread, NEW at, NEW v, NEW w, WalkStep(t, at, v, w)
    PROVE  SessionsInv'
<1> USE SessionsAssumption, Threads DEF SessionsInv, WalkStep
<1>1. v \in Vo \cup {None} /\ w \in Vo \cup {None} BY DEF TypeOK
<1>2. Shape' BY <1>1, MoveShape DEF Shape
<1>3. OneToken' /\ \A x \in Vo : InThread(x)' => InThread(x) BY WalkToken
<1>4. \A x \in Vo : Seen(x)' => Seen(x) BY <1>3, WalkSeen
<1>5. \A x \in Vo : Known(x)' => Known(x) BY DEF Known, Moves
<1>6. \A x \in Vo : st[x] = "new" \/ st'[x] # "new" OBVIOUS
<1>7. NewUnknown' BY <1>4, <1>6 DEF NewUnknown
<1>8. \A x \in Vo : Offered(x)' = Offered(x) /\ (Taken(x)' => Taken(x)) /\ (Succeeding(x)' = Succeeding(x))
  <2>1. \A x \in Vo : Offered(x)' = Offered(x) BY DEF Offered
  <2>2. \A x \in Vo : Taken(x)' => Taken(x) BY DEF Taken, Moves
  <2>3. \A x \in Vo : Succeeding(x)' => Succeeding(x) BY DEF Succeeding, Moves
  <2>4. \A x \in Vo : Succeeding(x) => Succeeding(x)' BY DEF Succeeding, Moves
  <2> QED BY <2>1, <2>2, <2>3, <2>4 DEF Succeeding
<1>9. EarlyUnknown' BY <1>5, <1>8 DEF EarlyUnknown
<1>10. Stopped'
  <2>1. \A s \in Thread : th'[s].at \in StopAt /\ th'[s].v \in Vo => st'[th'[s].v] = "stop"
    BY DEF Stopped, Moves
  <2>2. \A x \in Vo : th'[Reader(x)].at # "idle" => st'[x] # "init" BY DEF Stopped, Moves
  <2> QED BY <2>1, <2>2 DEF Stopped
<1>11. Registered' BY <1>8 DEF Registered, Open, Alive
<1>12. Stages' BY DEF Stages
<1> QED BY <1>2, <1>3, <1>7, <1>9, <1>10, <1>11, <1>12

-----------------------------------------------------------------------------
(* The actions.                                                            *)

USE SessionsAssumption, Threads
USE DEF DispAt, DirectAt, ForceAt, DialAt, ReadAt, RefishAt, OnlineAt, CarryAt, KnowAt, StopAt
USE DEF queueVars, regVars, voVars, downVars

\* What the invariant says of the goroutine that moves.
LEMMA Mover ==
    ASSUME SessionsInv, NEW t \in Thread
    PROVE  /\ ThreadOK /\ Fit(t, th[t]) /\ th[t].at \in Place
           /\ th[t].v \in Vo \cup {None} /\ th[t].w \in Vo \cup {None} /\ cur \in Vo \cup {None}
           /\ th[t].v \in Vo => Known(th[t].v)
           /\ cur \in Vo => Known(cur)
           /\ th[t].at \in CarryAt => th[t].w \in Vo
           /\ th[t].at \in KnowAt => th[t].v \in Vo
           /\ th[t].at = "idle" => th[t].v = None /\ th[t].w = None
BY DEF SessionsInv, TypeOK, ThreadOK, Shape, Fit, Known, Idle, At

\* A stopped session may be closed: CloseOut keeps the types.
LEMMA CloseOutOK ==
    ASSUME TypeOK, NEW v \in Vo, CloseOut(v)
    PROVE  /\ st' \in [Vo -> {"new", "stop", "init", "login", "run", "select"}] /\ conn' \subseteq Vo
           /\ st'[v] = "stop" /\ \A x \in Vo : x # v => st'[x] = st[x]
           /\ conn' \subseteq conn /\ v \notin conn'
BY DEF TypeOK, CloseOut

\* dnfMsgOnLine looks the session up.
LEMMA OnlineFindOK == ASSUME SessionsInv, NEW t \in Thread, OnlineFind(t) PROVE SessionsInv'
<1>3. CASE cur = None
  <2>m. Moves(t, "replace", None, th[t].w) BY <1>3, Mover, GoMoves DEF OnlineFind, Place
  <2>t. TypeOK' BY <1>3, <2>m DEF OnlineFind, SessionsInv, TypeOK, Moves, ThreadOK
  <2>f. Fit(t, At("replace", None, th[t].w)) BY <1>3, Mover DEF OnlineFind, Fit, At, Mine, Idle
  <2>w. WalkStep(t, "replace", None, th[t].w)
    BY <1>3, <2>m, <2>f, Mover DEF OnlineFind, WalkStep, Place
  <2> QED BY <2>t, <2>w, Walk
<1>4. CASE cur # None
  <2>m. Moves(t, "check", cur, th[t].w) BY <1>4, Mover, GoMoves DEF OnlineFind, Place
  <2>t. TypeOK' BY <1>4, <2>m DEF OnlineFind, SessionsInv, TypeOK, Moves, ThreadOK
  <2>f. Fit(t, At("check", cur, th[t].w)) BY <1>4, Mover DEF OnlineFind, Fit, At, Mine, Idle
  <2>w. WalkStep(t, "check", cur, th[t].w)
    BY <1>4, <2>m, <2>f, Mover DEF OnlineFind, WalkStep, Place
  <2> QED BY <2>t, <2>w, Walk
<1> QED BY <1>3, <1>4 DEF OnlineFind

\* CheckUserState stops the session it does not keep, so that its place may be taken.
LEMMA OnlineCheckOK == ASSUME SessionsInv, NEW t \in Thread, OnlineCheck(t) PROVE SessionsInv'
<1>3. CASE st[th[t].v] = "run" /\ th[t].v \notin bad
  <2>m. Moves(t, "idle", None, None) BY <1>3, Mover, FinishMoves DEF OnlineCheck, Place
  <2>t. TypeOK' BY <1>3, <2>m, Mover, CloseOutOK DEF OnlineCheck, SessionsInv, TypeOK, Moves, ThreadOK
  <2>f. Fit(t, At("idle", None, None)) BY <1>3, Mover DEF OnlineCheck, Fit, At, Mine, Idle
  <2>w. WalkStep(t, "idle", None, None)
    BY <1>3, <2>m, <2>f, Mover, CloseOutOK DEF OnlineCheck, WalkStep, SessionsInv, Place
  <2> QED BY <2>t, <2>w, Walk
<1>4. CASE ~(st[th[t].v] = "run" /\ th[t].v \notin bad)
  <2>m. Moves(t, "replace", th[t].v, th[t].w) BY <1>4, Mover, GoMoves DEF OnlineCheck, Place
  <2>t. TypeOK' BY <1>4, <2>m, Mover, CloseOutOK DEF OnlineCheck, SessionsInv, TypeOK, Moves, ThreadOK
  <2>f. Fit(t, At("replace", th[t].v, th[t].w)) BY <1>4, Mover DEF OnlineCheck, Fit, At, Mine, Idle
  <2>w. WalkStep(t, "replace", th[t].v, th[t].w)
    BY <1>4, <2>m, <2>f, Mover, CloseOutOK DEF OnlineCheck, WalkStep, SessionsInv, Place
  <2> QED BY <2>t, <2>w, Walk
<1> QED BY <1>3, <1>4 DEF OnlineCheck

\* msgReconnect goes on with a current session only.
LEMMA ReconnectCurrentOK == ASSUME SessionsInv, NEW t \in Thread, ReconnectCurrent(t) PROVE SessionsInv'
<1>3. CASE cur = th[t].v
  <2>m. Moves(t, "ready", th[t].v, None) BY <1>3, Mover, GoMoves DEF ReconnectCurrent, Place
  <2>t. TypeOK' BY <1>3, <2>m DEF ReconnectCurrent, SessionsInv, TypeOK, Moves, ThreadOK
  <2>f. Fit(t, At("ready", th[t].v, None)) BY <1>3, Mover DEF ReconnectCurrent, Fit, At, Mine, Idle
  <2>w. WalkStep(t, "ready", th[t].v, None)
    BY <1>3, <2>m, <2>f, Mover DEF ReconnectCurrent, WalkStep, Place
  <2> QED BY <2>t, <2>w, Walk
<1>4. CASE cur # th[t].v
  <2>m. Moves(t, "idle", None, None) BY <1>4, Mover, FinishMoves DEF ReconnectCurrent, Place
  <2>t. TypeOK' BY <1>4, <2>m DEF ReconnectCurrent, SessionsInv, TypeOK, Moves, ThreadOK
  <2>f. Fit(t, At("idle", None, None)) BY <1>4, Mover DEF ReconnectCurrent, Fit, At, Mine, Idle
  <2>w. WalkStep(t, "idle", None, None)
    BY <1>4, <2>m, <2>f, Mover DEF ReconnectCurrent, WalkStep, Place
  <2> QED BY <2>t, <2>w, Walk
<1> QED BY <1>3, <1>4 DEF ReconnectCurrent

\* readyToConnect.
LEMMA ReconnectReadyOK == ASSUME SessionsInv, NEW t \in Thread, ReconnectReady(t) PROVE SessionsInv'
<1>3. CASE st[th[t].v] = "init" /\ th[t].v \notin inflight
  <2>m. Moves(t, "requeue", th[t].v, None) BY <1>3, Mover, GoMoves DEF ReconnectReady, Place
  <2>t. TypeOK' BY <1>3, <2>m DEF ReconnectReady, SessionsInv, TypeOK, Moves, ThreadOK
  <2>f. Fit(t, At("requeue", th[t].v, None)) BY <1>3, Mover DEF ReconnectReady, Fit, At, Mine, Idle
  <2>w. WalkStep(t, "requeue", th[t].v, None)
    BY <1>3, <2>m, <2>f, Mover DEF ReconnectReady, WalkStep, Place
  <2> QED BY <2>t, <2>w, Walk
<1>4. CASE ~(st[th[t].v] = "init" /\ th[t].v \notin inflight)
  <2>m. Moves(t, "idle", None, None) BY <1>4, Mover, FinishMoves DEF ReconnectReady, Place
  <2>t. TypeOK' BY <1>4, <2>m DEF ReconnectReady, SessionsInv, TypeOK, Moves, ThreadOK
  <2>f. Fit(t, At("idle", None, None)) BY <1>4, Mover DEF ReconnectReady, Fit, At, Mine, Idle
  <2>w. WalkStep(t, "idle", None, None)
    BY <1>4, <2>m, <2>f, Mover DEF ReconnectReady, WalkStep, Place
  <2> QED BY <2>t, <2>w, Walk
<1> QED BY <1>3, <1>4 DEF ReconnectReady

\* msgLogout looks the session up,
LEMMA LogoutFindOK == ASSUME SessionsInv, NEW t \in Thread, LogoutFind(t) PROVE SessionsInv'
<1>3. CASE cur = None
  <2>m. Moves(t, "idle", None, None) BY <1>3, Mover, FinishMoves DEF LogoutFind, Place
  <2>t. TypeOK' BY <1>3, <2>m DEF LogoutFind, SessionsInv, TypeOK, Moves, ThreadOK
  <2>f. Fit(t, At("idle", None, None)) BY <1>3, Mover DEF LogoutFind, Fit, At, Mine, Idle
  <2>w. WalkStep(t, "idle", None, None)
    BY <1>3, <2>m, <2>f, Mover DEF LogoutFind, WalkStep, Place
  <2> QED BY <2>t, <2>w, Walk
<1>4. CASE cur # None
  <2>m. Moves(t, "logoutClose", cur, None) BY <1>4, Mover, GoMoves DEF LogoutFind, Place
  <2>t. TypeOK' BY <1>4, <2>m DEF LogoutFind, SessionsInv, TypeOK, Moves, ThreadOK
  <2>f. Fit(t, At("logoutClose", cur, None)) BY <1>4, Mover DEF LogoutFind, Fit, At, Mine, Idle
  <2>w. WalkStep(t, "logoutClose", cur, None)
    BY <1>4, <2>m, <2>f, Mover DEF LogoutFind, WalkStep, Place
  <2> QED BY <2>t, <2>w, Walk
<1> QED BY <1>3, <1>4 DEF LogoutFind

\* closes it,
LEMMA LogoutCloseOK == ASSUME SessionsInv, NEW t \in Thread, LogoutClose(t) PROVE SessionsInv'
<1>m. Moves(t, "logoutDelete", th[t].v, None) BY Mover, GoMoves DEF LogoutClose, Place
<1>t. TypeOK' BY <1>m, Mover, CloseOutOK DEF LogoutClose, SessionsInv, TypeOK, Moves, ThreadOK
<1>f. Fit(t, At("logoutDelete", th[t].v, None)) BY Mover DEF LogoutClose, Fit, At, Mine, Idle
<1>w. WalkStep(t, "logoutDelete", th[t].v, None)
  BY <1>m, <1>f, Mover, CloseOutOK DEF LogoutClose, WalkStep, SessionsInv, Place
<1> QED BY <1>t, <1>w, Walk

\* and takes it out of the registry: it is stopped by then.
LEMMA LogoutDeleteOK == ASSUME SessionsInv, NEW t \in Thread, LogoutDelete(t) PROVE SessionsInv'
<1>m. Moves(t, "idle", None, None) BY Mover, FinishMoves DEF LogoutDelete, Place
<1>t. TypeOK' BY <1>m DEF LogoutDelete, SessionsInv, TypeOK, Moves, ThreadOK, DeleteIf
<1>f. Fit(t, At("idle", None, None)) BY Mover DEF LogoutDelete, Fit, At, Mine, Idle
<1>w. WalkStep(t, "idle", None, None)
  BY <1>m, <1>f, Mover DEF LogoutDelete, WalkStep, SessionsInv, Stopped, DeleteIf, Place
<1> QED BY <1>t, <1>w, Walk

\* Every path that ends with DeleteIf has stopped its session before.
LEMMA DeleteOK == ASSUME SessionsInv, NEW t \in Thread, Delete(t) PROVE SessionsInv'
<1>m. Moves(t, "idle", None, None) BY Mover, FinishMoves DEF Delete, Place
<1>t. TypeOK' BY <1>m DEF Delete, SessionsInv, TypeOK, Moves, ThreadOK, DeleteIf
<1>f. Fit(t, At("idle", None, None)) BY Mover DEF Delete, Fit, At, Mine, Idle
<1>w. WalkStep(t, "idle", None, None)
  BY <1>m, <1>f, Mover DEF Delete, WalkStep, SessionsInv, Stopped, DeleteIf, Place
<1> QED BY <1>t, <1>w, Walk

\* ForceClose looks the session up,
LEMMA ForceFindOK == ASSUME SessionsInv, ForceFind PROVE SessionsInv'
<1>1. Forcer \in Thread /\ th[Forcer].at = "idle" BY DEF ForceFind, Idle, At
<1>m. Moves(Forcer, "forceClose", cur, None) BY <1>1, Mover, GoMoves DEF ForceFind, Place
<1>t. TypeOK' BY <1>1, <1>m DEF ForceFind, SessionsInv, TypeOK, Moves, ThreadOK
<1>f. Fit(Forcer, At("forceClose", cur, None)) BY <1>1, Mover DEF ForceFind, Fit, At, Mine, Idle
<1>w. WalkStep(Forcer, "forceClose", cur, None)
  BY <1>1, <1>m, <1>f DEF ForceFind, WalkStep, Place, Mine
<1> QED BY <1>1, <1>t, <1>w, Walk

\* closes it,
LEMMA ForceCloseOK == ASSUME SessionsInv, ForceClose PROVE SessionsInv'
<1>1. Forcer \in Thread OBVIOUS
<1>m. Moves(Forcer, "delete", th[Forcer].v, None) BY <1>1, Mover, GoMoves DEF ForceClose, Place
<1>t. TypeOK' BY <1>1, <1>m, Mover, CloseOutOK DEF ForceClose, SessionsInv, TypeOK, Moves, ThreadOK
<1>f. Fit(Forcer, At("delete", th[Forcer].v, None)) BY <1>1, Mover DEF ForceClose, Fit, At, Mine, Idle
<1>w. WalkStep(Forcer, "delete", th[Forcer].v, None)
  BY <1>1, <1>m, <1>f, Mover, CloseOutOK DEF ForceClose, WalkStep, SessionsInv, Place
<1> QED BY <1>1, <1>t, <1>w, Walk

\* or finds it busy.
LEMMA ForceCloseBusyOK == ASSUME SessionsInv, ForceCloseBusy PROVE SessionsInv'
<1>1. Forcer \in Thread OBVIOUS
<1>m. Moves(Forcer, "idle", None, None) BY <1>1, Mover, FinishMoves DEF ForceCloseBusy, Place
<1>t. TypeOK' BY <1>1, <1>m DEF ForceCloseBusy, SessionsInv, TypeOK, Moves, ThreadOK
<1>f. Fit(Forcer, At("idle", None, None)) BY <1>1, Mover DEF ForceCloseBusy, Fit, At, Mine, Idle
<1>w. WalkStep(Forcer, "idle", None, None)
  BY <1>1, <1>m, <1>f, Mover DEF ForceCloseBusy, WalkStep, Place
<1> QED BY <1>1, <1>t, <1>w, Walk

\* connectContext marks the session in flight,
LEMMA DialBeginOK == ASSUME SessionsInv, NEW x \in Vo, DialBegin(x) PROVE SessionsInv'
<1>1. Dialer(x) \in Thread OBVIOUS
<1>2. th[Dialer(x)].v = x BY <1>1, Mover DEF DialBegin, Fit, Mine
<1>3. CASE ~done /\ st[x] = "init" /\ x \notin inflight
  <2>m. Moves(Dialer(x), "current", x, None) BY <1>3, <1>1, Mover, GoMoves DEF DialBegin, Place
  <2>t. TypeOK' BY <1>3, <1>1, <2>m DEF DialBegin, SessionsInv, TypeOK, Moves, ThreadOK
  <2>f. Fit(Dialer(x), At("current", x, None)) BY <1>3, <1>1, Mover DEF DialBegin, Fit, At, Mine, Idle
  <2>w. WalkStep(Dialer(x), "current", x, None)
    BY <1>3, <1>1, <2>m, <1>2, <2>f, Mover DEF DialBegin, WalkStep, Place
  <2> QED BY <1>1, <2>t, <2>w, Walk
<1>4. CASE ~(~done /\ st[x] = "init" /\ x \notin inflight)
  <2>m. Moves(Dialer(x), "idle", None, None) BY <1>4, <1>1, Mover, FinishMoves DEF DialBegin, Place
  <2>t. TypeOK' BY <1>4, <1>1, <2>m DEF DialBegin, SessionsInv, TypeOK, Moves, ThreadOK
  <2>f. Fit(Dialer(x), At("idle", None, None)) BY <1>4, <1>1, Mover DEF DialBegin, Fit, At, Mine, Idle
  <2>w. WalkStep(Dialer(x), "idle", None, None)
    BY <1>4, <1>1, <2>m, <1>2, <2>f, Mover DEF DialBegin, WalkStep, Place
  <2> QED BY <1>1, <2>t, <2>w, Walk
<1> QED BY <1>3, <1>4 DEF DialBegin

\* looks whether it is still current,
LEMMA DialCurrentOK == ASSUME SessionsInv, NEW x \in Vo, DialCurrent(x) PROVE SessionsInv'
<1>1. Dialer(x) \in Thread OBVIOUS
<1>2. th[Dialer(x)].v = x BY <1>1, Mover DEF DialCurrent, Fit, Mine
<1>3. CASE cur = x
  <2>m. Moves(Dialer(x), "dial", x, None) BY <1>3, <1>1, Mover, GoMoves DEF DialCurrent, Place
  <2>t. TypeOK' BY <1>3, <1>1, <2>m DEF DialCurrent, SessionsInv, TypeOK, Moves, ThreadOK
  <2>f. Fit(Dialer(x), At("dial", x, None)) BY <1>3, <1>1, Mover DEF DialCurrent, Fit, At, Mine, Idle
  <2>w. WalkStep(Dialer(x), "dial", x, None)
    BY <1>3, <1>1, <2>m, <1>2, <2>f, Mover DEF DialCurrent, WalkStep, Place
  <2> QED BY <1>1, <2>t, <2>w, Walk
<1>4. CASE cur # x
  <2>m. Moves(Dialer(x), "idle", None, None) BY <1>4, <1>1, Mover, FinishMoves DEF DialCurrent, Place
  <2>t. TypeOK' BY <1>4, <1>1, <2>m DEF DialCurrent, SessionsInv, TypeOK, Moves, ThreadOK
  <2>f. Fit(Dialer(x), At("idle", None, None)) BY <1>4, <1>1, Mover DEF DialCurrent, Fit, At, Mine, Idle
  <2>w. WalkStep(Dialer(x), "idle", None, None)
    BY <1>4, <1>1, <2>m, <1>2, <2>f, Mover DEF DialCurrent, WalkStep, Place
  <2> QED BY <1>1, <2>t, <2>w, Walk
<1> QED BY <1>3, <1>4 DEF DialCurrent

\* fails to dial it,
LEMMA DialFailsOK == ASSUME SessionsInv, NEW x \in Vo, DialFails(x) PROVE SessionsInv'
<1>1. Dialer(x) \in Thread OBVIOUS
<1>2. th[Dialer(x)].v = x BY <1>1, Mover DEF DialFails, Fit, Mine
<1>3. CASE done
  <2>m. Moves(Dialer(x), "idle", None, None) BY <1>3, <1>1, Mover, FinishMoves DEF DialFails, Place
  <2>t. TypeOK' BY <1>3, <1>1, <2>m DEF DialFails, SessionsInv, TypeOK, Moves, ThreadOK
  <2>f. Fit(Dialer(x), At("idle", None, None)) BY <1>3, <1>1, Mover DEF DialFails, Fit, At, Mine, Idle
  <2>w. WalkStep(Dialer(x), "idle", None, None)
    BY <1>3, <1>1, <2>m, <1>2, <2>f, Mover DEF DialFails, WalkStep, Place
  <2> QED BY <1>1, <2>t, <2>w, Walk
<1>4. CASE ~done
  <2>m. Moves(Dialer(x), "refish", x, None) BY <1>4, <1>1, Mover, GoMoves DEF DialFails, Place
  <2>t. TypeOK' BY <1>4, <1>1, <2>m DEF DialFails, SessionsInv, TypeOK, Moves, ThreadOK
  <2>f. Fit(Dialer(x), At("refish", x, None)) BY <1>4, <1>1, Mover DEF DialFails, Fit, At, Mine, Idle
  <2>w. WalkStep(Dialer(x), "refish", x, None)
    BY <1>4, <1>1, <2>m, <1>2, <2>f, Mover DEF DialFails, WalkStep, Place
  <2> QED BY <1>1, <2>t, <2>w, Walk
<1> QED BY <1>3, <1>4 DEF DialFails

\* or dials it.
LEMMA DialSucceedsOK == ASSUME SessionsInv, NEW x \in Vo, DialOK(x) PROVE SessionsInv'
<1>1. Dialer(x) \in Thread OBVIOUS
<1>2. th[Dialer(x)].v = x BY <1>1, Mover DEF DialOK, Fit, Mine
<1>m. Moves(Dialer(x), "register", x, None) BY <1>1, Mover, GoMoves DEF DialOK, Place
<1>t. TypeOK' BY <1>1, <1>m DEF DialOK, SessionsInv, TypeOK, Moves, ThreadOK
<1>f. Fit(Dialer(x), At("register", x, None)) BY <1>1, Mover DEF DialOK, Fit, At, Mine, Idle
<1>w. WalkStep(Dialer(x), "register", x, None)
  BY <1>1, <1>m, <1>2, <1>f, Mover DEF DialOK, WalkStep, Place
<1> QED BY <1>1, <1>t, <1>w, Walk

\* A disconnect reason starts refresh_connect, which is idle or has not begun.
LEMMA PacketDisconnectOK == ASSUME SessionsInv, NEW x \in Vo, PacketDisconnect(x) PROVE SessionsInv'
<1> DEFINE t == Refresher(x)
<1>1. t \in Thread /\ TypeOK BY DEF SessionsInv
<1>2. st[x] \in {"login", "run", "select"} BY DEF PacketDisconnect, SessionsInv, Registered, Alive
<1>3. x \in closing \/ cur = x BY <1>2 DEF SessionsInv, Registered, Open, EarlyUnknown
<1>4. CASE done
  <2>1. TypeOK' BY <1>1, <1>4 DEF PacketDisconnect, TypeOK
  <2>2. Stages' BY <1>4 DEF PacketDisconnect, SessionsInv, Stages
  <2> QED BY <1>4, <2>1, <2>2, Still DEF PacketDisconnect, SessionsInv, Registered, Alive
<1>5. CASE ~done
  <2>1. cur = x BY <1>3, <1>5 DEF SessionsInv, Stages, TypeOK
  <2>2. th[t].at # "succeed" /\ (th[t].at # "idle" => th[t].v = x)
    BY <1>1, <1>2, Mover DEF SessionsInv, Stopped, Fit, Mine
  <2>m. Moves(t, "refish", x, None) BY <1>1, <1>5, Mover, GoMoves DEF PacketDisconnect, Place
  <2>t. TypeOK' BY <1>1, <1>5, <2>m DEF PacketDisconnect, TypeOK, Moves, ThreadOK
  <2>f. Fit(t, At("refish", x, None)) BY DEF Fit, At, Mine, Idle
  <2>w. WalkStep(t, "refish", x, None)
    BY <1>1, <1>5, <2>1, <2>2, <2>m, <2>f DEF PacketDisconnect, WalkStep, Place, Mine
  <2> QED BY <1>1, <2>t, <2>w, Walk
<1> QED BY <1>4, <1>5

\* The read loop ends in a reconnect or for good.
LEMMA ReadErrorOK == ASSUME SessionsInv, NEW x \in Vo, ReadError(x) PROVE SessionsInv'
<1>1. Reader(x) \in Thread OBVIOUS
<1>2. th[Reader(x)].v = x BY <1>1, Mover DEF ReadError, Fit, Mine
<1>3. CASE st[x] # "stop" /\ count[x] < MaxReConn
  <2>m. Moves(Reader(x), "refish", x, None) BY <1>3, <1>1, Mover, GoMoves DEF ReadError, Place
  <2>t. TypeOK' BY <1>3, <1>1, <2>m DEF ReadError, SessionsInv, TypeOK, Moves, ThreadOK
  <2>f. Fit(Reader(x), At("refish", x, None)) BY <1>3, <1>1, Mover DEF ReadError, Fit, At, Mine, Idle
  <2>w. WalkStep(Reader(x), "refish", x, None)
    BY <1>3, <1>1, <2>m, <1>2, <2>f, Mover DEF ReadError, WalkStep, Place
  <2> QED BY <1>1, <2>t, <2>w, Walk
<1>4. CASE ~(st[x] # "stop" /\ count[x] < MaxReConn)
  <2>m. Moves(Reader(x), "finish", x, None) BY <1>4, <1>1, Mover, GoMoves DEF ReadError, Place
  <2>t. TypeOK' BY <1>4, <1>1, <2>m DEF ReadError, SessionsInv, TypeOK, Moves, ThreadOK
  <2>f. Fit(Reader(x), At("finish", x, None)) BY <1>4, <1>1, Mover DEF ReadError, Fit, At, Mine, Idle
  <2>w. WalkStep(Reader(x), "finish", x, None)
    BY <1>4, <1>1, <2>m, <1>2, <2>f, Mover DEF ReadError, WalkStep, Place
  <2> QED BY <1>1, <2>t, <2>w, Walk
<1> QED BY <1>3, <1>4 DEF ReadError

\* finishReadLoop closes the session before it deletes it.
LEMMA ReadFinishOK == ASSUME SessionsInv, NEW x \in Vo, ReadFinish(x) PROVE SessionsInv'
<1>1. Reader(x) \in Thread OBVIOUS
<1>2. th[Reader(x)].v = x BY <1>1, Mover DEF ReadFinish, Fit, Mine
<1>3. CASE x \in conn
  <2>m. Moves(Reader(x), "delete", x, None) BY <1>3, <1>1, Mover, GoMoves DEF ReadFinish, Place
  <2>t. TypeOK' BY <1>3, <1>1, <2>m, Mover, CloseOutOK DEF ReadFinish, SessionsInv, TypeOK, Moves, ThreadOK
  <2>f. Fit(Reader(x), At("delete", x, None)) BY <1>3, <1>1, Mover DEF ReadFinish, Fit, At, Mine, Idle
  <2>w. WalkStep(Reader(x), "delete", x, None)
    BY <1>3, <1>1, <2>m, <1>2, <2>f, Mover, CloseOutOK DEF ReadFinish, WalkStep, SessionsInv, Place
  <2> QED BY <1>1, <2>t, <2>w, Walk
<1>4. CASE x \notin conn
  <2>m. Moves(Reader(x), "idle", None, None) BY <1>4, <1>1, Mover, FinishMoves DEF ReadFinish, Place
  <2>t. TypeOK' BY <1>4, <1>1, <2>m, Mover, CloseOutOK DEF ReadFinish, SessionsInv, TypeOK, Moves, ThreadOK
  <2>f. Fit(Reader(x), At("idle", None, None)) BY <1>4, <1>1, Mover DEF ReadFinish, Fit, At, Mine, Idle
  <2>w. WalkStep(Reader(x), "idle", None, None)
    BY <1>4, <1>1, <2>m, <1>2, <2>f, Mover, CloseOutOK DEF ReadFinish, WalkStep, SessionsInv, Place
  <2> QED BY <1>1, <2>t, <2>w, Walk
<1> QED BY <1>3, <1>4 DEF ReadFinish

-----------------------------------------------------------------------------
(* Steps that only change the queues of RobotSvc or a session's own state. *)

\* The calls, the batches and the stages of Shutdown move no session.
LEMMA SvcOK ==
    ASSUME SessionsInv, Online \/ Logout \/ TakeBatch \/ DropBatch \/ ShutdownSvc \/ ShutdownBegin \/ ShutdownDone
    PROVE  SessionsInv'
<1> USE DEF SessionsInv, Online, Logout, TakeBatch, DropBatch, ShutdownSvc, ShutdownBegin, ShutdownDone
<1>1. TypeOK
  OBVIOUS
<1>2. UNCHANGED <<shard, delayed, regVars, voVars, closing, th>> OBVIOUS
<1>3. /\ calls' \in 0 .. MaxCalls /\ running' \in BOOLEAN
      /\ done' \in BOOLEAN /\ down' \in {"no", "svc", "queues", "collect", "close", "done"}
      /\ svc' \in Seq({"online", "logout"}) /\ dispatched' \in Seq({"online", "logout"})
  <2>1. CASE Online BY <1>1, <2>1 DEF TypeOK
  <2>2. CASE Logout BY <1>1, <2>2 DEF TypeOK
  <2>3. CASE TakeBatch \/ DropBatch \/ ShutdownSvc
    <3>1. CASE TakeBatch BY <1>1, <3>1 DEF TypeOK
    <3>2. CASE DropBatch BY <1>1, <3>2 DEF TypeOK
    <3>3. CASE ShutdownSvc
      <4>1. svc' \in Seq({"online", "logout"}) BY <3>3
      <4>2. running' \in BOOLEAN BY <3>3
      <4> QED BY <1>1, <3>3, <4>1, <4>2 DEF TypeOK
    <3> QED BY <2>3, <3>1, <3>2, <3>3
  <2>4. CASE ShutdownBegin \/ ShutdownDone BY <1>1, <2>4 DEF TypeOK
  <2> QED BY <2>1, <2>2, <2>3, <2>4
<1>4. TypeOK' BY <1>1, <1>2, <1>3 DEF TypeOK
<1>5. Stages' BY DEF Stages, TypeOK
<1> QED BY <1>2, <1>4, <1>5, Still DEF Registered, Alive

\* An open connection's session is known.
LEMMA ConnKnown ==
    ASSUME SessionsInv, NEW v \in Vo, v \in conn
    PROVE  v \in Alive /\ Known(v)
BY DEF SessionsInv, Registered, Alive, Open, EarlyUnknown, Known

\* The server's packets move a session that is connected, hence registered.
LEMMA ServerOK ==
    ASSUME SessionsInv, NEW v \in Vo,
           PacketRun(v) \/ PacketSelect(v) \/ Reselect(v) \/ PacketBad(v) \/ ShutdownClose(v)
    PROVE  SessionsInv'
<1>1. TypeOK /\ Stages BY DEF SessionsInv
<1>2. CASE PacketRun(v) \/ PacketSelect(v) \/ Reselect(v)
  <2> USE DEF PacketRun, PacketSelect, Reselect
  <2>0. count' \in [Vo -> Nat]
    <3>1. CASE PacketRun(v) BY <1>1, <3>1 DEF TypeOK
    <3>2. CASE PacketSelect(v) \/ Reselect(v) BY <1>1, <3>2 DEF TypeOK
    <3> QED BY <1>2, <3>1, <3>2
  <2>1. TypeOK' BY <1>1, <1>2, <2>0 DEF TypeOK
  <2>2. Stages' BY <1>1, <1>2 DEF Stages
  <2>3. /\ UNCHANGED <<th, cur, shard, delayed, connectQ, closing, conn>>
        /\ v \in Alive /\ v \in Alive' /\ \A x \in Vo : x # v => st'[x] = st[x]
    BY <1>1, <1>2 DEF TypeOK, Alive
  <2>4. conn' \subseteq Alive' BY <2>3 DEF SessionsInv, Registered, Alive
  <2> QED BY <2>1, <2>2, <2>3, <2>4, Still
<1>3. CASE PacketBad(v) \/ ShutdownClose(v)
  <2> USE DEF PacketBad, ShutdownClose
  <2>1. TypeOK' BY <1>1, <1>3, CloseOutOK DEF TypeOK
  <2>2. Stages' BY <1>1, <1>3 DEF Stages
  <2>3. Known(v) BY <1>3, ConnKnown DEF Known
  <2>4. st[v] # "new" BY <2>3 DEF SessionsInv, NewUnknown, Seen
  <2>5. /\ UNCHANGED <<th, cur, shard, delayed, connectQ>> /\ st'[v] = "stop"
        /\ \A x \in Vo : x # v => st'[x] = st[x]
        /\ closing' \subseteq closing /\ \A x \in closing : x \in closing' \/ x = v
    BY <1>1, <1>3, CloseOutOK
  <2>6. conn' \subseteq Alive' BY <1>1, <1>3, <2>5, CloseOutOK DEF SessionsInv, Registered, Alive
  <2> QED BY <2>1, <2>2, <2>3, <2>4, <2>5, <2>6, Still
<1> QED BY <1>2, <1>3

-----------------------------------------------------------------------------
(* Steps that make an incarnation or pass its token on.                    *)

\* A session nobody has seen has no token and is not on offer.
LEMMA NewNowhere ==
    ASSUME SessionsInv, NEW v \in Vo, st[v] = "new"
    PROVE  /\ ~InThread(v) /\ v \notin delayed /\ ~InShard(v) /\ ~InDisp(v) /\ ~InQueue(v) /\ ~InDial(v)
           /\ ~Known(v) /\ ~Offered(v) /\ ~Taken(v) /\ ~Succeeding(v)
           /\ th[Reader(v)].at = "idle"
<1>1. ~InThread(v) /\ v \notin delayed /\ ~InShard(v) /\ ~InQueue(v) /\ ~Known(v)
  BY DEF SessionsInv, NewUnknown, Seen
<1>2. \A t \in Thread : th[t].v # v BY <1>1 DEF Known
<1>3. ~InDisp(v) BY <1>2 DEF InDisp
<1>4. ~InDial(v) /\ th[Reader(v)].at = "idle" BY <1>2 DEF InDial, SessionsInv, Shape, Fit, Mine
<1>5. ~Offered(v) BY <1>1, OfferedInShard
<1>6. ~Taken(v) /\ ~Succeeding(v) BY <1>1 DEF InThread, Taken, Succeeding
<1> QED BY <1>1, <1>3, <1>4, <1>5, <1>6

\* RobotSvc hands a session or a logout to the shard, or fails to.
LEMMA DispatchOK == ASSUME SessionsInv, Dispatch PROVE SessionsInv'
<1> USE DEF SessionsInv
<1>0. /\ UNCHANGED <<svc, running, delayed, regVars, conn, inflight, bad, count, downVars, th, calls>>
      /\ dispatched' \in Seq({"online", "logout"})
  BY DEF Dispatch, TypeOK
<1>1. ASSUME UNCHANGED <<shard, st>> PROVE SessionsInv'
  <2>1. TypeOK' /\ Stages' BY <1>0, <1>1 DEF TypeOK, Stages
  <2> QED BY <1>0, <1>1, <2>1, Still DEF Registered, Alive
<1>2. ASSUME Supersede(Msg("logout", None)), UNCHANGED st, ~done PROVE SessionsInv'
  <2> DEFINE m == Msg("logout", None)
  <2>1. m \in Message /\ m.type = "logout" BY DEF Msg, Message
  <2>2. shard' = <<m>> BY <1>2 DEF Supersede
  <2>3. shard' \in Seq(Message) /\ Whole(shard') /\ HeldOnce(shard') /\ \A v : ~Held(shard', v) /\ ~Offers(shard', v)
    BY <2>1, <2>2, ShardOne DEF Asks
  <2>4. TypeOK' /\ Stages' BY <1>0, <1>2, <2>3 DEF TypeOK, Stages, Message
  <2>5. Shape' BY <1>0, <2>3 DEF Shape
  <2>6. OneToken' BY <1>0, <2>3 DEF OneToken, InThread, InShard, InDisp, InQueue, InDial
  <2>7. NewUnknown' BY <1>0, <1>2, <2>3 DEF NewUnknown, Seen, Known, InThread, InShard, InQueue
  <2>8. EarlyUnknown' BY <1>0, <1>2, <2>3 DEF EarlyUnknown, Offered, Taken, Succeeding, Known
  <2>9. Stopped' /\ Registered' BY <1>0, <1>2 DEF Stopped, Registered, Open, Alive, Succeeding
  <2> QED BY <2>4, <2>5, <2>6, <2>7, <2>8, <2>9
<1>3. ASSUME NEW w \in Vo, st[w] = "new", st' = [st EXCEPT ![w] = "stop"], Supersede(Msg("online", w))
      PROVE  SessionsInv'
  <2> DEFINE m == Msg("online", w)
  <2>1. m \in Message /\ m.type = "online" /\ m.v = w BY DEF Msg, Message
  <2>2. st' \in [Vo -> {"new", "stop", "init", "login", "run", "select"}] /\ st'[w] = "stop"
        /\ \A x \in Vo : x # w => st'[x] = st[x]
    BY <1>3 DEF TypeOK
  <2>n. /\ ~InThread(w) /\ w \notin delayed /\ ~InShard(w) /\ ~InDisp(w) /\ ~InQueue(w) /\ ~InDial(w)
        /\ ~Known(w) /\ ~Offered(w) /\ ~Taken(w) /\ ~Succeeding(w)
    BY <1>3, NewNowhere
  <2>3. /\ shard' \in Seq(Message) /\ Whole(shard') /\ HeldOnce(shard')
        /\ \A x \in Vo : x # w => (Held(shard', x) => Held(shard, x)) /\ (Offers(shard', x) => Offers(shard, x))
    <3>1. CASE done BY <3>1, <1>3 DEF Supersede, Message, TypeOK, Shape, OneToken
    <3>2. CASE ~done BY <3>2, <1>3, <2>1, ShardOne DEF Supersede, Asks
    <3> QED BY <3>1, <3>2
  <2>4. TypeOK' /\ Stages' BY <1>0, <2>2, <2>3 DEF TypeOK, Stages, Message
  <2>5. Shape' BY <1>0, <2>3 DEF Shape
  <2>6. OneToken' BY <1>0, <2>3, <2>n DEF OneToken, InThread, InShard, InDisp, InQueue, InDial
  <2>7. NewUnknown' BY <1>0, <2>2, <2>3 DEF NewUnknown, Seen, Known, InThread, InShard, InQueue
  <2>8. EarlyUnknown' BY <1>0, <2>2, <2>3, <2>n DEF EarlyUnknown, Offered, Taken, Succeeding, Known
  <2>9. Stopped' BY <1>0, <2>2 DEF Stopped
  <2>10. Registered' BY <1>0, <1>3, <2>2 DEF Registered, Open, Alive, Succeeding
  <2> QED BY <2>4, <2>5, <2>6, <2>7, <2>8, <2>9, <2>10
<1>4. \/ UNCHANGED <<shard, st>>
      \/ Supersede(Msg("logout", None)) /\ UNCHANGED st
      \/ \E v \in Vo : st[v] = "new" /\ st' = [st EXCEPT ![v] = "stop"] /\ Supersede(Msg("online", v))
  BY DEF Dispatch
<1>5. CASE Supersede(Msg("logout", None)) /\ UNCHANGED st
  BY <1>1, <1>2, <1>5 DEF Supersede
<1> QED BY <1>1, <1>3, <1>4, <1>5

\* A disjoint Online takes its session along and empties the shard.
LEMMA OnlineImmediateOK == ASSUME SessionsInv, OnlineImmediate PROVE SessionsInv'
<1> USE DEF SessionsInv
<1>0. /\ UNCHANGED <<svc, dispatched, running, delayed, regVars, conn, inflight, bad, count, downVars>>
      /\ calls' \in 0 .. MaxCalls /\ shard' = <<>> /\ th[Direct] = Idle
  BY DEF OnlineImmediate, TypeOK
<1>1. PICK w \in Vo : st[w] = "new" /\ st' = [st EXCEPT ![w] = "stop"] /\ Go(Direct, "online", None, w)
  BY DEF OnlineImmediate
<1>m. Moves(Direct, "online", None, w) BY <1>1, Mover, GoMoves DEF Place
<1>d. th[Direct].at = "idle" /\ th[Direct].v = None /\ th[Direct].w = None BY <1>0 DEF Idle, At
<1>2. st' \in [Vo -> {"new", "stop", "init", "login", "run", "select"}] /\ st'[w] = "stop"
      /\ \A x \in Vo : x # w => st'[x] = st[x]
  BY <1>1 DEF TypeOK
<1>n. /\ ~InThread(w) /\ w \notin delayed /\ ~InShard(w) /\ ~InDisp(w) /\ ~InQueue(w) /\ ~InDial(w)
      /\ ~Known(w) /\ ~Offered(w) /\ ~Taken(w) /\ ~Succeeding(w)
  BY <1>1, NewNowhere
<1>3. /\ shard' \in Seq(Message) /\ Whole(shard') /\ HeldOnce(shard')
      /\ \A x : ~Held(shard', x) /\ ~Offers(shard', x)
  BY <1>0, ShardEmpty
<1>4. TypeOK' /\ Stages' BY <1>0, <1>2, <1>3, <1>m DEF TypeOK, Stages, Message, Moves, ThreadOK
<1>5. Fit(Direct, At("online", None, w)) BY DEF Fit, At, Mine
<1>6. Shape' BY <1>3, <1>5, <1>m, MoveShape DEF Place
<1>7. OneToken'
  <2>1. \A r, s \in Thread : th'[r].w = th'[s].w /\ th'[s].w \in Vo => r = s
    BY <1>m, <1>n DEF Moves, OneToken, InThread
  <2>2. \A x \in Vo : /\ x # w /\ InThread(x)' => InThread(x)
                      /\ InDisp(x)' = InDisp(x) /\ InDial(x)' = InDial(x)
    BY <1>m DEF Moves, InThread, InDisp, InDial, Mine
  <2>3. \A x \in Vo : ~InShard(x)' /\ InQueue(x)' = InQueue(x) BY <1>0, <1>3 DEF InShard, InQueue
  <2> QED BY <1>0, <1>3, <1>n, <2>1, <2>2, <2>3 DEF OneToken
<1>8. \A x \in Vo : Known(x)' => Known(x) BY <1>0, <1>m DEF Known, Moves
<1>9. NewUnknown' BY <1>0, <1>2, <1>3, <1>8, <1>m DEF NewUnknown, Seen, Moves, InThread, InShard, InQueue
<1>10. EarlyUnknown'
  <2>1. \A x \in Vo : ~Offered(x)' /\ (Taken(x)' => Taken(x) \/ x = w) /\ (Succeeding(x)' => Succeeding(x))
    BY <1>3, <1>m DEF Offered, Taken, Succeeding, Moves
  <2> QED BY <1>2, <1>8, <1>n, <2>1 DEF EarlyUnknown
<1>11. Stopped'
  <2>1. \A s \in Thread : th'[s].at \in StopAt /\ th'[s].v \in Vo => st'[th'[s].v] = "stop"
    BY <1>2, <1>m DEF Stopped, Moves
  <2>2. \A x \in Vo : th'[Reader(x)].at = th[Reader(x)].at BY <1>m DEF Moves, Mine
  <2>3. \A x \in Vo : th'[Reader(x)].at # "idle" => st'[x] # "init" BY <1>2, <2>2 DEF Stopped
  <2> QED BY <2>1, <2>3 DEF Stopped
<1>12. Registered'
  <2>1. \A x \in Vo : Succeeding(x) => Succeeding(x)' BY <1>d, <1>m DEF Succeeding, Moves
  <2> QED BY <1>0, <1>1, <1>2, <2>1 DEF Registered, Open, Alive
<1> QED BY <1>4, <1>6, <1>7, <1>9, <1>10, <1>11, <1>12

\* The dispatcher takes a message: the token passes from the shard to it.
LEMMA TakeMessageOK == ASSUME SessionsInv, TakeMessage PROVE SessionsInv'
<1> USE DEF SessionsInv
<1> DEFINE m == Head(shard)
<1>0. /\ UNCHANGED <<svc, dispatched, running, delayed, regVars, voVars, downVars, calls>>
      /\ th[Disp] = Idle /\ shard # <<>> /\ shard' = Tail(shard)
  BY DEF TakeMessage
<1>d. th[Disp].at = "idle" /\ th[Disp].v = None /\ th[Disp].w = None BY <1>0 DEF Idle, At
<1>s. shard \in Seq(Message) /\ Whole(shard) /\ HeldOnce(shard) BY DEF TypeOK, Message, Shape, OneToken
<1>1. /\ m \in Message /\ shard' \in Seq(Message) /\ Whole(shard') /\ HeldOnce(shard')
      /\ m.type # "logout" => m.v \in Vo /\ Held(shard, m.v) /\ ~Held(shard', m.v)
      /\ m.type = "online" => Offers(shard, m.v)
      /\ \A x : (Held(shard', x) => Held(shard, x)) /\ (Offers(shard', x) => Offers(shard, x))
  BY <1>0, <1>s, ShardTail DEF Asks
<1>y. PICK y \in Vo \cup {None}, ty \in {"online", "reconnect", "logout"} : y = m.v /\ ty = m.type
  BY <1>1 DEF Message
<1>q. /\ ty # "logout" => y \in Vo /\ Held(shard, y) /\ ~Held(shard', y)
      /\ ty = "online" => Offers(shard, y)
  BY <1>1, <1>y
<1>2. \/ ty = "online" /\ Go(Disp, "online", None, y)
      \/ ty = "reconnect" /\ Go(Disp, "reconnect", y, None)
      \/ ty = "logout" /\ Go(Disp, "logout", None, None)
  BY <1>y DEF TakeMessage
<1>3. \E at \in {"online", "reconnect", "logout"}, v \in {y, None}, w \in {y, None} :
         /\ Moves(Disp, at, v, w) /\ at = ty
         /\ at = "online" => v = None /\ w = y
         /\ at = "reconnect" => v = y /\ w = None
         /\ at = "logout" => v = None /\ w = None
  BY <1>1, <1>q, <1>2, Mover, GoMoves DEF Place
<1>4. PICK at \in {"online", "reconnect", "logout"}, v \in {y, None}, w \in {y, None} :
         /\ Moves(Disp, at, v, w) /\ at = ty
         /\ at = "online" => v = None /\ w = y
         /\ at = "reconnect" => v = y /\ w = None
         /\ at = "logout" => v = None /\ w = None
  BY <1>3
<1>5. /\ at \in Place /\ v \in Vo \cup {None} /\ w \in Vo \cup {None}
      /\ v \in Vo \/ w \in Vo => v = y \/ w = y
      /\ ThreadOK' /\ th'[Disp].at = at /\ th'[Disp].v = v /\ th'[Disp].w = w
      /\ \A s \in Thread : s # Disp => th'[s] = th[s]
  BY <1>1, <1>q, <1>4 DEF Place, Moves
<1>6. TypeOK' /\ Stages' BY <1>0, <1>1, <1>q, <1>5 DEF TypeOK, Stages, Message, ThreadOK
<1>7. Fit(Disp, At(at, v, w)) BY <1>1, <1>q, <1>4 DEF Fit, At, Mine
<1>8. Shape' BY <1>1, <1>q, <1>4, <1>5, <1>7, MoveShape
<1>n. ty # "logout" => /\ ~InThread(y) /\ y \notin delayed /\ ~InDisp(y) /\ ~InQueue(y) /\ ~InDial(y)
                           /\ ~Taken(y) /\ ~Succeeding(y)
  <2>1. ty # "logout" => /\ ~InThread(y) /\ y \notin delayed /\ ~InDisp(y) /\ ~InQueue(y) /\ ~InDial(y)
    BY <1>1, <1>q DEF OneToken, InShard
  <2> QED BY <1>1, <1>q, <2>1 DEF Taken, Succeeding, InThread
<1>9. OneToken'
  <2>1. \A r, s \in Thread : th'[r].w = th'[s].w /\ th'[s].w \in Vo => r = s
    BY <1>1, <1>q, <1>4, <1>5, <1>n DEF OneToken, InThread
  <2>2. \A x \in Vo : /\ InThread(x)' => InThread(x) \/ (x = y /\ ty = "online")
                      /\ InDisp(x)' => x = y /\ ty = "reconnect"
                      /\ InDial(x)' <=> InDial(x)
    <3>1. \A x \in Vo : InThread(x)' => InThread(x) \/ (x = y /\ ty = "online") BY <1>4, <1>5 DEF InThread
    <3>2. \A x \in Vo : InDisp(x)' => x = y /\ ty = "reconnect" BY <1>4, <1>5 DEF InDisp
    <3>3. \A x \in Vo : InDial(x)' <=> InDial(x) BY <1>5 DEF InDial, Mine
    <3> QED BY <3>1, <3>2, <3>3
  <2>3. \A x \in Vo : InQueue(x)' = InQueue(x) /\ (InShard(x)' => InShard(x))
    BY <1>0, <1>1, <1>q DEF InShard, InQueue
  <2>4. ty # "logout" => ~InShard(y)' BY <1>1, <1>q DEF InShard
  <2> QED BY <1>0, <1>1, <1>q, <1>n, <2>1, <2>2, <2>3, <2>4 DEF OneToken
<1>10. \A x \in Vo : Known(x)' => Known(x) \/ (x = y /\ ty = "reconnect")
  BY <1>0, <1>4, <1>5 DEF Known
<1>11. NewUnknown'
  <2>1. \A x \in Vo : Seen(x)' => Seen(x)
    BY <1>0, <1>1, <1>q, <1>4, <1>5, <1>10 DEF Seen, InThread, InShard, InQueue
  <2> QED BY <1>0, <2>1 DEF NewUnknown
<1>12. EarlyUnknown'
  <2>1. \A x \in Vo : /\ Offered(x)' => Offered(x)
                      /\ Taken(x)' => Taken(x) \/ (Offered(x) /\ ty = "online")
                      /\ Succeeding(x)' => Succeeding(x)
    BY <1>1, <1>q, <1>4, <1>5 DEF Offered, Taken, Succeeding
  <2>2. ty = "reconnect" => ~Offered(y)' BY <1>1, <1>q, OfferedInShard DEF Offered, Offers, Held, Asks
  <2>3. \A x \in Vo : ty = "reconnect" /\ x = y => ~Taken(x) /\ ~Succeeding(x) BY <1>n
  <2> QED BY <1>0, <1>10, <2>1, <2>2, <2>3 DEF EarlyUnknown
<1>13. Stopped' BY <1>0, <1>5 DEF Stopped, Mine
<1>14. Registered'
  <2>1. \A x \in Vo : Succeeding(x) => Succeeding(x)' BY <1>d, <1>5 DEF Succeeding
  <2> QED BY <1>0, <2>1 DEF Registered, Open, Alive
<1> QED BY <1>6, <1>8, <1>9, <1>11, <1>12, <1>13, <1>14

\* A reconnect is due: the token passes from the timer queue to the shard.
LEMMA TimerFiresOK == ASSUME SessionsInv, NEW v \in Vo, TimerFires(v) PROVE SessionsInv'
<1> USE DEF SessionsInv
<1>0. /\ UNCHANGED <<svc, dispatched, running, regVars, voVars, downVars, th, calls>>
      /\ v \in delayed /\ delayed' = delayed \ {v}
  BY DEF TimerFires
<1>s. shard \in Seq(Message) /\ Whole(shard) /\ HeldOnce(shard) BY DEF TypeOK, Message, Shape, OneToken
<1>n. ~InThread(v) /\ ~InShard(v) /\ ~InDisp(v) /\ ~InQueue(v) /\ ~InDial(v) BY <1>0 DEF OneToken
<1>1. /\ shard' \in Seq(Message) /\ Whole(shard') /\ HeldOnce(shard')
      /\ \A x : (Held(shard', x) => Held(shard, x) \/ x = v) /\ (Offers(shard', x) => Offers(shard, x))
  <2>1. CASE UNCHANGED shard BY <2>1, <1>s
  <2>2. CASE shard' = Append(shard, Msg("reconnect", v)) BY <2>2, <1>s, <1>n, ShardAppend DEF InShard
  <2> QED BY <2>1, <2>2 DEF TimerFires
<1>2. TypeOK' /\ Stages' BY <1>0, <1>1 DEF TypeOK, Stages, Message
<1>3. Shape' BY <1>0, <1>1 DEF Shape
<1>4. OneToken'
  <2>1. \A x \in Vo : /\ (InThread(x)' <=> InThread(x)) /\ (InDisp(x)' <=> InDisp(x))
                      /\ (InQueue(x)' <=> InQueue(x)) /\ (InDial(x)' <=> InDial(x))
    BY <1>0 DEF InThread, InDisp, InQueue, InDial
  <2>2. \A x \in Vo : InShard(x)' => InShard(x) \/ x = v BY <1>1 DEF InShard
  <2> QED BY <1>0, <1>1, <1>n, <2>1, <2>2 DEF OneToken
<1>5. NewUnknown'
  <2>1. \A x \in Vo : Seen(x)' => Seen(x) BY <1>0, <1>1 DEF Seen, Known, InThread, InShard, InQueue
  <2> QED BY <1>0, <2>1 DEF NewUnknown
<1>6. EarlyUnknown' BY <1>0, <1>1 DEF EarlyUnknown, Offered, Taken, Succeeding, Known
<1>7. Stopped' /\ Registered' BY <1>0 DEF Stopped, Registered, Open, Alive, Succeeding
<1> QED BY <1>2, <1>3, <1>4, <1>5, <1>6, <1>7

\* The token passes from the connect queue to the session's dialer, or ends.
LEMMA ConnectLoopOK == ASSUME SessionsInv, ConnectLoop PROVE SessionsInv'
<1> USE DEF SessionsInv
<1>0. /\ UNCHANGED <<queueVars, cur, voVars, downVars, calls>>
      /\ connectQ # <<>> /\ connectQ' = Tail(connectQ)
  BY DEF ConnectLoop
<1>1. PICK v \in Vo : /\ v = Head(connectQ) /\ Lists(connectQ, v) /\ ~Lists(connectQ', v)
                      /\ connectQ' \in Seq(Vo) /\ ListedOnce(connectQ')
                      /\ \A x : Lists(connectQ', x) => Lists(connectQ, x)
  BY <1>0, QueueTail DEF TypeOK, OneToken
<1>n. /\ ~InThread(v) /\ v \notin delayed /\ ~InShard(v) /\ ~InDisp(v) /\ ~InDial(v) BY <1>1 DEF OneToken, InQueue
<1>e. ~Offered(v) /\ ~Taken(v) /\ ~Succeeding(v) BY <1>n, OfferedInShard DEF Taken, Succeeding, InThread
<1>2. CASE UNCHANGED <<queued, th>>
  <2>1. TypeOK' /\ Stages' BY <1>0, <1>1, <1>2 DEF TypeOK, Stages
  <2>2. Shape' BY <1>0, <1>2 DEF Shape
  <2>3. OneToken'
    <3>1. \A x \in Vo : /\ (InThread(x)' <=> InThread(x)) /\ (InDisp(x)' <=> InDisp(x))
                        /\ (InShard(x)' <=> InShard(x)) /\ (InDial(x)' <=> InDial(x))
                        /\ InQueue(x)' => InQueue(x)
      BY <1>0, <1>1, <1>2 DEF InThread, InDisp, InShard, InQueue, InDial
    <3> QED BY <1>0, <1>1, <1>2, <3>1 DEF OneToken
  <2>4. NewUnknown' BY <1>0, <1>1, <1>2 DEF NewUnknown, Seen, Known, InThread, InShard, InQueue
  <2>5. EarlyUnknown' BY <1>0, <1>2 DEF EarlyUnknown, Offered, Taken, Succeeding, Known
  <2>6. Stopped' /\ Registered' BY <1>0, <1>2 DEF Stopped, Registered, Open, Alive, Succeeding
  <2> QED BY <2>1, <2>2, <2>3, <2>4, <2>5, <2>6
<1>3. CASE queued' = None /\ Go(Dialer(v), "begin", v, None)
  <2>m. Moves(Dialer(v), "begin", v, None) BY <1>3, Mover, GoMoves DEF Place
  <2>d. th[Dialer(v)].at = "idle" BY <1>n DEF InDial
  <2>i. th[Dialer(v)].v = None /\ th[Dialer(v)].w = None BY <2>d, Mover
  <2>1. TypeOK' /\ Stages' BY <1>0, <1>1, <1>3, <2>m DEF TypeOK, Stages, Moves, ThreadOK
  <2>2. Fit(Dialer(v), At("begin", v, None)) BY DEF Fit, At, Mine
  <2>3. Shape' BY <1>0, <2>2, <2>m, MoveShape DEF Place, Shape
  <2>4. OneToken'
    <3>1. \A x \in Vo : InThread(x)' => InThread(x) BY <2>m DEF Moves, InThread
    <3>2. \A x \in Vo : (InDisp(x)' <=> InDisp(x)) BY <2>m DEF Moves, InDisp, Mine
    <3>3. \A x \in Vo : InDial(x)' => InDial(x) \/ x = v BY <2>m DEF Moves, InDial, Mine
    <3>4. \A x \in Vo : (InShard(x)' <=> InShard(x)) /\ (InQueue(x)' => InQueue(x) /\ x # v)
      BY <1>0, <1>1 DEF InShard, InQueue
    <3>5. \A r, s \in Thread : th'[r].w = th'[s].w /\ th'[s].w \in Vo => r = s
      BY <2>m, <2>i DEF Moves, OneToken
    <3> QED BY <1>0, <1>1, <1>n, <3>1, <3>2, <3>3, <3>4, <3>5 DEF OneToken
  <2>5. \A x \in Vo : Known(x)' => Known(x) \/ x = v BY <1>0, <2>m DEF Known, Moves
  <2>6. NewUnknown'
    <3>1. \A x \in Vo : Seen(x)' => Seen(x)
      BY <1>0, <1>1, <2>5, <2>m DEF Seen, Moves, InThread, InShard, InQueue
    <3> QED BY <1>0, <3>1 DEF NewUnknown
  <2>7. \A x \in Vo : /\ (Offered(x)' <=> Offered(x)) /\ (Taken(x)' => Taken(x))
                      /\ (Succeeding(x)' <=> Succeeding(x))
    <3>1. \A x \in Vo : (Offered(x)' <=> Offered(x)) BY <1>0 DEF Offered
    <3>2. \A x \in Vo : Taken(x)' => Taken(x) BY <2>m DEF Taken, Moves
    <3>3. \A x \in Vo : Succeeding(x)' => Succeeding(x) BY <2>m DEF Succeeding, Moves
    <3>4. \A x \in Vo : Succeeding(x) => Succeeding(x)' BY <2>m, <2>d DEF Succeeding, Moves
    <3> QED BY <3>1, <3>2, <3>3, <3>4
  <2>8. EarlyUnknown' BY <1>0, <1>e, <2>5, <2>7 DEF EarlyUnknown
  <2>9. Stopped'
    <3>1. \A s \in Thread : th'[s].at \in StopAt /\ th'[s].v \in Vo => st'[th'[s].v] = "stop"
      BY <1>0, <2>m DEF Stopped, Moves
    <3>2. \A x \in Vo : th'[Reader(x)].at = th[Reader(x)].at BY <2>m DEF Moves, Mine
    <3> QED BY <1>0, <3>1, <3>2 DEF Stopped
  <2>10. Registered' BY <1>0, <2>7 DEF Registered, Open, Alive
  <2> QED BY <2>1, <2>3, <2>4, <2>6, <2>8, <2>9, <2>10
<1> QED BY <1>1, <1>2, <1>3 DEF ConnectLoop

\* A carrier's session is nobody else's, and not on offer.
LEMMA CarriedOnce ==
    ASSUME SessionsInv, NEW t \in Thread, NEW w \in Vo, th[t].w = w
    PROVE  /\ \A s \in Thread : th[s].w = w => s = t
           /\ w \notin delayed /\ ~InShard(w) /\ ~InDisp(w) /\ ~InQueue(w) /\ ~InDial(w)
           /\ ~Offered(w) /\ InThread(w) /\ st[w] # "new"
<1>1. InThread(w) BY DEF InThread
<1>2. /\ \A s \in Thread : th[s].w = w => s = t
      /\ w \notin delayed /\ ~InShard(w) /\ ~InDisp(w) /\ ~InQueue(w) /\ ~InDial(w)
  BY <1>1 DEF SessionsInv, OneToken
<1>3. st[w] # "new" BY <1>1 DEF SessionsInv, NewUnknown, Seen
<1> QED BY <1>1, <1>2, <1>3, OfferedInShard

\* prepareConnect and replaceCurrent.
LEMMA OnlineReplaceOK == ASSUME SessionsInv, NEW t \in Thread, OnlineReplace(t) PROVE SessionsInv'
<1> USE DEF SessionsInv
<1>0. /\ UNCHANGED <<queueVars, connectQ, queued, conn, inflight, bad, count, downVars, calls>>
      /\ th[t].at = "replace"
  BY DEF OnlineReplace
<1>1. PICK w \in Vo : w = th[t].w BY <1>0, Mover
<1>c. /\ \A s \in Thread : th[s].w = w => s = t
      /\ w \notin delayed /\ ~InShard(w) /\ ~InDisp(w) /\ ~InQueue(w) /\ ~InDial(w)
      /\ ~Offered(w) /\ InThread(w) /\ st[w] # "new"
  BY <1>1, CarriedOnce
<1>2. CASE ~MayReplace(th[t].v)
  <2>m. Moves(t, "idle", None, None) BY <1>2, Mover, FinishMoves DEF OnlineReplace
  <2>t. TypeOK' BY <1>0, <1>2, <2>m DEF OnlineReplace, TypeOK, Moves, ThreadOK
  <2>w. WalkStep(t, "idle", None, None) BY <1>0, <1>2, <2>m, FitIdle DEF OnlineReplace, WalkStep, Place
  <2> QED BY <2>t, <2>w, Walk
<1>3. CASE MayReplace(th[t].v)
  <2>0. cur' = w /\ st' = [st EXCEPT ![w] = "init"] /\ ~done /\ cur = th[t].v
    BY <1>1, <1>3 DEF OnlineReplace, MayReplace
  <2>m. Moves(t, "enqueue", None, w) BY <1>1, <1>3, Mover, GoMoves DEF OnlineReplace, Place
  <2>s. st' \in [Vo -> {"new", "stop", "init", "login", "run", "select"}] /\ st'[w] = "init"
        /\ \A x \in Vo : x # w => st'[x] = st[x]
    BY <2>0 DEF TypeOK
  <2>1. st[w] = "stop" /\ ~Known(w) BY <1>0, <1>1 DEF EarlyUnknown, Taken
  <2>2. cur \in Vo => st[cur] = "stop" BY <1>0, <2>0 DEF Stopped
  <2>t. TypeOK' BY <1>0, <2>0, <2>m, <2>s DEF TypeOK, Moves, ThreadOK
  <2>3. Fit(t, At("enqueue", None, w)) BY <1>0, Mover DEF Fit, At, Mine
  <2>4. Shape' BY <1>0, <2>3, <2>m, MoveShape DEF Place, Shape
  <2>5. OneToken' /\ \A x \in Vo : InThread(x)' => InThread(x)
    BY <1>0, <1>1, <2>m, WalkToken
  <2>6. \A x \in Vo : Seen(x)' => Seen(x)
    BY <1>0, <1>1, <2>0, <2>5, <2>m, WalkSeen
  <2>7. NewUnknown' BY <2>6, <2>s DEF NewUnknown
  <2>8. \A x \in Vo : Known(x)' => Known(x) \/ x = w BY <1>0, <2>0, <2>m DEF Known, Moves
  <2>9. \A x \in Vo : /\ Offered(x)' => Offered(x) /\ x # w
                      /\ Taken(x)' => Taken(x) /\ x # w
                      /\ Succeeding(x)' => Succeeding(x) /\ x # w
                      /\ Succeeding(x) => Succeeding(x)'
    <3>1. \A x \in Vo : Offered(x)' => Offered(x) /\ x # w BY <1>0, <1>c DEF Offered
    <3>2. \A x \in Vo : Taken(x)' => Taken(x) /\ x # w BY <1>c, <2>m DEF Taken, Moves
    <3>3. \A x \in Vo : Succeeding(x)' => Succeeding(x) /\ x # w BY <1>c, <2>m DEF Succeeding, Moves
    <3>4. \A x \in Vo : Succeeding(x) => Succeeding(x)' BY <1>0, <2>m DEF Succeeding, Moves
    <3> QED BY <3>1, <3>2, <3>3, <3>4
  <2>10. EarlyUnknown' BY <2>8, <2>9, <2>s DEF EarlyUnknown
  <2>11. Stopped'
    <3>1. \A s \in Thread : th[s].v # w BY <2>1 DEF Known
    <3>2. \A s \in Thread : th'[s].at \in StopAt /\ th'[s].v \in Vo => st'[th'[s].v] = "stop"
      BY <3>1, <2>m, <2>s DEF Stopped, Moves
    <3>3. th[Reader(w)].at = "idle" BY <3>1, Mover DEF Fit, Mine
    <3>4. \A x \in Vo : t # Reader(x) BY <1>0, Mover DEF Fit
    <3>5. \A x \in Vo : th'[Reader(x)].at # "idle" => st'[x] # "init" BY <3>3, <3>4, <2>m, <2>s DEF Stopped, Moves
    <3> QED BY <3>2, <3>5 DEF Stopped
  <2>12. Registered' BY <1>0, <2>0, <2>1, <2>2, <2>9, <2>s DEF Registered, Open, Alive
  <2>13. Stages' BY <1>0, <2>0 DEF Stages, TypeOK
  <2> QED BY <2>t, <2>4, <2>5, <2>7, <2>10, <2>11, <2>12, <2>13
<1> QED BY <1>2, <1>3

\* The session cannot be queued: it is closed.
LEMMA OnlineNotQueuedOK == ASSUME SessionsInv, NEW t \in Thread, OnlineNotQueued(t) PROVE SessionsInv'
<1> USE DEF SessionsInv
<1>0. /\ UNCHANGED <<queueVars, regVars, inflight, bad, count, downVars, calls>>
      /\ th[t].at = "enqueue"
  BY DEF OnlineNotQueued
<1>1. PICK w \in Vo : w = th[t].w BY <1>0, Mover
<1>c. /\ \A s \in Thread : th[s].w = w => s = t
      /\ w \notin delayed /\ ~InShard(w) /\ ~InDisp(w) /\ ~InQueue(w) /\ ~InDial(w)
      /\ ~Offered(w) /\ InThread(w) /\ st[w] # "new"
  BY <1>1, CarriedOnce
<1>2. CloseOut(w) /\ Go(t, "delete", w, None) BY <1>1 DEF OnlineNotQueued
<1>m. Moves(t, "delete", w, None) BY <1>2, Mover, GoMoves DEF Place
<1>s. /\ st' \in [Vo -> {"new", "stop", "init", "login", "run", "select"}] /\ conn' \subseteq Vo
      /\ st'[w] = "stop" /\ \A x \in Vo : x # w => st'[x] = st[x]
      /\ conn' \subseteq conn /\ w \notin conn'
  BY <1>2, CloseOutOK
<1>t. TypeOK' BY <1>0, <1>m, <1>s DEF TypeOK, Moves, ThreadOK
<1>3. Fit(t, At("delete", w, None)) BY <1>0, Mover DEF Fit, At, Mine
<1>4. Shape' BY <1>0, <1>3, <1>m, MoveShape DEF Place, Shape
<1>5. OneToken' /\ \A x \in Vo : InThread(x)' => InThread(x) BY <1>0, <1>m, WalkToken
<1>6. \A x \in Vo : Seen(x)' => Seen(x) BY <1>0, <1>1, <1>5, <1>m, WalkSeen
<1>7. NewUnknown' BY <1>6, <1>s DEF NewUnknown
<1>8. \A x \in Vo : Known(x)' => Known(x) \/ x = w BY <1>0, <1>m DEF Known, Moves
<1>9. \A x \in Vo : /\ Offered(x)' => Offered(x) /\ x # w
                    /\ Taken(x)' => Taken(x) /\ x # w
                    /\ Succeeding(x)' => Succeeding(x) /\ x # w
                    /\ Succeeding(x) => Succeeding(x)'
  <2>1. \A x \in Vo : Offered(x)' => Offered(x) /\ x # w BY <1>0, <1>c DEF Offered
  <2>2. \A x \in Vo : Taken(x)' => Taken(x) /\ x # w BY <1>c, <1>m DEF Taken, Moves
  <2>3. \A x \in Vo : Succeeding(x)' => Succeeding(x) /\ x # w BY <1>c, <1>m DEF Succeeding, Moves
  <2>4. \A x \in Vo : Succeeding(x) => Succeeding(x)' BY <1>0, <1>m DEF Succeeding, Moves
  <2> QED BY <2>1, <2>2, <2>3, <2>4
<1>10. EarlyUnknown' BY <1>8, <1>9, <1>s DEF EarlyUnknown
<1>11. Stopped'
  <2>1. \A s \in Thread : th'[s].at \in StopAt /\ th'[s].v \in Vo => st'[th'[s].v] = "stop"
    BY <1>m, <1>s DEF Stopped, Moves
  <2>2. \A x \in Vo : t # Reader(x) BY <1>0, Mover DEF Fit
  <2>3. \A x \in Vo : th'[Reader(x)].at # "idle" => st'[x] # "init" BY <2>2, <1>m, <1>s DEF Stopped, Moves
  <2> QED BY <2>1, <2>3 DEF Stopped
<1>12. Registered' BY <1>0, <1>9, <1>s DEF Registered, Open, Alive
<1>13. Stages' BY <1>0 DEF Stages
<1> QED BY <1>t, <1>4, <1>5, <1>7, <1>10, <1>11, <1>12, <1>13

\* enqueueConnect.
LEMMA EnqueueConnectOK ==
    ASSUME SessionsInv, NEW w \in Vo, ~InQueue(w), EnqueueConnect(w) \/ UNCHANGED <<connectQ, queued>>
    PROVE  /\ connectQ' \in Seq(Vo) /\ queued' \in Vo \cup {None} /\ ListedOnce(connectQ')
           /\ \A x \in Vo : InQueue(x)' => InQueue(x) \/ x = w
<1>1. connectQ \in Seq(Vo) /\ queued \in Vo \cup {None} /\ ListedOnce(connectQ) BY DEF SessionsInv, TypeOK, OneToken
<1>2. CASE UNCHANGED <<connectQ, queued>> BY <1>1, <1>2 DEF InQueue
<1>3. CASE connectQ' = Append(connectQ, w) /\ queued' = w BY <1>1, <1>3, QueueAppend DEF InQueue
<1> QED BY <1>2, <1>3 DEF EnqueueConnect

\* A token passes from a goroutine to the connect queue.
LEMMA EnqueueOK ==
    ASSUME SessionsInv, NEW t \in Thread, OnlineEnqueue(t) \/ ReconnectEnqueue(t) PROVE SessionsInv'
<1> USE DEF SessionsInv
<1>0. /\ UNCHANGED <<queueVars, cur, voVars, downVars, calls>>
      /\ th[t].at \in {"enqueue", "requeue"} /\ Finish(t)
  BY DEF OnlineEnqueue, ReconnectEnqueue
<1>1. PICK w \in Vo : /\ EnqueueConnect(w) \/ UNCHANGED <<connectQ, queued>>
                      /\ th[t].at = "enqueue" => w = th[t].w
                      /\ th[t].at = "requeue" => w = th[t].v /\ t = Disp
  <2>1. CASE OnlineEnqueue(t) BY <2>1, Mover DEF OnlineEnqueue
  <2>2. CASE ReconnectEnqueue(t)
    <3>1. t = Disp BY <2>2, Mover DEF ReconnectEnqueue, Fit, Mine
    <3> QED BY <2>2, <3>1, Mover DEF ReconnectEnqueue
  <2> QED BY <2>1, <2>2
<1>n. /\ w \notin delayed /\ ~InShard(w) /\ ~InQueue(w) /\ ~InDial(w)
      /\ th[t].at = "enqueue" => ~InDisp(w) /\ \A s \in Thread : th[s].w = w => s = t
      /\ th[t].at = "requeue" => ~InThread(w)
  <2>1. CASE th[t].at = "enqueue" BY <2>1, <1>1, CarriedOnce
  <2>2. CASE th[t].at = "requeue" BY <2>2, <1>1 DEF OneToken, InDisp
  <2> QED BY <1>0, <2>1, <2>2
<1>q. /\ connectQ' \in Seq(Vo) /\ queued' \in Vo \cup {None} /\ ListedOnce(connectQ')
      /\ \A x \in Vo : InQueue(x)' => InQueue(x) \/ x = w
  BY <1>1, <1>n, EnqueueConnectOK
<1>m. Moves(t, "idle", None, None) BY <1>0, Mover, FinishMoves
<1>t. TypeOK' /\ Stages' BY <1>0, <1>q, <1>m DEF TypeOK, Moves, ThreadOK, Stages
<1>4. Shape' BY <1>0, <1>m, FitIdle, MoveShape DEF Place, Shape
<1>5. OneToken'
  <2>1. \A r, s \in Thread : th'[r].w = th'[s].w /\ th'[s].w \in Vo => r = s BY <1>m DEF Moves, OneToken
  <2>2. \A x \in Vo : InThread(x)' => InThread(x) BY <1>m DEF Moves, InThread
  <2>3. \A x \in Vo : InDisp(x)' => InDisp(x) BY <1>m DEF Moves, InDisp
  <2>4. \A x \in Vo : InDial(x)' => InDial(x) BY <1>m DEF Moves, InDial
  <2>5. \A x \in Vo : InShard(x)' <=> InShard(x) BY <1>0 DEF InShard
  <2>6. ~InThread(w)' BY <1>0, <1>1, <1>n, <1>m DEF Moves, InThread
  <2>7. ~InDisp(w)' BY <1>0, <1>1, <1>n, <1>m DEF Moves, InDisp
  <2> QED BY <1>0, <1>n, <1>q, <2>1, <2>2, <2>3, <2>4, <2>5, <2>6, <2>7 DEF OneToken
<1>6. \A x \in Vo : Known(x)' => Known(x) BY <1>0, <1>m DEF Known, Moves
<1>7. NewUnknown'
  <2>1. Seen(w) BY <1>0, <1>1 DEF Seen, Known, InThread
  <2>2. \A x \in Vo : Seen(x)' => Seen(x)
    BY <1>0, <1>q, <1>6, <2>1, <1>m DEF Seen, Moves, InThread, InShard
  <2> QED BY <1>0, <2>2 DEF NewUnknown
<1>8. \A x \in Vo : /\ Offered(x)' => Offered(x)
                    /\ Taken(x)' => Taken(x)
                    /\ Succeeding(x)' => Succeeding(x)
                    /\ Succeeding(x) => Succeeding(x)'
  BY <1>0, <1>m DEF Offered, Taken, Succeeding, Moves
<1>9. EarlyUnknown' BY <1>0, <1>6, <1>8 DEF EarlyUnknown
<1>10. Stopped' BY <1>0, <1>m DEF Stopped, Moves
<1>11. Registered' BY <1>0, <1>8 DEF Registered, Open, Alive
<1> QED BY <1>t, <1>4, <1>5, <1>7, <1>9, <1>10, <1>11

\* A dial that succeeded: the session was still waiting, so it is registered.
LEMMA DialRegisterOK == ASSUME SessionsInv, NEW v \in Vo, DialRegister(v) PROVE SessionsInv'
<1> USE DEF SessionsInv
<1> DEFINE d == Dialer(v)
           r == Reader(v)
<1>0. /\ UNCHANGED <<queueVars, regVars, count, downVars, calls>>
      /\ th[d].at = "register" /\ inflight' = inflight \ {v} /\ d \in Thread /\ r \in Thread /\ d # r
  BY DEF DialRegister
<1>1. th[d].v = v /\ InDial(v) BY <1>0, Mover DEF Fit, Mine, InDial
<1>2. ~InThread(v) /\ v \notin delayed /\ ~InShard(v) /\ ~InDisp(v) /\ ~InQueue(v) BY <1>1 DEF OneToken
<1>3. CASE st[v] # "init"
  <2>m. Moves(d, "idle", None, None) BY <1>0, <1>3, Mover, FinishMoves DEF DialRegister
  <2>t. TypeOK' BY <1>0, <1>3, <2>m DEF DialRegister, TypeOK, Moves, ThreadOK
  <2>w. WalkStep(d, "idle", None, None) BY <1>0, <1>3, <2>m, FitIdle DEF DialRegister, WalkStep, Place
  <2> QED BY <1>0, <2>t, <2>w, Walk
<1>4. CASE st[v] = "init"
  <2>0. /\ st' = [st EXCEPT ![v] = "login"] /\ conn' = conn \cup {v} /\ bad' = bad \ {v}
        /\ th' = [th EXCEPT ![d] = Idle, ![r] = At("read", v, None)]
    BY <1>4 DEF DialRegister
  <2>s. st' \in [Vo -> {"new", "stop", "init", "login", "run", "select"}] /\ st'[v] = "login"
        /\ \A x \in Vo : x # v => st'[x] = st[x]
    BY <2>0 DEF TypeOK
  <2>1. th[r].at = "idle" BY <1>4 DEF Stopped
  <2>2. th[r].v = None /\ th[r].w = None BY <1>0, <2>1, Mover
  <2>h. /\ th' \in [Thread -> [at : Place, v : Vo \cup {None}, w : Vo \cup {None}]]
        /\ th'[d] = At("idle", None, None) /\ th'[r] = At("read", v, None)
        /\ \A s \in Thread : s # d /\ s # r => th'[s] = th[s]
    BY <1>0, <2>0 DEF TypeOK, Idle, At, Place
  <2>a. /\ th'[d].at = "idle" /\ th'[d].v = None /\ th'[d].w = None
        /\ th'[r].at = "read" /\ th'[r].v = v /\ th'[r].w = None
    BY <2>h DEF At
  <2>3. cur = v \/ v \in closing
    BY <1>2, <1>4 DEF Registered, Open, Succeeding, InThread
  <2>t. TypeOK' /\ Stages' BY <1>0, <2>0, <2>s, <2>h DEF TypeOK, Stages
  <2>4. Fit(r, At("read", v, None)) BY DEF Fit, At, Mine
  <2>5. Shape' BY <1>0, <2>h, <2>4, FitIdle DEF Shape
  <2>6. \A s \in Thread : th'[s].w = th[s].w \/ th'[s].w = None BY <2>h, <2>a
  <2>7. OneToken'
    <3>1. \A p, s \in Thread : th'[p].w = th'[s].w /\ th'[s].w \in Vo => p = s BY <2>6 DEF OneToken
    <3>2. \A x \in Vo : InThread(x)' => InThread(x) BY <2>6 DEF InThread
    <3>3. \A x \in Vo : InDisp(x)' <=> InDisp(x) BY <2>h DEF InDisp, Mine
    <3>4. \A x \in Vo : InDial(x)' => InDial(x) BY <2>h, <2>a DEF InDial, Mine
    <3>5. \A x \in Vo : (InShard(x)' <=> InShard(x)) /\ (InQueue(x)' <=> InQueue(x)) BY <1>0 DEF InShard, InQueue
    <3> QED BY <1>0, <3>1, <3>2, <3>3, <3>4, <3>5 DEF OneToken
  <2>8. \A x \in Vo : Known(x)' => Known(x) BY <1>0, <2>h, <2>a, <2>3 DEF Known
  <2>9. NewUnknown'
    <3>1. \A x \in Vo : Seen(x)' => Seen(x) BY <1>0, <2>6, <2>8 DEF Seen, InThread, InShard, InQueue
    <3> QED BY <3>1, <2>s DEF NewUnknown
  <2>10. \A x \in Vo : /\ Offered(x)' => Offered(x) /\ x # v
                       /\ Taken(x)' => Taken(x) /\ x # v
                       /\ Succeeding(x)' => Succeeding(x) /\ x # v
                       /\ Succeeding(x) => Succeeding(x)'
    <3>1. \A x \in Vo : Offered(x)' => Offered(x) BY <1>0 DEF Offered
    <3>2. \A x \in Vo : (Taken(x)' => Taken(x)) /\ (Succeeding(x)' => Succeeding(x))
      BY <2>h, <2>a DEF Taken, Succeeding
    <3>3. \A x \in Vo : Succeeding(x) => Succeeding(x)' BY <1>0, <2>1, <2>h DEF Succeeding
    <3>4. ~Offered(v) /\ ~Taken(v) /\ ~Succeeding(v)
      BY <1>2, OfferedInShard DEF Taken, Succeeding, InThread
    <3> QED BY <3>1, <3>2, <3>3, <3>4
  <2>11. EarlyUnknown' BY <2>8, <2>10, <2>s DEF EarlyUnknown
  <2>12. Stopped'
    <3>1. \A s \in Thread : th'[s].at \in StopAt /\ th'[s].v \in Vo => th[s].at = th'[s].at /\ th[s].v = th'[s].v
      BY <2>h, <2>a
    <3>2. \A s \in Thread : th[s].at \in StopAt /\ th[s].v \in Vo => st[th[s].v] = "stop" /\ th[s].v # v
      BY <1>4 DEF Stopped
    <3>3. \A s \in Thread : th'[s].at \in StopAt /\ th'[s].v \in Vo => st'[th'[s].v] = "stop"
      BY <2>s, <3>1, <3>2
    <3>4. \A x \in Vo : x # v => th'[Reader(x)] = th[Reader(x)] BY <2>h DEF Mine
    <3>5. \A x \in Vo : th'[Reader(x)].at # "idle" => st'[x] # "init" BY <2>s, <3>4 DEF Stopped
    <3> QED BY <3>3, <3>5 DEF Stopped
  <2>13. Registered' BY <1>0, <2>0, <2>3, <2>10, <2>s DEF Registered, Open, Alive
  <2> QED BY <2>t, <2>5, <2>7, <2>9, <2>11, <2>12, <2>13
<1> QED BY <1>3, <1>4

\* RefishConnect stops the session; its successor is the goroutine's alone.
LEMMA RefishOK == ASSUME SessionsInv, NEW t \in Thread, Refish(t) PROVE SessionsInv'
<1> USE DEF SessionsInv
<1>0. /\ UNCHANGED <<queueVars, regVars, inflight, bad, downVars, calls>>
      /\ th[t].at = "refish" /\ conn' = conn \ {th[t].v}
  BY DEF Refish
<1>1. PICK v \in Vo : v = th[t].v BY <1>0, Mover
<1>k. Known(v) /\ th[t].w = None BY <1>0, <1>1, Mover DEF Fit, Known
<1>l. st[v] # "new" BY <1>k DEF NewUnknown, Seen
<1>o. \A x \in Vo : t = Dialer(x) \/ t = Reader(x) \/ t = Refresher(x) => x = v
  BY <1>0, <1>1, Mover DEF Fit, Mine
<1>2. CASE st' = [st EXCEPT ![v] = "stop"] /\ Go(t, "delete", v, None) /\ UNCHANGED count
  <2>s. st' \in [Vo -> {"new", "stop", "init", "login", "run", "select"}] /\ st'[v] = "stop"
        /\ \A x \in Vo : x # v => st'[x] = st[x]
    BY <1>2 DEF TypeOK
  <2>m. Moves(t, "delete", v, None) BY <1>2, Mover, GoMoves DEF Place
  <2>t. TypeOK' BY <1>0, <1>2, <2>s, <2>m DEF TypeOK, Moves, ThreadOK
  <2>f. Fit(t, At("delete", v, None)) BY <1>0, <1>1, Mover DEF Fit, At
  <2>w. WalkStep(t, "delete", v, None)
    <3>1. v \in {th[t].v, cur, None} /\ None \in {th[t].w, None} /\ "delete" \in Place BY <1>1 DEF Place
    <3>2. \A x \in Vo : st'[x] = st[x] \/ (Known(x) /\ st'[x] = "stop") BY <1>k, <2>s
    <3>3. conn' \subseteq conn /\ \A x \in conn' : st'[x] = st[x] BY <1>0, <1>1, <2>s DEF TypeOK
    <3> QED BY <1>0, <2>s, <2>m, <2>f, <3>1, <3>2, <3>3 DEF WalkStep
  <2> QED BY <2>t, <2>w, Walk
<1>3. ASSUME NEW w \in Vo, st[w] = "new", st' = [st EXCEPT ![v] = "stop", ![w] = "init"],
             count' = [count EXCEPT ![w] = count[v] + 1], Go(t, "succeed", v, w)
      PROVE  SessionsInv'
  <2>0. v # w BY <1>3, <1>l
  <2>s. st' \in [Vo -> {"new", "stop", "init", "login", "run", "select"}] /\ st'[v] = "stop" /\ st'[w] = "init"
        /\ \A x \in Vo : x # w /\ x # v => st'[x] = st[x]
    BY <1>3, <2>0 DEF TypeOK
  <2>c. count' \in [Vo -> Nat] BY <1>3 DEF TypeOK
  <2>m. Moves(t, "succeed", v, w) BY <1>3, Mover, GoMoves DEF Place
  <2>n. /\ ~InThread(w) /\ w \notin delayed /\ ~InShard(w) /\ ~InDisp(w) /\ ~InQueue(w) /\ ~InDial(w)
        /\ ~Known(w) /\ ~Offered(w) /\ ~Taken(w) /\ ~Succeeding(w) /\ th[Reader(w)].at = "idle"
    BY <1>3, NewNowhere
  <2>t. TypeOK' /\ Stages' BY <1>0, <2>s, <2>c, <2>m DEF TypeOK, Stages, Moves, ThreadOK
  <2>f. Fit(t, At("succeed", v, w)) BY <1>0, <1>1, Mover DEF Fit, At
  <2>1. Shape' BY <1>0, <2>f, <2>m, MoveShape DEF Place, Shape
  <2>2. OneToken'
    <3>1. \A r, s \in Thread : th'[r].w = th'[s].w /\ th'[s].w \in Vo => r = s
      BY <2>m, <2>n DEF Moves, OneToken, InThread
    <3>2. \A x \in Vo : InThread(x)' => InThread(x) \/ x = w BY <2>m DEF Moves, InThread
    <3>3. \A x \in Vo : InDisp(x)' => InDisp(x) BY <2>m DEF Moves, InDisp
    <3>4. \A x \in Vo : InDial(x)' => InDial(x) BY <1>0, <2>m DEF Moves, InDial
    <3>5. \A x \in Vo : (InShard(x)' <=> InShard(x)) /\ (InQueue(x)' <=> InQueue(x)) BY <1>0 DEF InShard, InQueue
    <3> QED BY <1>0, <2>n, <3>1, <3>2, <3>3, <3>4, <3>5 DEF OneToken
  <2>3. \A x \in Vo : Known(x)' => Known(x) BY <1>0, <1>k, <2>m DEF Known, Moves
  <2>4. NewUnknown'
    <3>1. \A x \in Vo : x # w /\ Seen(x)' => Seen(x)
      BY <1>0, <2>3, <2>m DEF Seen, Moves, InThread, InShard, InQueue
    <3> QED BY <2>s, <3>1 DEF NewUnknown
  <2>5. \A x \in Vo : /\ Offered(x)' => Offered(x)
                      /\ Taken(x)' => Taken(x)
                      /\ Succeeding(x)' => Succeeding(x) \/ x = w
                      /\ Succeeding(x) => Succeeding(x)'
    BY <1>0, <2>m DEF Offered, Taken, Succeeding, Moves
  <2>6. Succeeding(w)' BY <2>m DEF Succeeding, Moves
  <2>7. EarlyUnknown' BY <1>k, <2>n, <2>3, <2>5, <2>s DEF EarlyUnknown
  <2>8. Stopped'
    <3>1. \A s \in Thread : th[s].v # w BY <2>n DEF Known
    <3>2. \A s \in Thread : th'[s].at \in StopAt /\ th'[s].v \in Vo => st'[th'[s].v] = "stop"
      BY <3>1, <2>0, <2>m, <2>s DEF Stopped, Moves
    <3>3. \A x \in Vo : x # v => th'[Reader(x)] = th[Reader(x)] BY <1>o, <2>m DEF Moves
    <3>4. \A x \in Vo : th'[Reader(x)].at # "idle" => st'[x] # "init" BY <2>n, <2>s, <3>3 DEF Stopped
    <3> QED BY <3>2, <3>4 DEF Stopped
  <2>9. Registered' BY <1>0, <1>1, <1>3, <2>5, <2>6, <2>s DEF Registered, Open, Alive
  <2> QED BY <2>t, <2>1, <2>2, <2>4, <2>7, <2>8, <2>9
<1> QED BY <1>1, <1>2, <1>3 DEF Refish

\* replaceCurrent for a successor, or its end.
LEMMA RefishReplaceOK == ASSUME SessionsInv, NEW t \in Thread, RefishReplace(t) PROVE SessionsInv'
<1> USE DEF SessionsInv
<1>0. /\ UNCHANGED <<queueVars, connectQ, queued, conn, inflight, bad, count, downVars, calls>>
      /\ th[t].at = "succeed"
  BY DEF RefishReplace
<1>1. PICK w \in Vo : w = th[t].w BY <1>0, Mover
<1>c. /\ \A s \in Thread : th[s].w = w => s = t
      /\ w \notin delayed /\ ~InShard(w) /\ ~InDisp(w) /\ ~InQueue(w) /\ ~InDial(w)
      /\ ~Offered(w) /\ InThread(w) /\ st[w] # "new"
  BY <1>1, CarriedOnce
<1>2. st[w] = "init" /\ ~Known(w) BY <1>0, <1>1 DEF EarlyUnknown, Succeeding
<1>3. th[t].v \in Vo /\ st[th[t].v] = "stop" BY <1>0, Mover DEF Stopped
<1>4. CASE ~MayReplace(th[t].v)
  <2>0. st' = [st EXCEPT ![w] = "stop"] /\ Finish(t) /\ cur' = cur BY <1>1, <1>4 DEF RefishReplace
  <2>m. Moves(t, "idle", None, None) BY <2>0, Mover, FinishMoves
  <2>s. st' \in [Vo -> {"new", "stop", "init", "login", "run", "select"}] /\ st'[w] = "stop"
        /\ \A x \in Vo : x # w => st'[x] = st[x]
    BY <2>0 DEF TypeOK
  <2>t. TypeOK' /\ Stages' BY <1>0, <2>0, <2>s, <2>m DEF TypeOK, Stages, Moves, ThreadOK
  <2>1. Shape' BY <1>0, <2>m, FitIdle, MoveShape DEF Place, Shape
  <2>2. OneToken' /\ \A x \in Vo : InThread(x)' => InThread(x) BY <1>0, <2>m, WalkToken
  <2>3. \A x \in Vo : Seen(x)' => Seen(x) BY <1>0, <2>0, <2>2, <2>m, WalkSeen
  <2>4. NewUnknown' BY <2>3, <2>s DEF NewUnknown
  <2>5. \A x \in Vo : Known(x)' => Known(x) BY <1>0, <2>0, <2>m DEF Known, Moves
  <2>6. \A x \in Vo : /\ Offered(x)' => Offered(x) /\ x # w
                      /\ Taken(x)' => Taken(x) /\ x # w
                      /\ Succeeding(x)' => Succeeding(x) /\ x # w
                      /\ Succeeding(x) /\ x # w => Succeeding(x)'
    <3>1. \A x \in Vo : Offered(x)' => Offered(x) /\ x # w BY <1>0, <1>c DEF Offered
    <3>2. \A x \in Vo : Taken(x)' => Taken(x) /\ x # w BY <1>c, <2>m DEF Taken, Moves
    <3>3. \A x \in Vo : Succeeding(x)' => Succeeding(x) /\ x # w BY <1>c, <2>m DEF Succeeding, Moves
    <3>4. \A x \in Vo : Succeeding(x) /\ x # w => Succeeding(x)' BY <1>1, <2>m DEF Succeeding, Moves
    <3> QED BY <3>1, <3>2, <3>3, <3>4
  <2>7. EarlyUnknown' BY <2>5, <2>6, <2>s DEF EarlyUnknown
  <2>8. Stopped' BY <2>m, <2>s DEF Stopped, Moves
  <2>9. Registered' BY <1>0, <1>2, <2>0, <2>6, <2>s DEF Registered, Open, Alive
  <2> QED BY <2>t, <2>1, <2>2, <2>4, <2>7, <2>8, <2>9
<1>5. CASE MayReplace(th[t].v)
  <2>0. cur' = w /\ Go(t, "delay", th[t].v, w) /\ st' = st /\ ~done /\ cur = th[t].v
    BY <1>1, <1>5 DEF RefishReplace, MayReplace
  <2>v. PICK v \in Vo : v = th[t].v BY <1>3
  <2>m. Moves(t, "delay", v, w) BY <2>0, <2>v, Mover, GoMoves DEF Place
  <2>t. TypeOK' BY <1>0, <2>0, <2>m DEF TypeOK, Moves, ThreadOK
  <2>f. Fit(t, At("delay", v, w)) BY <1>0, <2>v, Mover DEF Fit, At
  <2>1. Shape' BY <1>0, <2>f, <2>m, MoveShape DEF Place, Shape
  <2>2. OneToken' /\ \A x \in Vo : InThread(x)' => InThread(x) BY <1>0, <1>1, <2>m, WalkToken
  <2>3. \A x \in Vo : Seen(x)' => Seen(x) BY <1>0, <1>1, <2>0, <2>v, <2>2, <2>m, WalkSeen
  <2>4. NewUnknown' BY <2>0, <2>3 DEF NewUnknown
  <2>5. \A x \in Vo : Known(x)' => Known(x) \/ x = w BY <1>0, <2>0, <2>v, <2>m DEF Known, Moves
  <2>6. \A x \in Vo : /\ Offered(x)' => Offered(x) /\ x # w
                      /\ Taken(x)' => Taken(x) /\ x # w
                      /\ Succeeding(x)' => Succeeding(x) /\ x # w
                      /\ Succeeding(x) /\ x # w => Succeeding(x)'
    <3>1. \A x \in Vo : Offered(x)' => Offered(x) /\ x # w BY <1>0, <1>c DEF Offered
    <3>2. \A x \in Vo : Taken(x)' => Taken(x) /\ x # w BY <1>c, <2>m DEF Taken, Moves
    <3>3. \A x \in Vo : Succeeding(x)' => Succeeding(x) /\ x # w BY <1>c, <2>m DEF Succeeding, Moves
    <3>4. \A x \in Vo : Succeeding(x) /\ x # w => Succeeding(x)' BY <1>1, <2>m DEF Succeeding, Moves
    <3> QED BY <3>1, <3>2, <3>3, <3>4
  <2>7. EarlyUnknown' BY <2>0, <2>5, <2>6 DEF EarlyUnknown
  <2>8. Stopped' BY <1>0, <1>3, <2>0, <2>v, <2>m DEF Stopped, Moves
  <2>9. Registered' BY <1>0, <1>3, <2>0, <2>6 DEF Registered, Open, Alive
  <2>10. Stages' BY <1>0, <2>0 DEF Stages, TypeOK
  <2> QED BY <2>t, <2>1, <2>2, <2>4, <2>7, <2>8, <2>9, <2>10
<1> QED BY <1>4, <1>5

\* AddMessageDelay: the token passes to the timer queue.
LEMMA RefishDelayOK == ASSUME SessionsInv, NEW t \in Thread, RefishDelay(t) PROVE SessionsInv'
<1> USE DEF SessionsInv
<1>0. /\ UNCHANGED <<svc, dispatched, running, shard, regVars, voVars, downVars, calls>>
      /\ th[t].at = "delay" /\ Finish(t)
  BY DEF RefishDelay
<1>1. PICK w \in Vo : w = th[t].w BY <1>0, Mover
<1>d. delayed' \subseteq Vo /\ \A x \in delayed' : x \in delayed \/ x = w
  BY <1>1 DEF RefishDelay, TypeOK
<1>c. /\ \A s \in Thread : th[s].w = w => s = t
      /\ w \notin delayed /\ ~InShard(w) /\ ~InDisp(w) /\ ~InQueue(w) /\ ~InDial(w)
      /\ ~Offered(w) /\ InThread(w) /\ st[w] # "new"
  BY <1>1, CarriedOnce
<1>m. Moves(t, "idle", None, None) BY <1>0, Mover, FinishMoves
<1>t. TypeOK' /\ Stages' BY <1>0, <1>d, <1>m DEF TypeOK, Moves, ThreadOK, Stages
<1>4. Shape' BY <1>0, <1>m, FitIdle, MoveShape DEF Place, Shape
<1>5. OneToken'
  <2>1. \A r, s \in Thread : th'[r].w = th'[s].w /\ th'[s].w \in Vo => r = s BY <1>m DEF Moves, OneToken
  <2>2. \A x \in Vo : InThread(x)' => InThread(x) /\ x # w BY <1>c, <1>m DEF Moves, InThread
  <2>3. \A x \in Vo : InDisp(x)' => InDisp(x) BY <1>m DEF Moves, InDisp
  <2>4. \A x \in Vo : InDial(x)' => InDial(x) BY <1>m DEF Moves, InDial
  <2>5. \A x \in Vo : (InShard(x)' <=> InShard(x)) /\ (InQueue(x)' <=> InQueue(x)) BY <1>0 DEF InShard, InQueue
  <2> QED BY <1>0, <1>c, <1>d, <2>1, <2>2, <2>3, <2>4, <2>5 DEF OneToken
<1>6. \A x \in Vo : Known(x)' => Known(x) BY <1>0, <1>m DEF Known, Moves
<1>7. NewUnknown'
  <2>1. \A x \in Vo : Seen(x)' => Seen(x)
    BY <1>0, <1>c, <1>d, <1>6, <1>m DEF Seen, Moves, InThread, InShard, InQueue
  <2> QED BY <1>0, <2>1 DEF NewUnknown
<1>8. \A x \in Vo : /\ Offered(x)' => Offered(x)
                    /\ Taken(x)' => Taken(x)
                    /\ Succeeding(x)' => Succeeding(x)
                    /\ Succeeding(x) => Succeeding(x)'
  BY <1>0, <1>m DEF Offered, Taken, Succeeding, Moves
<1>9. EarlyUnknown' BY <1>0, <1>6, <1>8 DEF EarlyUnknown
<1>10. Stopped' BY <1>0, <1>m DEF Stopped, Moves
<1>11. Registered' BY <1>0, <1>8 DEF Registered, Open, Alive
<1> QED BY <1>t, <1>4, <1>5, <1>7, <1>9, <1>10, <1>11

\* Shutdown empties the queues, then the registry.
LEMMA ShutdownOK == ASSUME SessionsInv, ShutdownQueues \/ ShutdownCollect PROVE SessionsInv'
<1> USE DEF SessionsInv
<1>1. CASE ShutdownQueues
  <2>0. /\ UNCHANGED <<svc, dispatched, running, cur, connectQ, voVars, done, closing, th, calls>>
        /\ delayed' = {} /\ queued' = None /\ down = "queues" /\ down' = "collect"
    BY <1>1 DEF ShutdownQueues
  <2>1. /\ shard' \in Seq(Message) /\ Whole(shard') /\ HeldOnce(shard')
        /\ \A x : ~Held(shard', x) /\ ~Offers(shard', x)
    BY <1>1, ShardEmpty DEF ShutdownQueues
  <2>2. TypeOK' /\ Stages' BY <2>0, <2>1 DEF TypeOK, Stages, Message
  <2>3. Shape' BY <2>0, <2>1 DEF Shape
  <2>4. OneToken' BY <2>0, <2>1 DEF OneToken, InThread, InShard, InDisp, InQueue, InDial
  <2>5. NewUnknown' BY <2>0, <2>1 DEF NewUnknown, Seen, Known, InThread, InShard, InQueue
  <2>6. EarlyUnknown' BY <2>0, <2>1 DEF EarlyUnknown, Offered, Taken, Succeeding, Known
  <2>7. Stopped' /\ Registered' BY <2>0 DEF Stopped, Registered, Open, Alive, Succeeding
  <2> QED BY <2>2, <2>3, <2>4, <2>5, <2>6, <2>7
<1>2. CASE ShutdownCollect
  <2>0. /\ UNCHANGED <<queueVars, connectQ, queued, voVars, done, th, calls>>
        /\ closing' = {cur} \ {None} /\ cur' = None /\ down = "collect" /\ down' = "close"
    BY <1>2 DEF ShutdownCollect
  <2>1. closing = {} BY <2>0 DEF Stages
  <2>2. TypeOK' /\ Stages' BY <2>0 DEF TypeOK, Stages
  <2>3. Shape' /\ Stopped' BY <2>0 DEF Shape, Stopped
  <2>4. OneToken' BY <2>0 DEF OneToken, InThread, InShard, InDisp, InQueue, InDial
  <2>5. \A x \in Vo : Known(x)' => Known(x) BY <2>0 DEF Known
  <2>6. NewUnknown' BY <2>0, <2>5 DEF NewUnknown, Seen, InThread, InShard, InQueue
  <2>7. EarlyUnknown' BY <2>0, <2>5 DEF EarlyUnknown, Offered, Taken, Succeeding
  <2>8. Registered' BY <2>0, <2>1 DEF Registered, Open, Alive, Succeeding
  <2> QED BY <2>2, <2>3, <2>4, <2>6, <2>7, <2>8
<1> QED BY <1>1, <1>2

-----------------------------------------------------------------------------
(* The theorems.                                                           *)

\* At the start nothing is made, known or carried.
LEMMA SessionsInit == Init => SessionsInv
<1> SUFFICES ASSUME Init PROVE SessionsInv OBVIOUS
<1> USE DEF Init
<1>1. /\ \A t \in Thread : th[t] = At("idle", None, None)
      /\ th \in [Thread -> [at : Place, v : Vo \cup {None}, w : Vo \cup {None}]]
  BY DEF Idle, At, Place
<1>2. \A t \in Thread : th[t].at = "idle" /\ th[t].v = None /\ th[t].w = None BY <1>1 DEF At
<1>3. TypeOK
  <2>1. svc \in Seq({"online", "logout"}) /\ dispatched \in Seq({"online", "logout"}) /\ connectQ \in Seq(Vo) OBVIOUS
  <2>2. st \in [Vo -> {"new", "stop", "init", "login", "run", "select"}] /\ count \in [Vo -> Nat] OBVIOUS
  <2>3. shard \in Seq([type : {"online", "reconnect", "logout"}, v : Vo \cup {None}]) OBVIOUS
  <2>4. running \in BOOLEAN /\ done \in BOOLEAN /\ down \in {"no", "svc", "queues", "collect", "close", "done"} OBVIOUS
  <2>5. calls \in 0 .. MaxCalls /\ cur \in Vo \cup {None} /\ queued \in Vo \cup {None} OBVIOUS
  <2>6. delayed \subseteq Vo /\ conn \subseteq Vo /\ inflight \subseteq Vo /\ bad \subseteq Vo /\ closing \subseteq Vo
    OBVIOUS
  <2> HIDE DEF Init
  <2> QED BY <1>1, <2>1, <2>2, <2>3, <2>4, <2>5, <2>6 DEF TypeOK
<1>4. Shape BY <1>1, FitIdle, ShardEmpty DEF Shape
<1>5. OneToken
  BY <1>2, ShardEmpty, QueueEmpty DEF OneToken, InThread, InShard, InDisp, InQueue, InDial
<1>6. NewUnknown BY <1>2, ShardEmpty, QueueEmpty DEF NewUnknown, Seen, Known, InThread, InShard, InQueue
<1>7. EarlyUnknown BY <1>2, ShardEmpty DEF EarlyUnknown, Offered, Taken, Succeeding
<1>8. Stopped BY <1>2 DEF Stopped
<1>9. Registered /\ Stages BY DEF Registered, Open, Alive, Stages
<1> QED BY <1>3, <1>4, <1>5, <1>6, <1>7, <1>8, <1>9 DEF SessionsInv

\* A step of a goroutine.
LEMMA HandlerOK == ASSUME SessionsInv, NEW t \in Thread, Handler(t) PROVE SessionsInv'
BY OnlineFindOK, OnlineCheckOK, OnlineReplaceOK, OnlineNotQueuedOK, EnqueueOK, ReconnectCurrentOK, ReconnectReadyOK,
   LogoutFindOK, LogoutCloseOK, LogoutDeleteOK, RefishOK, RefishReplaceOK, RefishDelayOK, DeleteOK DEF Handler

\* A step of the timer, a dial, a reader.
LEMMA ConnectionOK ==
    ASSUME SessionsInv, NEW v \in Vo, TimerFires(v) \/ Dial(v) \/ Server(v) \/ Reselect(v) \/ ReadFinish(v)
    PROVE  SessionsInv'
BY TimerFiresOK, DialBeginOK, DialCurrentOK, DialFailsOK, DialSucceedsOK, DialRegisterOK, ServerOK, PacketDisconnectOK,
   ReadErrorOK, ReadFinishOK DEF Dial, Server

\* Every step keeps the invariant.
LEMMA SessionsNext == SessionsInv /\ [Next]_vars => SessionsInv'
<1> SUFFICES ASSUME SessionsInv, [Next]_vars PROVE SessionsInv' OBVIOUS
<1>1. CASE Online \/ Logout \/ OnlineImmediate \/ Loops
  BY <1>1, SvcOK, OnlineImmediateOK, DispatchOK, TakeMessageOK, ConnectLoopOK DEF Loops
<1>2. CASE ForceFind \/ ForceClose \/ ForceCloseBusy BY <1>2, ForceFindOK, ForceCloseOK, ForceCloseBusyOK
<1>3. CASE \E t \in Thread : Handler(t) BY <1>3, HandlerOK
<1>4. CASE \E v \in Vo : TimerFires(v) \/ Dial(v) \/ Server(v) \/ Reselect(v) \/ ReadFinish(v)
  BY <1>4, ConnectionOK
<1>5. CASE Shutdown BY <1>5, SvcOK, ServerOK, ShutdownOK DEF Shutdown
<1>6. CASE UNCHANGED vars
  <2>1. TypeOK' /\ Stages' BY <1>6 DEF vars, SessionsInv, TypeOK, Stages
  <2> QED BY <1>6, <2>1, Still DEF vars, SessionsInv, Registered, Alive
<1> QED BY <1>1, <1>2, <1>3, <1>4, <1>5, <1>6 DEF Next

\* Of all sequences of calls, packets, failures, timers and shutdown steps,
\* none leaves the types or breaks the passing of the tokens.
THEOREM SessionsInvariant == Spec => []SessionsInv
<1> QED BY SessionsInit, SessionsNext, PTL DEF Spec

\* connectContext, CheckUserState, replaceCurrent, DeleteIf: an account is
\* never logged in twice.  A session that is not "init" is nobody's successor,
\* so it is registered, or Shutdown is about to close it.
THEOREM SessionsOneSession == Spec => []OneSession
<1>1. SessionsInv => OneSession
  BY DEF SessionsInv, Registered, EarlyUnknown, Alive, Open, OneSession
<1> QED BY <1>1, SessionsInvariant, PTL

\* Shutdown: once it has returned no connection is open and none will be.
THEOREM SessionsShutdownCloses == Spec => []ShutdownCloses
<1>1. ASSUME SessionsInv, down = "done" PROVE conn = {} /\ Alive = {} /\ cur = None
  <2>1. cur = None /\ closing = {} BY <1>1 DEF SessionsInv, Stages
  <2>2. \A v \in Vo : v \notin Alive BY <1>1, <2>1 DEF SessionsInv, Registered, EarlyUnknown, Alive, Open
  <2> QED BY <1>1, <2>1, <2>2 DEF SessionsInv, Registered, Alive
<1>2. SessionsInv => ShutdownCloses BY <1>1 DEF ShutdownCloses
<1> QED BY <1>2, SessionsInvariant, PTL

\* Who fills an empty place in the registry: an Online, with the session it
\* has carried since it was made.
LEMMA OnlyOnlineRegisters ==
    ASSUME SessionsInv, Next, cur = None, cur' # None
    PROVE  \E t \in Thread : th[t].at = "replace" /\ th[t].w \in Vo /\ cur' = th[t].w
<1>1. CASE Online \/ Logout \/ OnlineImmediate \/ Loops
  BY <1>1 DEF Online, Logout, OnlineImmediate, Loops, TakeBatch, Dispatch, DropBatch, TakeMessage, ConnectLoop
<1>2. CASE ForceFind \/ ForceClose \/ ForceCloseBusy BY <1>2 DEF ForceFind, ForceClose, ForceCloseBusy
<1>3. ASSUME NEW t \in Thread, Handler(t) PROVE th[t].at = "replace" /\ th[t].w \in Vo /\ cur' = th[t].w
  <2>1. CASE OnlineReplace(t) BY <2>1, Mover DEF OnlineReplace
  <2>2. CASE RefishReplace(t) BY <2>2, Mover DEF RefishReplace, MayReplace
  <2>3. CASE Delete(t) \/ LogoutDelete(t) BY <2>3 DEF Delete, LogoutDelete, DeleteIf
  <2>4. CASE \/ OnlineFind(t) \/ OnlineCheck(t) \/ OnlineEnqueue(t) \/ OnlineNotQueued(t)
             \/ ReconnectCurrent(t) \/ ReconnectReady(t) \/ ReconnectEnqueue(t)
             \/ LogoutFind(t) \/ LogoutClose(t) \/ Refish(t) \/ RefishDelay(t)
    BY <2>4 DEF OnlineFind, OnlineCheck, OnlineEnqueue, OnlineNotQueued, ReconnectCurrent, ReconnectReady,
                ReconnectEnqueue, LogoutFind, LogoutClose, Refish, RefishDelay
  <2> QED BY <1>3, <2>1, <2>2, <2>3, <2>4 DEF Handler
<1>4. ASSUME NEW v \in Vo, TimerFires(v) \/ Dial(v) \/ Server(v) \/ Reselect(v) \/ ReadFinish(v) PROVE FALSE
  BY <1>4 DEF TimerFires, Dial, DialBegin, DialCurrent, DialFails, DialOK, DialRegister, Server, PacketRun,
              PacketSelect, PacketBad, PacketDisconnect, ReadError, Reselect, ReadFinish
<1>5. CASE Shutdown
  BY <1>5 DEF Shutdown, ShutdownSvc, ShutdownBegin, ShutdownQueues, ShutdownCollect, ShutdownClose, ShutdownDone
<1> QED BY <1>1, <1>2, <1>3, <1>4, <1>5 DEF Next

\* replaceCurrent: after a logout, a forced close or the end of a session only
\* an Online brings one back, never a reconnect that was under way.
THEOREM SessionsEnded == Spec => EndedStaysEnded
<1>1. SessionsInv /\ [Next]_vars => [cur = None /\ cur' # None => cur' \notin Reconnecting]_vars
  <2> SUFFICES ASSUME SessionsInv, Next, cur = None, cur' # None PROVE cur' \notin Reconnecting OBVIOUS
  <2>1. PICK t \in Thread : th[t].at = "replace" /\ th[t].w \in Vo /\ cur' = th[t].w BY OnlyOnlineRegisters
  <2>2. PICK w \in Vo : w = th[t].w BY <2>1
  <2>3. w \notin delayed /\ \A s \in Thread : th[s].w = w => s = t BY <2>2, CarriedOnce
  <2> QED BY <2>1, <2>2, <2>3 DEF Reconnecting
<1> QED BY <1>1, SessionsInvariant, PTL DEF Spec, EndedStaysEnded
=============================================================================
