------------------------------ MODULE Sessions ------------------------------
(***************************************************************************)
(* dnf.RobotDnfTask and the life of a robot's game connection, behind      *)
(* dnfruntime.RobotSvc: the command queue, the dispatch shard, the timer   *)
(* queue, the registry, the connect queue, and the goroutines that dial,   *)
(* read and reconnect, for one uid.  Uids share no other state: they meet  *)
(* only in queues that are full.                                           *)
(*                                                                         *)
(* A RobotVo is one incarnation of the session.  Its fields change under   *)
(* its lock, the registry under another: each step below holds one lock.   *)
(***************************************************************************)
EXTENDS Naturals, Sequences, FiniteSets

CONSTANTS Vo,          \* incarnations; when they are used up nobody reconnects
          None,
          MaxReConn,   \* UserLoginInfo.MaxReConn
          MaxCalls,    \* bound on the Online and Logout calls
          Env          \* what the surroundings do, see below

\* "disjoint": Online is also called with a disjoint cost, which bypasses the
\* queues.  "force": ForceClose is called.  "full": queues fill up with other
\* uids' messages.  "shutdown": the process is shut down.
ASSUME SessionsAssumption ==
    /\ None \notin Vo
    /\ MaxReConn \in Nat /\ MaxCalls \in Nat
    /\ Env \subseteq {"disjoint", "force", "full", "shutdown"}

VARIABLES
    svc,        \* RobotSvc.msgQueue
    dispatched, \* the batch RobotSvc.run has taken and not yet dispatched
    running,    \* RobotSvc.running
    shard,      \* the shard's queue
    delayed,    \* the incarnations in messageTimerQueue, as MsgReconnect
    cur,        \* robotVoMap[uid]
    connectQ,   \* connectQueue
    queued,     \* connectQueued[uid]
    done,       \* done is closed and ctx is cancelled
    st,         \* State of each incarnation; "new" if not yet made
    conn,       \* the incarnations with a connection
    inflight,   \* the ones with connectInFlight
    bad,        \* the ones with a DisconReason
    count,      \* ConnCount
    th,         \* where each goroutine is
    down,       \* where Shutdown is
    closing,    \* the incarnations Shutdown has still to close
    calls       \* how often Online or Logout was called

queueVars == <<svc, dispatched, running, shard, delayed>>
regVars == <<cur, connectQ, queued>>
voVars == <<st, conn, inflight, bad, count>>
downVars == <<done, down, closing>>
vars == <<queueVars, regVars, voVars, downVars, th, calls>>

\* The dispatcher of the shard, a caller of a disjoint Online, a caller of
\* ForceClose; each incarnation's dialing, reading and refreshing goroutine.
Disp == <<"disp", None>>
Direct == <<"direct", None>>
Forcer == <<"force", None>>
Dialer(v) == <<"dial", v>>
Reader(v) == <<"read", v>>
Refresher(v) == <<"refresh", v>>
Thread == {Disp, Direct, Forcer} \cup ({"dial", "read", "refresh"} \X Vo)

At(where, v, w) == [at |-> where, v |-> v, w |-> w]
Idle == At("idle", None, None)
Go(t, where, v, w) == th' = [th EXCEPT ![t] = At(where, v, w)]
Finish(t) == th' = [th EXCEPT ![t] = Idle]

Msg(type, v) == [type |-> type, v |-> v]

Init ==
    /\ svc = <<>> /\ dispatched = <<>> /\ running = TRUE
    /\ shard = <<>> /\ delayed = {}
    /\ cur = None /\ connectQ = <<>> /\ queued = None
    /\ st = [v \in Vo |-> "new"]
    /\ conn = {} /\ inflight = {} /\ bad = {}
    /\ count = [v \in Vo |-> 0]
    /\ th = [t \in Thread |-> Idle]
    /\ done = FALSE /\ down = "no" /\ closing = {}
    /\ calls = 0

Full == "full" \in Env

-----------------------------------------------------------------------------
(* RobotSvc.                                                               *)

\* Online without a disjoint cost: enqueue.
Online ==
    /\ running /\ calls < MaxCalls
    /\ svc' = Append(svc, "online")
    /\ calls' = calls + 1
    /\ UNCHANGED <<dispatched, running, shard, delayed, regVars, voVars, downVars, th>>

\* Logout: what is queued for the uid is superseded.
Logout ==
    /\ running /\ calls < MaxCalls
    /\ svc' = <<"logout">>
    /\ calls' = calls + 1
    /\ UNCHANGED <<dispatched, running, shard, delayed, regVars, voVars, downVars, th>>

\* run takes the whole queue.
TakeBatch ==
    /\ dispatched = <<>> /\ svc # <<>>
    /\ dispatched' = svc /\ svc' = <<>>
    /\ UNCHANGED <<running, shard, delayed, regVars, voVars, downVars, th, calls>>

\* TryAddMessage for MsgOnLine and MsgLogout: the uid's queued messages go.
Supersede(m) == shard' = IF done THEN shard ELSE <<m>>

\* dispatch.  DispatchOnline fails when a login prerequisite cannot be
\* repaired, a shard when it is full of other uids' lifecycle messages.
Dispatch ==
    /\ running /\ dispatched # <<>>
    /\ dispatched' = Tail(dispatched)
    /\ \/ /\ Head(dispatched) = "online"
          /\ \E v \in Vo :
             /\ st[v] = "new"
             /\ st' = [st EXCEPT ![v] = "stop"]
             /\ Supersede(Msg("online", v))
       \/ /\ Head(dispatched) = "logout"
          /\ Supersede(Msg("logout", None))
          /\ UNCHANGED st
       \/ /\ Head(dispatched) = "online" \/ Full
          /\ UNCHANGED <<shard, st>>
    /\ UNCHANGED <<svc, running, delayed, regVars, conn, inflight, bad, count, downVars, th, calls>>

\* stop is closed: run forgets the rest of its batch.
DropBatch ==
    /\ ~running /\ dispatched # <<>>
    /\ dispatched' = <<>>
    /\ UNCHANGED <<svc, running, shard, delayed, regVars, voVars, downVars, th, calls>>

\* Online with a disjoint cost: dispatchOnlineImmediate up to dnfMsgOnLine.
OnlineImmediate ==
    /\ "disjoint" \in Env
    /\ running /\ calls < MaxCalls /\ th[Direct] = Idle
    /\ calls' = calls + 1
    /\ \E v \in Vo :
       /\ st[v] = "new"
       /\ st' = [st EXCEPT ![v] = "stop"]
       /\ Go(Direct, "online", None, v)
    /\ shard' = <<>>
    /\ UNCHANGED <<svc, dispatched, running, delayed, regVars, conn, inflight, bad, count, downVars>>

-----------------------------------------------------------------------------
(* The dispatcher, the timer, the connect loop.                            *)

\* dispatchLoop takes a message.
TakeMessage ==
    /\ ~done /\ th[Disp] = Idle /\ shard # <<>>
    /\ shard' = Tail(shard)
    /\ LET m == Head(shard) IN
       CASE m.type = "online" -> Go(Disp, "online", None, m.v)
         [] m.type = "reconnect" -> Go(Disp, "reconnect", m.v, None)
         [] m.type = "logout" -> Go(Disp, "logout", None, None)
    /\ UNCHANGED <<svc, dispatched, running, delayed, regVars, voVars, downVars, calls>>

\* processTimedMessages: a MsgReconnect is due.  AddMessage ignores a refusal,
\* and a full timer queue drops its oldest entry for another uid's.
TimerFires(v) ==
    /\ ~done /\ v \in delayed
    /\ delayed' = delayed \ {v}
    /\ \/ shard' = Append(shard, Msg("reconnect", v))
       \/ Full /\ UNCHANGED shard
    /\ UNCHANGED <<svc, dispatched, running, regVars, voVars, downVars, th, calls>>

\* connectLoop, which skips an incarnation that is no longer the queued one.
ConnectLoop ==
    /\ ~done /\ connectQ # <<>>
    /\ connectQ' = Tail(connectQ)
    /\ LET v == Head(connectQ) IN
       IF queued = v
         THEN queued' = None /\ Go(Dialer(v), "begin", v, None)
         ELSE UNCHANGED <<queued, th>>
    /\ UNCHANGED <<queueVars, cur, voVars, downVars, calls>>

\* enqueueConnect.
EnqueueConnect(v) ==
    IF queued = v
      THEN UNCHANGED <<connectQ, queued>>
      ELSE connectQ' = Append(connectQ, v) /\ queued' = v

\* CloseOut, closeOutUnsafe.
CloseOut(v) ==
    /\ st' = [st EXCEPT ![v] = "stop"]
    /\ conn' = conn \ {v}

\* DeleteIf.
DeleteIf(v) == cur' = IF cur = v THEN None ELSE cur

-----------------------------------------------------------------------------
(* dnfMsgOnLine, in the dispatcher or in the caller of a disjoint Online.  *)

\* Find the registered session.
OnlineFind(t) ==
    /\ th[t].at = "online"
    /\ Go(t, IF cur = None THEN "replace" ELSE "check", cur, th[t].w)
    /\ UNCHANGED <<queueVars, regVars, voVars, downVars, calls>>

\* A CheckUserState that leaves a session that is logging in alone.
OnlineCheckRunOnly(t) ==
    /\ th[t].at = "check"
    /\ LET v == th[t].v IN
       IF st[v] = "run" /\ v \notin bad
         THEN Finish(t) /\ UNCHANGED voVars
         ELSE /\ Go(t, "replace", v, th[t].w)
              /\ IF v \in bad THEN CloseOut(v) ELSE UNCHANGED <<st, conn>>
              /\ UNCHANGED <<inflight, bad, count>>
    /\ UNCHANGED <<queueVars, regVars, downVars, calls>>

\* CheckUserState: a running session stays, any other is closed.
OnlineCheck(t) ==
    /\ th[t].at = "check"
    /\ LET v == th[t].v IN
       IF st[v] = "run" /\ v \notin bad
         THEN Finish(t) /\ UNCHANGED voVars
         ELSE /\ Go(t, "replace", v, th[t].w)
              /\ CloseOut(v)
              /\ UNCHANGED <<inflight, bad, count>>
    /\ UNCHANGED <<queueVars, regVars, downVars, calls>>

\* A replaceCurrent that also fills an empty place.
MayReplaceGone(old) == ~done /\ cur \in {old, None}

\* replaceCurrent's condition.
MayReplace(old) == ~done /\ cur = old

\* prepareConnect and replaceCurrent.
OnlineReplace(t) ==
    /\ th[t].at = "replace"
    /\ LET w == th[t].w IN
       IF MayReplace(th[t].v)
         THEN /\ cur' = w
              /\ st' = [st EXCEPT ![w] = "init"]
              /\ Go(t, "enqueue", None, w)
         ELSE Finish(t) /\ UNCHANGED <<cur, st>>
    /\ UNCHANGED <<queueVars, connectQ, queued, conn, inflight, bad, count, downVars, calls>>

OnlineEnqueue(t) ==
    /\ th[t].at = "enqueue" /\ ~done
    /\ EnqueueConnect(th[t].w)
    /\ Finish(t)
    /\ UNCHANGED <<queueVars, cur, voVars, downVars, calls>>

\* The queue is full or Shutdown has begun: CloseOut, then DeleteIf.
OnlineNotQueued(t) ==
    /\ th[t].at = "enqueue" /\ (done \/ Full)
    /\ CloseOut(th[t].w)
    /\ Go(t, "delete", th[t].w, None)
    /\ UNCHANGED <<queueVars, regVars, inflight, bad, count, downVars, calls>>

\* The DeleteIf that several paths end with.
Delete(t) ==
    /\ th[t].at = "delete"
    /\ DeleteIf(th[t].v)
    /\ Finish(t)
    /\ UNCHANGED <<queueVars, connectQ, queued, voVars, downVars, calls>>

-----------------------------------------------------------------------------
(* msgReconnect and msgLogout.                                             *)

ReconnectCurrent(t) ==
    /\ th[t].at = "reconnect"
    /\ IF cur = th[t].v THEN Go(t, "ready", th[t].v, None) ELSE Finish(t)
    /\ UNCHANGED <<queueVars, regVars, voVars, downVars, calls>>

\* readyToConnect, then enqueueConnect under its own lock.
ReconnectReady(t) ==
    /\ th[t].at = "ready"
    /\ IF st[th[t].v] = "init" /\ th[t].v \notin inflight
         THEN Go(t, "requeue", th[t].v, None) ELSE Finish(t)
    /\ UNCHANGED <<queueVars, regVars, voVars, downVars, calls>>

ReconnectEnqueue(t) ==
    /\ th[t].at = "requeue"
    /\ \/ ~done /\ EnqueueConnect(th[t].v)
       \/ (done \/ Full) /\ UNCHANGED <<connectQ, queued>>
    /\ Finish(t)
    /\ UNCHANGED <<queueVars, cur, voVars, downVars, calls>>

LogoutFind(t) ==
    /\ th[t].at = "logout"
    /\ IF cur = None THEN Finish(t) ELSE Go(t, "logoutClose", cur, None)
    /\ UNCHANGED <<queueVars, regVars, voVars, downVars, calls>>

LogoutClose(t) ==
    /\ th[t].at = "logoutClose"
    /\ CloseOut(th[t].v)
    /\ Go(t, "logoutDelete", th[t].v, None)
    /\ UNCHANGED <<queueVars, regVars, inflight, bad, count, downVars, calls>>

LogoutDelete(t) ==
    /\ th[t].at = "logoutDelete"
    /\ DeleteIf(th[t].v)
    /\ Finish(t)
    /\ UNCHANGED <<queueVars, connectQ, queued, voVars, downVars, calls>>

-----------------------------------------------------------------------------
(* RobotSvc.ForceClose.                                                    *)

ForceFind ==
    /\ "force" \in Env /\ th[Forcer] = Idle /\ cur # None
    /\ Go(Forcer, "forceClose", cur, None)
    /\ UNCHANGED <<queueVars, regVars, voVars, downVars, calls>>

\* TryCloseOut gets the lock.
ForceClose ==
    /\ th[Forcer].at = "forceClose"
    /\ CloseOut(th[Forcer].v)
    /\ Go(Forcer, "delete", th[Forcer].v, None)
    /\ UNCHANGED <<queueVars, regVars, inflight, bad, count, downVars, calls>>

\* The session is busy.
ForceCloseBusy ==
    /\ th[Forcer].at = "forceClose"
    /\ Finish(Forcer)
    /\ UNCHANGED <<queueVars, regVars, voVars, downVars, calls>>

-----------------------------------------------------------------------------
(* connectContext.                                                         *)

DialBegin(v) ==
    /\ th[Dialer(v)].at = "begin"
    /\ IF ~done /\ st[v] = "init" /\ v \notin inflight
         THEN inflight' = inflight \cup {v} /\ Go(Dialer(v), "current", v, None)
         ELSE Finish(Dialer(v)) /\ UNCHANGED inflight
    /\ UNCHANGED <<queueVars, regVars, st, conn, bad, count, downVars, calls>>

DialCurrent(v) ==
    /\ th[Dialer(v)].at = "current"
    /\ IF cur = v THEN Go(Dialer(v), "dial", v, None) /\ UNCHANGED inflight
                  ELSE Finish(Dialer(v)) /\ inflight' = inflight \ {v}
    /\ UNCHANGED <<queueVars, regVars, st, conn, bad, count, downVars, calls>>

\* The dial fails: RefishConnect, unless ctx is cancelled.
DialFails(v) ==
    /\ th[Dialer(v)].at = "dial"
    /\ inflight' = inflight \ {v}
    /\ IF done THEN Finish(Dialer(v)) ELSE Go(Dialer(v), "refish", v, None)
    /\ UNCHANGED <<queueVars, regVars, st, conn, bad, count, downVars, calls>>

\* The dial succeeds and ctx is not cancelled.
DialOK(v) ==
    /\ th[Dialer(v)].at = "dial" /\ ~done
    /\ Go(Dialer(v), "register", v, None)
    /\ UNCHANGED <<queueVars, regVars, voVars, downVars, calls>>

\* A dial result that is taken without looking at the state again.
DialRegisterUnchecked(v) ==
    /\ th[Dialer(v)].at = "register"
    /\ inflight' = inflight \ {v}
    /\ st' = [st EXCEPT ![v] = "login"]
    /\ conn' = conn \cup {v} /\ bad' = bad \ {v}
    /\ th' = [th EXCEPT ![Dialer(v)] = Idle, ![Reader(v)] = At("read", v, None)]
    /\ UNCHANGED <<queueVars, regVars, count, downVars, calls>>

\* The result is taken if the session is still waiting for it, else closed.
DialRegister(v) ==
    /\ th[Dialer(v)].at = "register"
    /\ inflight' = inflight \ {v}
    /\ IF st[v] = "init"
         THEN /\ st' = [st EXCEPT ![v] = "login"]
              /\ conn' = conn \cup {v} /\ bad' = bad \ {v}
              /\ th' = [th EXCEPT ![Dialer(v)] = Idle, ![Reader(v)] = At("read", v, None)]
         ELSE Finish(Dialer(v)) /\ UNCHANGED <<st, conn, bad>>
    /\ UNCHANGED <<queueVars, regVars, count, downVars, calls>>

-----------------------------------------------------------------------------
(* readLoop and the packets that move the session.                         *)

\* Type 300 ends the login.
PacketRun(v) ==
    /\ th[Reader(v)].at = "read" /\ v \in conn /\ st[v] = "login"
    /\ st' = [st EXCEPT ![v] = "run"]
    /\ count' = [count EXCEPT ![v] = 0]
    /\ UNCHANGED <<queueVars, regVars, conn, inflight, bad, downVars, th, calls>>

\* Type 7 answers a return to character selection; ReselectCharacter follows.
PacketSelect(v) ==
    /\ th[Reader(v)].at = "read" /\ v \in conn /\ st[v] = "run"
    /\ st' = [st EXCEPT ![v] = "select"]
    /\ UNCHANGED <<queueVars, regVars, conn, inflight, bad, count, downVars, th, calls>>

Reselect(v) ==
    /\ v \in conn /\ st[v] = "select"
    /\ st' = [st EXCEPT ![v] = "login"]
    /\ UNCHANGED <<queueVars, regVars, conn, inflight, bad, count, downVars, th, calls>>

\* A malformed packet: the connection is closed, the registry left alone.
PacketBad(v) ==
    /\ th[Reader(v)].at = "read" /\ v \in conn
    /\ CloseOut(v)
    /\ UNCHANGED <<queueVars, regVars, inflight, bad, count, downVars, th, calls>>

\* Type 199, a disconnect reason: refresh_connect starts unless stopping.
PacketDisconnect(v) ==
    /\ th[Reader(v)].at = "read" /\ v \in conn /\ v \notin bad
    /\ bad' = bad \cup {v}
    /\ IF done THEN UNCHANGED th ELSE Go(Refresher(v), "refish", v, None)
    /\ UNCHANGED <<queueVars, regVars, st, conn, inflight, count, downVars, calls>>

\* Read fails: the server closed the connection, or somebody here did.
ReadError(v) ==
    /\ th[Reader(v)].at = "read"
    /\ Go(Reader(v), IF st[v] # "stop" /\ count[v] < MaxReConn THEN "refish" ELSE "finish", v, None)
    /\ UNCHANGED <<queueVars, regVars, voVars, downVars, calls>>

\* finishReadLoop.
ReadFinish(v) ==
    /\ th[Reader(v)].at = "finish"
    /\ IF v \in conn THEN CloseOut(v) /\ Go(Reader(v), "delete", v, None)
                     ELSE Finish(Reader(v)) /\ UNCHANGED <<st, conn>>
    /\ UNCHANGED <<queueVars, regVars, inflight, bad, count, downVars, calls>>

-----------------------------------------------------------------------------
(* RefishConnect, in the dialer, the reader or refresh_connect.            *)

\* Under the session's lock: it stops; a session with reconnects left gets a
\* successor, which is prepared before anybody else can see it.
Refish(t) ==
    /\ th[t].at = "refish"
    /\ LET v == th[t].v
           again == /\ st[v] \in {"run", "login", "init"} /\ count[v] + 1 < MaxReConn
                    /\ \E w \in Vo : st[w] = "new"
       IN
       IF again
         THEN \E w \in Vo :
              /\ st[w] = "new"
              /\ st' = [st EXCEPT ![v] = "stop", ![w] = "init"]
              /\ count' = [count EXCEPT ![w] = count[v] + 1]
              /\ Go(t, "succeed", v, w)
         ELSE /\ st' = [st EXCEPT ![v] = "stop"]
              /\ Go(t, "delete", v, None)
              /\ UNCHANGED count
    /\ conn' = conn \ {th[t].v}
    /\ UNCHANGED <<queueVars, regVars, inflight, bad, downVars, calls>>

\* replaceCurrent, or CloseOut of the successor.
RefishReplace(t) ==
    /\ th[t].at = "succeed"
    /\ LET w == th[t].w IN
       IF MayReplace(th[t].v)
         THEN cur' = w /\ Go(t, "delay", th[t].v, w) /\ UNCHANGED st
         ELSE st' = [st EXCEPT ![w] = "stop"] /\ Finish(t) /\ UNCHANGED cur
    /\ UNCHANGED <<queueVars, connectQ, queued, conn, inflight, bad, count, downVars, calls>>

\* A reconnect that is never scheduled.
RefishDelayForgotten(t) ==
    /\ th[t].at = "delay"
    /\ Finish(t)
    /\ UNCHANGED <<queueVars, regVars, voVars, downVars, calls>>

\* AddMessageDelay.
RefishDelay(t) ==
    /\ th[t].at = "delay"
    /\ delayed' = IF done THEN delayed ELSE delayed \cup {th[t].w}
    /\ Finish(t)
    /\ UNCHANGED <<svc, dispatched, running, shard, regVars, voVars, downVars, calls>>

-----------------------------------------------------------------------------
(* Shutdown of RobotSvc, then of the task.                                 *)

\* The goroutines Shutdown waits for with workers.Wait: not the readers.
Workers == Thread \ ({Direct, Forcer} \cup {Reader(v) : v \in Vo})

ShutdownSvc ==
    /\ "shutdown" \in Env /\ down = "no"
    /\ running' = FALSE /\ svc' = <<>>
    /\ down' = "svc"
    /\ UNCHANGED <<dispatched, shard, delayed, regVars, voVars, done, closing, th, calls>>

\* RobotSvc's worker.Wait is over; the task closes done.
ShutdownBegin ==
    /\ down = "svc" /\ dispatched = <<>> /\ th[Direct] = Idle
    /\ done' = TRUE /\ down' = "queues"
    /\ UNCHANGED <<queueVars, regVars, voVars, closing, th, calls>>

ShutdownQueues ==
    /\ down = "queues"
    /\ shard' = <<>> /\ delayed' = {} /\ queued' = None
    /\ down' = "collect"
    /\ UNCHANGED <<svc, dispatched, running, cur, connectQ, voVars, done, closing, th, calls>>

\* The registry is emptied, then its sessions are closed.
ShutdownCollect ==
    /\ down = "collect"
    /\ closing' = {cur} \ {None} /\ cur' = None
    /\ down' = "close"
    /\ UNCHANGED <<queueVars, connectQ, queued, voVars, done, th, calls>>

ShutdownClose(v) ==
    /\ down = "close" /\ v \in closing
    /\ CloseOut(v)
    /\ closing' = closing \ {v}
    /\ UNCHANGED <<queueVars, regVars, inflight, bad, count, done, down, th, calls>>

ShutdownDone ==
    /\ down = "close" /\ closing = {} /\ \A t \in Workers : th[t] = Idle
    /\ down' = "done"
    /\ UNCHANGED <<queueVars, regVars, voVars, done, closing, th, calls>>

-----------------------------------------------------------------------------
Handler(t) ==
    \/ OnlineFind(t) \/ OnlineCheck(t) \/ OnlineReplace(t) \/ OnlineEnqueue(t) \/ OnlineNotQueued(t)
    \/ ReconnectCurrent(t) \/ ReconnectReady(t) \/ ReconnectEnqueue(t)
    \/ LogoutFind(t) \/ LogoutClose(t) \/ LogoutDelete(t)
    \/ Refish(t) \/ RefishReplace(t) \/ RefishDelay(t)
    \/ Delete(t)

Dial(v) == DialBegin(v) \/ DialCurrent(v) \/ DialFails(v) \/ DialOK(v) \/ DialRegister(v)

\* What the game server does to a connection.
Server(v) == PacketRun(v) \/ PacketSelect(v) \/ PacketBad(v) \/ PacketDisconnect(v) \/ ReadError(v)

Shutdown ==
    \/ ShutdownSvc \/ ShutdownBegin \/ ShutdownQueues \/ ShutdownCollect
    \/ (\E v \in Vo : ShutdownClose(v)) \/ ShutdownDone

Loops == TakeBatch \/ Dispatch \/ DropBatch \/ TakeMessage \/ ConnectLoop

Next ==
    \/ Online \/ Logout \/ OnlineImmediate \/ Loops
    \/ ForceFind \/ ForceClose \/ ForceCloseBusy
    \/ \E t \in Thread : Handler(t)
    \/ \E v \in Vo : TimerFires(v) \/ Dial(v) \/ Server(v) \/ Reselect(v) \/ ReadFinish(v)
    \/ Shutdown

Spec == Init /\ [][Next]_vars

\* Goroutines run and timers fire; dials end.  Callers and the server may do
\* nothing.
Fairness ==
    /\ WF_vars(TakeMessage \/ Handler(Disp)) /\ WF_vars(Handler(Direct))
    /\ WF_vars(ConnectLoop) /\ WF_vars(\E v \in Vo : TimerFires(v))
    /\ \A v \in Vo :
         /\ WF_vars(Dial(v) \/ Handler(Dialer(v)))
         /\ WF_vars(Handler(Reader(v))) /\ WF_vars(Handler(Refresher(v)))

FairSpec == Spec /\ Fairness

-----------------------------------------------------------------------------
Place == {"idle", "online", "check", "replace", "enqueue", "delete", "reconnect", "ready",
          "requeue", "logout", "logoutClose", "logoutDelete", "forceClose", "begin",
          "current", "dial", "register", "refish", "succeed", "delay", "read", "finish"}

TypeOK ==
    /\ svc \in Seq({"online", "logout"}) /\ dispatched \in Seq({"online", "logout"})
    /\ running \in BOOLEAN /\ done \in BOOLEAN
    /\ shard \in Seq([type : {"online", "reconnect", "logout"}, v : Vo \cup {None}])
    /\ delayed \subseteq Vo
    /\ cur \in Vo \cup {None} /\ queued \in Vo \cup {None} /\ connectQ \in Seq(Vo)
    /\ st \in [Vo -> {"new", "stop", "init", "login", "run", "select"}]
    /\ conn \subseteq Vo /\ inflight \subseteq Vo /\ bad \subseteq Vo
    /\ count \in [Vo -> Nat]
    /\ th \in [Thread -> [at : Place, v : Vo \cup {None}, w : Vo \cup {None}]]
    /\ down \in {"no", "svc", "queues", "collect", "close", "done"}
    /\ closing \subseteq Vo
    /\ calls \in 0 .. MaxCalls

\* connectContext, CheckUserState, replaceCurrent, DeleteIf: an incarnation
\* with an open connection, or one that may still open one, is the registered
\* one, unless Shutdown is about to close it.  So an account is never logged in
\* twice, whatever overlaps.
Alive == {v \in Vo : st[v] \in {"login", "run", "select"}}
OneSession ==
    /\ conn \subseteq Alive
    /\ \A v \in Alive : cur = v \/ v \in closing

\* Shutdown: when it has returned, no connection is open and none will be.
ShutdownCloses == down = "done" => conn = {} /\ Alive = {} /\ cur = None

\* replaceCurrent: after a logout, a forced close or the end of a session
\* nothing but an Online brings a session back; a reconnect that was already
\* under way does not.
Reconnecting == {v \in Vo : \E t \in Thread : th[t].w = v /\ th[t].at \in {"succeed", "delay"}} \cup delayed
EndedStaysEnded == [][cur = None /\ cur' # None => cur' \notin Reconnecting]_vars

\* RefishConnect, msgReconnect, enqueueConnect, connectLoop: a registered
\* session that waits to be connected is dialed or removed, it never hangs.
Waiting(v) == cur = v /\ st[v] = "init"
WaitingIsDialed == \A v \in Vo : Waiting(v) ~> ~Waiting(v)

\* "logout did not remove pending reconnect": when msgLogout is over, no
\* reconnect of the session it found is registered.
LogoutEnds == [][\A t \in Thread : LogoutDelete(t) => cur' \notin Reconnecting]_vars
=============================================================================
