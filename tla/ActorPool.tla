------------------------------ MODULE ActorPool ------------------------------
(***************************************************************************)
(* The actor loops (internal/actor), the supervisor's tick and pressure    *)
(* worker and the API's actor registry (internal/scheduler), working on    *)
(* one Ledger.                                                             *)
(*                                                                         *)
(* Threads: one loop per actor; the supervisor; its pressure worker; one   *)
(* API client per concurrent request.  A ledger method is one step         *)
(* (indexMu).  A control (assign, release) is sent to the actor's buffered *)
(* channel and its sender waits for the answer, for the actor's exit or    *)
(* for its timer; a control whose sender gave up stays in the channel and  *)
(* is handled later with nobody listening (from = None).  Runtime calls    *)
(* take time: the actor is in "release" or "close" until they return.      *)
(***************************************************************************)
EXTENDS Ledger, Sequences

CONSTANTS
    Client,          \* API requests that run at the same time
    Sup, Pressure,   \* the supervisor thread and its pressure worker
    CtrlCap,         \* capacity of a.ctrls (4)
    ScaleUpBatch,    \* robotconfig.ScaleUpBatch
    MaxTarget,       \* bound on the configured target
    Faults           \* subset of {"slow", "panic", "loss"}, see below

\* "slow": an actor may fail to answer a control before the sender's timer
\* fires, and a sender may look so late that it finds both the answer and the
\* closed a.done (select then takes either).  "panic": a runtime call may panic while the actor releases its uid.
\* "loss": the database may lose an account, or a cleanup of it may fail, while
\* an API request attaches it.
ASSUME PoolAssumption ==
    /\ CtrlCap \in Nat \ {0} /\ ScaleUpBatch \in Nat \ {0} /\ MaxTarget \in Nat
    /\ None \notin Client /\ Sup # Pressure
    /\ Sup \notin Client /\ Pressure \notin Client /\ None # Sup
    /\ Faults \subseteq {"slow", "panic", "loss"}

Caller == Client \cup {Sup}

VARIABLES
    uid,             \* a.uid
    manual,          \* actors in ModeManual
    releasing,       \* actors in StateReleasing
    stopped,         \* actors whose stop channel is closed
    ctrls,           \* a.ctrls
    cmds,            \* actors with a queued CommandLogout of the current lease
    apc,             \* where the loop is: select, release, close
    cur,             \* the control whose handling waits for the runtime
    active,          \* uids with a live game session
    pc,              \* where each caller is
    job,             \* what it does, with its uid and its actor
    reply,           \* what its ctrl.done has received
    drain,           \* actors each thread has marked and must stop and reap
    plan,            \* the supervisor's remaining phases of this tick
    todo             \* the supervisor's snapshot for the current phase

actorVars == <<uid, manual, releasing, stopped, ctrls, cmds, apc, cur, active>>
callVars == <<pc, job, reply>>
supVars == <<plan, todo>>
poolVars == <<ledgerVars, actorVars, callVars, drain, supVars>>

NoJob == [op |-> "none", uid |-> None, actor |-> None]
NoReply == [ready |-> FALSE, uid |-> None, ok |-> FALSE]
NoCtrl == [kind |-> "none", uid |-> None, from |-> None]

Init ==
    /\ NewLedger
    /\ uid = [a \in Slot |-> None]
    /\ manual = {} /\ releasing = {} /\ stopped = {} /\ cmds = {} /\ active = {}
    /\ ctrls = [a \in Slot |-> <<>>]
    /\ apc = [a \in Slot |-> "select"]
    /\ cur = [a \in Slot |-> NoCtrl]
    /\ pc = [p \in Caller |-> "idle"]
    /\ job = [p \in Caller |-> NoJob]
    /\ reply = [p \in Caller |-> NoReply]
    /\ drain = [p \in Caller \cup {Pressure} |-> {}]
    /\ plan = <<>> /\ todo = {}

Live == created \ exited
AutoActors == {a \in actors : a \notin manual /\ a \notin draining}

-----------------------------------------------------------------------------
(* controlAndWait.                                                         *)

\* The non-blocking send: fails at once when the channel is full or the actor
\* is done, and the caller gets the zero controlResult.
CtrlOf(j) == IF j.op \in {"assign", "attach"} THEN "assign" ELSE "release"

Send(p) ==
    LET j == job[p]
        a == j.actor
        full == a \in exited \/ Len(ctrls[a]) >= CtrlCap
        c == [kind |-> CtrlOf(j), uid |-> IF CtrlOf(j) = "assign" THEN j.uid ELSE None, from |-> p]
    IN
    /\ pc[p] = "send"
    /\ pc' = [pc EXCEPT ![p] = "wait"]
    /\ reply' = [reply EXCEPT ![p] = [NoReply EXCEPT !.ready = full]]
    /\ ctrls' = IF full THEN ctrls ELSE [ctrls EXCEPT ![a] = Append(@, c)]
    /\ UNCHANGED <<ledgerVars, uid, manual, releasing, stopped, cmds, apc, cur, active, job, drain, supVars>>

Unheard(c, p) == IF c.from = p THEN [c EXCEPT !.from = None] ELSE c

\* a.done is closed, or the timer fires: the zero controlResult.  The control
\* may still be in the channel.
GaveUp(p) ==
    LET a == job[p].actor IN
    /\ pc[p] = "wait"
    /\ (a \in exited /\ ~reply[p].ready) \/ "slow" \in Faults
    /\ reply' = [reply EXCEPT ![p] = [NoReply EXCEPT !.ready = TRUE]]
    /\ ctrls' = [ctrls EXCEPT ![a] = [i \in DOMAIN @ |-> Unheard(@[i], p)]]
    /\ cur' = [cur EXCEPT ![a] = Unheard(@, p)]
    /\ UNCHANGED <<ledgerVars, uid, manual, releasing, stopped, cmds, apc, active, pc, job, drain, supVars>>

\* A caller goes on to `next'; back in "idle" it has forgotten the call.
Go(p, next) ==
    /\ pc' = [pc EXCEPT ![p] = next]
    /\ job' = [job EXCEPT ![p] = IF next = "idle" THEN NoJob ELSE @]
    /\ reply' = [reply EXCEPT ![p] = IF next = "idle" THEN NoReply ELSE @]

At(p, where, ops) == pc[p] = where /\ job[p].op \in ops
Answered(p, ops) == At(p, "wait", ops) /\ reply[p].ready

-----------------------------------------------------------------------------
(* The actor loop.                                                         *)

InLoop(a) == a \in Live /\ apc[a] = "select"

Answer(c, u, ok) ==
    reply' = IF c.from = None THEN reply
             ELSE [reply EXCEPT ![c.from] = [ready |-> TRUE, uid |-> u, ok |-> ok]]

\* resetForUID: a new lease generation, so queued commands are stale.
ResetForUID(a, u) ==
    /\ uid' = [uid EXCEPT ![a] = u]
    /\ releasing' = releasing \ {a}
    /\ cmds' = cmds \ {a}

\* handleControl, up to the runtime call it may need.
TakeControl(a) ==
    /\ InLoop(a) /\ ctrls[a] # <<>>
    /\ ctrls' = [ctrls EXCEPT ![a] = Tail(@)]
    /\ LET c == Head(ctrls[a]) IN
       IF uid[a] # None /\ (c.kind = "release" \/ uid[a] # c.uid)
         THEN \* releaseCurrentUID
              /\ apc' = [apc EXCEPT ![a] = "release"]
              /\ cur' = [cur EXCEPT ![a] = c]
              /\ releasing' = releasing \cup {a}
              /\ UNCHANGED <<uid, cmds, reply>>
         ELSE /\ IF c.kind = "assign" THEN ResetForUID(a, c.uid)
                 ELSE releasing' = releasing \ {a} /\ UNCHANGED <<uid, cmds>>
              /\ Answer(c, c.uid, TRUE)
              /\ UNCHANGED <<apc, cur>>
    /\ UNCHANGED <<ledgerVars, manual, stopped, active, pc, job, drain, supVars>>

\* releaseRuntimeUID said the session is closed: Logout OK or ForceClose.
ReleaseDone(a) ==
    /\ apc[a] = "release" /\ a \in Live
    /\ apc' = [apc EXCEPT ![a] = "select"]
    /\ cur' = [cur EXCEPT ![a] = NoCtrl]
    /\ active' = active \ {uid[a]}
    /\ LET c == cur[a] IN
       /\ ResetForUID(a, IF c.kind = "assign" THEN c.uid ELSE None)
       /\ Answer(c, IF c.kind = "assign" THEN c.uid ELSE uid[a], TRUE)
    /\ UNCHANGED <<ledgerVars, manual, stopped, ctrls, pc, job, drain, supVars>>

\* The session could not be closed: the uid stays, StateReleasing makes the
\* next ticks try again.
ReleasePending(a) ==
    /\ apc[a] = "release" /\ a \in Live
    /\ apc' = [apc EXCEPT ![a] = "select"]
    /\ cur' = [cur EXCEPT ![a] = NoCtrl]
    /\ LET c == cur[a] IN
       Answer(c, IF c.kind = "assign" THEN uid[a] ELSE None, c.kind = "release")
    /\ UNCHANGED <<ledgerVars, uid, manual, releasing, stopped, ctrls, cmds, active, pc, job, drain, supVars>>

\* A runtime call outside RobotRuntime.run panics: handleLoopPanic keeps the
\* uid in StateReleasing, and handleControlSafely answers with that uid, which
\* ReleaseAndWait returns whether or not ok is set.
ReleasePanic(a) ==
    /\ "panic" \in Faults
    /\ apc[a] = "release" /\ a \in Live
    /\ apc' = [apc EXCEPT ![a] = "select"]
    /\ cur' = [cur EXCEPT ![a] = NoCtrl]
    /\ Answer(cur[a], uid[a], FALSE)
    /\ UNCHANGED <<ledgerVars, uid, manual, releasing, stopped, ctrls, cmds, active, pc, job, drain, supVars>>

\* tickSafely in StateReleasing.
TickRelease(a) ==
    /\ InLoop(a) /\ a \in releasing /\ uid[a] # None
    /\ apc' = [apc EXCEPT ![a] = "release"]
    /\ UNCHANGED <<ledgerVars, uid, manual, releasing, stopped, ctrls, cmds, cur, active, callVars, drain, supVars>>

\* tick / ensureOnline: a session is opened for the actor's uid.
TickOnline(a) ==
    /\ InLoop(a) /\ a \notin releasing /\ uid[a] # None
    /\ active' = active \cup {uid[a]}
    /\ UNCHANGED <<ledgerVars, uid, manual, releasing, stopped, ctrls, cmds, apc, cur, callVars, drain, supVars>>

\* A tick or a command panics and handleLoopPanic catches it.
TickPanic(a) ==
    /\ InLoop(a) /\ uid[a] # None
    /\ releasing' = releasing \cup {a}
    /\ UNCHANGED <<ledgerVars, uid, manual, stopped, ctrls, cmds, apc, cur, active, callVars, drain, supVars>>

\* Any other command of the current lease: setBusy writes StateBusy and then
\* StateRunning or StateOffline over whatever the state was.
TakeCommand(a) ==
    /\ InLoop(a) /\ uid[a] # None
    /\ releasing' = releasing \ {a}
    /\ UNCHANGED <<ledgerVars, uid, manual, stopped, ctrls, cmds, apc, cur, active, callVars, drain, supVars>>

\* handleRequestSafely for CommandLogout of the current lease; a request of an
\* earlier lease is answered "actor lease changed" and changes nothing.  The
\* session may survive a failed logout.  A manual actor stops itself.
TakeLogout(a) ==
    /\ InLoop(a) /\ a \in cmds
    /\ cmds' = cmds \ {a}
    /\ active' \in {active, active \ {uid[a]}}
    /\ releasing' = releasing \ {a}
    /\ stopped' = IF a \in manual THEN stopped \cup {a} ELSE stopped
    /\ UNCHANGED <<ledgerVars, uid, manual, ctrls, apc, cur, callVars, drain, supVars>>

\* The loop sees a.stop: without a uid it returns, otherwise it starts
\* releaseCurrentUIDUntilClosed.
TakeStop(a) ==
    /\ InLoop(a) /\ a \in stopped
    /\ IF uid[a] = None
         THEN ActorExit(a, FALSE) /\ UNCHANGED <<apc, releasing>>
         ELSE /\ apc' = [apc EXCEPT ![a] = "close"]
              /\ releasing' = releasing \cup {a}
              /\ UNCHANGED ledgerVars
    /\ UNCHANGED <<uid, manual, stopped, ctrls, cmds, cur, active, callVars, drain, supVars>>

\* One of the stopReleaseMaxAttempts attempts closed the session.
CloseDone(a) ==
    /\ a \in Live /\ apc[a] = "close"
    /\ active' = active \ {uid[a]}
    /\ ResetForUID(a, None)
    /\ ActorExit(a, FALSE)
    /\ UNCHANGED <<manual, stopped, ctrls, apc, cur, callVars, drain, supVars>>

\* A stop that gives up without quarantining its uid.
CloseGaveUpSilently(a) ==
    /\ a \in Live /\ apc[a] = "close"
    /\ ActorExit(a, FALSE)
    /\ UNCHANGED <<actorVars, callVars, drain, supVars>>

\* All attempts failed: quarantineCurrentUID, then the loop returns.
CloseGaveUp(a) ==
    /\ a \in Live /\ apc[a] = "close"
    /\ ActorExit(a, TRUE)
    /\ UNCHANGED <<actorVars, callVars, drain, supVars>>

\* A panic while stopping leaves the loop: handleLoopPanic, then one
\* tryReleaseAfterFatalPanic whose result nobody looks at.
ClosePanic(a) ==
    /\ "panic" \in Faults
    /\ a \in Live /\ apc[a] = "close"
    /\ ActorExit(a, FALSE)
    /\ \/ active' = active \ {uid[a]} /\ ResetForUID(a, None)
       \/ UNCHANGED <<active, uid, releasing, cmds>>
    /\ UNCHANGED <<manual, stopped, ctrls, apc, cur, callVars, drain, supVars>>

ActorStep(a) ==
    \/ TakeControl(a) \/ ReleaseDone(a) \/ ReleasePending(a) \/ ReleasePanic(a)
    \/ TickRelease(a) \/ TickOnline(a) \/ TickPanic(a) \/ TakeCommand(a) \/ TakeLogout(a)
    \/ TakeStop(a) \/ CloseDone(a) \/ CloseGaveUp(a) \/ ClosePanic(a)

\* The server closes a session on its own.
SessionDrops(u) ==
    /\ active' = active \ {u}
    /\ UNCHANGED <<ledgerVars, uid, manual, releasing, stopped, ctrls, cmds, apc, cur, callVars, drain, supVars>>

-----------------------------------------------------------------------------
(* stopDrainingActors: request every stop, then reap until the deadline.   *)

Drainer == Caller \cup {Pressure}

RequestStops(p) ==
    /\ drain[p] # {} /\ ~(drain[p] \subseteq stopped)
    /\ stopped' = stopped \cup drain[p]
    /\ UNCHANGED <<ledgerVars, uid, manual, releasing, ctrls, cmds, apc, cur, active, callVars, drain, supVars>>

\* A wait that reaps what has not exited when the deadline comes.
ReapUnfinished(p, a) ==
    /\ drain[p] \subseteq stopped /\ a \in drain[p]
    /\ ReapSet({a})
    /\ drain' = [drain EXCEPT ![p] = @ \ {a}]
    /\ UNCHANGED <<actorVars, callVars, supVars>>

Reap(p, a) ==
    /\ drain[p] \subseteq stopped /\ a \in drain[p]
    /\ ReapActor(a)
    /\ drain' = [drain EXCEPT ![p] = @ \ {a}]
    /\ UNCHANGED <<actorVars, callVars, supVars>>

\* The deadline passes with actors left.
DrainDeadline(p) ==
    /\ drain[p] # {} /\ drain[p] \subseteq stopped
    /\ drain' = [drain EXCEPT ![p] = {}]
    /\ UNCHANGED <<ledgerVars, actorVars, callVars, supVars>>

DrainStep(p) == RequestStops(p) \/ (\E a \in drain[p] : Reap(p, a)) \/ DrainDeadline(p)

\* StopUIDs(uids, true), first part: mark the actors of the uids; log out the
\* active sessions nobody is leased to, which may fail.
StopUIDs(p, U) ==
    /\ BeginDrain(LesseesOf(U))
    /\ drain' = [drain EXCEPT ![p] = LesseesOf(U)]
    /\ active' \in {active, active \ {u \in U : ~Leased(u)}}

-----------------------------------------------------------------------------
(* The supervisor.                                                         *)

SupIdle == pc[Sup] = "idle" /\ drain[Sup] = {}
Phase(name) == SupIdle /\ plan # <<>> /\ Head(plan) = name /\ todo = {}

Attaching(u) == \E c \in Client : job[c].op = "attach" /\ job[c].uid = u
MayFail(u) == "loss" \in Faults \/ ~Attaching(u)

\* tick: reap, then what handleAutoGuards lets through.  Whether automatic
\* actions are disabled, the key is bad, a structural operation runs, the port
\* is unstable or the breaker is open can change between any two ticks.  An
\* open breaker only lets the pool shrink.
Guarded == {<<"stopAll">>, <<>>, <<"pressure">>, <<"recycle">>, <<"shrink", "recycle">>}
FullTick == <<"adopt", "maintain", "broken", "cleanup", "recycle", "assign">>

\* A tick that leaves reaping to the threads that drain.
TickWithoutReap ==
    /\ SupIdle /\ plan = <<>>
    /\ plan' \in Guarded \cup {FullTick}
    /\ UNCHANGED <<ledgerVars, actorVars, callVars, drain, todo>>

Tick ==
    /\ SupIdle /\ plan = <<>>
    /\ ReapDoneDraining
    /\ plan' \in Guarded \cup {FullTick}
    /\ UNCHANGED <<actorVars, callVars, drain, todo>>

\* A phase is skipped when its interval is not over or its query fails; it is
\* over when its snapshot has been worked off.
EndPhase ==
    /\ SupIdle /\ plan # <<>> /\ todo = {}
    /\ Head(plan) \notin {"stopAll", "pressure", "adopt"}
    /\ plan' = Tail(plan)
    /\ UNCHANGED <<ledgerVars, actorVars, callVars, drain, todo>>

StopAll ==
    /\ Phase("stopAll")
    /\ BeginDrain(AutoActors)
    /\ drain' = [drain EXCEPT ![Sup] = AutoActors]
    /\ plan' = Tail(plan)
    /\ UNCHANGED <<actorVars, callVars, todo>>

\* StopPriority: idle actors first, then the ones without a session.
Priority(a) == IF uid[a] = None THEN 0 ELSE IF uid[a] \notin active THEN 1 ELSE 2

\* SortActorsForStop, then a prefix of the given length.
StopFirst(S, n) ==
    {T \in SUBSET S : /\ Cardinality(T) = n
                      /\ \A a \in T, b \in S \ T : Priority(a) <= Priority(b)}

\* stopSomeAutoActors: one batch at a time, handed to the pressure worker.
StopSome ==
    /\ Phase("pressure")
    /\ plan' = Tail(plan)
    /\ IF drain[Pressure] # {} \/ AutoActors = {}
         THEN UNCHANGED <<ledgerVars, drain>>
         ELSE \E S \in StopFirst(AutoActors, 1) :
              /\ BeginDrain(S)
              /\ drain' = [drain EXCEPT ![Pressure] = S]
    /\ UNCHANGED <<actorVars, callVars, todo>>

Adopt ==
    /\ Phase("adopt")
    /\ manual' = manual \ (actors \ draining)
    /\ plan' = Tail(plan)
    /\ UNCHANGED <<ledgerVars, uid, releasing, stopped, ctrls, cmds, apc, cur, active, callVars, drain, todo>>

AutoCount == Cardinality({a \in actors \ Dead(FALSE) : a \notin manual})
Candidates == AutoActors \ Dead(FALSE)
SmallerOf(m, n) == IF m < n THEN m ELSE n

\* robotconfig.ScaleDownBatch: a 25th of the actors, at least 5 and at most 50.
ScaleDownBatch(current, target) ==
    LET batch == (current + 24) \div 25 IN
    SmallerOf(current - target, IF batch < 5 THEN 5 ELSE SmallerOf(batch, 50))

\* maintainTarget: add actors up to the target, or mark the surplus.  The
\* pending limit may hold the growth back.
Maintain(target) ==
    /\ Phase("maintain") \/ Phase("shrink")
    /\ plan' = Tail(plan)
    /\ \/ /\ Head(plan) = "maintain" /\ AutoCount <= target
          /\ \E new \in SUBSET (Slot \ created) :
             /\ Cardinality(new) \in {0, SmallerOf(target - AutoCount, ScaleUpBatch)}
             /\ EnsureSlots(new, {})
          /\ UNCHANGED drain
       \/ /\ AutoCount > target
          /\ \E extra \in StopFirst(Candidates, SmallerOf(ScaleDownBatch(AutoCount, target),
                                                     Cardinality(Candidates))) :
             /\ EnsureSlots({}, extra)
             /\ drain' = [drain EXCEPT ![Sup] = extra]
    /\ UNCHANGED <<actorVars, callVars, todo>>

Item(name, u, a) == [op |-> name, uid |-> u, actor |-> a]

\* LeaseSnapshots leaves out the leases of draining actors.
Visible == {u \in Uid : Leased(u) /\ lease[u] \notin draining}
\* The snapshot of a phase.  Which leases are broken (not alive in the
\* database) and which actors are unhealthy is the environment's choice.
Snapshot ==
    /\ SupIdle /\ plan # <<>> /\ todo = {}
    /\ \/ /\ Head(plan) = "broken"
          /\ \E dead \in SUBSET {u \in Visible : MayFail(u)} :
             todo' = {Item("broken", u, lease[u]) : u \in dead \cup (Visible \cap blocked)}
       \/ /\ Head(plan) = "cleanup"
          /\ todo' = {Item("cleanup", u, None) : u \in blocked}
       \/ /\ Head(plan) = "recycle"
          /\ \E bad \in SUBSET {a \in AutoActors : uid[a] # None} :
             todo' = {Item("recycle", uid[a], a) : a \in bad}
       \/ /\ Head(plan) = "assign"
          /\ todo' = {Item("idle", None, a) : a \in {b \in AutoActors : uid[b] = None}}
    /\ todo' # {}
    /\ plan' = Tail(plan)
    /\ UNCHANGED <<ledgerVars, actorVars, callVars, drain>>

\* Start on one item of the snapshot: it becomes the supervisor's job.
Start(i, next) ==
    /\ todo' = todo \ {i}
    /\ job' = [job EXCEPT ![Sup] = i]
    /\ pc' = [pc EXCEPT ![Sup] = next]
    /\ UNCHANGED <<reply, plan>>

Skip(i) == todo' = todo \ {i} /\ UNCHANGED <<callVars, plan>>

\* releaseBrokenLeases: BlockLeaseIfCurrent before ReleaseAndWait.
BrokenBlock(i) ==
    /\ SupIdle /\ i.op = "broken"
    /\ IF lease[i.uid] = i.actor
         THEN BlockLeaseIfCurrent(i.uid, i.actor) /\ Start(i, "send")
         ELSE UNCHANGED ledgerVars /\ Skip(i)
    /\ UNCHANGED <<actorVars, drain>>

\* The actor released some other uid meanwhile: that lease is over too.
BrokenAnswer ==
    /\ Answered(Sup, {"broken"})
    /\ IF reply[Sup].uid \notin {None, job[Sup].uid}
         THEN RemoveLeaseIfActor(reply[Sup].uid, job[Sup].actor)
         ELSE UNCHANGED ledgerVars
    /\ Go(Sup, "check")
    /\ UNCHANGED <<actorVars, drain, supVars>>

BrokenCheck ==
    /\ At(Sup, "check", {"broken"})
    /\ Go(Sup, IF reply[Sup].uid = job[Sup].uid \/ uid[job[Sup].actor] # job[Sup].uid
                 THEN "remove" ELSE "idle")
    /\ UNCHANGED <<ledgerVars, actorVars, drain, supVars>>

RecycleStart(i) ==
    /\ SupIdle /\ i.op = "recycle"
    /\ Start(i, "send")
    /\ UNCHANGED <<ledgerVars, actorVars, drain>>

\* A recycle that takes any answer for a confirmed release.
RecycleAnswerUnconfirmed ==
    /\ Answered(Sup, {"recycle"})
    /\ Go(Sup, "remove")
    /\ UNCHANGED <<ledgerVars, actorVars, drain, supVars>>

\* "recycle_deferred ... runtime_close_unconfirmed" keeps the lease.
RecycleAnswer ==
    /\ Answered(Sup, {"recycle"})
    /\ Go(Sup, IF reply[Sup].uid = job[Sup].uid THEN "remove" ELSE "idle")
    /\ UNCHANGED <<ledgerVars, actorVars, drain, supVars>>

RemoveLease ==
    /\ At(Sup, "remove", {"broken", "recycle"})
    /\ RemoveLeaseIfActor(job[Sup].uid, job[Sup].actor)
    /\ Go(Sup, "clean")
    /\ UNCHANGED <<actorVars, drain, supVars>>

\* cleanupBlockedUIDs: not a quarantined uid, not one some actor still holds;
\* a live session must be force-closed first.
ActorOwnsUID(u) == Leased(u) \/ \E a \in actors : uid[a] = u

CleanupBlocked(i) ==
    /\ SupIdle /\ i.op = "cleanup"
    /\ \/ i.uid \notin quarantine /\ ~ActorOwnsUID(i.uid)
          /\ active' = active \ {i.uid}
          /\ Start(i, "clean")
       \/ (i.uid \in quarantine \/ ActorOwnsUID(i.uid) \/ i.uid \in active)
          /\ UNCHANGED active /\ Skip(i)
    /\ UNCHANGED <<ledgerVars, uid, manual, releasing, stopped, ctrls, cmds, apc, cur, drain>>

\* CleanupRobots stops the uid's actor and deletes its data.
Clean ==
    /\ pc[Sup] = "clean"
    /\ StopUIDs(Sup, {job[Sup].uid})
    /\ Go(Sup, "cleaned")
    /\ UNCHANGED <<uid, manual, releasing, stopped, ctrls, cmds, apc, cur, supVars>>

\* A query failed, or the uid turned out to be protected.
CleanRefused ==
    /\ pc[Sup] = "clean"
    /\ IF job[Sup].op = "recycle"
         THEN \/ MayFail(job[Sup].uid) /\ BlockUID(job[Sup].uid)
              \/ UNCHANGED ledgerVars
         ELSE UNCHANGED ledgerVars
    /\ Go(Sup, "idle")
    /\ UNCHANGED <<actorVars, drain, supVars>>

\* The data is gone or its deletion failed.
Cleaned ==
    /\ pc[Sup] = "cleaned" /\ drain[Sup] = {}
    /\ IF job[Sup].op = "recycle"
         THEN UNCHANGED ledgerVars
         ELSE UnblockUID(job[Sup].uid) \/ UNCHANGED ledgerVars
    /\ Go(Sup, "idle")
    /\ UNCHANGED <<actorVars, drain, supVars>>

\* acquireUIDs: lease a robot to each idle actor of the snapshot, as far as
\* there are robots; only then are the assignments sent.
LeasePair(i, u) ==
    /\ SupIdle /\ i.op = "idle"
    /\ TryLeaseUID(u, i.actor)
    /\ todo' = (todo \ {i}) \cup {Item("assign", u, i.actor)}
    /\ UNCHANGED <<actorVars, callVars, drain, plan>>

LeaseNone(i) ==
    /\ SupIdle /\ i.op = "idle"
    /\ Skip(i)
    /\ UNCHANGED <<ledgerVars, actorVars, drain>>

AssignStart(i) ==
    /\ SupIdle /\ i.op = "assign"
    /\ \A j \in todo : j.op # "idle"
    /\ Start(i, "send")
    /\ UNCHANGED <<ledgerVars, actorVars, drain>>

AssignAnswer ==
    /\ Answered(Sup, {"assign"})
    /\ IF reply[Sup].ok THEN UNCHANGED ledgerVars
       ELSE RemoveLeaseIfActor(job[Sup].uid, job[Sup].actor)
    /\ Go(Sup, "idle")
    /\ UNCHANGED <<actorVars, drain, supVars>>

ItemStep(i) ==
    \/ BrokenBlock(i) \/ RecycleStart(i) \/ CleanupBlocked(i)
    \/ (\E u \in Uid : LeasePair(i, u)) \/ LeaseNone(i) \/ AssignStart(i)

SupStep ==
    \/ Tick \/ EndPhase \/ StopAll \/ StopSome \/ Adopt \/ Snapshot
    \/ (\E n \in 0 .. MaxTarget : Maintain(n))
    \/ (\E i \in todo : ItemStep(i))
    \/ BrokenAnswer \/ BrokenCheck \/ RecycleAnswer \/ RemoveLease
    \/ Clean \/ CleanRefused \/ Cleaned \/ AssignAnswer

-----------------------------------------------------------------------------
(* The API's actor registry.  A structural operation (StopUIDs from a      *)
(* cleanup or a dangerous delete) holds mutationMu, the other commands     *)
(* share it.                                                               *)

Quiet(c) == pc[c] = "idle" /\ drain[c] = {}
ClientIdle(c) == Quiet(c) /\ \A d \in Client : drain[d] = {}

\* AttachUID of a uid that has no actor.
Attach(c, u, a) ==
    /\ ClientIdle(c)
    /\ ReserveManualActor(u, a)
    /\ manual' = manual \cup {a}
    /\ job' = [job EXCEPT ![c] = Item("attach", u, a)]
    /\ pc' = [pc EXCEPT ![c] = "send"]
    /\ UNCHANGED <<uid, releasing, stopped, ctrls, cmds, apc, cur, active, reply, drain, supVars>>

AttachAnswer(c) ==
    /\ Answered(c, {"attach"})
    /\ Go(c, IF reply[c].ok THEN "idle" ELSE "attachDrain")
    /\ UNCHANGED <<ledgerVars, actorVars, drain, supVars>>

\* A failed attach: BeginDrainUID, UnleaseUID, RequestStop, one by one.
AttachDrain(c) ==
    /\ pc[c] = "attachDrain"
    /\ BeginDrain(LesseesOf({job[c].uid}))
    /\ Go(c, "attachUnlease")
    /\ UNCHANGED <<actorVars, drain, supVars>>

AttachUnlease(c) ==
    /\ pc[c] = "attachUnlease"
    /\ RemoveLeaseIfActor(job[c].uid, job[c].actor)
    /\ Go(c, "stop")
    /\ UNCHANGED <<actorVars, drain, supVars>>

RequestStop(c) ==
    /\ pc[c] = "stop"
    /\ stopped' = stopped \cup {job[c].actor}
    /\ Go(c, "idle")
    /\ UNCHANGED <<ledgerVars, uid, manual, releasing, ctrls, cmds, apc, cur, active, drain, supVars>>

\* LogoutUID: a manual actor is marked draining, because it will stop itself.
Logout(c, u) ==
    /\ ClientIdle(c) /\ Leased(u)
    /\ job' = [job EXCEPT ![c] = Item(IF lease[u] \in manual THEN "logoutManual" ELSE "logoutAuto", u, lease[u])]
    /\ pc' = [pc EXCEPT ![c] = IF lease[u] \in manual THEN "logoutDrain" ELSE "enqueue"]
    /\ UNCHANGED <<ledgerVars, actorVars, reply, drain, supVars>>

LogoutDrain(c) ==
    /\ pc[c] = "logoutDrain"
    /\ BeginDrain(LesseesOf({job[c].uid}))
    /\ Go(c, "enqueue")
    /\ UNCHANGED <<actorVars, drain, supVars>>

\* The command takes the actor's present lease; or the channel is full, and a
\* manual actor is stopped directly.
Enqueue(c) ==
    LET a == job[c].actor IN
    /\ pc[c] = "enqueue"
    /\ \/ /\ cmds' = IF uid[a] # None THEN cmds \cup {a} ELSE cmds
          /\ Go(c, "idle")
       \/ /\ Go(c, IF job[c].op = "logoutManual" THEN "stop" ELSE "idle")
          /\ UNCHANGED cmds
    /\ UNCHANGED <<ledgerVars, uid, manual, releasing, stopped, ctrls, apc, cur, active, drain, supVars>>

\* A structural operation stops the actors of some uids.
ClientStop(c, U) ==
    /\ \A d \in Client : Quiet(d)
    /\ StopUIDs(c, U)
    /\ UNCHANGED <<uid, manual, releasing, stopped, ctrls, cmds, apc, cur, callVars, supVars>>

ClientStep(c) ==
    \/ (\E u \in Uid : Logout(c, u) \/ \E a \in Slot : Attach(c, u, a))
    \/ (\E U \in SUBSET Uid : U # {} /\ ClientStop(c, U))
    \/ AttachAnswer(c) \/ AttachDrain(c) \/ AttachUnlease(c) \/ RequestStop(c)
    \/ LogoutDrain(c) \/ Enqueue(c)

Next ==
    \/ \E a \in Slot : ActorStep(a)
    \/ \E u \in Uid : SessionDrops(u)
    \/ \E p \in Drainer : DrainStep(p)
    \/ \E p \in Caller : Send(p) \/ GaveUp(p)
    \/ SupStep
    \/ \E c \in Client : ClientStep(c)

Spec == Init /\ [][Next]_poolVars

\* Fairness: the goroutines run.  select chooses at random among the ready
\* channels, so a control or a stop that stays ready is taken although ticks
\* and commands keep coming (strong fairness); a stop also beats the controls
\* that are still queued, because they are finitely many.
CloseEnds(a) == CloseDone(a) \/ CloseGaveUp(a)
ReleaseEnds(a) == ReleaseDone(a) \/ ReleasePending(a)

Fairness ==
    /\ \A a \in Slot :
         /\ SF_poolVars(TakeControl(a)) /\ SF_poolVars(TakeStop(a))
         /\ WF_poolVars(ReleaseEnds(a)) /\ WF_poolVars(CloseEnds(a))
    /\ \A p \in Caller : WF_poolVars(Send(p) \/ GaveUp(p))
    /\ \A p \in Drainer : WF_poolVars(DrainStep(p))
    /\ WF_poolVars(SupStep)

FairSpec == Spec /\ Fairness

-----------------------------------------------------------------------------
Ctrl == [kind : {"assign", "release", "none"}, uid : Uid \cup {None}, from : Caller \cup {None}]
Job == [op : {"none", "broken", "recycle", "cleanup", "assign", "idle", "attach", "logoutManual", "logoutAuto"},
        uid : Uid \cup {None}, actor : Slot \cup {None}]

Place == {"idle", "send", "wait", "check", "remove", "clean", "cleaned",
          "attachDrain", "attachUnlease", "stop", "logoutDrain", "enqueue"}

PoolTypeOK ==
    /\ uid \in [Slot -> Uid \cup {None}]
    /\ manual \subseteq Slot /\ releasing \subseteq Slot /\ stopped \subseteq Slot
    /\ cmds \subseteq Slot /\ active \subseteq Uid
    /\ ctrls \in [Slot -> Seq(Ctrl)]
    /\ apc \in [Slot -> {"select", "release", "close"}]
    /\ cur \in [Slot -> Ctrl]
    /\ pc \in [Caller -> Place]
    /\ job \in [Caller -> Job]
    /\ reply \in [Caller -> [ready : BOOLEAN, uid : Uid \cup {None}, ok : BOOLEAN]]
    /\ drain \in [Drainer -> SUBSET Slot]
    /\ todo \subseteq Job
    \* a caller at work, and what the supervisor still has to do, has a uid; a
    \* request has an actor too
    /\ \A p \in Caller : pc[p] # "idle" => job[p].uid \in Uid
    /\ \A c \in Client : pc[c] # "idle" => job[c].actor \in Slot
    /\ \A i \in todo : i.op # "idle" => i.uid \in Uid

TypeOK == LedgerTypeOK /\ PoolTypeOK

\* Two live actors never drive the same uid.
UniqueDriver ==
    \A a, b \in Live : uid[a] # None /\ uid[a] = uid[b] => a = b

\* A uid an actor that has not exited still holds, or whose session is open,
\* cannot be leased again ("stuck uid was reusable before actor exit").
NotReusable(u) == Leased(u) \/ u \in blocked

HeldNotReusable == \A a \in Live : uid[a] # None => NotReusable(uid[a])
ActiveNotReusable == \A u \in active : NotReusable(u)

\* A command for a uid reaches the actor the lease names: that actor holds
\* this uid or none ("new lease changed by stale command").
CommandReachesItsUid ==
    \A u \in Uid : lease[u] \in Live => uid[lease[u]] \in {u, None}

\* RequestStop, releaseCurrentUIDUntilClosed, tick: an actor that was told to
\* stop leaves the pool, whoever is waiting for it; the supervisor's tick reaps
\* what the drain deadline left behind.
StoppedIsReaped == \A a \in Slot : a \in stopped ~> a \notin actors
=============================================================================
