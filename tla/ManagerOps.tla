----------------------------- MODULE ManagerOps -----------------------------
(***************************************************************************)
(* The scheduler's manager: commands of the API that attach and log out    *)
(* robots, structural operations (create, cleanup, delete) that exclude    *)
(* them, the list of operations, the supervisor's guards, and the orderly  *)
(* shutdown of all of it.                                                  *)
(*                                                                         *)
(* An actor is what its ledger entry says and whether its goroutine lives; *)
(* ActorPool has the details.  Requests run as background work (or in a    *)
(* connection that the server's Close has waited for, see ApiServer).      *)
(***************************************************************************)
EXTENDS Integers, Sequences, FiniteSets

CONSTANTS Uid,
          Req,       \* requests at one time
          Kinds,     \* "online", "logout" and the structural ones
          ListMax,   \* operations remembered: 20
          MaxReqs,   \* requests in all
          Env        \* "auto": SetAutoEnabled by the API; "stuck": an actor that only a
                     \* forced close ends; "pressure": the pressure worker

VARIABLES req,     \* pc, kind, uid, id
          rw,      \* mutationMu: writer, readers, waiting
          mu,      \* holder of actorMutationMu: a request, -1: the supervisor
          ops,     \* id, structural, running; newest first
          nextId,
          flag,    \* structuralOp, with its generation: on, gen
          cflag,   \* actorContainerOp is set
          auto,    \* autoEnabled
          act,     \* uid -> mode, live, drain, stop, stuck
          sup,     \* the supervisor's goroutine
          pend,    \* actors that the supervisor waits for
          press,   \* the pressure worker's actor, 0: not running
          down,    \* Shutdown: "no", "work", "auto", "writer", "ok", "err"
          err,     \* shutdownErr of the supervisor
          lost,    \* a position was written after the writer was closed
          left

vars == <<req, rw, mu, ops, nextId, flag, cflag, auto, act, sup, pend, press, down, err, lost, left>>

Idle == [pc |-> "idle", kind |-> "none", uid |-> 0, id |-> 0]
NoActor == [mode |-> "none", live |-> FALSE, drain |-> FALSE, stop |-> FALSE, stuck |-> FALSE]
structural == {"create", "cleanup", "delete"}

Init ==
    /\ req = [r \in Req |-> Idle] /\ rw = [writer |-> 0, readers |-> {}, waiting |-> {}] /\ mu = 0
    /\ ops = <<>> /\ nextId = 1 /\ flag = [on |-> FALSE, gen |-> 0] /\ cflag = FALSE
    /\ auto \in BOOLEAN /\ act = [u \in Uid |-> NoActor]
    /\ sup = "tick" /\ pend = {} /\ press = 0 /\ down = "no" /\ err = FALSE /\ lost = FALSE
    /\ left = [req |-> MaxReqs]

opVars == <<ops, nextId, flag>>
supVars == <<sup, pend, press, err>>
Registered(u) == act[u].mode # "none"
To(r, pc) == req' = [req EXCEPT ![r].pc = pc]
Drain(u) == [act EXCEPT ![u].drain = TRUE, ![u].stop = TRUE]
DrainAll(S) == [u \in Uid |-> IF u \in S THEN [act[u] EXCEPT !.drain = TRUE, !.stop = TRUE] ELSE act[u]]

-----------------------------------------------------------------------------
\* Operations.

\* operationConflict: a structural operation of the list still runs.
Conflict(list) == \E i \in DOMAIN list : list[i].running /\ list[i].structural

BeginOperationGuarded(s) ==
    /\ LET list == <<[id |-> nextId, structural |-> s, running |-> TRUE]>> \o ops IN
       ops' = SubSeq(list, 1, IF Len(list) < ListMax THEN Len(list) ELSE ListMax)
    /\ nextId' = nextId + 1

CompleteOperation(id) ==
    ops' = [i \in DOMAIN ops |-> IF ops[i].id = id THEN [ops[i] EXCEPT !.running = FALSE] ELSE ops[i]]

\* BeginBackgroundWork, and for the robot commands an operation in the list.
Request(r) ==
    /\ req[r] = Idle /\ down = "no" /\ left.req > 0
    /\ left' = [left EXCEPT !.req = @ - 1]
    /\ \E kind \in Kinds, u \in Uid :
         /\ req' = [req EXCEPT ![r] = [pc |-> "lock", kind |-> kind, uid |-> u,
                                       id |-> IF kind \in structural THEN 0 ELSE nextId]]
         /\ IF kind \in structural
            THEN rw' = [rw EXCEPT !.waiting = @ \cup {r}] /\ UNCHANGED <<ops, nextId>>
            ELSE BeginOperationGuarded(FALSE) /\ UNCHANGED rw
    /\ UNCHANGED <<mu, flag, cflag, auto, act, supVars, down, lost>>

\* beginTrackedStructuralOperation: mutationMu, the guard, beginStructuralOp.
beginTrackedStructuralOperation(r) ==
    /\ req[r].pc = "lock" /\ req[r].kind \in structural
    /\ rw.writer = 0 /\ rw.readers = {}
    /\ IF Conflict(ops)
       THEN /\ req' = [req EXCEPT ![r].pc = "refused"]
            /\ rw' = [rw EXCEPT !.waiting = @ \ {r}] /\ UNCHANGED opVars
       ELSE /\ req' = [req EXCEPT ![r].pc = "body", ![r].id = nextId]
            /\ rw' = [rw EXCEPT !.waiting = @ \ {r}, !.writer = r]
            /\ BeginOperationGuarded(TRUE)
            /\ flag' = [on |-> TRUE, gen |-> flag.gen + 1]
    /\ UNCHANGED <<mu, cflag, auto, act, supVars, down, lost, left>>

\* PrepareDelete: the actors of the robots are stopped.
StopUIDs(u) == act' = IF Registered(u) THEN Drain(u) ELSE act

\* DangerousDelete: SetAutoEnabled(false), which may fail, then PrepareDelete.
DangerousDelete(r) ==
    /\ req[r].pc = "body" /\ req[r].kind = "delete"
    /\ \/ To(r, "gone") /\ auto' = FALSE /\ StopUIDs(req[r].uid)
       \/ To(r, "finish") /\ UNCHANGED <<auto, act>>
    /\ UNCHANGED <<rw, mu, opVars, cflag, supVars, down, lost, left>>

\* cleanupRobots with Force: candidates, then PrepareDelete.
cleanupRobots(r) ==
    /\ req[r].pc = "body" /\ req[r].kind = "cleanup"
    /\ To(r, "gone") /\ StopUIDs(req[r].uid)
    /\ UNCHANGED <<rw, mu, opVars, cflag, auto, supVars, down, lost, left>>

\* StopUIDs has waited for the actor, or for actorStopWait; the rows are RobotData's.
Deleted(r) ==
    /\ req[r].pc = "gone" /\ To(r, "finish")
    /\ UNCHANGED <<rw, mu, opVars, cflag, auto, act, supVars, down, lost, left>>

CreateRobots(r) ==
    /\ req[r].pc = "body" /\ req[r].kind = "create" /\ To(r, "finish")
    /\ UNCHANGED <<rw, mu, opVars, cflag, auto, act, supVars, down, lost, left>>

\* Mutant: the lock is released before the operation is completed.
UnlockFirst == <<"unlock", "complete">>

FinishOrder == <<"complete", "unlock">>

\* The finish function: CompleteOperation, the flag of this generation, mutationMu; it
\* runs whatever became of the operation.
FinishStep(r, what) ==
    IF what = "complete" THEN CompleteOperation(req[r].id) /\ UNCHANGED <<rw, flag>>
    ELSE /\ rw' = [rw EXCEPT !.writer = 0] /\ UNCHANGED ops
         /\ flag' = [flag EXCEPT !.on = FALSE]

Finish(r) ==
    /\ req[r].pc \in {"finish", "finish2"}
    /\ FinishStep(r, FinishOrder[IF req[r].pc = "finish" THEN 1 ELSE 2])
    /\ req' = [req EXCEPT ![r] = IF @.pc = "finish" THEN [@ EXCEPT !.pc = "finish2"] ELSE Idle]
    /\ UNCHANGED <<nextId, mu, cflag, auto, act, supVars, down, lost, left>>

-----------------------------------------------------------------------------
\* Commands.

\* RLock; a waiting writer goes first.
RLock(r) ==
    /\ req[r].pc = "lock" /\ req[r].kind \notin structural
    /\ rw.writer = 0 /\ rw.waiting = {}
    /\ rw' = [rw EXCEPT !.readers = @ \cup {r}] /\ To(r, "prepare")
    /\ UNCHANGED <<mu, opVars, cflag, auto, act, supVars, down, lost, left>>

\* userActorCommandBusy; an actor may also be in a passing state (assigned, online).
userActorCommandBusy(passing) ==
    flag.on \/ cflag \/ \E u \in Uid : act[u].drain \/ (passing /\ Registered(u))

\* prepareUserActorCommand: a uid without an actor gets one only with automatic actions off.
prepareUserActorCommand(r) ==
    /\ req[r].pc = "prepare"
    /\ \E passing \in BOOLEAN :
         To(r, IF userActorCommandBusy(passing) THEN "leave"
               ELSE IF Registered(req[r].uid) THEN "command"
               ELSE IF auto THEN "leave" ELSE "container")
    /\ UNCHANGED <<rw, mu, opVars, cflag, auto, act, supVars, down, lost, left>>

beginActorContainerOp(r) ==
    /\ req[r].pc = "container" /\ mu = 0
    /\ mu' = r /\ cflag' = TRUE /\ To(r, "attach")
    /\ UNCHANGED <<rw, opVars, auto, act, supVars, down, lost, left>>

\* AttachUID: ReserveManualActor, AssignAndWait; without an answer the actor is drained.
AttachUID(r) ==
    /\ req[r].pc = "attach" /\ mu' = 0 /\ cflag' = FALSE
    /\ LET u == req[r].uid IN
       \E ok, stuck \in BOOLEAN :
         /\ stuck => "stuck" \in Env
         /\ IF Registered(u) THEN act' = act /\ ok
            ELSE act' = [act EXCEPT ![u] = [mode |-> "manual", live |-> TRUE, drain |-> ~ok,
                                            stop |-> ~ok, stuck |-> stuck]]
         /\ To(r, IF ok THEN "command" ELSE "leave")
    /\ UNCHANGED <<rw, opVars, auto, supVars, down, lost, left>>

\* Command, LogoutUID.
Command(r) ==
    /\ req[r].pc = "command" /\ To(r, "leave")
    /\ LET u == req[r].uid IN
       act' = IF req[r].kind = "logout" /\ act[u].mode = "manual" THEN Drain(u) ELSE act
    /\ UNCHANGED <<rw, mu, opVars, cflag, auto, supVars, down, lost, left>>

\* RUnlock, CompleteOperation, the end of the background work.
Leave(r) ==
    /\ req[r].pc = "leave" /\ CompleteOperation(req[r].id)
    /\ rw' = [rw EXCEPT !.readers = @ \ {r}] /\ req' = [req EXCEPT ![r] = Idle]
    /\ UNCHANGED <<nextId, flag, mu, cflag, auto, act, supVars, down, lost, left>>

SetAutoEnabled(on) ==
    /\ "auto" \in Env /\ auto # on /\ down = "no" /\ auto' = on
    /\ UNCHANGED <<req, rw, mu, opVars, cflag, act, supVars, down, lost, left>>

-----------------------------------------------------------------------------
\* Actors.

ActorExits(u) ==
    /\ act[u].live /\ act[u].stop /\ ~act[u].stuck
    /\ act' = [act EXCEPT ![u].live = FALSE]
    /\ UNCHANGED <<req, rw, mu, opVars, cflag, auto, supVars, down, lost, left>>

\* A position of a robot that is online goes to the batcher.
SavePosition(u) ==
    /\ act[u].live /\ down \in {"ok", "err"} /\ lost' = TRUE
    /\ UNCHANGED <<req, rw, mu, opVars, cflag, auto, act, supVars, down, left>>

-----------------------------------------------------------------------------
\* The supervisor.

Reaped == [u \in Uid |-> IF act[u].drain /\ ~act[u].live THEN NoActor ELSE act[u]]

\* A tick: reap; automatic actions off: all automatic actors are stopped under
\* actorMutationMu; a structural operation: nothing; else the slots are filled.
Tick ==
    /\ sup = "tick" /\ Reaped # act /\ act' = Reaped
    /\ UNCHANGED <<req, rw, mu, opVars, cflag, auto, supVars, down, lost, left>>

Autos == {u \in Uid : act[u].mode = "auto" /\ ~act[u].drain}

ConvergeBegins ==
    /\ sup = "tick" /\ ~auto /\ Autos # {} /\ mu = 0
    /\ mu' = -1 /\ cflag' = TRUE /\ sup' = "converge" /\ act' = DrainAll(Autos)
    /\ UNCHANGED <<req, rw, opVars, auto, pend, press, err, down, lost, left>>

\* stopAutoActors waits for them, but not for ever.
ConvergeEnds ==
    /\ sup = "converge" /\ mu' = 0 /\ cflag' = FALSE /\ sup' = "tick"
    /\ UNCHANGED <<req, rw, opVars, auto, act, pend, press, err, down, lost, left>>

\* The guard has passed; the rest of the tick goes on with what it read.
Guarded ==
    /\ sup = "tick" /\ auto /\ ~flag.on /\ sup' = "maintain"
    /\ UNCHANGED <<req, rw, mu, opVars, cflag, auto, act, pend, press, err, down, lost, left>>

\* AdoptManualActors, ensureAutoActorSlots, assignIdleAutoActors; stopSomeAutoActors
\* starts the pressure worker.
Maintain ==
    /\ sup = "maintain" /\ sup' = "tick"
    /\ \E stuck \in BOOLEAN :
         /\ stuck => "stuck" \in Env
         /\ act' = [u \in Uid |-> IF ~Registered(u)
                                  THEN [NoActor EXCEPT !.mode = "auto", !.live = TRUE, !.stuck = stuck]
                                  ELSE [act[u] EXCEPT !.mode = "auto"]]
    /\ UNCHANGED <<req, rw, mu, opVars, cflag, auto, pend, press, err, down, lost, left>>

PressureBegins(u) ==
    /\ "pressure" \in Env /\ sup = "maintain" /\ press = 0 /\ u \in Autos
    /\ press' = u /\ act' = Drain(u) /\ sup' = "tick"
    /\ UNCHANGED <<req, rw, mu, opVars, cflag, auto, pend, err, down, lost, left>>

PressureEnds ==
    /\ press # 0 /\ press' = 0
    /\ act' = IF act[press].live THEN act ELSE [act EXCEPT ![press] = NoActor]
    /\ UNCHANGED <<req, rw, mu, opVars, cflag, auto, sup, pend, err, down, lost, left>>

-----------------------------------------------------------------------------
\* Shutdown.

\* Mutant: the background work is told to end and not waited for.
WorkGoesOn == TRUE

WorkDone == \A r \in Req : req[r].pc \in {"idle", "refused"}

\* stopAndWaitBackgroundWork
Shutdown ==
    /\ down = "no" /\ down' = "work"
    /\ UNCHANGED <<req, rw, mu, opVars, cflag, auto, act, supVars, lost, left>>

\* stopAutoActions closes the supervisor's stop channel.
stopAutoActions ==
    /\ down = "work" /\ WorkDone
    /\ down' = "auto" /\ auto' = FALSE
    /\ UNCHANGED <<req, rw, mu, opVars, cflag, act, supVars, lost, left>>

\* shutdownActors: BeginDrainAllActors, requestActorStops.
shutdownActors ==
    /\ sup = "tick" /\ down = "auto"
    /\ LET all == {u \in Uid : Registered(u)} IN act' = DrainAll(all) /\ pend' = all
    /\ sup' = "grace"
    /\ UNCHANGED <<req, rw, mu, opVars, cflag, auto, press, err, down, lost, left>>

Pending == {u \in pend : act[u].live}

\* waitForDrainingActorsUntil, twice; in between the forced close.
forceCloseActors ==
    /\ sup = "grace"
    /\ pend' = Pending
    /\ act' = [u \in Uid |-> IF u \in Pending THEN [Reaped[u] EXCEPT !.stuck = FALSE] ELSE Reaped[u]]
    /\ sup' = "deadline"
    /\ UNCHANGED <<req, rw, mu, opVars, cflag, auto, press, err, down, lost, left>>

\* Mutant: what is left after the deadline is not an error.
NoError == FALSE

TimedOut == Pending # {} \/ press # 0

Deadline ==
    /\ sup = "deadline" /\ sup' = "done" /\ err' = TimedOut /\ act' = Reaped
    /\ UNCHANGED <<req, rw, mu, opVars, cflag, auto, pend, press, down, lost, left>>

\* stoppedResult looks again; then the store points and the position writer are closed.
stoppedResult ==
    /\ sup = "done" /\ down = "auto"
    /\ act' = Reaped
    /\ LET bad == err /\ ~(press = 0 /\ \A u \in Uid : Reaped[u] = NoActor) IN
       err' = bad /\ down' = IF bad THEN "err" ELSE "ok"
    /\ UNCHANGED <<req, rw, mu, opVars, cflag, auto, sup, pend, press, lost, left>>

Supervise ==
    \/ Tick \/ ConvergeBegins \/ ConvergeEnds \/ Guarded \/ Maintain
    \/ (\E u \in Uid : PressureBegins(u)) \/ PressureEnds
    \/ shutdownActors \/ forceCloseActors \/ Deadline \/ stoppedResult

Next ==
    \/ \E r \in Req :
         \/ Request(r) \/ beginTrackedStructuralOperation(r) \/ DangerousDelete(r) \/ cleanupRobots(r) \/ Deleted(r)
         \/ CreateRobots(r) \/ Finish(r) \/ RLock(r) \/ prepareUserActorCommand(r)
         \/ beginActorContainerOp(r) \/ AttachUID(r) \/ Command(r) \/ Leave(r)
    \/ \E on \in BOOLEAN : SetAutoEnabled(on)
    \/ \E u \in Uid : ActorExits(u) \/ SavePosition(u)
    \/ Supervise \/ Shutdown \/ stopAutoActions

Spec == Init /\ [][Next]_vars

-----------------------------------------------------------------------------
\* Properties.

\* A structural operation waits for the one before it and is never refused: no entry
\* of the list still says that one runs when mutationMu is free, and what has left the
\* list of the last ListMax matters to nobody (beginTrackedStructuralOperation).
NeverRefused == \A r \in Req : req[r].pc # "refused"

\* A shutdown that reports no error has ended every actor and the pressure worker
\* before the position writer was closed, also those of a request that was attaching
\* a robot when it began (Shutdown, shutdownActors, stoppedResult).
ShutdownCleans ==
    down = "ok" => press = 0 /\ ~lost /\ \A u \in Uid : ~act[u].live

\* Both together.
ManagerSafe == NeverRefused /\ ShutdownCleans
=============================================================================
