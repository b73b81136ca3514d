----------------------------- MODULE MCProgress -----------------------------
(***************************************************************************)
(* What must happen in the end: to a session that waits for its connection *)
(* (Sessions) and to an actor that was told to stop (ActorPool).  `part'   *)
(* says which of the two is at work; the other one rests.                  *)
(***************************************************************************)
EXTENDS Sessions

CONSTANTS Uid, Slot, Client, Sup, Pressure, CtrlCap, ScaleUpBatch, MaxTarget

VARIABLES
    part,
    \* of ActorPool
    actors, lease, draining, blocked, quarantine, created, exited, quarantined,
    uid, manual, releasing, stopped, ctrls, cmds, apc, current, active, pc, job, reply,
    drain, plan, todo

poolVars == <<actors, lease, draining, blocked, quarantine, created, exited, quarantined,
              uid, manual, releasing, stopped, ctrls, cmds, apc, current, active, pc, job, reply,
              drain, plan, todo>>

Pool == INSTANCE ActorPool WITH cur <- current, Faults <- {}

MCInit == Init /\ Pool!Init /\ part \in {"sessions", "pool"}

MCNext ==
    \/ part = "sessions" /\ Next /\ UNCHANGED <<part, poolVars>>
    \/ part = "pool" /\ Pool!Next /\ UNCHANGED <<part, vars>>

\* ActorPool's Fairness, while the pool is at work.
PoolFairness ==
    /\ \A a \in Slot :
         /\ SF_poolVars(part = "pool" /\ Pool!TakeControl(a))
         /\ SF_poolVars(part = "pool" /\ Pool!TakeStop(a))
         /\ WF_poolVars(part = "pool" /\ Pool!ReleaseEnds(a))
         /\ WF_poolVars(part = "pool" /\ Pool!CloseEnds(a))
    /\ \A p \in Pool!Caller : WF_poolVars(part = "pool" /\ (Pool!Send(p) \/ Pool!GaveUp(p)))
    /\ \A p \in Pool!Drainer : WF_poolVars(part = "pool" /\ Pool!DrainStep(p))
    /\ WF_poolVars(part = "pool" /\ Pool!SupStep)

\* Nothing that Sessions' Fairness speaks of is enabled in its initial state.
MCSpec ==
    /\ MCInit /\ [][MCNext]_<<part, vars, poolVars>>
    /\ PoolFairness /\ Fairness

\* RequestStop, releaseCurrentUIDUntilClosed, tick: an actor that was told to
\* stop leaves the pool, whoever is waiting for it; the supervisor's tick reaps
\* what a drain deadline left behind.
StoppedIsReaped == Pool!StoppedIsReaped
=============================================================================
