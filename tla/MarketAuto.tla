----------------------------- MODULE MarketAuto -----------------------------
(***************************************************************************)
(* marketapp.App: the automatic market loop, the jobs that list items, the *)
(* commands that switch the loop on and off or clear the listings, and the *)
(* watcher that reloads the configuration file.                            *)
(*                                                                         *)
(* autoMu protects auto and loop, jobMu the configuration and a job's run, *)
(* serviceMu the market services.  A step below is what one goroutine does *)
(* while it holds autoMu or stateMu; jobMu and serviceMu are held over     *)
(* several steps.  One market stands for the two, one item for the stock.  *)
(***************************************************************************)
EXTENDS Naturals, FiniteSets

CONSTANTS Client,      \* TCP connections, a goroutine each
          Ops,         \* the commands they give
          Watcher, Rebuilder, Free,   \* other goroutines; no goroutine
          MaxCommands, MaxEdits, MaxLoops  \* bounds; MaxLoops stops nothing

ASSUME MarketAssumption ==
    /\ MaxCommands \in Nat /\ MaxEdits \in Nat
    /\ MaxLoops \in Nat /\ MaxLoops >= 2 * (MaxCommands + MaxEdits) + 2
    /\ Ops \subseteq {"start", "stop", "update", "clear", "sync", "rebuild",
                      "manual", "shutdown"}
    /\ Free \notin Client \cup (1..MaxLoops) \cup {Watcher, Rebuilder}
    /\ Watcher \notin Client \cup (1..MaxLoops) \cup {Rebuilder}
    /\ Rebuilder \notin Client \cup (1..MaxLoops) /\ Client \cap (1..MaxLoops) = {}

VARIABLES
    cfg,        \* the configuration in memory
    file,       \* the one on disk, with a version for its stamp
    watch,      \* where the file watcher is, and the stamp it observed last
    auto,       \* autoRun, autoStop, autoRestart, autoShutdown, autoDone
    loop,       \* every autoLoop goroutine: where it is, is its ctx cancelled
    job,        \* where the job of each owner is
    jobMu, serviceMu,
    db,         \* dbGeneration, dbInitOK, dbInit, dbRetryAt
    ensuring,   \* the generation and databases EnsureMarketTables works for
    stock,      \* a system owner has something listed
    wiped,      \* history: the stock was cleared with the loop stopped
    cl,         \* where each client's command is
    rebuild,    \* the background rebuild, rebuildRunning when not "idle"
    main,       \* "run", or where App.Shutdown is
    given       \* commands and edits so far

loopVars == <<auto, loop>>
lockVars == <<jobMu, serviceMu>>
dbVars == <<db, ensuring>>
stockVars == <<stock, wiped>>
vars == <<cfg, file, watch, loopVars, job, lockVars, dbVars, stockVars,
          cl, rebuild, main, given>>

Loops == 1..MaxLoops
Databases == {"d1", "d2"}
Config == [enabled : BOOLEAN, schedule : 0..1, db : Databases]
Owner == Loops \cup Client \cup {Rebuilder}

LoopPC == {"none", "boot", "delay", "tables", "ensure", "game", "services",
           "serving", "collect", "restock", "rest", "exit", "ended"}
\* What a client, the watcher and the rebuild do next.
CmdPC == {"idle", "config", "startauto", "stopauto", "reconcile", "restart",
          "ifstop", "lock", "delete", "service", "serving", "resume", "job",
          "tables", "ensure", "wait", "finish", "read"}
Cmd(op, pc, prev, next) == [op |-> op, pc |-> pc, prev |-> prev, next |-> next]
Nothing == [enabled |-> FALSE, schedule |-> 0, db |-> "d1"]
IdleCmd == Cmd("none", "idle", Nothing, Nothing)

Live(l) == loop[l].pc \notin {"none", "ended"}

\* New, with the loop that cmd/robot starts when the configuration says so.
Init ==
    /\ cfg \in {c \in Config : c.schedule = 0 /\ c.db = "d1"}
    /\ file = [c |-> cfg, valid |-> TRUE, version |-> 0]
    /\ watch = [pc |-> "idle", stamp |-> 0, seen |-> 0, prev |-> Nothing, next |-> Nothing]
    /\ auto = [run |-> cfg.enabled, stop |-> FALSE, restart |-> FALSE,
               shutdown |-> FALSE, done |-> IF cfg.enabled THEN 1 ELSE 0]
    /\ loop = [l \in Loops |-> [pc |-> IF l = 1 /\ cfg.enabled THEN "boot" ELSE "none",
                                cancelled |-> FALSE]]
    /\ job = [o \in Owner |-> "idle"]
    /\ jobMu = Free /\ serviceMu = Free
    /\ \/ db = [gen |-> 1, ok |-> TRUE, init |-> cfg.db, retry |-> FALSE]
       \/ db = [gen |-> 1, ok |-> FALSE, init |-> "none", retry |-> TRUE]
    /\ ensuring = [o \in Owner \cup {Watcher} |-> [gen |-> 0, db |-> "none"]]
    /\ stock \in BOOLEAN /\ wiped = FALSE
    /\ cl = [c \in Client |-> IdleCmd]
    /\ rebuild = [pc |-> "idle", was |-> FALSE, done |-> 0]
    /\ main = "run"
    /\ given = [commands |-> 0, edits |-> 0]

-----------------------------------------------------------------------------
(* Starting and stopping the loop.  Each takes autoMu once.                *)

\* startAutoLocked, on the state a and l.
Started(a, l) ==
    [a |-> [a EXCEPT !.run = TRUE, !.stop = FALSE, !.restart = FALSE, !.done = @ + 1],
     l |-> [l EXCEPT ![a.done + 1] = [pc |-> "boot", cancelled |-> FALSE]]]

Cancelled(a, l) ==
    [a |-> [a EXCEPT !.stop = TRUE],
     l |-> IF a.stop THEN l ELSE [l EXCEPT ![a.done].cancelled = TRUE]]

\* Within the bound, which MarketAssumption makes large enough.
Become(s) == s.a.done <= MaxLoops /\ auto' = s.a /\ loop' = s.l

\* Mutants: a loop that is stopping is no obstacle; a shutdown is none.
MayStartStopping == (~auto.run \/ auto.stop) /\ ~auto.shutdown
MayStartShutdown == ~auto.run

MayStart == ~auto.run /\ ~auto.shutdown
StartAuto ==
    IF MayStart THEN Become(Started(auto, loop)) /\ wiped' = FALSE
                ELSE UNCHANGED <<loopVars, wiped>>

StopAuto ==
    LET a == [auto EXCEPT !.restart = FALSE] IN
    Become(IF auto.run THEN Cancelled(a, loop) ELSE [a |-> a, l |-> loop])

RestartAuto ==
    \/ auto.shutdown /\ UNCHANGED <<loopVars, wiped>>
    \/ /\ ~auto.shutdown /\ ~auto.run
       /\ Become(Started(auto, loop)) /\ wiped' = FALSE
    \/ /\ ~auto.shutdown /\ auto.run
       /\ Become(Cancelled([auto EXCEPT !.restart = TRUE], loop))
       /\ UNCHANGED wiped

\* finishAutoLoop, the loop's deferred call.
FinishAutoLoop(l) ==
    /\ loop[l].pc = "exit"
    /\ LET ended == [loop EXCEPT ![l].pc = "ended"]
           a == [auto EXCEPT !.run = FALSE, !.stop = FALSE, !.restart = FALSE]
           again == auto.restart /\ ~auto.shutdown
       IN IF auto.done # l THEN Become([a |-> auto, l |-> ended]) /\ UNCHANGED wiped
          ELSE IF again THEN Become(Started(a, ended)) /\ wiped' = FALSE
          ELSE Become([a |-> a, l |-> ended]) /\ UNCHANGED wiped
    /\ UNCHANGED <<cfg, file, watch, job, lockVars, dbVars, stock, cl, rebuild, main, given>>

-----------------------------------------------------------------------------
(* Jobs: restockOnce and collectOnce, under the context of their owner.    *)

\* Mutants: a job has only the lifecycle context; only the loop's own.
CtxErrLifecycle(o) == auto.shutdown
CtxErrLoop(o) == o \in Loops /\ loop[o].cancelled

\* ctx.Err() of a loop's context, or of the lifecycle context it descends from.
CtxErr(o) == auto.shutdown \/ (o \in Loops /\ loop[o].cancelled)

Collects(o) == o \in Loops /\ loop[o].pc = "collect"

jobRest == <<cfg, file, watch, loopVars, dbVars, cl, rebuild, main, given>>

JobCheck(o) ==
    /\ job[o] = "check"
    /\ job' = [job EXCEPT ![o] = IF CtxErr(o) THEN "end" ELSE "lock"]
    /\ UNCHANGED <<jobRest, lockVars, stockVars>>

\* TryLock: a market job that finds another one running reports busy.
JobLock(o) ==
    /\ job[o] = "lock"
    /\ IF jobMu = Free
       THEN /\ jobMu' = o
            /\ job' = [job EXCEPT ![o] = "plan"]
            /\ wiped' = (wiped /\ o \in Loops)
       ELSE job' = [job EXCEPT ![o] = "end"] /\ UNCHANGED <<jobMu, wiped>>
    /\ UNCHANGED <<jobRest, serviceMu, stock>>

EndJob(o) == job' = [job EXCEPT ![o] = "end"] /\ jobMu' = Free

\* Plan fails, or the context is cancelled by the time it is made, or the
\* actions are executed.
JobPlan(o) ==
    /\ job[o] = "plan"
    /\ \/ EndJob(o)
       \/ ~CtxErr(o) /\ job' = [job EXCEPT ![o] = "execute"] /\ UNCHANGED jobMu
    /\ UNCHANGED <<jobRest, serviceMu, stockVars>>

\* A worker of executeActions takes a task: it and Execute look at the context, and
\* neither does so again before the request is sent.
JobTake(o) ==
    /\ job[o] = "execute" /\ ~CtxErr(o)
    /\ job' = [job EXCEPT ![o] = "listing"]
    /\ UNCHANGED <<jobRest, lockVars, stockVars>>

\* The request of a restock lists the item, or fails; that of a collector buys.
JobList(o) ==
    /\ job[o] = "listing"
    /\ job' = [job EXCEPT ![o] = "execute"]
    /\ stock' \in {stock, stock \/ ~Collects(o)}
    /\ UNCHANGED <<jobRest, lockVars, wiped>>

\* The actions are done, failed or cancelled.
JobEnd(o) ==
    /\ job[o] = "execute"
    /\ EndJob(o)
    /\ UNCHANGED <<jobRest, serviceMu, stockVars>>

\* reconcileCeraRejects and reconcileCeraLanding: nothing that was listed is
\* in the database, and the service is restarted while jobMu is held.
JobNeedsRestart(o) ==
    /\ job[o] = "execute" /\ ~Collects(o)
    /\ job' = [job EXCEPT ![o] = "await"]
    /\ UNCHANGED <<jobRest, lockVars, stockVars>>

JobRestart(o) ==
    /\ job[o] = "await" /\ serviceMu = Free
    /\ serviceMu' = o
    /\ job' = [job EXCEPT ![o] = "restart"]
    /\ UNCHANGED <<jobRest, jobMu, stockVars>>

JobRestarted(o) ==
    /\ job[o] = "restart"
    /\ serviceMu' = Free
    /\ EndJob(o)
    /\ UNCHANGED <<jobRest, stockVars>>

Job(o) ==
    \/ JobCheck(o) \/ JobLock(o) \/ JobPlan(o) \/ JobTake(o) \/ JobList(o) \/ JobEnd(o)
    \/ JobNeedsRestart(o) \/ JobRestart(o) \/ JobRestarted(o)

-----------------------------------------------------------------------------
(* ensureMarketTables, by the loop or by a reload.                         *)

\* It is skipped when it succeeded, or failed less than a minute ago.
EnsureDue == ~db.ok /\ ~db.retry

EnsureBegin(o) ==
    /\ db' = [db EXCEPT !.retry = TRUE]
    /\ ensuring' = [ensuring EXCEPT ![o] = [gen |-> db.gen, db |-> cfg.db]]

\* Mutant: the generation is not compared.
StillCurrentAlways(o) == TRUE

\* Its result counts only if the databases are still the same.
StillCurrent(o) == ensuring[o].gen = db.gen
EnsureEnd(o) ==
    /\ \/ ~StillCurrent(o) /\ UNCHANGED db
       \/ /\ StillCurrent(o)
          /\ \E ok \in BOOLEAN :
             db' = [db EXCEPT !.ok = ok, !.init = IF ok THEN ensuring[o].db ELSE "none",
                              !.retry = IF ok THEN FALSE ELSE @]
    /\ ensuring' = [ensuring EXCEPT ![o] = [gen |-> 0, db |-> "none"]]

\* marketTableRetryInterval passes.
RetryDue ==
    /\ db.retry
    /\ db' = [db EXCEPT !.retry = FALSE]
    /\ UNCHANGED <<cfg, file, watch, loopVars, job, lockVars, ensuring, stockVars,
                   cl, rebuild, main, given>>

-----------------------------------------------------------------------------
(* autoLoop and runAutoOnce.                                               *)

Goto(l, pc) == loop' = [loop EXCEPT ![l].pc = pc]
loopRest == <<cfg, file, watch, auto, stockVars, cl, rebuild, main, given>>

\* Mutant: whoever starts the loop is trusted to have read it.
LoopBootTrusting(l) ==
    /\ loop[l].pc = "boot"
    /\ Goto(l, "delay")
    /\ UNCHANGED <<loopRest, job, lockVars, dbVars>>

\* The configuration is read once, when the goroutine starts.
LoopBoot(l) ==
    /\ loop[l].pc = "boot"
    /\ Goto(l, IF cfg.enabled THEN "delay" ELSE "exit")
    /\ UNCHANGED <<loopRest, job, lockVars, dbVars>>

\* The timer of InitialDelayMS or IntervalMS fires, or the context is done;
\* when both hold the select takes either.
LoopTick(l) ==
    /\ loop[l].pc \in {"delay", "rest"}
    /\ Goto(l, "tables")
    /\ UNCHANGED <<loopRest, job, lockVars, dbVars>>

LoopDone(l) ==
    /\ loop[l].pc \in {"delay", "rest"} /\ CtxErr(l)
    /\ Goto(l, "exit")
    /\ UNCHANGED <<loopRest, job, lockVars, dbVars>>

LoopTables(l) ==
    /\ loop[l].pc = "tables"
    /\ IF EnsureDue THEN EnsureBegin(l) /\ Goto(l, "ensure")
                    ELSE Goto(l, "game") /\ UNCHANGED dbVars
    /\ UNCHANGED <<loopRest, job, lockVars>>

LoopEnsure(l) ==
    /\ loop[l].pc = "ensure"
    /\ EnsureEnd(l)
    /\ Goto(l, "game")
    /\ UNCHANGED <<loopRest, job, lockVars>>

\* The game server is down, or the market services are ensured.
LoopGame(l) ==
    /\ loop[l].pc = "game"
    /\ Goto(l, "rest") \/ Goto(l, "services")
    /\ UNCHANGED <<loopRest, job, lockVars, dbVars>>

LoopServices(l) ==
    /\ loop[l].pc = "services" /\ serviceMu = Free
    /\ serviceMu' = l
    /\ Goto(l, "serving")
    /\ UNCHANGED <<loopRest, job, jobMu, dbVars>>

\* The service is not ready; or it is, and the collector is on or off.
LoopServed(l) ==
    /\ loop[l].pc = "serving"
    /\ serviceMu' = Free
    /\ \/ Goto(l, "rest") /\ UNCHANGED job
       \/ \E next \in {"collect", "restock"} :
            Goto(l, next) /\ job' = [job EXCEPT ![l] = "check"]
    /\ UNCHANGED <<loopRest, jobMu, dbVars>>

LoopJobEnds(l) ==
    /\ loop[l].pc \in {"collect", "restock"} /\ job[l] = "end"
    /\ IF Collects(l) THEN Goto(l, "restock") /\ job' = [job EXCEPT ![l] = "check"]
                      ELSE Goto(l, "rest") /\ job' = [job EXCEPT ![l] = "idle"]
    /\ UNCHANGED <<loopRest, lockVars, dbVars>>

AutoLoop(l) ==
    \/ LoopBoot(l) \/ LoopTick(l) \/ LoopDone(l) \/ LoopTables(l)
    \/ LoopEnsure(l) \/ LoopGame(l) \/ LoopServices(l) \/ LoopServed(l) \/ LoopJobEnds(l) \/ FinishAutoLoop(l)
    \/ Job(l)

-----------------------------------------------------------------------------
(* Steps that commands, reloads and the rebuild share.                     *)

\* reconcileAutoRuntime, with its AutoRunning call.
ReconcilePC(prev, next) ==
    CASE ~next.enabled -> "stopauto"
      [] next.enabled /\ ~prev.enabled -> "restart"
      [] next.enabled /\ prev.enabled /\ ~auto.run -> "startauto"
      [] next.enabled /\ prev.enabled /\ auto.run ->
            IF prev.schedule # next.schedule THEN "restart" ELSE "idle"

SwitchAuto(pc) ==
    \/ pc = "startauto" /\ StartAuto
    \/ pc = "stopauto" /\ StopAuto /\ UNCHANGED wiped
    \/ pc = "restart" /\ RestartAuto

\* AutoRunning and StopAutoAsync.
IfRunningStop == IF auto.run THEN StopAuto ELSE UNCHANGED loopVars

\* writeMarketConfig and setConfig, when the databases stay the same.
WriteConfig(c) ==
    /\ cfg' = c
    /\ file' = [c |-> c, valid |-> TRUE, version |-> file.version + 1]

\* clearSystemMarketStockLocked succeeds; the loop is not about to refill.
DeleteStock ==
    /\ stock' = FALSE
    /\ wiped' = \A l \in Loops : Live(l) => loop[l].cancelled

\* It fails, in one of its databases.
DeleteFails == stock' \in {stock, FALSE} /\ UNCHANGED wiped

-----------------------------------------------------------------------------
(* Commands.                                                               *)

clRest == <<watch, db, ensuring, rebuild, main>>
Put(c, cmd) == cl' = [cl EXCEPT ![c] = cmd]
Move(c, pc) == Put(c, IF pc = "idle" THEN IdleCmd ELSE [cl[c] EXCEPT !.pc = pc])

FirstPC(op) ==
    CASE op \in {"start", "stop", "update"} -> {"config"}
      [] op = "clear" -> {"ifstop"}
      [] op = "sync" -> {"ifstop", "resume"}   \* the export may fail
      [] op = "manual" -> {"job"}

Give(c) ==
    /\ main = "run" /\ cl[c].pc = "idle" /\ given.commands < MaxCommands
    /\ given' = [given EXCEPT !.commands = @ + 1]
    /\ \E op \in Ops \ {"rebuild", "shutdown"} :
       /\ \E pc \in FirstPC(op) : Put(c, Cmd(op, pc, Nothing, Nothing))
       /\ job' = IF op = "manual" THEN [job EXCEPT ![c] = "check"] ELSE job
    /\ UNCHANGED <<clRest, cfg, file, loopVars, lockVars, stockVars>>

\* SetAutoEnabled and UpdateConfig, under jobMu; the file may not be writable.
GiveConfig(c) ==
    LET enabled == CASE cl[c].op = "start" -> {TRUE} [] cl[c].op = "stop" -> {FALSE}
                     [] cl[c].op = "update" -> BOOLEAN
        schedule == IF cl[c].op = "update" THEN 0..1 ELSE {cfg.schedule}
        pc == CASE cl[c].op = "start" -> "startauto" [] cl[c].op = "stop" -> "stopauto"
                [] cl[c].op = "update" -> "reconcile"
    IN
    /\ cl[c].pc = "config" /\ jobMu = Free
    /\ \/ Move(c, "idle") /\ UNCHANGED <<cfg, file>>
       \/ \E e \in enabled, s \in schedule :
          LET next == [cfg EXCEPT !.enabled = e, !.schedule = s] IN
          /\ WriteConfig(next)
          /\ Put(c, Cmd(cl[c].op, pc, cfg, next))
    /\ UNCHANGED <<clRest, loopVars, job, lockVars, stockVars, given>>

GiveReconcile(c) ==
    /\ cl[c].pc = "reconcile"
    /\ Move(c, ReconcilePC(cl[c].prev, cl[c].next))
    /\ UNCHANGED <<clRest, cfg, file, loopVars, job, lockVars, stockVars, given>>

GiveSwitch(c) ==
    /\ SwitchAuto(cl[c].pc)
    /\ Move(c, "idle")
    /\ UNCHANGED <<clRest, cfg, file, job, lockVars, stock, given>>

GiveStop(c) ==
    /\ cl[c].pc = "ifstop"
    /\ IfRunningStop
    /\ Move(c, "lock")
    /\ UNCHANGED <<clRest, cfg, file, job, lockVars, stockVars, given>>

GiveLock(c) ==
    /\ cl[c].pc = "lock" /\ jobMu = Free
    /\ jobMu' = c
    /\ Move(c, "delete")
    /\ UNCHANGED <<clRest, cfg, file, loopVars, job, serviceMu, stockVars, given>>

GiveDelete(c) ==
    /\ cl[c].pc = "delete"
    /\ jobMu' = Free
    /\ \/ DeleteStock /\ Move(c, IF cl[c].op = "clear" THEN "idle" ELSE "service")
       \/ DeleteFails /\ Move(c, IF cl[c].op = "clear" THEN "idle" ELSE "resume")
    /\ UNCHANGED <<clRest, cfg, file, loopVars, job, serviceMu, given>>

\* The ItemInfo file is copied and the services are restarted.
GiveService(c) ==
    /\ cl[c].pc = "service"
    /\ \/ serviceMu = Free /\ serviceMu' = c /\ Move(c, "serving")
       \/ Move(c, "resume") /\ UNCHANGED serviceMu
    /\ UNCHANGED <<clRest, cfg, file, loopVars, job, jobMu, stockVars, given>>

GiveServed(c) ==
    /\ cl[c].pc = "serving"
    /\ serviceMu' = Free
    /\ Move(c, "resume")
    /\ UNCHANGED <<clRest, cfg, file, loopVars, job, jobMu, stockVars, given>>

\* startAutoIfEnabled, the deferred call of SyncItemInfoDAT.
GiveResume(c) ==
    /\ cl[c].pc = "resume"
    /\ Move(c, IF cfg.enabled THEN "startauto" ELSE "idle")
    /\ UNCHANGED <<clRest, cfg, file, loopVars, job, lockVars, stockVars, given>>

GiveJobEnds(c) ==
    /\ cl[c].pc = "job" /\ job[c] = "end"
    /\ job' = [job EXCEPT ![c] = "idle"]
    /\ Move(c, "idle")
    /\ UNCHANGED <<clRest, cfg, file, loopVars, lockVars, stockVars, given>>

Handler(c) ==
    \/ GiveConfig(c) \/ GiveReconcile(c) \/ GiveSwitch(c) \/ GiveStop(c) \/ GiveLock(c)
    \/ GiveDelete(c) \/ GiveService(c) \/ GiveServed(c) \/ GiveResume(c)
    \/ GiveJobEnds(c) \/ Job(c)

-----------------------------------------------------------------------------
(* StartListingConfigRebuild and its background goroutine.                 *)

rbRest == <<watch, dbVars, cl, main>>
Next1(pc) == rebuild' = [rebuild EXCEPT !.pc = pc]

\* A second rebuild finds rebuildRunning set and reports busy.
RebuildStart ==
    /\ "rebuild" \in Ops /\ main = "run" /\ rebuild.pc = "idle"
    /\ given.commands < MaxCommands
    /\ given' = [given EXCEPT !.commands = @ + 1]
    /\ rebuild' = [pc |-> "ifstop", was |-> FALSE, done |-> 0]
    /\ UNCHANGED <<rbRest, cfg, file, loopVars, job, lockVars, stockVars>>

\* No ItemInfo is deployed; or the loop is stopped if it runs.
RebuildIfStop ==
    /\ rebuild.pc = "ifstop"
    /\ \/ Next1("finish")
       \/ rebuild' = [pc |-> IF auto.run THEN "stopauto" ELSE "lock",
                      was |-> auto.run, done |-> 0]
    /\ UNCHANGED <<rbRest, cfg, file, loopVars, job, lockVars, stockVars, given>>

\* StopAuto waits for the loop it stopped.
RebuildStop ==
    /\ rebuild.pc = "stopauto"
    /\ StopAuto
    /\ rebuild' = [rebuild EXCEPT !.pc = IF auto.run THEN "wait" ELSE "lock", !.done = auto.done]
    /\ UNCHANGED <<rbRest, cfg, file, job, lockVars, stockVars, given>>

RebuildWait ==
    /\ rebuild.pc = "wait" /\ loop[rebuild.done].pc = "ended"
    /\ Next1("lock")
    /\ UNCHANGED <<rbRest, cfg, file, loopVars, job, lockVars, stockVars, given>>

RebuildLock ==
    /\ rebuild.pc = "lock" /\ jobMu = Free
    /\ jobMu' = Rebuilder
    /\ Next1("delete")
    /\ UNCHANGED <<rbRest, cfg, file, loopVars, job, serviceMu, stockVars, given>>

\* The listing settings are written, which leaves the automatic ones as they
\* are in memory, and the stock is cleared; either may fail.
RebuildClear ==
    /\ rebuild.pc = "delete"
    /\ jobMu' = Free
    /\ \/ Next1("finish") /\ UNCHANGED <<cfg, file, stockVars>>
       \/ WriteConfig(cfg) /\ DeleteStock /\ Next1("service")
       \/ WriteConfig(cfg) /\ DeleteFails /\ Next1("finish")
    /\ UNCHANGED <<rbRest, loopVars, job, serviceMu, given>>

RebuildService ==
    /\ rebuild.pc = "service" /\ serviceMu = Free
    /\ serviceMu' = Rebuilder
    /\ Next1("serving")
    /\ UNCHANGED <<rbRest, cfg, file, loopVars, job, jobMu, stockVars, given>>

RebuildServed ==
    /\ rebuild.pc = "serving"
    /\ serviceMu' = Free
    /\ \/ Next1("finish") /\ UNCHANGED job
       \/ Next1("job") /\ job' = [job EXCEPT ![Rebuilder] = "check"]
    /\ UNCHANGED <<rbRest, cfg, file, loopVars, jobMu, stockVars, given>>

RebuildJobEnds ==
    /\ rebuild.pc = "job" /\ job[Rebuilder] = "end"
    /\ job' = [job EXCEPT ![Rebuilder] = "idle"]
    /\ Next1("finish")
    /\ UNCHANGED <<rbRest, cfg, file, loopVars, lockVars, stockVars, given>>

\* The deferred StartAuto, if the rebuild found the loop running.
RebuildFinish ==
    /\ rebuild.pc = "finish"
    /\ IF rebuild.was THEN StartAuto ELSE UNCHANGED <<loopVars, wiped>>
    /\ rebuild' = [pc |-> "idle", was |-> FALSE, done |-> 0]
    /\ UNCHANGED <<rbRest, cfg, file, job, lockVars, stock, given>>

Rebuild ==
    \/ RebuildIfStop \/ RebuildStop \/ RebuildWait \/ RebuildLock \/ RebuildClear
    \/ RebuildService \/ RebuildServed \/ RebuildJobEnds \/ RebuildFinish
    \/ Job(Rebuilder)

-----------------------------------------------------------------------------
(* The file watcher and reloadMarketConfigFile.                            *)

wRest == <<cl, rebuild, main, given, job, serviceMu, stock>>
Watch(pc) == watch' = [watch EXCEPT !.pc = pc]

\* Somebody edits the file; it may not parse.
EditFile ==
    /\ main = "run" /\ given.edits < MaxEdits
    /\ given' = [given EXCEPT !.edits = @ + 1]
    /\ \E c \in Config, v \in BOOLEAN :
         file' = [c |-> c, valid |-> v, version |-> file.version + 1]
    /\ UNCHANGED <<cfg, watch, loopVars, job, lockVars, dbVars, stockVars, cl, rebuild, main>>

\* check: the stamp is taken before the content is read.
WatchStat ==
    /\ watch.pc = "idle" /\ watch.stamp # file.version
    /\ watch' = [watch EXCEPT !.pc = "read", !.seen = file.version]
    /\ UNCHANGED <<wRest, cfg, file, loopVars, jobMu, dbVars, wiped>>

WatchRead ==
    /\ watch.pc = "read"
    /\ watch' = IF file.valid THEN [watch EXCEPT !.pc = "lock", !.next = file.c]
                              ELSE [watch EXCEPT !.pc = "idle"]
    /\ UNCHANGED <<wRest, cfg, file, loopVars, jobMu, dbVars, wiped>>

\* setConfig: new databases make a new generation, and are prepared at once.
WatchConfig ==
    /\ watch.pc = "lock" /\ jobMu = Free
    /\ cfg' = watch.next
    /\ IF cfg.db # watch.next.db
       THEN /\ db' = [gen |-> db.gen + 1, ok |-> FALSE, init |-> "none", retry |-> FALSE]
            /\ jobMu' = Watcher
            /\ watch' = [watch EXCEPT !.pc = "tables", !.prev = cfg]
       ELSE /\ watch' = [watch EXCEPT !.pc = "reconcile", !.prev = cfg]
            /\ UNCHANGED <<db, jobMu>>
    /\ UNCHANGED <<wRest, file, loopVars, ensuring, wiped>>

WatchTables ==
    /\ watch.pc = "tables"
    /\ IF EnsureDue THEN EnsureBegin(Watcher) /\ Watch("ensure") /\ UNCHANGED jobMu
                    ELSE jobMu' = Free /\ Watch("reconcile") /\ UNCHANGED dbVars
    /\ UNCHANGED <<wRest, cfg, file, loopVars, wiped>>

WatchEnsure ==
    /\ watch.pc = "ensure"
    /\ EnsureEnd(Watcher)
    /\ jobMu' = Free
    /\ Watch("reconcile")
    /\ UNCHANGED <<wRest, cfg, file, loopVars, wiped>>

\* Mutant: the stamp is taken after Apply.
WatchDoneLate == watch' = [watch EXCEPT !.pc = "idle", !.stamp = file.version, !.seen = 0,
                                        !.prev = Nothing, !.next = Nothing]

\* Apply returns, and the stamp of before is the one observed.
WatchDone == watch' = [watch EXCEPT !.pc = "idle", !.stamp = watch.seen, !.seen = 0,
                                    !.prev = Nothing, !.next = Nothing]

WatchReconcile ==
    /\ watch.pc = "reconcile"
    /\ LET pc == ReconcilePC(watch.prev, watch.next)
       IN IF pc = "idle" THEN WatchDone ELSE Watch(pc)
    /\ UNCHANGED <<wRest, cfg, file, loopVars, jobMu, dbVars, wiped>>

WatchSwitch ==
    /\ SwitchAuto(watch.pc)
    /\ WatchDone
    /\ UNCHANGED <<wRest, cfg, file, jobMu, dbVars>>

Reload ==
    \/ WatchStat \/ WatchRead \/ WatchConfig \/ WatchTables \/ WatchEnsure
    \/ WatchReconcile \/ WatchSwitch

-----------------------------------------------------------------------------
(* App.Shutdown, after the TCP server is closed and its handlers are done; *)
(* the watcher and a rebuild may still be at work.                         *)

ShutdownBegin ==
    /\ "shutdown" \in Ops /\ main = "run"
    /\ \A c \in Client : cl[c].pc = "idle"
    /\ main' = IF auto.run THEN "wait" ELSE "closed"
    /\ LET a == [auto EXCEPT !.shutdown = TRUE, !.restart = FALSE]
       IN Become(IF auto.run THEN Cancelled(a, loop) ELSE [a |-> a, l |-> loop])
    /\ UNCHANGED <<cfg, file, watch, job, lockVars, dbVars, stockVars, cl, rebuild, given>>

ShutdownEnd ==
    /\ main = "wait" /\ loop[auto.done].pc = "ended"
    /\ main' = "closed"
    /\ UNCHANGED <<cfg, file, watch, loopVars, job, lockVars, dbVars, stockVars, cl, rebuild, given>>

Next ==
    \/ \E l \in Loops : AutoLoop(l)
    \/ \E c \in Client : Give(c) \/ Handler(c)
    \/ RebuildStart \/ Rebuild
    \/ EditFile \/ Reload \/ RetryDue
    \/ ShutdownBegin \/ ShutdownEnd

Spec == Init /\ [][Next]_vars

-----------------------------------------------------------------------------
(* Properties.                                                             *)

\* Every variable has its type, and each mutex is held by somebody who will
\* release it.
TypeOK ==
    /\ cfg \in Config
    /\ file \in [c : Config, valid : BOOLEAN, version : Nat]
    /\ watch \in [pc : CmdPC, stamp : Nat, seen : Nat, prev : Config, next : Config]
    /\ auto \in [run : BOOLEAN, stop : BOOLEAN, restart : BOOLEAN, shutdown : BOOLEAN,
                 done : 0..MaxLoops]
    /\ loop \in [Loops -> [pc : LoopPC, cancelled : BOOLEAN]]
    /\ job \in [Owner -> {"idle", "check", "lock", "plan", "execute", "listing", "await",
                       "restart", "end"}]
    /\ jobMu \in {Free, Watcher} \cup Owner
    /\ serviceMu \in {Free} \cup Owner
    /\ db \in [gen : Nat, ok : BOOLEAN, init : Databases \cup {"none"}, retry : BOOLEAN]
    /\ ensuring \in [Owner \cup {Watcher} -> [gen : Nat, db : Databases \cup {"none"}]]
    /\ stock \in BOOLEAN /\ wiped \in BOOLEAN
    /\ cl \in [Client -> [op : Ops \cup {"none"}, pc : CmdPC, prev : Config, next : Config]]
    /\ rebuild \in [pc : CmdPC, was : BOOLEAN, done : 0..MaxLoops]
    /\ main \in {"run", "wait", "closed"}
    /\ \A o \in Owner : (jobMu = o) <=>
          \/ job[o] \in {"plan", "execute", "listing", "await", "restart"}
          \/ o \in Client /\ cl[o].pc = "delete"
          \/ o = Rebuilder /\ rebuild.pc = "delete"

\* However starts, stops, restarts and reloads overlap, at most one market
\* loop is alive (autoRun, autoDone and finishAutoLoop).
OneLoop == Cardinality({l \in Loops : Live(l)}) <= 1

\* Nobody is about to switch the loop.
Quiet == /\ \A c \in Client : cl[c].pc = "idle"
         /\ watch.pc = "idle" /\ rebuild.pc = "idle"

\* When the commands are done and the configuration says disabled, no loop
\* goes on: it is cancelled, or has still to read the configuration.
DisabledStops ==
    Quiet /\ ~cfg.enabled =>
        \A l \in Loops : Live(l) => \/ loop[l].pc \in {"boot", "exit"}
                                    \/ loop[l].cancelled \/ auto.shutdown

\* Stock that was cleared with the loop stopped stays cleared until a loop is
\* started or a job is asked for: a cycle that was under way lists nothing.
ClearedStays == wiped => ~stock

\* dbInitOK speaks of the databases that are configured now, however slow an
\* earlier preparation was.
TablesMatch == db.ok => db.init = cfg.db

\* When Shutdown has returned no loop is alive.
ShutdownQuiesces == main = "closed" => \A l \in Loops : ~Live(l)

\* When Shutdown has returned, no job of a loop or of a connection is under way, and
\* what may still reach the market is the one listing that a rebuild, which Shutdown
\* does not wait for, had on its way: when that is done nothing is listed any more.
ShutdownSettles ==
    [][main = "closed" =>
         /\ \A o \in Owner \ {Rebuilder} : job[o] = "idle"
         /\ stock' /\ ~stock => job[Rebuilder] = "listing"
         /\ job'[Rebuilder] = "listing" => job[Rebuilder] = "listing"]_vars

\* When the watcher has taken note of the last change, the configuration in
\* memory is the one in the file, although a reload may publish a content that
\* a command has already replaced.
FileWins == Quiet /\ watch.stamp = file.version /\ file.valid => cfg = file.c

\* However starts, stops, restarts, reloads and a shutdown overlap, the loop obeys:
\* at most one is alive; when the commands are done and the configuration says
\* disabled, none goes on; when Shutdown has returned, none is alive.
LoopObeys == OneLoop /\ DisabledStops /\ ShutdownQuiesces

\* Nothing that was replaced comes back: stock that was cleared with the loop
\* stopped stays cleared, dbInitOK speaks of the databases configured now, and the
\* configuration is that of the file once the watcher has taken note of it.
ReplacedStaysOut == ClearedStays /\ TablesMatch /\ FileWins

\* When the commands are done and reloaded and the configuration says enabled,
\* a loop runs that nobody has stopped, or that will be restarted.
EnabledRuns ==
    Quiet /\ watch.stamp = file.version /\ cfg.enabled /\ ~auto.shutdown =>
        auto.run /\ (~auto.stop \/ auto.restart)
=============================================================================
