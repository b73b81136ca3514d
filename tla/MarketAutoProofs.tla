--------------------------- MODULE MarketAutoProofs ---------------------------
(***************************************************************************)
(* The market loop, for any number of connections, commands and edits of   *)
(* the file: one loop at most, and it obeys; what was replaced stays out.  *)
(*                                                                         *)
(* The argument.  Every loop before autoDone's has ended and none after it *)
(* has begun, so autoRun says whether autoDone's is alive and autoStop     *)
(* whether it is cancelled.  Whoever disables the market is pending until  *)
(* it has stopped the loop, and a loop that boots later reads the          *)
(* configuration itself.  A loop lists only in a job of its own, under     *)
(* jobMu, which the deletion of the stock holds too.  The generation tells *)
(* an old preparation of the tables, the stamp an old reading of the file. *)
(***************************************************************************)
EXTENDS MarketAuto, FiniteSetTheorems, TLAPS

\* autoRun, autoStop, autoDone and the goroutines.
LoopInv ==
    /\ \A l \in Loops : /\ l < auto.done => loop[l].pc = "ended"
                        /\ l > auto.done <=> loop[l].pc = "none"
    /\ auto.run => auto.done \in Loops /\ Live(auto.done)
    /\ ~auto.run => ~auto.stop /\ \A l \in Loops : ~Live(l)
    /\ auto.stop => loop[auto.done].cancelled

\* A job runs while its owner waits for it; the watcher prepares the tables
\* under jobMu; three commands write the configuration.
JobInv ==
    /\ \A l \in Loops : job[l] # "idle" => loop[l].pc \in {"collect", "restock"}
    /\ \A c \in Client : job[c] # "idle" => cl[c].pc = "job"
    /\ job[Rebuilder] # "idle" => rebuild.pc = "job"
    /\ watch.pc \in {"tables", "ensure"} => jobMu = Watcher
    /\ \A c \in Client : cl[c].pc = "config" => cl[c].op \in {"start", "stop", "update"}

\* Somebody has disabled the market and will stop the loop.
StopPending ==
    \/ \E c \in Client : cl[c].pc = "stopauto" \/ (cl[c].pc = "reconcile" /\ ~cl[c].next.enabled)
    \/ watch.pc = "stopauto"
    \/ watch.pc \in {"tables", "ensure", "reconcile"} /\ ~watch.next.enabled
StopInv ==
    ~cfg.enabled /\ ~auto.shutdown /\ ~StopPending =>
        \A l \in Loops : Live(l) => loop[l].pc \in {"boot", "exit"} \/ loop[l].cancelled

DownInv ==
    /\ main # "run" => auto.shutdown
    /\ main = "wait" => auto.done \in Loops
    /\ main = "closed" => ~auto.run

ClearInv ==
    wiped => /\ ~stock
             /\ \A l \in Loops : Live(l) => loop[l].cancelled
             /\ \A o \in Owner \ Loops : job[o] \notin {"plan", "execute", "listing", "await", "restart"}
             /\ \A o \in Owner : job[o] # "listing"

\* A preparation of the tables that is still current is for cfg's databases.
DbInv ==
    /\ db.gen >= 1 /\ (db.ok => db.init = cfg.db)
    /\ \A o \in Owner \cup {Watcher} :
          /\ ensuring[o].gen <= db.gen
          /\ ensuring[o].gen = db.gen => ensuring[o].db = cfg.db

\* What the watcher has read, and then published, of a file that is unchanged.
FileInv ==
    /\ watch.stamp <= file.version
    /\ watch.pc = "idle" /\ watch.stamp = file.version /\ file.valid => cfg = file.c
    /\ watch.pc # "idle" => watch.stamp < watch.seen /\ watch.seen <= file.version
    /\ watch.pc = "lock" /\ watch.seen = file.version => watch.next = file.c
    /\ watch.pc \notin {"idle", "read", "lock"} /\ watch.seen = file.version => cfg = file.c

MarketInv == TypeOK /\ LoopInv /\ JobInv /\ StopInv /\ DownInv /\ ClearInv /\ DbInv /\ FileInv

USE MarketAssumption

-----------------------------------------------------------------------------
(* Starting and stopping.                                                  *)

AutoType == [run : BOOLEAN, stop : BOOLEAN, restart : BOOLEAN, shutdown : BOOLEAN, done : 0..MaxLoops]
LoopType == [Loops -> [pc : LoopPC, cancelled : BOOLEAN]]

\* What switching does to the loops: each goes on, perhaps cancelled, or ends, or
\* a new one boots, and then nothing counts as wiped.
Steered ==
    /\ auto' \in AutoType /\ loop' \in LoopType /\ LoopInv'
    /\ auto'.shutdown = auto.shutdown /\ auto'.done >= auto.done
    /\ auto.shutdown /\ ~auto.run => ~auto'.run
    /\ wiped' \in BOOLEAN /\ (wiped' => wiped)
    /\ \A l \in Loops : \/ loop'[l].pc = loop[l].pc /\ (loop[l].cancelled => loop'[l].cancelled)
                        \/ loop[l].pc = "none" /\ loop'[l].pc = "boot" /\ ~wiped'
                        \/ loop[l].pc = "exit" /\ loop'[l].pc = "ended"

LEMMA Types ==
    ASSUME TypeOK
    PROVE  /\ auto \in AutoType /\ loop \in LoopType
           /\ auto.run \in BOOLEAN /\ auto.stop \in BOOLEAN /\ auto.restart \in BOOLEAN /\ auto.shutdown \in BOOLEAN
           /\ auto.done \in 0..MaxLoops /\ auto.done \in Nat
           /\ \A l \in Loops : loop[l].pc \in LoopPC /\ loop[l].cancelled \in BOOLEAN
BY DEF TypeOK, AutoType, LoopType

LEMMA StartedOK ==
    ASSUME TypeOK, LoopInv, ~auto.run, ~auto.shutdown, wiped' = FALSE, Become(Started(auto, loop))
    PROVE  Steered
<1> DEFINE n == auto.done + 1
<1>1. /\ auto' = [auto EXCEPT !.run = TRUE, !.stop = FALSE, !.restart = FALSE, !.done = n]
      /\ loop' = [loop EXCEPT ![n] = [pc |-> "boot", cancelled |-> FALSE]]
      /\ auto'.done <= MaxLoops
  BY DEF Become, Started
<1>2. /\ auto' \in AutoType /\ auto'.run = TRUE /\ auto'.stop = FALSE /\ auto'.done = n
      /\ auto'.shutdown = auto.shutdown /\ n \in Loops
  <2>1. auto \in AutoType BY Types
  <2>2. auto'.done = n BY <1>1, <2>1 DEF AutoType
  <2>3. n \in 1..MaxLoops /\ n \in 0..MaxLoops BY <1>1, <2>2, Types
  <2> QED BY <1>1, <2>1, <2>2, <2>3 DEF AutoType, Loops
<1>3. /\ loop' \in LoopType /\ loop'[n] = [pc |-> "boot", cancelled |-> FALSE]
      /\ \A l \in Loops : l # n => loop'[l] = loop[l]
  BY <1>1, <1>2, Types DEF LoopType, LoopPC
<1>4. loop[n].pc = "none" BY <1>2, Types DEF LoopInv, Loops
<1>5. LoopInv'
  <2>1. \A l \in Loops : l \in Nat /\ (l < n <=> l <= auto.done) /\ (l > n => l > auto.done)
    BY Types DEF Loops
  <2>2. \A l \in Loops : l <= auto.done => loop[l].pc = "ended" BY <2>1, Types DEF LoopInv, Live
  <2>3. \A l \in Loops : l < n => loop'[l].pc = "ended" BY <1>3, <2>1, <2>2
  <2>4. \A l \in Loops : l > n <=> loop'[l].pc = "none"
    <3>1. \A l \in Loops : l > n => loop'[l].pc = "none" BY <1>3, <2>1, Types DEF LoopInv, Loops
    <3>2. \A l \in Loops : l # n /\ ~(l > n) => l < n BY <1>2, <2>1 DEF Loops
    <3> QED BY <1>3, <2>3, <3>1, <3>2
  <2> QED BY <1>2, <1>3, <2>3, <2>4 DEF LoopInv, Live
<1>6. \A l \in Loops : l = n \/ loop'[l] = loop[l] BY <1>3
<1>7. auto'.done >= auto.done BY <1>2, Types
<1>8. wiped' \in BOOLEAN /\ ~wiped' OBVIOUS
<1> QED BY <1>2, <1>3, <1>4, <1>5, <1>6, <1>7, <1>8 DEF Steered

\* A loop that runs is cancelled.
LEMMA CancelledOK ==
    ASSUME TypeOK, LoopInv, auto.run, UNCHANGED wiped, NEW r \in BOOLEAN, NEW d \in BOOLEAN,
           Become(Cancelled([auto EXCEPT !.restart = r, !.shutdown = d], loop))
    PROVE  /\ auto' = [auto EXCEPT !.restart = r, !.shutdown = d, !.stop = TRUE]
           /\ auto' \in AutoType /\ loop' \in LoopType /\ LoopInv'
           /\ \A l \in Loops : loop'[l].pc = loop[l].pc /\ (loop[l].cancelled => loop'[l].cancelled)
           /\ \A l \in Loops : Live(l) => loop'[l].cancelled
<1> DEFINE n == auto.done
           a == [auto EXCEPT !.restart = r, !.shutdown = d]
<1>0. auto \in AutoType /\ loop \in LoopType /\ n \in Loops BY Types DEF LoopInv
<1>1. /\ a \in AutoType /\ a.stop = auto.stop /\ a.done = n /\ a.run BY <1>0 DEF AutoType
<1>2. /\ auto' = [a EXCEPT !.stop = TRUE]
      /\ loop' = IF auto.stop THEN loop ELSE [loop EXCEPT ![n].cancelled = TRUE]
  BY <1>1 DEF Become, Cancelled
<1>3. auto' = [auto EXCEPT !.restart = r, !.shutdown = d, !.stop = TRUE] BY <1>2, <1>0 DEF AutoType
<1>4. auto' \in AutoType /\ auto'.run = TRUE /\ auto'.stop = TRUE /\ auto'.done = n BY <1>0, <1>3 DEF AutoType
<1>5. /\ loop' \in LoopType /\ loop'[n].cancelled
      /\ \A l \in Loops : loop'[l].pc = loop[l].pc /\ (loop[l].cancelled => loop'[l].cancelled)
  <2>1. CASE auto.stop BY <1>0, <1>2, <2>1 DEF LoopInv
  <2>2. CASE ~auto.stop BY <1>0, <1>2, <2>2 DEF LoopType
  <2> QED BY <2>1, <2>2
<1>6. \A l \in Loops : Live(l) => l = n
  <2>1. \A l \in Loops : l \in Nat BY DEF Loops
  <2>2. \A l \in Loops : ~(l < n) /\ ~(l > n) => l = n BY <1>0, <2>1
  <2> QED BY <2>2 DEF LoopInv, Live
<1>7. LoopInv' BY <1>0, <1>4, <1>5 DEF LoopInv, Live
<1> QED BY <1>3, <1>4, <1>5, <1>6, <1>7

\* StartAuto, StopAuto and RestartAuto steer the loop; StopAuto leaves none
\* that is alive and not cancelled.
LEMMA StartAutoOK == ASSUME TypeOK, LoopInv, StartAuto PROVE Steered
<1>1. CASE MayStart BY <1>1, StartedOK DEF StartAuto, MayStart
<1>2. CASE ~MayStart
  <2>1. auto' = auto /\ loop' = loop /\ wiped' = wiped BY <1>2 DEF StartAuto, loopVars
  <2>2. wiped' \in BOOLEAN BY <2>1 DEF TypeOK
  <2>3. LoopInv' BY <2>1 DEF LoopInv, Live
  <2> QED BY <2>1, <2>2, <2>3, Types DEF Steered
<1> QED BY <1>1, <1>2

LEMMA StopAutoOK ==
    ASSUME TypeOK, LoopInv, StopAuto, UNCHANGED wiped
    PROVE  Steered /\ \A l \in Loops : Live(l)' => loop'[l].cancelled
<1>0. auto \in AutoType /\ wiped' \in BOOLEAN BY Types DEF TypeOK
<1>1. CASE auto.run
  <2>1. [auto EXCEPT !.restart = FALSE] = [auto EXCEPT !.restart = FALSE, !.shutdown = auto.shutdown]
    BY <1>0 DEF AutoType
  <2>2. Become(Cancelled([auto EXCEPT !.restart = FALSE, !.shutdown = auto.shutdown], loop))
    BY <1>1, <2>1 DEF StopAuto
  <2>3. auto.shutdown \in BOOLEAN /\ FALSE \in BOOLEAN BY Types
  <2>4. /\ auto' = [auto EXCEPT !.restart = FALSE, !.shutdown = auto.shutdown, !.stop = TRUE]
        /\ auto' \in AutoType /\ loop' \in LoopType /\ LoopInv'
        /\ \A l \in Loops : loop'[l].pc = loop[l].pc /\ (loop[l].cancelled => loop'[l].cancelled)
        /\ \A l \in Loops : Live(l) => loop'[l].cancelled
    BY <1>1, <2>2, <2>3, CancelledOK
  <2>5. auto'.shutdown = auto.shutdown /\ auto'.done >= auto.done BY <1>0, <2>4, Types DEF AutoType
  <2> QED BY <1>0, <1>1, <2>4, <2>5 DEF Steered, Live
<1>2. CASE ~auto.run
  <2>1. auto' = [auto EXCEPT !.restart = FALSE] /\ loop' = loop BY <1>2 DEF StopAuto, Become
  <2>2. /\ auto' \in AutoType /\ auto'.run = auto.run /\ auto'.stop = auto.stop /\ auto'.done = auto.done
        /\ auto'.shutdown = auto.shutdown
    BY <1>0, <2>1 DEF AutoType
  <2>3. LoopInv' BY <2>1, <2>2 DEF LoopInv, Live
  <2>4. auto'.done >= auto.done BY <2>2, Types
  <2> QED BY <1>0, <1>2, <2>1, <2>2, <2>3, <2>4, Types DEF Steered, LoopInv, Live
<1> QED BY <1>1, <1>2, Types

LEMMA RestartAutoOK == ASSUME TypeOK, LoopInv, RestartAuto PROVE Steered
<1>0. auto \in AutoType /\ wiped \in BOOLEAN BY Types DEF TypeOK
<1>1. CASE auto.shutdown /\ UNCHANGED <<loopVars, wiped>>
  <2>1. auto' = auto /\ loop' = loop /\ wiped' = wiped BY <1>1 DEF loopVars
  <2>3. LoopInv' BY <2>1 DEF LoopInv, Live
  <2> QED BY <1>0, <2>1, <2>3, Types DEF Steered
<1>2. CASE ~auto.shutdown /\ ~auto.run /\ Become(Started(auto, loop)) /\ wiped' = FALSE BY <1>2, StartedOK
<1>3. CASE /\ ~auto.shutdown /\ auto.run
           /\ Become(Cancelled([auto EXCEPT !.restart = TRUE], loop)) /\ UNCHANGED wiped
  <2>1. [auto EXCEPT !.restart = TRUE] = [auto EXCEPT !.restart = TRUE, !.shutdown = auto.shutdown]
    BY <1>0 DEF AutoType
  <2>2. Become(Cancelled([auto EXCEPT !.restart = TRUE, !.shutdown = auto.shutdown], loop))
    BY <1>3, <2>1
  <2>3. auto.shutdown \in BOOLEAN /\ TRUE \in BOOLEAN BY Types
  <2>4. /\ auto' = [auto EXCEPT !.restart = TRUE, !.shutdown = auto.shutdown, !.stop = TRUE]
        /\ auto' \in AutoType /\ loop' \in LoopType /\ LoopInv'
        /\ \A l \in Loops : loop'[l].pc = loop[l].pc /\ (loop[l].cancelled => loop'[l].cancelled)
    BY <1>3, <2>2, <2>3, CancelledOK
  <2>5. auto'.shutdown = auto.shutdown /\ auto'.done >= auto.done BY <1>0, <2>4, Types DEF AutoType
  <2> QED BY <1>0, <1>3, <2>4, <2>5 DEF Steered
<1> QED BY <1>1, <1>2, <1>3 DEF RestartAuto

LEMMA SwitchAutoOK ==
    ASSUME TypeOK, LoopInv, NEW pc, SwitchAuto(pc)
    PROVE  Steered /\ (pc = "stopauto" => \A l \in Loops : Live(l)' => loop'[l].cancelled)
BY StartAutoOK, StopAutoOK, RestartAutoOK DEF SwitchAuto

-----------------------------------------------------------------------------
(* What each part of the invariant depends on.                             *)

\* A part holds still while what it speaks of does.
LEMMA LoopFrame == ASSUME LoopInv, UNCHANGED <<auto, loop>> PROVE LoopInv'
BY DEF LoopInv, Live

LEMMA StopFrame == ASSUME StopInv, UNCHANGED <<cfg, auto, loop, cl, watch>> PROVE StopInv'
BY DEF StopInv, StopPending, Live

LEMMA DownFrame == ASSUME DownInv, UNCHANGED <<main, auto>> PROVE DownInv'
BY DEF DownInv

LEMMA ClearFrame == ASSUME ClearInv, UNCHANGED <<wiped, stock, loop, job>> PROVE ClearInv'
BY DEF ClearInv, Live

LEMMA DbFrame == ASSUME DbInv, UNCHANGED <<db, ensuring, cfg>> PROVE DbInv'
BY DEF DbInv

LEMMA FileFrame == ASSUME FileInv, UNCHANGED <<watch, file, cfg>> PROVE FileInv'
BY DEF FileInv

\* The mutexes: who holds jobMu, and that no two owners do.
JobPC == {"idle", "check", "lock", "plan", "execute", "listing", "await", "restart", "end"}
Inside == {"plan", "execute", "listing", "await", "restart"}
Holds(o) == \/ job[o] \in Inside
            \/ o \in Client /\ cl[o].pc = "delete"
            \/ o = Rebuilder /\ rebuild.pc = "delete"
Held == \A o \in Owner : (jobMu = o) <=> Holds(o)
Locks == jobMu \in {Free, Watcher} \cup Owner /\ serviceMu \in {Free} \cup Owner /\ Held

LEMMA HeldFrame == ASSUME Held, UNCHANGED <<jobMu, job, cl, rebuild>> PROVE Held'
BY DEF Held, Holds

LEMMA Distinct ==
    /\ Free \notin Owner /\ Watcher \notin Owner /\ Free # Watcher /\ Rebuilder \in Owner
    /\ Rebuilder \notin Loops /\ Rebuilder \notin Client
    /\ Client \subseteq Owner /\ Loops \subseteq Owner
    /\ \A c \in Client : c \notin Loops
BY DEF Owner, Loops

\* The types of the variables besides the mutexes.
Typed ==
    /\ cfg \in Config
    /\ file \in [c : Config, valid : BOOLEAN, version : Nat]
    /\ watch \in [pc : CmdPC, stamp : Nat, seen : Nat, prev : Config, next : Config]
    /\ auto \in AutoType /\ loop \in LoopType
    /\ job \in [Owner -> JobPC]
    /\ db \in [gen : Nat, ok : BOOLEAN, init : Databases \cup {"none"}, retry : BOOLEAN]
    /\ ensuring \in [Owner \cup {Watcher} -> [gen : Nat, db : Databases \cup {"none"}]]
    /\ stock \in BOOLEAN /\ wiped \in BOOLEAN
    /\ cl \in [Client -> [op : Ops \cup {"none"}, pc : CmdPC, prev : Config, next : Config]]
    /\ rebuild \in [pc : CmdPC, was : BOOLEAN, done : 0..MaxLoops]
    /\ main \in {"run", "wait", "closed"}

LEMMA TypeParts == TypeOK <=> Typed /\ Locks
BY DEF TypeOK, Typed, Locks, Held, Holds, Inside, JobPC, AutoType, LoopType

LEMMA TypePartsNext == TypeOK' <=> Typed' /\ Locks'
BY DEF TypeOK, Typed, Locks, Held, Holds, Inside, JobPC, AutoType, LoopType

\* The parts one by one.
LEMMA Parts ==
    ASSUME MarketInv
    PROVE  /\ TypeOK /\ Typed /\ Locks /\ Held /\ LoopInv /\ JobInv /\ StopInv /\ DownInv
           /\ ClearInv /\ DbInv /\ FileInv
BY TypeParts DEF MarketInv, Locks

-----------------------------------------------------------------------------
(* Jobs.                                                                   *)

\* A job that goes on inside jobMu, or takes or leaves it, keeps its owner's
\* side of the mutex.
LEMMA MoveInside ==
    ASSUME Typed, Locks, JobInv, NEW o \in Owner, NEW pc \in JobPC, job[o] # "idle",
           job' = [job EXCEPT ![o] = pc], UNCHANGED <<cl, rebuild>>,
           \/ UNCHANGED jobMu /\ (job[o] \in Inside <=> pc \in Inside)
           \/ jobMu = Free /\ jobMu' = o /\ pc \in Inside
           \/ job[o] \in Inside /\ jobMu' = Free /\ pc \notin Inside
    PROVE  /\ job' \in [Owner -> JobPC] /\ job'[o] = pc /\ \A x \in Owner : x # o => job'[x] = job[x]
           /\ Held' /\ jobMu' \in {Free, Watcher} \cup Owner
           /\ (jobMu = Watcher => jobMu' = Watcher)
<1>1. /\ job' \in [Owner -> JobPC] /\ job'[o] = pc /\ \A x \in Owner : x # o => job'[x] = job[x]
  BY DEF Typed
<1>2. Held /\ jobMu \in {Free, Watcher} \cup Owner BY DEF Locks
<1>3. ~(o \in Client /\ cl[o].pc = "delete") /\ ~(o = Rebuilder /\ rebuild.pc = "delete")
  BY DEF JobInv
<1>4. Holds(o) <=> job[o] \in Inside BY <1>3 DEF Holds
<1>5. Holds(o)' <=> pc \in Inside BY <1>1, <1>3 DEF Holds
<1>6. \A x \in Owner : x # o => (Holds(x)' <=> Holds(x)) BY <1>1 DEF Holds
<1>7. CASE UNCHANGED jobMu /\ (job[o] \in Inside <=> pc \in Inside)
  BY <1>1, <1>2, <1>4, <1>5, <1>6, <1>7 DEF Held
<1>8. CASE jobMu = Free /\ jobMu' = o /\ pc \in Inside
  BY <1>1, <1>2, <1>5, <1>6, <1>8, Distinct DEF Held
<1>9. CASE job[o] \in Inside /\ jobMu' = Free /\ pc \notin Inside
  BY <1>1, <1>2, <1>4, <1>5, <1>6, <1>9, Distinct DEF Held
<1> QED BY <1>7, <1>8, <1>9

\* What a step of a job does to it and to jobMu.
JobStep(o) ==
    /\ job[o] # "idle"
    /\ \E pc \in JobPC :
       /\ job' = [job EXCEPT ![o] = pc] /\ pc # "idle"
       /\ pc = "listing" => ~CtxErr(o)
       /\ \/ UNCHANGED jobMu /\ (job[o] \in Inside <=> pc \in Inside)
          \/ jobMu = Free /\ jobMu' = o /\ pc \in Inside /\ wiped' = (wiped /\ o \in Loops)
          \/ job[o] \in Inside /\ jobMu' = Free /\ pc \notin Inside
    /\ serviceMu' \in {serviceMu, Free, o}
    /\ stock' = stock \/ (job[o] = "listing" /\ stock' \in BOOLEAN)
    /\ wiped' \in BOOLEAN /\ (wiped' => wiped)
    /\ UNCHANGED jobRest

LEMMA JobSteps == ASSUME Typed, NEW o \in Owner, Job(o) PROVE JobStep(o)
<1>0. wiped \in BOOLEAN /\ stock \in BOOLEAN /\ job \in [Owner -> JobPC] BY DEF Typed
<1>1. CASE JobCheck(o)
  BY <1>0, <1>1 DEF JobCheck, JobStep, JobPC, Inside, stockVars, lockVars
<1>2. CASE JobLock(o) BY <1>0, <1>2 DEF JobLock, JobStep, JobPC, Inside
<1>3. CASE JobPlan(o) BY <1>0, <1>3 DEF JobPlan, JobStep, JobPC, Inside, EndJob, stockVars
<1>4. CASE JobTake(o)
  BY <1>0, <1>4 DEF JobTake, JobStep, JobPC, Inside, stockVars, lockVars
<1>4a. CASE JobList(o)
  <2>1. job' = [job EXCEPT ![o] = "execute"] /\ job[o] = "listing" /\ UNCHANGED <<jobMu, serviceMu, wiped, jobRest>>
    BY <1>0, <1>4a DEF JobList, lockVars
  <2>2. stock' \in BOOLEAN BY <1>0, <1>4a DEF JobList
  <2> QED BY <1>0, <2>1, <2>2 DEF JobStep, JobPC, Inside
<1>5. CASE JobEnd(o) BY <1>0, <1>5 DEF JobEnd, JobStep, JobPC, Inside, EndJob, stockVars
<1>6. CASE JobNeedsRestart(o)
  BY <1>0, <1>6 DEF JobNeedsRestart, JobStep, JobPC, Inside, stockVars, lockVars
<1>7. CASE JobRestart(o) BY <1>0, <1>7 DEF JobRestart, JobStep, JobPC, Inside, stockVars
<1>8. CASE JobRestarted(o) BY <1>0, <1>8 DEF JobRestarted, JobStep, JobPC, Inside, EndJob, stockVars
<1> QED BY <1>1, <1>2, <1>3, <1>4, <1>4a, <1>5, <1>6, <1>7, <1>8 DEF Job

LEMMA JobOK == ASSUME MarketInv, NEW o \in Owner, Job(o) PROVE MarketInv'
<1>0. TypeOK /\ Typed /\ Locks /\ Held /\ LoopInv /\ JobInv /\ StopInv /\ DownInv /\ ClearInv /\ DbInv /\ FileInv
  BY Parts
<1>1. JobStep(o) BY <1>0, JobSteps
<1>2. UNCHANGED <<cfg, file, watch, auto, loop, db, ensuring, cl, rebuild, main, given>>
  BY <1>1 DEF JobStep, jobRest, loopVars, dbVars
<1>3. PICK pc \in JobPC :
        /\ job' = [job EXCEPT ![o] = pc] /\ pc # "idle"
        /\ pc = "listing" => ~CtxErr(o)
        /\ \/ UNCHANGED jobMu /\ (job[o] \in Inside <=> pc \in Inside)
           \/ jobMu = Free /\ jobMu' = o /\ pc \in Inside /\ wiped' = (wiped /\ o \in Loops)
           \/ job[o] \in Inside /\ jobMu' = Free /\ pc \notin Inside
  BY <1>1 DEF JobStep
<1>4. job[o] # "idle" /\ serviceMu' \in {serviceMu, Free, o} /\ wiped' \in BOOLEAN /\ (wiped' => wiped)
  BY <1>1 DEF JobStep
<1>5. /\ job' \in [Owner -> JobPC] /\ job'[o] = pc /\ \A x \in Owner : x # o => job'[x] = job[x]
      /\ Held' /\ jobMu' \in {Free, Watcher} \cup Owner
      /\ (jobMu = Watcher => jobMu' = Watcher)
  BY <1>0, <1>2, <1>3, <1>4, MoveInside
<1>6. serviceMu' \in {Free} \cup Owner BY <1>0, <1>4 DEF Locks
<1>7. stock' \in BOOLEAN BY <1>0, <1>1 DEF JobStep, Typed
<1>8. TypeOK'
  <2>1. Locks' BY <1>5, <1>6 DEF Locks
  <2>2. Typed' BY <1>0, <1>2, <1>4, <1>5, <1>7 DEF Typed
  <2> QED BY <2>1, <2>2, TypePartsNext
<1>9. JobInv'
  <2>1. \A x \in Owner : job'[x] # "idle" => job[x] # "idle" BY <1>4, <1>5
  <2> QED BY <1>0, <1>2, <1>5, <2>1, Distinct DEF JobInv
<1>10. ClearInv'
  <2>1. SUFFICES ASSUME wiped'
                 PROVE  /\ ~stock' /\ \A l \in Loops : Live(l)' => loop'[l].cancelled
                        /\ \A x \in Owner \ Loops : job'[x] \notin Inside
                        /\ \A x \in Owner : job'[x] # "listing"
    BY DEF ClearInv, Inside
  <2>2. /\ wiped /\ ~stock /\ \A l \in Loops : Live(l) => loop[l].cancelled
        /\ \A x \in Owner \ Loops : job[x] \notin Inside
        /\ \A x \in Owner : job[x] # "listing"
    BY <1>0, <1>4, <2>1 DEF ClearInv, Inside
  <2>3. \A l \in Loops : Live(l)' => loop'[l].cancelled BY <1>2, <2>2 DEF Live
  <2>4. ~stock' BY <1>1, <2>2 DEF JobStep
  <2>5. \A x \in Owner \ Loops : job'[x] \notin Inside
    BY <1>3, <1>5, <2>1, <2>2
  <2>6. \A x \in Owner : job'[x] # "listing"
    <3>1. CASE o \in Loops
      <4>1. CtxErr(o) BY <1>0, <1>4, <2>2, <3>1 DEF JobInv, Live, CtxErr
      <4> QED BY <1>3, <1>5, <2>2, <4>1
    <3>2. CASE o \notin Loops BY <1>5, <2>2, <2>5, <3>2 DEF Inside
    <3> QED BY <3>1, <3>2
  <2> QED BY <2>3, <2>4, <2>5, <2>6
<1> QED BY <1>0, <1>2, <1>8, <1>9, <1>10, LoopFrame, StopFrame, DownFrame, DbFrame, FileFrame DEF MarketInv

-----------------------------------------------------------------------------
(* The preparation of the tables.                                          *)

DbType == [gen : Nat, ok : BOOLEAN, init : Databases \cup {"none"}, retry : BOOLEAN]
EnsuringType == [Owner \cup {Watcher} -> [gen : Nat, db : Databases \cup {"none"}]]

LEMMA EnsureBeginOK ==
    ASSUME Typed, DbInv, NEW o \in Owner \cup {Watcher}, EnsureBegin(o), UNCHANGED cfg
    PROVE  DbInv' /\ db' \in DbType /\ ensuring' \in EnsuringType
<1>0. /\ db \in DbType /\ ensuring \in EnsuringType /\ cfg.db \in Databases
      /\ db.gen \in Nat
  BY DEF Typed, DbType, EnsuringType, Config
<1>1. /\ db' \in DbType /\ db'.gen = db.gen /\ db'.ok = db.ok /\ db'.init = db.init
  BY <1>0 DEF EnsureBegin, DbType
<1>2. /\ ensuring' \in EnsuringType /\ ensuring'[o] = [gen |-> db.gen, db |-> cfg.db]
      /\ \A x \in Owner \cup {Watcher} : x # o => ensuring'[x] = ensuring[x]
  BY <1>0 DEF EnsureBegin, EnsuringType
<1>3. db.gen <= db.gen BY <1>0
<1>4. /\ ensuring'[o].gen <= db.gen /\ ensuring'[o].db = cfg.db BY <1>2, <1>3
<1> QED BY <1>1, <1>2, <1>4 DEF DbInv

LEMMA EnsureEndOK ==
    ASSUME Typed, DbInv, NEW o \in Owner \cup {Watcher}, EnsureEnd(o), UNCHANGED cfg
    PROVE  DbInv' /\ db' \in DbType /\ ensuring' \in EnsuringType
<1>0. /\ db \in DbType /\ ensuring \in EnsuringType /\ cfg.db \in Databases
      /\ db.gen \in Nat /\ ensuring[o].db \in Databases \cup {"none"}
  BY DEF Typed, DbType, EnsuringType, Config
<1>1. /\ ensuring' \in EnsuringType /\ ensuring'[o] = [gen |-> 0, db |-> "none"]
      /\ \A x \in Owner \cup {Watcher} : x # o => ensuring'[x] = ensuring[x]
  BY <1>0 DEF EnsureEnd, EnsuringType
<1>2. /\ db' \in DbType /\ db'.gen = db.gen /\ (db'.ok => db'.init = cfg.db)
  <2>1. CASE ~StillCurrent(o) /\ UNCHANGED db BY <1>0, <2>1 DEF DbInv
  <2>2. ASSUME StillCurrent(o), NEW ok \in BOOLEAN,
               db' = [db EXCEPT !.ok = ok, !.init = IF ok THEN ensuring[o].db ELSE "none",
                                !.retry = IF ok THEN FALSE ELSE @]
        PROVE  /\ db' \in DbType /\ db'.gen = db.gen /\ (db'.ok => db'.init = cfg.db)
    <3>1. ensuring[o].db = cfg.db BY <2>2 DEF StillCurrent, DbInv
    <3>2. db' \in DbType /\ db'.gen = db.gen /\ db'.ok = ok
      BY <1>0, <2>2 DEF DbType
    <3>3. db'.init = IF ok THEN ensuring[o].db ELSE "none" BY <1>0, <2>2 DEF DbType
    <3> QED BY <3>1, <3>2, <3>3
  <2> QED BY <2>1, <2>2 DEF EnsureEnd
<1>3. ensuring'[o].gen <= db.gen /\ ensuring'[o].gen # db.gen BY <1>0, <1>1 DEF DbInv
<1> QED BY <1>1, <1>2, <1>3 DEF DbInv

LEMMA RetryDueOK == ASSUME MarketInv, RetryDue PROVE MarketInv'
<1>0. TypeOK /\ Typed /\ Locks /\ Held /\ LoopInv /\ JobInv /\ StopInv /\ DownInv /\ ClearInv /\ DbInv /\ FileInv
  BY Parts
<1>1. UNCHANGED <<cfg, file, watch, auto, loop, job, jobMu, serviceMu, ensuring, stock, wiped, cl, rebuild, main>>
  BY DEF RetryDue, loopVars, lockVars, stockVars
<1>2. /\ db' \in DbType /\ db'.gen = db.gen /\ db'.ok = db.ok /\ db'.init = db.init
  BY <1>0 DEF RetryDue, Typed, DbType
<1>3. TypeOK' BY <1>0, <1>1, <1>2, TypePartsNext, HeldFrame DEF Typed, Locks, DbType
<1>4. DbInv' BY <1>0, <1>1, <1>2 DEF DbInv
<1>5. JobInv' BY <1>0, <1>1 DEF JobInv
<1> QED BY <1>0, <1>1, <1>3, <1>4, <1>5, LoopFrame, StopFrame, DownFrame, ClearFrame, FileFrame DEF MarketInv

-----------------------------------------------------------------------------
(* The loop.                                                               *)

\* What a step of a loop does, besides those of its job and its last.
LoopStep(l, pc) ==
    /\ Live(l) /\ loop[l].pc # "exit"
    /\ pc \in LoopPC \ {"none", "ended"} /\ Goto(l, pc)
    /\ loop[l].pc = "boot" => cfg.enabled \/ pc = "exit"
    /\ \/ UNCHANGED job /\ loop[l].pc \notin {"collect", "restock"}
       \/ /\ job[l] \notin Inside
          /\ \E j \in {"check", "idle"} : /\ job' = [job EXCEPT ![l] = j]
                                          /\ j = "check" => pc \in {"collect", "restock"}
    /\ serviceMu' \in {serviceMu, Free, l}
    /\ DbInv' /\ db' \in DbType /\ ensuring' \in EnsuringType
    /\ UNCHANGED <<loopRest, jobMu>>

LEMMA GotoOK ==
    ASSUME TypeOK, LoopInv, NEW l \in Loops, Live(l), NEW pc \in LoopPC \ {"none", "ended"},
           Goto(l, pc), UNCHANGED auto
    PROVE  /\ LoopInv' /\ loop' \in LoopType
           /\ loop'[l].pc = pc /\ loop'[l].cancelled = loop[l].cancelled
           /\ \A k \in Loops : k # l => loop'[k] = loop[k]
           /\ \A k \in Loops : Live(k)' <=> Live(k)
<1>1. loop \in LoopType BY Types
<1>2. /\ loop' \in LoopType /\ loop'[l].pc = pc /\ loop'[l].cancelled = loop[l].cancelled
      /\ \A k \in Loops : k # l => loop'[k] = loop[k]
  BY <1>1 DEF Goto, LoopType
<1>3. \A k \in Loops : Live(k)' <=> Live(k) BY <1>2 DEF Live
<1>4. \A k \in Loops : loop'[k].pc = "ended" <=> loop[k].pc = "ended" BY <1>2 DEF Live
<1>5. \A k \in Loops : loop'[k].pc = "none" <=> loop[k].pc = "none" BY <1>2 DEF Live
<1>6. \A k \in Loops : loop'[k].cancelled = loop[k].cancelled BY <1>2
<1>7. auto.stop => auto.done \in Loops BY Types DEF LoopInv
<1>8. LoopInv'
  <2>1. \A k \in Loops : /\ k < auto.done => loop'[k].pc = "ended"
                         /\ k > auto.done <=> loop'[k].pc = "none"
    BY <1>4, <1>5 DEF LoopInv
  <2>2. auto.run => auto.done \in Loops /\ Live(auto.done)' BY <1>3 DEF LoopInv, Live
  <2>3. ~auto.run => ~auto.stop /\ \A k \in Loops : ~Live(k)' BY <1>3 DEF LoopInv
  <2>4. auto.stop => loop'[auto.done].cancelled BY <1>6, <1>7 DEF LoopInv
  <2> QED BY <2>1, <2>2, <2>3, <2>4 DEF LoopInv, Live
<1> QED BY <1>2, <1>3, <1>8

LEMMA LoopStepOK == ASSUME MarketInv, NEW l \in Loops, NEW pc, LoopStep(l, pc) PROVE MarketInv'
<1>0. TypeOK /\ Typed /\ Locks /\ Held /\ LoopInv /\ JobInv /\ StopInv /\ DownInv /\ ClearInv /\ DbInv /\ FileInv
  BY Parts
<1>1. UNCHANGED <<cfg, file, watch, auto, stock, wiped, cl, rebuild, main, jobMu>>
  BY DEF LoopStep, loopRest, stockVars
<1>2. /\ LoopInv' /\ loop' \in LoopType
      /\ loop'[l].pc = pc /\ loop'[l].cancelled = loop[l].cancelled
      /\ \A k \in Loops : k # l => loop'[k] = loop[k]
      /\ \A k \in Loops : Live(k)' <=> Live(k)
  <2>1. Live(l) /\ pc \in LoopPC \ {"none", "ended"} /\ Goto(l, pc) BY DEF LoopStep
  <2> QED BY <1>0, <1>1, <2>1, GotoOK
<1>3. /\ job' \in [Owner -> JobPC] /\ \A x \in Owner : x # l => job'[x] = job[x]
      /\ job'[l] # "idle" => pc \in {"collect", "restock"}
      /\ job'[l] \in Inside <=> job[l] \in Inside
  <2>0. job \in [Owner -> JobPC] /\ l \in Owner BY <1>0, Distinct DEF Typed
  <2>1. CASE UNCHANGED job /\ loop[l].pc \notin {"collect", "restock"}
    BY <1>0, <2>0, <2>1 DEF JobInv
  <2>2. ASSUME NEW j \in {"check", "idle"}, job' = [job EXCEPT ![l] = j],
               j = "check" => pc \in {"collect", "restock"}, job[l] \notin Inside
        PROVE  <1>3!1 /\ <1>3!2 /\ <1>3!3
    BY <2>0, <2>2 DEF JobPC, Inside
  <2> QED BY <2>1, <2>2 DEF LoopStep
<1>4. Held'
  <2>1. \A x \in Owner : Holds(x)' <=> Holds(x) BY <1>1, <1>3 DEF Holds
  <2> QED BY <1>0, <1>1, <2>1 DEF Held
<1>5. Locks'
  <2>1. serviceMu' \in {Free} \cup Owner BY <1>0, Distinct DEF LoopStep, Locks
  <2> QED BY <1>0, <1>1, <1>4, <2>1 DEF Locks
<1>6. TypeOK'
  <2>1. db' \in DbType /\ ensuring' \in EnsuringType BY DEF LoopStep
  <2>2. Typed' BY <1>0, <1>1, <1>2, <1>3, <2>1 DEF Typed, DbType, EnsuringType
  <2> QED BY <1>5, <2>2, TypePartsNext
<1>7. JobInv'
  <2>1. \A k \in Loops : job'[k] # "idle" => loop'[k].pc \in {"collect", "restock"}
    BY <1>0, <1>2, <1>3, Distinct DEF JobInv
  <2> QED BY <1>0, <1>1, <1>3, <2>1, Distinct DEF JobInv
<1>8. StopInv'
  <2>1. SUFFICES ASSUME ~cfg.enabled, ~auto.shutdown, ~StopPending, NEW k \in Loops, Live(k)'
                 PROVE  loop'[k].pc \in {"boot", "exit"} \/ loop'[k].cancelled
    BY <1>1 DEF StopInv, StopPending
  <2>2. Live(k) => loop[k].pc \in {"boot", "exit"} \/ loop[k].cancelled BY <1>0, <2>1 DEF StopInv
  <2> QED BY <1>2, <2>1, <2>2 DEF LoopStep
<1>9. ClearInv'
  <2>1. \A x \in Owner : job'[x] = "listing" => job[x] = "listing"
    <3>1. job \in [Owner -> JobPC] BY <1>0 DEF Typed
    <3>2. CASE UNCHANGED job BY <3>2
    <3>3. ASSUME NEW j \in {"check", "idle"}, job' = [job EXCEPT ![l] = j]
          PROVE  \A x \in Owner : job'[x] = "listing" => job[x] = "listing"
      BY <3>1, <3>3
    <3> QED BY <3>2, <3>3 DEF LoopStep
  <2> QED BY <1>0, <1>1, <1>2, <1>3, <2>1, Distinct DEF ClearInv, Inside
<1>10. DbInv' BY DEF LoopStep
<1> QED BY <1>0, <1>1, <1>2, <1>6, <1>7, <1>8, <1>9, <1>10, DownFrame, FileFrame DEF MarketInv

LEMMA AutoLoopOK == ASSUME MarketInv, NEW l \in Loops, AutoLoop(l), ~FinishAutoLoop(l) PROVE MarketInv'
<1>0. TypeOK /\ Typed /\ Locks /\ JobInv /\ DbInv BY Parts
<1>a. db \in DbType /\ ensuring \in EnsuringType /\ l \in Owner \cup {Watcher}
  BY <1>0, Distinct DEF Typed, DbType, EnsuringType
<1>b. UNCHANGED <<dbVars, cfg>> => DbInv' /\ db' \in DbType /\ ensuring' \in EnsuringType
  BY <1>0, <1>a, DbFrame DEF dbVars
<1>1. CASE LoopBoot(l)
  <2>1. PICK pc \in {"delay", "exit"} : pc = IF cfg.enabled THEN "delay" ELSE "exit" OBVIOUS
  <2>2. LoopStep(l, pc)
    BY <1>1, <1>b, <2>1 DEF LoopBoot, LoopStep, Live, LoopPC, loopRest, lockVars
  <2> QED BY <2>2, LoopStepOK
<1>2. CASE LoopTick(l)
  <2>1. LoopStep(l, "tables") BY <1>2, <1>b DEF LoopTick, LoopStep, Live, LoopPC, loopRest, lockVars
  <2> QED BY <2>1, LoopStepOK
<1>3. CASE LoopDone(l)
  <2>1. LoopStep(l, "exit") BY <1>3, <1>b DEF LoopDone, LoopStep, Live, LoopPC, loopRest, lockVars
  <2> QED BY <2>1, LoopStepOK
<1>4. CASE LoopTables(l)
  <2>0. UNCHANGED cfg BY <1>4 DEF LoopTables, loopRest
  <2>1. CASE EnsureDue
    <3>1. DbInv' /\ db' \in DbType /\ ensuring' \in EnsuringType
      BY <1>0, <1>4, <1>a, <2>0, <2>1, EnsureBeginOK DEF LoopTables
    <3>2. LoopStep(l, "ensure") BY <1>4, <2>1, <3>1 DEF LoopTables, LoopStep, Live, LoopPC, lockVars
    <3> QED BY <3>2, LoopStepOK
  <2>2. CASE ~EnsureDue
    <3>1. LoopStep(l, "game") BY <1>4, <1>b, <2>0, <2>2 DEF LoopTables, LoopStep, Live, LoopPC, lockVars
    <3> QED BY <3>1, LoopStepOK
  <2> QED BY <2>1, <2>2
<1>5. CASE LoopEnsure(l)
  <2>0. UNCHANGED cfg BY <1>5 DEF LoopEnsure, loopRest
  <2>1. DbInv' /\ db' \in DbType /\ ensuring' \in EnsuringType
    BY <1>0, <1>5, <1>a, <2>0, EnsureEndOK DEF LoopEnsure
  <2>2. LoopStep(l, "game") BY <1>5, <2>1 DEF LoopEnsure, LoopStep, Live, LoopPC, lockVars
  <2> QED BY <2>2, LoopStepOK
<1>6. CASE LoopGame(l)
  <2>1. LoopStep(l, "rest") \/ LoopStep(l, "services")
    BY <1>6, <1>b DEF LoopGame, LoopStep, Live, LoopPC, loopRest, lockVars
  <2> QED BY <2>1, LoopStepOK
<1>7. CASE LoopServices(l)
  <2>1. LoopStep(l, "serving") BY <1>7, <1>b DEF LoopServices, LoopStep, Live, LoopPC, loopRest
  <2> QED BY <2>1, LoopStepOK
<1>8. CASE LoopServed(l)
  <2>0. job[l] \notin Inside BY <1>0, <1>8 DEF LoopServed, JobInv, Inside
  <2>1. CASE Goto(l, "rest") /\ UNCHANGED job
    <3>1. LoopStep(l, "rest") BY <1>8, <1>b, <2>1 DEF LoopServed, LoopStep, Live, LoopPC, loopRest
    <3> QED BY <3>1, LoopStepOK
  <2>2. ASSUME NEW next \in {"collect", "restock"}, Goto(l, next), job' = [job EXCEPT ![l] = "check"]
        PROVE  MarketInv'
    <3>1. LoopStep(l, next) BY <1>8, <1>b, <2>0, <2>2 DEF LoopServed, LoopStep, Live, LoopPC, loopRest
    <3> QED BY <3>1, LoopStepOK
  <2> QED BY <1>8, <2>1, <2>2 DEF LoopServed
<1>9. CASE LoopJobEnds(l)
  <2>0. job[l] \notin Inside BY <1>9 DEF LoopJobEnds, Inside
  <2>1. LoopStep(l, "restock") \/ LoopStep(l, "rest")
    BY <1>9, <1>b, <2>0 DEF LoopJobEnds, LoopStep, Live, LoopPC, loopRest, lockVars
  <2> QED BY <2>1, LoopStepOK
<1>10. CASE Job(l) BY <1>10, JobOK, Distinct
<1> QED BY <1>1, <1>2, <1>3, <1>4, <1>5, <1>6, <1>7, <1>8, <1>9, <1>10 DEF AutoLoop

-----------------------------------------------------------------------------
(* Switching the loop, within the whole.                                   *)

\* What follows for the loops, the shutdown and the stock.  Whoever stops
\* being pending has cancelled what was alive.
LEMMA SteerOK ==
    ASSUME MarketInv, Steered, UNCHANGED <<cfg, job, stock, main>>,
           \/ StopPending => StopPending'
           \/ \A l \in Loops : Live(l)' => loop'[l].cancelled
    PROVE  /\ auto' \in AutoType /\ loop' \in LoopType /\ wiped' \in BOOLEAN
           /\ LoopInv' /\ StopInv' /\ DownInv' /\ ClearInv'
           /\ \A l \in Loops : job'[l] # "idle" => loop'[l].pc \in {"collect", "restock"}
<1>0. TypeOK /\ Typed /\ JobInv /\ StopInv /\ DownInv /\ ClearInv BY Parts
<1>1. /\ auto' \in AutoType /\ loop' \in LoopType /\ LoopInv'
      /\ auto'.shutdown = auto.shutdown /\ auto'.done >= auto.done
      /\ (auto.shutdown /\ ~auto.run => ~auto'.run)
      /\ wiped' \in BOOLEAN /\ (wiped' => wiped)
  BY DEF Steered
<1>2. \A l \in Loops : \/ loop'[l].pc = loop[l].pc /\ (loop[l].cancelled => loop'[l].cancelled)
                       \/ loop[l].pc = "none" /\ loop'[l].pc = "boot" /\ ~wiped'
                       \/ loop[l].pc = "exit" /\ loop'[l].pc = "ended"
  BY DEF Steered
<1>3. StopInv'
  <2>1. SUFFICES ASSUME ~cfg.enabled, ~auto.shutdown, ~StopPending', NEW l \in Loops, Live(l)'
                 PROVE  loop'[l].pc \in {"boot", "exit"} \/ loop'[l].cancelled
    BY <1>1 DEF StopInv
  <2>2. CASE loop'[l].cancelled BY <2>2
  <2>3. CASE ~StopPending
    <3>1. Live(l) => loop[l].pc \in {"boot", "exit"} \/ loop[l].cancelled BY <1>0, <2>1, <2>3 DEF StopInv
    <3> QED BY <1>2, <2>1, <3>1 DEF Live
  <2> QED BY <2>1, <2>2, <2>3
<1>4. DownInv'
  <2>1. auto.done \in Loops => auto'.done \in Loops
    <3>1. auto'.done \in 0..MaxLoops BY <1>1 DEF AutoType
    <3> QED BY <1>1, <3>1 DEF Loops
  <2> QED BY <1>0, <1>1, <2>1 DEF DownInv
<1>5. ClearInv' BY <1>0, <1>1, <1>2 DEF ClearInv, Live
<1>6. \A l \in Loops : job'[l] # "idle" => loop'[l].pc \in {"collect", "restock"}
  BY <1>0, <1>2 DEF JobInv
<1> QED BY <1>1, <1>3, <1>4, <1>5, <1>6

\* The loop's last step: it is autoDone's, and the next one may boot.
LEMMA FinishSteers == ASSUME TypeOK, LoopInv, NEW l \in Loops, FinishAutoLoop(l) PROVE Steered
<1> DEFINE ended == [loop EXCEPT ![l].pc = "ended"]
           a == [auto EXCEPT !.run = FALSE, !.stop = FALSE, !.restart = FALSE]
<1>0. auto \in AutoType /\ loop \in LoopType /\ auto.done \in Nat /\ wiped \in BOOLEAN /\ loop[l].pc = "exit"
  BY Types DEF FinishAutoLoop, TypeOK
<1>1. Live(l) /\ auto.run BY <1>0, Types DEF Live, LoopInv
<1>2. \A k \in Loops : k \in Nat BY DEF Loops
<1>3. l = auto.done
  <2>1. ~(l < auto.done) /\ ~(l > auto.done) BY <1>0 DEF LoopInv
  <2> QED BY <1>0, <1>2, <2>1
<1>4. /\ a \in AutoType /\ a.run = FALSE /\ a.stop = FALSE /\ a.done = l /\ a.shutdown = auto.shutdown
  BY <1>0, <1>3 DEF AutoType
<1>5. /\ ended \in LoopType /\ ended[l].pc = "ended" /\ \A k \in Loops : k # l => ended[k] = loop[k]
  BY <1>0 DEF LoopType, LoopPC
<1>6. \A k \in Loops : k # l => (k < l => loop[k].pc = "ended") /\ (k > l => loop[k].pc = "none")
  BY <1>3 DEF LoopInv
<1>7. \A k \in Loops : k <= l => ended[k].pc = "ended" BY <1>2, <1>5, <1>6
<1>8. \A k \in Loops : k > l => ended[k].pc = "none" BY <1>2, <1>5, <1>6
<1>9. CASE auto.restart /\ ~auto.shutdown
  <2>1. Become(Started(a, ended)) /\ wiped' = FALSE BY <1>3, <1>9 DEF FinishAutoLoop
  <2>2. /\ auto' = [a EXCEPT !.run = TRUE, !.stop = FALSE, !.restart = FALSE, !.done = l + 1]
        /\ loop' = [ended EXCEPT ![l + 1] = [pc |-> "boot", cancelled |-> FALSE]]
        /\ auto'.done <= MaxLoops
    BY <1>4, <2>1 DEF Become, Started
  <2>3. /\ auto'.run = TRUE /\ auto'.stop = FALSE /\ auto'.done = l + 1 /\ auto'.shutdown = auto.shutdown
    BY <1>4, <2>2 DEF AutoType
  <2>4. l + 1 \in Loops /\ l + 1 \in 0..MaxLoops /\ l + 1 \in Nat /\ l + 1 > l BY <1>2, <2>2, <2>3 DEF Loops
  <2>5. auto' \in AutoType BY <1>4, <2>2, <2>4 DEF AutoType
  <2>6. /\ loop' \in LoopType /\ loop'[l + 1] = [pc |-> "boot", cancelled |-> FALSE]
        /\ \A k \in Loops : k # l + 1 => loop'[k] = ended[k]
    BY <1>5, <2>2, <2>4 DEF LoopType, LoopPC
  <2>7. \A k \in Loops : /\ k < l + 1 => loop'[k].pc = "ended"
                         /\ k > l + 1 <=> loop'[k].pc = "none"
    <3>1. \A k \in Loops : k < l + 1 => k <= l /\ k # l + 1 BY <1>2
    <3>2. \A k \in Loops : k > l + 1 => k > l /\ k # l + 1 BY <1>2
    <3>3. \A k \in Loops : ~(k > l + 1) => k < l + 1 \/ k = l + 1 BY <1>2
    <3>4. \A k \in Loops : k < l + 1 => loop'[k].pc = "ended" BY <1>7, <2>6, <3>1
    <3>5. \A k \in Loops : k > l + 1 => loop'[k].pc = "none" BY <1>8, <2>6, <3>2
    <3> QED BY <2>6, <3>3, <3>4, <3>5
  <2>8. LoopInv' BY <2>3, <2>4, <2>6, <2>7 DEF LoopInv, Live
  <2>9. loop[l + 1].pc = "none" BY <1>5, <1>8, <2>4
  <2>10. auto'.done >= auto.done BY <1>3, <2>3, <2>4, <1>0
  <2>11. wiped' = FALSE BY <2>1
  <2>12. \A k \in Loops : \/ loop'[k].pc = loop[k].pc /\ (loop[k].cancelled => loop'[k].cancelled)
                          \/ loop[k].pc = "none" /\ loop'[k].pc = "boot" /\ ~wiped'
                          \/ loop[k].pc = "exit" /\ loop'[k].pc = "ended"
    <3>1. l # l + 1 BY <1>2
    <3>2. loop'[l].pc = "ended" BY <1>5, <2>6, <3>1
    <3>3. \A k \in Loops : k # l /\ k # l + 1 => loop'[k] = loop[k] BY <1>5, <2>6
    <3>4. loop'[l + 1].pc = "boot" BY <2>6
    <3>5. ~wiped' BY <2>11
    <3> QED BY <1>0, <2>9, <3>2, <3>3, <3>4, <3>5
  <2> QED BY <1>1, <2>3, <2>5, <2>6, <2>8, <2>10, <2>11, <2>12 DEF Steered
<1>10. CASE ~(auto.restart /\ ~auto.shutdown)
  <2>1. auto' = a /\ loop' = ended /\ wiped' = wiped BY <1>3, <1>10 DEF FinishAutoLoop, Become
  <2>2. \A k \in Loops : /\ k < l => loop'[k].pc = "ended"
                         /\ k > l <=> loop'[k].pc = "none"
    <3>1. \A k \in Loops : (k < l => k <= l) /\ (~(k > l) => k <= l) BY <1>2
    <3> QED BY <1>7, <1>8, <2>1, <3>1
  <2>3. \A k \in Loops : k <= l \/ k > l BY <1>2
  <2>4. \A k \in Loops : ~Live(k)' BY <1>7, <1>8, <2>1, <2>3 DEF Live
  <2>5. auto'.run = FALSE /\ auto'.stop = FALSE /\ auto'.done = l /\ auto'.shutdown = auto.shutdown
    BY <1>4, <2>1
  <2>6. LoopInv'
    <3>1. \A k \in Loops : /\ k < auto'.done => loop'[k].pc = "ended"
                           /\ k > auto'.done <=> loop'[k].pc = "none"
      BY <2>2, <2>5
    <3> QED BY <2>4, <2>5, <3>1 DEF LoopInv
  <2>7. auto'.done >= auto.done BY <1>0, <1>3, <2>5
  <2>8. \A k \in Loops : \/ loop'[k].pc = loop[k].pc /\ (loop[k].cancelled => loop'[k].cancelled)
                         \/ loop[k].pc = "exit" /\ loop'[k].pc = "ended"
    BY <1>0, <1>5, <2>1
  <2> QED BY <1>0, <1>4, <1>5, <2>1, <2>5, <2>6, <2>7, <2>8 DEF Steered
<1> QED BY <1>9, <1>10

LEMMA FinishAutoLoopOK == ASSUME MarketInv, NEW l \in Loops, FinishAutoLoop(l) PROVE MarketInv'
<1>0. TypeOK /\ Typed /\ Locks /\ Held /\ LoopInv /\ JobInv /\ DbInv /\ FileInv BY Parts
<1>1. UNCHANGED <<cfg, file, watch, job, jobMu, serviceMu, db, ensuring, stock, cl, rebuild, main>>
  BY DEF FinishAutoLoop, lockVars, dbVars
<1>2. Steered BY <1>0, FinishSteers
<1>3. StopPending => StopPending' BY <1>1 DEF StopPending
<1>4. /\ auto' \in AutoType /\ loop' \in LoopType /\ wiped' \in BOOLEAN
      /\ LoopInv' /\ StopInv' /\ DownInv' /\ ClearInv'
      /\ \A k \in Loops : job'[k] # "idle" => loop'[k].pc \in {"collect", "restock"}
  BY <1>1, <1>2, <1>3, SteerOK
<1>5. TypeOK'
  <2>1. Typed' BY <1>0, <1>1, <1>4 DEF Typed
  <2>2. Locks' BY <1>0, <1>1, HeldFrame DEF Locks
  <2> QED BY <2>1, <2>2, TypePartsNext
<1>6. JobInv' BY <1>0, <1>1, <1>4 DEF JobInv
<1> QED BY <1>0, <1>1, <1>4, <1>5, <1>6, DbFrame, FileFrame DEF MarketInv

-----------------------------------------------------------------------------
(* Commands.                                                               *)

ClType == [Client -> [op : Ops \cup {"none"}, pc : CmdPC, prev : Config, next : Config]]

\* An owner who keeps, takes or leaves jobMu keeps its side of it.
LEMMA HeldStep ==
    ASSUME Held, jobMu \in {Free, Watcher} \cup Owner, NEW o \in Owner,
           \A x \in Owner : x # o => (Holds(x)' <=> Holds(x)),
           \/ UNCHANGED jobMu /\ (Holds(o)' <=> Holds(o))
           \/ jobMu = Free /\ jobMu' = o /\ Holds(o)'
           \/ Holds(o) /\ jobMu' = Free /\ ~Holds(o)'
    PROVE  Held' /\ jobMu' \in {Free, Watcher} \cup Owner /\ (jobMu = Watcher => jobMu' = Watcher)
<1>1. CASE UNCHANGED jobMu /\ (Holds(o)' <=> Holds(o)) BY <1>1 DEF Held
<1>2. CASE jobMu = Free /\ jobMu' = o /\ Holds(o)' BY <1>2, Distinct DEF Held
<1>3. CASE Holds(o) /\ jobMu' = Free /\ ~Holds(o)' BY <1>3, Distinct DEF Held
<1> QED BY <1>1, <1>2, <1>3

\* What a step of a command does to it, to its job and to the mutexes.
ClientStep(c) ==
    /\ cl' \in ClType /\ \A x \in Client : x # c => cl'[x] = cl[x]
    /\ cl'[c].pc = "config" => cl'[c].op \in {"start", "stop", "update"}
    /\ job' \in [Owner -> JobPC] /\ \A x \in Owner : x # c => job'[x] = job[x]
    /\ job'[c] \notin Inside /\ job[c] \notin Inside
    /\ job'[c] # "idle" => cl'[c].pc = "job"
    /\ \/ UNCHANGED jobMu /\ ((cl'[c].pc = "delete") <=> (cl[c].pc = "delete"))
       \/ jobMu = Free /\ jobMu' = c /\ cl'[c].pc = "delete"
       \/ cl[c].pc = "delete" /\ jobMu' = Free /\ cl'[c].pc # "delete"
    /\ serviceMu' \in {serviceMu, Free, c}
    /\ UNCHANGED clRest

LEMMA ClientStepOK ==
    ASSUME MarketInv, NEW c \in Client, ClientStep(c),
           \A l \in Loops : job[l] # "idle" => loop'[l].pc \in {"collect", "restock"}
    PROVE  Locks' /\ JobInv'
<1>0. Typed /\ Locks /\ Held /\ JobInv BY Parts
<1>1. UNCHANGED <<watch, rebuild>> BY DEF ClientStep, clRest
<1>2. c \in Owner /\ c # Rebuilder /\ c \notin Loops BY Distinct
<1>3. Holds(c) <=> cl[c].pc = "delete" BY <1>2 DEF ClientStep, Holds
<1>4. Holds(c)' <=> cl'[c].pc = "delete" BY <1>2 DEF ClientStep, Holds
<1>5. \A x \in Owner : x # c => (Holds(x)' <=> Holds(x)) BY <1>1 DEF ClientStep, Holds
<1>6. Held' /\ jobMu' \in {Free, Watcher} \cup Owner /\ (jobMu = Watcher => jobMu' = Watcher)
  <2>1. jobMu \in {Free, Watcher} \cup Owner BY <1>0 DEF Locks
  <2>2. \/ UNCHANGED jobMu /\ (Holds(c)' <=> Holds(c))
        \/ jobMu = Free /\ jobMu' = c /\ Holds(c)'
        \/ Holds(c) /\ jobMu' = Free /\ ~Holds(c)'
    BY <1>3, <1>4 DEF ClientStep
  <2> QED BY <1>0, <1>2, <1>5, <2>1, <2>2, HeldStep
<1>7. serviceMu' \in {Free} \cup Owner BY <1>0, <1>2 DEF ClientStep, Locks
<1>8. JobInv'
  <2>1. \A l \in Loops : job'[l] # "idle" => loop'[l].pc \in {"collect", "restock"}
    BY <1>2, Distinct DEF ClientStep
  <2>2. \A x \in Client : job'[x] # "idle" => cl'[x].pc = "job"
    BY <1>0, Distinct DEF ClientStep, JobInv
  <2>3. job'[Rebuilder] # "idle" => rebuild'.pc = "job"
    BY <1>0, <1>1, <1>2, Distinct DEF ClientStep, JobInv
  <2>4. watch'.pc \in {"tables", "ensure"} => jobMu' = Watcher BY <1>0, <1>1, <1>6 DEF JobInv
  <2>5. \A x \in Client : cl'[x].pc = "config" => cl'[x].op \in {"start", "stop", "update"}
    BY <1>0 DEF ClientStep, JobInv
  <2> QED BY <2>1, <2>2, <2>3, <2>4, <2>5 DEF JobInv
<1> QED BY <1>6, <1>7, <1>8 DEF Locks

\* A command that only goes on: what it disabled is still pending.
ClPending(c) == cl[c].pc = "stopauto" \/ (cl[c].pc = "reconcile" /\ ~cl[c].next.enabled)

LEMMA PendingKept ==
    ASSUME NEW c \in Client, ClientStep(c), ClPending(c) => ClPending(c)'
    PROVE  StopPending => StopPending'
<1>1. UNCHANGED watch /\ \A x \in Client : x # c => cl'[x] = cl[x] BY DEF ClientStep, clRest
<1>2. \A x \in Client : ClPending(x) => ClPending(x)' BY <1>1 DEF ClPending
<1>3. StopPending <=> \/ \E x \in Client : ClPending(x)
                      \/ watch.pc = "stopauto"
                      \/ watch.pc \in {"tables", "ensure", "reconcile"} /\ ~watch.next.enabled
  BY DEF StopPending, ClPending
<1>4. StopPending' <=> \/ \E x \in Client : ClPending(x)'
                       \/ watch'.pc = "stopauto"
                       \/ watch'.pc \in {"tables", "ensure", "reconcile"} /\ ~watch'.next.enabled
  BY DEF StopPending, ClPending
<1> QED BY <1>1, <1>2, <1>3, <1>4

LEMMA ClientOnly ==
    ASSUME MarketInv, NEW c \in Client, ClientStep(c), ClPending(c) => ClPending(c)',
           UNCHANGED <<cfg, file, auto, loop, stock, wiped>>
    PROVE  MarketInv'
<1>0. TypeOK /\ Typed /\ Locks /\ Held /\ LoopInv /\ JobInv /\ StopInv /\ DownInv /\ ClearInv /\ DbInv /\ FileInv
  BY Parts
<1>1. UNCHANGED <<watch, db, ensuring, rebuild, main>> BY DEF ClientStep, clRest
<1>2. Locks' /\ JobInv' BY <1>0, ClientStepOK DEF JobInv
<1>3. cl' \in ClType /\ job' \in [Owner -> JobPC] BY DEF ClientStep
<1>4. TypeOK'
  <2>1. Typed' BY <1>0, <1>1, <1>3 DEF Typed, ClType
  <2> QED BY <1>2, <2>1, TypePartsNext
<1>5. StopInv' BY <1>0, PendingKept DEF StopInv, Live
<1>6. ClearInv'
  <2>1. \A x \in Owner \ Loops : job'[x] \in Inside => job[x] \in Inside BY DEF ClientStep
  <2>2. \A x \in Owner : job'[x] = "listing" => job[x] = "listing" BY DEF ClientStep, Inside
  <2> QED BY <1>0, <2>1, <2>2 DEF ClearInv, Live, Inside
<1> QED BY <1>0, <1>1, <1>2, <1>4, <1>5, <1>6, LoopFrame, DownFrame, DbFrame, FileFrame DEF MarketInv

LEMMA MoveOK ==
    ASSUME Typed, NEW c \in Client, NEW pc \in CmdPC, Move(c, pc)
    PROVE  /\ cl' \in ClType /\ \A x \in Client : x # c => cl'[x] = cl[x]
           /\ cl'[c].pc = pc /\ (pc # "idle" => cl'[c].next = cl[c].next)
<1>1. cl \in ClType BY DEF Typed, ClType
<1>2. IdleCmd \in [op : Ops \cup {"none"}, pc : CmdPC, prev : Config, next : Config] /\ IdleCmd.pc = "idle"
  BY DEF IdleCmd, Cmd, Nothing, Config, CmdPC, Databases
<1>3. CASE pc = "idle"
  <2>1. cl' = [cl EXCEPT ![c] = IdleCmd] BY <1>3 DEF Move, Put
  <2> QED BY <1>1, <1>2, <1>3, <2>1 DEF ClType
<1>4. CASE pc # "idle"
  <2>1. cl' = [cl EXCEPT ![c] = [cl[c] EXCEPT !.pc = pc]] BY <1>4 DEF Move, Put
  <2>2. cl[c] \in [op : Ops \cup {"none"}, pc : CmdPC, prev : Config, next : Config] BY <1>1 DEF ClType
  <2> QED BY <1>1, <1>4, <2>1, <2>2 DEF ClType
<1> QED BY <1>3, <1>4

\* A command that moves on, with its job and the mutexes as they were.
LEMMA MoveStep ==
    ASSUME MarketInv, NEW c \in Client, NEW pc \in CmdPC \ {"config", "delete", "job"}, Move(c, pc),
           cl[c].pc \notin {"delete", "job"}, UNCHANGED <<clRest, job, jobMu>>,
           serviceMu' \in {serviceMu, Free, c}
    PROVE  ClientStep(c) /\ cl'[c].pc = pc /\ (pc # "idle" => cl'[c].next = cl[c].next)
<1>0. Typed /\ Locks /\ JobInv BY Parts
<1>1. /\ cl' \in ClType /\ \A x \in Client : x # c => cl'[x] = cl[x]
      /\ cl'[c].pc = pc /\ (pc # "idle" => cl'[c].next = cl[c].next)
  BY <1>0, MoveOK
<1>2. job[c] = "idle" BY <1>0 DEF JobInv
<1>3. job \in [Owner -> JobPC] /\ job[c] \notin Inside BY <1>0, <1>2 DEF Typed, Inside
<1> QED BY <1>1, <1>2, <1>3 DEF ClientStep

LEMMA GiveOK == ASSUME MarketInv, NEW c \in Client, Give(c) PROVE MarketInv'
<1>0. Typed /\ Locks /\ JobInv BY Parts
<1>a. PICK op \in Ops \ {"rebuild", "shutdown"} :
        /\ \E pc \in FirstPC(op) : Put(c, Cmd(op, pc, Nothing, Nothing))
        /\ job' = IF op = "manual" THEN [job EXCEPT ![c] = "check"] ELSE job
  BY DEF Give
<1>b. PICK pc \in FirstPC(op) : Put(c, Cmd(op, pc, Nothing, Nothing)) BY <1>a
<1>1. /\ Put(c, Cmd(op, pc, Nothing, Nothing))
      /\ job' = IF op = "manual" THEN [job EXCEPT ![c] = "check"] ELSE job
  BY <1>a, <1>b
<1>2. /\ cl[c].pc = "idle" /\ UNCHANGED <<clRest, cfg, file, auto, loop, jobMu, serviceMu, stock, wiped>>
  BY DEF Give, loopVars, lockVars, stockVars
<1>3. op \in {"start", "stop", "update", "clear", "sync", "manual"} BY <1>1
<1>4. /\ pc \in {"config", "ifstop", "resume", "job"} /\ pc \in CmdPC
      /\ pc = "config" => op \in {"start", "stop", "update"}
      /\ op = "manual" => pc = "job"
  BY <1>1, <1>3 DEF FirstPC, CmdPC
<1>5. job \in [Owner -> JobPC] /\ job[c] = "idle" /\ c \in Owner BY <1>0, <1>2, Distinct DEF JobInv, Typed
<1>6. /\ job' \in [Owner -> JobPC] /\ \A x \in Owner : x # c => job'[x] = job[x]
      /\ job'[c] \in {"idle", "check"} /\ (job'[c] # "idle" => pc = "job")
  <2>1. CASE op = "manual" BY <1>1, <1>4, <1>5, <2>1 DEF JobPC
  <2>2. CASE op # "manual" BY <1>1, <1>5, <2>2
  <2> QED BY <2>1, <2>2
<1>7. cl' \in ClType /\ cl'[c] = Cmd(op, pc, Nothing, Nothing) /\ \A x \in Client : x # c => cl'[x] = cl[x]
  <2>1. cl \in ClType BY <1>0 DEF Typed, ClType
  <2>2. Cmd(op, pc, Nothing, Nothing) \in [op : Ops \cup {"none"}, pc : CmdPC, prev : Config, next : Config]
    BY <1>1, <1>4 DEF Cmd, Nothing, Config, Databases
  <2> QED BY <1>1, <2>1, <2>2 DEF Put, ClType
<1>8. cl'[c].pc = pc /\ cl'[c].op = op BY <1>7 DEF Cmd
<1>9. ClientStep(c)
  <2>1. cl'[c].pc # "delete" /\ cl[c].pc # "delete" BY <1>2, <1>4, <1>8
  <2>2. job'[c] \notin Inside /\ job[c] \notin Inside BY <1>5, <1>6 DEF Inside
  <2> QED BY <1>2, <1>4, <1>6, <1>7, <1>8, <2>1, <2>2 DEF ClientStep
<1>10. ~ClPending(c) BY <1>2 DEF ClPending
<1> QED BY <1>2, <1>9, <1>10, ClientOnly

LEMMA GiveReconcileOK == ASSUME MarketInv, NEW c \in Client, GiveReconcile(c) PROVE MarketInv'
<1>0. Typed /\ Locks /\ JobInv BY Parts
<1> DEFINE pc == ReconcilePC(cl[c].prev, cl[c].next)
<1>1. /\ cl[c].pc = "reconcile" /\ Move(c, pc)
      /\ UNCHANGED <<clRest, cfg, file, auto, loop, job, jobMu, serviceMu, stock, wiped>>
  BY DEF GiveReconcile, loopVars, lockVars, stockVars
<1>2. auto.run \in BOOLEAN /\ cl[c].prev.enabled \in BOOLEAN /\ cl[c].next.enabled \in BOOLEAN
  BY <1>0 DEF Typed, AutoType, Config
<1>3. pc \in {"stopauto", "restart", "startauto", "idle"} /\ (~cl[c].next.enabled => pc = "stopauto")
  BY <1>2 DEF ReconcilePC
<1>4. ClientStep(c) /\ cl'[c].pc = pc
  <2>1. pc \in CmdPC \ {"config", "delete", "job"} BY <1>3 DEF CmdPC
  <2> HIDE DEF pc
  <2> QED BY <1>1, <2>1, MoveStep
<1>5. ClPending(c) => ClPending(c)' BY <1>1, <1>3, <1>4 DEF ClPending
<1> QED BY <1>1, <1>4, <1>5, ClientOnly

\* The commands that neither switch the loop nor touch the configuration or
\* the stock.
LEMMA GivePlainOK ==
    ASSUME MarketInv, NEW c \in Client, GiveService(c) \/ GiveServed(c) \/ GiveResume(c)
    PROVE  MarketInv'
<1>1. /\ cl[c].pc \in {"service", "serving", "resume"} /\ serviceMu' \in {serviceMu, Free, c}
      /\ UNCHANGED <<clRest, cfg, file, auto, loop, job, jobMu, stock, wiped>>
  BY DEF GiveService, GiveServed, GiveResume, loopVars, lockVars, stockVars
<1>2. PICK pc \in {"serving", "resume", "startauto", "idle"} : Move(c, pc)
  BY DEF GiveService, GiveServed, GiveResume
<1>3. pc \in CmdPC \ {"config", "delete", "job"} BY DEF CmdPC
<1>4. ClientStep(c) BY <1>1, <1>2, <1>3, MoveStep
<1>5. ~ClPending(c) BY <1>1 DEF ClPending
<1> QED BY <1>1, <1>4, <1>5, ClientOnly

LEMMA GiveLockOK == ASSUME MarketInv, NEW c \in Client, GiveLock(c) PROVE MarketInv'
<1>0. Typed /\ Locks /\ JobInv BY Parts
<1>1. /\ cl[c].pc = "lock" /\ jobMu = Free /\ jobMu' = c /\ Move(c, "delete")
      /\ UNCHANGED <<clRest, cfg, file, auto, loop, job, serviceMu, stock, wiped>>
  BY DEF GiveLock, loopVars, stockVars
<1>2. /\ cl' \in ClType /\ \A x \in Client : x # c => cl'[x] = cl[x]
      /\ cl'[c].pc = "delete"
  BY <1>0, <1>1, MoveOK DEF CmdPC
<1>3. job \in [Owner -> JobPC] /\ job[c] = "idle" BY <1>0, <1>1 DEF Typed, JobInv
<1>4. ClientStep(c) BY <1>1, <1>2, <1>3 DEF ClientStep, Inside
<1>5. ~ClPending(c) BY <1>1 DEF ClPending
<1> QED BY <1>1, <1>4, <1>5, ClientOnly

LEMMA GiveJobEndsOK == ASSUME MarketInv, NEW c \in Client, GiveJobEnds(c) PROVE MarketInv'
<1>0. Typed /\ Locks /\ JobInv BY Parts
<1>1. /\ cl[c].pc = "job" /\ job[c] = "end" /\ job' = [job EXCEPT ![c] = "idle"] /\ Move(c, "idle")
      /\ UNCHANGED <<clRest, cfg, file, auto, loop, jobMu, serviceMu, stock, wiped>>
  BY DEF GiveJobEnds, loopVars, lockVars, stockVars
<1>2. /\ cl' \in ClType /\ \A x \in Client : x # c => cl'[x] = cl[x]
      /\ cl'[c].pc = "idle"
  BY <1>0, <1>1, MoveOK DEF CmdPC
<1>3. /\ job' \in [Owner -> JobPC] /\ job'[c] = "idle" /\ \A x \in Owner : x # c => job'[x] = job[x]
  BY <1>0, <1>1, Distinct DEF Typed, JobPC
<1>4. ClientStep(c) BY <1>1, <1>2, <1>3 DEF ClientStep, Inside
<1>5. ~ClPending(c) BY <1>1 DEF ClPending
<1> QED BY <1>1, <1>4, <1>5, ClientOnly

\* The commands that switch the loop.
LEMMA GiveSteers ==
    ASSUME MarketInv, NEW c \in Client, ClientStep(c), Steered, UNCHANGED <<cfg, file, job, stock>>,
           \/ ClPending(c) => ClPending(c)'
           \/ \A l \in Loops : Live(l)' => loop'[l].cancelled
    PROVE  MarketInv'
<1>0. TypeOK /\ Typed /\ Locks /\ Held /\ LoopInv /\ JobInv /\ DbInv /\ FileInv BY Parts
<1>1. UNCHANGED <<watch, db, ensuring, rebuild, main>> /\ cl' \in ClType BY DEF ClientStep, clRest
<1>2. \/ StopPending => StopPending'
      \/ \A l \in Loops : Live(l)' => loop'[l].cancelled
  BY PendingKept
<1>3. /\ auto' \in AutoType /\ loop' \in LoopType /\ wiped' \in BOOLEAN
      /\ LoopInv' /\ StopInv' /\ DownInv' /\ ClearInv'
      /\ \A k \in Loops : job'[k] # "idle" => loop'[k].pc \in {"collect", "restock"}
  BY <1>1, <1>2, SteerOK
<1>4. Locks' /\ JobInv' BY <1>3, ClientStepOK
<1>5. Typed' BY <1>0, <1>1, <1>3 DEF Typed, ClType
<1> QED BY <1>0, <1>1, <1>3, <1>4, <1>5, TypePartsNext, DbFrame, FileFrame DEF MarketInv

LEMMA GiveSwitchOK == ASSUME MarketInv, NEW c \in Client, GiveSwitch(c) PROVE MarketInv'
<1>0. TypeOK /\ Typed /\ LoopInv BY Parts
<1>1. PICK pc : pc = cl[c].pc OBVIOUS
<1>2. /\ pc \in {"startauto", "stopauto", "restart"} /\ SwitchAuto(pc) /\ Move(c, "idle")
      /\ UNCHANGED <<clRest, cfg, file, job, jobMu, serviceMu, stock>>
  BY <1>1 DEF GiveSwitch, SwitchAuto, lockVars
<1>3. Steered /\ (pc = "stopauto" => \A l \in Loops : Live(l)' => loop'[l].cancelled)
  BY <1>0, <1>2, SwitchAutoOK
<1>4. ClientStep(c)
  <2>1. "idle" \in CmdPC \ {"config", "delete", "job"} BY DEF CmdPC
  <2> QED BY <1>1, <1>2, <2>1, MoveStep
<1>5. ClPending(c) => pc = "stopauto" BY <1>1, <1>2 DEF ClPending
<1> QED BY <1>2, <1>3, <1>4, <1>5, GiveSteers

LEMMA IfRunningStopOK == ASSUME TypeOK, LoopInv, IfRunningStop, UNCHANGED wiped PROVE Steered
<1>1. CASE auto.run BY <1>1, StopAutoOK DEF IfRunningStop
<1>2. CASE ~auto.run
  <2>1. auto' = auto /\ loop' = loop /\ wiped' = wiped BY <1>2 DEF IfRunningStop, loopVars
  <2>2. wiped' \in BOOLEAN BY <2>1 DEF TypeOK
  <2>3. LoopInv' BY <2>1, LoopFrame
  <2> QED BY <2>1, <2>2, <2>3, Types DEF Steered
<1> QED BY <1>1, <1>2, Types

LEMMA GiveStopOK == ASSUME MarketInv, NEW c \in Client, GiveStop(c) PROVE MarketInv'
<1>0. TypeOK /\ Typed /\ LoopInv BY Parts
<1>1. /\ cl[c].pc = "ifstop" /\ IfRunningStop /\ Move(c, "lock")
      /\ UNCHANGED <<clRest, cfg, file, job, jobMu, serviceMu, stock, wiped>>
  BY DEF GiveStop, lockVars, stockVars
<1>2. Steered BY <1>0, <1>1, IfRunningStopOK
<1>3. ClientStep(c)
  <2>1. "lock" \in CmdPC \ {"config", "delete", "job"} BY DEF CmdPC
  <2> QED BY <1>1, <2>1, MoveStep
<1>4. ~ClPending(c) BY <1>1 DEF ClPending
<1> QED BY <1>1, <1>2, <1>3, <1>4, GiveSteers

\* A file that is written has a version the watcher has not seen.
LEMMA WrittenOK ==
    ASSUME Typed, FileInv, UNCHANGED watch, file'.version = file.version + 1
    PROVE  FileInv'
<1>1. watch.stamp \in Nat /\ watch.seen \in Nat /\ file.version \in Nat BY DEF Typed
<1>2. watch.stamp <= file'.version /\ watch.stamp # file'.version BY <1>1 DEF FileInv
<1>3. watch.pc # "idle" => watch.stamp < watch.seen /\ watch.seen <= file'.version /\ watch.seen # file'.version
  BY <1>1 DEF FileInv
<1> QED BY <1>2, <1>3 DEF FileInv

LEMMA WriteConfigOK ==
    ASSUME Typed, FileInv, UNCHANGED watch, NEW n \in Config, WriteConfig(n)
    PROVE  FileInv' /\ cfg' \in Config /\ file' \in [c : Config, valid : BOOLEAN, version : Nat] /\ cfg' = n
<1>1. file.version \in Nat BY DEF Typed
<1>2. cfg' = n /\ file' = [c |-> n, valid |-> TRUE, version |-> file.version + 1] BY DEF WriteConfig
<1>3. file'.version = file.version + 1 /\ file.version + 1 \in Nat BY <1>1, <1>2
<1>4. file' \in [c : Config, valid : BOOLEAN, version : Nat] BY <1>2, <1>3
<1> QED BY <1>2, <1>3, <1>4, WrittenOK

LEMMA GiveConfigOK == ASSUME MarketInv, NEW c \in Client, GiveConfig(c) PROVE MarketInv'
<1>0. TypeOK /\ Typed /\ Locks /\ Held /\ LoopInv /\ JobInv /\ StopInv /\ DownInv /\ ClearInv /\ DbInv /\ FileInv
  BY Parts
<1>1. /\ cl[c].pc = "config" /\ jobMu = Free
      /\ UNCHANGED <<clRest, auto, loop, job, jobMu, serviceMu, stock, wiped>>
  BY DEF GiveConfig, loopVars, lockVars, stockVars
<1>2. CASE Move(c, "idle") /\ UNCHANGED <<cfg, file>>
  <2>1. "idle" \in CmdPC \ {"config", "delete", "job"} BY DEF CmdPC
  <2>2. ClientStep(c) BY <1>1, <1>2, <2>1, MoveStep
  <2>3. ~ClPending(c) BY <1>1 DEF ClPending
  <2> QED BY <1>1, <1>2, <2>2, <2>3, ClientOnly
<1>3. ASSUME NEW e \in BOOLEAN, NEW s \in 0..1, NEW pc \in {"startauto", "stopauto", "reconcile"},
             ~e => pc \in {"stopauto", "reconcile"},
             WriteConfig([cfg EXCEPT !.enabled = e, !.schedule = s]),
             Put(c, Cmd(cl[c].op, pc, cfg, [cfg EXCEPT !.enabled = e, !.schedule = s]))
      PROVE  MarketInv'
  <2>1. PICK n : n = [cfg EXCEPT !.enabled = e, !.schedule = s] OBVIOUS
  <2>2. n \in Config /\ n.enabled = e /\ n.db = cfg.db BY <1>0, <2>1 DEF Typed, Config
  <2>3. UNCHANGED <<watch, db, ensuring, rebuild, main>> BY <1>1 DEF clRest
  <2>4. FileInv' /\ cfg' \in Config /\ file' \in [c : Config, valid : BOOLEAN, version : Nat] /\ cfg' = n
    BY <1>0, <1>3, <2>1, <2>2, <2>3, WriteConfigOK
  <2>5. /\ cl' \in ClType /\ cl'[c] = Cmd(cl[c].op, pc, cfg, n) /\ \A x \in Client : x # c => cl'[x] = cl[x]
    <3>1. cl \in ClType /\ cfg \in Config BY <1>0 DEF Typed, ClType
    <3>2. cl[c].op \in Ops \cup {"none"} BY <3>1 DEF ClType
    <3>3. Cmd(cl[c].op, pc, cfg, n) \in [op : Ops \cup {"none"}, pc : CmdPC, prev : Config, next : Config]
      BY <1>3, <2>2, <3>1, <3>2 DEF Cmd, CmdPC
    <3> QED BY <1>3, <2>1, <3>1, <3>3 DEF Put, ClType
  <2>6. cl'[c].pc = pc /\ cl'[c].next = n BY <2>5 DEF Cmd
  <2>7. job[c] = "idle" /\ job \in [Owner -> JobPC] BY <1>0, <1>1 DEF JobInv, Typed
  <2>8. ClientStep(c) BY <1>1, <1>3, <2>5, <2>6, <2>7 DEF ClientStep, Inside
  <2>9. Locks' /\ JobInv' BY <1>0, <1>1, <2>8, ClientStepOK DEF JobInv
  <2>10. Typed' BY <1>0, <1>1, <2>3, <2>4, <2>5 DEF Typed, ClType
  <2>11. StopInv'
    <3>1. CASE e
      <4>1. cfg'.enabled BY <2>2, <2>4, <3>1
      <4> QED BY <4>1 DEF StopInv
    <3>2. CASE ~e
      <4>1. StopPending' BY <1>3, <2>2, <2>6, <3>2 DEF StopPending
      <4> QED BY <4>1 DEF StopInv
    <3> QED BY <3>1, <3>2
  <2>12. DbInv' BY <1>0, <2>2, <2>3, <2>4 DEF DbInv
  <2> QED BY <1>0, <1>1, <2>3, <2>4, <2>9, <2>10, <2>11, <2>12, TypePartsNext, LoopFrame, DownFrame, ClearFrame
          DEF MarketInv
<1>4. cl[c].op \in {"start", "stop", "update"} /\ cfg.schedule \in 0..1
  BY <1>0, <1>1 DEF JobInv, Typed, Config
<1>5. CASE cl[c].op = "start"
  <2>1. \/ Move(c, "idle") /\ UNCHANGED <<cfg, file>>
        \/ \E e \in {TRUE}, s \in {cfg.schedule} :
             /\ WriteConfig([cfg EXCEPT !.enabled = e, !.schedule = s])
             /\ Put(c, Cmd(cl[c].op, "startauto", cfg, [cfg EXCEPT !.enabled = e, !.schedule = s]))
    BY <1>5 DEF GiveConfig
  <2> QED BY <1>2, <1>3, <1>4, <2>1
<1>6. CASE cl[c].op = "stop"
  <2>1. \/ Move(c, "idle") /\ UNCHANGED <<cfg, file>>
        \/ \E e \in {FALSE}, s \in {cfg.schedule} :
             /\ WriteConfig([cfg EXCEPT !.enabled = e, !.schedule = s])
             /\ Put(c, Cmd(cl[c].op, "stopauto", cfg, [cfg EXCEPT !.enabled = e, !.schedule = s]))
    BY <1>6 DEF GiveConfig
  <2> QED BY <1>2, <1>3, <1>4, <2>1
<1>7. CASE cl[c].op = "update"
  <2>1. \/ Move(c, "idle") /\ UNCHANGED <<cfg, file>>
        \/ \E e \in BOOLEAN, s \in 0..1 :
             /\ WriteConfig([cfg EXCEPT !.enabled = e, !.schedule = s])
             /\ Put(c, Cmd(cl[c].op, "reconcile", cfg, [cfg EXCEPT !.enabled = e, !.schedule = s]))
    BY <1>7 DEF GiveConfig
  <2> QED BY <1>2, <1>3, <1>4, <2>1
<1> QED BY <1>4, <1>5, <1>6, <1>7

\* Who deletes the stock holds jobMu, so no job of another kind lists.
LEMMA DeletedOK ==
    ASSUME MarketInv, NEW o \in Owner, Holds(o), job[o] \notin Inside, DeleteStock \/ DeleteFails,
           UNCHANGED loop, \A x \in Owner : job'[x] \in Inside <=> job[x] \in Inside
    PROVE  ClearInv' /\ stock' \in BOOLEAN /\ wiped' \in BOOLEAN
<1>0. Typed /\ Held /\ ClearInv BY Parts
<1>1. \A x \in Owner : job'[x] \notin Inside
  <2>1. jobMu = o BY <1>0 DEF Held
  <2>2. \A x \in Owner : job[x] \in Inside => jobMu = x BY <1>0 DEF Held, Holds
  <2> QED BY <2>1, <2>2
<1>2. CASE DeleteStock
  <2>1. stock' = FALSE BY <1>2 DEF DeleteStock
  <2>2. wiped' \in BOOLEAN /\ (wiped' => \A l \in Loops : Live(l)' => loop'[l].cancelled)
    BY <1>2 DEF DeleteStock, Live
  <2> QED BY <1>1, <2>1, <2>2 DEF ClearInv, Inside
<1>3. CASE DeleteFails
  <2>a. stock \in BOOLEAN /\ wiped \in BOOLEAN BY <1>0 DEF Typed
  <2>b. (stock' = stock \/ stock' = FALSE) /\ wiped' = wiped BY <1>3 DEF DeleteFails
  <2>c. CASE stock' = stock
    <3>1. stock' \in BOOLEAN BY <2>a, <2>c
    <3> QED BY <1>0, <1>1, <2>a, <2>b, <2>c, <3>1 DEF ClearInv, Live, Inside
  <2>d. CASE stock' = FALSE
    <3>1. stock' \in BOOLEAN BY <2>d
    <3>2. wiped' => \A l \in Loops : Live(l)' => loop'[l].cancelled BY <1>0, <2>b DEF ClearInv, Live
    <3> QED BY <1>1, <2>a, <2>b, <2>d, <3>1, <3>2 DEF ClearInv, Inside
  <2> QED BY <2>b, <2>c, <2>d
<1> QED BY <1>2, <1>3

LEMMA GiveDeleteOK == ASSUME MarketInv, NEW c \in Client, GiveDelete(c) PROVE MarketInv'
<1>0. TypeOK /\ Typed /\ Locks /\ Held /\ LoopInv /\ JobInv /\ StopInv /\ DownInv /\ DbInv /\ FileInv
  BY Parts
<1>1. /\ cl[c].pc = "delete" /\ jobMu' = Free /\ (DeleteStock \/ DeleteFails)
      /\ UNCHANGED <<clRest, cfg, file, auto, loop, job, serviceMu>>
  BY DEF GiveDelete, loopVars
<1>2. PICK pc \in {"idle", "service", "resume"} : Move(c, pc) BY DEF GiveDelete
<1>3. /\ cl' \in ClType /\ \A x \in Client : x # c => cl'[x] = cl[x]
      /\ cl'[c].pc = pc
  BY <1>0, <1>2, MoveOK DEF CmdPC
<1>4. job \in [Owner -> JobPC] /\ job[c] = "idle" /\ job[c] \notin Inside
  BY <1>0, <1>1 DEF Typed, JobInv, Inside
<1>5. ClientStep(c) BY <1>1, <1>2, <1>3, <1>4 DEF ClientStep
<1>6. Locks' /\ JobInv' BY <1>0, <1>1, <1>5, ClientStepOK DEF JobInv
<1>7. ClearInv' /\ stock' \in BOOLEAN /\ wiped' \in BOOLEAN
  <2>1. Holds(c) /\ c \in Owner BY <1>1, Distinct DEF Holds
  <2> QED BY <1>1, <1>4, <2>1, DeletedOK
<1>8. StopPending => StopPending' BY <1>1, <1>5, PendingKept DEF ClPending
<1>9. UNCHANGED <<watch, db, ensuring, rebuild, main>> BY <1>1 DEF clRest
<1>10. Typed' BY <1>0, <1>1, <1>3, <1>7, <1>9 DEF Typed, ClType
<1>11. StopInv' BY <1>0, <1>1, <1>8 DEF StopInv, Live
<1> QED BY <1>0, <1>1, <1>6, <1>7, <1>9, <1>10, <1>11, TypePartsNext, LoopFrame, DownFrame, DbFrame, FileFrame
        DEF MarketInv

LEMMA HandlerOK == ASSUME MarketInv, NEW c \in Client, Handler(c) PROVE MarketInv'
<1>1. c \in Owner BY Distinct
<1> QED BY <1>1, GiveConfigOK, GiveReconcileOK, GiveSwitchOK, GiveStopOK, GiveLockOK, GiveDeleteOK, GivePlainOK,
           GiveJobEndsOK, JobOK DEF Handler

-----------------------------------------------------------------------------
(* The rebuild.                                                            *)

RebuildType == [pc : CmdPC, was : BOOLEAN, done : 0..MaxLoops]

\* What a step of the rebuild does to it, to its job and to the mutexes.
RebuildStep ==
    /\ rebuild' \in RebuildType
    /\ job' \in [Owner -> JobPC] /\ \A x \in Owner : x # Rebuilder => job'[x] = job[x]
    /\ job'[Rebuilder] \notin Inside /\ job[Rebuilder] \notin Inside
    /\ job'[Rebuilder] # "idle" => rebuild'.pc = "job"
    /\ \/ UNCHANGED jobMu /\ ((rebuild'.pc = "delete") <=> (rebuild.pc = "delete"))
       \/ jobMu = Free /\ jobMu' = Rebuilder /\ rebuild'.pc = "delete"
       \/ rebuild.pc = "delete" /\ jobMu' = Free /\ rebuild'.pc # "delete"
    /\ serviceMu' \in {serviceMu, Free, Rebuilder}
    /\ UNCHANGED rbRest

LEMMA RebuildStepOK ==
    ASSUME MarketInv, RebuildStep,
           \A l \in Loops : job[l] # "idle" => loop'[l].pc \in {"collect", "restock"}
    PROVE  Locks' /\ JobInv'
<1>0. Typed /\ Locks /\ Held /\ JobInv BY Parts
<1>1. UNCHANGED <<watch, cl>> BY DEF RebuildStep, rbRest
<1>2. Rebuilder \in Owner /\ Rebuilder \notin Client /\ Rebuilder \notin Loops BY Distinct
<1>3. Holds(Rebuilder) <=> rebuild.pc = "delete" BY <1>2 DEF RebuildStep, Holds
<1>4. Holds(Rebuilder)' <=> rebuild'.pc = "delete" BY <1>2 DEF RebuildStep, Holds
<1>5. \A x \in Owner : x # Rebuilder => (Holds(x)' <=> Holds(x)) BY <1>1 DEF RebuildStep, Holds
<1>6. Held' /\ jobMu' \in {Free, Watcher} \cup Owner /\ (jobMu = Watcher => jobMu' = Watcher)
  <2>1. jobMu \in {Free, Watcher} \cup Owner BY <1>0 DEF Locks
  <2>2. \/ UNCHANGED jobMu /\ (Holds(Rebuilder)' <=> Holds(Rebuilder))
        \/ jobMu = Free /\ jobMu' = Rebuilder /\ Holds(Rebuilder)'
        \/ Holds(Rebuilder) /\ jobMu' = Free /\ ~Holds(Rebuilder)'
    BY <1>3, <1>4 DEF RebuildStep
  <2> QED BY <1>0, <1>2, <1>5, <2>1, <2>2, HeldStep
<1>7. serviceMu' \in {Free} \cup Owner BY <1>0, <1>2 DEF RebuildStep, Locks
<1>8. JobInv'
  <2>1. \A l \in Loops : job'[l] # "idle" => loop'[l].pc \in {"collect", "restock"}
    BY <1>2, Distinct DEF RebuildStep
  <2>2. \A x \in Client : job'[x] # "idle" => cl'[x].pc = "job"
    BY <1>0, <1>1, <1>2, Distinct DEF RebuildStep, JobInv
  <2>3. job'[Rebuilder] # "idle" => rebuild'.pc = "job" BY DEF RebuildStep
  <2>4. watch'.pc \in {"tables", "ensure"} => jobMu' = Watcher BY <1>0, <1>1, <1>6 DEF JobInv
  <2>5. \A x \in Client : cl'[x].pc = "config" => cl'[x].op \in {"start", "stop", "update"}
    BY <1>0, <1>1 DEF JobInv
  <2> QED BY <2>1, <2>2, <2>3, <2>4, <2>5 DEF JobInv
<1> QED BY <1>6, <1>7, <1>8 DEF Locks

LEMMA RebuildOnly ==
    ASSUME MarketInv, RebuildStep, UNCHANGED <<cfg, file, auto, loop, stock, wiped>>
    PROVE  MarketInv'
<1>0. TypeOK /\ Typed /\ Locks /\ Held /\ LoopInv /\ JobInv /\ StopInv /\ DownInv /\ ClearInv /\ DbInv /\ FileInv
  BY Parts
<1>1. UNCHANGED <<watch, db, ensuring, cl, main>> BY DEF RebuildStep, rbRest, dbVars
<1>2. Locks' /\ JobInv' BY <1>0, RebuildStepOK DEF JobInv
<1>3. Typed'
  <2>1. rebuild' \in RebuildType /\ job' \in [Owner -> JobPC] BY DEF RebuildStep
  <2> QED BY <1>0, <1>1, <2>1 DEF Typed, RebuildType
<1>4. ClearInv'
  <2>1. \A x \in Owner \ Loops : job'[x] \in Inside => job[x] \in Inside BY DEF RebuildStep
  <2>2. \A x \in Owner : job'[x] = "listing" => job[x] = "listing" BY DEF RebuildStep, Inside
  <2> QED BY <1>0, <2>1, <2>2 DEF ClearInv, Live, Inside
<1> QED BY <1>0, <1>1, <1>2, <1>3, <1>4, TypePartsNext, LoopFrame, StopFrame, DownFrame, DbFrame, FileFrame
        DEF MarketInv

LEMMA RebuildSteers ==
    ASSUME MarketInv, RebuildStep, Steered, UNCHANGED <<cfg, file, job, stock>>
    PROVE  MarketInv'
<1>0. TypeOK /\ Typed /\ Locks /\ Held /\ LoopInv /\ JobInv /\ DbInv /\ FileInv BY Parts
<1>1. UNCHANGED <<watch, db, ensuring, cl, main>> /\ rebuild' \in RebuildType BY DEF RebuildStep, rbRest, dbVars
<1>2. StopPending => StopPending' BY <1>1 DEF StopPending
<1>3. /\ auto' \in AutoType /\ loop' \in LoopType /\ wiped' \in BOOLEAN
      /\ LoopInv' /\ StopInv' /\ DownInv' /\ ClearInv'
      /\ \A k \in Loops : job'[k] # "idle" => loop'[k].pc \in {"collect", "restock"}
  BY <1>1, <1>2, SteerOK
<1>4. Locks' /\ JobInv' BY <1>3, RebuildStepOK
<1>5. Typed' BY <1>0, <1>1, <1>3 DEF Typed, RebuildType
<1> QED BY <1>0, <1>1, <1>3, <1>4, <1>5, TypePartsNext, DbFrame, FileFrame DEF MarketInv

\* A rebuild that goes on, with its job and jobMu as they were.
LEMMA RebuildMoves ==
    ASSUME MarketInv, rebuild' \in RebuildType, rebuild.pc \notin {"delete", "job"}, rebuild'.pc # "delete",
           UNCHANGED <<rbRest, job, jobMu>>, serviceMu' \in {serviceMu, Free, Rebuilder}
    PROVE  RebuildStep
<1>0. Typed /\ Locks /\ JobInv BY Parts
<1>1. job[Rebuilder] = "idle" /\ job \in [Owner -> JobPC] BY <1>0 DEF JobInv, Typed
<1> QED BY <1>1 DEF RebuildStep, Inside

LEMMA Next1OK ==
    ASSUME Typed, NEW pc \in CmdPC, Next1(pc)
    PROVE  rebuild' \in RebuildType /\ rebuild'.pc = pc
BY DEF Typed, Next1, RebuildType

LEMMA RebuildStartOK == ASSUME MarketInv, RebuildStart PROVE MarketInv'
<1>1. /\ rebuild.pc = "idle" /\ rebuild' = [pc |-> "ifstop", was |-> FALSE, done |-> 0]
      /\ UNCHANGED <<rbRest, cfg, file, auto, loop, job, jobMu, serviceMu, stock, wiped>>
  BY DEF RebuildStart, loopVars, lockVars, stockVars
<1>2. rebuild' \in RebuildType /\ rebuild'.pc = "ifstop" BY <1>1 DEF RebuildType, CmdPC
<1>3. RebuildStep BY <1>1, <1>2, RebuildMoves
<1> QED BY <1>1, <1>3, RebuildOnly

\* The steps that only go on.
LEMMA RebuildPlainOK ==
    ASSUME MarketInv, RebuildIfStop \/ RebuildWait \/ RebuildService
    PROVE  MarketInv'
<1>0. Typed BY Parts
<1>1. /\ rebuild.pc \in {"ifstop", "wait", "service"} /\ serviceMu' \in {serviceMu, Free, Rebuilder}
      /\ UNCHANGED <<rbRest, cfg, file, auto, loop, job, jobMu, stock, wiped>>
  BY DEF RebuildIfStop, RebuildWait, RebuildService, loopVars, lockVars, stockVars
<1>2. rebuild' \in RebuildType /\ rebuild'.pc # "delete"
  <2>1. CASE \E pc \in {"finish", "lock", "serving"} : Next1(pc)
    BY <1>0, <2>1, Next1OK DEF CmdPC
  <2>2. CASE rebuild' = [pc |-> IF auto.run THEN "stopauto" ELSE "lock", was |-> auto.run, done |-> 0]
    <3>1. auto.run \in BOOLEAN BY <1>0 DEF Typed, AutoType
    <3> QED BY <2>2, <3>1 DEF RebuildType, CmdPC
  <2> QED BY <2>1, <2>2 DEF RebuildIfStop, RebuildWait, RebuildService
<1>3. RebuildStep BY <1>1, <1>2, RebuildMoves
<1> QED BY <1>1, <1>3, RebuildOnly

LEMMA RebuildStopOK == ASSUME MarketInv, RebuildStop PROVE MarketInv'
<1>0. TypeOK /\ Typed /\ LoopInv BY Parts
<1>1. /\ rebuild.pc = "stopauto" /\ StopAuto
      /\ rebuild' = [rebuild EXCEPT !.pc = IF auto.run THEN "wait" ELSE "lock", !.done = auto.done]
      /\ UNCHANGED <<rbRest, cfg, file, job, jobMu, serviceMu, stock, wiped>>
  BY DEF RebuildStop, lockVars, stockVars
<1>2. Steered BY <1>0, <1>1, StopAutoOK
<1>3. rebuild' \in RebuildType /\ rebuild'.pc # "delete"
  <2>1. rebuild \in RebuildType /\ auto.done \in 0..MaxLoops BY <1>0, Types DEF Typed, RebuildType
  <2>2. rebuild'.pc = IF auto.run THEN "wait" ELSE "lock" BY <1>1, <2>1 DEF RebuildType
  <2> QED BY <1>1, <2>1, <2>2 DEF RebuildType, CmdPC
<1>4. RebuildStep BY <1>1, <1>3, RebuildMoves
<1> QED BY <1>1, <1>2, <1>4, RebuildSteers

LEMMA RebuildLockOK == ASSUME MarketInv, RebuildLock PROVE MarketInv'
<1>0. Typed /\ JobInv BY Parts
<1>1. /\ rebuild.pc = "lock" /\ jobMu = Free /\ jobMu' = Rebuilder /\ Next1("delete")
      /\ UNCHANGED <<rbRest, cfg, file, auto, loop, job, serviceMu, stock, wiped>>
  BY DEF RebuildLock, loopVars, stockVars
<1>2. rebuild' \in RebuildType /\ rebuild'.pc = "delete" BY <1>0, <1>1, Next1OK DEF CmdPC
<1>3. job[Rebuilder] = "idle" /\ job \in [Owner -> JobPC] BY <1>0, <1>1 DEF JobInv, Typed
<1>4. RebuildStep BY <1>1, <1>2, <1>3 DEF RebuildStep, Inside
<1> QED BY <1>1, <1>4, RebuildOnly

LEMMA RebuildClearOK == ASSUME MarketInv, RebuildClear PROVE MarketInv'
<1>0. TypeOK /\ Typed /\ Locks /\ Held /\ LoopInv /\ JobInv /\ StopInv /\ DownInv /\ DbInv /\ FileInv
  BY Parts
<1>1. /\ rebuild.pc = "delete" /\ jobMu' = Free /\ UNCHANGED <<rbRest, auto, loop, job, serviceMu>>
  BY DEF RebuildClear, loopVars
<1>2. rebuild' \in RebuildType /\ rebuild'.pc # "delete"
  BY <1>0, Next1OK DEF RebuildClear, CmdPC
<1>3. job[Rebuilder] = "idle" /\ job \in [Owner -> JobPC] BY <1>0, <1>1 DEF JobInv, Typed
<1>4. RebuildStep BY <1>1, <1>2, <1>3 DEF RebuildStep, Inside
<1>5. UNCHANGED <<watch, db, ensuring, cl, main>> BY <1>1 DEF rbRest, dbVars
<1>6. CASE UNCHANGED <<cfg, file, stockVars>> BY <1>1, <1>4, <1>6, RebuildOnly DEF stockVars
<1>7. CASE WriteConfig(cfg) /\ (DeleteStock \/ DeleteFails)
  <2>1. cfg \in Config BY <1>0 DEF Typed
  <2>2. FileInv' /\ cfg' \in Config /\ file' \in [c : Config, valid : BOOLEAN, version : Nat] /\ cfg' = cfg
    BY <1>0, <1>5, <1>7, <2>1, WriteConfigOK
  <2>3. ClearInv' /\ stock' \in BOOLEAN /\ wiped' \in BOOLEAN
    <3>1. Holds(Rebuilder) /\ Rebuilder \in Owner /\ job[Rebuilder] \notin Inside
      BY <1>1, <1>3, Distinct DEF Holds, Inside
    <3> QED BY <1>1, <1>7, <3>1, DeletedOK
  <2>4. Locks' /\ JobInv' BY <1>0, <1>1, <1>4, RebuildStepOK DEF JobInv
  <2>5. Typed' BY <1>0, <1>1, <1>2, <1>5, <2>2, <2>3 DEF Typed, RebuildType
  <2> QED BY <1>0, <1>1, <1>5, <2>2, <2>3, <2>4, <2>5, TypePartsNext, LoopFrame, StopFrame, DownFrame, DbFrame
          DEF MarketInv
<1> QED BY <1>6, <1>7 DEF RebuildClear

LEMMA RebuildJobOK == ASSUME MarketInv, RebuildServed \/ RebuildJobEnds PROVE MarketInv'
<1>0. Typed /\ JobInv BY Parts
<1>1. /\ rebuild.pc \in {"serving", "job"} /\ serviceMu' \in {serviceMu, Free}
      /\ UNCHANGED <<rbRest, cfg, file, auto, loop, jobMu, stock, wiped>>
  BY DEF RebuildServed, RebuildJobEnds, loopVars, lockVars, stockVars
<1>2. job \in [Owner -> JobPC] /\ Rebuilder \in Owner BY <1>0, Distinct DEF Typed
<1>3. job[Rebuilder] \notin Inside BY <1>0 DEF RebuildServed, RebuildJobEnds, JobInv, Inside
<1>4. ASSUME NEW pc \in {"finish", "job"}, Next1(pc), NEW j \in {"check", "idle"},
             job' = [job EXCEPT ![Rebuilder] = j], j = "check" => pc = "job"
      PROVE  MarketInv'
  <2>1. rebuild' \in RebuildType /\ rebuild'.pc = pc BY <1>0, <1>4, Next1OK DEF CmdPC
  <2>2. /\ job' \in [Owner -> JobPC] /\ job'[Rebuilder] = j /\ \A x \in Owner : x # Rebuilder => job'[x] = job[x]
    BY <1>2, <1>4 DEF JobPC
  <2>3. RebuildStep BY <1>1, <1>3, <1>4, <2>1, <2>2 DEF RebuildStep, Inside
  <2> QED BY <1>1, <2>3, RebuildOnly
<1>5. CASE RebuildServed /\ Next1("finish") /\ UNCHANGED job
  <2>1. job[Rebuilder] = "idle" BY <1>0, <1>5 DEF RebuildServed, JobInv
  <2>2. job' = [job EXCEPT ![Rebuilder] = "idle"] BY <1>2, <1>5, <2>1
  <2> QED BY <1>4, <1>5, <2>2
<1>6. CASE RebuildServed /\ Next1("job") /\ job' = [job EXCEPT ![Rebuilder] = "check"] BY <1>4, <1>6
<1>7. CASE RebuildJobEnds BY <1>4, <1>7 DEF RebuildJobEnds
<1> QED BY <1>5, <1>6, <1>7 DEF RebuildServed

LEMMA RebuildFinishOK == ASSUME MarketInv, RebuildFinish PROVE MarketInv'
<1>0. TypeOK /\ Typed /\ LoopInv BY Parts
<1>1. /\ rebuild.pc = "finish" /\ rebuild' = [pc |-> "idle", was |-> FALSE, done |-> 0]
      /\ UNCHANGED <<rbRest, cfg, file, job, jobMu, serviceMu, stock>>
  BY DEF RebuildFinish, lockVars
<1>2. rebuild' \in RebuildType /\ rebuild'.pc # "delete" BY <1>1 DEF RebuildType, CmdPC
<1>3. RebuildStep BY <1>1, <1>2, RebuildMoves
<1>4. CASE rebuild.was
  <2>1. Steered BY <1>0, <1>4, StartAutoOK DEF RebuildFinish
  <2> QED BY <1>1, <1>3, <2>1, RebuildSteers
<1>5. CASE ~rebuild.was BY <1>1, <1>3, <1>5, RebuildOnly DEF RebuildFinish, loopVars
<1> QED BY <1>4, <1>5

LEMMA RebuildOK == ASSUME MarketInv, Rebuild PROVE MarketInv'
<1>1. Rebuilder \in Owner BY Distinct
<1> QED BY <1>1, RebuildPlainOK, RebuildStopOK, RebuildLockOK, RebuildClearOK, RebuildJobOK, RebuildFinishOK, JobOK
        DEF Rebuild

-----------------------------------------------------------------------------
(* The watcher of the file.                                                *)

WatchType == [pc : CmdPC, stamp : Nat, seen : Nat, prev : Config, next : Config]
WPending == \/ watch.pc = "stopauto"
            \/ watch.pc \in {"tables", "ensure", "reconcile"} /\ ~watch.next.enabled

\* What a step of the watcher does to it and to jobMu.
WatchStep ==
    /\ watch' \in WatchType /\ FileInv'
    /\ UNCHANGED jobMu \/ (jobMu \in {Free, Watcher} /\ jobMu' \in {Free, Watcher})
    /\ watch'.pc \in {"tables", "ensure"} => jobMu' = Watcher
    /\ UNCHANGED <<wRest, file>>

LEMMA WatchStepOK ==
    ASSUME MarketInv, WatchStep,
           \A l \in Loops : job[l] # "idle" => loop'[l].pc \in {"collect", "restock"}
    PROVE  Locks' /\ JobInv'
<1>0. Typed /\ Locks /\ Held /\ JobInv BY Parts
<1>1. UNCHANGED <<cl, rebuild, job, serviceMu>> BY DEF WatchStep, wRest
<1>2. \A x \in Owner : Holds(x)' <=> Holds(x) BY <1>1 DEF Holds
<1>3. \A x \in Owner : (jobMu' = x) <=> (jobMu = x) BY Distinct DEF WatchStep
<1>4. Held' BY <1>0, <1>2, <1>3 DEF Held
<1>5. jobMu' \in {Free, Watcher} \cup Owner BY <1>0 DEF WatchStep, Locks
<1>6. JobInv' BY <1>0, <1>1 DEF WatchStep, JobInv
<1> QED BY <1>0, <1>1, <1>4, <1>5, <1>6 DEF Locks

LEMMA WatchPending ==
    ASSUME WatchStep, WPending => WPending'
    PROVE  StopPending => StopPending'
BY DEF WatchStep, wRest, WPending, StopPending

LEMMA WatchOnly ==
    ASSUME MarketInv, WatchStep, UNCHANGED <<cfg, auto, loop, wiped>>, WPending => WPending',
           DbInv', db' \in DbType, ensuring' \in EnsuringType
    PROVE  MarketInv'
<1>0. TypeOK /\ Typed /\ Locks /\ Held /\ LoopInv /\ JobInv /\ StopInv /\ DownInv /\ ClearInv BY Parts
<1>1. UNCHANGED <<cl, rebuild, main, job, stock, file>> /\ watch' \in WatchType /\ FileInv'
  BY DEF WatchStep, wRest
<1>2. Locks' /\ JobInv' BY <1>0, WatchStepOK DEF JobInv
<1>3. Typed' BY <1>0, <1>1 DEF Typed, WatchType, DbType, EnsuringType
<1>4. StopInv' BY <1>0, WatchPending DEF StopInv, Live
<1> QED BY <1>0, <1>1, <1>2, <1>3, <1>4, TypePartsNext, LoopFrame, DownFrame, ClearFrame DEF MarketInv

LEMMA WatchTypes ==
    ASSUME Typed
    PROVE  /\ watch \in WatchType /\ watch.pc \in CmdPC /\ watch.stamp \in Nat /\ watch.seen \in Nat
           /\ watch.next \in Config /\ watch.prev \in Config /\ watch.next.enabled \in BOOLEAN
           /\ watch.prev.enabled \in BOOLEAN
           /\ file.version \in Nat /\ file.c \in Config /\ file.valid \in BOOLEAN
           /\ cfg \in Config /\ cfg.enabled \in BOOLEAN
           /\ db \in DbType /\ ensuring \in EnsuringType
BY DEF Typed, WatchType, Config, DbType, EnsuringType

LEMMA DbStill ==
    ASSUME MarketInv, UNCHANGED <<dbVars, cfg>>
    PROVE  DbInv' /\ db' \in DbType /\ ensuring' \in EnsuringType
BY Parts, DbFrame, WatchTypes DEF dbVars

LEMMA WatchStatOK == ASSUME MarketInv, WatchStat PROVE MarketInv'
<1>0. Typed /\ Locks /\ JobInv /\ FileInv BY Parts
<1>1. /\ watch.pc = "idle" /\ watch.stamp # file.version
      /\ watch' = [watch EXCEPT !.pc = "read", !.seen = file.version]
      /\ UNCHANGED <<wRest, cfg, file, auto, loop, jobMu, dbVars, wiped>>
  BY DEF WatchStat, loopVars
<1>2. watch' \in WatchType /\ watch'.pc = "read" /\ watch'.seen = file.version /\ watch'.stamp = watch.stamp
  BY <1>0, <1>1, WatchTypes DEF WatchType, CmdPC
<1>3. watch.stamp < file.version /\ file.version <= file.version
  <2>1. watch.stamp <= file.version BY <1>0 DEF FileInv
  <2>2. watch.stamp \in Nat /\ file.version \in Nat BY <1>0, WatchTypes
  <2>3. watch.stamp # file.version BY <1>1
  <2> QED BY <2>1, <2>2, <2>3
<1>4. FileInv'
  <2>1. watch.stamp <= file.version BY <1>0 DEF FileInv
  <2> QED BY <1>1, <1>2, <1>3, <2>1 DEF FileInv
<1>5. WatchStep BY <1>1, <1>2, <1>4 DEF WatchStep
<1>6. ~WPending BY <1>1 DEF WPending
<1> QED BY <1>1, <1>5, <1>6, WatchOnly, DbStill

LEMMA WatchReadOK == ASSUME MarketInv, WatchRead PROVE MarketInv'
<1>0. Typed /\ Locks /\ JobInv /\ FileInv BY Parts
<1>1. /\ watch.pc = "read"
      /\ watch' = IF file.valid THEN [watch EXCEPT !.pc = "lock", !.next = file.c]
                                ELSE [watch EXCEPT !.pc = "idle"]
      /\ UNCHANGED <<wRest, cfg, file, auto, loop, jobMu, dbVars, wiped>>
  BY DEF WatchRead, loopVars
<1>2. watch.stamp < watch.seen /\ watch.seen <= file.version /\ watch.stamp <= file.version
  BY <1>0, <1>1 DEF FileInv
<1>3. watch.stamp # file.version BY <1>0, <1>2, WatchTypes
<1>4. watch' \in WatchType /\ FileInv' /\ watch'.pc \in {"lock", "idle"}
  <2>1. CASE file.valid
    <3>1. /\ watch' \in WatchType /\ watch'.pc = "lock" /\ watch'.seen = watch.seen /\ watch'.stamp = watch.stamp
          /\ watch'.next = file.c
      BY <1>0, <1>1, <2>1, WatchTypes DEF WatchType, CmdPC
    <3> QED BY <1>1, <1>2, <3>1 DEF FileInv
  <2>2. CASE ~file.valid
    <3>1. watch' \in WatchType /\ watch'.pc = "idle" /\ watch'.stamp = watch.stamp
      BY <1>0, <1>1, <2>2, WatchTypes DEF WatchType, CmdPC
    <3> QED BY <1>1, <1>2, <1>3, <3>1 DEF FileInv
  <2> QED BY <2>1, <2>2
<1>5. WatchStep BY <1>1, <1>4 DEF WatchStep
<1>6. ~WPending BY <1>1 DEF WPending
<1> QED BY <1>1, <1>5, <1>6, WatchOnly, DbStill

LEMMA WatchConfigOK == ASSUME MarketInv, WatchConfig PROVE MarketInv'
<1>0. TypeOK /\ Typed /\ Locks /\ Held /\ LoopInv /\ JobInv /\ StopInv /\ DownInv /\ ClearInv /\ DbInv /\ FileInv
  BY Parts
<1>1. /\ watch.pc = "lock" /\ jobMu = Free /\ cfg' = watch.next
      /\ UNCHANGED <<wRest, file, auto, loop, ensuring, wiped>>
  BY DEF WatchConfig, loopVars
<1>2. PICK pc \in {"tables", "reconcile"} : watch' = [watch EXCEPT !.pc = pc, !.prev = cfg]
  BY DEF WatchConfig
<1>3. /\ watch' \in WatchType /\ watch'.pc = pc /\ watch'.next = watch.next /\ watch'.seen = watch.seen
      /\ watch'.stamp = watch.stamp
  BY <1>0, <1>2, WatchTypes DEF WatchType, CmdPC
<1>4. FileInv' BY <1>0, <1>1, <1>3 DEF FileInv
<1>5. db' \in DbType /\ DbInv' /\ jobMu' \in {Free, Watcher} /\ (pc = "tables" => jobMu' = Watcher)
  <2>0. db.gen \in Nat /\ \A o \in Owner \cup {Watcher} : ensuring[o].gen \in Nat
    BY <1>0 DEF Typed
  <2>1. CASE cfg.db # watch.next.db
    <3>1. db' = [gen |-> db.gen + 1, ok |-> FALSE, init |-> "none", retry |-> FALSE] /\ jobMu' = Watcher
      BY <2>1 DEF WatchConfig
    <3>2. db' \in DbType /\ db'.gen = db.gen + 1 /\ db'.ok = FALSE BY <2>0, <3>1 DEF DbType
    <3>3. db.gen + 1 >= 1 BY <2>0
    <3>4. \A o \in Owner \cup {Watcher} : ensuring[o].gen <= db.gen + 1 /\ ensuring[o].gen # db.gen + 1
      BY <1>0, <2>0 DEF DbInv
    <3> QED BY <1>1, <3>1, <3>2, <3>3, <3>4 DEF DbInv
  <2>2. CASE cfg.db = watch.next.db
    <3>1. UNCHANGED <<db, jobMu>> /\ watch'.pc = "reconcile" BY <1>0, <2>2, WatchTypes DEF WatchConfig, WatchType
    <3>2. db' \in DbType BY <1>0, <3>1, WatchTypes
    <3>3. DbInv' BY <1>0, <1>1, <2>2, <3>1 DEF DbInv
    <3> QED BY <1>1, <1>3, <3>1, <3>2, <3>3
  <2> QED BY <2>1, <2>2
<1>6. WatchStep BY <1>1, <1>3, <1>4, <1>5 DEF WatchStep
<1>7. Locks' /\ JobInv' BY <1>0, <1>1, <1>6, WatchStepOK DEF JobInv
<1>8. UNCHANGED <<cl, rebuild, main, job, stock>> BY <1>1 DEF wRest
<1>9. Typed' BY <1>0, <1>1, <1>3, <1>5, <1>8, WatchTypes DEF Typed, WatchType, DbType, EnsuringType
<1>10. StopInv'
  <2>1. ~cfg'.enabled => StopPending' BY <1>1, <1>3 DEF StopPending
  <2> QED BY <2>1 DEF StopInv
<1> QED BY <1>0, <1>1, <1>4, <1>5, <1>7, <1>8, <1>9, <1>10, TypePartsNext, LoopFrame, DownFrame, ClearFrame
        DEF MarketInv

LEMMA WatchTablesOK == ASSUME MarketInv, WatchTables \/ WatchEnsure PROVE MarketInv'
<1>0. Typed /\ Locks /\ JobInv /\ DbInv /\ FileInv BY Parts
<1>1. /\ watch.pc \in {"tables", "ensure"} /\ UNCHANGED <<wRest, cfg, file, auto, loop, wiped>>
  BY DEF WatchTables, WatchEnsure, loopVars
<1>2. jobMu = Watcher BY <1>0, <1>1 DEF JobInv
<1>3. PICK pc \in {"ensure", "reconcile"} :
        Watch(pc) /\ (pc = "ensure" => jobMu' = Watcher) /\ jobMu' \in {Free, Watcher}
  BY <1>2 DEF WatchTables, WatchEnsure
<1>4. /\ watch' \in WatchType /\ watch'.pc = pc /\ watch'.next = watch.next /\ watch'.seen = watch.seen
      /\ watch'.stamp = watch.stamp
  BY <1>0, <1>3, WatchTypes DEF Watch, WatchType, CmdPC
<1>5. FileInv' BY <1>0, <1>1, <1>3, <1>4 DEF FileInv
<1>6. WatchStep BY <1>1, <1>2, <1>3, <1>4, <1>5 DEF WatchStep
<1>7. WPending => WPending' BY <1>1, <1>3, <1>4 DEF WPending
<1>8. DbInv' /\ db' \in DbType /\ ensuring' \in EnsuringType
  <2>1. Watcher \in Owner \cup {Watcher} /\ UNCHANGED cfg BY <1>1
  <2>2. CASE EnsureBegin(Watcher) BY <1>0, <2>1, <2>2, EnsureBeginOK
  <2>3. CASE EnsureEnd(Watcher) BY <1>0, <2>1, <2>3, EnsureEndOK
  <2>4. CASE UNCHANGED dbVars BY <2>1, <2>4, DbStill
  <2> QED BY <2>2, <2>3, <2>4 DEF WatchTables, WatchEnsure
<1> QED BY <1>1, <1>6, <1>7, <1>8, WatchOnly

\* Apply has returned.
LEMMA WatchDoneOK ==
    ASSUME MarketInv, watch.pc \notin {"idle", "read", "lock"}, WatchDone, UNCHANGED <<wRest, cfg, file, jobMu>>
    PROVE  WatchStep /\ watch'.pc = "idle"
<1>0. Typed /\ FileInv BY Parts
<1>1. Nothing \in Config BY DEF Nothing, Config, Databases
<1>2. watch' \in WatchType /\ watch'.pc = "idle" /\ watch'.stamp = watch.seen
  BY <1>0, <1>1, WatchTypes DEF WatchDone, WatchType, CmdPC
<1>3. FileInv' BY <1>0, <1>2 DEF FileInv
<1> QED BY <1>2, <1>3 DEF WatchStep

LEMMA WatchReconcileOK == ASSUME MarketInv, WatchReconcile PROVE MarketInv'
<1>0. Typed /\ Locks /\ JobInv /\ FileInv BY Parts
<1>1. PICK pc : pc = ReconcilePC(watch.prev, watch.next) OBVIOUS
<1>2. /\ watch.pc = "reconcile" /\ (IF pc = "idle" THEN WatchDone ELSE Watch(pc))
      /\ UNCHANGED <<wRest, cfg, file, auto, loop, jobMu, dbVars, wiped>>
  BY <1>1 DEF WatchReconcile, loopVars
<1>3. auto.run \in BOOLEAN BY <1>0 DEF Typed, AutoType
<1>4. pc \in {"stopauto", "restart", "startauto", "idle"} /\ (~watch.next.enabled => pc = "stopauto")
  BY <1>0, <1>1, <1>3, WatchTypes DEF ReconcilePC
<1>5. CASE pc = "idle"
  <2>1. WatchStep BY <1>2, <1>5, WatchDoneOK
  <2>2. ~WPending BY <1>2, <1>4, <1>5 DEF WPending
  <2> QED BY <1>2, <2>1, <2>2, WatchOnly, DbStill
<1>6. CASE pc # "idle"
  <2>1. /\ watch' \in WatchType /\ watch'.pc = pc /\ watch'.next = watch.next /\ watch'.seen = watch.seen
        /\ watch'.stamp = watch.stamp
    <3>1. watch' = [watch EXCEPT !.pc = pc] /\ pc \in CmdPC BY <1>2, <1>4, <1>6 DEF Watch, CmdPC
    <3> QED BY <1>0, <3>1, WatchTypes DEF WatchType
  <2>2. FileInv' BY <1>0, <1>2, <1>4, <1>6, <2>1 DEF FileInv
  <2>3. WatchStep BY <1>2, <1>4, <2>1, <2>2 DEF WatchStep
  <2>4. WPending => WPending' BY <1>2, <1>4, <2>1 DEF WPending
  <2> QED BY <1>2, <2>3, <2>4, WatchOnly, DbStill
<1> QED BY <1>5, <1>6

LEMMA WatchSwitchOK == ASSUME MarketInv, WatchSwitch PROVE MarketInv'
<1>0. TypeOK /\ Typed /\ Locks /\ LoopInv /\ JobInv /\ DbInv BY Parts
<1>1. PICK pc : pc = watch.pc OBVIOUS
<1>2. /\ pc \in {"startauto", "stopauto", "restart"} /\ SwitchAuto(pc) /\ WatchDone
      /\ UNCHANGED <<wRest, cfg, file, jobMu, db, ensuring>>
  BY <1>1 DEF WatchSwitch, SwitchAuto, dbVars
<1>3. Steered /\ (pc = "stopauto" => \A l \in Loops : Live(l)' => loop'[l].cancelled)
  BY <1>0, <1>2, SwitchAutoOK
<1>4. WatchStep BY <1>1, <1>2, WatchDoneOK
<1>5. WPending => pc = "stopauto" BY <1>1, <1>2 DEF WPending
<1>6. \/ StopPending => StopPending'
      \/ \A l \in Loops : Live(l)' => loop'[l].cancelled
  BY <1>3, <1>4, <1>5, WatchPending
<1>7. UNCHANGED <<cl, rebuild, main, job, stock>> BY <1>2 DEF wRest
<1>8. /\ auto' \in AutoType /\ loop' \in LoopType /\ wiped' \in BOOLEAN
      /\ LoopInv' /\ StopInv' /\ DownInv' /\ ClearInv'
      /\ \A k \in Loops : job'[k] # "idle" => loop'[k].pc \in {"collect", "restock"}
  BY <1>2, <1>3, <1>6, <1>7, SteerOK
<1>9. Locks' /\ JobInv' BY <1>4, <1>7, <1>8, WatchStepOK
<1>10. Typed' BY <1>0, <1>2, <1>4, <1>7, <1>8 DEF Typed, WatchStep, WatchType
<1> QED BY <1>0, <1>2, <1>4, <1>8, <1>9, <1>10, TypePartsNext, DbFrame DEF MarketInv, WatchStep

LEMMA ReloadOK == ASSUME MarketInv, Reload PROVE MarketInv'
BY WatchStatOK, WatchReadOK, WatchConfigOK, WatchTablesOK, WatchReconcileOK, WatchSwitchOK DEF Reload

LEMMA EditFileOK == ASSUME MarketInv, EditFile PROVE MarketInv'
<1>0. TypeOK /\ Typed /\ Locks /\ Held /\ LoopInv /\ JobInv /\ StopInv /\ DownInv /\ ClearInv /\ DbInv /\ FileInv
  BY Parts
<1>1. UNCHANGED <<cfg, watch, auto, loop, job, jobMu, serviceMu, db, ensuring, stock, wiped, cl, rebuild, main>>
  BY DEF EditFile, loopVars, lockVars, dbVars, stockVars
<1>2. PICK c \in Config : \E v \in BOOLEAN : file' = [c |-> c, valid |-> v, version |-> file.version + 1]
  BY DEF EditFile
<1>3. file' \in [c : Config, valid : BOOLEAN, version : Nat] /\ file'.version = file.version + 1
  BY <1>0, <1>2, WatchTypes
<1>4. FileInv' BY <1>0, <1>1, <1>3, WrittenOK
<1>5. TypeOK' BY <1>0, <1>1, <1>3, TypePartsNext, HeldFrame DEF Typed, Locks
<1>6. JobInv' BY <1>0, <1>1 DEF JobInv
<1> QED BY <1>0, <1>1, <1>4, <1>5, <1>6, LoopFrame, StopFrame, DownFrame, ClearFrame, DbFrame DEF MarketInv

-----------------------------------------------------------------------------
(* The shutdown.                                                           *)

LEMMA ShutdownBeginOK == ASSUME MarketInv, ShutdownBegin PROVE MarketInv'
<1>0. TypeOK /\ Typed /\ Locks /\ Held /\ LoopInv /\ JobInv /\ StopInv /\ DownInv /\ ClearInv /\ DbInv /\ FileInv
  BY Parts
<1>1. UNCHANGED <<cfg, file, watch, job, jobMu, serviceMu, db, ensuring, stock, wiped, cl, rebuild>>
  BY DEF ShutdownBegin, lockVars, dbVars, stockVars
<1>a. auto \in AutoType /\ loop \in LoopType BY <1>0, Types
<1>b. [auto EXCEPT !.shutdown = TRUE, !.restart = FALSE] = [auto EXCEPT !.restart = FALSE, !.shutdown = TRUE]
  BY <1>a DEF AutoType
<1>2. /\ auto' \in AutoType /\ loop' \in LoopType /\ LoopInv' /\ DownInv' /\ main' \in {"wait", "closed"}
      /\ auto'.shutdown = TRUE
      /\ \A l \in Loops : loop'[l].pc = loop[l].pc /\ (loop[l].cancelled => loop'[l].cancelled)
  <2>1. CASE auto.run
    <3>1. Become(Cancelled([auto EXCEPT !.restart = FALSE, !.shutdown = TRUE], loop)) /\ main' = "wait"
      BY <1>b, <2>1 DEF ShutdownBegin
    <3>2. TRUE \in BOOLEAN /\ FALSE \in BOOLEAN OBVIOUS
    <3>3. /\ auto' = [auto EXCEPT !.restart = FALSE, !.shutdown = TRUE, !.stop = TRUE]
          /\ auto' \in AutoType /\ loop' \in LoopType /\ LoopInv'
          /\ \A l \in Loops : loop'[l].pc = loop[l].pc /\ (loop[l].cancelled => loop'[l].cancelled)
      BY <1>0, <1>1, <2>1, <3>1, <3>2, CancelledOK
    <3>4. auto'.shutdown = TRUE /\ auto'.done = auto.done /\ auto.done \in Loops
      BY <1>0, <1>a, <2>1, <3>3 DEF AutoType, LoopInv
    <3>5. DownInv' BY <3>1, <3>4 DEF DownInv
    <3> QED BY <3>1, <3>3, <3>4, <3>5
  <2>2. CASE ~auto.run
    <3>1. auto' = [auto EXCEPT !.restart = FALSE, !.shutdown = TRUE] /\ loop' = loop /\ main' = "closed"
      BY <1>b, <2>2 DEF ShutdownBegin, Become
    <3>2. /\ auto' \in AutoType /\ auto'.shutdown = TRUE /\ auto'.done = auto.done /\ auto'.run = auto.run
          /\ auto'.stop = auto.stop
      BY <1>a, <3>1 DEF AutoType
    <3>3. LoopInv' BY <1>0, <3>1, <3>2 DEF LoopInv, Live
    <3>4. DownInv' BY <2>2, <3>1, <3>2 DEF DownInv
    <3> QED BY <1>a, <3>1, <3>2, <3>3, <3>4
  <2> QED BY <1>0, <2>1, <2>2, Types
<1>3. TypeOK' BY <1>0, <1>1, <1>2, TypePartsNext, HeldFrame DEF Typed, Locks
<1>4. JobInv' BY <1>0, <1>1, <1>2 DEF JobInv
<1>5. StopInv' BY <1>2 DEF StopInv
<1>6. ClearInv' BY <1>0, <1>1, <1>2 DEF ClearInv, Live
<1> QED BY <1>0, <1>1, <1>2, <1>3, <1>4, <1>5, <1>6, DbFrame, FileFrame DEF MarketInv

LEMMA ShutdownEndOK == ASSUME MarketInv, ShutdownEnd PROVE MarketInv'
<1>0. TypeOK /\ Typed /\ Locks /\ Held /\ LoopInv /\ JobInv /\ StopInv /\ DownInv /\ ClearInv /\ DbInv /\ FileInv
  BY Parts
<1>1. /\ main = "wait" /\ main' = "closed" /\ loop[auto.done].pc = "ended"
      /\ UNCHANGED <<cfg, file, watch, auto, loop, job, jobMu, serviceMu, db, ensuring, stock, wiped, cl, rebuild>>
  BY DEF ShutdownEnd, loopVars, lockVars, dbVars, stockVars
<1>2. ~auto.run BY <1>0, <1>1 DEF LoopInv, Live
<1>3. DownInv' BY <1>0, <1>1, <1>2 DEF DownInv
<1>4. TypeOK' BY <1>0, <1>1, TypePartsNext, HeldFrame DEF Typed, Locks
<1>5. JobInv' BY <1>0, <1>1 DEF JobInv
<1> QED BY <1>0, <1>1, <1>3, <1>4, <1>5, LoopFrame, StopFrame, ClearFrame, DbFrame, FileFrame DEF MarketInv

-----------------------------------------------------------------------------
(* The theorems.                                                           *)

LEMMA MarketInit == Init => MarketInv
<1> SUFFICES ASSUME Init PROVE MarketInv OBVIOUS
<1>1. cfg \in Config /\ cfg.enabled \in BOOLEAN /\ cfg.db = "d1" /\ Nothing \in Config
  BY DEF Init, Config, Nothing, Databases
<1>2. 0 \in 0..MaxLoops /\ 1 \in 0..MaxLoops /\ 1 \in Loops /\ \A l \in Loops : l > 0 /\ ~(l < 1)
  BY DEF Loops
<1>3. /\ auto = [run |-> cfg.enabled, stop |-> FALSE, restart |-> FALSE, shutdown |-> FALSE,
                 done |-> IF cfg.enabled THEN 1 ELSE 0]
      /\ loop = [l \in Loops |-> [pc |-> IF l = 1 /\ cfg.enabled THEN "boot" ELSE "none", cancelled |-> FALSE]]
  BY DEF Init
<1>4. auto \in AutoType BY <1>1, <1>2, <1>3 DEF AutoType
<1>5. /\ loop \in LoopType
      /\ \A l \in Loops : /\ loop[l].pc = IF l = 1 /\ cfg.enabled THEN "boot" ELSE "none"
                          /\ ~loop[l].cancelled
  BY <1>3 DEF LoopType, LoopPC
<1>6. LoopInv
  <2>1. CASE cfg.enabled
    <3>1. auto.run = TRUE /\ auto.stop = FALSE /\ auto.done = 1 BY <1>3, <2>1
    <3>2. \A l \in Loops : l > 1 <=> l # 1 BY DEF Loops
    <3>3. \A l \in Loops : loop[l].pc = IF l = 1 THEN "boot" ELSE "none" BY <1>5, <2>1
    <3>4. \A l \in Loops : /\ l < auto.done => loop[l].pc = "ended"
                           /\ l > auto.done <=> loop[l].pc = "none"
      BY <1>2, <3>1, <3>2, <3>3
    <3> QED BY <1>2, <3>1, <3>3, <3>4 DEF LoopInv, Live
  <2>2. CASE ~cfg.enabled
    <3>1. auto.run = FALSE /\ auto.stop = FALSE /\ auto.done = 0 BY <1>1, <1>3, <2>2
    <3>2. \A l \in Loops : loop[l].pc = "none" BY <1>5, <2>2
    <3>3. \A l \in Loops : ~(l < 0) BY DEF Loops
    <3> QED BY <1>2, <3>1, <3>2, <3>3 DEF LoopInv, Live
  <2> QED BY <1>1, <2>1, <2>2
<1>7. /\ job = [o \in Owner |-> "idle"] /\ cl = [c \in Client |-> IdleCmd]
      /\ rebuild = [pc |-> "idle", was |-> FALSE, done |-> 0]
      /\ watch = [pc |-> "idle", stamp |-> 0, seen |-> 0, prev |-> Nothing, next |-> Nothing]
      /\ file = [c |-> cfg, valid |-> TRUE, version |-> 0]
      /\ jobMu = Free /\ serviceMu = Free /\ main = "run" /\ wiped = FALSE /\ stock \in BOOLEAN
  BY DEF Init
<1>8. /\ \A o \in Owner : job[o] = "idle"
      /\ \A c \in Client : cl[c].pc = "idle"
  BY <1>7 DEF IdleCmd, Cmd
<1>9. cl \in ClType BY <1>1, <1>7 DEF ClType, IdleCmd, Cmd, CmdPC
<1>10. db \in DbType /\ db.gen = 1 /\ (db.ok => db.init = cfg.db)
  <2>1. CASE db = [gen |-> 1, ok |-> TRUE, init |-> cfg.db, retry |-> FALSE]
    BY <1>1, <2>1 DEF DbType, Databases
  <2>2. CASE db = [gen |-> 1, ok |-> FALSE, init |-> "none", retry |-> TRUE]
    BY <2>2 DEF DbType
  <2> QED BY <2>1, <2>2 DEF Init
<1>11. /\ ensuring \in EnsuringType
       /\ \A o \in Owner \cup {Watcher} : ensuring[o].gen = 0
  BY DEF Init, EnsuringType
<1>12. TypeOK
  <2>1. rebuild \in RebuildType /\ watch \in WatchType BY <1>1, <1>2, <1>7 DEF RebuildType, WatchType, CmdPC
  <2>2. Typed BY <1>1, <1>4, <1>5, <1>7, <1>9, <1>10, <1>11, <2>1
              DEF Typed, ClType, DbType, EnsuringType, RebuildType, WatchType, JobPC
  <2>3. Held BY <1>7, <1>8, Distinct DEF Held, Holds, Inside
  <2> QED BY <1>7, <2>2, <2>3, TypeParts DEF Locks
<1>13. JobInv BY <1>7, <1>8, Distinct DEF JobInv
<1>14. StopInv BY <1>1, <1>5 DEF StopInv, Live
<1>15. DownInv BY <1>7 DEF DownInv
<1>16. ClearInv BY <1>7 DEF ClearInv
<1>17. DbInv BY <1>10, <1>11 DEF DbInv
<1>18. FileInv BY <1>7 DEF FileInv
<1> QED BY <1>6, <1>12, <1>13, <1>14, <1>15, <1>16, <1>17, <1>18 DEF MarketInv

LEMMA MarketNext == ASSUME MarketInv, [Next]_vars PROVE MarketInv'
<1>1. CASE Next
  BY <1>1, AutoLoopOK, FinishAutoLoopOK, GiveOK, HandlerOK, RebuildStartOK, RebuildOK, EditFileOK, ReloadOK,
     RetryDueOK, ShutdownBeginOK, ShutdownEndOK DEF Next
<1>2. CASE UNCHANGED vars
  <2>0. TypeOK /\ Typed /\ Locks /\ Held /\ LoopInv /\ JobInv /\ StopInv /\ DownInv /\ ClearInv /\ DbInv /\ FileInv
    BY Parts
  <2>1. UNCHANGED <<cfg, file, watch, auto, loop, job, jobMu, serviceMu, db, ensuring, stock, wiped, cl, rebuild,
                    main>>
    BY <1>2 DEF vars, loopVars, lockVars, dbVars, stockVars
  <2>2. TypeOK' BY <2>0, <2>1, TypePartsNext, HeldFrame DEF Typed, Locks
  <2>3. JobInv' BY <2>0, <2>1 DEF JobInv
  <2> QED BY <2>0, <2>1, <2>2, <2>3, LoopFrame, StopFrame, DownFrame, ClearFrame, DbFrame, FileFrame DEF MarketInv
<1> QED BY <1>1, <1>2

\* The inductive invariant, and with it TypeOK: every variable of marketapp.App
\* has its type and each mutex is held by somebody who will release it.
THEOREM MarketInvariant == Spec => []MarketInv
<1>1. MarketInv /\ [Next]_vars => MarketInv' BY MarketNext
<1> QED BY MarketInit, <1>1, PTL DEF Spec

\* However starts, stops, restarts, reloads and a shutdown overlap, the loop of
\* startAutoLocked obeys: at most one is alive, none goes on when the market is
\* disabled and the commands are done, none is alive when Shutdown has returned.
THEOREM MarketLoopObeys == Spec => []LoopObeys
<1>1. MarketInv => LoopObeys
  <2> SUFFICES ASSUME MarketInv PROVE LoopObeys OBVIOUS
  <2>0. TypeOK /\ LoopInv /\ StopInv /\ DownInv BY Parts
  <2>1. OneLoop
    <3>1. \A l \in Loops : l \in Nat BY DEF Loops
    <3>2. auto.done \in Nat BY <2>0, Types
    <3>3. \A l \in Loops : ~(l < auto.done) /\ ~(l > auto.done) => l = auto.done BY <3>1, <3>2
    <3>4. {l \in Loops : Live(l)} \subseteq {auto.done} BY <2>0, <3>3 DEF LoopInv, Live
    <3>5. IsFiniteSet({auto.done}) /\ Cardinality({auto.done}) = 1 BY FS_Singleton
    <3>6. Cardinality({l \in Loops : Live(l)}) <= Cardinality({auto.done}) BY <3>4, <3>5, FS_Subset
    <3> QED BY <3>5, <3>6 DEF OneLoop
  <2>2. DisabledStops BY <2>0 DEF DisabledStops, Quiet, StopInv, StopPending
  <2>3. ShutdownQuiesces BY <2>0 DEF ShutdownQuiesces, DownInv, LoopInv
  <2> QED BY <2>1, <2>2, <2>3 DEF LoopObeys
<1> QED BY MarketInvariant, <1>1, PTL

\* Nothing that was replaced comes back: the stock clearSystemMarketStockLocked
\* deleted, the databases of an older ensureMarketTables, an older content of the
\* configuration file.
THEOREM MarketReplaced == Spec => []ReplacedStaysOut
<1>1. MarketInv => ReplacedStaysOut
  <2> SUFFICES ASSUME MarketInv PROVE ReplacedStaysOut OBVIOUS
  <2>0. ClearInv /\ DbInv /\ FileInv BY Parts
  <2> QED BY <2>0 DEF ReplacedStaysOut, ClearedStays, TablesMatch, FileWins, Quiet, ClearInv, DbInv, FileInv
<1> QED BY MarketInvariant, <1>1, PTL

\* What becomes listed, or is on its way to be, does so in a step of a job; every
\* other step leaves the jobs alone, or begins one or takes note of its end.
LEMMA ListsOnlyJobs ==
    ASSUME MarketInv, Next \/ UNCHANGED vars
    PROVE  \/ \E o \in Owner : Job(o)
           \/ (stock' => stock) /\ \A o \in Owner : job'[o] = "listing" => job[o] = "listing"
<1> DEFINE None == (stock' => stock) /\ \A o \in Owner : job'[o] = "listing" => job[o] = "listing"
<1>0. stock \in BOOLEAN /\ job \in [Owner -> JobPC] /\ Typed BY Parts DEF Typed
<1>1. ASSUME UNCHANGED stock \/ stock' = FALSE \/ stock' \in {stock, FALSE},
             \/ UNCHANGED job
             \/ \E x \in Owner, pc \in {"check", "idle"} : job' = [job EXCEPT ![x] = pc]
      PROVE  None
  <2>1. stock' => stock BY <1>1
  <2>2. ASSUME NEW x \in Owner, NEW pc \in {"check", "idle"}, job' = [job EXCEPT ![x] = pc]
        PROVE  \A o \in Owner : job'[o] = "listing" => job[o] = "listing"
    BY <1>0, <2>2
  <2>3. \A o \in Owner : job'[o] = "listing" => job[o] = "listing"
    <3>1. CASE UNCHANGED job BY <3>1
    <3> QED BY <1>1, <2>2, <3>1
  <2> QED BY <2>1, <2>3
<1>4. ASSUME NEW l \in Loops, AutoLoop(l) PROVE Job(l) \/ None
  <2>0. l \in Owner BY Distinct
  <2>1. Job(l) \/ UNCHANGED stock
    BY <1>4 DEF AutoLoop, LoopBoot, LoopTick, LoopDone, LoopTables, LoopEnsure, LoopGame, LoopServices, LoopServed,
                LoopJobEnds, FinishAutoLoop, loopRest, stockVars
  <2>2. \/ Job(l) \/ UNCHANGED job
        \/ job' = [job EXCEPT ![l] = "check"] \/ job' = [job EXCEPT ![l] = "idle"]
    BY <1>4 DEF AutoLoop, LoopBoot, LoopTick, LoopDone, LoopTables, LoopEnsure, LoopGame, LoopServices, LoopServed,
                LoopJobEnds, FinishAutoLoop, loopRest
  <2> HIDE DEF None
  <2> QED BY <1>1, <2>0, <2>1, <2>2
<1>5. ASSUME NEW c \in Client, Give(c) \/ Handler(c) PROVE Job(c) \/ None
  <2>0. c \in Owner BY Distinct
  <2>1. Job(c) \/ UNCHANGED stock \/ stock' = FALSE \/ stock' \in {stock, FALSE}
    BY <1>5 DEF Give, Handler, GiveConfig, GiveReconcile, GiveSwitch, GiveStop, GiveLock, GiveDelete, GiveService,
                GiveServed, GiveResume, GiveJobEnds, DeleteStock, DeleteFails, stockVars
  <2>2. \/ Job(c) \/ UNCHANGED job
        \/ job' = [job EXCEPT ![c] = "check"] \/ job' = [job EXCEPT ![c] = "idle"]
    BY <1>5 DEF Give, Handler, GiveConfig, GiveReconcile, GiveSwitch, GiveStop, GiveLock, GiveDelete, GiveService,
                GiveServed, GiveResume, GiveJobEnds
  <2> HIDE DEF None
  <2> QED BY <1>1, <2>0, <2>1, <2>2
<1>6. CASE RebuildStart \/ Rebuild
  <2>0. Rebuilder \in Owner BY Distinct
  <2>1. Job(Rebuilder) \/ UNCHANGED stock \/ stock' = FALSE \/ stock' \in {stock, FALSE}
    BY <1>6 DEF RebuildStart, Rebuild, RebuildIfStop, RebuildStop, RebuildWait, RebuildLock, RebuildClear,
                RebuildService, RebuildServed, RebuildJobEnds, RebuildFinish, DeleteStock, DeleteFails, stockVars
  <2>2. \/ Job(Rebuilder) \/ UNCHANGED job
        \/ job' = [job EXCEPT ![Rebuilder] = "check"] \/ job' = [job EXCEPT ![Rebuilder] = "idle"]
    BY <1>6 DEF RebuildStart, Rebuild, RebuildIfStop, RebuildStop, RebuildWait, RebuildLock, RebuildClear,
                RebuildService, RebuildServed, RebuildJobEnds, RebuildFinish
  <2>3. Job(Rebuilder) \/ None
    <3> HIDE DEF None
    <3> QED BY <1>1, <2>0, <2>1, <2>2
  <2> QED BY <2>0, <2>3
<1>7. CASE EditFile \/ Reload \/ RetryDue \/ ShutdownBegin \/ ShutdownEnd \/ UNCHANGED vars
  <2>1. UNCHANGED stock /\ UNCHANGED job
    BY <1>7 DEF EditFile, Reload, WatchStat, WatchRead, WatchConfig, WatchTables, WatchEnsure, WatchReconcile,
                WatchSwitch, RetryDue, ShutdownBegin, ShutdownEnd, wRest, stockVars, vars
  <2> QED BY <1>1, <2>1
<1> QED BY <1>4, <1>5, <1>6, <1>7, Distinct DEF Next

\* Shutdown comes after the connections: no command is under way, and none is given.
ClosedInv == main # "run" => \A c \in Client : cl[c].pc = "idle"

LEMMA ClosedNext == ASSUME ClosedInv, MarketInv, [Next]_vars PROVE ClosedInv'
<1>1. CASE UNCHANGED <<cl, main>> BY <1>1 DEF ClosedInv
<1>2. ASSUME NEW o \in Owner, Job(o) PROVE UNCHANGED <<cl, main>>
  BY <1>2, Parts, JobSteps DEF JobStep, jobRest
<1>3. ASSUME NEW l \in Loops, AutoLoop(l) PROVE UNCHANGED <<cl, main>>
  <2>1. Job(l) \/ UNCHANGED <<cl, main>>
    BY <1>3 DEF AutoLoop, LoopBoot, LoopTick, LoopDone, LoopTables, LoopEnsure, LoopGame, LoopServices, LoopServed,
                LoopJobEnds, FinishAutoLoop, loopRest
  <2> QED BY <1>2, <2>1, Distinct
<1>4. ASSUME NEW c \in Client, Give(c) \/ Handler(c) PROVE ClosedInv'
  <2>1. CASE Job(c) BY <1>1, <1>2, <2>1, Distinct
  <2>2. CASE main = "run" /\ UNCHANGED main BY <2>2 DEF ClosedInv
  <2>3. CASE cl[c].pc # "idle" /\ UNCHANGED main BY <2>3 DEF ClosedInv
  <2>4. \/ Job(c) \/ (main = "run" /\ UNCHANGED main)
        \/ (cl[c].pc # "idle" /\ UNCHANGED main)
    BY <1>4 DEF Give, Handler, GiveConfig, GiveReconcile, GiveSwitch, SwitchAuto, GiveStop, GiveLock, GiveDelete,
                GiveService, GiveServed, GiveResume, GiveJobEnds, clRest
  <2> QED BY <2>1, <2>2, <2>3, <2>4
<1>5. CASE RebuildStart \/ Rebuild
  <2>1. Job(Rebuilder) \/ UNCHANGED <<cl, main>>
    BY <1>5 DEF RebuildStart, Rebuild, RebuildIfStop, RebuildStop, RebuildWait, RebuildLock, RebuildClear,
                RebuildService, RebuildServed, RebuildJobEnds, RebuildFinish, rbRest
  <2> QED BY <1>1, <1>2, <2>1, Distinct
<1>6. CASE EditFile \/ Reload \/ RetryDue \/ UNCHANGED vars
  <2>1. UNCHANGED <<cl, main>>
    BY <1>6 DEF EditFile, Reload, WatchStat, WatchRead, WatchConfig, WatchTables, WatchEnsure, WatchReconcile,
                WatchSwitch, RetryDue, wRest, vars
  <2> QED BY <1>1, <2>1
<1>7. CASE ShutdownBegin BY <1>7 DEF ShutdownBegin, ClosedInv
<1>8. CASE ShutdownEnd BY <1>8 DEF ShutdownEnd, ClosedInv
<1> QED BY <1>1, <1>3, <1>4, <1>5, <1>6, <1>7, <1>8 DEF Next

\* Once App.Shutdown has returned no loop's or connection's job is under way, the one
\* listing a rebuild had sent may still land, and no other follows.
THEOREM MarketShutdownSettles == Spec => ShutdownSettles
<1> DEFINE Settles == main = "closed" =>
               /\ \A o \in Owner \ {Rebuilder} : job[o] = "idle"
               /\ stock' /\ ~stock => job[Rebuilder] = "listing"
               /\ job'[Rebuilder] = "listing" => job[Rebuilder] = "listing"
<1>1. ASSUME MarketInv, ClosedInv, [Next]_vars, main = "closed" PROVE Settles
  <2>0. Typed /\ JobInv /\ LoopInv /\ DownInv /\ ClosedInv BY <1>1, Parts
  <2>1. auto.shutdown /\ \A l \in Loops : ~Live(l) BY <1>1, <2>0 DEF DownInv, LoopInv
  <2>2. \A o \in Owner \ {Rebuilder} : job[o] = "idle"
    BY <1>1, <2>0, <2>1 DEF JobInv, ClosedInv, Live, Owner
  <2>3. ASSUME NEW o \in Owner, Job(o) PROVE Settles
    <3>1. JobStep(o) BY <2>0, <2>3, JobSteps
    <3>2. o = Rebuilder BY <2>2, <3>1 DEF JobStep
    <3>3. job'[o] # "listing" BY <2>0, <2>1, <3>1 DEF JobStep, CtxErr, Typed
    <3>4. stock' = stock \/ job[o] = "listing" BY <3>1 DEF JobStep
    <3> QED BY <2>2, <3>2, <3>3, <3>4
  <2>4. CASE (stock' => stock) /\ \A o \in Owner : job'[o] = "listing" => job[o] = "listing"
    BY <2>2, <2>4, Distinct
  <2> QED BY <1>1, <2>3, <2>4, ListsOnlyJobs
<1>2. MarketInv /\ ClosedInv /\ [Next]_vars => [Settles]_vars BY <1>1
<1>3. Init => ClosedInv BY DEF Init, ClosedInv
<1>4. MarketInv /\ ClosedInv /\ [Next]_vars => ClosedInv' BY ClosedNext
<1> QED BY MarketInvariant, <1>2, <1>3, <1>4, PTL DEF Spec, ShutdownSettles
=============================================================================
