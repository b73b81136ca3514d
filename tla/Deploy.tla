------------------------------- MODULE Deploy -------------------------------
(***************************************************************************)
(* The deploy launcher (tools/deploy-launcher): it uploads the program     *)
(* next to the installed one, stops what runs, moves the new program into  *)
(* place, rebuilds the configuration for a fresh install, starts the robot *)
(* and verifies over ssh that it came up.  The program on the host is its  *)
(* version and whether it is all there; a process is what it is, its       *)
(* version and whether it listens on its port.                             *)
(*                                                                         *)
(* A remote command takes effect or not, and may fail either way (a time   *)
(* out closes the client, so nothing follows it).  A command that timed    *)
(* out does not take effect later than the next operation.                 *)
(***************************************************************************)
EXTENDS Integers, Sequences, FiniteSets

CONSTANTS Launcher,      \* windows
          MaxVersions,   \* builds of robot
          Keep,          \* backups of each kind: 3
          Attempts,      \* of verifyRemoteRobot: 180
          MaxOps,        \* operations started
          MaxFaults,     \* failing commands, processes that die
          Ini            \* what deploy-launcher.ini may hold

VARIABLES op,        \* launcher -> pc, kind, ver, fresh, found, tries
          new,       \* /root/robot.new
          robot,     \* /root/robot
          robotBaks, \* newest first
          config,    \* /root/config: -1 none, 0 without config.ini, else its number
          configBaks,
          moved,     \* the configurations that were moved away, newest first
          procs,     \* what, ver, up
          next,      \* the number of the next configuration
          left

hostVars == <<new, robot, robotBaks, config, configBaks, moved, procs, next>>
vars == <<op, hostVars, left>>

NoFile == [ver |-> 0, whole |-> FALSE]
Idle == [pc |-> "idle", kind |-> "none", ver |-> 0, fresh |-> FALSE, found |-> {}, tries |-> 0]

\* loadLauncherConfig: a file that is absent is created with the defaults, one without
\* the key gets it; a malformed value means an upgrade.
loadLauncherConfig(ini) == ini \in {"absent", "nokey", "1"}

\* main: the defaults stand when the file cannot be read or parsed.
FreshInstall(ini) == ini = "unreadable" \/ loadLauncherConfig(ini)

Init ==
    /\ op = [l \in Launcher |-> Idle]
    /\ new = NoFile /\ robot = [ver |-> 1, whole |-> TRUE] /\ robotBaks = <<>>
    /\ config = 1 /\ configBaks = <<>> /\ moved = <<>> /\ next = 2
    /\ procs = {[what |-> w, ver |-> 1, up |-> w # "sink"] : w \in {"main", "web", "sink"}}
    /\ left = [op |-> MaxOps, fault |-> MaxFaults]

Spend(what) == left[what] > 0 /\ left' = [left EXCEPT ![what] = @ - 1]
Fault(bad) == IF bad THEN Spend("fault") ELSE UNCHANGED left
To(l, pc) == op' = [op EXCEPT ![l].pc = pc]
Finish(l) == op' = [op EXCEPT ![l] = Idle]
Newest(s) == SubSeq(s, 1, IF Len(s) < Keep THEN Len(s) ELSE Keep)

-----------------------------------------------------------------------------
\* The window.

\* startOperation: tryBeginOperation, validateInput.
startOperation(l) ==
    /\ op[l] = Idle /\ Spend("op")
    /\ \E kind \in {"deploy", "restart"}, v \in 1..MaxVersions, ini \in Ini :
         op' = [op EXCEPT ![l] = [Idle EXCEPT
                  !.pc = "connect", !.kind = kind,
                  !.ver = IF kind = "deploy" THEN v ELSE 0, !.fresh = FreshInstall(ini)]]
    /\ UNCHANGED hostVars

\* All three tries may fail.
sshConnectWithRetry(l) ==
    /\ op[l].pc = "connect"
    /\ \E bad \in BOOLEAN :
         /\ Fault(bad)
         /\ IF bad THEN Finish(l) ELSE To(l, IF op[l].kind = "deploy" THEN "upload" ELSE "term")
    /\ UNCHANGED hostVars

\* The window is closed, or its machine goes away, in the middle of an operation.
WindowCloses(l) == op[l] # Idle /\ Spend("fault") /\ Finish(l) /\ UNCHANGED hostVars

\* A command that ends the operation when it fails, whether it took effect or not.
Command(l, pc, effect, none) ==
    \E bad, done \in BOOLEAN :
      /\ Fault(bad) /\ (done \/ bad)
      /\ IF done THEN effect ELSE none
      /\ IF bad THEN Finish(l) ELSE To(l, pc)

\* cat > /root/robot.new truncates first.
uploadFile(l) ==
    /\ op[l].pc = "upload" /\ To(l, "sent")
    /\ new' = [ver |-> op[l].ver, whole |-> FALSE]
    /\ UNCHANGED <<robot, robotBaks, config, configBaks, moved, procs, next, left>>

\* The upload ends; a local file that is being rebuilt arrives in part without an error.
Uploaded(l) ==
    /\ op[l].pc = "sent"
    /\ \E whole, bad \in BOOLEAN :
         /\ Fault(bad \/ ~whole)
         /\ new' = [new EXCEPT !.whole = @ \/ whole]
         /\ IF bad THEN Finish(l) ELSE To(l, "size")
    /\ UNCHANGED <<robot, robotBaks, config, configBaks, moved, procs, next>>

\* Mutant: that the file is there is enough.
AnySize(f) == f # NoFile

SameSize(f) == f.whole

\* stat -c %s, chmod +x.
CheckSize(l) ==
    /\ op[l].pc = "size"
    /\ \E bad \in BOOLEAN :
         Fault(bad) /\ (IF bad \/ ~SameSize(new) THEN Finish(l) ELSE To(l, "backup"))
    /\ UNCHANGED hostVars

\* cp /root/robot, and only what it reports as done is pruned.
Backup(l) ==
    /\ op[l].pc = "backup" /\ To(l, "term")
    /\ \E bad \in BOOLEAN :
         /\ IF robot = NoFile THEN UNCHANGED left ELSE Fault(bad)
         /\ robotBaks' = IF bad \/ robot = NoFile THEN robotBaks ELSE Newest(<<robot>> \o robotBaks)
    /\ UNCHANGED <<new, robot, config, configBaks, moved, procs, next>>

-----------------------------------------------------------------------------
\* stopRemoteRobot.

\* pkill -TERM and two seconds: what has not ended by then ends later or not.
Term(l) ==
    /\ op[l].pc = "term"
    /\ \E rest \in SUBSET procs :
         Command(l, "check", procs' = rest, UNCHANGED procs)
    /\ UNCHANGED <<new, robot, robotBaks, config, configBaks, moved, next>>

Stopped(l) == IF op[l].kind = "deploy" THEN "move" ELSE "start"

Check(l) ==
    /\ op[l].pc = "check"
    /\ \E bad \in BOOLEAN :
         /\ Fault(bad)
         /\ IF bad THEN Finish(l)
            ELSE IF procs = {} THEN To(l, Stopped(l))
            ELSE op' = [op EXCEPT ![l].pc = "kill", ![l].found = procs]
    /\ UNCHANGED hostVars

\* kill -9 of the pids that pgrep gave.
Kill(l) ==
    /\ op[l].pc = "kill"
    /\ Command(l, "again", procs' = procs \ op[l].found, UNCHANGED procs)
    /\ UNCHANGED <<new, robot, robotBaks, config, configBaks, moved, next>>

\* Mutant: after SIGKILL nothing can be left.
LeftOverIgnored == FALSE

LeftOver == procs # {}

Again(l) ==
    /\ op[l].pc = "again"
    /\ \E bad \in BOOLEAN :
         Fault(bad) /\ (IF bad \/ LeftOver THEN Finish(l) ELSE To(l, Stopped(l)))
    /\ UNCHANGED hostVars

-----------------------------------------------------------------------------
\* Replacement, configuration and start.

Move(l) ==
    /\ op[l].pc = "move"
    /\ Command(l, IF op[l].fresh THEN "config" ELSE "start",
               robot' = new /\ new' = NoFile, UNCHANGED <<robot, new>>)
    /\ UNCHANGED <<robotBaks, config, configBaks, moved, procs, next>>

\* Mutant: the copies are sorted the other way.
OldestConfigs(s) == SubSeq(s, IF Len(s) > Keep THEN Len(s) - Keep + 1 ELSE 1, Len(s))

NewestConfigs(s) == Newest(s)

\* backupAndResetConfigCommand: mv, prune, mkdir; the connection may break in between.
backupAndResetConfigCommand(l) ==
    /\ op[l].pc = "config"
    /\ \E bad, last \in BOOLEAN :
         /\ Fault(bad) /\ (last \/ bad)
         /\ config' = IF last THEN 0 ELSE -1
         /\ configBaks' = IF config = -1 THEN configBaks ELSE NewestConfigs(<<config>> \o configBaks)
         /\ moved' = IF config = -1 THEN moved ELSE <<config>> \o moved
         /\ IF bad THEN Finish(l) ELSE To(l, "start")
    /\ UNCHANGED <<new, robot, robotBaks, procs, next>>

\* robotStartCommand: the pipeline of main process and sink.
Started == IF robot.whole THEN procs \cup {[what |-> w, ver |-> robot.ver, up |-> FALSE] : w \in {"main", "sink"}}
           ELSE procs

Start(l) ==
    /\ op[l].pc = "start"
    /\ Command(l, "ports", procs' = Started /\ config' = (IF config = -1 THEN 0 ELSE config),
               UNCHANGED <<procs, config>>)
    /\ UNCHANGED <<new, robot, robotBaks, configBaks, moved, next>>

\* The robot on the host: it writes a missing config.ini, starts its web
\* administration, and each listens if its port is free.
Boots(p) ==
    /\ p.what = "main" /\ ~p.up
    /\ config' = (IF config <= 0 THEN next ELSE config)
    /\ next' = (IF config <= 0 THEN next + 1 ELSE next)
    /\ LET free(w) == ~\E q \in procs : q.what = w /\ q.up IN
       procs' = (procs \ {p}) \cup {[p EXCEPT !.up = free("main")]}
                  \cup {[what |-> "web", ver |-> p.ver, up |-> u] : u \in {free("web")} \cap {TRUE}}
    /\ procs' # procs
    /\ UNCHANGED <<op, new, robot, robotBaks, configBaks, moved, left>>

\* The web administration outlives the main process, the sink does not.
Dies(p) ==
    /\ Spend("fault")
    /\ procs' = IF p.what = "main" THEN {q \in procs : q.what = "web"} ELSE procs \ {p}
    /\ UNCHANGED <<op, new, robot, robotBaks, config, configBaks, moved, next>>

-----------------------------------------------------------------------------
\* waitForRemoteRobot: every probe is a command of its own.

Retry(l) ==
    LET n == op[l].tries + 1 IN
    op' = [op EXCEPT ![l] = IF n >= Attempts THEN Idle
                            ELSE [op[l] EXCEPT !.pc = IF op[l].pc = "ports" THEN "ports" ELSE "main", !.tries = n]]
Has(w) == \E p \in procs : p.what = w
Probe(l, pc, ok, then) ==
    /\ op[l].pc = pc
    /\ \E bad \in BOOLEAN : Fault(bad) /\ (IF bad \/ ~ok THEN Retry(l) ELSE To(l, then))
    /\ UNCHANGED hostVars

ReadPorts(l) == Probe(l, "ports", config >= 1, "main")
ReadMainPID(l) == Probe(l, "main", Has("main"), "sink")
ReadSinkPID(l) == Probe(l, "sink", Has("sink"), "listen")

listenerPortsReady == \A w \in {"main", "web"} : \E p \in procs : p.what = w /\ p.up
ReadListeners(l) == Probe(l, "listen", listenerPortsReady, "success")

\* The success is reported and the operation ends.
Report(l) == op[l].pc = "success" /\ Finish(l) /\ UNCHANGED <<hostVars, left>>

Operation(l) ==
    \/ startOperation(l) \/ sshConnectWithRetry(l) \/ WindowCloses(l)
    \/ uploadFile(l) \/ Uploaded(l) \/ CheckSize(l) \/ Backup(l)
    \/ Term(l) \/ Check(l) \/ Kill(l) \/ Again(l)
    \/ Move(l) \/ backupAndResetConfigCommand(l) \/ Start(l)
    \/ ReadPorts(l) \/ ReadMainPID(l) \/ ReadSinkPID(l) \/ ReadListeners(l) \/ Report(l)

Next == (\E l \in Launcher : Operation(l)) \/ (\E p \in procs : Boots(p) \/ Dies(p))

Spec == Init /\ [][Next]_vars

-----------------------------------------------------------------------------
\* Properties.

\* With one launcher the installed program is always a complete one, wherever an
\* operation ends (the upload beside it, the size check, the move), and the
\* configurations of the last Keep fresh installs are kept
\* (doDeploy, backupAndResetConfigCommand).
NothingTorn ==
    /\ robot.whole
    /\ \A i \in DOMAIN moved : i <= Keep => moved[i] \in {configBaks[j] : j \in DOMAIN configBaks}

\* A deployment that reports success means that both ports were just seen open, and
\* with one launcher they belong to the program that it brought: nothing of the old
\* robot answers in its place (stopRemoteRobot, waitForRemoteRobot).
SuccessMeansNew ==
    \A l \in Launcher : op[l].pc = "listen" /\ op'[l].pc = "success" /\ op[l].kind = "deploy" =>
      \A p \in procs : p.up => p.ver = op[l].ver
=============================================================================
