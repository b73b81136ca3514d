----------------------------- MODULE GamePatches -----------------------------
(***************************************************************************)
(* The web admin's patches of the running game server: party compatibility *)
(* (a routine in a code cave, a branch to it, a timer) and the mailbox     *)
(* guard (two sites).  A supervisor, HTTP requests and the file watcher    *)
(* bring the game's memory to what the configuration file asks for, all    *)
(* memory work under partyCompatMu.  The game restarts, writes fail, the   *)
(* web admin is killed and started again by its own supervisor.            *)
(*                                                                         *)
(* The two patches share the mutex and nothing else, so `Patch' is one of  *)
(* them.  A site holds 0 (original bytes) or what was written; the cave    *)
(* holds the account range its routine was built for.                      *)
(***************************************************************************)
EXTENDS Integers, SequencesExt

CONSTANTS Patch,          \* "party" or "mailbox"
          Ranges,         \* account ranges, positive
          DisableAfter,   \* partyCompatDisableAfterFailures
          MaxEdits,       \* changes of the configuration
          MaxFaults,      \* failing reads, writes and saves
          MaxKills,       \* deaths of the web admin
          MaxRestarts     \* restarts of the game

Places == IF Patch = "party" THEN {"cave", "timer", "branch"} ELSE {"list", "scan"}
Config == [on : BOOLEAN, range : Ranges]
NoConfig == [on |-> FALSE, range |-> 0]

VARIABLES game,    \* pid (0: not listening), stopped by a signal
          mem,     \* site -> value
          file,    \* cfg and its stamp
          snap,    \* the snapshot the web admin works from, NoConfig before it is loaded
          web,     \* the web admin runs
          got,     \* what the mailbox supervisor read before it took the mutex
          op,      \* what holds partyCompatMu
          fails,   \* partyCompatFailures
          watch,   \* the poller: pc, stamp, cfg, seen
          left     \* what is left of the bounds

vars == <<game, mem, file, snap, web, got, op, fails, watch, left>>

Idle == [pc |-> "idle", who |-> "none", cfg |-> NoConfig, pid |-> 0, traced |-> FALSE,
         todo |-> <<>>, wrote |-> <<>>, err |-> FALSE]
Watching == [pc |-> "idle", stamp |-> 0, cfg |-> NoConfig, seen |-> 0]

Init ==
    /\ game = [pid |-> 1, stopped |-> FALSE] /\ mem = [s \in Places |-> 0]
    /\ \E c \in Config : file = [cfg |-> c, stamp |-> 1]
    /\ snap = NoConfig /\ web = TRUE /\ got = NoConfig /\ op = Idle /\ fails = 0 /\ watch = Watching
    /\ left = [edits |-> MaxEdits, faults |-> MaxFaults, kills |-> MaxKills,
               restarts |-> MaxRestarts]

Spend(what) == left[what] > 0 /\ left' = [left EXCEPT ![what] = @ - 1]

\* The outcomes of a step that may fail: FALSE is for free.
Outcome(bad) == IF bad THEN Spend("faults") ELSE UNCHANGED left

-----------------------------------------------------------------------------
\* What is read from memory.

\* inspectPartyCompat / inspectMailboxGuardMemory: everything is in place.
Enabled == IF Patch = "party" THEN mem["branch"] = 1 /\ mem["timer"] = 1 /\ mem["cave"] # 0
           ELSE \A s \in Places : mem[s] = 1

\* Mutant: what is left behind without the branch is not noticed.
OrphanedNever == FALSE

Orphaned == Patch = "party" /\ ~Enabled /\ \E s \in Places : mem[s] # 0

\* A branch into a cave without routine is refused by every operation.
Known == Patch = "mailbox" \/ (mem["branch"] = 1 => mem["cave"] # 0)

\* Patched for the wrong accounts is not patched.
EnabledFor(c) == Enabled /\ (Patch = "party" => mem["cave"] = c.range)

-----------------------------------------------------------------------------
\* The writes of setPartyCompatMemory and setMailboxGuardMemory, in order.

Write(s, v) == [site |-> s, value |-> v]

\* Mutant: the branch is set before there is something to branch to.
EnableBranchFirst(r) == <<Write("branch", 1), Write("cave", r), Write("timer", 1)>>

EnableWrites(r) == <<Write("cave", r), Write("timer", 1), Write("branch", 1)>>

DisableWrites ==
    IF mem["branch"] = 1
    THEN <<Write("branch", 0), Write("timer", 0), Write("cave", 0)>>
    ELSE <<Write("timer", 0)>> \o (IF mem["cave"] = 0 THEN <<>> ELSE <<Write("cave", 0)>>)

MailboxWrites(v) == SelectSeq(<<Write("list", v), Write("scan", v)>>, LAMBDA w : mem[w.site] # v)

WritesFor(c) ==
    CASE Patch = "mailbox" -> MailboxWrites(IF c.on THEN 1 ELSE 0)
      [] c.on -> IF EnabledFor(c) THEN <<>> ELSE EnableWrites(c.range)
      [] OTHER -> IF \A s \in Places : mem[s] = 0 THEN <<>> ELSE DisableWrites

\* restoreMemoryVerified gets the sites written so far, the last one first; the
\* lone reset of a timer is not undone.
Restores(w, failed) ==
    IF Patch = "party" /\ ~op.cfg.on /\ w = <<>> /\ failed.site = "timer" THEN <<>>
    ELSE Reverse(Append(w, failed))

-----------------------------------------------------------------------------
\* Operations that hold partyCompatMu.

\* loadPartyCompatConfig: the snapshot, or the file if there is none yet.
Loaded == IF snap = NoConfig THEN file.cfg ELSE snap

Begin(who, pc, c) == op' = [Idle EXCEPT !.who = who, !.pc = pc, !.cfg = c]

\* reconcilePartyCompat: the timer fires or the supervisor is woken.
SupervisorBegins ==
    /\ Patch = "party" /\ web /\ op = Idle
    /\ snap' = Loaded /\ Begin("supervisor", "inspect", Loaded)
    /\ UNCHANGED <<game, mem, file, web, got, fails, watch, left>>

\* The mailbox supervisor reads its configuration before it takes the mutex.
GuardReads ==
    /\ Patch = "mailbox" /\ web /\ got = NoConfig /\ op.who # "supervisor"
    /\ snap' = Loaded /\ got' = Loaded
    /\ UNCHANGED <<game, mem, file, web, op, fails, watch, left>>

GuardBegins ==
    /\ Patch = "mailbox" /\ web /\ op = Idle /\ got # NoConfig
    /\ got' = NoConfig /\ Begin("supervisor", "inspect", got)
    /\ UNCHANGED <<game, mem, file, snap, web, fails, watch, left>>

\* Does the mailbox supervisor apply what it wants?
reconcileMailboxGuard(on, bad) == game.pid # 0 /\ ~bad /\ on # op.cfg.on

\* inspectPartyCompat, then what reconcilePartyCompat / reconcileMailboxGuard makes
\* of it.  A failing read is taken for "not enabled".
Inspect ==
    /\ op.pc = "inspect"
    /\ \E bad \in BOOLEAN :
         /\ Outcome(bad) /\ (bad => game.pid # 0)
         /\ LET on == ~bad /\ Known /\ Enabled
                orphan == ~bad /\ Known /\ Orphaned
                down == game.pid = 0
                goesOn == IF Patch = "mailbox" THEN reconcileMailboxGuard(on, bad)
                          ELSE IF op.cfg.on THEN ~down /\ ~(on /\ EnabledFor(op.cfg))
                               ELSE ~down /\ (on \/ orphan) IN
            IF goesOn THEN op' = [op EXCEPT !.pc = "set"] /\ UNCHANGED fails
            ELSE op' = Idle /\ fails' = 0
    /\ UNCHANGED <<game, mem, file, snap, web, got, watch>>

\* The wish is saved first, as a whole.
Saved(c) == /\ Spend("edits") /\ snap' = c
            /\ file' = [cfg |-> c, stamp |-> file.stamp + 1]

handlePartyCompat(c) ==
    /\ Patch = "party" /\ web /\ op = Idle
    /\ Saved(c) /\ fails' = 0 /\ Begin("http", "set", c)
    /\ UNCHANGED <<game, mem, web, got, watch>>

handleCompat(c) ==
    /\ Patch = "mailbox" /\ web /\ op = Idle
    /\ Saved(c) /\ Begin("http", "set", c)
    /\ UNCHANGED <<game, mem, web, got, fails, watch>>

\* WithMemoryFile: a process that is traced is stopped until it is detached, and goes
\* on by itself when the tracer dies; else it is sent SIGSTOP.
Hold(traced) ==
    /\ op' = [op EXCEPT !.pc = "write", !.pid = game.pid, !.traced = traced,
                        !.todo = WritesFor(op.cfg)]
    /\ game' = [game EXCEPT !.stopped = ~traced]

\* setPartyCompat and setMailboxGuard up to the first write: find the process, stop
\* it, read and validate.
Set ==
    /\ op.pc = "set"
    /\ \E bad, traced \in BOOLEAN :
         /\ Outcome(bad) /\ (bad => game.pid # 0)
         /\ IF bad \/ game.pid = 0 \/ ~Known
            THEN /\ op' = [op EXCEPT !.pc = "after", !.err = TRUE, !.pid = game.pid]
                 /\ UNCHANGED game
            ELSE Hold(traced)
    /\ UNCHANGED <<mem, file, snap, web, got, fails, watch>>

\* writeMemoryVerified: it works; it fails; or it works and the verification fails.
\* A process that is gone takes no writes.
WriteSite ==
    /\ op.pc = "write" /\ op.todo # <<>>
    /\ LET w == Head(op.todo)
           undo == [site |-> w.site, value |-> mem[w.site]]
           gone == op.pid # game.pid IN
       \E done, bad \in BOOLEAN :
         /\ done \/ bad
         /\ IF gone THEN bad /\ ~done /\ UNCHANGED left ELSE Outcome(bad)
         /\ mem' = IF done THEN [mem EXCEPT ![w.site] = w.value] ELSE mem
         /\ op' = IF bad
                  THEN [op EXCEPT !.pc = "undo", !.todo = Restores(op.wrote, undo), !.err = TRUE]
                  ELSE [op EXCEPT !.todo = Tail(@), !.wrote = Append(@, undo)]
    /\ UNCHANGED <<game, file, snap, web, got, fails, watch>>

\* restoreMemoryVerified goes on after a failure.
Undo ==
    /\ op.pc = "undo" /\ op.todo # <<>>
    /\ \E bad \in BOOLEAN :
         /\ IF op.pid # game.pid THEN bad /\ UNCHANGED left ELSE Outcome(bad)
         /\ mem' = IF bad THEN mem ELSE [mem EXCEPT ![Head(op.todo).site] = Head(op.todo).value]
    /\ op' = [op EXCEPT !.todo = Tail(@)]
    /\ UNCHANGED <<game, file, snap, web, got, fails, watch>>

\* The deferred SIGCONT, or the end of the trace.
Resume ==
    /\ op.pc \in {"write", "undo"} /\ op.todo = <<>>
    /\ game' = IF op.pid = game.pid THEN [game EXCEPT !.stopped = FALSE] ELSE game
    /\ op' = [op EXCEPT !.pc = "after"]
    /\ UNCHANGED <<mem, file, snap, web, got, fails, watch, left>>

\* The outcome: a request answers; the supervisor counts failures, but not that the
\* game is down while it enables, and switches party compatibility off after too
\* many of them over too long a time.
After ==
    /\ op.pc = "after"
    /\ LET failed == op.who = "supervisor" /\ Patch = "party" /\ op.err
           counted == failed /\ (op.cfg.on => op.pid # 0) IN
       \/ /\ ~(counted /\ op.cfg.on /\ fails + 1 >= DisableAfter)
          /\ fails' = IF ~counted \/ fails + 1 > DisableAfter
                      THEN (IF counted THEN fails ELSE 0) ELSE fails + 1
          /\ UNCHANGED <<file, snap, left>>
       \/ /\ counted /\ op.cfg.on /\ fails + 1 >= DisableAfter
          /\ \/ fails' = fails /\ UNCHANGED <<file, snap, left>>     \* not yet for five minutes
             \/ /\ \E bad \in BOOLEAN :
                     /\ Outcome(bad)
                     /\ IF bad THEN UNCHANGED <<file, snap>>
                        ELSE /\ snap' = [op.cfg EXCEPT !.on = FALSE]
                             /\ file' = [cfg |-> snap', stamp |-> file.stamp + 1]
                /\ fails' = 0
    /\ op' = Idle
    /\ UNCHANGED <<game, mem, web, got, watch>>

-----------------------------------------------------------------------------
\* The file and its poller.

\* Someone edits the file.
Edit(c) ==
    /\ Spend("edits") /\ file' = [cfg |-> c, stamp |-> file.stamp + 1]
    /\ UNCHANGED <<game, mem, snap, web, got, op, fails, watch>>

\* check: the stamp is taken before Apply reads the file, and kept after it.
Poll ==
    /\ web /\ watch.pc = "idle" /\ watch.seen # file.stamp
    /\ watch' = [watch EXCEPT !.pc = "read", !.stamp = file.stamp]
    /\ UNCHANGED <<game, mem, file, snap, web, got, op, fails, left>>

ReadFile ==
    /\ web /\ watch.pc = "read"
    /\ \E bad \in BOOLEAN :
         /\ Outcome(bad)
         /\ watch' = IF bad THEN [watch EXCEPT !.pc = "idle"]
                     ELSE [watch EXCEPT !.pc = "store", !.cfg = file.cfg]
    /\ UNCHANGED <<game, mem, file, snap, web, got, op, fails>>

\* reloadPartyCompatFile / reloadMailboxGuardFile publish without partyCompatMu.
StoreSnapshot ==
    /\ web /\ watch.pc = "store"
    /\ snap' = watch.cfg
    /\ watch' = IF snap = watch.cfg \/ Patch = "mailbox"
                THEN [watch EXCEPT !.pc = "idle", !.seen = watch.stamp]
                ELSE [watch EXCEPT !.pc = "reset"]
    /\ UNCHANGED <<game, mem, file, web, got, op, fails, left>>

ResetFailures ==
    /\ web /\ watch.pc = "reset" /\ op = Idle
    /\ fails' = 0 /\ watch' = [watch EXCEPT !.pc = "idle", !.seen = watch.stamp]
    /\ UNCHANGED <<game, mem, file, snap, web, got, op, left>>

-----------------------------------------------------------------------------
\* Processes.

\* The web admin dies; a traced process goes on, one that was sent SIGSTOP does not.
Killed ==
    /\ web /\ Spend("kills")
    /\ web' = FALSE /\ snap' = NoConfig /\ got' = NoConfig /\ op' = Idle /\ fails' = 0 /\ watch' = Watching
    /\ UNCHANGED <<game, mem, file>>

\* StartSupervisor's loop starts it again.
Restarted ==
    /\ ~web /\ web' = TRUE
    /\ UNCHANGED <<game, mem, file, snap, got, op, fails, watch, left>>

GameExits ==
    /\ game.pid # 0 /\ Spend("restarts")
    /\ game' = [pid |-> 0, stopped |-> FALSE] /\ mem' = [s \in Places |-> 0]
    /\ UNCHANGED <<file, snap, web, got, op, fails, watch>>

GameStarts ==
    /\ game.pid = 0
    /\ game' = [pid |-> 2 + MaxRestarts - left.restarts, stopped |-> FALSE]
    /\ UNCHANGED <<mem, file, snap, web, got, op, fails, watch, left>>

OpSteps == Inspect \/ Set \/ WriteSite \/ Undo \/ Resume \/ After
Reload == ReadFile \/ StoreSnapshot
WatchSteps == Poll \/ Reload \/ ResetFailures

Next ==
    \/ OpSteps \/ WatchSteps \/ SupervisorBegins \/ GuardReads \/ GuardBegins
    \/ \E c \in Config : handlePartyCompat(c) \/ handleCompat(c) \/ Edit(c)
    \/ Killed \/ Restarted \/ GameExits \/ GameStarts

Spec == Init /\ [][Next]_vars

-----------------------------------------------------------------------------
\* Properties.

\* The game never has a branch to a cave without a routine, whenever the web admin
\* dies and whichever single write fails (party_patch_codec.go's order of writes
\* and of restores).
BranchHasRoutine == Patch = "party" => (mem["branch"] = 1 => mem["cave"] # 0)

\* The game's memory is what the file asks for, left-overs of interrupted
\* operations included; of the mailbox guard, one half may stay when it is
\* switched off.
AsConfigured ==
    game.pid # 0 => IF file.cfg.on THEN EnabledFor(file.cfg)
                    ELSE IF Patch = "mailbox" THEN ~Enabled
                    ELSE \A s \in Places : mem[s] = 0
=============================================================================
