------------------------------ MODULE ActiveSave ------------------------------
(***************************************************************************)
(* How the set of displayed stores reaches store_points_active.json        *)
(* (internal/capability/store/coordinator_active_cache.go, and Flush in    *)
(* coordinator_cache.go): changes arm a delayed writer, a change that      *)
(* comes while it is armed or writing is remembered, and Flush stops or    *)
(* joins the writer and writes itself.                                     *)
(*                                                                         *)
(* The contents are abstracted to a version number: mem counts the changes *)
(* and file is the version that the file holds.  The threads are the       *)
(* callers that change the set (Changers), the callers of Flush (Flushers) *)
(* and one timer callback per generation.  Each critical section of        *)
(* pointMu, cacheMu and activeSave.access is a step; cacheMu is kept from  *)
(* the snapshot to the end of the write.                                   *)
(***************************************************************************)
EXTENDS Integers

CONSTANTS Changers, Flushers, \* threads
          Nobody,
          MaxChanges,         \* bound on mem
          MaxFlushes,         \* bound on the calls of Flush
          MaxFails            \* bound on the writes that fail

Timers == 1 .. MaxChanges + MaxFlushes   \* generations at which a timer may be armed
Savers == Timers \cup Flushers

VARIABLES mem, dirty,     \* the set's version, activeDirty
          file,           \* version in the file
          timer,          \* activeSave.timer and .done: generation of the timer, 0 for nil
          generation, pending, flushing,
          pc,             \* of changers and savers
          snap,           \* what a saver has read: [version, dirty]
          joined,         \* the timer whose done channel a flusher waits for
          cacheMu, flushMu,
          since, saved,   \* history: mem when Flush was called; its own write did not fail
          flushes, fails

svars == <<mem, dirty, file, timer, generation, pending, flushing, pc, snap, joined, cacheMu, flushMu,
           since, saved, flushes, fails>>

Go(p, l) == pc' = [pc EXCEPT ![p] = l]

-----------------------------------------------------------------------------
(* scheduleActiveOccupancySaveLocked: a new generation's timer is armed. *)

\* Within the bound, which stops nothing: a generation uses up a change or a Flush.
Arm(procs) ==
  /\ generation < MaxChanges + MaxFlushes
  /\ generation' = generation + 1
  /\ timer' = generation + 1
  /\ pending' = FALSE
  /\ pc' = [procs EXCEPT ![generation + 1] = "armed"]

NotArmed(procs) == pc' = procs /\ UNCHANGED <<generation, timer>>

\* Report or ReleaseUID changes the set under pointMu.
Change(c) ==
  /\ pc[c] = "idle" /\ mem < MaxChanges
  /\ mem' = mem + 1 /\ dirty' = dirty + 1
  /\ Go(c, "changed")
  /\ UNCHANGED <<file, timer, generation, pending, flushing, snap, joined, cacheMu, flushMu, since, saved, flushes, fails>>

ScheduleUnlessArmed(c) ==
  /\ pc[c] = "changed"
  /\ IF flushing \/ timer # 0
       THEN UNCHANGED pending /\ NotArmed([pc EXCEPT ![c] = "idle"])
       ELSE Arm([pc EXCEPT ![c] = "idle"])
  /\ UNCHANGED <<mem, dirty, file, flushing, snap, joined, cacheMu, flushMu, since, saved, flushes, fails>>

ScheduleAlways(c) ==
  /\ pc[c] = "changed"
  /\ Arm([pc EXCEPT ![c] = "idle"])
  /\ UNCHANGED <<mem, dirty, file, flushing, snap, joined, cacheMu, flushMu, since, saved, flushes, fails>>

\* ... and then schedules its save.
Schedule(c) ==
  /\ pc[c] = "changed"
  /\ IF flushing \/ timer # 0
       THEN pending' = TRUE /\ NotArmed([pc EXCEPT ![c] = "idle"])
       ELSE Arm([pc EXCEPT ![c] = "idle"])
  /\ UNCHANGED <<mem, dirty, file, flushing, snap, joined, cacheMu, flushMu, since, saved, flushes, fails>>

\* The timer fires: runScheduledActiveOccupancySave in its own goroutine.
Fire(t) ==
  /\ pc[t] = "armed"
  /\ Go(t, "save")
  /\ UNCHANGED <<mem, dirty, file, timer, generation, pending, flushing, snap, joined, cacheMu, flushMu, since, saved, flushes, fails>>

-----------------------------------------------------------------------------
(* saveActiveOccupancies, called by the callback and by Flush *)

Snapshot(s) ==
  /\ pc[s] = "save" /\ cacheMu = Nobody
  /\ IF dirty = 0
       THEN Go(s, "finish") /\ UNCHANGED <<snap, cacheMu>>
       ELSE /\ snap' = [snap EXCEPT ![s] = [version |-> mem, dirty |-> dirty]]
            /\ cacheMu' = s
            /\ Go(s, "write")
  /\ UNCHANGED <<mem, dirty, file, timer, generation, pending, flushing, joined, flushMu, since, saved, flushes, fails>>

WriteOK(s) ==
  /\ pc[s] = "write"
  /\ file' = snap[s].version
  /\ Go(s, "clean")
  /\ UNCHANGED <<mem, dirty, timer, generation, pending, flushing, snap, joined, cacheMu, flushMu, since, saved, flushes, fails>>

\* The write fails, or panics, which runScheduledActiveOccupancySave recovers.
WriteFailed(s) ==
  /\ pc[s] = "write" /\ fails < MaxFails
  /\ fails' = fails + 1
  /\ saved' = IF s \in Flushers THEN [saved EXCEPT ![s] = FALSE] ELSE saved
  /\ cacheMu' = Nobody
  /\ Go(s, "finish")
  /\ UNCHANGED <<mem, dirty, file, timer, generation, pending, flushing, snap, joined, flushMu, since, flushes>>

CleanAll(s) ==
  /\ pc[s] = "clean"
  /\ dirty' = 0
  /\ cacheMu' = Nobody
  /\ Go(s, "finish")
  /\ UNCHANGED <<mem, file, timer, generation, pending, flushing, snap, joined, flushMu, since, saved, flushes, fails>>

\* Only the changes that were in the snapshot are no longer dirty.
Clean(s) ==
  /\ pc[s] = "clean"
  /\ dirty' = IF dirty >= snap[s].dirty THEN dirty - snap[s].dirty ELSE 0
  /\ cacheMu' = Nobody
  /\ Go(s, "finish")
  /\ UNCHANGED <<mem, file, timer, generation, pending, flushing, snap, joined, flushMu, since, saved, flushes, fails>>

\* finishScheduledActiveOccupancySave: a callback whose generation Flush has
\* replaced only closes its channel.
FinishScheduled(t) ==
  /\ pc[t] = "finish"
  /\ IF generation # t
       THEN UNCHANGED pending /\ NotArmed([pc EXCEPT ![t] = "done"])
       ELSE IF pending /\ dirty > 0 /\ ~flushing
              THEN Arm([pc EXCEPT ![t] = "done"])
              ELSE /\ timer' = 0 /\ pending' = FALSE
                   /\ Go(t, "done") /\ UNCHANGED generation
  /\ UNCHANGED <<mem, dirty, file, flushing, snap, joined, cacheMu, flushMu, since, saved, flushes, fails>>

-----------------------------------------------------------------------------
(* Flush *)

FlushCall(f) ==
  /\ pc[f] = "idle" /\ flushes < MaxFlushes
  /\ flushes' = flushes + 1
  /\ since' = [since EXCEPT ![f] = mem] /\ saved' = [saved EXCEPT ![f] = TRUE]
  /\ Go(f, "lock")
  /\ UNCHANGED <<mem, dirty, file, timer, generation, pending, flushing, snap, joined, cacheMu, flushMu, fails>>

\* beginActiveOccupancyFlush: timer.Stop succeeds while the timer is armed;
\* otherwise the callback has started and is joined.
BeginFlush(f) ==
  /\ pc[f] = "lock" /\ flushMu = Nobody
  /\ flushMu' = f
  /\ flushing' = TRUE /\ pending' = FALSE
  /\ generation' = generation + 1
  /\ timer' = 0
  /\ IF timer # 0 /\ pc[timer] # "armed"
       THEN Go(f, "join") /\ joined' = [joined EXCEPT ![f] = timer]
       ELSE /\ pc' = [p \in DOMAIN pc |-> IF p = f THEN "save" ELSE IF p = timer THEN "done" ELSE pc[p]]
            /\ UNCHANGED joined
  /\ UNCHANGED <<mem, dirty, file, snap, cacheMu, since, saved, flushes, fails>>

JoinIsEnough(f) ==
  /\ pc[f] = "join" /\ pc[joined[f]] = "done"
  /\ Go(f, "finish")
  /\ UNCHANGED <<mem, dirty, file, timer, generation, pending, flushing, snap, joined, cacheMu, flushMu, since, saved, flushes, fails>>

\* <-done of the callback that was running.
Join(f) ==
  /\ pc[f] = "join" /\ pc[joined[f]] = "done"
  /\ Go(f, "save")
  /\ UNCHANGED <<mem, dirty, file, timer, generation, pending, flushing, snap, joined, cacheMu, flushMu, since, saved, flushes, fails>>

\* endActiveOccupancyFlush
EndFlush(f) ==
  /\ pc[f] = "finish"
  /\ flushing' = FALSE /\ flushMu' = Nobody
  /\ IF pending /\ dirty > 0
       THEN Arm([pc EXCEPT ![f] = "idle"])
       ELSE pending' = FALSE /\ NotArmed([pc EXCEPT ![f] = "idle"])
  /\ UNCHANGED <<mem, dirty, file, snap, joined, cacheMu, since, saved, flushes, fails>>

-----------------------------------------------------------------------------
Init ==
  /\ mem = 0 /\ dirty = 0 /\ file = 0 /\ timer = 0 /\ generation = 0
  /\ pending = FALSE /\ flushing = FALSE
  /\ pc = [p \in Changers \cup Savers |-> IF p \in Timers THEN "none" ELSE "idle"]
  /\ snap = [s \in Savers |-> [version |-> 0, dirty |-> 0]]
  /\ joined = [f \in Flushers |-> 0]
  /\ cacheMu = Nobody /\ flushMu = Nobody
  /\ since = [f \in Flushers |-> 0] /\ saved = [f \in Flushers |-> TRUE]
  /\ flushes = 0 /\ fails = 0

Changer(c) == Change(c) \/ Schedule(c)
Saver(s) == Snapshot(s) \/ WriteOK(s) \/ WriteFailed(s) \/ Clean(s)
Timer(t) == Fire(t) \/ Saver(t) \/ FinishScheduled(t)
Flusher(f) == FlushCall(f) \/ BeginFlush(f) \/ Join(f) \/ Saver(f) \/ EndFlush(f)

\* All threads are idle and every bound is used up.
Done ==
  /\ mem = MaxChanges /\ \A p \in DOMAIN pc : pc[p] \in {"idle", "none", "done"}
  /\ UNCHANGED svars

Next ==
  \/ \E c \in Changers : Changer(c)
  \/ \E t \in Timers : Timer(t)
  \/ \E f \in Flushers : Flusher(f)
  \/ Done

Spec == Init /\ [][Next]_svars

\* Timers fire, goroutines run and a change is followed by its schedule; nobody
\* has to change the set, to call Flush or to have a write fail.
Fairness ==
  /\ \A c \in Changers : WF_svars(Schedule(c))
  /\ \A t \in Timers : WF_svars(Fire(t) \/ Snapshot(t) \/ WriteOK(t) \/ Clean(t) \/ FinishScheduled(t))
  /\ \A f \in Flushers : WF_svars(BeginFlush(f) \/ Join(f) \/ Snapshot(f) \/ WriteOK(f) \/ Clean(f) \/ EndFlush(f))

FairSpec == Spec /\ Fairness

-----------------------------------------------------------------------------
(* Properties *)

\* The types of the coordinator's fields and of its threads.
TypeOK ==
  /\ mem \in 0 .. MaxChanges /\ dirty \in 0 .. MaxChanges /\ file \in 0 .. MaxChanges
  /\ timer \in Timers \cup {0} /\ generation \in Nat
  /\ pending \in BOOLEAN /\ flushing \in BOOLEAN
  /\ pc \in [Changers \cup Savers -> {"none", "idle", "changed", "armed", "save", "write", "clean",
                                      "finish", "done", "lock", "join"}]
  /\ snap \in [Savers -> [version : Nat, dirty : Nat]]
  /\ cacheMu \in Savers \cup {Nobody} /\ flushMu \in Flushers \cup {Nobody}

\* When nothing is dirty the file holds the current set: no interleaving of
\* changes, writers and Flush loses a change from the count.
CleanMeansSaved == dirty = 0 => file = mem

\* "Only one timer or writer is active at a time", and none besides a Flush that
\* publishes its snapshot.
AtWork(t) == pc[t] \notin {"none", "done"}
OneActive ==
  /\ \A t, u \in Timers : AtWork(t) /\ AtWork(u) => t = u
  /\ (\E f \in Flushers : pc[f] \in {"save", "write", "clean", "finish"})
       => \A t \in Timers : ~AtWork(t)

\* What was changed before Flush was called is in the file when Flush ends,
\* unless its own write failed.
FlushCovers == \A f \in Flushers : pc[f] = "finish" /\ saved[f] => file >= since[f]

\* As long as no write fails, every change reaches the file without anybody's
\* Flush: the armed timer, pending and dirty never forget one.
EventuallySaved == \A v \in 1 .. MaxChanges : mem >= v ~> file >= v \/ fails > 0

=============================================================================
