--------------------------- MODULE PositionBatcher ---------------------------
(***************************************************************************)
(* scheduler.positionBatcher: robots' positions are collected per uid and  *)
(* written in batches by a timer callback, with retries, and once more by  *)
(* Close.                                                                  *)
(*                                                                         *)
(* Everything under b.mu is one step; a write to the database takes time.  *)
(* The n-th position queued for a uid is the number n, 0 is none.  A timer *)
(* callback is armed, fired (its goroutine runs), writing, or about to     *)
(* leave (finishCallback); b.callbackCount is the number of them.          *)
(***************************************************************************)
EXTENDS Naturals

CONSTANTS Uid,
          Callback,    \* timer callbacks that may exist at the same time
          None,
          MaxQueued    \* bound on the positions queued per uid

ASSUME BatcherAssumption == None \notin Callback /\ "close" \notin Callback /\ MaxQueued \in Nat

VARIABLES
    pending,    \* b.pending
    timer,      \* b.timer: the callback it will run
    flushing,   \* b.flushing
    closed,     \* b.closed
    cb,         \* each callback's state
    batch,      \* what a callback or Close is writing
    closing,    \* where Close is
    db,         \* the positions in the database
    queued,     \* the newest position queued
    dropped     \* the newest position when Discard was last called

vars == <<pending, timer, flushing, closed, cb, batch, closing, db, queued, dropped>>

Nothing == [u \in Uid |-> 0]
Closer == "close"
Writer == Callback \cup {Closer}

Init ==
    /\ pending = Nothing /\ db = Nothing /\ queued = Nothing /\ dropped = Nothing
    /\ timer = None /\ flushing = FALSE /\ closed = FALSE
    /\ cb = [c \in Callback |-> "none"]
    /\ batch = [w \in Writer |-> Nothing]
    /\ closing = "no"

\* b.callbackCount = 0.
CallbacksIdle == \A c \in Callback : cb[c] = "none"

-----------------------------------------------------------------------------
\* A batcher that arms a second timer while a batch is being written.
MayScheduleWhileFlushing(now, busy) ==
    ~closed /\ timer = None /\ now # Nothing

\* scheduleLocked's condition, for the pending map and the flushing flag that
\* its caller leaves behind.
MaySchedule(now, busy) ==
    ~closed /\ ~busy /\ timer = None /\ now # Nothing

\* scheduleLocked on the callback states `states'.
Schedule(now, busy, states) ==
    IF MaySchedule(now, busy)
      THEN \E c \in Callback :
           /\ states[c] = "none"
           /\ cb' = [states EXCEPT ![c] = "armed"]
           /\ timer' = c
      ELSE cb' = states /\ UNCHANGED timer

Queue(u) ==
    /\ ~closed
    /\ queued[u] < MaxQueued
    /\ queued' = [queued EXCEPT ![u] = @ + 1]
    /\ pending' = [pending EXCEPT ![u] = queued[u] + 1]
    /\ Schedule(pending', flushing, cb)
    /\ UNCHANGED <<flushing, closed, batch, closing, db, dropped>>

\* Discard, when a robot opens a store: its queued position must not be written.
Discard(u) ==
    /\ pending' = [pending EXCEPT ![u] = 0]
    /\ dropped' = [dropped EXCEPT ![u] = queued[u]]
    /\ UNCHANGED <<timer, flushing, closed, cb, batch, closing, db, queued>>

\* The runtime starts the callback's goroutine; Stop would now say FALSE.
Fire(c) ==
    /\ cb[c] = "armed"
    /\ cb' = [cb EXCEPT ![c] = "fired"]
    /\ UNCHANGED <<pending, timer, flushing, closed, batch, closing, db, queued, dropped>>

\* flushTimer up to the write.
FlushTimer(c) ==
    /\ cb[c] = "fired"
    /\ timer' = None
    /\ IF closed \/ pending = Nothing
         THEN /\ cb' = [cb EXCEPT ![c] = "leave"]
              /\ UNCHANGED <<pending, flushing, batch>>
         ELSE /\ cb' = [cb EXCEPT ![c] = "write"]
              /\ batch' = [batch EXCEPT ![c] = pending]
              /\ pending' = Nothing
              /\ flushing' = TRUE
    /\ UNCHANGED <<closed, closing, db, queued, dropped>>

\* writer.UpdateRobotPositions: one transaction, in statements of 128 rows; it
\* leaves out the robots that are stores by now (function_type='0'), whose
\* positions the store owns.
Written(w) == [u \in Uid |-> IF batch[w][u] # 0 THEN batch[w][u] ELSE db[u]]

\* A merge that puts the failed positions over newer ones.
MergeFailedOverNewer(w) == [u \in Uid |-> IF batch[w][u] # 0 THEN batch[w][u] ELSE pending[u]]

\* mergeFailedLocked: a newer pending position stays.
MergeFailed(w) == [u \in Uid |-> IF pending[u] # 0 THEN pending[u] ELSE batch[w][u]]

\* The write succeeded.
FlushOK(c) ==
    /\ cb[c] = "write"
    /\ db' = Written(c)
    /\ batch' = [batch EXCEPT ![c] = Nothing]
    /\ flushing' = FALSE
    /\ Schedule(pending, FALSE, [cb EXCEPT ![c] = "leave"])
    /\ UNCHANGED <<pending, closed, closing, queued, dropped>>

\* A failure that leaves the retry to the next Queue.
FlushFailedNoRetry(c) ==
    /\ cb[c] = "write"
    /\ db' \in {db, Written(c)}
    /\ pending' = MergeFailed(c)
    /\ batch' = [batch EXCEPT ![c] = Nothing]
    /\ flushing' = FALSE
    /\ cb' = [cb EXCEPT ![c] = "leave"]
    /\ UNCHANGED <<timer, closed, closing, queued, dropped>>

\* It failed, or its timeout expired with the transaction committed or not.
FlushFailed(c) ==
    /\ cb[c] = "write"
    /\ db' \in {db, Written(c)}
    /\ pending' = MergeFailed(c)
    /\ batch' = [batch EXCEPT ![c] = Nothing]
    /\ flushing' = FALSE
    /\ Schedule(pending', FALSE, [cb EXCEPT ![c] = "leave"])
    /\ UNCHANGED <<closed, closing, queued, dropped>>

FinishCallback(c) ==
    /\ cb[c] = "leave"
    /\ cb' = [cb EXCEPT ![c] = "none"]
    /\ UNCHANGED <<pending, timer, flushing, closed, batch, closing, db, queued, dropped>>

-----------------------------------------------------------------------------
\* Close, first part: no more positions, and the armed timer is stopped.
CloseBegin ==
    /\ closing = "no"
    /\ closed' = TRUE
    /\ timer' = None
    /\ cb' = [c \in Callback |-> IF c = timer /\ cb[c] = "armed" THEN "none" ELSE cb[c]]
    /\ closing' = IF CallbacksIdle' THEN "take" ELSE "wait"
    /\ UNCHANGED <<pending, flushing, batch, db, queued, dropped>>

\* A Close that does not wait for the callbacks.
CloseTakeAtOnce ==
    /\ closing \in {"take", "wait"}
    /\ batch' = [batch EXCEPT ![Closer] = pending]
    /\ pending' = Nothing
    /\ closing' = IF pending = Nothing THEN "ok" ELSE "write"
    /\ UNCHANGED <<timer, flushing, closed, cb, db, queued, dropped>>

\* No callback is left, or callbacksIdle is closed: take what is pending.
CloseTake ==
    /\ closing \in {"take", "wait"} /\ CallbacksIdle
    /\ batch' = [batch EXCEPT ![Closer] = pending]
    /\ pending' = Nothing
    /\ closing' = IF pending = Nothing THEN "ok" ELSE "write"
    /\ UNCHANGED <<timer, flushing, closed, cb, db, queued, dropped>>

\* closeTimeout expires while Close waits for callbacksIdle.
CloseTimeout ==
    /\ closing = "wait"
    /\ closing' = "error"
    /\ UNCHANGED <<pending, timer, flushing, closed, cb, batch, db, queued, dropped>>

CloseWriteOK ==
    /\ closing = "write"
    /\ db' = Written(Closer)
    /\ batch' = [batch EXCEPT ![Closer] = Nothing]
    /\ closing' = "ok"
    /\ UNCHANGED <<pending, timer, flushing, closed, cb, queued, dropped>>

CloseWriteFailed ==
    /\ closing = "write"
    /\ db' \in {db, Written(Closer)}
    /\ pending' = MergeFailed(Closer)
    /\ batch' = [batch EXCEPT ![Closer] = Nothing]
    /\ closing' = "error"
    /\ UNCHANGED <<timer, flushing, closed, cb, queued, dropped>>

CallbackStep(c) ==
    Fire(c) \/ FlushTimer(c) \/ FlushOK(c) \/ FlushFailed(c) \/ FinishCallback(c)

CloseStep == CloseTake \/ CloseTimeout \/ CloseWriteOK \/ CloseWriteFailed

Next ==
    \/ \E u \in Uid : Queue(u) \/ Discard(u)
    \/ \E c \in Callback : CallbackStep(c)
    \/ CloseBegin \/ CloseStep

Spec == Init /\ [][Next]_vars

\* Timers fire, goroutines run, and a database that is asked again and again
\* answers at some time.
Fairness ==
    /\ \A c \in Callback : WF_vars(CallbackStep(c)) /\ SF_vars(FlushOK(c))

FairSpec == Spec /\ Fairness

-----------------------------------------------------------------------------
TypeOK ==
    /\ pending \in [Uid -> Nat] /\ db \in [Uid -> Nat]
    /\ queued \in [Uid -> 0 .. MaxQueued] /\ dropped \in [Uid -> Nat]
    /\ batch \in [Writer -> [Uid -> Nat]]
    /\ timer \in Callback \cup {None}
    /\ flushing \in BOOLEAN /\ closed \in BOOLEAN
    /\ cb \in [Callback -> {"none", "armed", "fired", "write", "leave"}]
    /\ closing \in {"no", "wait", "take", "write", "ok", "error"}

\* The newest position of a robot is in the database, pending, or in a batch
\* that is being written, unless it was discarded: no failure, retry or close
\* loses it or leaves an older one in its place ("retry used stale position").
NewestKept ==
    \A u \in Uid : queued[u] > dropped[u] =>
        \/ db[u] = queued[u] \/ pending[u] = queued[u]
        \/ \E w \in Writer : batch[w][u] = queued[u]

\* scheduleLocked, flushTimer, Close: at most one callback is armed, fired or
\* writing, flushing says whether one is writing, and Close writes alone.
Working == {"armed", "fired", "write"}
OneAtWork ==
    /\ \A c, d \in Callback : cb[c] \in Working /\ cb[d] \in Working => c = d
    /\ \A c \in Callback : cb[c] = "armed" \/ (cb[c] = "fired" /\ ~closed) => timer = c
    /\ timer # None => cb[timer] \in {"armed", "fired"}
    /\ flushing <=> \E c \in Callback : cb[c] = "write"
    /\ closed <=> closing # "no"
    /\ closing \in {"take", "write", "ok"} => CallbacksIdle
    /\ \A c \in Callback : cb[c] # "write" => batch[c] = Nothing
    /\ closing # "write" => batch[Closer] = Nothing

\* Database, batch in flight, pending and newest position are in that order.
Ordered ==
    \A u \in Uid :
        /\ db[u] <= queued[u] /\ pending[u] <= queued[u]
        /\ pending[u] # 0 => db[u] <= pending[u]
        /\ \A w \in Writer :
             /\ batch[w][u] <= queued[u]
             /\ batch[w][u] # 0 => db[u] <= batch[w][u]
             /\ batch[w][u] # 0 /\ pending[u] # 0 => batch[w][u] <= pending[u]

\* The inductive invariant behind NeverBackwards.
BatcherInv == TypeOK /\ OneAtWork /\ Ordered /\ NewestKept

\* takePendingLocked, flushing, Close: no two batches are written at the same
\* time, so the database never goes back to an older position.
NeverBackwards == [][\A u \in Uid : db'[u] >= db[u]]_vars

\* When Close has returned without an error, everything is in the database and
\* no callback can write any more.
CloseFlushes ==
    closing = "ok" =>
        /\ CallbacksIdle
        /\ \A u \in Uid : queued[u] > dropped[u] => db[u] = queued[u]

\* scheduleLocked: a queued position is written without another Queue call,
\* however often the write fails, unless the batcher is closed.
Unsaved(u) == ~closed /\ queued[u] > dropped[u] /\ db[u] # queued[u]
QueuedIsSaved == \A u \in Uid : Unsaved(u) ~> ~Unsaved(u)

\* "discarded position was written": what flushTimer takes and hands to the
\* writer was queued after the robot's last Discard.  (A batch that was taken
\* before the Discard may still be written; Close's own batch is not looked at.)
DiscardedStaysOut ==
    [][\A c \in Callback, u \in Uid :
         batch[c][u] = 0 /\ batch'[c][u] # 0 => batch'[c][u] > dropped[u]]_vars
=============================================================================
