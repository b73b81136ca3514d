---------------------------- MODULE WritersProofs ----------------------------
(***************************************************************************)
(* The two background writers, for any number of robots, callbacks, queued *)
(* positions, changes and callers of Flush: no position is lost and the    *)
(* database never goes back; neither writer says it is done while          *)
(* something is unsaved.                                                   *)
(***************************************************************************)
EXTENDS MCWriters, TLAPS

-----------------------------------------------------------------------------
(* The batcher of positions.                                               *)

\* The constants of the batch map.
LEMMA Writers ==
    /\ Closer \in Writer /\ Closer \notin Callback
    /\ Callback \subseteq Writer /\ \A w \in Writer : w \in Callback \/ w = Closer
    /\ Nothing \in [Uid -> Nat] /\ \A u \in Uid : Nothing[u] = 0
    /\ None \notin Callback
BY BatcherAssumption DEF Writer, Closer, Nothing

LEMMA InitInv == Init => BatcherInv
<1> SUFFICES ASSUME Init PROVE BatcherInv OBVIOUS
<1> USE Writers DEF Init
<1>a. queued \in [Uid -> 0 .. MaxQueued] BY BatcherAssumption DEF Nothing
<1>1. TypeOK BY <1>a DEF TypeOK
<1>2. OneAtWork BY DEF OneAtWork, Working
<1>3. \A u \in Uid : db[u] = 0 /\ pending[u] = 0 /\ queued[u] = 0 /\ dropped[u] = 0
                    /\ \A w \in Writer : batch[w][u] = 0
  OBVIOUS
<1>4. Ordered /\ NewestKept BY <1>3 DEF Ordered, NewestKept
<1> QED BY <1>1, <1>2, <1>4 DEF BatcherInv

\* Queue: the new position is the newest and is pending.
LEMMA QueueInv == ASSUME BatcherInv, NEW u \in Uid, Queue(u) PROVE BatcherInv'
<1> USE DEF BatcherInv
<1>1. TypeOK' BY BatcherAssumption DEF TypeOK, Queue, Schedule
<1>2. OneAtWork' BY BatcherAssumption DEF OneAtWork, TypeOK, Queue, Schedule, MaySchedule, Working, CallbacksIdle
<1>3. Ordered' BY DEF Ordered, TypeOK, Queue
<1>4. NewestKept' BY DEF NewestKept, TypeOK, Queue
<1> QED BY <1>1, <1>2, <1>3, <1>4

\* Discard: the newest position is no longer owed.
LEMMA DiscardInv == ASSUME BatcherInv, NEW u \in Uid, Discard(u) PROVE BatcherInv'
<1> USE DEF BatcherInv
<1>1. TypeOK' BY BatcherAssumption DEF TypeOK, Discard
<1>2. OneAtWork' BY DEF OneAtWork, Discard, CallbacksIdle
<1>3. Ordered' BY DEF Ordered, TypeOK, Discard
<1>4. NewestKept' BY BatcherAssumption DEF NewestKept, TypeOK, Discard
<1> QED BY <1>1, <1>2, <1>3, <1>4

\* Steps that move no position: only OneAtWork is at stake.
LEMMA SamePositions ==
    ASSUME Ordered, NewestKept, UNCHANGED <<pending, batch, db, queued, dropped>>
    PROVE  Ordered' /\ NewestKept'
BY DEF Ordered, NewestKept

LEMMA FireInv == ASSUME BatcherInv, NEW c \in Callback, Fire(c) PROVE BatcherInv'
<1> USE DEF BatcherInv
<1>1. TypeOK' BY DEF TypeOK, Fire
<1>2. OneAtWork' BY Writers DEF OneAtWork, TypeOK, Fire, Working, CallbacksIdle
<1>3. Ordered' /\ NewestKept' BY SamePositions DEF Fire
<1> QED BY <1>1, <1>2, <1>3

LEMMA FinishCallbackInv == ASSUME BatcherInv, NEW c \in Callback, FinishCallback(c) PROVE BatcherInv'
<1> USE DEF BatcherInv
<1>1. TypeOK' BY DEF TypeOK, FinishCallback
<1>2. OneAtWork' BY Writers DEF OneAtWork, TypeOK, FinishCallback, Working, CallbacksIdle
<1>3. Ordered' /\ NewestKept' BY SamePositions DEF FinishCallback
<1> QED BY <1>1, <1>2, <1>3

\* Whoever starts to write takes all that is pending when nothing is in flight.
LEMMA TakeKeepsPositions ==
    ASSUME TypeOK, TypeOK', Ordered, NewestKept, NEW w \in Writer,
           \A x \in Writer : batch[x] = Nothing,
           pending' = Nothing,
           batch' = [batch EXCEPT ![w] = pending],
           UNCHANGED <<db, queued, dropped>>
    PROVE  Ordered' /\ NewestKept'
<1>1. batch'[w] = pending BY DEF TypeOK
<1>2. \A x \in Writer : x # w => batch'[x] = Nothing BY DEF TypeOK
<1>3. Ordered'
  <2> SUFFICES ASSUME NEW u \in Uid
               PROVE  /\ db[u] <= queued[u] /\ 0 <= queued[u]
                      /\ \A x \in Writer : /\ batch'[x][u] <= queued[u]
                                           /\ batch'[x][u] # 0 => db[u] <= batch'[x][u]
    BY Writers DEF Ordered
  <2>1. db[u] <= queued[u] /\ pending[u] <= queued[u] /\ (pending[u] # 0 => db[u] <= pending[u])
    BY DEF Ordered
  <2>2. queued[u] \in Nat BY BatcherAssumption DEF TypeOK
  <2>3. \A x \in Writer : batch'[x][u] = pending[u] \/ batch'[x][u] = 0
    BY <1>1, <1>2, Writers
  <2> QED BY <2>1, <2>2, <2>3
<1>4. NewestKept'
  <2> SUFFICES ASSUME NEW u \in Uid, queued[u] > dropped[u]
               PROVE  db[u] = queued[u] \/ batch'[w][u] = queued[u]
    BY DEF NewestKept
  <2>1. queued[u] > 0 BY BatcherAssumption DEF TypeOK
  <2>2. \A x \in Writer : batch[x][u] = 0 BY Writers
  <2>3. db[u] = queued[u] \/ pending[u] = queued[u]
    BY <2>1, <2>2 DEF NewestKept
  <2> QED BY <2>3, <1>1
<1> QED BY <1>3, <1>4

LEMMA FlushTimerInv == ASSUME BatcherInv, NEW c \in Callback, FlushTimer(c) PROVE BatcherInv'
<1> USE DEF BatcherInv
<1>1. TypeOK' BY Writers DEF TypeOK, FlushTimer
<1>2. OneAtWork' BY Writers DEF OneAtWork, TypeOK, FlushTimer, Working, CallbacksIdle
<1>3. Ordered' /\ NewestKept'
  <2>1. CASE closed \/ pending = Nothing BY <2>1, SamePositions DEF FlushTimer
  <2>2. CASE ~(closed \/ pending = Nothing)
    <3>1. \A w \in Writer : batch[w] = Nothing
      BY <2>2, Writers DEF OneAtWork, FlushTimer, Working
    <3> QED BY <2>2, <3>1, <1>1, Writers, TakeKeepsPositions DEF FlushTimer
  <2> QED BY <2>1, <2>2
<1> QED BY <1>1, <1>2, <1>3

\* A batch that was written, as the only one in flight, leaves the order.
LEMMA WrittenKeepsPositions ==
    ASSUME TypeOK, TypeOK', Ordered, NewestKept, NEW w \in Writer,
           \A x \in Writer : x # w => batch[x] = Nothing,
           db' = Written(w),
           batch' = [batch EXCEPT ![w] = Nothing],
           UNCHANGED <<pending, queued, dropped>>
    PROVE  Ordered' /\ NewestKept' /\ \A u \in Uid : db'[u] >= db[u]
<1> SUFFICES ASSUME NEW u \in Uid
             PROVE  /\ db'[u] <= queued[u] /\ pending[u] <= queued[u]
                    /\ pending[u] # 0 => db'[u] <= pending[u]
                    /\ \A x \in Writer : batch'[x][u] = 0 /\ 0 <= queued[u]
                    /\ queued[u] > dropped[u] => db'[u] = queued[u] \/ pending[u] = queued[u]
                    /\ db'[u] >= db[u]
  BY DEF Ordered, NewestKept
<1>1. \A x \in Writer : batch'[x][u] = 0 BY Writers DEF TypeOK
<1>2. db'[u] = IF batch[w][u] # 0 THEN batch[w][u] ELSE db[u] BY DEF Written
<1>3. /\ queued[u] \in Nat /\ db[u] \in Nat /\ pending[u] \in Nat /\ batch[w][u] \in Nat
      /\ dropped[u] \in Nat
  BY BatcherAssumption DEF TypeOK
<1>4. /\ db[u] <= queued[u] /\ pending[u] <= queued[u]
      /\ pending[u] # 0 => db[u] <= pending[u]
      /\ batch[w][u] <= queued[u]
      /\ batch[w][u] # 0 => db[u] <= batch[w][u]
      /\ batch[w][u] # 0 /\ pending[u] # 0 => batch[w][u] <= pending[u]
  BY DEF Ordered
<1>5. queued[u] > dropped[u] =>
        db[u] = queued[u] \/ pending[u] = queued[u] \/ batch[w][u] = queued[u]
  <2> SUFFICES ASSUME queued[u] > dropped[u]
               PROVE  db[u] = queued[u] \/ pending[u] = queued[u] \/ batch[w][u] = queued[u]
    OBVIOUS
  <2>1. queued[u] # 0 BY <1>3
  <2>2. \A x \in Writer : x # w => batch[x][u] = 0 BY Writers
  <2> QED BY <2>1, <2>2 DEF NewestKept
<1> QED BY <1>1, <1>2, <1>3, <1>4, <1>5

\* A failed batch goes back under what is pending by now; the database has it
\* or not.
LEMMA FailedKeepsPositions ==
    ASSUME TypeOK, TypeOK', Ordered, NewestKept, NEW w \in Writer,
           \A x \in Writer : x # w => batch[x] = Nothing,
           db' \in {db, Written(w)},
           pending' = MergeFailed(w),
           batch' = [batch EXCEPT ![w] = Nothing],
           UNCHANGED <<queued, dropped>>
    PROVE  Ordered' /\ NewestKept' /\ \A u \in Uid : db'[u] >= db[u]
<1> SUFFICES ASSUME NEW u \in Uid
             PROVE  /\ db'[u] <= queued[u] /\ pending'[u] <= queued[u]
                    /\ pending'[u] # 0 => db'[u] <= pending'[u]
                    /\ \A x \in Writer : batch'[x][u] = 0 /\ 0 <= queued[u]
                    /\ queued[u] > dropped[u] => db'[u] = queued[u] \/ pending'[u] = queued[u]
                    /\ db'[u] >= db[u]
  BY DEF Ordered, NewestKept
<1>1. \A x \in Writer : batch'[x][u] = 0 BY Writers DEF TypeOK
<1>2. db'[u] = db[u] \/ db'[u] = IF batch[w][u] # 0 THEN batch[w][u] ELSE db[u] BY DEF Written
<1>m. pending'[u] = IF pending[u] # 0 THEN pending[u] ELSE batch[w][u] BY DEF MergeFailed
<1>3. /\ queued[u] \in Nat /\ db[u] \in Nat /\ pending[u] \in Nat /\ batch[w][u] \in Nat
      /\ dropped[u] \in Nat
  BY BatcherAssumption DEF TypeOK
<1>4. /\ db[u] <= queued[u] /\ pending[u] <= queued[u]
      /\ pending[u] # 0 => db[u] <= pending[u]
      /\ batch[w][u] <= queued[u]
      /\ batch[w][u] # 0 => db[u] <= batch[w][u]
      /\ batch[w][u] # 0 /\ pending[u] # 0 => batch[w][u] <= pending[u]
  BY DEF Ordered
<1>5. queued[u] > dropped[u] =>
        /\ queued[u] # 0
        /\ db[u] = queued[u] \/ pending[u] = queued[u] \/ batch[w][u] = queued[u]
  <2> SUFFICES ASSUME queued[u] > dropped[u]
               PROVE  /\ queued[u] # 0
                      /\ db[u] = queued[u] \/ pending[u] = queued[u] \/ batch[w][u] = queued[u]
    OBVIOUS
  <2>1. queued[u] # 0 BY <1>3
  <2>2. \A x \in Writer : x # w => batch[x][u] = 0 BY Writers
  <2> QED BY <2>1, <2>2 DEF NewestKept
<1> QED BY <1>1, <1>2, <1>m, <1>3, <1>4, <1>5

\* While one is writing, no other batch is in flight.
LEMMA Alone ==
    ASSUME BatcherInv, NEW w \in Writer,
           IF w = Closer THEN closing = "write" ELSE cb[w] = "write"
    PROVE  \A x \in Writer : x # w => batch[x] = Nothing
BY Writers DEF BatcherInv, OneAtWork, Working, CallbacksIdle

\* The maps that writes and failures leave behind.
LEMMA MapTypes ==
    ASSUME TypeOK, NEW w \in Writer
    PROVE  Written(w) \in [Uid -> Nat] /\ MergeFailed(w) \in [Uid -> Nat]
BY DEF TypeOK, Written, MergeFailed

\* A callback that has written leaves, and scheduleLocked may arm another.
LEMMA LeaveInv ==
    ASSUME TypeOK, OneAtWork, NEW c \in Callback, NEW now,
           cb[c] = "write",
           batch' = [batch EXCEPT ![c] = Nothing],
           flushing' = FALSE,
           Schedule(now, FALSE, [cb EXCEPT ![c] = "leave"]),
           UNCHANGED <<closed, closing>>
    PROVE  OneAtWork'
<1>0. \A d \in Callback : cb[d] \in Working => d = c BY DEF OneAtWork, Working
<1>1. timer = None BY <1>0, Writers DEF OneAtWork, TypeOK, Working
<1>2. closing \notin {"take", "write", "ok"} BY DEF OneAtWork, CallbacksIdle
<1>3. /\ \A d \in Callback : d # c => batch'[d] = batch[d]
      /\ batch'[c] = Nothing /\ batch'[Closer] = batch[Closer]
  BY Writers DEF TypeOK
<1>4. \/ /\ timer' = None
         /\ \A d \in Callback : cb'[d] = IF d = c THEN "leave" ELSE cb[d]
      \/ /\ ~closed /\ timer' \in Callback \ {c} /\ cb[timer'] = "none"
         /\ \A d \in Callback : cb'[d] = IF d = timer' THEN "armed" ELSE IF d = c THEN "leave" ELSE cb[d]
  BY <1>1 DEF Schedule, MaySchedule, TypeOK
<1>5. /\ \A d, e \in Callback : cb'[d] \in Working /\ cb'[e] \in Working => d = e
      /\ \A d \in Callback : cb'[d] \in Working => cb'[d] = "armed" /\ timer' = d
  BY <1>0, <1>4 DEF Working
<1>6. timer' # None => cb'[timer'] = "armed" BY <1>4
<1>7. \A d \in Callback : cb'[d] # "write" BY <1>5 DEF Working
<1>8. \A d \in Callback : cb'[d] # "write" => batch'[d] = Nothing
  <2> SUFFICES ASSUME NEW d \in Callback, d # c PROVE batch[d] = Nothing BY <1>3
  <2> QED BY <1>0 DEF OneAtWork, Working
<1>9. closed' <=> closing' # "no" BY DEF OneAtWork
<1>10. closing' # "write" => batch'[Closer] = Nothing BY <1>3 DEF OneAtWork
<1> QED BY <1>2, <1>5, <1>6, <1>7, <1>8, <1>9, <1>10 DEF OneAtWork, Working, CallbacksIdle

LEMMA FlushOKInv ==
    ASSUME BatcherInv, NEW c \in Callback, FlushOK(c)
    PROVE  BatcherInv' /\ \A u \in Uid : db'[u] >= db[u]
<1> USE DEF BatcherInv
<1>1. TypeOK' BY Writers, MapTypes DEF TypeOK, FlushOK, Schedule
<1>2. OneAtWork' BY LeaveInv DEF FlushOK
<1>3. Ordered' /\ NewestKept' /\ \A u \in Uid : db'[u] >= db[u]
  BY <1>1, Writers, Alone, WrittenKeepsPositions DEF FlushOK
<1> QED BY <1>1, <1>2, <1>3

LEMMA FlushFailedInv ==
    ASSUME BatcherInv, NEW c \in Callback, FlushFailed(c)
    PROVE  BatcherInv' /\ \A u \in Uid : db'[u] >= db[u]
<1> USE DEF BatcherInv
<1>d. db' \in [Uid -> Nat] /\ pending' \in [Uid -> Nat] BY Writers, MapTypes DEF FlushFailed, TypeOK
<1>c. /\ cb' \in [Callback -> {"none", "armed", "fired", "write", "leave"}]
      /\ timer' \in Callback \cup {None}
  BY DEF FlushFailed, Schedule, TypeOK
<1>1. TypeOK' BY <1>d, <1>c, Writers DEF TypeOK, FlushFailed
<1>2. OneAtWork' BY LeaveInv DEF FlushFailed
<1>3. Ordered' /\ NewestKept' /\ \A u \in Uid : db'[u] >= db[u]
  BY <1>1, Writers, Alone, FailedKeepsPositions DEF FlushFailed
<1> QED BY <1>1, <1>2, <1>3

LEMMA CloseBeginInv == ASSUME BatcherInv, CloseBegin PROVE BatcherInv'
<1> USE DEF BatcherInv
<1>1. TypeOK' BY DEF TypeOK, CloseBegin
<1>2. OneAtWork' BY Writers DEF OneAtWork, TypeOK, CloseBegin, Working, CallbacksIdle
<1>3. Ordered' /\ NewestKept' BY SamePositions DEF CloseBegin
<1> QED BY <1>1, <1>2, <1>3

LEMMA CloseTakeInv == ASSUME BatcherInv, CloseTake PROVE BatcherInv'
<1> USE DEF BatcherInv
<1>1. TypeOK' BY Writers DEF TypeOK, CloseTake
<1>2. OneAtWork' BY Writers DEF OneAtWork, TypeOK, CloseTake, Working, CallbacksIdle
<1>3. \A w \in Writer : batch[w] = Nothing BY Writers DEF OneAtWork, CloseTake, CallbacksIdle
<1>4. Ordered' /\ NewestKept' BY <1>1, <1>3, Writers, TakeKeepsPositions DEF CloseTake
<1> QED BY <1>1, <1>2, <1>4

LEMMA CloseTimeoutInv == ASSUME BatcherInv, CloseTimeout PROVE BatcherInv'
<1> USE DEF BatcherInv
<1>1. TypeOK' BY DEF TypeOK, CloseTimeout
<1>2. OneAtWork' BY Writers DEF OneAtWork, TypeOK, CloseTimeout, CallbacksIdle
<1>3. Ordered' /\ NewestKept' BY SamePositions DEF CloseTimeout
<1> QED BY <1>1, <1>2, <1>3

LEMMA CloseWriteOKInv ==
    ASSUME BatcherInv, CloseWriteOK
    PROVE  BatcherInv' /\ \A u \in Uid : db'[u] >= db[u]
<1> USE DEF BatcherInv
<1>1. TypeOK' BY Writers, MapTypes DEF TypeOK, CloseWriteOK
<1>2. OneAtWork' BY Writers DEF OneAtWork, TypeOK, CloseWriteOK, Working, CallbacksIdle
<1>3. Ordered' /\ NewestKept' /\ \A u \in Uid : db'[u] >= db[u]
  BY <1>1, Writers, Alone, WrittenKeepsPositions DEF CloseWriteOK
<1> QED BY <1>1, <1>2, <1>3

LEMMA CloseWriteFailedInv ==
    ASSUME BatcherInv, CloseWriteFailed
    PROVE  BatcherInv' /\ \A u \in Uid : db'[u] >= db[u]
<1> USE DEF BatcherInv
<1>1. TypeOK' BY Writers, MapTypes DEF TypeOK, CloseWriteFailed
<1>2. OneAtWork' BY Writers DEF OneAtWork, TypeOK, CloseWriteFailed, Working, CallbacksIdle
<1>3. Ordered' /\ NewestKept' /\ \A u \in Uid : db'[u] >= db[u]
  BY <1>1, Writers, Alone, FailedKeepsPositions DEF CloseWriteFailed
<1> QED BY <1>1, <1>2, <1>3

\* Every step of the batcher keeps the invariant and never moves the database
\* back.
LEMMA BatcherStep ==
    ASSUME BatcherInv, [Next]_vars
    PROVE  BatcherInv' /\ [\A u \in Uid : db'[u] >= db[u]]_vars
<1> DEFINE Forward == \A u \in Uid : db'[u] >= db[u]
<1>0. db' = db => Forward BY DEF BatcherInv, TypeOK
<1>1. ASSUME NEW u \in Uid, Queue(u) PROVE BatcherInv' /\ Forward
  <2>1. BatcherInv' BY <1>1, QueueInv
  <2>2. Forward BY <1>0, <1>1 DEF Queue
  <2> QED BY <2>1, <2>2
<1>2. ASSUME NEW u \in Uid, Discard(u) PROVE BatcherInv' /\ Forward
  <2>1. BatcherInv' BY <1>2, DiscardInv
  <2>2. Forward BY <1>0, <1>2 DEF Discard
  <2> QED BY <2>1, <2>2
<1>3. ASSUME NEW c \in Callback, CallbackStep(c) PROVE BatcherInv' /\ Forward
  <2>1. CASE Fire(c) \/ FlushTimer(c) \/ FinishCallback(c)
    <3>1. BatcherInv' BY <2>1, FireInv, FlushTimerInv, FinishCallbackInv
    <3>2. Forward BY <1>0, <2>1 DEF Fire, FlushTimer, FinishCallback
    <3> QED BY <3>1, <3>2
  <2>2. CASE FlushOK(c) BY <2>2, FlushOKInv
  <2>3. CASE FlushFailed(c) BY <2>3, FlushFailedInv
  <2> QED BY <1>3, <2>1, <2>2, <2>3 DEF CallbackStep
<1>4. CASE CloseBegin \/ CloseTake \/ CloseTimeout
  <2>1. BatcherInv' BY <1>4, CloseBeginInv, CloseTakeInv, CloseTimeoutInv
  <2>2. Forward BY <1>0, <1>4 DEF CloseBegin, CloseTake, CloseTimeout
  <2> QED BY <2>1, <2>2
<1>5. CASE CloseWriteOK BY <1>5, CloseWriteOKInv
<1>6. CASE CloseWriteFailed BY <1>6, CloseWriteFailedInv
<1>7. CASE UNCHANGED vars
  BY <1>7 DEF vars, BatcherInv, TypeOK, OneAtWork, Ordered, NewestKept, CallbacksIdle
<1> QED BY <1>1, <1>2, <1>3, <1>4, <1>5, <1>6, <1>7 DEF Next, CloseStep

\* scheduleLocked, flushTimer, mergeFailedLocked, Close: at most one batch is in
\* flight, database, batch, pending and newest position are in that order, and
\* no position that was not discarded is lost.
THEOREM BatcherInvariant == Spec => []BatcherInv
<1>1. BatcherInv /\ [Next]_vars => BatcherInv' BY BatcherStep
<1> QED BY <1>1, InitInv, PTL DEF Spec

\* No position is lost: the newest one queued for a robot and not discarded is
\* pending, in the batch that is being written, or in the database, whatever
\* writes fail, time out or overlap with Close.
THEOREM BatcherKeepsNewest == Spec => []NewestKept
<1>1. BatcherInv => NewestKept BY DEF BatcherInv
<1> QED BY <1>1, BatcherInvariant, PTL

\* The database never goes back to an older position of a robot, whatever
\* fails, times out or overlaps.
THEOREM BatcherForward == Spec => NeverBackwards
<1>1. BatcherInv /\ [Next]_vars => [\A u \in Uid : db'[u] >= db[u]]_vars BY BatcherStep
<1> QED BY <1>1, BatcherInvariant, PTL DEF Spec, NeverBackwards

-----------------------------------------------------------------------------
(* The writer of store_points_active.json, for any number of callers.      *)
(*                                                                         *)
(* The argument.  dirty counts the changes since the newest snapshot that  *)
(* was written, and only the holder of cacheMu takes some of them away: it *)
(* may take those of its snapshot, and none is left just when the file has *)
(* them all.  timer is the only callback at work, unless Flush has taken   *)
(* it over and waits for it, when it has an older generation.              *)

Timers == Active!Timers
Savers == Active!Savers

\* What TypeOK leaves out.
ActiveTypes ==
    /\ Active!TypeOK
    /\ joined \in [Flushers -> Timers \cup {0}]
    /\ since \in [Flushers -> Nat] /\ saved \in [Flushers -> BOOLEAN]

\* saveActiveOccupancies, under cacheMu.
CacheInv ==
    /\ \A s \in Savers : (cacheMu = s) <=> pc[s] \in {"write", "clean"}
    /\ \A s \in Savers : pc[s] \in {"write", "clean"} =>
          /\ snap[s].dirty >= 1 /\ dirty >= snap[s].dirty
          /\ dirty + snap[s].version = mem + snap[s].dirty
    /\ \A s \in Savers : pc[s] = "write" => snap[s].version >= file
    /\ \A s \in Savers : pc[s] = "clean" => file = snap[s].version
    /\ file <= mem /\ dirty <= mem
    /\ dirty = 0 => file = mem

\* Flush, under flushMu.
InFlush == {"join", "save", "write", "clean", "finish"}
FlushInv ==
    /\ \A f \in Flushers : (flushMu = f) <=> pc[f] \in InFlush
    /\ aFlushing <=> flushMu # Nobody
    /\ \A f \in Flushers : since[f] <= mem
    /\ \A f \in Flushers : pc[f] \in {"write", "clean"} => snap[f].version >= since[f]
    /\ \A f \in Flushers : pc[f] = "finish" /\ saved[f] => file >= since[f]

\* activeSave.timer and the callbacks of all generations.
Busy(t) == pc[t] \notin {"none", "done"}
TimerInv ==
    /\ aFlushing => aTimer = 0
    /\ aTimer # 0 => /\ aTimer = generation
                     /\ \A t \in Timers : Busy(t) <=> t = aTimer
    /\ \A t \in Timers : aTimer = 0 /\ Busy(t) => \E f \in Flushers : pc[f] = "join" /\ joined[f] = t
    /\ \A t \in Timers : t > generation => pc[t] = "none"
    /\ \A f \in Flushers : pc[f] = "join" => joined[f] \in Timers /\ joined[f] < generation

ActiveInv == ActiveTypes /\ CacheInv /\ FlushInv /\ TimerInv

\* What Close took stays taken.
Taken == closing \in {"write", "ok"} => pending = Nothing

LEMMA ActiveConstants ==
    /\ Timers \subseteq Savers /\ Flushers \subseteq Savers /\ \A s \in Savers : s \in Timers \/ s \in Flushers
    /\ 0 \notin Timers /\ 0 \notin Changers /\ 0 \notin Flushers /\ Timers \subseteq Nat
    /\ \A f \in Flushers : f \notin Timers /\ f \notin Changers
    /\ \A t \in Timers : t \notin Flushers /\ t \notin Changers
    /\ \A c \in Changers : c \notin Savers
    /\ Nobody \notin Savers
    /\ \A s \in Savers : s \in Changers \cup Savers
BY ActiveAssumption DEF Timers, Savers, Active!Timers, Active!Savers

PC == {"none", "idle", "changed", "armed", "save", "write", "clean", "finish", "done", "lock", "join"}

\* The types, one by one.
LEMMA ActiveTypeFacts ==
    ASSUME ActiveTypes
    PROVE  /\ mem \in Nat /\ dirty \in Nat /\ file \in Nat /\ generation \in Nat /\ mem <= MaxChanges
           /\ aTimer \in Timers \cup {0} /\ aPending \in BOOLEAN /\ aFlushing \in BOOLEAN
           /\ pc \in [Changers \cup Savers -> PC]
           /\ snap \in [Savers -> [version : Nat, dirty : Nat]]
           /\ cacheMu \in Savers \cup {Nobody} /\ flushMu \in Flushers \cup {Nobody}
           /\ joined \in [Flushers -> Timers \cup {0}]
           /\ since \in [Flushers -> Nat] /\ saved \in [Flushers -> BOOLEAN]
           /\ \A s \in Savers : snap[s].version \in Nat /\ snap[s].dirty \in Nat
           /\ \A f \in Flushers : since[f] \in Nat
BY ActiveAssumption DEF ActiveTypes, Active!TypeOK, PC, Timers, Savers

\* One thread moves.
LEMMA GoOK ==
    ASSUME ActiveTypes, NEW p \in Changers \cup Savers, NEW l \in PC, pc' = [pc EXCEPT ![p] = l]
    PROVE  /\ pc' \in [Changers \cup Savers -> PC] /\ pc'[p] = l
           /\ \A q \in Changers \cup Savers : q # p => pc'[q] = pc[q]
BY ActiveTypeFacts

\* Putting TypeOK' together.
LEMMA ActiveTypesNext ==
    ASSUME mem' \in Nat, dirty' \in Nat, file' \in Nat, mem' <= MaxChanges, dirty' <= mem', file' <= mem',
           aTimer' \in Timers \cup {0}, generation' \in Nat, aPending' \in BOOLEAN, aFlushing' \in BOOLEAN,
           pc' \in [Changers \cup Savers -> PC], snap' \in [Savers -> [version : Nat, dirty : Nat]],
           cacheMu' \in Savers \cup {Nobody}, flushMu' \in Flushers \cup {Nobody},
           joined' \in [Flushers -> Timers \cup {0}], since' \in [Flushers -> Nat], saved' \in [Flushers -> BOOLEAN]
    PROVE  ActiveTypes'
<1>1. /\ mem' \in 0 .. MaxChanges /\ dirty' \in 0 .. MaxChanges /\ file' \in 0 .. MaxChanges
  BY ActiveAssumption
<1> QED BY <1>1 DEF ActiveTypes, Active!TypeOK, PC, Timers, Savers

\* A part holds still while what it speaks of does.
LEMMA CacheFrame ==
    ASSUME CacheInv, UNCHANGED <<mem, dirty, file, snap, cacheMu>>,
           \A s \in Savers : /\ (pc'[s] = "write") <=> (pc[s] = "write")
                             /\ (pc'[s] = "clean") <=> (pc[s] = "clean")
    PROVE  CacheInv'
<1>1. \A s \in Savers : pc'[s] \in {"write", "clean"} <=> pc[s] \in {"write", "clean"} OBVIOUS
<1> QED BY <1>1 DEF CacheInv

LEMMA TimerFrame ==
    ASSUME TimerInv, UNCHANGED <<aFlushing, aTimer, generation, joined>>,
           \A t \in Timers : (Busy(t)' <=> Busy(t)) /\ ((pc'[t] = "none") <=> (pc[t] = "none")),
           \A f \in Flushers : (pc'[f] = "join") <=> (pc[f] = "join")
    PROVE  TimerInv'
BY DEF TimerInv

LEMMA FlushFrame ==
    ASSUME FlushInv, UNCHANGED <<flushMu, aFlushing, mem, file, snap, since, saved>>,
           \A f \in Flushers : pc'[f] = pc[f]
    PROVE  FlushInv'
BY DEF FlushInv

-----------------------------------------------------------------------------
LEMMA ChangeInv == ASSUME ActiveInv, NEW c \in Changers, Active!Change(c) PROVE ActiveInv'
<1>0. ActiveTypes /\ CacheInv /\ FlushInv /\ TimerInv BY DEF ActiveInv
<1>1. /\ mem < MaxChanges /\ mem' = mem + 1 /\ dirty' = dirty + 1 /\ pc' = [pc EXCEPT ![c] = "changed"]
      /\ UNCHANGED <<file, aTimer, generation, aPending, aFlushing, snap, joined, cacheMu, flushMu, since, saved>>
  BY DEF Active!Change, Active!Go
<1>a. c \in Changers \cup Savers /\ "changed" \in PC /\ c \notin Savers BY ActiveConstants DEF PC
<1>2. /\ pc' \in [Changers \cup Savers -> PC] /\ \A s \in Savers : pc'[s] = pc[s]
  BY <1>0, <1>1, <1>a, GoOK
<1>3. ActiveTypes'
  <2>1. mem' \in Nat /\ dirty' \in Nat /\ mem' <= MaxChanges /\ dirty' <= mem' /\ file <= mem'
    BY <1>0, <1>1, ActiveTypeFacts, ActiveAssumption DEF CacheInv
  <2> QED BY <1>0, <1>1, <1>2, <2>1, ActiveTypeFacts, ActiveTypesNext
<1>4. CacheInv'
  <2>1. file <= mem' /\ dirty' <= mem' /\ dirty' # 0 BY <1>0, <1>1, ActiveTypeFacts DEF CacheInv
  <2>2. ASSUME NEW s \in Savers, pc[s] \in {"write", "clean"}
        PROVE  dirty' >= snap[s].dirty /\ dirty' + snap[s].version = mem' + snap[s].dirty
    <3>1. dirty >= snap[s].dirty /\ dirty + snap[s].version = mem + snap[s].dirty BY <1>0, <2>2 DEF CacheInv
    <3> QED BY <1>0, <1>1, <3>1, ActiveTypeFacts
  <2> QED BY <1>0, <1>1, <1>2, <2>1, <2>2 DEF CacheInv
<1>5. FlushInv'
  <2>1. \A f \in Flushers : since[f] <= mem' BY <1>0, <1>1, ActiveTypeFacts DEF FlushInv
  <2> QED BY <1>0, <1>1, <1>2, <2>1, ActiveConstants DEF FlushInv
<1>6. TimerInv' BY <1>0, <1>1, <1>2, TimerFrame, ActiveConstants DEF Busy
<1> QED BY <1>3, <1>4, <1>5, <1>6 DEF ActiveInv

\* scheduleActiveOccupancySaveLocked, when no callback is at work.
LEMMA ArmOK ==
    ASSUME ActiveTypes, TimerInv, \A t \in Timers : ~Busy(t), NEW p \in Changers \cup Savers, NEW l \in PC,
           NEW g \in Nat, g = generation,
           \A t \in Timers : p = t => l \in {"none", "done"} /\ t <= g,
           Active!Arm([pc EXCEPT ![p] = l])
    PROVE  /\ aTimer' = g + 1 /\ generation' = g + 1 /\ aPending' = FALSE /\ g + 1 \in Timers
           /\ pc' \in [Changers \cup Savers -> PC] /\ pc'[g + 1] = "armed" /\ pc'[p] = l
           /\ \A q \in Changers \cup Savers : q # p /\ q # g + 1 => pc'[q] = pc[q]
           /\ \A t \in Timers : Busy(t)' <=> t = g + 1
           /\ \A t \in Timers : t > g + 1 => pc'[t] = "none"
<1>1. /\ g < MaxChanges + MaxFlushes /\ aTimer' = g + 1 /\ generation' = g + 1 /\ aPending' = FALSE
      /\ pc' = [[pc EXCEPT ![p] = l] EXCEPT ![g + 1] = "armed"]
  BY DEF Active!Arm
<1>2. g + 1 \in Timers BY <1>1, ActiveAssumption DEF Timers, Active!Timers
<1>3. p # g + 1 BY <1>2
<1>4. g + 1 \in Changers \cup Savers /\ pc \in [Changers \cup Savers -> PC]
  BY <1>2, ActiveConstants, ActiveTypeFacts
<1>5. /\ pc' \in [Changers \cup Savers -> PC] /\ pc'[g + 1] = "armed" /\ pc'[p] = l
      /\ \A q \in Changers \cup Savers : q # p /\ q # g + 1 => pc'[q] = pc[q]
  BY <1>1, <1>3, <1>4 DEF PC
<1>6. \A t \in Timers : t \in Changers \cup Savers /\ t \in Nat BY ActiveConstants
<1>7. \A t \in Timers : Busy(t)' <=> t = g + 1 BY <1>5, <1>6 DEF Busy
<1>8. \A t \in Timers : t > g + 1 => pc'[t] = "none"
  <2>1. \A t \in Timers : t > g + 1 => t > g /\ t # g + 1 /\ ~(t <= g) BY <1>6
  <2> QED BY <1>5, <1>6, <2>1 DEF TimerInv
<1> QED BY <1>1, <1>2, <1>5, <1>7, <1>8

LEMMA ScheduleInv == ASSUME ActiveInv, NEW c \in Changers, Active!Schedule(c) PROVE ActiveInv'
<1>0. ActiveTypes /\ CacheInv /\ FlushInv /\ TimerInv BY DEF ActiveInv
<1>1. UNCHANGED <<mem, dirty, file, aFlushing, snap, joined, cacheMu, flushMu, since, saved>>
  BY DEF Active!Schedule
<1>a. c \in Changers \cup Savers /\ "idle" \in PC /\ c \notin Savers BY ActiveConstants DEF PC
<1>2. CASE aFlushing \/ aTimer # 0
  <2>1. aPending' = TRUE /\ pc' = [pc EXCEPT ![c] = "idle"] /\ UNCHANGED <<generation, aTimer>>
    BY <1>2 DEF Active!Schedule, Active!NotArmed
  <2>2. /\ pc' \in [Changers \cup Savers -> PC] /\ \A s \in Savers : pc'[s] = pc[s]
    BY <1>0, <1>a, <2>1, GoOK
  <2>3. ActiveTypes' BY <1>0, <1>1, <2>1, <2>2, ActiveTypeFacts, ActiveTypesNext DEF CacheInv
  <2>4. CacheInv' BY <1>0, <1>1, <2>2, CacheFrame
  <2>5. FlushInv' BY <1>0, <1>1, <2>2, FlushFrame, ActiveConstants
  <2>6. TimerInv' BY <1>0, <1>1, <2>1, <2>2, TimerFrame, ActiveConstants DEF Busy
  <2> QED BY <2>3, <2>4, <2>5, <2>6 DEF ActiveInv
<1>3. CASE ~(aFlushing \/ aTimer # 0)
  <2>0. PICK g \in Nat : g = generation BY <1>0, ActiveTypeFacts
  <2>1. Active!Arm([pc EXCEPT ![c] = "idle"]) BY <1>3 DEF Active!Schedule
  <2>a. \A t \in Timers : ~Busy(t)
    <3>1. flushMu = Nobody BY <1>0, <1>3 DEF FlushInv
    <3>2. \A f \in Flushers : pc[f] # "join" BY <1>0, <3>1, ActiveConstants DEF FlushInv, InFlush
    <3> QED BY <1>0, <1>3, <3>2 DEF TimerInv
  <2>2. /\ aTimer' = g + 1 /\ generation' = g + 1 /\ aPending' = FALSE /\ g + 1 \in Timers
        /\ pc' \in [Changers \cup Savers -> PC] /\ pc'[g + 1] = "armed"
        /\ \A q \in Changers \cup Savers : q # c /\ q # g + 1 => pc'[q] = pc[q]
        /\ \A t \in Timers : Busy(t)' <=> t = g + 1
        /\ \A t \in Timers : t > g + 1 => pc'[t] = "none"
    <3>1. \A t \in Timers : c = t => "idle" \in {"none", "done"} /\ t <= g BY ActiveConstants
    <3> QED BY <1>0, <1>a, <2>0, <2>1, <2>a, <3>1, ArmOK
  <2>3. \A f \in Flushers : pc'[f] = pc[f] BY <1>a, <2>2, ActiveConstants
  <2>4. ActiveTypes'
    <3>1. aTimer' \in Timers \cup {0} /\ generation' \in Nat BY <2>0, <2>2
    <3>2. aPending' \in BOOLEAN BY <2>2
    <3> QED BY <1>0, <1>1, <2>2, <3>1, <3>2, ActiveTypeFacts, ActiveTypesNext DEF CacheInv
  <2>5. CacheInv'
    <3>1. pc[g + 1] \in {"none", "done"} BY <2>2, <2>a DEF Busy
    <3>2. \A s \in Savers : s # g + 1 => pc'[s] = pc[s] BY <1>a, <2>2, ActiveConstants
    <3> QED BY <1>0, <1>1, <2>2, <3>1, <3>2, CacheFrame
  <2>6. FlushInv' BY <1>0, <1>1, <2>3, FlushFrame
  <2>7. TimerInv'
    <3>1. \A f \in Flushers : pc'[f] # "join"
      BY <1>0, <1>3, <2>3, ActiveConstants DEF FlushInv, InFlush
    <3>2. g + 1 # 0 BY <2>0
    <3> QED BY <1>1, <1>3, <2>2, <3>1, <3>2 DEF TimerInv
  <2> QED BY <2>4, <2>5, <2>6, <2>7 DEF ActiveInv
<1> QED BY <1>2, <1>3

LEMMA FireActiveInv == ASSUME ActiveInv, NEW t \in Timers, Active!Fire(t) PROVE ActiveInv'
<1>0. ActiveTypes /\ CacheInv /\ FlushInv /\ TimerInv BY DEF ActiveInv
<1>1. /\ pc[t] = "armed" /\ pc' = [pc EXCEPT ![t] = "save"]
      /\ UNCHANGED <<mem, dirty, file, aTimer, generation, aPending, aFlushing, snap, joined, cacheMu, flushMu,
                     since, saved>>
  BY DEF Active!Fire, Active!Go
<1>a. t \in Changers \cup Savers /\ "save" \in PC BY ActiveConstants DEF PC
<1>2. /\ pc' \in [Changers \cup Savers -> PC] /\ pc'[t] = "save"
      /\ \A q \in Changers \cup Savers : q # t => pc'[q] = pc[q]
  BY <1>0, <1>1, <1>a, GoOK
<1>b. /\ \A s \in Savers : s # t => pc'[s] = pc[s]
      /\ \A f \in Flushers : pc'[f] = pc[f]
  BY <1>2, ActiveConstants
<1>3. ActiveTypes' BY <1>0, <1>1, <1>2, ActiveTypeFacts, ActiveTypesNext DEF CacheInv
<1>4. CacheInv' BY <1>0, <1>1, <1>2, <1>b, CacheFrame
<1>5. FlushInv' BY <1>0, <1>1, <1>b, FlushFrame
<1>6. TimerInv'
  <2>1. \A x \in Timers : (Busy(x)' <=> Busy(x)) /\ ((pc'[x] = "none") <=> (pc[x] = "none"))
    BY <1>1, <1>2, <1>b, ActiveConstants DEF Busy
  <2> QED BY <1>0, <1>1, <1>b, <2>1, TimerFrame
<1> QED BY <1>3, <1>4, <1>5, <1>6 DEF ActiveInv

-----------------------------------------------------------------------------
(* saveActiveOccupancies.                                                  *)

\* A saver goes from one place in saveActiveOccupancies to another: a callback
\* is still at work, a Flush still publishes.
SavePC == {"save", "write", "clean", "finish"}
SaveMove(s, l) ==
    /\ pc[s] \in SavePC /\ l \in SavePC /\ pc' = [pc EXCEPT ![s] = l]
    /\ UNCHANGED <<mem, aTimer, generation, aPending, aFlushing, joined, flushMu, since>>

LEMMA SaveMoveOK ==
    ASSUME ActiveInv, NEW s \in Savers, NEW l, SaveMove(s, l)
    PROVE  /\ pc' \in [Changers \cup Savers -> PC] /\ pc'[s] = l
           /\ \A x \in Savers : x # s => pc'[x] = pc[x]
           /\ TimerInv' /\ \A f \in Flushers : (pc'[f] \in InFlush) <=> (pc[f] \in InFlush)
<1>0. ActiveTypes /\ TimerInv BY DEF ActiveInv
<1>1. /\ pc' \in [Changers \cup Savers -> PC] /\ pc'[s] = l /\ \A x \in Savers : x # s => pc'[x] = pc[x]
  <2>1. s \in Changers \cup Savers /\ l \in PC BY ActiveConstants DEF SaveMove, SavePC, PC
  <2>2. pc' = [pc EXCEPT ![s] = l] BY DEF SaveMove
  <2> QED BY <1>0, <2>1, <2>2, GoOK
<1>2. pc[s] \in SavePC /\ l \in SavePC BY DEF SaveMove
<1>3. TimerInv'
  <2>1. \A t \in Timers : (Busy(t)' <=> Busy(t)) /\ ((pc'[t] = "none") <=> (pc[t] = "none"))
    BY <1>1, <1>2, ActiveConstants DEF Busy, SavePC
  <2>2. \A f \in Flushers : (pc'[f] = "join") <=> (pc[f] = "join")
    BY <1>1, <1>2, ActiveConstants DEF SavePC
  <2> QED BY <1>0, <2>1, <2>2, TimerFrame DEF SaveMove
<1>4. \A f \in Flushers : (pc'[f] \in InFlush) <=> (pc[f] \in InFlush)
  BY <1>1, <1>2, ActiveConstants DEF SavePC, InFlush
<1> QED BY <1>1, <1>3, <1>4

LEMMA SnapshotInv == ASSUME ActiveInv, NEW s \in Savers, Active!Snapshot(s) PROVE ActiveInv'
<1>0. ActiveTypes /\ CacheInv /\ FlushInv /\ TimerInv BY DEF ActiveInv
<1>1. /\ pc[s] = "save" /\ cacheMu = Nobody
      /\ UNCHANGED <<mem, dirty, file, aTimer, generation, aPending, aFlushing, joined, flushMu, since, saved>>
  BY DEF Active!Snapshot
<1>2. \A x \in Savers : pc[x] \notin {"write", "clean"} BY <1>0, <1>1, ActiveConstants DEF CacheInv
<1>3. CASE dirty = 0
  <2>1. pc' = [pc EXCEPT ![s] = "finish"] /\ UNCHANGED <<snap, cacheMu>>
    BY <1>3 DEF Active!Snapshot, Active!Go
  <2>2. SaveMove(s, "finish") BY <1>1, <2>1 DEF SaveMove, SavePC
  <2>3. /\ pc' \in [Changers \cup Savers -> PC] /\ pc'[s] = "finish"
        /\ \A x \in Savers : x # s => pc'[x] = pc[x]
        /\ TimerInv' /\ \A f \in Flushers : (pc'[f] \in InFlush) <=> (pc[f] \in InFlush)
    BY <2>2, SaveMoveOK
  <2>4. ActiveTypes' BY <1>0, <1>1, <2>1, <2>3, ActiveTypeFacts, ActiveTypesNext DEF CacheInv
  <2>5. CacheInv' BY <1>0, <1>1, <1>2, <2>1, <2>3, CacheFrame
  <2>6. FlushInv'
    <3>1. \A f \in Flushers : since[f] <= file BY <1>0, <1>3 DEF CacheInv, FlushInv
    <3>2. \A f \in Flushers : file >= since[f] BY <1>0, <3>1, ActiveTypeFacts
    <3>3. \A f \in Flushers : pc'[f] \notin {"write", "clean"} BY <1>2, <2>3, ActiveConstants
    <3> QED BY <1>0, <1>1, <2>1, <2>3, <3>2, <3>3 DEF FlushInv
  <2> QED BY <2>3, <2>4, <2>5, <2>6 DEF ActiveInv
<1>4. CASE dirty # 0
  <2>1. /\ pc' = [pc EXCEPT ![s] = "write"] /\ cacheMu' = s
        /\ snap' = [snap EXCEPT ![s] = [version |-> mem, dirty |-> dirty]]
    BY <1>4 DEF Active!Snapshot, Active!Go
  <2>2. SaveMove(s, "write") BY <1>1, <2>1 DEF SaveMove, SavePC
  <2>3. /\ pc' \in [Changers \cup Savers -> PC] /\ pc'[s] = "write"
        /\ \A x \in Savers : x # s => pc'[x] = pc[x]
        /\ TimerInv' /\ \A f \in Flushers : (pc'[f] \in InFlush) <=> (pc[f] \in InFlush)
    BY <2>2, SaveMoveOK
  <2>4. /\ snap' \in [Savers -> [version : Nat, dirty : Nat]]
        /\ snap'[s].version = mem /\ snap'[s].dirty = dirty
    BY <1>0, <2>1, ActiveTypeFacts
  <2>5. ActiveTypes' BY <1>0, <1>1, <2>1, <2>3, <2>4, ActiveTypeFacts, ActiveTypesNext DEF CacheInv
  <2>a. mem \in Nat /\ dirty \in Nat /\ file \in Nat BY <1>0, ActiveTypeFacts
  <2>6. CacheInv'
    <3>1. \A x \in Savers : x # s => pc'[x] \notin {"write", "clean"} BY <1>2, <2>3
    <3>2. dirty >= 1 /\ dirty >= dirty /\ dirty + mem = mem + dirty /\ mem >= file
      BY <1>0, <1>4, <2>a DEF CacheInv
    <3> QED BY <1>0, <1>1, <2>1, <2>3, <2>4, <3>1, <3>2 DEF CacheInv
  <2>7. FlushInv'
    <3>1. \A f \in Flushers : mem >= since[f] BY <1>0, <2>a, ActiveTypeFacts DEF FlushInv
    <3>2. \A f \in Flushers : f # s => pc'[f] \notin {"write", "clean"} BY <1>2, <2>3, ActiveConstants
    <3>3. \A f \in Flushers : pc'[f] = "finish" => pc[f] = "finish" BY <2>3, ActiveConstants
    <3> QED BY <1>0, <1>1, <2>3, <2>4, <3>1, <3>2, <3>3 DEF FlushInv
  <2> QED BY <2>3, <2>5, <2>6, <2>7 DEF ActiveInv
<1> QED BY <1>3, <1>4

\* Whoever writes or cleans is alone.
LEMMA WriterAlone ==
    ASSUME CacheInv, NEW s \in Savers, pc[s] \in {"write", "clean"}
    PROVE  cacheMu = s /\ \A x \in Savers : x # s => pc[x] \notin {"write", "clean"}
BY DEF CacheInv

LEMMA WriteOKInv == ASSUME ActiveInv, NEW s \in Savers, Active!WriteOK(s) PROVE ActiveInv'
<1>0. ActiveTypes /\ CacheInv /\ FlushInv /\ TimerInv BY DEF ActiveInv
<1>1. /\ pc[s] = "write" /\ file' = snap[s].version /\ pc' = [pc EXCEPT ![s] = "clean"]
      /\ UNCHANGED <<mem, dirty, aTimer, generation, aPending, aFlushing, snap, joined, cacheMu, flushMu, since, saved>>
  BY DEF Active!WriteOK, Active!Go
<1>2. SaveMove(s, "clean") BY <1>1 DEF SaveMove, SavePC
<1>3. /\ pc' \in [Changers \cup Savers -> PC] /\ pc'[s] = "clean"
      /\ \A x \in Savers : x # s => pc'[x] = pc[x]
      /\ TimerInv' /\ \A f \in Flushers : (pc'[f] \in InFlush) <=> (pc[f] \in InFlush)
  BY <1>2, SaveMoveOK
<1>4. cacheMu = s /\ \A x \in Savers : x # s => pc[x] \notin {"write", "clean"} BY <1>0, <1>1, WriterAlone
<1>a. /\ mem \in Nat /\ dirty \in Nat /\ file \in Nat /\ snap[s].version \in Nat /\ snap[s].dirty \in Nat
  BY <1>0, ActiveTypeFacts
<1>5. /\ snap[s].dirty >= 1 /\ dirty >= snap[s].dirty /\ dirty + snap[s].version = mem + snap[s].dirty
      /\ snap[s].version >= file
  BY <1>0, <1>1 DEF CacheInv
<1>6. file' \in Nat /\ file' <= mem /\ dirty # 0 /\ file' >= file BY <1>1, <1>5, <1>a
<1>7. ActiveTypes' BY <1>0, <1>1, <1>3, <1>6, ActiveTypeFacts, ActiveTypesNext DEF CacheInv
<1>8. CacheInv'
  <2>1. \A x \in Savers : x # s => pc'[x] \notin {"write", "clean"} BY <1>3, <1>4
  <2> QED BY <1>0, <1>1, <1>3, <1>4, <1>5, <1>6, <2>1 DEF CacheInv
<1>9. FlushInv'
  <2>1. \A f \in Flushers : pc'[f] = "finish" => pc[f] = "finish" BY <1>3, ActiveConstants
  <2>2. \A f \in Flushers : pc'[f] \in {"write", "clean"} => pc[f] \in {"write", "clean"}
    BY <1>1, <1>3, ActiveConstants
  <2>3. \A f \in Flushers : file >= since[f] => file' >= since[f] BY <1>0, <1>6, <1>a, ActiveTypeFacts
  <2> QED BY <1>0, <1>1, <1>3, <2>1, <2>2, <2>3 DEF FlushInv
<1> QED BY <1>3, <1>7, <1>8, <1>9 DEF ActiveInv

LEMMA WriteFailedInv == ASSUME ActiveInv, NEW s \in Savers, Active!WriteFailed(s) PROVE ActiveInv'
<1>0. ActiveTypes /\ CacheInv /\ FlushInv /\ TimerInv BY DEF ActiveInv
<1>1. /\ pc[s] = "write" /\ cacheMu' = Nobody /\ pc' = [pc EXCEPT ![s] = "finish"]
      /\ saved' = IF s \in Flushers THEN [saved EXCEPT ![s] = FALSE] ELSE saved
      /\ UNCHANGED <<mem, dirty, file, aTimer, generation, aPending, aFlushing, snap, joined, flushMu, since>>
  BY DEF Active!WriteFailed, Active!Go
<1>2. SaveMove(s, "finish") BY <1>1 DEF SaveMove, SavePC
<1>3. /\ pc' \in [Changers \cup Savers -> PC] /\ pc'[s] = "finish"
      /\ \A x \in Savers : x # s => pc'[x] = pc[x]
      /\ TimerInv' /\ \A f \in Flushers : (pc'[f] \in InFlush) <=> (pc[f] \in InFlush)
  BY <1>2, SaveMoveOK
<1>4. \A x \in Savers : x # s => pc[x] \notin {"write", "clean"} BY <1>0, <1>1, WriterAlone
<1>5. /\ saved' \in [Flushers -> BOOLEAN] /\ (s \in Flushers => saved'[s] = FALSE)
      /\ \A f \in Flushers : f # s => saved'[f] = saved[f]
  BY <1>0, <1>1, ActiveTypeFacts
<1>6. ActiveTypes' BY <1>0, <1>1, <1>3, <1>5, ActiveTypeFacts, ActiveTypesNext DEF CacheInv
<1>7. CacheInv'
  <2>1. \A x \in Savers : pc'[x] \notin {"write", "clean"} BY <1>3, <1>4
  <2> QED BY <1>0, <1>1, <2>1, ActiveConstants DEF CacheInv
<1>8. FlushInv'
  <2>1. \A f \in Flushers : pc'[f] = "finish" /\ saved'[f] => pc[f] = "finish" /\ saved[f]
    BY <1>3, <1>5, ActiveConstants
  <2>2. \A f \in Flushers : pc'[f] \notin {"write", "clean"} BY <1>3, <1>4, ActiveConstants
  <2> QED BY <1>0, <1>1, <1>3, <2>1, <2>2 DEF FlushInv
<1> QED BY <1>3, <1>6, <1>7, <1>8 DEF ActiveInv

LEMMA CleanInv == ASSUME ActiveInv, NEW s \in Savers, Active!Clean(s) PROVE ActiveInv'
<1>0. ActiveTypes /\ CacheInv /\ FlushInv /\ TimerInv BY DEF ActiveInv
<1>1. /\ pc[s] = "clean" /\ cacheMu' = Nobody /\ pc' = [pc EXCEPT ![s] = "finish"]
      /\ dirty' = IF dirty >= snap[s].dirty THEN dirty - snap[s].dirty ELSE 0
      /\ UNCHANGED <<mem, file, aTimer, generation, aPending, aFlushing, snap, joined, flushMu, since, saved>>
  BY DEF Active!Clean, Active!Go
<1>2. SaveMove(s, "finish") BY <1>1 DEF SaveMove, SavePC
<1>3. /\ pc' \in [Changers \cup Savers -> PC] /\ pc'[s] = "finish"
      /\ \A x \in Savers : x # s => pc'[x] = pc[x]
      /\ TimerInv' /\ \A f \in Flushers : (pc'[f] \in InFlush) <=> (pc[f] \in InFlush)
  BY <1>2, SaveMoveOK
<1>4. \A x \in Savers : x # s => pc[x] \notin {"write", "clean"} BY <1>0, <1>1, WriterAlone
<1>a. /\ mem \in Nat /\ dirty \in Nat /\ file \in Nat /\ snap[s].version \in Nat /\ snap[s].dirty \in Nat
  BY <1>0, ActiveTypeFacts
<1>5. /\ dirty >= snap[s].dirty /\ dirty + snap[s].version = mem + snap[s].dirty
      /\ file = snap[s].version /\ dirty <= mem
  BY <1>0, <1>1 DEF CacheInv
<1>6. dirty' = dirty - snap[s].dirty BY <1>1, <1>5
<1>7. dirty' \in Nat /\ dirty' <= mem /\ (dirty' = 0 => file = mem) BY <1>5, <1>6, <1>a
<1>8. ActiveTypes' BY <1>0, <1>1, <1>3, <1>7, ActiveTypeFacts, ActiveTypesNext DEF CacheInv
<1>9. CacheInv'
  <2>1. \A x \in Savers : pc'[x] \notin {"write", "clean"} BY <1>3, <1>4
  <2> QED BY <1>0, <1>1, <1>7, <2>1, ActiveConstants DEF CacheInv
<1>10. FlushInv'
  <2>1. \A f \in Flushers : pc'[f] = "finish" => pc[f] = "finish" \/ (f = s /\ snap[f].version >= since[f])
    BY <1>0, <1>1, <1>3, ActiveConstants DEF FlushInv
  <2>2. \A f \in Flushers : pc'[f] \notin {"write", "clean"} BY <1>3, <1>4, ActiveConstants
  <2> QED BY <1>0, <1>1, <1>3, <1>5, <2>1, <2>2 DEF FlushInv
<1> QED BY <1>3, <1>8, <1>9, <1>10 DEF ActiveInv

-----------------------------------------------------------------------------
(* The end of a callback, and Flush.                                       *)

LEMMA FinishScheduledInv == ASSUME ActiveInv, NEW t \in Timers, Active!FinishScheduled(t) PROVE ActiveInv'
<1>0. ActiveTypes /\ CacheInv /\ FlushInv /\ TimerInv BY DEF ActiveInv
<1>1. /\ pc[t] = "finish"
      /\ UNCHANGED <<mem, dirty, file, aFlushing, snap, joined, cacheMu, flushMu, since, saved>>
  BY DEF Active!FinishScheduled
<1>a. t \in Changers \cup Savers /\ "done" \in PC /\ t \in Nat /\ generation \in Nat
  BY <1>0, ActiveConstants, ActiveTypeFacts DEF PC
<1>2. Busy(t) BY <1>1 DEF Busy
\* The callback ends and nothing is armed.
<1>3. ASSUME pc' = [pc EXCEPT ![t] = "done"], UNCHANGED generation, aPending' \in BOOLEAN,
             \/ UNCHANGED aTimer /\ aTimer # t
             \/ aTimer = t /\ aTimer' = 0
      PROVE  ActiveInv'
  <2>1. /\ pc' \in [Changers \cup Savers -> PC] /\ pc'[t] = "done"
        /\ \A q \in Changers \cup Savers : q # t => pc'[q] = pc[q]
    BY <1>0, <1>3, <1>a, GoOK
  <2>2. /\ \A s \in Savers : s # t => pc'[s] = pc[s]
        /\ \A f \in Flushers : pc'[f] = pc[f]
    BY <2>1, ActiveConstants
  <2>3. aTimer' \in Timers \cup {0} BY <1>0, <1>3, ActiveTypeFacts
  <2>4. ActiveTypes' BY <1>0, <1>1, <1>3, <2>1, <2>3, ActiveTypeFacts, ActiveTypesNext DEF CacheInv
  <2>5. CacheInv' BY <1>0, <1>1, <2>1, <2>2, CacheFrame
  <2>6. FlushInv' BY <1>0, <1>1, <2>2, FlushFrame
  <2>7. TimerInv'
    <3>1. \A x \in Timers : Busy(x)' <=> Busy(x) /\ x # t BY <2>1, <2>2, ActiveConstants DEF Busy
    <3>2. \A x \in Timers : x > generation => pc'[x] = "none"
      BY <1>0, <1>1, <2>2, ActiveConstants DEF TimerInv
    <3>3. aTimer' # 0 => FALSE BY <1>0, <1>2, <1>3, <2>3 DEF TimerInv
    <3>4. \A x \in Timers : Busy(x)' => \E f \in Flushers : pc'[f] = "join" /\ joined'[f] = x
      <4>1. CASE aTimer = t BY <1>0, <3>1, <4>1, ActiveConstants DEF TimerInv
      <4>2. CASE aTimer = 0 BY <1>0, <1>1, <2>2, <3>1, <4>2 DEF TimerInv
      <4> QED BY <1>3, <3>3, <4>1, <4>2
    <3> QED BY <1>0, <1>1, <1>3, <2>2, <3>2, <3>3, <3>4 DEF TimerInv
  <2> QED BY <2>4, <2>5, <2>6, <2>7 DEF ActiveInv
<1>4. CASE generation # t
  <2>1. UNCHANGED aPending /\ pc' = [pc EXCEPT ![t] = "done"] /\ UNCHANGED <<generation, aTimer>>
    BY <1>4 DEF Active!FinishScheduled, Active!NotArmed
  <2>2. aTimer # t BY <1>0, <1>4, <1>a, ActiveConstants DEF TimerInv
  <2>3. aPending' \in BOOLEAN BY <1>0, <2>1, ActiveTypeFacts
  <2> QED BY <1>3, <2>1, <2>2, <2>3
<1>5. CASE generation = t
  <2>1. aTimer = t
    <3>1. \A f \in Flushers : pc[f] = "join" => joined[f] # t BY <1>0, <1>5, <1>a DEF TimerInv
    <3> QED BY <1>0, <1>2, <3>1 DEF TimerInv
  <2>2. CASE ~(aPending /\ dirty > 0 /\ ~aFlushing)
    <3>1. aTimer' = 0 /\ aPending' = FALSE /\ pc' = [pc EXCEPT ![t] = "done"] /\ UNCHANGED generation
      BY <1>5, <2>2 DEF Active!FinishScheduled, Active!Go
    <3>2. aPending' \in BOOLEAN BY <3>1
    <3> QED BY <1>3, <2>1, <3>1, <3>2
  <2>3. CASE aPending /\ dirty > 0 /\ ~aFlushing
    <3>0. PICK g \in Nat : g = generation BY <1>a
    <3>1. Active!Arm([pc EXCEPT ![t] = "done"]) BY <1>5, <2>3 DEF Active!FinishScheduled
    <3>2. /\ g < MaxChanges + MaxFlushes /\ aTimer' = g + 1 /\ generation' = g + 1 /\ aPending' = FALSE
          /\ pc' = [[pc EXCEPT ![t] = "done"] EXCEPT ![g + 1] = "armed"]
      BY <3>0, <3>1 DEF Active!Arm
    <3>3. g + 1 \in Timers /\ t # g + 1 BY <1>5, <3>0, <3>2, ActiveAssumption DEF Timers, Active!Timers
    <3>4. /\ pc' \in [Changers \cup Savers -> PC] /\ pc'[g + 1] = "armed" /\ pc'[t] = "done"
          /\ \A q \in Changers \cup Savers : q # t /\ q # g + 1 => pc'[q] = pc[q]
      <4>1. g + 1 \in Changers \cup Savers /\ pc \in [Changers \cup Savers -> PC]
        BY <1>0, <3>3, ActiveConstants, ActiveTypeFacts
      <4> QED BY <1>a, <3>2, <3>3, <4>1 DEF PC
    <3>5. /\ \A s \in Savers : s # t /\ s # g + 1 => pc'[s] = pc[s]
          /\ \A f \in Flushers : pc'[f] = pc[f]
      BY <3>3, <3>4, ActiveConstants
    <3>6. pc[g + 1] = "none"
      <4>1. g + 1 > generation BY <3>0
      <4> QED BY <1>0, <3>3, <4>1 DEF TimerInv
    <3>7. ActiveTypes'
      <4>1. aTimer' \in Timers \cup {0} /\ generation' \in Nat BY <3>2, <3>3
      <4>2. aPending' \in BOOLEAN BY <3>2
      <4> QED BY <1>0, <1>1, <3>4, <4>1, <4>2, ActiveTypeFacts, ActiveTypesNext DEF CacheInv
    <3>8. CacheInv' BY <1>0, <1>1, <3>4, <3>5, <3>6, CacheFrame
    <3>9. FlushInv' BY <1>0, <1>1, <3>5, FlushFrame
    <3>10. TimerInv'
      <4>1. \A x \in Timers : x # t => ~Busy(x) BY <1>0, <2>1, ActiveConstants DEF TimerInv
      <4>2. \A x \in Timers : Busy(x)' <=> x = g + 1 BY <3>3, <3>4, <3>5, <4>1, ActiveConstants DEF Busy
      <4>3. \A x \in Timers : x > g + 1 => x > generation /\ x # g + 1 /\ x # t
        BY <1>5, <3>0, ActiveConstants
      <4>4. \A x \in Timers : x > g + 1 => pc'[x] = "none"
        BY <1>0, <3>5, <4>3, ActiveConstants DEF TimerInv
      <4>5. \A f \in Flushers : pc'[f] # "join"
        BY <1>0, <2>3, <3>5, ActiveConstants DEF FlushInv, InFlush
      <4>6. g + 1 # 0 BY <3>0
      <4> QED BY <1>1, <2>3, <3>2, <4>2, <4>4, <4>5, <4>6 DEF TimerInv
    <3> QED BY <3>7, <3>8, <3>9, <3>10 DEF ActiveInv
  <2> QED BY <2>2, <2>3
<1> QED BY <1>4, <1>5

LEMMA FlushCallInv == ASSUME ActiveInv, NEW f \in Flushers, Active!FlushCall(f) PROVE ActiveInv'
<1>0. ActiveTypes /\ CacheInv /\ FlushInv /\ TimerInv BY DEF ActiveInv
<1>1. /\ pc[f] = "idle" /\ pc' = [pc EXCEPT ![f] = "lock"]
      /\ since' = [since EXCEPT ![f] = mem] /\ saved' = [saved EXCEPT ![f] = TRUE]
      /\ UNCHANGED <<mem, dirty, file, aTimer, generation, aPending, aFlushing, snap, joined, cacheMu, flushMu>>
  BY DEF Active!FlushCall, Active!Go
<1>a. f \in Changers \cup Savers /\ "lock" \in PC BY ActiveConstants DEF PC
<1>2. /\ pc' \in [Changers \cup Savers -> PC] /\ pc'[f] = "lock"
      /\ \A q \in Changers \cup Savers : q # f => pc'[q] = pc[q]
  BY <1>0, <1>1, <1>a, GoOK
<1>3. \A s \in Savers : s # f => pc'[s] = pc[s] BY <1>2
<1>4. /\ since' \in [Flushers -> Nat] /\ saved' \in [Flushers -> BOOLEAN]
      /\ since'[f] = mem /\ \A g \in Flushers : g # f => since'[g] = since[g] /\ saved'[g] = saved[g]
  BY <1>0, <1>1, ActiveTypeFacts
<1>5. ActiveTypes' BY <1>0, <1>1, <1>2, <1>4, ActiveTypeFacts, ActiveTypesNext DEF CacheInv
<1>6. CacheInv' BY <1>0, <1>1, <1>2, <1>3, CacheFrame
<1>7. FlushInv'
  <2>1. mem <= mem BY <1>0, ActiveTypeFacts
  <2>2. \A g \in Flushers : g # f => pc'[g] = pc[g] BY <1>3, ActiveConstants
  <2>3. \A g \in Flushers : (pc'[g] \in InFlush) <=> (pc[g] \in InFlush) BY <1>1, <1>2, <2>2 DEF InFlush
  <2>4. \A g \in Flushers : since'[g] <= mem BY <1>0, <1>4, <2>1 DEF FlushInv
  <2>5. pc'[f] \notin {"write", "clean", "finish"} BY <1>2
  <2> QED BY <1>0, <1>1, <1>4, <2>2, <2>3, <2>4, <2>5 DEF FlushInv
<1>8. TimerInv'
  <2>1. \A t \in Timers : (Busy(t)' <=> Busy(t)) /\ ((pc'[t] = "none") <=> (pc[t] = "none"))
    BY <1>3, ActiveConstants DEF Busy
  <2>2. \A g \in Flushers : (pc'[g] = "join") <=> (pc[g] = "join") BY <1>1, <1>2, <1>3, ActiveConstants
  <2> QED BY <1>0, <1>1, <2>1, <2>2, TimerFrame
<1> QED BY <1>5, <1>6, <1>7, <1>8 DEF ActiveInv

LEMMA BeginFlushInv == ASSUME ActiveInv, NEW f \in Flushers, Active!BeginFlush(f) PROVE ActiveInv'
<1>0. ActiveTypes /\ CacheInv /\ FlushInv /\ TimerInv BY DEF ActiveInv
<1>1. /\ pc[f] = "lock" /\ flushMu = Nobody /\ flushMu' = f /\ aFlushing' = TRUE /\ aPending' = FALSE
      /\ generation' = generation + 1 /\ aTimer' = 0
      /\ UNCHANGED <<mem, dirty, file, snap, cacheMu, since, saved>>
  BY DEF Active!BeginFlush
<1>a. f \in Changers \cup Savers /\ "join" \in PC /\ generation \in Nat /\ pc \in [Changers \cup Savers -> PC]
  BY <1>0, ActiveConstants, ActiveTypeFacts DEF PC
<1>b. \A g \in Flushers : pc[g] \notin InFlush BY <1>0, <1>1, ActiveConstants DEF FlushInv
<1>c. aTimer' \in Timers \cup {0} /\ generation' \in Nat /\ flushMu' \in Flushers \cup {Nobody} BY <1>1, <1>a
<1>d. aPending' \in BOOLEAN /\ aFlushing' \in BOOLEAN BY <1>1
<1>e. f # Nobody BY ActiveConstants
\* What the two cases have in common.
<1>2. ASSUME pc' \in [Changers \cup Savers -> PC], pc'[f] \in {"join", "save"},
             \A g \in Flushers : g # f => pc'[g] = pc[g],
             \A t \in Timers : pc'[t] = pc[t] \/ (pc[t] = "armed" /\ pc'[t] = "done"),
             joined' \in [Flushers -> Timers \cup {0}], TimerInv'
      PROVE  ActiveInv'
  <2>1. ActiveTypes' BY <1>0, <1>1, <1>2, <1>c, <1>d, ActiveTypeFacts, ActiveTypesNext DEF CacheInv
  <2>2. \A s \in Savers : /\ (pc'[s] = "write") <=> (pc[s] = "write")
                          /\ (pc'[s] = "clean") <=> (pc[s] = "clean")
    BY <1>1, <1>2, ActiveConstants
  <2>3. CacheInv' BY <1>0, <1>1, <2>2, CacheFrame
  <2>4. FlushInv'
    <3>1. \A g \in Flushers : pc'[g] \in InFlush <=> g = f BY <1>2, <1>b DEF InFlush
    <3>2. \A g \in Flushers : pc'[g] \notin {"write", "clean", "finish"} BY <1>2, <1>b DEF InFlush
    <3> QED BY <1>0, <1>1, <1>e, <3>1, <3>2 DEF FlushInv
  <2> QED BY <1>2, <2>1, <2>3, <2>4 DEF ActiveInv
<1>3. CASE aTimer # 0 /\ pc[aTimer] # "armed"
  <2>1. pc' = [pc EXCEPT ![f] = "join"] /\ joined' = [joined EXCEPT ![f] = aTimer]
    BY <1>3 DEF Active!BeginFlush, Active!Go
  <2>2. /\ pc' \in [Changers \cup Savers -> PC] /\ pc'[f] = "join"
        /\ \A q \in Changers \cup Savers : q # f => pc'[q] = pc[q]
    BY <1>0, <1>a, <2>1, GoOK
  <2>3. /\ joined' \in [Flushers -> Timers \cup {0}] /\ joined'[f] = aTimer BY <1>0, <2>1, ActiveTypeFacts
  <2>4. /\ \A g \in Flushers : g # f => pc'[g] = pc[g]
        /\ \A t \in Timers : pc'[t] = pc[t]
    BY <2>2, ActiveConstants
  <2>5. aTimer \in Timers /\ aTimer = generation /\ aTimer < generation + 1
    BY <1>0, <1>3, <1>a, ActiveTypeFacts DEF TimerInv
  <2>6. TimerInv'
    <3>1. \A t \in Timers : Busy(t)' <=> t = aTimer BY <1>0, <1>3, <2>4 DEF Busy, TimerInv
    <3>2. \A g \in Flushers : pc'[g] = "join" => g = f BY <1>b, <2>4 DEF InFlush
    <3>3. \A t \in Timers : t > generation + 1 => t > generation BY <1>a, ActiveConstants
    <3>4. \A t \in Timers : t > generation + 1 => pc'[t] = "none" BY <1>0, <2>4, <3>3 DEF TimerInv
    <3> QED BY <1>1, <2>2, <2>3, <2>5, <3>1, <3>2, <3>4 DEF TimerInv
  <2> QED BY <1>2, <2>2, <2>3, <2>4, <2>6
<1>4. CASE ~(aTimer # 0 /\ pc[aTimer] # "armed")
  <2>1. /\ pc' = [p \in DOMAIN pc |-> IF p = f THEN "save" ELSE IF p = aTimer THEN "done" ELSE pc[p]]
        /\ UNCHANGED joined
    BY <1>4 DEF Active!BeginFlush
  <2>2. DOMAIN pc = Changers \cup Savers BY <1>a
  <2>3. \A p \in Changers \cup Savers : pc'[p] = IF p = f THEN "save" ELSE IF p = aTimer THEN "done" ELSE pc[p]
    BY <2>1, <2>2
  <2>4. pc' \in [Changers \cup Savers -> PC] BY <1>a, <2>1, <2>2 DEF PC
  <2>5. /\ pc'[f] = "save" /\ \A g \in Flushers : g # f => pc'[g] = pc[g]
    BY <1>0, <2>3, ActiveConstants, ActiveTypeFacts
  <2>6. \A t \in Timers : pc'[t] = IF t = aTimer THEN "done" ELSE pc[t] BY <2>3, ActiveConstants
  <2>7. joined' \in [Flushers -> Timers \cup {0}] BY <1>0, <2>1, ActiveTypeFacts
  <2>8. TimerInv'
    <3>1. \A g \in Flushers : pc'[g] # "join" BY <1>b, <2>5 DEF InFlush
    <3>2. \A t \in Timers : ~Busy(t)'
      <4>1. \A g \in Flushers : pc[g] # "join" BY <1>b DEF InFlush
      <4>2. \A t \in Timers : Busy(t) => t = aTimer BY <1>0, <4>1 DEF TimerInv
      <4> QED BY <2>6, <4>2 DEF Busy
    <3>3. \A t \in Timers : t > generation + 1 => t > generation /\ ~(t <= generation)
      BY <1>a, ActiveConstants
    <3>4. aTimer \in Timers => aTimer = generation BY <1>0, ActiveConstants DEF TimerInv
    <3>5. \A t \in Timers : t > generation + 1 => t # aTimer BY <1>a, <3>4, ActiveConstants
    <3>6. \A t \in Timers : t > generation + 1 => pc'[t] = "none" BY <1>0, <2>6, <3>3, <3>5 DEF TimerInv
    <3> QED BY <1>1, <3>1, <3>2, <3>6 DEF TimerInv
  <2>9. \A t \in Timers : pc'[t] = pc[t] \/ (pc[t] = "armed" /\ pc'[t] = "done")
    BY <1>4, <2>6, ActiveConstants
  <2> QED BY <1>2, <2>4, <2>5, <2>7, <2>8, <2>9
<1> QED BY <1>3, <1>4

LEMMA JoinInv == ASSUME ActiveInv, NEW f \in Flushers, Active!Join(f) PROVE ActiveInv'
<1>0. ActiveTypes /\ CacheInv /\ FlushInv /\ TimerInv BY DEF ActiveInv
<1>1. /\ pc[f] = "join" /\ pc[joined[f]] = "done" /\ pc' = [pc EXCEPT ![f] = "save"]
      /\ UNCHANGED <<mem, dirty, file, aTimer, generation, aPending, aFlushing, snap, joined, cacheMu, flushMu,
                     since, saved>>
  BY DEF Active!Join, Active!Go
<1>a. f \in Changers \cup Savers /\ "save" \in PC BY ActiveConstants DEF PC
<1>2. /\ pc' \in [Changers \cup Savers -> PC] /\ pc'[f] = "save"
      /\ \A q \in Changers \cup Savers : q # f => pc'[q] = pc[q]
  BY <1>0, <1>1, <1>a, GoOK
<1>3. /\ \A s \in Savers : s # f => pc'[s] = pc[s]
      /\ \A t \in Timers : pc'[t] = pc[t]
      /\ \A g \in Flushers : g # f => pc'[g] = pc[g]
  BY <1>2, ActiveConstants
<1>4. ActiveTypes' BY <1>0, <1>1, <1>2, ActiveTypeFacts, ActiveTypesNext DEF CacheInv
<1>5. CacheInv' BY <1>0, <1>1, <1>2, <1>3, CacheFrame
<1>6. FlushInv'
  <2>1. \A g \in Flushers : (pc'[g] \in InFlush) <=> (pc[g] \in InFlush) BY <1>1, <1>2, <1>3 DEF InFlush
  <2>2. pc'[f] \notin {"write", "clean", "finish"} BY <1>2
  <2> QED BY <1>0, <1>1, <1>3, <2>1, <2>2 DEF FlushInv
<1>7. TimerInv'
  <2>1. \A g \in Flushers : pc[g] = "join" => g = f BY <1>0, <1>1 DEF FlushInv, InFlush
  <2>2. aTimer = 0 BY <1>0, <1>1, ActiveConstants DEF FlushInv, TimerInv, InFlush
  <2>3. \A t \in Timers : ~Busy(t) BY <1>0, <1>1, <2>1, <2>2 DEF TimerInv, Busy
  <2>4. \A t \in Timers : ~Busy(t)' BY <1>3, <2>3 DEF Busy
  <2>5. \A g \in Flushers : pc'[g] # "join" BY <1>2, <1>3, <2>1
  <2> QED BY <1>0, <1>1, <1>3, <2>2, <2>4, <2>5 DEF TimerInv
<1> QED BY <1>4, <1>5, <1>6, <1>7 DEF ActiveInv

\* While a Flush publishes, no callback is at work.
LEMMA FlushAlone ==
    ASSUME ActiveInv, NEW f \in Flushers, pc[f] \in {"save", "write", "clean", "finish"}
    PROVE  /\ \A t \in Timers : ~Busy(t)
           /\ aTimer = 0 /\ flushMu = f /\ \A g \in Flushers : g # f => pc[g] \notin InFlush
<1>0. FlushInv /\ TimerInv BY DEF ActiveInv
<1>1. flushMu = f BY <1>0 DEF FlushInv, InFlush
<1>2. \A g \in Flushers : g # f => pc[g] \notin InFlush BY <1>0, <1>1 DEF FlushInv
<1>3. aTimer = 0 BY <1>0, <1>1, ActiveConstants DEF FlushInv, TimerInv
<1>4. \A g \in Flushers : pc[g] # "join" BY <1>2 DEF InFlush
<1> QED BY <1>0, <1>1, <1>2, <1>3, <1>4 DEF TimerInv

LEMMA EndFlushInv == ASSUME ActiveInv, NEW f \in Flushers, Active!EndFlush(f) PROVE ActiveInv'
<1>0. ActiveTypes /\ CacheInv /\ FlushInv /\ TimerInv BY DEF ActiveInv
<1>1. /\ pc[f] = "finish" /\ aFlushing' = FALSE /\ flushMu' = Nobody
      /\ UNCHANGED <<mem, dirty, file, snap, joined, cacheMu, since, saved>>
  BY DEF Active!EndFlush
<1>a. f \in Changers \cup Savers /\ "idle" \in PC BY ActiveConstants DEF PC
<1>2. /\ \A t \in Timers : ~Busy(t)
      /\ aTimer = 0 /\ \A g \in Flushers : g # f => pc[g] \notin InFlush
  BY <1>1, FlushAlone
<1>b. PICK g \in Nat : g = generation BY <1>0, ActiveTypeFacts
\* What the two cases have in common.
<1>3. ASSUME pc' \in [Changers \cup Savers -> PC], pc'[f] = "idle",
             \A x \in Flushers : x # f => pc'[x] = pc[x],
             \A t \in Timers : pc'[t] = pc[t] \/ (pc[t] \in {"none", "done"} /\ pc'[t] = "armed"),
             aTimer' \in Timers \cup {0}, generation' \in Nat, aPending' = FALSE,
             aTimer' # 0 => aTimer' = generation' /\ \A t \in Timers : Busy(t)' <=> t = aTimer',
             aTimer' = 0 => \A t \in Timers : ~Busy(t)',
             \A t \in Timers : t > generation' => pc'[t] = "none"
      PROVE  ActiveInv'
  <2>1. aPending' \in BOOLEAN /\ aFlushing' \in BOOLEAN BY <1>1, <1>3
  <2>2. flushMu' \in Flushers \cup {Nobody} BY <1>1
  <2>3. ActiveTypes' BY <1>0, <1>1, <1>3, <2>1, <2>2, ActiveTypeFacts, ActiveTypesNext DEF CacheInv
  <2>4. \A s \in Savers : /\ (pc'[s] = "write") <=> (pc[s] = "write")
                          /\ (pc'[s] = "clean") <=> (pc[s] = "clean")
    BY <1>1, <1>3, ActiveConstants
  <2>5. CacheInv' BY <1>0, <1>1, <2>4, CacheFrame
  <2>6. \A x \in Flushers : pc'[x] \notin InFlush BY <1>2, <1>3 DEF InFlush
  <2>7. FlushInv' BY <1>0, <1>1, <2>6, ActiveConstants DEF FlushInv, InFlush
  <2>8. \A x \in Flushers : pc'[x] # "join" BY <2>6 DEF InFlush
  <2>9. TimerInv' BY <1>1, <1>3, <2>8 DEF TimerInv
  <2> QED BY <2>3, <2>5, <2>7, <2>9 DEF ActiveInv
<1>4. CASE aPending /\ dirty > 0
  <2>1. Active!Arm([pc EXCEPT ![f] = "idle"]) BY <1>4 DEF Active!EndFlush
  <2>2. \A t \in Timers : f = t => "idle" \in {"none", "done"} /\ t <= g BY ActiveConstants
  <2>3. /\ aTimer' = g + 1 /\ generation' = g + 1 /\ aPending' = FALSE /\ g + 1 \in Timers
        /\ pc' \in [Changers \cup Savers -> PC] /\ pc'[g + 1] = "armed" /\ pc'[f] = "idle"
        /\ \A q \in Changers \cup Savers : q # f /\ q # g + 1 => pc'[q] = pc[q]
        /\ \A t \in Timers : Busy(t)' <=> t = g + 1
        /\ \A t \in Timers : t > g + 1 => pc'[t] = "none"
    BY <1>0, <1>2, <1>a, <1>b, <2>1, <2>2, ArmOK
  <2>4. /\ \A x \in Flushers : x # f => pc'[x] = pc[x]
        /\ \A t \in Timers : t # g + 1 => pc'[t] = pc[t]
    BY <2>3, ActiveConstants
  <2>5. pc[g + 1] \in {"none", "done"} BY <1>2, <2>3 DEF Busy
  <2>6. g + 1 \in Nat /\ g + 1 # 0 BY <1>b
  <2> QED BY <1>3, <2>3, <2>4, <2>5, <2>6
<1>5. CASE ~(aPending /\ dirty > 0)
  <2>1. aPending' = FALSE /\ pc' = [pc EXCEPT ![f] = "idle"] /\ UNCHANGED <<generation, aTimer>>
    BY <1>5 DEF Active!EndFlush, Active!NotArmed
  <2>2. /\ pc' \in [Changers \cup Savers -> PC] /\ pc'[f] = "idle"
        /\ \A q \in Changers \cup Savers : q # f => pc'[q] = pc[q]
    BY <1>0, <1>a, <2>1, GoOK
  <2>3. /\ \A x \in Flushers : x # f => pc'[x] = pc[x]
        /\ \A t \in Timers : pc'[t] = pc[t]
    BY <2>2, ActiveConstants
  <2>4. \A t \in Timers : ~Busy(t)' BY <1>2, <2>3 DEF Busy
  <2>5. \A t \in Timers : t > generation => pc'[t] = "none" BY <1>0, <2>3 DEF TimerInv
  <2>6. aTimer' = 0 /\ generation' = g BY <1>2, <1>b, <2>1
  <2> QED BY <1>3, <1>b, <2>1, <2>2, <2>3, <2>4, <2>5, <2>6
<1> QED BY <1>4, <1>5

-----------------------------------------------------------------------------
(* Every step of the writer of the active file.                            *)

LEMMA ActiveStill == ASSUME ActiveInv, UNCHANGED activeVars PROVE ActiveInv'
<1> USE DEF activeVars
<1>0. ActiveTypes /\ CacheInv /\ FlushInv /\ TimerInv BY DEF ActiveInv
<1>1. ActiveTypes' BY <1>0 DEF ActiveTypes, Active!TypeOK
<1>2. CacheInv' BY <1>0, CacheFrame
<1>3. FlushInv' BY <1>0 DEF FlushInv
<1>4. TimerInv' BY <1>0 DEF TimerInv, Busy
<1> QED BY <1>1, <1>2, <1>3, <1>4 DEF ActiveInv

LEMMA ActiveInit == ASSUME Active!Init PROVE ActiveInv
<1>1. /\ mem = 0 /\ dirty = 0 /\ file = 0 /\ aTimer = 0 /\ generation = 0
      /\ aPending = FALSE /\ aFlushing = FALSE /\ cacheMu = Nobody /\ flushMu = Nobody
      /\ pc = [p \in Changers \cup Savers |-> IF p \in Timers THEN "none" ELSE "idle"]
      /\ snap = [s \in Savers |-> [version |-> 0, dirty |-> 0]]
      /\ joined = [f \in Flushers |-> 0] /\ since = [f \in Flushers |-> 0]
      /\ saved = [f \in Flushers |-> TRUE]
  BY DEF Active!Init, Timers, Savers
<1>2. /\ \A s \in Savers : pc[s] \in {"none", "idle"}
      /\ \A t \in Timers : pc[t] = "none"
      /\ \A f \in Flushers : pc[f] = "idle"
  BY <1>1, ActiveConstants
<1>3. ActiveTypes
  <2>1. /\ mem \in 0 .. MaxChanges /\ dirty \in 0 .. MaxChanges /\ file \in 0 .. MaxChanges
    BY <1>1, ActiveAssumption
  <2>2. pc \in [Changers \cup Savers -> PC] BY <1>1 DEF PC
  <2>3. /\ snap \in [Savers -> [version : Nat, dirty : Nat]] /\ joined \in [Flushers -> Timers \cup {0}]
        /\ since \in [Flushers -> Nat] /\ saved \in [Flushers -> BOOLEAN]
    BY <1>1
  <2> QED BY <1>1, <2>1, <2>2, <2>3 DEF ActiveTypes, Active!TypeOK, PC, Timers, Savers
<1>4. CacheInv
  <2>1. \A s \in Savers : cacheMu # s BY <1>1, ActiveConstants
  <2> QED BY <1>1, <1>2, <2>1 DEF CacheInv
<1>5. FlushInv
  <2>1. \A f \in Flushers : flushMu # f BY <1>1, ActiveConstants
  <2>2. \A f \in Flushers : since[f] = 0 BY <1>1
  <2> QED BY <1>1, <1>2, <2>1, <2>2 DEF FlushInv, InFlush
<1>6. TimerInv BY <1>1, <1>2 DEF TimerInv, Busy
<1> QED BY <1>3, <1>4, <1>5, <1>6 DEF ActiveInv

LEMMA SaverInv == ASSUME ActiveInv, NEW s \in Savers, Active!Saver(s) PROVE ActiveInv'
BY SnapshotInv, WriteOKInv, WriteFailedInv, CleanInv DEF Active!Saver

\* Whatever thread moves, the invariant holds.
LEMMA ActiveStep == ASSUME ActiveInv, [Active!Next]_activeVars PROVE ActiveInv'
<1>1. ASSUME NEW c \in Changers, Active!Changer(c) PROVE ActiveInv'
  BY <1>1, ChangeInv, ScheduleInv DEF Active!Changer
<1>2. ASSUME NEW t \in Timers, Active!Timer(t) PROVE ActiveInv'
  <2>1. t \in Savers BY ActiveConstants
  <2> QED BY <1>2, <2>1, FireActiveInv, SaverInv, FinishScheduledInv DEF Active!Timer
<1>3. ASSUME NEW f \in Flushers, Active!Flusher(f) PROVE ActiveInv'
  <2>1. f \in Savers BY ActiveConstants
  <2> QED BY <1>3, <2>1, FlushCallInv, BeginFlushInv, JoinInv, SaverInv, EndFlushInv DEF Active!Flusher
<1>4. CASE UNCHANGED activeVars BY <1>4, ActiveStill
<1>5. CASE Active!Done BY <1>5, ActiveStill DEF Active!Done, Active!svars, activeVars
<1> QED BY <1>1, <1>2, <1>3, <1>4, <1>5 DEF Active!Next, Timers

\* What the invariant is for.
LEMMA ActiveSafe ==
    ASSUME ActiveInv
    PROVE  Active!CleanMeansSaved /\ Active!OneActive /\ Active!FlushCovers
<1>0. ActiveTypes /\ CacheInv /\ FlushInv /\ TimerInv BY DEF ActiveInv
<1>1. Active!CleanMeansSaved BY <1>0 DEF CacheInv, Active!CleanMeansSaved
<1>2. Active!FlushCovers BY <1>0 DEF FlushInv, Active!FlushCovers
<1>3. Active!OneActive
  <2>1. ASSUME NEW t \in Timers, NEW u \in Timers, Busy(t), Busy(u) PROVE t = u
    <3>1. CASE aTimer # 0 BY <1>0, <2>1, <3>1 DEF TimerInv
    <3>2. CASE aTimer = 0
      <4>1. PICK f \in Flushers : pc[f] = "join" /\ joined[f] = t BY <1>0, <2>1, <3>2 DEF TimerInv
      <4>2. PICK g \in Flushers : pc[g] = "join" /\ joined[g] = u BY <1>0, <2>1, <3>2 DEF TimerInv
      <4>3. flushMu = f /\ flushMu = g BY <1>0, <4>1, <4>2 DEF FlushInv, InFlush
      <4> QED BY <4>1, <4>2, <4>3
    <3> QED BY <3>1, <3>2
  <2>2. ASSUME NEW f \in Flushers, pc[f] \in {"save", "write", "clean", "finish"}
        PROVE  \A t \in Timers : ~Busy(t)
    BY <2>2, FlushAlone
  <2> QED BY <2>1, <2>2 DEF Active!OneActive, Active!AtWork, Busy, Timers
<1> QED BY <1>1, <1>2, <1>3

-----------------------------------------------------------------------------
(* Close of the batcher: what it took stays taken, so that a Close that    *)
(* returns without an error has left nothing behind.                       *)

LEMMA TakenStep == ASSUME BatcherInv, Taken, [Next]_vars PROVE Taken'
<1>0. TypeOK /\ OneAtWork BY DEF BatcherInv
<1>1. ASSUME NEW u \in Uid, Queue(u) PROVE Taken' BY <1>0, <1>1 DEF Queue, Taken, OneAtWork
<1>2. ASSUME NEW u \in Uid, Discard(u) PROVE Taken'
  <2>1. pending = Nothing => [pending EXCEPT ![u] = 0] = Nothing BY DEF Nothing
  <2> QED BY <1>2, <2>1 DEF Discard, Taken
<1>3. ASSUME NEW c \in Callback, CallbackStep(c) PROVE Taken'
  <2>1. CASE cb[c] = "none"
    BY <1>3, <2>1 DEF CallbackStep, Fire, FlushTimer, FlushOK, FlushFailed, FinishCallback
  <2>2. CASE cb[c] # "none"
    <3>1. closing \notin {"write", "ok"} BY <1>0, <2>2 DEF OneAtWork, CallbacksIdle
    <3>2. closing' = closing BY <1>3 DEF CallbackStep, Fire, FlushTimer, FlushOK, FlushFailed, FinishCallback
    <3> QED BY <3>1, <3>2 DEF Taken
  <2> QED BY <2>1, <2>2
<1>4. CASE CloseBegin BY <1>4 DEF CloseBegin, Taken
<1>5. CASE CloseStep BY <1>5 DEF CloseStep, CloseTake, CloseTimeout, CloseWriteOK, CloseWriteFailed, Taken
<1>6. CASE UNCHANGED vars BY <1>6 DEF vars, Taken
<1> QED BY <1>1, <1>2, <1>3, <1>4, <1>5, <1>6 DEF Next

LEMMA TakenFlushes == ASSUME BatcherInv, Taken PROVE CloseFlushes
<1>1. SUFFICES ASSUME closing = "ok"
               PROVE  CallbacksIdle /\ \A u \in Uid : queued[u] > dropped[u] => db[u] = queued[u]
  BY DEF CloseFlushes
<1>2. CallbacksIdle BY <1>1 DEF BatcherInv, OneAtWork
<1>3. pending = Nothing BY <1>1 DEF Taken
<1>4. \A w \in Writer : batch[w] = Nothing
  BY <1>1, <1>2 DEF BatcherInv, OneAtWork, CallbacksIdle, Writer
<1>5. ASSUME NEW u \in Uid, queued[u] > dropped[u] PROVE db[u] = queued[u]
  <2>1. pending[u] = 0 /\ \A w \in Writer : batch[w][u] = 0 BY <1>3, <1>4 DEF Nothing
  <2>2. queued[u] \in Nat /\ dropped[u] \in Nat BY DEF BatcherInv, TypeOK
  <2>3. queued[u] # 0 BY <1>5, <2>2
  <2> QED BY <1>5, <2>1, <2>3 DEF BatcherInv, NewestKept
<1> QED BY <1>2, <1>5

\* When Close of the batcher has returned without an error, no callback can
\* write any more and every position that was not discarded is in the database.
THEOREM BatcherCloseFlushes == Spec => []CloseFlushes
<1>1. Init => BatcherInv /\ Taken BY InitInv DEF Init, Taken
<1>2. BatcherInv /\ Taken /\ [Next]_vars => (BatcherInv /\ Taken)' BY BatcherStep, TakenStep
<1>3. BatcherInv /\ Taken => CloseFlushes BY TakenFlushes
<1> QED BY <1>1, <1>2, <1>3, PTL DEF Spec

WritersInv == BatcherInv /\ Taken /\ ActiveInv

\* The invariant of both writers, whichever is at work.
THEOREM WritersInvariant == MCSpec => []WritersInv
<1>1. MCInit => WritersInv BY InitInv, ActiveInit DEF MCInit, WritersInv, Init, Taken
<1>2. WritersInv /\ [MCNext]_<<part, vars, activeVars>> => WritersInv'
  <2> SUFFICES ASSUME WritersInv, [MCNext]_<<part, vars, activeVars>> PROVE WritersInv' OBVIOUS
  <2>1. BatcherInv /\ Taken /\ ActiveInv BY DEF WritersInv
  <2>2. [Next]_vars /\ [Active!Next]_activeVars BY DEF MCNext
  <2>3. BatcherInv' /\ Taken' BY <2>1, <2>2, BatcherStep, TakenStep
  <2>4. ActiveInv' BY <2>1, <2>2, ActiveStep
  <2> QED BY <2>3, <2>4 DEF WritersInv
<1> QED BY <1>1, <1>2, PTL DEF MCSpec

\* Neither writer says it is done while something is unsaved: Close of the
\* batcher returns without an error only when every position is in the
\* database; nothing is dirty only when store_points_active.json holds the
\* current set; at most one timer or writer is active besides a Flush that
\* publishes; and Flush covers what was changed before it was called.
THEOREM WritersNothingLost == MCSpec => []WritersFlush
<1>1. WritersInv => WritersFlush BY TakenFlushes, ActiveSafe DEF WritersInv, WritersFlush
<1> QED BY <1>1, WritersInvariant, PTL
=============================================================================
