------------------------------ MODULE MCWriters ------------------------------
(***************************************************************************)
(* The two background writers for TLC: PositionBatcher, or ActiveSave,     *)
(* whichever `part' says; the other one rests.                             *)
(***************************************************************************)
EXTENDS PositionBatcher, TLC

CONSTANTS Changers, Flushers, Nobody, MaxChanges, MaxFlushes, MaxFails

\* The threads of ActiveSave are told apart, and so are the generations.
ASSUME ActiveAssumption ==
    /\ MaxChanges \in Nat /\ MaxFlushes \in Nat /\ MaxFails \in Nat
    /\ Changers \cap Flushers = {}
    /\ (Changers \cup Flushers) \cap (0 .. MaxChanges + MaxFlushes) = {}
    /\ Nobody \notin Changers \cup Flushers \cup (0 .. MaxChanges + MaxFlushes)

VARIABLES part,
          mem, dirty, file, aTimer, generation, aPending, aFlushing, pc, snap, joined,
          cacheMu, flushMu, since, saved, flushes, fails

activeVars == <<mem, dirty, file, aTimer, generation, aPending, aFlushing, pc, snap, joined,
                cacheMu, flushMu, since, saved, flushes, fails>>

Active == INSTANCE ActiveSave WITH timer <- aTimer, pending <- aPending, flushing <- aFlushing

MCInit == Init /\ Active!Init /\ part \in {"positions", "stores"}

MCNext ==
    \/ part = "positions" /\ Next /\ UNCHANGED <<part, activeVars>>
    \/ part = "stores" /\ Active!Next /\ UNCHANGED <<part, vars>>

MCSpec ==
    /\ MCInit /\ [][MCNext]_<<part, vars, activeVars>>
    /\ Fairness /\ Active!Fairness

\* Neither writer says it is done while something is unsaved.  When the batcher's
\* Close has returned without an error, every position is in the database and no
\* callback can write; when nothing is dirty, store_points_active.json holds the
\* current set, at most one timer or writer is active besides a Flush that
\* publishes, and what was changed before a Flush is in the file when it ends,
\* unless its own write failed.
WritersFlush ==
    /\ part = "positions" => CloseFlushes
    /\ part = "stores" => /\ Active!CleanMeansSaved /\ Active!OneActive
                          /\ Active!FlushCovers

\* A queued position is written without another Queue call, and as long as no
\* write of the active file fails, every change of the set reaches it without
\* anybody's Flush: timers, pending and dirty never forget one.
ChangesAreSaved == QueuedIsSaved /\ Active!EventuallySaved
=============================================================================
