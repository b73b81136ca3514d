------------------------------- MODULE RefHub -------------------------------
(***************************************************************************)
(* lockhub.RefHub: one mutex per uid, created on demand and dropped from   *)
(* the map when the last user leaves.  RobotRuntime runs every runtime     *)
(* call of an actor (login, logout, move, shout, store) inside             *)
(*     lock := uidLocks.Acquire(uid); defer uidLocks.Release(uid, lock)    *)
(*                                                                         *)
(* The hub mutex h.mu is held for the whole of a map section, so a map     *)
(* section is one step.  lock.mu is taken AFTER h.mu is given back and is  *)
(* given back BEFORE h.mu is taken again: those are the steps between      *)
(* which other goroutines run.                                             *)
(***************************************************************************)
EXTENDS Integers, FiniteSets

CONSTANTS Proc,      \* goroutines that call WithUIDLock
          Uid,       \* robot account ids
          Lock,      \* addresses of RefLock objects
          None       \* nil, for a map entry and for an unlocked mutex

ASSUME RefHubAssumption ==
    /\ IsFiniteSet(Proc)
    /\ None \notin Lock
    /\ None \notin Proc

VARIABLES
    locks,           \* h.locks : uid -> RefLock
    refs,            \* RefLock.refs
    owner,           \* who holds RefLock.mu
    pc,              \* where each goroutine is in Acquire/Release
    uid,             \* its argument
    lock             \* its local variable `lock'

vars == <<locks, refs, owner, pc, uid, lock>>

PC == {"out", "wait", "in", "drop"}

Init ==
    /\ locks = [u \in Uid |-> None]
    /\ refs = [l \in Lock |-> 0]
    /\ owner = [l \in Lock |-> None]
    /\ pc = [p \in Proc |-> "out"]
    /\ uid \in [Proc -> Uid]
    /\ lock \in [Proc -> Lock]

\* An address no map entry and no goroutine refers to: what &RefLock{} returns.
Fresh(l) ==
    /\ \A u \in Uid : locks[u] # l
    /\ \A p \in Proc : pc[p] # "out" => lock[p] # l

\* Acquire, first half: find or create the entry and count ourselves in, all
\* under h.mu.  A created lock starts from the zero value.
FindOrCreate(p, u) ==
    /\ pc[p] = "out"
    /\ pc' = [pc EXCEPT ![p] = "wait"]
    /\ uid' = [uid EXCEPT ![p] = u]
    /\ IF locks[u] # None
         THEN /\ lock' = [lock EXCEPT ![p] = locks[u]]
              /\ refs' = [refs EXCEPT ![locks[u]] = @ + 1]
              /\ UNCHANGED <<locks, owner>>
         ELSE \E l \in Lock :
              /\ Fresh(l)
              /\ lock' = [lock EXCEPT ![p] = l]
              /\ locks' = [locks EXCEPT ![u] = l]
              /\ refs' = [refs EXCEPT ![l] = 1]
              /\ owner' = [owner EXCEPT ![l] = None]

\* Acquire, second half: lock.mu.Lock() returns.
LockMu(p) ==
    /\ pc[p] = "wait"
    /\ owner[lock[p]] = None
    /\ owner' = [owner EXCEPT ![lock[p]] = p]
    /\ pc' = [pc EXCEPT ![p] = "in"]
    /\ UNCHANGED <<locks, refs, uid, lock>>

\* A release that returns without giving lock.mu back.
UnlockMuForgotten(p) ==
    /\ pc[p] = "in"
    /\ pc' = [pc EXCEPT ![p] = "drop"]
    /\ UNCHANGED <<locks, refs, owner, uid, lock>>

\* Release, first half: lock.mu.Unlock(), before h.mu is taken.
UnlockMu(p) ==
    /\ pc[p] = "in"
    /\ owner' = [owner EXCEPT ![lock[p]] = None]
    /\ pc' = [pc EXCEPT ![p] = "drop"]
    /\ UNCHANGED <<locks, refs, uid, lock>>

\* A release that forgets to look at the count.
LastUserIgnoresRefs(p) == locks[uid[p]] = lock[p]

\* A release that never removes the entry.
NeverLastUser(p) == FALSE

\* The entry goes when nobody is counted any more and it is still this lock.
LastUser(p) ==
    /\ refs[lock[p]] - 1 <= 0
    /\ locks[uid[p]] = lock[p]

\* Release, second half: count ourselves out and drop the entry, under h.mu.
DropRef(p) ==
    /\ pc[p] = "drop"
    /\ refs' = [refs EXCEPT ![lock[p]] = @ - 1]
    /\ locks' = IF LastUser(p) THEN [locks EXCEPT ![uid[p]] = None] ELSE locks
    /\ pc' = [pc EXCEPT ![p] = "out"]
    /\ UNCHANGED <<owner, uid, lock>>

Next ==
    \E p \in Proc :
        \/ \E u \in Uid : FindOrCreate(p, u)
        \/ LockMu(p)
        \/ UnlockMu(p)
        \/ DropRef(p)

Spec == Init /\ [][Next]_vars

-----------------------------------------------------------------------------
TypeOK ==
    /\ locks \in [Uid -> Lock \cup {None}]
    /\ refs \in [Lock -> Int]
    /\ owner \in [Lock -> Proc \cup {None}]
    /\ pc \in [Proc -> PC]
    /\ uid \in [Proc -> Uid]
    /\ lock \in [Proc -> Lock]

\* Goroutines counted in a lock: past the first half of Acquire and not yet
\* past the second half of Release.
Users(l) == {p \in Proc : pc[p] # "out" /\ lock[p] = l}

\* What makes the hub correct although the entry is deleted and re-created
\* while goroutines hold references to old lock objects: every counted
\* goroutine's lock is the one the map has for its uid, a lock serves one uid,
\* and refs is the number of counted goroutines.
MapCurrent == \A p \in Proc : pc[p] # "out" => locks[uid[p]] = lock[p]
OneUidPerLock == \A u, v \in Uid : locks[u] # None /\ locks[u] = locks[v] => u = v
RefsCount == \A u \in Uid : locks[u] # None => refs[locks[u]] = Cardinality(Users(locks[u]))
OwnerInside == \A p \in Proc : pc[p] = "in" => owner[lock[p]] = p

IInv == TypeOK /\ MapCurrent /\ OneUidPerLock /\ RefsCount /\ OwnerInside

\* Acquire/Release: two goroutines are never inside the section of one uid at
\* the same time, whatever the map did between their two halves.
MutualExclusion ==
    \A p, q \in Proc :
        pc[p] = "in" /\ pc[q] = "in" /\ uid[p] = uid[q] => p = q

\* Release: a uid has a map entry only while some goroutine is counted in it,
\* so the map does not grow with the number of uids ever used.
NoLeakedEntry == \A u \in Uid : locks[u] # None => Users(locks[u]) # {}
=============================================================================
