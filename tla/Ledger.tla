------------------------------- MODULE Ledger -------------------------------
(***************************************************************************)
(* actor.Ledger: which actor may drive which robot uid.  Every method runs *)
(* under indexMu, so a method is one step.  The module is also a           *)
(* specification of its own, in which any caller may call any method with  *)
(* any argument at any time: what is shown of it holds whatever the        *)
(* supervisor, the registry and the pressure worker do.                    *)
(*                                                                         *)
(* An actor is identified with its slot (slot ids are never reused).       *)
(* blockedUID and quarantine are kept as sets of uids.                     *)
(***************************************************************************)
EXTENDS Integers, FiniteSets

CONSTANTS Uid,       \* robot account ids (all > 0)
          Slot,      \* actor slots, in the order nextSlotID gives them out
          None       \* nil / no uid

ASSUME LedgerAssumption == None \notin Uid /\ None \notin Slot

VARIABLES
    actors,          \* slots registered in l.actors
    lease,           \* l.uidActors
    draining,        \* l.draining
    blocked,         \* l.blockedUID
    quarantine,      \* l.quarantine
    created,         \* slots given out so far (1 .. nextSlotID)
    exited,          \* actors whose done channel is closed
    quarantined      \* actors whose snapshot says Quarantined

indexVars == <<actors, lease, draining, blocked, quarantine, created>>
exitVars == <<exited, quarantined>>
ledgerVars == <<indexVars, exitVars>>

NewLedger ==
    /\ actors = {} /\ draining = {} /\ created = {}
    /\ lease = [u \in Uid |-> None]
    /\ blocked = {} /\ quarantine = {}
    /\ exited = {} /\ quarantined = {}

Leased(u) == lease[u] # None

-----------------------------------------------------------------------------
(* Reaping.                                                                *)

\* Actors a reap removes: finished draining ones and, for ReapDoneDraining,
\* the ones that finished although nobody drained them.
Dead(includeUnexpected) ==
    {a \in exited : a \in draining \/ (includeUnexpected /\ a \in actors)}

\* "A draining entry always wins over an unexpected classification."
MustBlock(a) == IF a \in draining THEN a \in quarantined ELSE TRUE

FreedBy(dead) == {u \in Uid : lease[u] \in dead}
BlockedBy(dead) == {u \in FreedBy(dead) : MustBlock(lease[u])}

LeaseWithout(dead) == [u \in Uid |-> IF lease[u] \in dead THEN None ELSE lease[u]]

\* reapDoneActorsLocked and reapActorLocked, apart from `actors' and
\* `draining', which EnsureAutoActorSlots goes on to change.
ReapLeases(dead) ==
    /\ lease' = LeaseWithout(dead)
    /\ blocked' = (blocked \ FreedBy(dead)) \cup BlockedBy(dead)
    /\ quarantine' = quarantine \cup BlockedBy(dead)

ReapSet(dead) ==
    /\ actors' = actors \ dead
    /\ draining' = draining \ dead
    /\ ReapLeases(dead)
    /\ UNCHANGED <<created, exitVars>>

ReapDoneDraining == ReapSet(Dead(TRUE))

\* ReapActor says TRUE without doing anything for an actor somebody else
\* has reaped already.
ReapActor(a) ==
    /\ a \in exited
    /\ IF a \in draining THEN ReapSet({a}) ELSE UNCHANGED ledgerVars

-----------------------------------------------------------------------------
(* Leases.                                                                 *)

\* A lease that overwrites the current one.
TryLeaseOKOverwrites(u, a) == a \notin draining /\ u \notin blocked

TryLeaseOK(u, a) ==
    /\ a \notin draining
    /\ u \notin blocked
    /\ ~Leased(u)

TryLeaseUID(u, a) ==
    /\ TryLeaseOK(u, a)
    /\ lease' = [lease EXCEPT ![u] = a]
    /\ UNCHANGED <<actors, draining, blocked, quarantine, created, exitVars>>

\* UnleaseUID with a non-nil actor, and RemoveLeaseIfActor.
RemoveLeaseIfActor(u, a) ==
    /\ lease' = [lease EXCEPT ![u] = IF @ = a THEN None ELSE @]
    /\ UNCHANGED <<actors, draining, blocked, quarantine, created, exitVars>>

BlockUID(u) ==
    /\ blocked' = blocked \cup {u}
    /\ UNCHANGED <<actors, lease, draining, quarantine, created, exitVars>>

BlockLeaseIfCurrent(u, a) == lease[u] = a /\ BlockUID(u)

UnblockUID(u) ==
    /\ blocked' = IF u \in quarantine THEN blocked ELSE blocked \ {u}
    /\ UNCHANGED <<actors, lease, draining, quarantine, created, exitVars>>

-----------------------------------------------------------------------------
(* Actors.                                                                 *)

\* A slot nextSlotLocked has not given out.
Unused(S) == S \subseteq Slot \ created

\* BeginDrainAutoActors, BeginDrainSomeAutoActors, BeginDrainAllActors,
\* BeginDrainUID and BeginDrainUIDs differ in the set they mark.
BeginDrain(S) ==
    /\ draining' = draining \cup S
    /\ UNCHANGED <<actors, lease, blocked, quarantine, created, exitVars>>

LesseesOf(U) == {lease[u] : u \in {v \in U : Leased(v)}}

\* EnsureAutoActorSlots under its one lock: reap the drained, register `new',
\* mark `extra'.
EnsureSlots(new, extra) ==
    LET dead == Dead(FALSE) IN
    /\ Unused(new)
    /\ created' = created \cup new
    /\ actors' = (actors \ dead) \cup new
    /\ draining' = (draining \ dead) \cup extra
    /\ ReapLeases(dead)
    /\ UNCHANGED exitVars

ReserveOK(u) == u \notin blocked /\ ~Leased(u)

\* ReserveManualActor for a uid without an actor: a new slot and its lease.
ReserveManualActor(u, a) ==
    /\ ReserveOK(u)
    /\ Unused({a})
    /\ created' = created \cup {a}
    /\ actors' = actors \cup {a}
    /\ lease' = [lease EXCEPT ![u] = a]
    /\ UNCHANGED <<draining, blocked, quarantine, exitVars>>

\* Actor side: the loop returns and closes a.done, with or without having
\* called quarantineCurrentUID.
ActorExit(a, q) ==
    /\ a \in created \ exited
    /\ exited' = exited \cup {a}
    /\ quarantined' = IF q THEN quarantined \cup {a} ELSE quarantined
    /\ UNCHANGED indexVars

LedgerNext ==
    \/ ReapDoneDraining
    \/ \E a \in Slot : ReapActor(a) \/ \E q \in BOOLEAN : ActorExit(a, q)
    \/ \E S \in SUBSET Slot : BeginDrain(S)
    \/ \E new, extra \in SUBSET Slot : EnsureSlots(new, extra)
    \/ \E u \in Uid :
         \/ BlockUID(u) \/ UnblockUID(u)
         \/ \E a \in Slot :
              \/ TryLeaseUID(u, a) \/ RemoveLeaseIfActor(u, a)
              \/ BlockLeaseIfCurrent(u, a) \/ ReserveManualActor(u, a)

LedgerSpec == NewLedger /\ [][LedgerNext]_ledgerVars

-----------------------------------------------------------------------------
LedgerTypeOK ==
    /\ actors \subseteq Slot /\ draining \subseteq Slot /\ created \subseteq Slot
    /\ lease \in [Uid -> Slot \cup {None}]
    /\ blocked \subseteq Uid /\ quarantine \subseteq Uid
    /\ exited \subseteq Slot /\ quarantined \subseteq Slot

\* quarantine, UnblockUID, reap: a uid whose session nobody could close is
\* blocked and belongs to no actor, so no TryLeaseUID and no
\* ReserveManualActor can hand it out ("quarantined UID became reusable").
QuarantineHeld == \A u \in quarantine : u \in blocked /\ lease[u] = None

LedgerInv == LedgerTypeOK /\ QuarantineHeld

\* Leases change hands only through the free state: no method replaces the
\* actor of a leased uid, and a uid is never leased while it is blocked.
LeaseHandover ==
    [][\A u \in Uid : lease'[u] # lease[u] /\ lease'[u] # None
           => lease[u] = None /\ u \notin blocked]_ledgerVars

\* reapDoneActorsLocked says that an unexpected exit keeps its uid blocked "for
\* supervisor cleanup".  cleanupBlockedUIDs passes over quarantined uids, so
\* the quarantine must get only uids whose actor gave up closing the session.
UnexpectedExitIsCleanable ==
    [][\A u \in quarantine' \ quarantine : lease[u] \in quarantined]_ledgerVars
=============================================================================
