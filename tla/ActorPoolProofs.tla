--------------------------- MODULE ActorPoolProofs ---------------------------
(***************************************************************************)
(* What Ledger promises for every set of uids and of actors, whatever its  *)
(* callers do; and that the actor pool uses it only through its methods,   *)
(* under every schedule and every fault, so that what holds of a ledger    *)
(* with arbitrary callers holds of the running program.                    *)
(*                                                                         *)
(* The last part is about the world without faults (Faults = {}): every    *)
(* control is answered in time, no runtime call panics and no account is   *)
(* lost.  There a uid never has two drivers and is never leasable while an *)
(* actor holds it or its session is open.                                  *)
(***************************************************************************)
EXTENDS MCActorPool, TLAPS

-----------------------------------------------------------------------------
(* Ledger: arbitrary callers.                                              *)

\* A reap touches only what dead actors held: an empty lease is never freed,
\* so a quarantined uid stays blocked and without an actor, and what a reap
\* adds to the quarantine it also blocks and frees.
LEMMA ReapKeepsQuarantine ==
    ASSUME NEW dead \in SUBSET Slot, LedgerInv, ReapLeases(dead)
    PROVE  /\ lease' \in [Uid -> Slot \cup {None}]
           /\ blocked' \subseteq Uid /\ quarantine' \subseteq Uid
           /\ QuarantineHeld'
<1> USE LedgerAssumption DEF LedgerInv, LedgerTypeOK, ReapLeases, LeaseWithout, FreedBy, BlockedBy
<1>1. lease' \in [Uid -> Slot \cup {None}] /\ blocked' \subseteq Uid /\ quarantine' \subseteq Uid
  OBVIOUS
<1>2. ASSUME NEW u \in quarantine' PROVE u \in blocked' /\ lease'[u] = None
  <2>1. CASE u \in quarantine
    <3>1. u \in blocked /\ lease[u] = None BY <2>1 DEF QuarantineHeld
    <3>2. lease[u] \notin dead BY <3>1
    <3> QED BY <3>1, <3>2, <1>1
  <2>2. CASE u \in BlockedBy(dead)
    BY <2>2
  <2> QED BY <1>2, <2>1, <2>2
<1> QED BY <1>1, <1>2 DEF QuarantineHeld

\* Dead actors are actors.
LEMMA DeadAreSlots ==
    ASSUME LedgerTypeOK PROVE \A b \in BOOLEAN : Dead(b) \in SUBSET Slot
BY DEF LedgerTypeOK, Dead

\* Every ledger method keeps LedgerInv.
LEMMA LedgerInvStep ==
    LedgerInv /\ [LedgerNext]_ledgerVars => LedgerInv'
<1> SUFFICES ASSUME LedgerInv, [LedgerNext]_ledgerVars PROVE LedgerInv'
  OBVIOUS
<1>t. LedgerTypeOK /\ QuarantineHeld BY DEF LedgerInv
<1>r. ASSUME NEW dead \in SUBSET Slot, ReapSet(dead) PROVE LedgerInv'
  <2>1. QuarantineHeld' /\ lease' \in [Uid -> Slot \cup {None}] /\ blocked' \subseteq Uid /\ quarantine' \subseteq Uid
    BY <1>r, ReapKeepsQuarantine DEF ReapSet
  <2>2. actors' \subseteq Slot /\ draining' \subseteq Slot /\ created' \subseteq Slot
        /\ exited' \subseteq Slot /\ quarantined' \subseteq Slot
    BY <1>t, <1>r DEF LedgerTypeOK, ReapSet, exitVars
  <2> QED BY <2>1, <2>2 DEF LedgerInv, LedgerTypeOK
<1>1. CASE ReapDoneDraining
  BY <1>1, <1>r, <1>t, DeadAreSlots DEF ReapDoneDraining
<1>2. ASSUME NEW a \in Slot, ReapActor(a) PROVE LedgerInv'
  <2>1. CASE a \in draining
    BY <1>2, <2>1, <1>r DEF ReapActor
  <2>2. CASE a \notin draining
    BY <1>2, <2>2, <1>t DEF ReapActor, LedgerInv, LedgerTypeOK, QuarantineHeld, ledgerVars, indexVars, exitVars
  <2> QED BY <2>1, <2>2
<1>3. ASSUME NEW a \in Slot, NEW q \in BOOLEAN, ActorExit(a, q) PROVE LedgerInv'
  BY <1>3, <1>t DEF ActorExit, LedgerInv, LedgerTypeOK, QuarantineHeld, indexVars
<1>4. ASSUME NEW S \in SUBSET Slot, BeginDrain(S) PROVE LedgerInv'
  BY <1>4, <1>t DEF BeginDrain, LedgerInv, LedgerTypeOK, QuarantineHeld, exitVars
<1>5. ASSUME NEW new \in SUBSET Slot, NEW extra \in SUBSET Slot, EnsureSlots(new, extra) PROVE LedgerInv'
  <2>1. ReapLeases(Dead(FALSE)) /\ Dead(FALSE) \in SUBSET Slot
    BY <1>5, <1>t, DeadAreSlots DEF EnsureSlots
  <2>2. QuarantineHeld' /\ lease' \in [Uid -> Slot \cup {None}] /\ blocked' \subseteq Uid /\ quarantine' \subseteq Uid
    BY <2>1, ReapKeepsQuarantine
  <2>3. actors' \subseteq Slot /\ draining' \subseteq Slot /\ created' \subseteq Slot
        /\ exited' \subseteq Slot /\ quarantined' \subseteq Slot
    BY <1>t, <1>5 DEF LedgerTypeOK, EnsureSlots, exitVars
  <2> QED BY <2>2, <2>3 DEF LedgerInv, LedgerTypeOK
<1>6. ASSUME NEW u \in Uid, BlockUID(u) PROVE LedgerInv'
  BY <1>6, <1>t DEF BlockUID, LedgerInv, LedgerTypeOK, QuarantineHeld, exitVars
<1>7. ASSUME NEW u \in Uid, UnblockUID(u) PROVE LedgerInv'
  BY <1>7, <1>t DEF UnblockUID, LedgerInv, LedgerTypeOK, QuarantineHeld, exitVars
<1>8. ASSUME NEW u \in Uid, NEW a \in Slot, TryLeaseUID(u, a) PROVE LedgerInv'
  BY <1>8, <1>t DEF TryLeaseUID, TryLeaseOK, LedgerInv, LedgerTypeOK, QuarantineHeld, exitVars
<1>9. ASSUME NEW u \in Uid, NEW a \in Slot, RemoveLeaseIfActor(u, a) PROVE LedgerInv'
  BY <1>9, <1>t DEF RemoveLeaseIfActor, LedgerInv, LedgerTypeOK, QuarantineHeld, exitVars
<1>10. ASSUME NEW u \in Uid, NEW a \in Slot, ReserveManualActor(u, a) PROVE LedgerInv'
  BY <1>10, <1>t DEF ReserveManualActor, ReserveOK, Unused, LedgerInv, LedgerTypeOK, QuarantineHeld, exitVars
<1>11. CASE UNCHANGED ledgerVars
  BY <1>11, <1>t DEF ledgerVars, indexVars, exitVars, LedgerInv, LedgerTypeOK, QuarantineHeld
<1> QED
  BY <1>1, <1>2, <1>3, <1>4, <1>5, <1>6, <1>7, <1>8, <1>9, <1>10, <1>11 DEF LedgerNext, BlockLeaseIfCurrent

\* UnblockUID, reapActorLocked, TryLeaseUID: in every reachable state a
\* quarantined uid is blocked and without an actor.
THEOREM LedgerInvariant == LedgerSpec => []LedgerInv
<1>1. NewLedger => LedgerInv
  BY DEF NewLedger, LedgerInv, LedgerTypeOK, QuarantineHeld
<1> QED BY <1>1, LedgerInvStep, PTL DEF LedgerSpec

\* One step of the ledger never takes a lease over from another actor and
\* never leases a blocked uid.
LEMMA HandoverStep ==
    ASSUME LedgerInv, [LedgerNext]_ledgerVars,
           NEW u \in Uid, lease'[u] # lease[u], lease'[u] # None
    PROVE  lease[u] = None /\ u \notin blocked
<1>t. LedgerTypeOK BY DEF LedgerInv
<1>r. \A dead : ReapLeases(dead) => lease'[u] \in {lease[u], None}
  BY <1>t DEF ReapLeases, LeaseWithout, LedgerTypeOK
<1>1. ASSUME NEW v \in Uid, NEW a \in Slot, TryLeaseUID(v, a) PROVE lease[u] = None /\ u \notin blocked
  BY <1>1, <1>t DEF TryLeaseUID, TryLeaseOK, Leased, LedgerTypeOK
<1>2. ASSUME NEW v \in Uid, NEW a \in Slot, ReserveManualActor(v, a) PROVE lease[u] = None /\ u \notin blocked
  BY <1>2, <1>t DEF ReserveManualActor, ReserveOK, Leased, LedgerTypeOK
<1>3. ASSUME NEW v \in Uid, NEW a \in Slot, RemoveLeaseIfActor(v, a) PROVE FALSE
  BY <1>3, <1>t DEF RemoveLeaseIfActor, LedgerTypeOK
<1>4. ~ReapDoneDraining
  BY <1>r DEF ReapDoneDraining, ReapSet
<1>5. \A a \in Slot : ~ReapActor(a)
  BY <1>r DEF ReapActor, ReapSet, ledgerVars, indexVars
<1>6. \A new, extra \in SUBSET Slot : ~EnsureSlots(new, extra)
  BY <1>r DEF EnsureSlots
<1>7. \A v \in Uid : ~BlockUID(v) /\ ~UnblockUID(v) /\ \A a \in Slot : ~BlockLeaseIfCurrent(v, a)
  BY DEF BlockUID, UnblockUID, BlockLeaseIfCurrent
<1>8. (\A S \in SUBSET Slot : ~BeginDrain(S)) /\ \A a \in Slot, q \in BOOLEAN : ~ActorExit(a, q)
  BY DEF BeginDrain, ActorExit, indexVars
<1>9. ~UNCHANGED ledgerVars
  BY DEF ledgerVars, indexVars
<1> QED BY <1>1, <1>2, <1>3, <1>4, <1>5, <1>6, <1>7, <1>8, <1>9 DEF LedgerNext

\* TryLeaseUID, ReserveManualActor: leases change hands only through the free
\* state.
THEOREM LedgerHandover == LedgerSpec => LeaseHandover
<1>1. LedgerInv /\ [LedgerNext]_ledgerVars
      => [\A u \in Uid : lease'[u] # lease[u] /\ lease'[u] # None
              => lease[u] = None /\ u \notin blocked]_ledgerVars
  BY HandoverStep
<1> QED BY <1>1, LedgerInvariant, PTL DEF LedgerSpec, LeaseHandover

-----------------------------------------------------------------------------
(* ActorPool: the callers there are.                                       *)

Ledgered == LedgerNext \/ UNCHANGED ledgerVars

\* The zero controlResult, no job and no control are what the types allow.
LEMMA EmptyRecords ==
    /\ NoJob \in Job
    /\ NoCtrl \in Ctrl
    /\ NoReply \in [ready : BOOLEAN, uid : Uid \cup {None}, ok : BOOLEAN]
BY DEF NoJob, Job, NoCtrl, Ctrl, NoReply

\* A caller's bookkeeping keeps its types.
LEMMA GoTypes ==
    ASSUME PoolTypeOK, NEW p \in Caller, NEW next \in Place, Go(p, next), pc[p] # "idle"
    PROVE  /\ pc' \in [Caller -> Place]
           /\ job' \in [Caller -> Job]
           /\ reply' \in [Caller -> [ready : BOOLEAN, uid : Uid \cup {None}, ok : BOOLEAN]]
           /\ \A q \in Caller : pc'[q] # "idle" => job'[q].uid \in Uid
           /\ \A c \in Client : pc'[c] # "idle" => job'[c].actor \in Slot
<1> USE DEF PoolTypeOK, Go
<1>1. pc' \in [Caller -> Place] OBVIOUS
<1>2. job' \in [Caller -> Job] BY EmptyRecords
<1>3. reply' \in [Caller -> [ready : BOOLEAN, uid : Uid \cup {None}, ok : BOOLEAN]] BY EmptyRecords
<1>4. ASSUME NEW q \in Caller, pc'[q] # "idle" PROVE pc[q] # "idle" /\ job'[q] = job[q]
  BY <1>4
<1> QED BY <1>1, <1>2, <1>3, <1>4 DEF Caller

\* A control whose sender went away is still a control.
LEMMA UnheardTypes ==
    ASSUME NEW c \in Ctrl, NEW p PROVE Unheard(c, p) \in Ctrl
BY DEF Unheard, Ctrl

LEMMA UnheardQueue ==
    ASSUME NEW s \in Seq(Ctrl), NEW p
    PROVE  [i \in DOMAIN s |-> Unheard(s[i], p)] \in Seq(Ctrl)
<1>1. DOMAIN s = 1 .. Len(s) /\ Len(s) \in Nat OBVIOUS
<1>2. \A i \in 1 .. Len(s) : Unheard(s[i], p) \in Ctrl BY UnheardTypes
<1>3. [i \in 1 .. Len(s) |-> Unheard(s[i], p)] \in Seq(Ctrl) BY <1>1, <1>2
<1> QED BY <1>1, <1>3

-----------------------------------------------------------------------------
(* The actor loops.                                                        *)

LEMMA AnswerTypes ==
    ASSUME PoolTypeOK, NEW c \in Ctrl, NEW u \in Uid \cup {None}, NEW ok \in BOOLEAN, Answer(c, u, ok)
    PROVE  reply' \in [Caller -> [ready : BOOLEAN, uid : Uid \cup {None}, ok : BOOLEAN]]
BY DEF Answer, PoolTypeOK, Ctrl

LEMMA ResetTypes ==
    ASSUME PoolTypeOK, NEW a \in Slot, NEW u \in Uid \cup {None}, ResetForUID(a, u)
    PROVE  uid' \in [Slot -> Uid \cup {None}] /\ releasing' \subseteq Slot /\ cmds' \subseteq Slot
BY DEF ResetForUID, PoolTypeOK

LEMMA TakeControlTypes ==
    ASSUME TypeOK, NEW a \in Slot, TakeControl(a) PROVE PoolTypeOK'
<1> DEFINE c == Head(ctrls[a])
<1>t. PoolTypeOK BY DEF TypeOK
<1>1. ctrls[a] \in Seq(Ctrl) /\ ctrls[a] # <<>> BY <1>t DEF TakeControl, PoolTypeOK
<1>2. c \in Ctrl /\ Tail(ctrls[a]) \in Seq(Ctrl) BY <1>1
<1>3. ctrls' \in [Slot -> Seq(Ctrl)] BY <1>t, <1>2 DEF TakeControl, PoolTypeOK
<1>4. c.uid \in Uid \cup {None} BY <1>2 DEF Ctrl
<1>5. uid' \in [Slot -> Uid \cup {None}] /\ releasing' \subseteq Slot /\ cmds' \subseteq Slot
  BY <1>t, <1>4, ResetTypes DEF TakeControl, PoolTypeOK
<1>6. apc' \in [Slot -> {"select", "release", "close"}] /\ cur' \in [Slot -> Ctrl]
  BY <1>t, <1>2 DEF TakeControl, PoolTypeOK
<1>7. reply' \in [Caller -> [ready : BOOLEAN, uid : Uid \cup {None}, ok : BOOLEAN]]
  BY <1>t, <1>2, <1>4, AnswerTypes DEF TakeControl, PoolTypeOK
<1> QED BY <1>t, <1>3, <1>5, <1>6, <1>7 DEF TakeControl, PoolTypeOK, supVars

LEMMA ReleaseTypes ==
    ASSUME TypeOK, NEW a \in Slot, ReleaseDone(a) \/ ReleasePending(a) \/ ReleasePanic(a)
    PROVE  PoolTypeOK' /\ Ledgered
<1>t. PoolTypeOK BY DEF TypeOK
<1>1. cur[a] \in Ctrl /\ uid[a] \in Uid \cup {None} BY <1>t DEF PoolTypeOK
<1>2. cur[a].uid \in Uid \cup {None} BY <1>1 DEF Ctrl
<1>3. CASE ReleaseDone(a)
  <2>1. uid' \in [Slot -> Uid \cup {None}] /\ releasing' \subseteq Slot /\ cmds' \subseteq Slot
    BY <1>t, <1>1, <1>2, <1>3, ResetTypes DEF ReleaseDone
  <2>2. reply' \in [Caller -> [ready : BOOLEAN, uid : Uid \cup {None}, ok : BOOLEAN]]
    BY <1>t, <1>1, <1>2, <1>3, AnswerTypes DEF ReleaseDone
  <2> QED BY <1>t, <1>3, <2>1, <2>2, EmptyRecords DEF ReleaseDone, PoolTypeOK, supVars, Ledgered
<1>4. CASE ReleasePending(a)
  <2>1. reply' \in [Caller -> [ready : BOOLEAN, uid : Uid \cup {None}, ok : BOOLEAN]]
    BY <1>t, <1>1, <1>2, <1>4, AnswerTypes DEF ReleasePending
  <2> QED BY <1>t, <1>4, <2>1, EmptyRecords DEF ReleasePending, PoolTypeOK, supVars, Ledgered
<1>5. CASE ReleasePanic(a)
  <2>1. reply' \in [Caller -> [ready : BOOLEAN, uid : Uid \cup {None}, ok : BOOLEAN]]
    BY <1>t, <1>1, <1>2, <1>5, AnswerTypes DEF ReleasePanic
  <2> QED BY <1>t, <1>5, <2>1, EmptyRecords DEF ReleasePanic, PoolTypeOK, supVars, Ledgered
<1> QED BY <1>3, <1>4, <1>5

\* The loop of an actor touches the ledger only by exiting.
LEMMA ActorStepOK ==
    ASSUME TypeOK, NEW a \in Slot, ActorStep(a) PROVE PoolTypeOK' /\ Ledgered
<1>t. PoolTypeOK /\ LedgerTypeOK BY DEF TypeOK
<1>x. \A q \in BOOLEAN : ActorExit(a, q) => Ledgered BY DEF Ledgered, LedgerNext
<1>1. CASE TakeControl(a)
  BY <1>1, TakeControlTypes DEF TakeControl, Ledgered
<1>2. CASE ReleaseDone(a) \/ ReleasePending(a) \/ ReleasePanic(a)
  BY <1>2, ReleaseTypes
<1>3. CASE TickRelease(a)
  BY <1>3, <1>t DEF TickRelease, PoolTypeOK, callVars, supVars, Ledgered
<1>4. CASE TickOnline(a)
  BY <1>4, <1>t DEF TickOnline, PoolTypeOK, callVars, supVars, Ledgered
<1>5. CASE TickPanic(a)
  BY <1>5, <1>t DEF TickPanic, PoolTypeOK, callVars, supVars, Ledgered
<1>6. CASE TakeCommand(a)
  BY <1>6, <1>t DEF TakeCommand, PoolTypeOK, callVars, supVars, Ledgered
<1>7. CASE TakeLogout(a)
  BY <1>7, <1>t DEF TakeLogout, PoolTypeOK, callVars, supVars, Ledgered
<1>8. CASE TakeStop(a)
  <2>1. PoolTypeOK' BY <1>8, <1>t DEF TakeStop, PoolTypeOK, callVars, supVars
  <2> QED BY <2>1, <1>8, <1>x DEF TakeStop, Ledgered
<1>9. CASE CloseDone(a)
  <2>1. uid' \in [Slot -> Uid \cup {None}] /\ releasing' \subseteq Slot /\ cmds' \subseteq Slot
    BY <1>t, <1>9, ResetTypes DEF CloseDone
  <2>2. PoolTypeOK' BY <1>9, <1>t, <2>1 DEF CloseDone, PoolTypeOK, callVars, supVars
  <2> QED BY <2>2, <1>9, <1>x DEF CloseDone
<1>10. CASE CloseGaveUp(a)
  <2>1. PoolTypeOK' BY <1>10, <1>t DEF CloseGaveUp, PoolTypeOK, actorVars, callVars, supVars
  <2> QED BY <2>1, <1>10, <1>x DEF CloseGaveUp
<1>11. CASE ClosePanic(a)
  <2>1. uid' \in [Slot -> Uid \cup {None}] /\ releasing' \subseteq Slot /\ cmds' \subseteq Slot /\ active' \subseteq Uid
    BY <1>t, <1>11, ResetTypes DEF ClosePanic, PoolTypeOK
  <2>2. PoolTypeOK' BY <1>11, <1>t, <2>1 DEF ClosePanic, PoolTypeOK, callVars, supVars
  <2> QED BY <2>2, <1>11, <1>x DEF ClosePanic
<1> QED BY <1>1, <1>2, <1>3, <1>4, <1>5, <1>6, <1>7, <1>8, <1>9, <1>10, <1>11 DEF ActorStep

-----------------------------------------------------------------------------
(* Senders and drainers.                                                   *)

LEMMA CallStepOK ==
    ASSUME TypeOK, NEW p \in Caller, Send(p) \/ GaveUp(p) PROVE PoolTypeOK' /\ Ledgered
<1>t. PoolTypeOK BY DEF TypeOK
<1>j. job[p] \in Job BY <1>t DEF PoolTypeOK
<1>1. CASE Send(p)
  <2> DEFINE c == [kind |-> CtrlOf(job[p]), uid |-> IF CtrlOf(job[p]) = "assign" THEN job[p].uid ELSE None, from |-> p]
  <2>1. c \in Ctrl BY <1>j DEF Ctrl, CtrlOf, Job
  <2>2. ctrls' \in [Slot -> Seq(Ctrl)]
    <3>1. CASE UNCHANGED ctrls BY <3>1, <1>t DEF PoolTypeOK
    <3>2. CASE ctrls' = [ctrls EXCEPT ![job[p].actor] = Append(@, c)]
      <4> HIDE DEF c
      <4>1. \A a \in Slot : Append(ctrls[a], c) \in Seq(Ctrl) BY <2>1, <1>t DEF PoolTypeOK
      <4> QED BY <4>1, <3>2, <1>t DEF PoolTypeOK
    <3>3. ctrls' = ctrls \/ ctrls' = [ctrls EXCEPT ![job[p].actor] = Append(@, c)]
      BY <1>1 DEF Send
    <3> QED BY <3>1, <3>2, <3>3
  <2>3. reply' \in [Caller -> [ready : BOOLEAN, uid : Uid \cup {None}, ok : BOOLEAN]]
    BY <1>1, <1>t DEF Send, PoolTypeOK, NoReply
  <2>4. pc' \in [Caller -> Place] BY <1>1, <1>t DEF Send, PoolTypeOK, Place
  <2>5. \A q \in Caller : pc'[q] # "idle" => pc[q] # "idle"
    BY <1>1, <1>t DEF Send, PoolTypeOK
  <2> QED BY <1>1, <1>t, <2>2, <2>3, <2>4, <2>5 DEF Send, PoolTypeOK, supVars, Ledgered, Caller
<1>2. CASE GaveUp(p)
  <2> DEFINE a == job[p].actor
  <2>1. ctrls' \in [Slot -> Seq(Ctrl)]
    <3>1. CASE a \in Slot
      <4>1. ctrls[a] \in Seq(Ctrl) BY <3>1, <1>t DEF PoolTypeOK
      <4>2. [i \in DOMAIN ctrls[a] |-> Unheard(ctrls[a][i], p)] \in Seq(Ctrl) BY <4>1, UnheardQueue
      <4> QED BY <4>2, <3>1, <1>2, <1>t DEF GaveUp, PoolTypeOK
    <3>2. CASE a \notin Slot
      BY <3>2, <1>2, <1>t DEF GaveUp, PoolTypeOK
    <3> QED BY <3>1, <3>2
  <2>2. cur' \in [Slot -> Ctrl]
    <3>1. CASE a \in Slot
      <4>1. Unheard(cur[a], p) \in Ctrl BY <3>1, <1>t, UnheardTypes DEF PoolTypeOK
      <4> QED BY <4>1, <1>2, <1>t DEF GaveUp, PoolTypeOK
    <3>2. CASE a \notin Slot
      BY <3>2, <1>2, <1>t DEF GaveUp, PoolTypeOK
    <3> QED BY <3>1, <3>2
  <2>3. reply' \in [Caller -> [ready : BOOLEAN, uid : Uid \cup {None}, ok : BOOLEAN]]
    BY <1>2, <1>t DEF GaveUp, PoolTypeOK, NoReply
  <2> QED BY <1>2, <1>t, <2>1, <2>2, <2>3 DEF GaveUp, PoolTypeOK, supVars, Ledgered
<1> QED BY <1>1, <1>2

LEMMA LesseesAreSlots ==
    ASSUME LedgerTypeOK PROVE \A U : U \subseteq Uid => LesseesOf(U) \in SUBSET Slot
BY DEF LedgerTypeOK, LesseesOf, Leased

LEMMA DrainStepOK ==
    ASSUME TypeOK, NEW p \in Drainer, DrainStep(p) PROVE PoolTypeOK' /\ Ledgered
<1>t. PoolTypeOK /\ LedgerTypeOK BY DEF TypeOK
<1>1. CASE RequestStops(p)
  BY <1>1, <1>t DEF RequestStops, PoolTypeOK, callVars, supVars, Ledgered
<1>2. ASSUME NEW a \in drain[p], Reap(p, a) PROVE PoolTypeOK' /\ Ledgered
  <2>1. a \in Slot BY <1>t DEF PoolTypeOK
  <2>2. Ledgered BY <1>2, <2>1 DEF Reap, Ledgered, LedgerNext
  <2>3. PoolTypeOK' BY <1>2, <1>t DEF Reap, PoolTypeOK, actorVars, callVars, supVars
  <2> QED BY <2>2, <2>3
<1>3. CASE DrainDeadline(p)
  BY <1>3, <1>t DEF DrainDeadline, PoolTypeOK, actorVars, callVars, supVars, Ledgered
<1> QED BY <1>1, <1>2, <1>3 DEF DrainStep

-----------------------------------------------------------------------------
(* The API's requests.                                                     *)

LEMMA ClientStepOK ==
    ASSUME TypeOK, NEW c \in Client, ClientStep(c) PROVE PoolTypeOK' /\ Ledgered
<1>t. PoolTypeOK /\ LedgerTypeOK BY DEF TypeOK
<1>c. c \in Caller /\ c \in Drainer BY DEF Caller, Drainer
<1>d. \A S \in SUBSET Slot : BeginDrain(S) => Ledgered BY DEF Ledgered, LedgerNext
<1>1. ASSUME NEW u \in Uid, Logout(c, u) PROVE PoolTypeOK' /\ Ledgered
  <2>1. lease[u] \in Slot BY <1>1, <1>t DEF Logout, Leased, LedgerTypeOK
  <2>2. job' \in [Caller -> Job] /\ pc' \in [Caller -> Place]
    BY <1>1, <1>t, <2>1 DEF Logout, PoolTypeOK, Item, Job, Place
  <2>3. job'[c].uid = u /\ job'[c].actor = lease[u] /\ \A q \in Caller : q # c => job'[q] = job[q] /\ pc'[q] = pc[q]
    BY <1>1, <1>t, <1>c DEF Logout, PoolTypeOK, Item
  <2> QED BY <1>1, <1>t, <2>1, <2>2, <2>3 DEF Logout, PoolTypeOK, actorVars, supVars, Ledgered, Caller
<1>2. ASSUME NEW u \in Uid, NEW a \in Slot, Attach(c, u, a) PROVE PoolTypeOK' /\ Ledgered
  <2>1. Ledgered BY <1>2 DEF Attach, Ledgered, LedgerNext
  <2>2. job' \in [Caller -> Job] /\ pc' \in [Caller -> Place]
    BY <1>2, <1>t DEF Attach, PoolTypeOK, Item, Job, Place
  <2>3. job'[c].uid = u /\ job'[c].actor = a /\ \A q \in Caller : q # c => job'[q] = job[q] /\ pc'[q] = pc[q]
    BY <1>2, <1>t, <1>c DEF Attach, PoolTypeOK, Item
  <2> QED BY <1>2, <1>t, <2>1, <2>2, <2>3 DEF Attach, PoolTypeOK, supVars, Caller
<1>3. ASSUME NEW U \in SUBSET Uid, ClientStop(c, U) PROVE PoolTypeOK' /\ Ledgered
  <2>1. LesseesOf(U) \in SUBSET Slot BY <1>t, LesseesAreSlots
  <2>2. Ledgered BY <1>3, <2>1, <1>d DEF ClientStop, StopUIDs
  <2> QED BY <1>3, <1>t, <2>1, <2>2 DEF ClientStop, StopUIDs, PoolTypeOK, callVars, supVars
<1>4. CASE AttachAnswer(c)
  <2>1. pc[c] # "idle" /\ \E next \in Place : Go(c, next)
    BY <1>4 DEF AttachAnswer, Answered, At, Place
  <2> QED BY <1>4, <1>t, <1>c, <2>1, GoTypes DEF AttachAnswer, PoolTypeOK, actorVars, supVars, Ledgered
<1>5. CASE AttachDrain(c) \/ LogoutDrain(c)
  <2>1. pc[c] # "idle" /\ \E next \in Place : Go(c, next)
    BY <1>5 DEF AttachDrain, LogoutDrain, Place
  <2>2. LesseesOf({job[c].uid}) \in SUBSET Slot
    BY <1>t, <1>c, <2>1, LesseesAreSlots DEF PoolTypeOK
  <2>3. Ledgered BY <1>5, <2>2, <1>d DEF AttachDrain, LogoutDrain
  <2> QED BY <1>5, <1>t, <1>c, <2>1, <2>3, GoTypes DEF AttachDrain, LogoutDrain, PoolTypeOK, actorVars, supVars
<1>6. CASE AttachUnlease(c)
  <2>1. pc[c] # "idle" /\ Go(c, "stop") /\ "stop" \in Place BY <1>6 DEF AttachUnlease, Place
  <2>2. job[c].uid \in Uid /\ job[c].actor \in Slot BY <2>1, <1>t, <1>c DEF PoolTypeOK
  <2>3. Ledgered BY <1>6, <2>2 DEF AttachUnlease, Ledgered, LedgerNext
  <2> QED BY <1>6, <1>t, <1>c, <2>1, <2>3, GoTypes DEF AttachUnlease, PoolTypeOK, actorVars, supVars
<1>7. CASE RequestStop(c)
  <2>1. pc[c] # "idle" /\ Go(c, "idle") /\ "idle" \in Place BY <1>7 DEF RequestStop, Place
  <2>2. job[c].actor \in Slot BY <2>1, <1>t, <1>c DEF PoolTypeOK
  <2> QED BY <1>7, <1>t, <1>c, <2>1, <2>2, GoTypes DEF RequestStop, PoolTypeOK, supVars, Ledgered
<1>8. CASE Enqueue(c)
  <2>1. pc[c] # "idle" /\ \E next \in Place : Go(c, next)
    BY <1>8 DEF Enqueue, Place
  <2>2. job[c].actor \in Slot BY <2>1, <1>t, <1>c DEF PoolTypeOK
  <2>3. cmds' \subseteq Slot BY <1>8, <2>2, <1>t DEF Enqueue, PoolTypeOK
  <2> QED BY <1>8, <1>t, <1>c, <2>1, <2>3, GoTypes DEF Enqueue, PoolTypeOK, supVars, Ledgered
<1> QED BY <1>1, <1>2, <1>3, <1>4, <1>5, <1>6, <1>7, <1>8 DEF ClientStep

-----------------------------------------------------------------------------
(* The supervisor.                                                         *)

\* Steps of the supervisor that go on with its current job.
SupJobStep ==
    \/ BrokenAnswer \/ BrokenCheck \/ RecycleAnswer \/ RemoveLease
    \/ Clean \/ CleanRefused \/ Cleaned \/ AssignAnswer

LEMMA SupJobGoes ==
    ASSUME SupJobStep PROVE pc[Sup] # "idle" /\ \E next \in Place : Go(Sup, next)
BY DEF SupJobStep, BrokenAnswer, BrokenCheck, RecycleAnswer, RemoveLease, Clean, CleanRefused,
       Cleaned, AssignAnswer, Answered, At, Place

\* Removing a lease that no actor holds changes nothing.
LEMMA RemoveLeaseOK ==
    ASSUME LedgerTypeOK, NEW u \in Uid, NEW a \in Slot \cup {None}, RemoveLeaseIfActor(u, a)
    PROVE  Ledgered
<1>1. CASE a \in Slot BY <1>1 DEF Ledgered, LedgerNext
<1>2. CASE a = None
  BY <1>2 DEF RemoveLeaseIfActor, Ledgered, ledgerVars, indexVars, exitVars, LedgerTypeOK
<1> QED BY <1>1, <1>2

LEMMA SupJobStepOK ==
    ASSUME TypeOK, SupJobStep PROVE PoolTypeOK' /\ Ledgered
<1>t. PoolTypeOK /\ LedgerTypeOK BY DEF TypeOK
<1>s. Sup \in Caller /\ Sup \in Drainer BY DEF Caller, Drainer
<1>j. job[Sup].uid \in Uid /\ job[Sup].actor \in Slot \cup {None} /\ reply[Sup].uid \in Uid \cup {None}
  BY <1>t, <1>s, SupJobGoes DEF PoolTypeOK, Job
<1>d. \A S \in SUBSET Slot : BeginDrain(S) => Ledgered BY DEF Ledgered, LedgerNext
<1>b. \A u \in Uid : BlockUID(u) \/ UnblockUID(u) => Ledgered BY DEF Ledgered, LedgerNext
<1>l. LesseesOf({job[Sup].uid}) \in SUBSET Slot BY <1>t, <1>j, LesseesAreSlots
<1>g. /\ pc' \in [Caller -> Place]
      /\ job' \in [Caller -> Job]
      /\ reply' \in [Caller -> [ready : BOOLEAN, uid : Uid \cup {None}, ok : BOOLEAN]]
      /\ \A q \in Caller : pc'[q] # "idle" => job'[q].uid \in Uid
      /\ \A c \in Client : pc'[c] # "idle" => job'[c].actor \in Slot
  BY <1>t, <1>s, SupJobGoes, GoTypes
<1>1. CASE Clean
  <2>1. PoolTypeOK' BY <1>1, <1>t, <1>g, <1>l DEF Clean, StopUIDs, PoolTypeOK, supVars
  <2>2. Ledgered BY <1>1, <1>d, <1>l DEF Clean, StopUIDs
  <2> QED BY <2>1, <2>2
<1>2. CASE BrokenAnswer
  <2>1. PoolTypeOK' BY <1>2, <1>t, <1>g DEF BrokenAnswer, PoolTypeOK, actorVars, supVars
  <2>2. Ledgered BY <1>2, <1>t, <1>j, RemoveLeaseOK DEF BrokenAnswer, Ledgered
  <2> QED BY <2>1, <2>2
<1>3. CASE BrokenCheck \/ RecycleAnswer
  BY <1>3, <1>t, <1>g DEF BrokenCheck, RecycleAnswer, PoolTypeOK, actorVars, supVars, Ledgered
<1>4. CASE RemoveLease
  <2>1. PoolTypeOK' BY <1>4, <1>t, <1>g DEF RemoveLease, PoolTypeOK, actorVars, supVars
  <2>2. Ledgered BY <1>4, <1>t, <1>j, RemoveLeaseOK DEF RemoveLease
  <2> QED BY <2>1, <2>2
<1>5. CASE CleanRefused \/ Cleaned
  <2>1. PoolTypeOK' BY <1>5, <1>t, <1>g DEF CleanRefused, Cleaned, PoolTypeOK, actorVars, supVars
  <2>2. Ledgered BY <1>5, <1>j, <1>b DEF CleanRefused, Cleaned, Ledgered
  <2> QED BY <2>1, <2>2
<1>6. CASE AssignAnswer
  <2>1. PoolTypeOK' BY <1>6, <1>t, <1>g DEF AssignAnswer, PoolTypeOK, actorVars, supVars
  <2>2. Ledgered BY <1>6, <1>t, <1>j, RemoveLeaseOK DEF AssignAnswer, Ledgered
  <2> QED BY <2>1, <2>2
<1> QED BY <1>1, <1>2, <1>3, <1>4, <1>5, <1>6 DEF SupJobStep

\* An item of the snapshot becomes the supervisor's job.
LEMMA StartTypes ==
    ASSUME PoolTypeOK, NEW i \in todo, i.op # "idle", NEW next \in Place, Start(i, next)
    PROVE  /\ todo' \subseteq todo
           /\ pc' \in [Caller -> Place] /\ job' \in [Caller -> Job] /\ UNCHANGED reply
           /\ \A q \in Caller : pc'[q] # "idle" => job'[q].uid \in Uid
           /\ \A c \in Client : pc'[c] # "idle" => job'[c].actor \in Slot
<1>1. Sup \in Caller /\ Sup \notin Client BY PoolAssumption DEF Caller
<1>2. i \in Job /\ i.uid \in Uid BY DEF PoolTypeOK
<1>3. todo' \subseteq todo /\ pc' \in [Caller -> Place] /\ job' \in [Caller -> Job] /\ UNCHANGED reply
  BY <1>2 DEF Start, PoolTypeOK
<1>4. job'[Sup] = i /\ \A q \in Caller : q # Sup => job'[q] = job[q] /\ pc'[q] = pc[q]
  BY <1>1 DEF Start, PoolTypeOK
<1> QED BY <1>1, <1>2, <1>3, <1>4 DEF PoolTypeOK, Caller

LEMMA ItemStepOK ==
    ASSUME TypeOK, NEW i \in todo, ItemStep(i) PROVE PoolTypeOK' /\ Ledgered
<1>t. PoolTypeOK /\ LedgerTypeOK BY DEF TypeOK
<1>i. i \in Job BY <1>t DEF PoolTypeOK
<1>p. "send" \in Place /\ "clean" \in Place BY DEF Place
<1>1. CASE BrokenBlock(i)
  <2>1. i.op # "idle" /\ i.uid \in Uid BY <1>1, <1>t DEF BrokenBlock, PoolTypeOK
  <2>2. Ledgered BY <1>1, <2>1 DEF BrokenBlock, BlockLeaseIfCurrent, Ledgered, LedgerNext
  <2>3. CASE Start(i, "send")
    BY <1>1, <1>t, <1>p, <2>1, <2>2, <2>3, StartTypes DEF BrokenBlock, PoolTypeOK, actorVars
  <2>4. CASE Skip(i)
    BY <1>1, <1>t, <2>2, <2>4 DEF BrokenBlock, Skip, PoolTypeOK, actorVars, callVars
  <2> QED BY <1>1, <2>3, <2>4 DEF BrokenBlock
<1>2. CASE RecycleStart(i) \/ AssignStart(i)
  <2>1. i.op # "idle" /\ Start(i, "send") BY <1>2 DEF RecycleStart, AssignStart
  <2> QED BY <1>2, <1>t, <1>p, <2>1, StartTypes DEF RecycleStart, AssignStart, PoolTypeOK, actorVars, Ledgered
<1>3. CASE CleanupBlocked(i)
  <2>1. i.op # "idle" BY <1>3 DEF CleanupBlocked
  <2>2. active' \subseteq Uid BY <1>3, <1>t DEF CleanupBlocked, PoolTypeOK
  <2>3. CASE Start(i, "clean")
    BY <1>3, <1>t, <1>p, <2>1, <2>2, <2>3, StartTypes DEF CleanupBlocked, PoolTypeOK, Ledgered
  <2>4. CASE Skip(i)
    BY <1>3, <1>t, <2>2, <2>4 DEF CleanupBlocked, Skip, PoolTypeOK, callVars, Ledgered
  <2> QED BY <1>3, <2>3, <2>4 DEF CleanupBlocked
<1>4. ASSUME NEW u \in Uid, LeasePair(i, u) PROVE PoolTypeOK' /\ Ledgered
  <2>1. i.actor \in Slot \cup {None} BY <1>i DEF Job
  <2>2. ASSUME i.actor \in Slot PROVE Ledgered
    BY <1>4, <2>2 DEF LeasePair, Ledgered, LedgerNext
  <2>3. ASSUME i.actor = None PROVE Ledgered
    BY <1>4, <1>t, <2>3 DEF LeasePair, TryLeaseUID, TryLeaseOK, Leased, Ledgered, ledgerVars, indexVars, exitVars, LedgerTypeOK
  <2>4. Item("assign", u, i.actor) \in Job /\ Item("assign", u, i.actor).uid \in Uid BY <2>1 DEF Item, Job
  <2>5. todo' \subseteq Job /\ \A j \in todo' : j.op # "idle" => j.uid \in Uid
    BY <1>4, <1>t, <2>4 DEF LeasePair, PoolTypeOK
  <2>6. PoolTypeOK' BY <1>4, <1>t, <2>5 DEF LeasePair, PoolTypeOK, actorVars, callVars
  <2> QED BY <2>1, <2>2, <2>3, <2>6
<1>5. CASE LeaseNone(i)
  BY <1>5, <1>t DEF LeaseNone, Skip, PoolTypeOK, actorVars, callVars, Ledgered
<1> QED BY <1>1, <1>2, <1>3, <1>4, <1>5 DEF ItemStep

LEMMA AutoActorsAreSlots ==
    ASSUME LedgerTypeOK
    PROVE  /\ AutoActors \in SUBSET Slot
           /\ \A S, n : S \subseteq Slot => StopFirst(S, n) \subseteq SUBSET Slot
           /\ Candidates \in SUBSET Slot
BY DEF LedgerTypeOK, AutoActors, StopFirst, Candidates

LEMMA MaintainOK ==
    ASSUME TypeOK, NEW n \in 0 .. MaxTarget, Maintain(n) PROVE PoolTypeOK' /\ Ledgered
<1>t. PoolTypeOK /\ LedgerTypeOK BY DEF TypeOK
<1>s. Sup \in Drainer BY DEF Caller, Drainer
<1>c. Candidates \in SUBSET Slot BY <1>t, AutoActorsAreSlots
<1>1. \/ \E new \in SUBSET Slot : EnsureSlots(new, {}) /\ UNCHANGED drain
      \/ \E extra \in SUBSET Slot : EnsureSlots({}, extra) /\ drain' = [drain EXCEPT ![Sup] = extra]
  BY <1>t, <1>c, AutoActorsAreSlots DEF Maintain
<1>2. Ledgered BY <1>1 DEF Ledgered, LedgerNext
<1>3. drain' \in [Drainer -> SUBSET Slot] BY <1>1, <1>t DEF PoolTypeOK
<1>4. UNCHANGED <<actorVars, callVars, todo>> BY DEF Maintain
<1> QED BY <1>2, <1>3, <1>4, <1>t DEF PoolTypeOK, actorVars, callVars

LEMMA SnapshotOK ==
    ASSUME TypeOK, Snapshot PROVE PoolTypeOK' /\ Ledgered
<1>t. PoolTypeOK /\ LedgerTypeOK BY DEF TypeOK
<1>1. Visible \subseteq Uid /\ \A u \in Uid : lease[u] \in Slot \cup {None}
  BY <1>t DEF Visible, LedgerTypeOK
<1>2. \A u \in Uid, a \in Slot \cup {None} :
        /\ Item("broken", u, a) \in Job /\ Item("broken", u, a).uid \in Uid
        /\ Item("cleanup", u, a) \in Job /\ Item("cleanup", u, a).uid \in Uid
        /\ Item("recycle", u, a) \in Job /\ Item("recycle", u, a).uid \in Uid
  BY DEF Item, Job
<1>3. \A a \in Slot : Item("idle", None, a) \in Job /\ Item("idle", None, a).op = "idle"
  BY DEF Item, Job
<1>4. \A a \in AutoActors : a \in Slot /\ (uid[a] # None => uid[a] \in Uid)
  BY <1>t, AutoActorsAreSlots DEF PoolTypeOK
<1>5. todo' \subseteq Job /\ \A i \in todo' : i.op # "idle" => i.uid \in Uid
  <2>1. ASSUME NEW dead \in SUBSET Uid, todo' = {Item("broken", u, lease[u]) : u \in dead \cup (Visible \cap blocked)}
        PROVE  todo' \subseteq Job /\ \A i \in todo' : i.uid \in Uid
    BY <2>1, <1>1, <1>2
  <2>2. ASSUME todo' = {Item("cleanup", u, None) : u \in blocked}
        PROVE  todo' \subseteq Job /\ \A i \in todo' : i.uid \in Uid
    BY <2>2, <1>2, <1>t DEF LedgerTypeOK
  <2>3. ASSUME NEW bad \in SUBSET {a \in AutoActors : uid[a] # None}, todo' = {Item("recycle", uid[a], a) : a \in bad}
        PROVE  todo' \subseteq Job /\ \A i \in todo' : i.uid \in Uid
    BY <2>3, <1>2, <1>4
  <2>4. ASSUME todo' = {Item("idle", None, a) : a \in {b \in AutoActors : uid[b] = None}}
        PROVE  todo' \subseteq Job /\ \A i \in todo' : i.op = "idle"
    BY <2>4, <1>3, <1>4
  <2> QED BY <2>1, <2>2, <2>3, <2>4, <1>1 DEF Snapshot
<1> QED BY <1>5, <1>t DEF Snapshot, PoolTypeOK, actorVars, callVars, Ledgered

LEMMA SupStepOK ==
    ASSUME TypeOK, SupStep PROVE PoolTypeOK' /\ Ledgered
<1>t. PoolTypeOK /\ LedgerTypeOK BY DEF TypeOK
<1>s. Sup \in Drainer /\ Pressure \in Drainer BY DEF Caller, Drainer
<1>d. \A S \in SUBSET Slot : BeginDrain(S) => Ledgered BY DEF Ledgered, LedgerNext
<1>a. AutoActors \in SUBSET Slot /\ \A n : StopFirst(AutoActors, n) \subseteq SUBSET Slot
  BY <1>t, AutoActorsAreSlots
<1>1. CASE Tick
  BY <1>1, <1>t DEF Tick, PoolTypeOK, actorVars, callVars, Ledgered, LedgerNext
<1>2. CASE EndPhase
  BY <1>2, <1>t DEF EndPhase, PoolTypeOK, actorVars, callVars, Ledgered
<1>3. CASE StopAll
  BY <1>3, <1>t, <1>a, <1>d DEF StopAll, PoolTypeOK, actorVars, callVars
<1>4. CASE StopSome
  <2>1. UNCHANGED <<actorVars, callVars, todo>> BY <1>4 DEF StopSome
  <2>2. \/ UNCHANGED <<ledgerVars, drain>>
        \/ \E S \in SUBSET Slot : BeginDrain(S) /\ drain' = [drain EXCEPT ![Pressure] = S]
    BY <1>4, <1>a DEF StopSome
  <2>3. Ledgered /\ drain' \in [Drainer -> SUBSET Slot] BY <2>2, <1>t, <1>d DEF PoolTypeOK, Ledgered
  <2> QED BY <2>1, <2>3, <1>t DEF PoolTypeOK, actorVars, callVars
<1>5. CASE Adopt
  BY <1>5, <1>t DEF Adopt, PoolTypeOK, callVars, Ledgered
<1>6. CASE Snapshot BY <1>6, SnapshotOK
<1>7. ASSUME NEW n \in 0 .. MaxTarget, Maintain(n) PROVE PoolTypeOK' /\ Ledgered
  BY <1>7, MaintainOK
<1>8. ASSUME NEW i \in todo, ItemStep(i) PROVE PoolTypeOK' /\ Ledgered
  BY <1>8, ItemStepOK
<1>9. CASE SupJobStep BY <1>9, SupJobStepOK
<1> QED BY <1>1, <1>2, <1>3, <1>4, <1>5, <1>6, <1>7, <1>8, <1>9 DEF SupStep, SupJobStep

-----------------------------------------------------------------------------
(* The pool implements the ledger.                                         *)

\* Every step of the pool is a step of the ledger or leaves it alone, and
\* keeps the types.
LEMMA PoolStep ==
    TypeOK /\ LedgerInv /\ [Next]_poolVars => [LedgerNext]_ledgerVars /\ TypeOK' /\ LedgerInv'
<1> SUFFICES ASSUME TypeOK, LedgerInv, [Next]_poolVars
             PROVE  [LedgerNext]_ledgerVars /\ TypeOK' /\ LedgerInv'
  OBVIOUS
<1>1. CASE Next
  <2>1. ASSUME NEW u \in Uid, SessionDrops(u) PROVE PoolTypeOK' /\ Ledgered
    BY <2>1 DEF TypeOK, SessionDrops, PoolTypeOK, callVars, supVars, Ledgered
  <2> QED BY <1>1, <2>1, ActorStepOK, DrainStepOK, CallStepOK, SupStepOK, ClientStepOK,
             LedgerInvStep DEF Next, Ledgered, TypeOK, LedgerInv
<1>2. CASE UNCHANGED poolVars
  <2>1. UNCHANGED ledgerVars BY <1>2 DEF poolVars
  <2>2. PoolTypeOK' BY <1>2 DEF TypeOK, PoolTypeOK, poolVars, actorVars, callVars, supVars
  <2> QED BY <2>1, <2>2, LedgerInvStep DEF TypeOK, LedgerInv
<1> QED BY <1>1, <1>2

LEMMA PoolInit == Init => TypeOK /\ LedgerInv /\ NewLedger
<1> SUFFICES ASSUME Init PROVE TypeOK /\ LedgerInv /\ NewLedger OBVIOUS
<1>1. NewLedger BY DEF Init
<1>2. LedgerInv BY <1>1 DEF NewLedger, LedgerInv, LedgerTypeOK, QuarantineHeld
<1>3. /\ uid \in [Slot -> Uid \cup {None}] /\ apc \in [Slot -> {"select", "release", "close"}]
      /\ cur \in [Slot -> Ctrl] /\ pc \in [Caller -> Place] /\ job \in [Caller -> Job]
      /\ reply \in [Caller -> [ready : BOOLEAN, uid : Uid \cup {None}, ok : BOOLEAN]]
  BY EmptyRecords DEF Init, Place
<1>4. ctrls \in [Slot -> Seq(Ctrl)]
  <2>1. <<>> \in Seq(Ctrl) OBVIOUS
  <2> QED BY <2>1 DEF Init
<1>5. drain \in [Drainer -> SUBSET Slot] BY DEF Init, Drainer
<1>6. \A p \in Caller : pc[p] = "idle" BY DEF Init
<1>7. PoolTypeOK BY <1>3, <1>4, <1>5, <1>6 DEF Init, PoolTypeOK, Caller
<1> QED BY <1>1, <1>2, <1>7 DEF TypeOK, LedgerInv

\* The pool's type invariant, for every set of uids, actors and requests.
THEOREM PoolTypes == Spec => []TypeOK
<1>1. Init => TypeOK /\ LedgerInv BY PoolInit
<1>2. TypeOK /\ LedgerInv /\ [Next]_poolVars => (TypeOK /\ LedgerInv)' BY PoolStep
<1> QED BY <1>1, <1>2, PTL DEF Spec

\* Actors, supervisor, pressure worker and API requests together implement the
\* ledger of the theorems above, under every schedule, timeout, panic
\* and database loss.
THEOREM PoolImplementsLedger == Spec => LedgerSpec
<1>1. Init => TypeOK /\ LedgerInv /\ NewLedger BY PoolInit
<1>2. TypeOK /\ LedgerInv /\ [Next]_poolVars => [LedgerNext]_ledgerVars /\ (TypeOK /\ LedgerInv)' BY PoolStep
<1> QED BY <1>1, <1>2, PTL DEF Spec, LedgerSpec

\* No schedule of the running program makes a quarantined uid leasable, and no
\* lease of it is ever taken over by another actor or given for a blocked uid.
THEOREM PoolQuarantine == Spec => []QuarantineHeld /\ LeaseHandover
<1>1. LedgerInv => QuarantineHeld BY DEF LedgerInv
<1> QED BY <1>1, PoolImplementsLedger, LedgerInvariant, LedgerHandover, PTL

-----------------------------------------------------------------------------
(* The pool without faults.  The inductive invariant, part by part.         *)

\* The supervisor's work in hand: the snapshot and the item it is at.
Items == todo \cup (IF pc[Sup] = "idle" THEN {} ELSE {job[Sup]})

\* Actors, leases and items speak of actors that exist; a new one has nothing.
CreatedInv ==
    /\ Live \subseteq actors /\ actors \subseteq created /\ exited \subseteq created
    /\ \A u \in Uid : lease[u] \in created \cup {None}
    /\ \A i \in Items : i.actor \in created \/ (i.op = "cleanup" /\ i.actor = None)
    /\ \A c \in Client : pc[c] # "idle" => job[c].actor \in created
    /\ \A a \in Slot \ created : uid[a] = None /\ ctrls[a] = <<>> /\ cur[a] = NoCtrl

\* What an actor drives is leased to it until it has exited; then the
\* quarantine has it at last.
HeldInv ==
    \A a \in Slot : uid[a] # None =>
        /\ lease[uid[a]] = a \/ (a \in exited /\ uid[a] \in quarantine)
        /\ a \in exited => a \in quarantined

\* A request that attaches a uid and has not got it yet.
Joining(c) ==
    /\ job[c].op = "attach"
    /\ \/ pc[c] \in {"send", "attachDrain", "attachUnlease"}
       \/ pc[c] = "wait" /\ ~(reply[c].ready /\ reply[c].ok)

JoinInv ==
    /\ \A c \in Client : Joining(c) =>
        /\ uid[job[c].actor] # job[c].uid
        /\ job[c].actor \in Live =>
             /\ lease[job[c].uid] = job[c].actor /\ job[c].uid \notin blocked
             /\ \A i \in Items : ~(i.uid = job[c].uid /\ i.actor = job[c].actor)
    /\ \A c, d \in Client : Joining(c) /\ Joining(d) /\ job[c].actor = job[d].actor => c = d

\* An assignment of the supervisor that the actor has not got yet.
Assigning(i) ==
    /\ i.op = "assign"
    /\ i \in todo \/ (i = job[Sup] /\ (pc[Sup] = "send" \/ (pc[Sup] = "wait" /\ ~(reply[Sup].ready /\ reply[Sup].ok))))

AssignInv ==
    /\ \A i \in Items : Assigning(i) =>
        /\ uid[i.actor] # i.uid
        /\ i.actor \in Live => lease[i.uid] = i.actor
    /\ pc[Sup] # "idle" => job[Sup] \notin todo
    /\ (\E i \in Items : i.op \in {"assign", "idle"}) => \A i \in Items : i.op \in {"assign", "idle"}

\* What the supervisor was told is released is released.
ReleaseInv ==
    /\ pc[Sup] \in {"wait", "check"} /\ job[Sup].op # "assign" /\ reply[Sup].uid # None =>
         /\ uid[job[Sup].actor] # reply[Sup].uid
         /\ \A c \in Client : ~(Joining(c) /\ job[c].uid = reply[Sup].uid /\ job[c].actor = job[Sup].actor)
    /\ pc[Sup] = "remove" => uid[job[Sup].actor] # job[Sup].uid

\* Which operation is where.
PlaceInv ==
    /\ pc[Sup] \in {"send", "wait"} => job[Sup].op \in {"broken", "recycle", "assign"}
    /\ pc[Sup] \in {"check", "remove"} => job[Sup].op \in {"broken", "recycle"}
    /\ pc[Sup] \in {"clean", "cleaned"} => job[Sup].op \in {"broken", "recycle", "cleanup"}
    /\ pc[Sup] \in {"idle", "send", "wait", "check", "remove", "clean", "cleaned"}
    /\ \A c \in Client : /\ pc[c] \in {"send", "wait", "attachDrain", "attachUnlease"} => job[c].op = "attach"
                         /\ pc[c] \notin {"check", "remove", "clean", "cleaned"}

\* The control c, at actor a, of a caller that waits for its answer.
Sent(a, c) ==
    /\ c.from \in Caller
    /\ pc[c.from] = "wait" /\ ~reply[c.from].ready
    /\ job[c.from].actor = a
    /\ c.kind = CtrlOf(job[c.from])
    /\ c.uid = IF c.kind = "assign" THEN job[c.from].uid ELSE None

CtrlInv ==
    \A a \in Live :
        /\ \A n \in 1 .. Len(ctrls[a]) : Sent(a, ctrls[a][n])
        /\ \A m, n \in 1 .. Len(ctrls[a]) : ctrls[a][m].from = ctrls[a][n].from => m = n
        /\ apc[a] # "release" => cur[a] = NoCtrl
        /\ cur[a] # NoCtrl =>
             Sent(a, cur[a]) /\ \A n \in 1 .. Len(ctrls[a]) : ctrls[a][n].from # cur[a].from

SessionInv == \A u \in active : u \in quarantine \/ \E a \in Slot : uid[a] = u /\ lease[u] = a

CalmInv == CreatedInv /\ HeldInv /\ JoinInv /\ AssignInv /\ ReleaseInv /\ PlaceInv /\ CtrlInv /\ SessionInv

\* The types, where the proofs need them.
LEMMA CalmTypes ==
    ASSUME TypeOK
    PROVE  /\ Sup \in Caller /\ \A c \in Client : c \in Caller /\ c # Sup
           /\ \A p \in Caller : p = Sup \/ p \in Client
           /\ uid \in [Slot -> Uid \cup {None}] /\ lease \in [Uid -> Slot \cup {None}]
           /\ created \subseteq Slot /\ None \notin Uid /\ None \notin Slot
           /\ pc \in [Caller -> Place] /\ job \in [Caller -> Job]
           /\ reply \in [Caller -> [ready : BOOLEAN, uid : Uid \cup {None}, ok : BOOLEAN]]
           /\ ctrls \in [Slot -> Seq(Ctrl)] /\ cur \in [Slot -> Ctrl]
           /\ \A p \in Caller : pc[p] # "idle" => job[p].uid \in Uid
           /\ \A i \in todo : i.op # "idle" => i.uid \in Uid
BY PoolAssumption, LedgerAssumption DEF TypeOK, PoolTypeOK, LedgerTypeOK, Caller

\* What the supervisor has in hand.
LEMMA ItemsAre == \A i : i \in Items <=> (i \in todo \/ (pc[Sup] # "idle" /\ i = job[Sup]))
BY DEF Items

\* Nothing of what the invariant speaks of changes, apart from sessions.
callState == <<todo, pc, job, reply>>
leaseState == <<created, exited, actors, lease, blocked, quarantine, quarantined>>
actorState == <<uid, ctrls, cur>>

LEMMA CalmFrame ==
    ASSUME CalmInv, UNCHANGED <<callState, leaseState, actorState>>,
           \A a \in Live : apc'[a] = "release" \/ apc[a] # "release"
    PROVE  CreatedInv' /\ HeldInv' /\ JoinInv' /\ AssignInv' /\ ReleaseInv' /\ PlaceInv' /\ CtrlInv'
<1> USE DEF callState, leaseState, actorState
<1>1. Live' = Live /\ Items' = Items BY DEF Live, Items
<1>2. CreatedInv' BY <1>1 DEF CalmInv, CreatedInv
<1>3. HeldInv' BY DEF CalmInv, HeldInv
<1>4. JoinInv' BY <1>1 DEF CalmInv, JoinInv, Joining
<1>5. AssignInv' BY <1>1 DEF CalmInv, AssignInv, Assigning
<1>6. ReleaseInv' BY DEF CalmInv, ReleaseInv, Joining
<1>7. PlaceInv' BY DEF CalmInv, PlaceInv
<1>8. CtrlInv' BY <1>1 DEF CalmInv, CtrlInv, Sent
<1> QED BY <1>2, <1>3, <1>4, <1>5, <1>6, <1>7, <1>8

\* An actor at work drives a uid that is leased to it.
LEMMA LiveHolds ==
    ASSUME CalmInv, NEW a \in Slot, a \in Live, uid[a] # None PROVE lease[uid[a]] = a
BY DEF CalmInv, HeldInv, Live

\* Steps that only touch sessions, flags and the ledger's draining marks.
LEMMA SessionsShrink ==
    ASSUME CalmInv, active' \subseteq active, UNCHANGED <<quarantine, uid, lease>> PROVE SessionInv'
BY DEF CalmInv, SessionInv

LEMMA StillInv ==
    ASSUME CalmInv, UNCHANGED <<callState, leaseState, actorState>>, active' \subseteq active,
           \A a \in Live : apc'[a] = "release" \/ apc[a] # "release"
    PROVE  CalmInv'
<1>1. CreatedInv' /\ HeldInv' /\ JoinInv' /\ AssignInv' /\ ReleaseInv' /\ PlaceInv' /\ CtrlInv' BY CalmFrame
<1>2. SessionInv' BY SessionsShrink DEF actorState, leaseState
<1> QED BY <1>1, <1>2 DEF CalmInv

\* Ticks, commands and what the server does to sessions.
LEMMA TickInv ==
    ASSUME TypeOK, CalmInv, NEW a \in Slot,
           TickRelease(a) \/ TickOnline(a) \/ TickPanic(a) \/ TakeCommand(a) \/ TakeLogout(a)
    PROVE  CalmInv'
<1> USE DEF callState, leaseState, actorState, callVars, supVars, ledgerVars, indexVars, exitVars
<1>1. CASE TickRelease(a)
  <2>1. \A b \in Live : apc'[b] = "release" \/ apc[b] # "release" \/ b \notin Slot
    BY <1>1 DEF TickRelease, TypeOK, PoolTypeOK
  <2>2. Live \subseteq Slot BY CalmTypes DEF Live
  <2> QED BY <1>1, <2>1, <2>2, StillInv DEF TickRelease
<1>2. CASE TickOnline(a)
  <2>1. a \in Live /\ uid[a] # None /\ active' = active \cup {uid[a]} BY <1>2 DEF TickOnline, InLoop
  <2>2. SessionInv' BY <1>2, <2>1, LiveHolds DEF TickOnline, CalmInv, SessionInv
  <2>3. \A b \in Live : apc'[b] = "release" \/ apc[b] # "release" BY <1>2 DEF TickOnline
  <2>4. CreatedInv' /\ HeldInv' /\ JoinInv' /\ AssignInv' /\ ReleaseInv' /\ PlaceInv' /\ CtrlInv'
    BY <1>2, <2>3, CalmFrame DEF TickOnline
  <2> QED BY <2>2, <2>4 DEF CalmInv
<1>3. CASE TickPanic(a) BY <1>3, StillInv DEF TickPanic
<1>4. CASE TakeCommand(a) BY <1>4, StillInv DEF TakeCommand
<1>5. CASE TakeLogout(a) BY <1>5, StillInv DEF TakeLogout
<1> QED BY <1>1, <1>2, <1>3, <1>4, <1>5

-----------------------------------------------------------------------------
(* Reaping, new actors and exits.                                          *)

\* The ledger frees the leases of actors that have exited, and may register
\* new actors.
Reaped(dead, new) ==
    /\ dead \subseteq exited /\ new \subseteq Slot \ created
    /\ created' = created \cup new /\ actors' = (actors \ dead) \cup new
    /\ ReapLeases(dead)
    /\ UNCHANGED <<exited, quarantined>>

\* What a reap does to the leases: only those of exited actors go.
LEMMA ReapFacts ==
    ASSUME TypeOK, CalmInv, NEW dead, NEW new, Reaped(dead, new)
    PROVE  /\ Live' = Live \cup new /\ Live \cap new = {} /\ new \cap created = {}
           /\ \A u \in Uid : lease'[u] = IF lease[u] \in dead THEN None ELSE lease[u]
           /\ \A u \in Uid : lease[u] \in Live => lease'[u] = lease[u]
           /\ \A u \in Uid : u \in blocked' => u \in blocked \/ lease[u] \in exited
           /\ quarantine \subseteq quarantine'
           /\ \A u \in Uid : lease[u] \in dead /\ lease[u] \in quarantined => u \in quarantine'
<1>1. Live' = Live \cup new /\ Live \cap new = {} /\ new \cap created = {}
  <2>1. new \cap exited = {}
    <3>1. exited \subseteq created BY DEF CalmInv, CreatedInv
    <3> QED BY <3>1 DEF Reaped
  <2> QED BY <2>1 DEF Reaped, Live
<1>2. \A u \in Uid : lease'[u] = IF lease[u] \in dead THEN None ELSE lease[u]
  BY DEF Reaped, ReapLeases, LeaseWithout
<1>3. \A u \in Uid : lease[u] \in Live => lease'[u] = lease[u] BY <1>2 DEF Reaped, Live
<1>4. \A u \in Uid : u \in blocked' => u \in blocked \/ lease[u] \in exited
  BY DEF Reaped, ReapLeases, BlockedBy, FreedBy
<1>5. quarantine \subseteq quarantine' BY DEF Reaped, ReapLeases
<1>6. \A u \in Uid : lease[u] \in dead /\ lease[u] \in quarantined => u \in quarantine'
  BY DEF Reaped, ReapLeases, BlockedBy, FreedBy, MustBlock
<1> QED BY <1>1, <1>2, <1>3, <1>4, <1>5, <1>6

\* A reap, with or without new actors.
LEMMA ReapInv ==
    ASSUME TypeOK, CalmInv, NEW dead, NEW new, Reaped(dead, new),
           UNCHANGED <<callState, actorState, active, apc>>
    PROVE  CalmInv'
<1> USE DEF callState, actorState
<1>0. CreatedInv /\ HeldInv /\ JoinInv /\ AssignInv /\ ReleaseInv /\ PlaceInv /\ CtrlInv /\ SessionInv BY DEF CalmInv
<1>t. uid \in [Slot -> Uid \cup {None}] BY CalmTypes
<1>r. /\ Live' = Live \cup new /\ Live \cap new = {} /\ new \cap created = {}
      /\ \A u \in Uid : lease'[u] = IF lease[u] \in dead THEN None ELSE lease[u]
      /\ \A u \in Uid : lease[u] \in Live => lease'[u] = lease[u]
      /\ \A u \in Uid : u \in blocked' => u \in blocked \/ lease[u] \in exited
      /\ quarantine \subseteq quarantine'
      /\ \A u \in Uid : lease[u] \in dead /\ lease[u] \in quarantined => u \in quarantine'
  BY ReapFacts
<1>i. Items' = Items BY DEF Items
<1>n. \A b \in created : b \in Live' => b \in Live BY <1>r
<1>e. dead \subseteq exited /\ created' = created \cup new /\ exited' = exited /\ quarantined' = quarantined
      /\ actors' = (actors \ dead) \cup new /\ new \subseteq Slot \ created
  BY DEF Reaped
<1>1. CreatedInv'
  <2>1. Live' \subseteq actors' /\ actors' \subseteq created' BY <1>0, <1>r, <1>e DEF CreatedInv, Live
  <2> QED BY <1>0, <1>r, <1>e, <1>i, <2>1 DEF CreatedInv
<1>2. HeldInv' BY <1>0, <1>r, <1>e, <1>t DEF HeldInv
<1>3. JoinInv'
  <2>1. \A c \in Client : Joining(c)' <=> Joining(c) BY DEF Joining
  <2>2. ASSUME NEW c \in Client, Joining(c), job[c].actor \in Live'
        PROVE  lease'[job[c].uid] = job[c].actor /\ job[c].uid \notin blocked'
    <3>1. pc[c] # "idle" BY <2>2 DEF Joining
    <3>2. job[c].actor \in created /\ job[c].uid \in Uid BY <1>0, <3>1, CalmTypes DEF CreatedInv
    <3>3. job[c].actor \in Live BY <2>2, <3>2, <1>n
    <3>4. lease[job[c].uid] = job[c].actor /\ job[c].uid \notin blocked BY <1>0, <2>2, <3>3 DEF JoinInv
    <3> QED BY <1>r, <3>2, <3>3, <3>4 DEF Live
  <2>3. \A c \in Client : Joining(c) /\ job[c].actor \in Live' => job[c].actor \in Live
    <3>1. \A c \in Client : Joining(c) => job[c].actor \in created BY <1>0 DEF CreatedInv, Joining
    <3> QED BY <3>1, <1>n
  <2> QED BY <1>0, <1>i, <2>1, <2>2, <2>3 DEF JoinInv
<1>4. AssignInv'
  <2>1. \A i : Assigning(i)' <=> Assigning(i) BY DEF Assigning
  <2>2. ASSUME NEW i \in Items, Assigning(i), i.actor \in Live' PROVE lease'[i.uid] = i.actor
    <3>1. i.actor \in created /\ i.uid \in Uid BY <1>0, <2>2, ItemsAre, CalmTypes DEF CreatedInv, Assigning
    <3>2. i.actor \in Live BY <2>2, <3>1, <1>n
    <3>3. lease[i.uid] = i.actor BY <1>0, <2>2, <3>2 DEF AssignInv
    <3> QED BY <1>r, <3>1, <3>2, <3>3
  <2> QED BY <1>0, <1>i, <2>1, <2>2 DEF AssignInv
<1>5. ReleaseInv' BY <1>0 DEF ReleaseInv, Joining
<1>6. PlaceInv' BY <1>0 DEF PlaceInv
<1>7. CtrlInv'
  <2>1. \A b \in new : ctrls[b] = <<>> /\ cur[b] = NoCtrl BY <1>0, <1>e DEF CreatedInv
  <2>2. \A b, c : Sent(b, c)' <=> Sent(b, c) BY DEF Sent
  <2>3. \A b \in new : Len(ctrls[b]) = 0 /\ 1 .. Len(ctrls[b]) = {} BY <2>1
  <2> QED BY <1>0, <1>r, <2>1, <2>2, <2>3 DEF CtrlInv
<1>8. SessionInv'
  <2>1. SUFFICES ASSUME NEW u \in active
                 PROVE  u \in quarantine' \/ \E b \in Slot : uid[b] = u /\ lease'[u] = b
    BY DEF SessionInv
  <2>2. CASE u \in quarantine BY <2>2, <1>r
  <2>3. ASSUME NEW b \in Slot, uid[b] = u, lease[u] = b
        PROVE  u \in quarantine' \/ \E d \in Slot : uid[d] = u /\ lease'[u] = d
    <3>1. u \in Uid BY DEF TypeOK, PoolTypeOK
    <3>2. u # None BY <3>1, CalmTypes
    <3>3. b \in exited => b \in quarantined BY <1>0, <2>3, <3>2 DEF HeldInv
    <3>4. CASE b \in dead BY <1>r, <1>e, <2>3, <3>1, <3>3, <3>4
    <3>5. CASE b \notin dead BY <1>r, <2>3, <3>1, <3>5
    <3> QED BY <3>4, <3>5
  <2> QED BY <1>0, <2>2, <2>3 DEF SessionInv
<1> QED BY <1>1, <1>2, <1>3, <1>4, <1>5, <1>6, <1>7, <1>8 DEF CalmInv

\* The loop of an actor returns: it drives nothing any more, or its uid is
\* quarantined with it.
LEMMA ExitInv ==
    ASSUME TypeOK, CalmInv, NEW a \in Slot, NEW q \in BOOLEAN, ActorExit(a, q),
           uid' \in {uid, [uid EXCEPT ![a] = None]}, uid'[a] # None => q = TRUE,
           active' \in {active, active \ {uid[a]}}, uid' = uid \/ active' = active \ {uid[a]},
           \A b \in Live : apc'[b] = "release" \/ apc[b] # "release" \/ b = a,
           UNCHANGED <<callState, ctrls, cur>>
    PROVE  CalmInv'
<1> USE DEF callState
<1>0. CreatedInv /\ HeldInv /\ JoinInv /\ AssignInv /\ ReleaseInv /\ PlaceInv /\ CtrlInv /\ SessionInv BY DEF CalmInv
<1>t. uid \in [Slot -> Uid \cup {None}] BY CalmTypes
<1>e. /\ a \in Live /\ exited' = exited \cup {a} /\ UNCHANGED <<created, actors, lease, blocked, quarantine>>
      /\ (q = TRUE => a \in quarantined') /\ quarantined \subseteq quarantined'
  BY DEF ActorExit, Live, indexVars
<1>l. Live' = Live \ {a} BY <1>e DEF Live
<1>i. Items' = Items BY DEF Items
<1>u. \A b \in Slot : uid'[b] = uid[b] \/ (b = a /\ uid'[b] = None) BY <1>t
<1>1. CreatedInv'
  <2>1. exited' \subseteq created BY <1>0, <1>e DEF CreatedInv, Live
  <2> QED BY <1>0, <1>e, <1>l, <1>i, <1>u, <2>1 DEF CreatedInv
<1>2. HeldInv'
  <2>1. SUFFICES ASSUME NEW b \in Slot, uid'[b] # None
                 PROVE  /\ lease[uid'[b]] = b \/ (b \in exited' /\ uid'[b] \in quarantine)
                        /\ b \in exited' => b \in quarantined'
    BY <1>e DEF HeldInv
  <2>2. uid'[b] = uid[b] BY <1>u, <2>1
  <2> QED BY <1>0, <1>e, <2>1, <2>2 DEF HeldInv
<1>3. JoinInv'
  <2>1. \A c \in Client : Joining(c)' <=> Joining(c) BY DEF Joining
  <2>2. \A c \in Client : Joining(c) => job[c].actor \in Slot /\ job[c].uid # None
    BY CalmTypes, <1>0 DEF Joining, CreatedInv
  <2> QED BY <1>0, <1>e, <1>l, <1>i, <1>u, <2>1, <2>2 DEF JoinInv
<1>4. AssignInv'
  <2>1. \A i : Assigning(i)' <=> Assigning(i) BY DEF Assigning
  <2>2. \A i \in Items : Assigning(i) => i.actor \in Slot /\ i.uid # None
    BY <1>0, ItemsAre, CalmTypes DEF CreatedInv, Assigning
  <2> QED BY <1>0, <1>e, <1>l, <1>i, <1>u, <2>1, <2>2 DEF AssignInv
<1>5. ReleaseInv'
  <2>1. pc[Sup] \in {"wait", "check", "remove"} => job[Sup].actor \in Slot \/ job[Sup].op = "cleanup"
    BY <1>0, ItemsAre, CalmTypes DEF CreatedInv
  <2>2. pc[Sup] \in {"wait", "check", "remove"} => job[Sup].actor \in Slot /\ job[Sup].uid # None
    BY <1>0, <2>1, CalmTypes DEF PlaceInv
  <2>3. \A c \in Client : Joining(c)' <=> Joining(c) BY DEF Joining
  <2> QED BY <1>0, <1>u, <2>2, <2>3 DEF ReleaseInv
<1>6. PlaceInv' BY <1>0 DEF PlaceInv
<1>7. CtrlInv'
  <2>1. \A b, c : Sent(b, c)' <=> Sent(b, c) BY DEF Sent
  <2> QED BY <1>0, <1>l, <2>1 DEF CtrlInv
<1>8. SessionInv'
  <2>1. SUFFICES ASSUME NEW u \in active'
                 PROVE  u \in quarantine \/ \E b \in Slot : uid'[b] = u /\ lease[u] = b
    BY <1>e DEF SessionInv
  <2>2. u \in active /\ (u # uid[a] \/ uid' = uid) BY <2>1
  <2>3. u # None BY <2>2, CalmTypes DEF TypeOK, PoolTypeOK
  <2>4. \A b \in Slot : uid[b] = u => uid'[b] = u BY <1>u, <2>2, <1>t
  <2> QED BY <1>0, <2>2, <2>4 DEF SessionInv
<1> QED BY <1>1, <1>2, <1>3, <1>4, <1>5, <1>6, <1>7, <1>8 DEF CalmInv

-----------------------------------------------------------------------------
(* Controls.                                                               *)

\* A caller p that waits for actor a gets its answer, and what the actor
\* drives is what it was told.
Answering(p, a, v, ok) ==
    /\ pc[p] = "wait" /\ ~reply[p].ready /\ job[p].actor = a
    /\ reply' = [reply EXCEPT ![p] = [ready |-> TRUE, uid |-> v, ok |-> ok]]
    /\ \/ \* an assignment is taken
          /\ CtrlOf(job[p]) = "assign" /\ ok = TRUE
          /\ uid' = [uid EXCEPT ![a] = job[p].uid]
       \/ \* or refused
          CtrlOf(job[p]) = "assign" /\ ok = FALSE /\ uid' = uid
       \/ \* a release is done
          /\ CtrlOf(job[p]) = "release" /\ (v = uid[a] \/ v = None)
          /\ uid' = [uid EXCEPT ![a] = None]
       \/ \* or will be tried again
          CtrlOf(job[p]) = "release" /\ v = None /\ uid' = uid

\* A job is known by its operation, its uid and its actor.
LEMMA JobIs == ASSUME NEW i \in Job PROVE i = Item(i.op, i.uid, i.actor)
BY DEF Job, Item

\* An answer keeps the promises made to everybody else.
LEMMA AnswerInv ==
    ASSUME TypeOK, CalmInv, NEW a \in Slot, a \in Live, NEW p \in Caller, NEW v, NEW ok \in BOOLEAN,
           Answering(p, a, v, ok), UNCHANGED <<leaseState, todo, pc, job>>,
           \A b \in Slot : b # a => ctrls'[b] = ctrls[b] /\ cur'[b] = cur[b]
    PROVE  CreatedInv' /\ HeldInv' /\ JoinInv' /\ AssignInv' /\ ReleaseInv' /\ PlaceInv'
<1> USE DEF leaseState
<1>0. CreatedInv /\ HeldInv /\ JoinInv /\ AssignInv /\ ReleaseInv /\ PlaceInv /\ CtrlInv /\ SessionInv BY DEF CalmInv
<1>t. uid \in [Slot -> Uid \cup {None}] BY CalmTypes
<1>w. pc[p] = "wait" /\ ~reply[p].ready /\ job[p].actor = a BY DEF Answering
<1>r. /\ \A q \in Caller : q # p => reply'[q] = reply[q]
      /\ reply'[p].ready = TRUE /\ reply'[p].uid = v /\ reply'[p].ok = ok
  BY CalmTypes DEF Answering
<1>l. Live' = Live /\ Items' = Items BY DEF Live, Items
<1>u. \A b \in Slot : b # a => uid'[b] = uid[b] BY <1>t DEF Answering
<1>x. job[p].uid \in Uid /\ job[p].uid # None BY <1>w, CalmTypes
<1>c. \/ CtrlOf(job[p]) = "assign" /\ ok = TRUE /\ uid'[a] = job[p].uid
      \/ uid'[a] = uid[a] /\ (CtrlOf(job[p]) = "release" => v = None)
      \/ CtrlOf(job[p]) = "release" /\ uid'[a] = None /\ (v = uid[a] \/ v = None)
  BY <1>t DEF Answering
<1>k. CtrlOf(job[p]) = "assign" <=> job[p].op \in {"assign", "attach"} BY DEF CtrlOf
<1>s. ASSUME p = Sup PROVE job[Sup].op \in {"broken", "recycle", "assign"} /\ job[Sup] \in Items
  BY <1>0, <1>w, <1>s, ItemsAre DEF PlaceInv
<1>j. ASSUME p \in Client PROVE Joining(p) /\ job[p].op = "attach"
  BY <1>0, <1>w, <1>j DEF PlaceInv, Joining
<1>h. p = Sup \/ p \in Client BY CalmTypes
<1>a. ASSUME CtrlOf(job[p]) = "assign" PROVE lease[job[p].uid] = a
  <2>1. CASE p = Sup
    <3>1. job[Sup].op = "assign" BY <1>a, <1>k, <1>s, <2>1
    <3>2. Assigning(job[Sup]) BY <3>1, <1>w, <2>1 DEF Assigning
    <3> QED BY <1>0, <1>s, <1>w, <2>1, <3>2 DEF AssignInv
  <2>2. CASE p \in Client BY <1>0, <1>j, <1>w, <2>2 DEF JoinInv
  <2> QED BY <1>h, <2>1, <2>2
<1>g. \A c \in Client : Joining(c)' => Joining(c) /\ ~(c = p /\ ok = TRUE)
  <2>1. \A c \in Client : c # p => (Joining(c)' <=> Joining(c)) BY <1>r, CalmTypes DEF Joining
  <2>2. p \in Client => ~(Joining(p)' /\ ok = TRUE) BY <1>r, <1>w DEF Joining
  <2> QED BY <1>j, <2>1, <2>2
<1>1. CreatedInv' BY <1>0, <1>l, <1>u, CalmTypes DEF CreatedInv, Live
<1>2. HeldInv'
  <2>1. \A b \in Slot : b # a => uid'[b] = uid[b] BY <1>u
  <2>2. uid'[a] \in {uid[a], None} \/ lease[uid'[a]] = a BY <1>c, <1>a
  <2>3. a \notin exited BY DEF Live
  <2> QED BY <1>0, <2>1, <2>2, <2>3 DEF HeldInv
<1>3. JoinInv'
  <2>1. ASSUME NEW c \in Client, Joining(c)' PROVE uid'[job[c].actor] # job[c].uid
    <3>1. Joining(c) /\ ~(c = p /\ ok = TRUE) BY <1>g, <2>1
    <3>2. job[c].uid # None /\ job[c].actor \in Slot /\ uid[job[c].actor] # job[c].uid
      BY <1>0, <3>1, CalmTypes DEF JoinInv, Joining, CreatedInv
    <3>3. CASE job[c].actor # a BY <3>2, <3>3, <1>u
    <3>4. CASE job[c].actor = a
      <4>1. CASE CtrlOf(job[p]) = "assign" /\ ok = TRUE /\ uid'[a] = job[p].uid
        <5>1. CASE p \in Client BY <1>0, <1>j, <1>w, <3>1, <3>4, <4>1, <5>1 DEF JoinInv
        <5>2. CASE p = Sup BY <1>0, <1>s, <1>w, <3>1, <3>4, <4>1, <5>2 DEF JoinInv
        <5> QED BY <1>h, <5>1, <5>2
      <4> QED BY <1>c, <3>2, <3>4, <4>1
    <3> QED BY <3>3, <3>4
  <2> QED BY <1>0, <1>l, <1>g, <2>1 DEF JoinInv
<1>4. AssignInv'
  <2>1. \A i : Assigning(i)' => Assigning(i) /\ ~(p = Sup /\ ok = TRUE /\ i \notin todo)
    BY <1>r, <1>w, CalmTypes DEF Assigning
  <2>2. ASSUME NEW i \in Items, Assigning(i)' PROVE uid'[i.actor] # i.uid
    <3>1. Assigning(i) /\ ~(p = Sup /\ ok = TRUE /\ i \notin todo) BY <2>1, <2>2
    <3>2. i.uid # None /\ i.actor \in Slot /\ uid[i.actor] # i.uid
      BY <1>0, <3>1, ItemsAre, CalmTypes DEF AssignInv, Assigning, CreatedInv
    <3>3. CASE i.actor # a BY <3>2, <3>3, <1>u
    <3>4. CASE i.actor = a
      <4>1. CASE CtrlOf(job[p]) = "assign" /\ ok = TRUE /\ uid'[a] = job[p].uid
        <5>1. CASE p \in Client
          BY <1>0, <1>j, <1>w, <3>4, <4>1, <5>1 DEF JoinInv
        <5>2. CASE p = Sup
          <6>1. job[Sup].op = "assign" /\ i.op = "assign" /\ i \in todo
            BY <1>k, <1>s, <3>1, <4>1, <5>2 DEF Assigning
          <6>2. job[Sup] \notin todo BY <1>0, <1>w, <5>2 DEF AssignInv
          <6>3. i \in Job /\ job[Sup] \in Job BY <6>1, CalmTypes DEF TypeOK, PoolTypeOK
          <6>4. i.uid # job[Sup].uid BY <1>w, <3>4, <5>2, <6>1, <6>2, <6>3, JobIs
          <6> QED BY <3>4, <4>1, <5>2, <6>4
        <5> QED BY <1>h, <5>1, <5>2
      <4> QED BY <1>c, <3>2, <3>4, <4>1
    <3> QED BY <3>3, <3>4
  <2> QED BY <1>0, <1>l, <2>1, <2>2 DEF AssignInv
<1>5. ReleaseInv'
  <2>1. \A c \in Client : Joining(c)' => Joining(c) BY <1>g
  <2>2. CASE p = Sup
    <3>1. pc[Sup] = "wait" BY <1>w, <2>2
    <3>2. ASSUME job[Sup].op # "assign", v # None
          PROVE  uid'[a] # v /\ \A c \in Client : ~(Joining(c) /\ job[c].uid = v /\ job[c].actor = a)
      <4>1. CtrlOf(job[Sup]) = "release" BY <1>s, <2>2, <3>2 DEF CtrlOf
      <4>2. uid'[a] = None /\ v = uid[a] BY <1>c, <2>2, <3>2, <4>1
      <4> QED BY <1>0, <3>2, <4>2 DEF JoinInv
    <3> QED BY <1>r, <1>w, <2>1, <2>2, <3>1, <3>2 DEF ReleaseInv
  <2>3. CASE p \in Client
    <3>1. reply'[Sup] = reply[Sup] BY <1>r, <2>3, CalmTypes
    <3>2. Joining(p) BY <1>j, <2>3
    <3>3. pc[Sup] \in {"wait", "check", "remove"} => job[Sup].actor \in Slot /\ job[Sup].uid # None /\ job[Sup] \in Items
      BY <1>0, ItemsAre, CalmTypes DEF CreatedInv, PlaceInv
    <3>4. uid'[a] \in {uid[a], None, job[p].uid} BY <1>c
    <3>5. ASSUME pc[Sup] \in {"wait", "check"}, job[Sup].op # "assign", reply[Sup].uid # None
          PROVE  /\ uid'[job[Sup].actor] # reply[Sup].uid
                 /\ \A c \in Client : ~(Joining(c)' /\ job[c].uid = reply[Sup].uid /\ job[c].actor = job[Sup].actor)
      <4>1. uid[job[Sup].actor] # reply[Sup].uid BY <1>0, <3>5 DEF ReleaseInv
      <4>2. ~(job[p].uid = reply[Sup].uid /\ job[Sup].actor = a) BY <1>0, <1>w, <2>3, <3>2, <3>5 DEF ReleaseInv
      <4>3. \A c \in Client : ~(Joining(c) /\ job[c].uid = reply[Sup].uid /\ job[c].actor = job[Sup].actor) BY <1>0, <3>5 DEF ReleaseInv
      <4> QED BY <1>u, <2>1, <3>3, <3>4, <3>5, <4>1, <4>2, <4>3
    <3>6. ASSUME pc[Sup] = "remove" PROVE uid'[job[Sup].actor] # job[Sup].uid
      <4>1. uid[job[Sup].actor] # job[Sup].uid BY <1>0, <3>6 DEF ReleaseInv
      <4>2. ~(job[p].uid = job[Sup].uid /\ job[Sup].actor = a) BY <1>0, <1>w, <2>3, <3>2, <3>3, <3>6 DEF JoinInv
      <4> QED BY <1>u, <3>3, <3>4, <3>6, <4>1, <4>2
    <3> QED BY <3>1, <3>5, <3>6 DEF ReleaseInv
  <2> QED BY <1>h, <2>2, <2>3
<1>6. PlaceInv' BY <1>0 DEF PlaceInv
<1> QED BY <1>1, <1>2, <1>3, <1>4, <1>5, <1>6

LEMMA NoneIsNobody == None \notin Caller BY PoolAssumption DEF Caller

\* Controls of other actors are untouched by an answer.
LEMMA OthersSent ==
    ASSUME TypeOK, NEW a, NEW p \in Caller, NEW v, NEW ok, Answering(p, a, v, ok), UNCHANGED <<pc, job>>
    PROVE  \A b, c : Sent(b, c) /\ (b # a \/ c.from # p) => Sent(b, c)'
<1>1. job[p].actor = a /\ \A q \in Caller : q # p => reply'[q] = reply[q] BY CalmTypes DEF Answering
<1> QED BY <1>1 DEF Sent

LEMMA QueueFacts ==
    ASSUME TypeOK, NEW a \in Slot, ctrls[a] # <<>>
    PROVE  /\ Len(ctrls[a]) \in Nat /\ Len(ctrls[a]) >= 1
           /\ Head(ctrls[a]) = ctrls[a][1] /\ Head(ctrls[a]) \in Ctrl
           /\ Len(Tail(ctrls[a])) = Len(ctrls[a]) - 1
           /\ \A n \in 1 .. Len(Tail(ctrls[a])) : Tail(ctrls[a])[n] = ctrls[a][n + 1]
<1>1. ctrls[a] \in Seq(Ctrl) BY CalmTypes
<1> QED BY <1>1

\* Sessions survive a change of what one actor drives, when that actor's own
\* session is closed or it had none.
LEMMA SessionsMove ==
    ASSUME TypeOK, CalmInv, NEW a \in Slot, NEW w, uid' = [uid EXCEPT ![a] = w], UNCHANGED <<quarantine, lease>>,
           \/ uid[a] = None /\ active' = active
           \/ active' = active \ {uid[a]}
    PROVE  SessionInv'
<1>1. SUFFICES ASSUME NEW u \in active'
               PROVE  u \in quarantine \/ \E b \in Slot : uid'[b] = u /\ lease[u] = b
  BY DEF SessionInv
<1>2. u \in active /\ u # uid[a] BY <1>1, CalmTypes DEF TypeOK, PoolTypeOK
<1>3. \A b \in Slot : uid[b] = u => uid'[b] = u BY <1>2, CalmTypes
<1> QED BY <1>2, <1>3 DEF CalmInv, SessionInv

LEMMA TakeControlInv == ASSUME TypeOK, CalmInv, NEW a \in Slot, TakeControl(a) PROVE CalmInv'
<1> USE DEF callState, leaseState, actorState, callVars, supVars, ledgerVars, indexVars, exitVars
<1> DEFINE c == Head(ctrls[a])
           p == c.from
<1>0. CreatedInv /\ HeldInv /\ JoinInv /\ AssignInv /\ ReleaseInv /\ PlaceInv /\ CtrlInv /\ SessionInv BY DEF CalmInv
<1>a. a \in Live /\ apc[a] = "select" /\ ctrls[a] # <<>> BY DEF TakeControl, InLoop
<1>q. ctrls' = [ctrls EXCEPT ![a] = Tail(@)] BY DEF TakeControl
<1>o. \A b \in Slot : b # a => ctrls'[b] = ctrls[b] BY <1>q, CalmTypes
<1>T. ctrls'[a] = Tail(ctrls[a]) BY <1>q, CalmTypes
<1>f. UNCHANGED <<leaseState, active, todo, pc, job>> BY DEF TakeControl
<1>l. Live' = Live BY <1>f DEF Live
<1>s. Sent(a, c) BY <1>0, <1>a, QueueFacts DEF CtrlInv
<1>p. p \in Caller /\ pc[p] = "wait" /\ ~reply[p].ready /\ job[p].actor = a /\ c.kind = CtrlOf(job[p])
      /\ c.uid = (IF c.kind = "assign" THEN job[p].uid ELSE None)
  BY <1>s DEF Sent
<1>n. p # None BY <1>p, NoneIsNobody
<1>c. cur[a] = NoCtrl BY <1>0, <1>a DEF CtrlInv
<1>t. \A n \in 1 .. Len(ctrls'[a]) : /\ n + 1 \in 1 .. Len(ctrls[a]) /\ ctrls'[a][n] = ctrls[a][n + 1]
                                     /\ Sent(a, ctrls'[a][n]) /\ ctrls'[a][n].from # p
  <2>1. SUFFICES ASSUME NEW n \in 1 .. Len(Tail(ctrls[a]))
                 PROVE  /\ n + 1 \in 1 .. Len(ctrls[a]) /\ Tail(ctrls[a])[n] = ctrls[a][n + 1]
                        /\ Sent(a, ctrls[a][n + 1]) /\ ctrls[a][n + 1].from # p
    BY <1>T
  <2>2. n + 1 \in 1 .. Len(ctrls[a]) /\ 1 \in 1 .. Len(ctrls[a]) /\ n + 1 # 1 /\ Tail(ctrls[a])[n] = ctrls[a][n + 1]
    BY <1>a, QueueFacts
  <2>3. c = ctrls[a][1] BY <1>a, QueueFacts
  <2> QED BY <1>0, <1>a, <2>2, <2>3 DEF CtrlInv
<1>d. \A m, n \in 1 .. Len(ctrls'[a]) : ctrls'[a][m].from = ctrls'[a][n].from => m = n
  <2>1. SUFFICES ASSUME NEW m \in 1 .. Len(ctrls'[a]), NEW n \in 1 .. Len(ctrls'[a]), ctrls'[a][m].from = ctrls'[a][n].from
                 PROVE  m = n
    OBVIOUS
  <2>2. m + 1 = n + 1
    <3>1. \A i, j \in 1 .. Len(ctrls[a]) : ctrls[a][i].from = ctrls[a][j].from => i = j BY <1>0, <1>a DEF CtrlInv
    <3>2. m + 1 \in 1 .. Len(ctrls[a]) /\ n + 1 \in 1 .. Len(ctrls[a]) BY <1>t
    <3>3. ctrls[a][m + 1].from = ctrls[a][n + 1].from BY <1>t, <2>1
    <3> QED BY <3>1, <3>2, <3>3
  <2>3. m \in Nat /\ n \in Nat
    <3>1. Len(ctrls'[a]) \in Nat BY <1>T, <1>a, QueueFacts
    <3> QED BY <3>1
  <2> QED BY <2>2, <2>3
<1>1. CASE uid[a] # None /\ (c.kind = "release" \/ uid[a] # c.uid)
  <2>1. apc' = [apc EXCEPT ![a] = "release"] /\ cur' = [cur EXCEPT ![a] = c] /\ UNCHANGED <<uid, reply>>
    BY <1>1 DEF TakeControl
  <2>2. cur'[a] = c /\ \A b \in Slot : b # a => cur'[b] = cur[b] /\ apc'[b] = apc[b]
    BY <2>1, CalmTypes DEF TypeOK, PoolTypeOK
  <2>3. apc'[a] = "release" BY <2>1 DEF TypeOK, PoolTypeOK
  <2>4. \A b, d : Sent(b, d)' <=> Sent(b, d) BY <1>f, <2>1 DEF Sent
  <2>5. CtrlInv'
    <3>1. ASSUME NEW b \in Live, b # a
          PROVE  /\ ctrls'[b] = ctrls[b] /\ cur'[b] = cur[b] /\ apc'[b] = apc[b]
      BY <1>o, <2>2, <3>1, CalmTypes DEF Live
    <3> QED BY <1>0, <1>l, <1>s, <1>t, <1>d, <2>2, <2>3, <2>4, <3>1 DEF CtrlInv
  <2>6. Items' = Items BY <1>f DEF Items
  <2>7. CreatedInv'
    <3>1. \A b \in Slot \ created : b # a BY <1>a DEF Live
    <3> QED BY <1>0, <1>f, <1>l, <1>o, <2>1, <2>2, <2>6, <3>1 DEF CreatedInv
  <2>8. HeldInv' /\ SessionInv' BY <1>0, <1>f, <2>1 DEF HeldInv, SessionInv
  <2>9. JoinInv' /\ AssignInv' /\ ReleaseInv' /\ PlaceInv'
    BY <1>0, <1>f, <1>l, <2>1, <2>6 DEF JoinInv, AssignInv, ReleaseInv, PlaceInv, Joining, Assigning
  <2> QED BY <2>5, <2>7, <2>8, <2>9 DEF CalmInv
<1>2. CASE ~(uid[a] # None /\ (c.kind = "release" \/ uid[a] # c.uid))
  <2>1. Answer(c, c.uid, TRUE) /\ UNCHANGED <<apc, cur>> BY <1>2 DEF TakeControl
  <2>2. reply' = [reply EXCEPT ![p] = [ready |-> TRUE, uid |-> c.uid, ok |-> TRUE]] BY <1>n, <2>1 DEF Answer
  <2>3. IF c.kind = "assign" THEN uid' = [uid EXCEPT ![a] = c.uid] ELSE uid' = uid
    BY <1>2 DEF TakeControl, ResetForUID
  <2>4. c.kind \in {"assign", "release"} BY <1>p DEF CtrlOf
  <2>5. Answering(p, a, c.uid, TRUE) BY <1>p, <2>2, <2>3, <2>4 DEF Answering
  <2>6. CreatedInv' /\ HeldInv' /\ JoinInv' /\ AssignInv' /\ ReleaseInv' /\ PlaceInv'
    BY <1>a, <1>f, <1>o, <1>p, <2>1, <2>5, AnswerInv
  <2>7. \A b, d : Sent(b, d) /\ (b # a \/ d.from # p) => Sent(b, d)' BY <1>f, <1>p, <2>5, OthersSent
  <2>8. CtrlInv'
    <3>1. \A b \in Live : b # a => ctrls'[b] = ctrls[b] BY <1>o, CalmTypes DEF Live
    <3> QED BY <1>0, <1>a, <1>c, <1>l, <1>t, <1>d, <2>1, <2>7, <3>1 DEF CtrlInv
  <2>9. SessionInv'
    <3>1. CASE uid' = uid BY <1>0, <1>f, <3>1 DEF SessionInv
    <3>2. CASE c.kind = "assign" /\ uid[a] = None BY <1>f, <2>3, <3>2, SessionsMove
    <3>3. CASE c.kind = "assign" /\ uid[a] = c.uid
      <4>1. uid' = uid BY <2>3, <3>3, CalmTypes
      <4> QED BY <3>1, <4>1
    <3> QED BY <1>2, <2>3, <2>4, <3>1, <3>2, <3>3
  <2> QED BY <2>6, <2>8, <2>9 DEF CalmInv
<1> QED BY <1>1, <1>2

\* An actor gives its uid up.
LEMMA DropInv ==
    ASSUME TypeOK, CalmInv, NEW a \in Slot, uid' = [uid EXCEPT ![a] = None],
           UNCHANGED <<callState, leaseState>>,
           \A b \in Slot : b # a \/ b \notin created => ctrls'[b] = ctrls[b] /\ cur'[b] = cur[b]
    PROVE  CreatedInv' /\ HeldInv' /\ JoinInv' /\ AssignInv' /\ ReleaseInv' /\ PlaceInv'
<1> USE DEF callState, leaseState
<1>0. CreatedInv /\ HeldInv /\ JoinInv /\ AssignInv /\ ReleaseInv /\ PlaceInv BY DEF CalmInv
<1>u. \A b \in Slot : uid'[b] = uid[b] \/ uid'[b] = None BY CalmTypes
<1>l. Live' = Live /\ Items' = Items BY DEF Live, Items
<1>j. \A c \in Client : Joining(c)' <=> Joining(c) BY DEF Joining
<1>1. CreatedInv' BY <1>0, <1>l, <1>u DEF CreatedInv
<1>2. HeldInv' BY <1>0, <1>u DEF HeldInv
<1>3. JoinInv'
  <2>1. \A c \in Client : Joining(c) => job[c].actor \in Slot /\ job[c].uid # None
    BY CalmTypes, <1>0 DEF Joining, CreatedInv
  <2> QED BY <1>0, <1>l, <1>u, <1>j, <2>1 DEF JoinInv
<1>4. AssignInv'
  <2>1. \A i : Assigning(i)' <=> Assigning(i) BY DEF Assigning
  <2>2. \A i \in Items : Assigning(i) => i.actor \in Slot /\ i.uid # None
    BY <1>0, ItemsAre, CalmTypes DEF CreatedInv, Assigning
  <2> QED BY <1>0, <1>l, <1>u, <2>1, <2>2 DEF AssignInv
<1>5. ReleaseInv'
  <2>1. pc[Sup] \in {"wait", "check", "remove"} => job[Sup].actor \in Slot /\ job[Sup].uid # None
    BY <1>0, ItemsAre, CalmTypes DEF CreatedInv, PlaceInv
  <2> QED BY <1>0, <1>u, <1>j, <2>1 DEF ReleaseInv
<1>6. PlaceInv' BY <1>0 DEF PlaceInv
<1> QED BY <1>1, <1>2, <1>3, <1>4, <1>5, <1>6

\* The runtime has closed the session, or could not: the control that waits for
\* it is answered.
LEMMA ReleaseStepInv ==
    ASSUME TypeOK, CalmInv, NEW a \in Slot, ReleaseDone(a) \/ ReleasePending(a) PROVE CalmInv'
<1> USE DEF callState, leaseState, actorState, callVars, supVars, ledgerVars, indexVars, exitVars
<1> DEFINE c == cur[a]
           p == c.from
<1>0. CreatedInv /\ HeldInv /\ JoinInv /\ AssignInv /\ ReleaseInv /\ PlaceInv /\ CtrlInv /\ SessionInv BY DEF CalmInv
<1>a. a \in Live BY DEF ReleaseDone, ReleasePending
<1>f. UNCHANGED <<leaseState, ctrls, todo, pc, job>> BY DEF ReleaseDone, ReleasePending
<1>c. cur' = [cur EXCEPT ![a] = NoCtrl] BY DEF ReleaseDone, ReleasePending
<1>C. cur'[a] = NoCtrl /\ \A b \in Slot : b # a => cur'[b] = cur[b] BY <1>c, CalmTypes
<1>p. \A b \in Slot : b # a => apc'[b] = apc[b] BY DEF ReleaseDone, ReleasePending, TypeOK, PoolTypeOK
<1>l. Live' = Live BY <1>f DEF Live
<1>s. SessionInv'
  <2>1. CASE ReleaseDone(a)
    <3>1. active' = active \ {uid[a]} BY <2>1 DEF ReleaseDone
    <3>2. \E w : uid' = [uid EXCEPT ![a] = w] BY <2>1 DEF ReleaseDone, ResetForUID
    <3> QED BY <1>f, <3>1, <3>2, SessionsMove
  <2>2. CASE ReleasePending(a) BY <1>0, <2>2 DEF ReleasePending, SessionInv
  <2> QED BY <2>1, <2>2
<1>1. CASE c = NoCtrl
  <2>1. c.kind = "none" /\ p = None BY <1>1 DEF NoCtrl
  <2>2. UNCHANGED reply BY <2>1 DEF ReleaseDone, ReleasePending, Answer
  <2>3. cur' = cur BY <1>1, <1>c, CalmTypes
  <2>4. CreatedInv' /\ HeldInv' /\ JoinInv' /\ AssignInv' /\ ReleaseInv' /\ PlaceInv'
    <3>1. CASE ReleaseDone(a)
      <4>1. uid' = [uid EXCEPT ![a] = None] BY <2>1, <3>1 DEF ReleaseDone, ResetForUID
      <4> QED BY <1>f, <2>2, <2>3, <4>1, DropInv
    <3>2. CASE ReleasePending(a)
      <4>1. uid' = uid BY <3>2 DEF ReleasePending
      <4>2. Items' = Items BY <1>f DEF Items
      <4>3. CreatedInv' /\ HeldInv' BY <1>0, <1>f, <1>l, <2>3, <4>1, <4>2 DEF CreatedInv, HeldInv
      <4> QED BY <1>0, <1>f, <1>l, <2>2, <4>1, <4>2, <4>3 DEF JoinInv, AssignInv, ReleaseInv, PlaceInv, Joining, Assigning
    <3> QED BY <3>1, <3>2
  <2>5. CtrlInv'
    <3>1. \A b, d : Sent(b, d)' <=> Sent(b, d) BY <1>f, <2>2 DEF Sent
    <3>2. \A b \in Live : b # a => apc'[b] = apc[b] BY <1>p, CalmTypes DEF Live
    <3> QED BY <1>0, <1>1, <1>f, <1>l, <2>3, <3>1, <3>2 DEF CtrlInv
  <2> QED BY <1>s, <2>4, <2>5 DEF CalmInv
<1>2. CASE c # NoCtrl
  <2>1. Sent(a, c) /\ \A n \in 1 .. Len(ctrls[a]) : ctrls[a][n].from # p BY <1>0, <1>2, <1>a DEF CtrlInv
  <2>2. /\ p \in Caller /\ pc[p] = "wait" /\ ~reply[p].ready /\ job[p].actor = a
        /\ c.kind = CtrlOf(job[p]) /\ c.uid = (IF c.kind = "assign" THEN job[p].uid ELSE None)
    BY <2>1 DEF Sent
  <2>3. p # None BY <2>2, NoneIsNobody
  <2>4. c.kind \in {"assign", "release"} BY <2>2 DEF CtrlOf
  <2>5. \E v : \E ok \in BOOLEAN : Answering(p, a, v, ok)
    <3>1. CASE ReleaseDone(a)
      <4>1. uid' = [uid EXCEPT ![a] = IF c.kind = "assign" THEN c.uid ELSE None] BY <3>1 DEF ReleaseDone, ResetForUID
      <4>2. reply' = [reply EXCEPT ![p] = [ready |-> TRUE, uid |-> IF c.kind = "assign" THEN c.uid ELSE uid[a], ok |-> TRUE]]
        BY <2>3, <3>1 DEF ReleaseDone, Answer
      <4>3. CASE c.kind = "assign"
        <5>1. Answering(p, a, c.uid, TRUE) BY <2>2, <4>1, <4>2, <4>3 DEF Answering
        <5> QED BY <5>1
      <4>4. CASE c.kind = "release"
        <5>1. Answering(p, a, uid[a], TRUE) BY <2>2, <4>1, <4>2, <4>4 DEF Answering
        <5> QED BY <5>1
      <4> QED BY <2>4, <4>3, <4>4
    <3>2. CASE ReleasePending(a)
      <4>1. uid' = uid BY <3>2 DEF ReleasePending
      <4>2. reply' = [reply EXCEPT ![p] = [ready |-> TRUE, uid |-> IF c.kind = "assign" THEN uid[a] ELSE None,
                                           ok |-> c.kind = "release"]]
        BY <2>3, <3>2 DEF ReleasePending, Answer
      <4>3. CASE c.kind = "assign"
        <5>1. (c.kind = "release") = FALSE BY <4>3
        <5>2. Answering(p, a, uid[a], FALSE) BY <2>2, <4>1, <4>2, <4>3, <5>1 DEF Answering
        <5> QED BY <5>2
      <4>4. CASE c.kind = "release"
        <5>1. (c.kind = "release") = TRUE BY <4>4
        <5>2. Answering(p, a, None, TRUE) BY <2>2, <4>1, <4>2, <4>4, <5>1 DEF Answering
        <5> QED BY <5>2
      <4> QED BY <2>4, <4>3, <4>4
    <3> QED BY <3>1, <3>2
  <2>6. CreatedInv' /\ HeldInv' /\ JoinInv' /\ AssignInv' /\ ReleaseInv' /\ PlaceInv'
    BY <1>a, <1>f, <1>C, <2>2, <2>5, AnswerInv
  <2>7. \A b, d : Sent(b, d) /\ (b # a \/ d.from # p) => Sent(b, d)' BY <1>f, <2>2, <2>5, OthersSent
  <2>8. CtrlInv'
    <3>1. \A b \in Live : b # a => apc'[b] = apc[b] /\ cur'[b] = cur[b] BY <1>p, <1>C, CalmTypes DEF Live
    <3> QED BY <1>0, <1>f, <1>l, <1>C, <2>1, <2>7, <3>1 DEF CtrlInv
  <2> QED BY <1>s, <2>6, <2>8 DEF CalmInv
<1> QED BY <1>1, <1>2

\* A stop: the loop returns at once, or closes its session first.
LEMMA StopInv ==
    ASSUME TypeOK, CalmInv, NEW a \in Slot, TakeStop(a) \/ CloseDone(a) \/ CloseGaveUp(a) PROVE CalmInv'
<1> USE DEF callState, leaseState, actorState, callVars, supVars, actorVars
<1>t. uid \in [Slot -> Uid \cup {None}] /\ apc \in [Slot -> {"select", "release", "close"}] BY DEF TypeOK, PoolTypeOK
<1>1. CASE TakeStop(a) /\ uid[a] = None
  <2>1. ActorExit(a, FALSE) /\ UNCHANGED <<callState, uid, active, apc, ctrls, cur>> BY <1>1 DEF TakeStop
  <2> QED BY <1>1, <2>1, ExitInv
<1>2. CASE TakeStop(a) /\ uid[a] # None
  <2>1. apc' = [apc EXCEPT ![a] = "close"] /\ apc[a] = "select" /\ UNCHANGED <<callState, ledgerVars, active, uid, ctrls, cur>>
    BY <1>2 DEF TakeStop, InLoop
  <2>2. \A b \in Slot : apc'[b] = "release" \/ apc[b] # "release" BY <1>t, <2>1
  <2>3. Live \subseteq Slot BY CalmTypes DEF Live
  <2> QED BY <2>1, <2>2, <2>3, StillInv DEF ledgerVars, indexVars, exitVars
<1>3. CASE CloseDone(a)
  <2>1. ActorExit(a, FALSE) /\ uid' = [uid EXCEPT ![a] = None] /\ active' = active \ {uid[a]}
        /\ UNCHANGED <<callState, apc, ctrls, cur>>
    BY <1>3 DEF CloseDone, ResetForUID
  <2>2. uid'[a] = None BY <1>t, <2>1
  <2> QED BY <2>1, <2>2, ExitInv
<1>4. CASE CloseGaveUp(a)
  <2>1. ActorExit(a, TRUE) /\ UNCHANGED <<callState, uid, active, apc, ctrls, cur>> BY <1>4 DEF CloseGaveUp
  <2> QED BY <2>1, ExitInv
<1> QED BY <1>1, <1>2, <1>3, <1>4

\* Every step of an actor loop.
LEMMA CalmActorStep == ASSUME Faults = {}, TypeOK, CalmInv, NEW a \in Slot, ActorStep(a) PROVE CalmInv'
<1>1. ~ReleasePanic(a) /\ ~ClosePanic(a) BY DEF ReleasePanic, ClosePanic
<1> QED BY <1>1, TakeControlInv, ReleaseStepInv, TickInv, StopInv DEF ActorStep

-----------------------------------------------------------------------------
(* Senders and drainers.                                                   *)

\* A caller begins to wait, or learns that its actor is gone.
LEMMA WaitInv ==
    ASSUME TypeOK, CalmInv, NEW p \in Caller, UNCHANGED <<leaseState, uid, todo, job>>,
           pc[p] = "send" \/ (pc[p] = "wait" /\ ~reply[p].ready),
           pc'[p] = "wait", reply'[p].uid = None, reply'[p].ok = FALSE,
           \A q \in Caller : q # p => pc'[q] = pc[q] /\ reply'[q] = reply[q],
           \A b \in Slot \ created : ctrls'[b] = ctrls[b] /\ cur'[b] = cur[b]
    PROVE  CreatedInv' /\ HeldInv' /\ JoinInv' /\ AssignInv' /\ ReleaseInv' /\ PlaceInv'
<1> USE DEF leaseState
<1>0. CreatedInv /\ HeldInv /\ JoinInv /\ AssignInv /\ ReleaseInv /\ PlaceInv BY DEF CalmInv
<1>i. (pc'[Sup] = "idle") <=> (pc[Sup] = "idle") BY CalmTypes
<1>l. Live' = Live /\ Items' = Items BY <1>i DEF Live, Items
<1>j. \A c \in Client : Joining(c)' <=> Joining(c) BY CalmTypes DEF Joining
<1>g. \A i \in Job : Assigning(i)' <=> Assigning(i) BY CalmTypes DEF Assigning
<1>k. \A i \in Items : i \in Job BY ItemsAre, CalmTypes DEF TypeOK, PoolTypeOK
<1>1. CreatedInv'
  <2>1. \A c \in Client : pc'[c] # "idle" => pc[c] # "idle" BY CalmTypes
  <2> QED BY <1>0, <1>l, <2>1 DEF CreatedInv
<1>2. HeldInv' BY <1>0 DEF HeldInv
<1>3. JoinInv' BY <1>0, <1>l, <1>j DEF JoinInv
<1>4. AssignInv' BY <1>0, <1>l, <1>g, <1>k, <1>i DEF AssignInv
<1>5. ReleaseInv'
  <2>1. CASE p = Sup BY <2>1 DEF ReleaseInv
  <2>2. CASE p # Sup
    <3>1. pc'[Sup] = pc[Sup] /\ reply'[Sup] = reply[Sup] BY <2>2, CalmTypes
    <3> QED BY <1>0, <1>j, <3>1 DEF ReleaseInv
  <2> QED BY <2>1, <2>2
<1>6. PlaceInv'
  <2>1. CASE p = Sup
    <3>1. \A c \in Client : pc'[c] = pc[c] BY <2>1, CalmTypes
    <3>2. job[Sup].op \in {"broken", "recycle", "assign"} BY <1>0, <2>1 DEF PlaceInv
    <3> QED BY <1>0, <2>1, <3>1, <3>2 DEF PlaceInv
  <2>2. CASE p # Sup
    <3>1. pc'[Sup] = pc[Sup] BY <2>2, CalmTypes
    <3>2. p \in Client /\ job[p].op = "attach" BY <1>0, <2>2, CalmTypes DEF PlaceInv
    <3>3. \A c \in Client : pc'[c] = pc[c] \/ c = p BY CalmTypes
    <3> QED BY <1>0, <3>1, <3>2, <3>3 DEF PlaceInv
  <2> QED BY <2>1, <2>2
<1> QED BY <1>1, <1>2, <1>3, <1>4, <1>5, <1>6

\* The non-blocking send of a control.
LEMMA SendInv == ASSUME TypeOK, CalmInv, NEW p \in Caller, Send(p) PROVE CalmInv'
<1> USE DEF callState, leaseState, actorState, supVars, ledgerVars, indexVars, exitVars
<1>a. PICK a : a = job[p].actor OBVIOUS
<1>c. PICK c : c = [kind |-> CtrlOf(job[p]), uid |-> IF CtrlOf(job[p]) = "assign" THEN job[p].uid ELSE None, from |-> p]
  OBVIOUS
<1>f. PICK full : full = (a \in exited \/ Len(ctrls[a]) >= CtrlCap) OBVIOUS
<1>0. CreatedInv /\ HeldInv /\ JoinInv /\ AssignInv /\ ReleaseInv /\ PlaceInv /\ CtrlInv /\ SessionInv BY DEF CalmInv
<1>1. /\ pc[p] = "send" /\ pc' = [pc EXCEPT ![p] = "wait"]
      /\ reply' = [reply EXCEPT ![p] = [NoReply EXCEPT !.ready = full]]
      /\ ctrls' = IF full THEN ctrls ELSE [ctrls EXCEPT ![a] = Append(@, c)]
      /\ UNCHANGED <<leaseState, uid, todo, job, cur, apc, active>>
  BY <1>a, <1>c, <1>f DEF Send
<1>2. pc'[p] = "wait" /\ \A q \in Caller : q # p => pc'[q] = pc[q] /\ reply'[q] = reply[q] BY <1>1, CalmTypes
<1>3. reply'[p].uid = None /\ reply'[p].ok = FALSE /\ reply'[p].ready = full BY <1>1, CalmTypes DEF NoReply
<1>4. a \in created /\ a \in Slot
  <2>1. CASE p = Sup BY <1>0, <1>1, <1>a, <2>1, ItemsAre, CalmTypes DEF CreatedInv, PlaceInv
  <2>2. CASE p \in Client BY <1>0, <1>1, <1>a, <2>2, CalmTypes DEF CreatedInv
  <2> QED BY <2>1, <2>2, CalmTypes
<1>5. \A b \in Slot : b # a => ctrls'[b] = ctrls[b] BY <1>1, CalmTypes
<1>6. CreatedInv' /\ HeldInv' /\ JoinInv' /\ AssignInv' /\ ReleaseInv' /\ PlaceInv'
  BY <1>1, <1>2, <1>3, <1>4, <1>5, WaitInv
<1>7. \A b, d : Sent(b, d) => d.from # p /\ Sent(b, d)' BY <1>1, <1>2 DEF Sent
<1>8. Live' = Live /\ Live \subseteq Slot BY <1>1, CalmTypes DEF Live
<1>9. CtrlInv'
  <2>1. CASE full
    <3>1. ctrls' = ctrls BY <1>1, <2>1
    <3> QED BY <1>0, <1>1, <1>7, <1>8, <3>1 DEF CtrlInv
  <2>2. CASE ~full
    <3>1. ctrls[a] \in Seq(Ctrl) BY <1>4, CalmTypes
    <3>2. ctrls'[a] = Append(ctrls[a], c) BY <1>1, <1>4, <2>2, CalmTypes
    <3>3. /\ Len(ctrls'[a]) = Len(ctrls[a]) + 1 /\ Len(ctrls[a]) \in Nat
          /\ ctrls'[a][Len(ctrls[a]) + 1] = c
          /\ \A n \in 1 .. Len(ctrls[a]) : ctrls'[a][n] = ctrls[a][n]
      <4>1. c \in Ctrl
        <5>1. job[p].uid \in Uid BY <1>1, CalmTypes
        <5> QED BY <1>c, <5>1 DEF Ctrl, CtrlOf
      <4> QED BY <3>1, <3>2, <4>1
    <3>4. Sent(a, c)'
      <4>1. c.from = p /\ c.kind = CtrlOf(job[p]) /\ c.uid = IF c.kind = "assign" THEN job[p].uid ELSE None BY <1>c
      <4>2. ~reply'[p].ready BY <1>3, <2>2
      <4>3. CtrlOf(job[p])' = CtrlOf(job[p]) /\ job'[p] = job[p] BY <1>1 DEF CtrlOf
      <4>4. pc'[c.from] = "wait" /\ ~reply'[c.from].ready /\ job'[c.from].actor = a /\ c.kind = CtrlOf(job'[c.from])
        BY <1>1, <1>2, <1>a, <4>1, <4>2
      <4>5. c.uid = IF c.kind = "assign" THEN job'[c.from].uid ELSE None BY <1>1, <4>1
      <4> QED BY <4>1, <4>4, <4>5 DEF Sent
    <3>5. c.from = p BY <1>c
    <3>6. ASSUME a \in Live
          PROVE  /\ \A n \in 1 .. Len(ctrls'[a]) : Sent(a, ctrls[a][n])'
                 /\ \A m, n \in 1 .. Len(ctrls'[a]) : ctrls'[a][m].from = ctrls'[a][n].from => m = n
                 /\ apc[a] # "release" => cur[a] = NoCtrl
                 /\ cur[a] # NoCtrl => Sent(a, cur[a])' /\ \A n \in 1 .. Len(ctrls'[a]) : ctrls'[a][n].from # cur[a].from
      <4>1. \A n \in 1 .. Len(ctrls'[a]) : n \in 1 .. Len(ctrls[a]) \/ n = Len(ctrls[a]) + 1 BY <3>3
      <4>2. \A n \in 1 .. Len(ctrls[a]) : Sent(a, ctrls[a][n]) /\ ctrls[a][n].from # p
        BY <1>0, <1>7, <3>6 DEF CtrlInv
      <4>3. \A n \in 1 .. Len(ctrls'[a]) : ctrls'[a][n].from = p <=> n = Len(ctrls[a]) + 1
        BY <3>3, <3>5, <4>1, <4>2
      <4>4. \A n \in 1 .. Len(ctrls'[a]) : Sent(a, ctrls[a][n])'
        <5>1. SUFFICES ASSUME NEW n \in 1 .. Len(ctrls'[a]) PROVE Sent(a, ctrls[a][n])' OBVIOUS
        <5>2. CASE n = Len(ctrls[a]) + 1 BY <3>3, <3>4, <5>2
        <5>3. CASE n \in 1 .. Len(ctrls[a])
          <6>1. ctrls'[a][n] = ctrls[a][n] BY <3>3, <5>3
          <6>2. PICK d : d = ctrls[a][n] /\ d = ctrls'[a][n] BY <6>1
          <6>3. Sent(a, d)' BY <1>7, <4>2, <5>3, <6>2
          <6> QED BY <6>2, <6>3
        <5> QED BY <4>1, <5>2, <5>3
      <4>5. \A m, n \in 1 .. Len(ctrls'[a]) : ctrls'[a][m].from = ctrls'[a][n].from => m = n
        <5>1. \A m, n \in 1 .. Len(ctrls[a]) : ctrls[a][m].from = ctrls[a][n].from => m = n BY <1>0, <3>6 DEF CtrlInv
        <5> QED BY <3>3, <4>1, <4>3, <5>1
      <4>6. cur[a] # NoCtrl => Sent(a, cur[a]) /\ \A n \in 1 .. Len(ctrls[a]) : ctrls[a][n].from # cur[a].from
        BY <1>0, <3>6 DEF CtrlInv
      <4>7. cur[a] # NoCtrl => Sent(a, cur[a])' /\ cur[a].from # p
        <5>1. PICK d : d = cur[a] OBVIOUS
        <5>2. cur'[a] = d BY <1>1, <5>1
        <5>3. cur[a] # NoCtrl => Sent(a, d)' /\ d.from # p BY <1>7, <4>6, <5>1
        <5> QED BY <5>1, <5>2, <5>3
      <4>8. cur[a] # NoCtrl => \A n \in 1 .. Len(ctrls'[a]) : ctrls'[a][n].from # cur[a].from
        BY <3>3, <3>5, <4>1, <4>6, <4>7
      <4>9. apc[a] # "release" => cur[a] = NoCtrl BY <1>0, <3>6 DEF CtrlInv
      <4> QED BY <4>4, <4>5, <4>7, <4>8, <4>9
    <3>7. \A b \in Live : b # a => ctrls'[b] = ctrls[b] BY <1>5, <1>8
    <3> QED BY <1>0, <1>1, <1>7, <1>8, <3>6, <3>7 DEF CtrlInv
  <2> QED BY <2>1, <2>2
<1>10. SessionInv' BY <1>0, <1>1 DEF SessionInv
<1> QED BY <1>6, <1>9, <1>10 DEF CalmInv

\* The actor is gone before it has answered.
LEMMA GaveUpInv == ASSUME Faults = {}, TypeOK, CalmInv, NEW p \in Caller, GaveUp(p) PROVE CalmInv'
<1> USE DEF callState, leaseState, actorState, supVars, ledgerVars, indexVars, exitVars
<1> DEFINE a == job[p].actor
<1>0. CreatedInv /\ HeldInv /\ JoinInv /\ AssignInv /\ ReleaseInv /\ PlaceInv /\ CtrlInv /\ SessionInv BY DEF CalmInv
<1>1. /\ pc[p] = "wait" /\ a \in exited /\ ~reply[p].ready
      /\ reply' = [reply EXCEPT ![p] = [NoReply EXCEPT !.ready = TRUE]]
      /\ UNCHANGED <<leaseState, uid, todo, job, pc, apc, active>>
  BY DEF GaveUp
<1>2. \A b : b # a => ctrls'[b] = ctrls[b] \/ b \notin Slot BY CalmTypes DEF GaveUp
<1>3. \A b : b # a => cur'[b] = cur[b] \/ b \notin Slot BY CalmTypes DEF GaveUp
<1>4. \A q \in Caller : q # p => reply'[q] = reply[q] BY <1>1, CalmTypes
<1>5. reply'[p].uid = None /\ reply'[p].ok = FALSE BY <1>1, CalmTypes DEF NoReply
<1>6. \A b \in Slot \ created : b # a BY <1>0, <1>1 DEF CreatedInv
<1>7. CreatedInv' /\ HeldInv' /\ JoinInv' /\ AssignInv' /\ ReleaseInv' /\ PlaceInv'
  BY <1>1, <1>2, <1>3, <1>4, <1>5, <1>6, WaitInv
<1>8. CtrlInv'
  <2>1. Live' = Live /\ \A b \in Live : b \in Slot /\ b # a BY <1>1, CalmTypes DEF Live
  <2>2. \A b \in Live : ctrls'[b] = ctrls[b] /\ cur'[b] = cur[b] BY <1>2, <1>3, <2>1
  <2>3. \A b \in Live : \A d : Sent(b, d) => Sent(b, d)' BY <1>1, <1>4, <2>1 DEF Sent
  <2> QED BY <1>0, <1>1, <2>1, <2>2, <2>3 DEF CtrlInv
<1>9. SessionInv' BY <1>0, <1>1 DEF SessionInv
<1> QED BY <1>7, <1>8, <1>9 DEF CalmInv

\* A drainer requests stops, reaps, or gives up at its deadline.
LEMMA DrainInv == ASSUME TypeOK, CalmInv, NEW p \in Drainer, DrainStep(p) PROVE CalmInv'
<1> USE DEF callState, leaseState, actorState, callVars, supVars, actorVars, ledgerVars, indexVars, exitVars
<1>1. CASE RequestStops(p) BY <1>1, StillInv DEF RequestStops
<1>2. CASE DrainDeadline(p) BY <1>2, StillInv DEF DrainDeadline
<1>3. ASSUME NEW a \in drain[p], Reap(p, a) PROVE CalmInv'
  <2>1. CASE a \in draining
    <3>1. ReapSet({a}) /\ a \in exited BY <1>3, <2>1 DEF Reap, ReapActor
    <3>2. Reaped({a}, {}) BY <3>1 DEF ReapSet, Reaped
    <3> QED BY <1>3, <3>2, ReapInv DEF Reap
  <2>2. CASE a \notin draining BY <1>3, <2>2, StillInv DEF Reap, ReapActor
  <2> QED BY <2>1, <2>2
<1> QED BY <1>1, <1>2, <1>3 DEF DrainStep

-----------------------------------------------------------------------------
(* The API's requests.                                                     *)

\* The leases that matter stay: of what an actor drives, of what it is about
\* to get from a request other than c, and of what the supervisor assigns.
LeasesKept(c) ==
    /\ \A u \in Uid : lease'[u] \in {lease[u], None}
    /\ \A b \in Slot : uid[b] # None /\ lease[uid[b]] = b => lease'[uid[b]] = b
    /\ \A d \in Client : d # c /\ Joining(d) /\ job[d].actor \in Live => lease'[job[d].uid] = lease[job[d].uid]
    /\ \A i \in Items : Assigning(i) /\ i.actor \in Live => lease'[i.uid] = lease[i.uid]

\* Leases that do not change are kept.
LEMMA SameLeases == ASSUME lease' = lease PROVE \A c : LeasesKept(c)
BY DEF LeasesKept

\* Request c goes on; nobody waits for what it waited for.
LEMMA ClientMoves ==
    ASSUME TypeOK, CalmInv, NEW c \in Client, pc[c] = "wait" => reply[c].ready,
           \A q \in Caller : q # c => pc'[q] = pc[q] /\ job'[q] = job[q] /\ reply'[q] = reply[q],
           pc'[c] # "idle" => job'[c].actor \in created,
           pc'[c] \in {"send", "wait", "attachDrain", "attachUnlease"} => job'[c].op = "attach",
           pc'[c] \notin {"check", "remove", "clean", "cleaned"},
           Joining(c)' => Joining(c) /\ job'[c] = job[c] /\ lease' = lease,
           LeasesKept(c), active' \subseteq active,
           UNCHANGED <<created, exited, actors, blocked, quarantine, quarantined, todo, actorState, apc>>
    PROVE  CalmInv'
<1> USE DEF actorState
<1>0. CreatedInv /\ HeldInv /\ JoinInv /\ AssignInv /\ ReleaseInv /\ PlaceInv /\ CtrlInv /\ SessionInv BY DEF CalmInv
<1>s. pc'[Sup] = pc[Sup] /\ job'[Sup] = job[Sup] /\ reply'[Sup] = reply[Sup] BY CalmTypes
<1>d. \A d \in Client : d # c => /\ pc'[d] = pc[d] /\ job'[d] = job[d] /\ reply'[d] = reply[d]
                                 /\ (Joining(d)' <=> Joining(d))
  BY CalmTypes DEF Joining
<1>l. Live' = Live /\ Items' = Items BY <1>s DEF Live, Items
<1>j. \A d \in Client : Joining(d)' => Joining(d) /\ job'[d] = job[d] BY <1>d
<1>1. CreatedInv'
  <2>1. \A u \in Uid : lease'[u] \in created \cup {None} BY <1>0 DEF LeasesKept, CreatedInv
  <2> QED BY <1>0, <1>l, <1>d, <2>1 DEF CreatedInv
<1>2. HeldInv' BY <1>0, CalmTypes DEF HeldInv, LeasesKept
<1>3. JoinInv'
  <2>1. \A d \in Client : Joining(d)' /\ job[d].actor \in Live => lease'[job[d].uid] = lease[job[d].uid]
    BY <1>d DEF LeasesKept
  <2> QED BY <1>0, <1>l, <1>j, <2>1 DEF JoinInv
<1>4. AssignInv'
  <2>1. \A i : Assigning(i)' <=> Assigning(i) BY <1>s DEF Assigning
  <2> QED BY <1>0, <1>l, <1>s, <2>1 DEF AssignInv, LeasesKept
<1>5. ReleaseInv' BY <1>0, <1>s, <1>j DEF ReleaseInv
<1>6. PlaceInv' BY <1>0, <1>s, <1>d DEF PlaceInv
<1>7. CtrlInv'
  <2>1. \A b, x : Sent(b, x) => Sent(b, x)' BY DEF Sent
  <2> QED BY <1>0, <1>l, <2>1 DEF CtrlInv
<1>8. SessionInv'
  <2>1. \A b \in Slot : \A u \in active : uid[b] = u /\ lease[u] = b => lease'[u] = b
    BY CalmTypes DEF LeasesKept, TypeOK, PoolTypeOK
  <2> QED BY <1>0, <2>1 DEF SessionInv
<1> QED BY <1>1, <1>2, <1>3, <1>4, <1>5, <1>6, <1>7, <1>8 DEF CalmInv

\* What Go does to the calls.
LEMMA GoFacts ==
    ASSUME TypeOK, NEW p \in Caller, NEW next, Go(p, next)
    PROVE  /\ pc'[p] = next /\ (next # "idle" => job'[p] = job[p] /\ reply'[p] = reply[p])
           /\ \A q \in Caller : q # p => pc'[q] = pc[q] /\ job'[q] = job[q] /\ reply'[q] = reply[q]
BY CalmTypes DEF Go

\* AttachUID reserves a new actor for a uid that is free.
LEMMA AttachInv ==
    ASSUME TypeOK, CalmInv, NEW c \in Client, NEW u \in Uid, NEW a \in Slot, Attach(c, u, a) PROVE CalmInv'
<1> USE DEF callState, leaseState, actorState, supVars, exitVars
<1>0. CreatedInv /\ HeldInv /\ JoinInv /\ AssignInv /\ ReleaseInv /\ PlaceInv /\ CtrlInv /\ SessionInv BY DEF CalmInv
<1>1. /\ pc[c] = "idle" /\ u \notin blocked /\ lease[u] = None /\ a \notin created
      /\ created' = created \cup {a} /\ actors' = actors \cup {a} /\ lease' = [lease EXCEPT ![u] = a]
      /\ job' = [job EXCEPT ![c] = Item("attach", u, a)] /\ pc' = [pc EXCEPT ![c] = "send"]
      /\ UNCHANGED <<blocked, quarantine, quarantined, exited, todo, reply, actorState, apc, active>>
  BY DEF Attach, ReserveManualActor, ReserveOK, Leased, Unused, ClientIdle, Quiet
<1>2. /\ job'[c].op = "attach" /\ job'[c].uid = u /\ job'[c].actor = a /\ pc'[c] = "send"
      /\ \A q \in Caller : q # c => pc'[q] = pc[q] /\ job'[q] = job[q]
  BY <1>1, CalmTypes DEF Item
<1>3. lease'[u] = a /\ \A v \in Uid : v # u => lease'[v] = lease[v] BY <1>1, CalmTypes
<1>s. pc'[Sup] = pc[Sup] /\ job'[Sup] = job[Sup] BY <1>2, CalmTypes
<1>e. a \notin exited /\ a \notin Live BY <1>0, <1>1 DEF CreatedInv, Live
<1>l. Live' = Live \cup {a} /\ Items' = Items BY <1>1, <1>s, <1>e DEF Live, Items
<1>i. \A i \in Items : i.actor # a BY <1>0, <1>1, CalmTypes DEF CreatedInv
<1>j. \A d \in Client : d # c => /\ pc'[d] = pc[d] /\ job'[d] = job[d] /\ (Joining(d)' <=> Joining(d))
                                 /\ (pc[d] # "idle" => job[d].actor # a)
  <2>1. \A d \in Client : d # c => pc'[d] = pc[d] /\ job'[d] = job[d] BY <1>2, CalmTypes
  <2>2. \A d \in Client : d # c => (Joining(d)' <=> Joining(d)) BY <1>1, <2>1 DEF Joining
  <2>3. \A d \in Client : pc[d] # "idle" => job[d].actor # a BY <1>0, <1>1 DEF CreatedInv
  <2> QED BY <2>1, <2>2, <2>3
<1>4. CreatedInv'
  <2>1. Live' \subseteq actors' /\ actors' \subseteq created' /\ exited' \subseteq created' BY <1>0, <1>1, <1>l DEF CreatedInv
  <2>2. \A v \in Uid : lease'[v] \in created' \cup {None} BY <1>0, <1>1, <1>3 DEF CreatedInv
  <2>3. \A d \in Client : pc'[d] # "idle" => job'[d].actor \in created' BY <1>0, <1>1, <1>2, <1>j DEF CreatedInv
  <2> QED BY <1>0, <1>1, <1>l, <2>1, <2>2, <2>3 DEF CreatedInv
<1>5. HeldInv'
  <2>1. \A b \in Slot : uid[b] # None => (uid[b] \in Uid /\ lease'[uid[b]] = lease[uid[b]]) \/ (uid[b] = u /\ lease[u] # b)
    BY <1>1, <1>3, CalmTypes
  <2>2. \A b \in Slot : uid[b] = u => b \in exited /\ u \in quarantine BY <1>0, <1>1, CalmTypes DEF HeldInv
  <2> QED BY <1>0, <1>1, <2>1, <2>2 DEF HeldInv
<1>6. JoinInv'
  <2>1. uid[a] = None BY <1>0, <1>1 DEF CreatedInv
  <2>2. ASSUME NEW d \in Client, d # c, Joining(d), job[d].actor \in Live'
        PROVE  /\ lease'[job[d].uid] = job[d].actor /\ job[d].uid \notin blocked
               /\ \A i \in Items : ~(i.uid = job[d].uid /\ i.actor = job[d].actor)
    <3>1. pc[d] # "idle" /\ job[d].uid \in Uid BY <2>2, CalmTypes DEF Joining
    <3>2. job[d].actor \in Live BY <1>l, <1>j, <2>2, <3>1
    <3>3. job[d].actor # None BY <3>2, CalmTypes DEF Live
    <3>4. lease[job[d].uid] = job[d].actor BY <1>0, <2>2, <3>2 DEF JoinInv
    <3>5. job[d].uid # u BY <1>1, <3>3, <3>4
    <3> QED BY <1>0, <1>3, <2>2, <3>1, <3>2, <3>4, <3>5 DEF JoinInv
  <2>3. \A d \in Client : d # c /\ Joining(d)' => job[d].actor # a
    BY <1>j DEF Joining
  <2>4. u # None BY CalmTypes
  <2> QED BY <1>0, <1>1, <1>2, <1>3, <1>l, <1>i, <1>j, <2>1, <2>2, <2>3, <2>4 DEF JoinInv
<1>7. AssignInv'
  <2>1. \A i : Assigning(i)' <=> Assigning(i) BY <1>1, <1>s DEF Assigning
  <2>2. ASSUME NEW i \in Items, Assigning(i), i.actor \in Live' PROVE lease'[i.uid] = i.actor
    <3>1. i.actor \in Live /\ i.uid \in Uid BY <1>l, <1>i, <2>2, ItemsAre, CalmTypes DEF Assigning
    <3>2. i.actor # None /\ lease[i.uid] = i.actor BY <1>0, <2>2, <3>1, CalmTypes DEF AssignInv, Live
    <3> QED BY <1>1, <1>3, <3>1, <3>2
  <2> QED BY <1>0, <1>1, <1>l, <1>s, <2>1, <2>2 DEF AssignInv
<1>8. ReleaseInv'
  <2>1. pc[Sup] \in {"wait", "check"} => job[Sup].actor # a BY <1>i, ItemsAre
  <2>2. \A d \in Client : d # c => (Joining(d)' <=> Joining(d)) /\ job'[d] = job[d] BY <1>j
  <2> QED BY <1>0, <1>1, <1>2, <1>s, <2>1, <2>2 DEF ReleaseInv
<1>9. PlaceInv' BY <1>0, <1>2, <1>s, <1>j DEF PlaceInv
<1>10. CtrlInv'
  <2>1. ctrls[a] = <<>> /\ cur[a] = NoCtrl BY <1>0, <1>1 DEF CreatedInv
  <2>2. 1 .. Len(ctrls[a]) = {} BY <2>1
  <2>3. \A b, x : Sent(b, x) => Sent(b, x)' BY <1>1, <1>2 DEF Sent
  <2> QED BY <1>0, <1>1, <1>l, <2>1, <2>2, <2>3 DEF CtrlInv
<1>11. SessionInv'
  <2>1. \A b \in Slot : \A v \in active : uid[b] = v /\ lease[v] = b => lease'[v] = b
    BY <1>1, <1>3, CalmTypes DEF TypeOK, PoolTypeOK
  <2> QED BY <1>0, <1>1, <2>1 DEF SessionInv
<1> QED BY <1>4, <1>5, <1>6, <1>7, <1>8, <1>9, <1>10, <1>11 DEF CalmInv

\* Every step of an API request.
LEMMA CalmClientStep == ASSUME TypeOK, CalmInv, NEW c \in Client, ClientStep(c) PROVE CalmInv'
<1> USE DEF callState, leaseState, actorState, callVars, supVars, actorVars, ledgerVars, indexVars, exitVars
<1>0. CreatedInv /\ HeldInv /\ JoinInv /\ AssignInv /\ ReleaseInv /\ PlaceInv /\ CtrlInv /\ SessionInv BY DEF CalmInv
<1>c. c \in Caller BY CalmTypes
<1>1. ASSUME NEW u \in Uid, Logout(c, u) PROVE CalmInv'
  <2>1. /\ pc[c] = "idle" /\ lease[u] # None
        /\ pc'[c] \in {"logoutDrain", "enqueue"} /\ job'[c].op # "attach" /\ job'[c].actor = lease[u]
        /\ \A q \in Caller : q # c => pc'[q] = pc[q] /\ job'[q] = job[q]
    BY <1>1, <1>c, CalmTypes DEF Logout, ClientIdle, Quiet, Leased, Item
  <2>2. lease[u] \in created BY <1>0, <2>1 DEF CreatedInv
  <2>3. ~Joining(c)' BY <2>1 DEF Joining
  <2> QED BY <1>1, <2>1, <2>2, <2>3, SameLeases, ClientMoves DEF Logout
<1>2. ASSUME NEW u \in Uid, NEW a \in Slot, Attach(c, u, a) PROVE CalmInv'
  BY <1>2, AttachInv
<1>3. ASSUME NEW U \in SUBSET Uid, ClientStop(c, U) PROVE CalmInv'
  BY <1>3, StillInv DEF ClientStop, StopUIDs, BeginDrain
<1>4. CASE AttachAnswer(c)
  <2>1. pc[c] = "wait" /\ reply[c].ready /\ job[c].op = "attach" /\ Go(c, IF reply[c].ok THEN "idle" ELSE "attachDrain")
    BY <1>4 DEF AttachAnswer, Answered, At
  <2>2. pc[c] # "idle" => job[c].actor \in created BY <1>0 DEF CreatedInv
  <2>3. CASE reply[c].ok
    <3>1. Go(c, "idle") BY <2>1, <2>3
    <3>2. pc'[c] = "idle" BY <1>c, <3>1, GoFacts
    <3>3. ~Joining(c)' BY <3>2 DEF Joining
    <3> QED BY <1>4, <1>c, <2>1, <3>1, <3>2, <3>3, GoFacts, SameLeases, ClientMoves DEF AttachAnswer
  <2>4. CASE ~reply[c].ok
    <3>1. Go(c, "attachDrain") BY <2>1, <2>4
    <3>2. pc'[c] = "attachDrain" /\ job'[c] = job[c] /\ Joining(c) BY <1>c, <2>1, <2>4, <3>1, GoFacts DEF Joining
    <3> QED BY <1>4, <1>c, <2>1, <2>2, <3>1, <3>2, GoFacts, SameLeases, ClientMoves DEF AttachAnswer
  <2> QED BY <2>3, <2>4
<1>5. CASE AttachDrain(c)
  <2>1. pc[c] = "attachDrain" /\ Go(c, "attachUnlease") /\ job[c].op = "attach" BY <1>0, <1>5 DEF AttachDrain, PlaceInv
  <2>2. pc'[c] = "attachUnlease" /\ job'[c] = job[c] /\ Joining(c) BY <1>c, <2>1, GoFacts DEF Joining
  <2>3. job[c].actor \in created BY <1>0, <2>1 DEF CreatedInv
  <2> QED BY <1>5, <1>c, <2>1, <2>2, <2>3, GoFacts, SameLeases, ClientMoves DEF AttachDrain, BeginDrain
<1>6. CASE AttachUnlease(c)
  <2>1. pc[c] = "attachUnlease" /\ Go(c, "stop") /\ job[c].op = "attach" BY <1>0, <1>6 DEF AttachUnlease, PlaceInv
  <2>2. pc'[c] = "stop" /\ job'[c] = job[c] /\ Joining(c) /\ ~Joining(c)' BY <1>c, <2>1, GoFacts DEF Joining
  <2>3. job[c].actor \in created /\ job[c].uid \in Uid BY <1>0, <1>c, <2>1, CalmTypes DEF CreatedInv
  <2>4. \A u \in Uid : lease'[u] = IF u = job[c].uid /\ lease[u] = job[c].actor THEN None ELSE lease[u]
    BY <1>6, CalmTypes DEF AttachUnlease, RemoveLeaseIfActor
  <2>5. LeasesKept(c)
    <3>1. ASSUME NEW b \in Slot, uid[b] # None, lease[uid[b]] = b PROVE lease'[uid[b]] = b
      BY <1>0, <2>2, <2>4, <3>1, CalmTypes DEF JoinInv
    <3>2. ASSUME NEW d \in Client, d # c, Joining(d), job[d].actor \in Live PROVE lease'[job[d].uid] = lease[job[d].uid]
      <4>1. lease[job[d].uid] = job[d].actor /\ job[d].actor # job[c].actor BY <1>0, <2>2, <3>2 DEF JoinInv
      <4>2. job[d].uid \in Uid BY <3>2, CalmTypes DEF Joining
      <4> QED BY <2>4, <4>1, <4>2
    <3>3. ASSUME NEW i \in Items, Assigning(i), i.actor \in Live PROVE lease'[i.uid] = lease[i.uid]
      <4>1. lease[i.uid] = i.actor BY <1>0, <3>3 DEF AssignInv
      <4>2. i.uid \in Uid BY <3>3, ItemsAre, CalmTypes DEF Assigning
      <4>3. ~(i.uid = job[c].uid /\ i.actor = job[c].actor) BY <1>0, <2>2, <3>3 DEF JoinInv
      <4> QED BY <2>4, <4>1, <4>2, <4>3
    <3> QED BY <2>4, <3>1, <3>2, <3>3 DEF LeasesKept
  <2>6. UNCHANGED <<created, exited, actors, blocked, quarantine, quarantined, todo, actorState, apc, active>>
    BY <1>6 DEF AttachUnlease, RemoveLeaseIfActor
  <2> QED BY <1>c, <2>1, <2>2, <2>3, <2>5, <2>6, GoFacts, ClientMoves
<1>7. CASE RequestStop(c)
  <2>1. pc[c] = "stop" /\ pc'[c] = "idle" BY <1>7, <1>c, GoFacts DEF RequestStop
  <2>2. ~Joining(c)' BY <2>1 DEF Joining
  <2> QED BY <1>7, <1>c, <2>1, <2>2, GoFacts, SameLeases, ClientMoves DEF RequestStop
<1>8. CASE LogoutDrain(c)
  <2>1. pc[c] = "logoutDrain" /\ pc'[c] = "enqueue" /\ job'[c] = job[c] BY <1>8, <1>c, GoFacts DEF LogoutDrain
  <2>2. ~Joining(c)' BY <2>1 DEF Joining
  <2>3. job[c].actor \in created BY <1>0, <2>1 DEF CreatedInv
  <2> QED BY <1>8, <1>c, <2>1, <2>2, <2>3, GoFacts, SameLeases, ClientMoves DEF LogoutDrain, BeginDrain
<1>9. CASE Enqueue(c)
  <2>1. pc[c] = "enqueue" /\ \E next \in {"idle", "stop"} : Go(c, next) BY <1>9 DEF Enqueue
  <2>2. PICK next \in {"idle", "stop"} : Go(c, next) BY <2>1
  <2>3. pc'[c] = next /\ (next = "stop" => job'[c] = job[c]) BY <1>c, <2>2, GoFacts
  <2>4. ~Joining(c)' BY <2>3 DEF Joining
  <2>5. job[c].actor \in created BY <1>0, <2>1 DEF CreatedInv
  <2> QED BY <1>9, <1>c, <2>1, <2>2, <2>3, <2>4, <2>5, GoFacts, SameLeases, ClientMoves DEF Enqueue
<1> QED BY <1>1, <1>2, <1>3, <1>4, <1>5, <1>6, <1>7, <1>8, <1>9 DEF ClientStep

-----------------------------------------------------------------------------
(* The supervisor.                                                         *)

\* The supervisor goes on with its job, or takes an item up: no new item, and
\* the leases stay that others count on.
SupGoesOn ==
    /\ pc[Sup] = "wait" => reply[Sup].ready
    /\ \A c \in Client : pc'[c] = pc[c] /\ job'[c] = job[c] /\ reply'[c] = reply[c]
    /\ todo' \subseteq todo
    /\ pc'[Sup] # "idle" => job'[Sup] \in Items /\ job'[Sup] \notin todo'
    /\ \A i \in Items : Assigning(i)' => Assigning(i)
    /\ \A u \in Uid : lease'[u] \in {lease[u], None}
    /\ \A b \in Slot : uid[b] # None /\ lease[uid[b]] = b => lease'[uid[b]] = b
    /\ \A d \in Client : Joining(d) /\ job[d].actor \in Live =>
         lease'[job[d].uid] = lease[job[d].uid] /\ job[d].uid \notin blocked'
    /\ \A i \in Items : Assigning(i)' /\ i.actor \in Live => lease'[i.uid] = lease[i.uid]
    /\ active' \subseteq active
    /\ UNCHANGED <<created, exited, actors, quarantine, quarantined, actorState, apc>>

\* Where the supervisor may go with which job.
SupPlaces ==
    /\ pc[Sup] \in {"send", "wait"} => job[Sup].op \in {"broken", "recycle", "assign"}
    /\ pc[Sup] \in {"check", "remove"} => job[Sup].op \in {"broken", "recycle"}
    /\ pc[Sup] \in {"clean", "cleaned"} => job[Sup].op \in {"broken", "recycle", "cleanup"}
    /\ pc[Sup] \in {"idle", "send", "wait", "check", "remove", "clean", "cleaned"}

\* Such a step keeps the invariant.
LEMMA SupMoves ==
    ASSUME TypeOK, CalmInv, SupGoesOn, SupPlaces', ReleaseInv' PROVE CalmInv'
<1> USE DEF actorState
<1>0. CreatedInv /\ HeldInv /\ JoinInv /\ AssignInv /\ ReleaseInv /\ PlaceInv /\ CtrlInv /\ SessionInv BY DEF CalmInv
<1>d. \A d \in Client : pc'[d] = pc[d] /\ job'[d] = job[d] /\ reply'[d] = reply[d] BY DEF SupGoesOn
<1>j. \A d \in Client : Joining(d)' <=> Joining(d) BY <1>d DEF Joining
<1>l. Live' = Live BY DEF Live, SupGoesOn
<1>i. \A i : i \in Items' => i \in Items
  <2>1. \A i : i \in Items' => i \in todo' \/ (pc'[Sup] # "idle" /\ i = job'[Sup]) BY DEF Items
  <2> QED BY <2>1, ItemsAre DEF SupGoesOn
<1>1. CreatedInv'
  <2>1. \A u \in Uid : lease'[u] \in created \cup {None} BY <1>0 DEF SupGoesOn, CreatedInv
  <2> QED BY <1>0, <1>l, <1>d, <1>i, <2>1 DEF CreatedInv, SupGoesOn
<1>2. HeldInv' BY <1>0, CalmTypes DEF HeldInv, SupGoesOn
<1>3. JoinInv'
  <2>1. \A d \in Client : Joining(d) /\ job[d].actor \in Live =>
          lease'[job[d].uid] = lease[job[d].uid] /\ job[d].uid \notin blocked'
    BY DEF SupGoesOn
  <2>2. uid' = uid BY DEF SupGoesOn
  <2> QED BY <1>0, <1>l, <1>j, <1>d, <1>i, <2>1, <2>2 DEF JoinInv
<1>4. AssignInv'
  <2>1. \A i \in Items' : Assigning(i)' => uid'[i.actor] # i.uid /\ (i.actor \in Live' => lease'[i.uid] = i.actor)
    BY <1>0, <1>l, <1>i DEF AssignInv, SupGoesOn
  <2>2. pc'[Sup] # "idle" => job'[Sup] \notin todo' BY DEF SupGoesOn
  <2>3. (\E i \in Items' : i.op \in {"assign", "idle"}) => \A i \in Items' : i.op \in {"assign", "idle"}
    BY <1>0, <1>i DEF AssignInv
  <2> QED BY <2>1, <2>2, <2>3 DEF AssignInv
<1>6. PlaceInv' BY <1>0, <1>d DEF PlaceInv, SupPlaces
<1>7. CtrlInv'
  <2>1. \A b, x : Sent(b, x) => x.from \in Client BY CalmTypes DEF Sent, SupGoesOn
  <2>2. \A b, x : Sent(b, x) => Sent(b, x)' BY <1>d, <2>1 DEF Sent
  <2>3. UNCHANGED <<ctrls, cur, apc>> BY DEF SupGoesOn
  <2> QED BY <1>0, <1>l, <2>2, <2>3 DEF CtrlInv
<1>8. SessionInv'
  <2>1. \A b \in Slot : \A u \in active : uid[b] = u /\ lease[u] = b => lease'[u] = b
    BY CalmTypes DEF SupGoesOn, TypeOK, PoolTypeOK
  <2> QED BY <1>0, <2>1 DEF SessionInv, SupGoesOn
<1> QED BY <1>1, <1>2, <1>3, <1>4, <1>6, <1>7, <1>8 DEF CalmInv

\* A snapshot: none of its items names what a request is about to get.
LEMMA SnapshotInv == ASSUME Faults = {}, TypeOK, CalmInv, Snapshot PROVE CalmInv'
<1> USE DEF leaseState, actorState, callVars, actorVars, ledgerVars, indexVars, exitVars
<1>0. CreatedInv /\ HeldInv /\ JoinInv /\ AssignInv /\ ReleaseInv /\ PlaceInv /\ CtrlInv /\ SessionInv BY DEF CalmInv
<1>1. pc[Sup] = "idle" /\ UNCHANGED <<leaseState, actorState, apc, active, pc, job, reply>>
  BY DEF Snapshot, SupIdle
<1>n. AutoActors \subseteq actors /\ actors \subseteq created BY <1>0 DEF AutoActors, CreatedInv
<1>o. \A name, u, a : Item(name, u, a).op = name /\ Item(name, u, a).uid = u /\ Item(name, u, a).actor = a BY DEF Item
<1>2. \A i \in todo' :
        \/ i.op = "broken" /\ i.uid \in Uid /\ i.actor = lease[i.uid] /\ i.actor # None
           /\ (MayFail(i.uid) \/ i.uid \in blocked)
        \/ i.op = "cleanup" /\ i.actor = None
        \/ i.op = "recycle" /\ i.actor \in created /\ i.uid = uid[i.actor]
        \/ i.op = "idle" /\ i.actor \in created /\ i.uid = None
  <2>1. CASE \E dead \in SUBSET {u \in Visible : MayFail(u)} :
               todo' = {Item("broken", u, lease[u]) : u \in dead \cup (Visible \cap blocked)}
    BY <1>o, <2>1 DEF Visible, Leased
  <2>2. CASE todo' = {Item("cleanup", u, None) : u \in blocked} BY <1>o, <2>2
  <2>3. CASE \E bad \in SUBSET {a \in AutoActors : uid[a] # None} : todo' = {Item("recycle", uid[a], a) : a \in bad}
    BY <1>n, <1>o, <2>3
  <2>4. CASE todo' = {Item("idle", None, a) : a \in {b \in AutoActors : uid[b] = None}} BY <1>n, <1>o, <2>4
  <2> QED BY <2>1, <2>2, <2>3, <2>4 DEF Snapshot
<1>3. (\A i \in todo' : i.op \in {"assign", "idle"}) \/ (\A i \in todo' : i.op \notin {"assign", "idle"})
  <2>1. CASE \E dead \in SUBSET {u \in Visible : MayFail(u)} :
               todo' = {Item("broken", u, lease[u]) : u \in dead \cup (Visible \cap blocked)}
    BY <1>o, <2>1
  <2>2. CASE todo' = {Item("cleanup", u, None) : u \in blocked} BY <1>o, <2>2
  <2>3. CASE \E bad \in SUBSET {a \in AutoActors : uid[a] # None} : todo' = {Item("recycle", uid[a], a) : a \in bad}
    BY <1>o, <2>3
  <2>4. CASE todo' = {Item("idle", None, a) : a \in {b \in AutoActors : uid[b] = None}} BY <1>o, <2>4
  <2> QED BY <2>1, <2>2, <2>3, <2>4 DEF Snapshot
<1>l. Live' = Live BY <1>1 DEF Live
<1>i. \A i : i \in Items' <=> i \in todo' BY <1>1 DEF Items
<1>j. \A c \in Client : Joining(c)' <=> Joining(c) BY <1>1 DEF Joining
<1>4. CreatedInv'
  <2>1. \A i \in todo' : i.actor \in created \/ (i.op = "cleanup" /\ i.actor = None) BY <1>0, <1>2 DEF CreatedInv
  <2> QED BY <1>0, <1>1, <1>l, <1>i, <2>1 DEF CreatedInv
<1>5. HeldInv' BY <1>0, <1>1 DEF HeldInv
<1>6. JoinInv'
  <2>1. ASSUME NEW c \in Client, Joining(c), job[c].actor \in Live, NEW i \in todo',
               i.uid = job[c].uid, i.actor = job[c].actor
        PROVE  FALSE
    <3>1. i.uid \notin blocked /\ uid[i.actor] # i.uid /\ i.actor \in Slot BY <1>0, <2>1, CalmTypes DEF JoinInv, Live
    <3>2. ~MayFail(i.uid) BY <2>1 DEF MayFail, Attaching, Joining
    <3>3. job[c].uid \in Uid BY <2>1, CalmTypes DEF Joining
    <3> QED BY <1>2, <2>1, <3>1, <3>2, <3>3, CalmTypes
  <2> QED BY <1>0, <1>1, <1>l, <1>i, <1>j, <2>1 DEF JoinInv
<1>7. AssignInv'
  <2>1. \A i \in Items' : ~Assigning(i)' BY <1>1, <1>2, <1>i DEF Assigning
  <2> QED BY <1>1, <1>i, <1>3, <2>1 DEF AssignInv
<1>8. ReleaseInv' BY <1>1 DEF ReleaseInv
<1>9. PlaceInv' BY <1>0, <1>1 DEF PlaceInv
<1>10. CtrlInv'
  <2>1. \A b, x : Sent(b, x)' <=> Sent(b, x) BY <1>1 DEF Sent
  <2> QED BY <1>0, <1>1, <1>l, <2>1 DEF CtrlInv
<1>11. SessionInv' BY <1>0, <1>1 DEF SessionInv
<1> QED BY <1>4, <1>5, <1>6, <1>7, <1>8, <1>9, <1>10, <1>11 DEF CalmInv

\* acquireUIDs leases a free uid to an idle actor of the snapshot; a uid that
\* was quarantined is not free, so the actor cannot have it yet.
LEMMA LeasePairInv ==
    ASSUME TypeOK, LedgerInv, CalmInv, NEW i \in todo, NEW u \in Uid, LeasePair(i, u) PROVE CalmInv'
<1> USE DEF leaseState, actorState, callVars, actorVars, exitVars
<1>0. CreatedInv /\ HeldInv /\ JoinInv /\ AssignInv /\ ReleaseInv /\ PlaceInv /\ CtrlInv /\ SessionInv BY DEF CalmInv
<1>a. PICK a : a = i.actor OBVIOUS
<1>n. PICK new : new = Item("assign", u, a) OBVIOUS
<1>1. /\ pc[Sup] = "idle" /\ i.op = "idle" /\ u \notin blocked /\ lease[u] = None
      /\ lease' = [lease EXCEPT ![u] = a] /\ todo' = (todo \ {i}) \cup {new}
      /\ UNCHANGED <<created, exited, actors, blocked, quarantine, quarantined, actorState, apc, active, pc, job, reply>>
  BY <1>a, <1>n DEF LeasePair, SupIdle, TryLeaseUID, TryLeaseOK, Leased
<1>2. new.op = "assign" /\ new.uid = u /\ new.actor = a BY <1>n DEF Item
<1>3. i \in Items BY ItemsAre
<1>4. a \in created /\ a \in Slot BY <1>0, <1>1, <1>3, <1>a, CalmTypes DEF CreatedInv
<1>5. lease'[u] = a /\ \A v \in Uid : v # u => lease'[v] = lease[v] BY <1>1, CalmTypes
<1>6. \A b \in Slot : uid[b] # u
  <2>1. u \notin quarantine /\ u # None BY <1>1, CalmTypes DEF LedgerInv, QuarantineHeld
  <2> QED BY <1>0, <1>1, <2>1, CalmTypes DEF HeldInv
<1>l. Live' = Live BY <1>1 DEF Live
<1>i. \A j : j \in Items' => j \in Items \/ j = new BY <1>1, ItemsAre DEF Items
<1>j. \A c \in Client : Joining(c)' <=> Joining(c) BY <1>1 DEF Joining
<1>7. CreatedInv'
  <2>1. \A v \in Uid : lease'[v] \in created \cup {None} BY <1>0, <1>4, <1>5 DEF CreatedInv
  <2> QED BY <1>0, <1>1, <1>2, <1>4, <1>l, <1>i, <2>1 DEF CreatedInv
<1>8. HeldInv'
  <2>1. \A b \in Slot : uid[b] # None => lease'[uid[b]] = lease[uid[b]] BY <1>5, <1>6, CalmTypes
  <2> QED BY <1>0, <1>1, <2>1 DEF HeldInv
<1>9. JoinInv'
  <2>1. ASSUME NEW c \in Client, Joining(c), job[c].actor \in Live
        PROVE  job[c].uid # u /\ lease'[job[c].uid] = job[c].actor
    <3>1. job[c].uid \in Uid /\ job[c].actor # None BY <2>1, CalmTypes DEF Joining, Live
    <3>2. lease[job[c].uid] = job[c].actor BY <1>0, <2>1 DEF JoinInv
    <3> QED BY <1>1, <1>5, <3>1, <3>2
  <2> QED BY <1>0, <1>1, <1>2, <1>l, <1>i, <1>j, <2>1 DEF JoinInv
<1>10. AssignInv'
  <2>1. \A j : Assigning(j)' => Assigning(j) \/ j = new BY <1>1 DEF Assigning
  <2>2. ASSUME NEW j \in Items, Assigning(j), j.actor \in Live PROVE lease'[j.uid] = j.actor
    <3>1. j.uid \in Uid /\ j.actor # None BY <2>2, ItemsAre, CalmTypes DEF Assigning, Live
    <3>2. lease[j.uid] = j.actor BY <1>0, <2>2 DEF AssignInv
    <3> QED BY <1>1, <1>5, <3>1, <3>2
  <2>3. \A j \in Items : j.op \in {"assign", "idle"} BY <1>0, <1>1, <1>3 DEF AssignInv
  <2>4. \A j \in Items' : Assigning(j)' => uid[j.actor] # j.uid /\ (j.actor \in Live => lease'[j.uid] = j.actor)
    <3>1. SUFFICES ASSUME NEW j \in Items', Assigning(j)'
                   PROVE  uid[j.actor] # j.uid /\ (j.actor \in Live => lease'[j.uid] = j.actor)
      OBVIOUS
    <3>2. CASE j = new BY <1>2, <1>4, <1>5, <1>6, <3>2
    <3>3. CASE j # new
      <4>1. Assigning(j) /\ j \in Items BY <1>i, <2>1, <3>1, <3>3
      <4> QED BY <1>0, <2>2, <4>1 DEF AssignInv
    <3> QED BY <3>2, <3>3
  <2> QED BY <1>1, <1>2, <1>l, <1>i, <2>3, <2>4 DEF AssignInv
<1>11. ReleaseInv' BY <1>1 DEF ReleaseInv
<1>12. PlaceInv' BY <1>0, <1>1 DEF PlaceInv
<1>13. CtrlInv'
  <2>1. \A b, x : Sent(b, x)' <=> Sent(b, x) BY <1>1 DEF Sent
  <2> QED BY <1>0, <1>1, <1>l, <2>1 DEF CtrlInv
<1>14. SessionInv'
  <2>1. \A b \in Slot : \A v \in active : uid[b] = v /\ lease[v] = b => lease'[v] = b
    BY <1>5, <1>6, CalmTypes DEF TypeOK, PoolTypeOK
  <2> QED BY <1>0, <1>1, <2>1 DEF SessionInv
<1> QED BY <1>7, <1>8, <1>9, <1>10, <1>11, <1>12, <1>13, <1>14 DEF CalmInv

\* Items that are dropped, or taken up without a lease being touched.
LEMMA StartInv ==
    ASSUME TypeOK, CalmInv, pc[Sup] = "idle", NEW i \in todo,
           Skip(i) \/ (Start(i, "send") /\ i.op \in {"broken", "recycle", "assign"})
                   \/ (Start(i, "clean") /\ i.op = "cleanup"),
           lease' = lease, active' \subseteq active,
           \A d \in Client : Joining(d) /\ job[d].actor \in Live => job[d].uid \notin blocked',
           UNCHANGED <<created, exited, actors, quarantine, quarantined, actorState, apc>>
    PROVE  CalmInv'
<1>0. JoinInv /\ PlaceInv BY DEF CalmInv
<1>1. i \in Items /\ \A c \in Client : c \in Caller /\ c # Sup BY ItemsAre, CalmTypes
<1>2. /\ todo' = todo \ {i} /\ reply' = reply
      /\ \/ pc'[Sup] = "idle" /\ job' = job /\ pc' = pc
         \/ pc'[Sup] = "send" /\ job'[Sup] = i /\ i.op \in {"broken", "recycle", "assign"}
         \/ pc'[Sup] = "clean" /\ job'[Sup] = i /\ i.op = "cleanup"
      /\ \A c \in Client : pc'[c] = pc[c] /\ job'[c] = job[c] /\ reply'[c] = reply[c]
  BY <1>1, CalmTypes DEF Skip, Start, callVars
<1>3. \A j : Assigning(j)' => Assigning(j) BY <1>2 DEF Assigning
<1>4. SupGoesOn BY <1>1, <1>2, <1>3 DEF SupGoesOn
<1>5. SupPlaces' BY <1>2 DEF SupPlaces
<1>6. ReleaseInv' BY <1>2 DEF ReleaseInv
<1> QED BY <1>4, <1>5, <1>6, SupMoves

\* The supervisor takes up, or skips, an item of its snapshot.
LEMMA CalmItemStep ==
    ASSUME TypeOK, LedgerInv, CalmInv, NEW i \in todo, ItemStep(i) PROVE CalmInv'
<1> USE DEF actorState, actorVars, ledgerVars, indexVars, exitVars
<1>0. JoinInv BY DEF CalmInv
<1>i. i \in Items BY ItemsAre
<1>b. \A d \in Client : Joining(d) /\ job[d].actor \in Live => job[d].uid \notin blocked BY <1>0 DEF JoinInv
<1>1. CASE BrokenBlock(i)
  <2>0. pc[Sup] = "idle" /\ i.op = "broken" /\ UNCHANGED <<actorVars, drain>> BY <1>1 DEF BrokenBlock, SupIdle
  <2>1. CASE lease[i.uid] = i.actor
    <3>1. BlockUID(i.uid) /\ Start(i, "send") BY <1>1, <2>1 DEF BrokenBlock, BlockLeaseIfCurrent
    <3>2. \A d \in Client : Joining(d) /\ job[d].actor \in Live => job[d].uid \notin blocked'
      BY <1>0, <1>i, <2>1, <3>1 DEF BlockUID, JoinInv
    <3> QED BY <2>0, <3>1, <3>2, StartInv DEF BlockUID
  <2>2. CASE lease[i.uid] # i.actor
    <3>1. UNCHANGED ledgerVars /\ Skip(i) BY <1>1, <2>2 DEF BrokenBlock
    <3> QED BY <1>b, <2>0, <3>1, StartInv
  <2> QED BY <2>1, <2>2
<1>2. CASE RecycleStart(i) BY <1>2, <1>b, StartInv DEF RecycleStart, SupIdle
<1>3. CASE CleanupBlocked(i)
  <2>1. /\ pc[Sup] = "idle" /\ i.op = "cleanup" /\ active' \subseteq active /\ (Start(i, "clean") \/ Skip(i))
        /\ UNCHANGED <<ledgerVars, actorState, apc>>
    BY <1>3 DEF CleanupBlocked, SupIdle
  <2> QED BY <1>b, <2>1, StartInv
<1>4. ASSUME NEW u \in Uid, LeasePair(i, u) PROVE CalmInv' BY <1>4, LeasePairInv
<1>5. CASE LeaseNone(i) BY <1>5, <1>b, StartInv DEF LeaseNone, SupIdle
<1>6. CASE AssignStart(i) BY <1>6, <1>b, StartInv DEF AssignStart, SupIdle
<1> QED BY <1>1, <1>2, <1>3, <1>4, <1>5, <1>6 DEF ItemStep

\* The supervisor goes on to `next' with its job; it may take back the lease of
\* a uid that the job's actor does not drive, and that nobody gives to it.
LEMMA GoesOn ==
    ASSUME TypeOK, CalmInv, NEW next, Go(Sup, next), pc[Sup] # "idle", pc[Sup] = "wait" => reply[Sup].ready,
           next \notin {"send", "wait"}, todo' = todo, active' \subseteq active,
           NEW u \in Uid, NEW a,
           \A v \in Uid : lease'[v] = lease[v] \/ (v = u /\ lease[v] = a /\ lease'[v] = None),
           lease' = lease \/ (a \in Slot => uid[a] # u),
           lease' = lease \/ \A d \in Client : ~(Joining(d) /\ a \in Live /\ job[d].uid = u /\ job[d].actor = a),
           lease' = lease \/ \A i \in todo : ~(Assigning(i) /\ i.uid = u /\ i.actor = a),
           \A d \in Client : Joining(d) /\ job[d].actor \in Live => job[d].uid \notin blocked',
           UNCHANGED <<created, exited, actors, quarantine, quarantined, actorState, apc>>
    PROVE  SupGoesOn
<1>0. JoinInv /\ AssignInv BY DEF CalmInv
<1>1. Sup \in Caller /\ \A c \in Client : c \in Caller /\ c # Sup BY CalmTypes
<1>2. /\ pc'[Sup] = next /\ (next # "idle" => job'[Sup] = job[Sup] /\ reply'[Sup] = reply[Sup])
      /\ \A c \in Client : pc'[c] = pc[c] /\ job'[c] = job[c] /\ reply'[c] = reply[c]
  BY <1>1, GoFacts
<1>3. \A i : Assigning(i)' => Assigning(i) /\ i \in todo BY <1>2 DEF Assigning
<1>4. \A v \in Uid : lease'[v] \in {lease[v], None} OBVIOUS
<1>5. \A b \in Slot : uid[b] # None /\ lease[uid[b]] = b => lease'[uid[b]] = b BY CalmTypes
<1>6. ASSUME NEW d \in Client, Joining(d), job[d].actor \in Live PROVE lease'[job[d].uid] = lease[job[d].uid]
  <2>1. job[d].uid \in Uid BY <1>6, CalmTypes DEF Joining
  <2>2. lease[job[d].uid] = job[d].actor BY <1>0, <1>6 DEF JoinInv
  <2> QED BY <1>6, <2>1, <2>2
<1>7. ASSUME NEW i \in Items, Assigning(i)', i.actor \in Live PROVE lease'[i.uid] = lease[i.uid]
  <2>1. Assigning(i) /\ i \in todo /\ i.uid \in Uid BY <1>3, <1>7, CalmTypes DEF Assigning
  <2>2. lease[i.uid] = i.actor BY <1>0, <1>7, <2>1 DEF AssignInv
  <2> QED BY <2>1, <2>2
<1>8. pc'[Sup] # "idle" => job'[Sup] \in Items /\ job'[Sup] \notin todo' BY <1>0, <1>2, ItemsAre DEF AssignInv
<1> QED BY <1>2, <1>3, <1>4, <1>5, <1>6, <1>7, <1>8 DEF SupGoesOn

\* Each step of a job: what is removed was released before, and whom a step
\* blocks no request is attaching.
LEMMA CalmSupJobStep == ASSUME Faults = {}, TypeOK, CalmInv, SupJobStep PROVE CalmInv'
<1> USE DEF actorState, actorVars, supVars, ledgerVars, indexVars, exitVars
<1>0. CreatedInv /\ JoinInv /\ AssignInv /\ ReleaseInv /\ PlaceInv BY DEF CalmInv
<1>s. Sup \in Caller /\ pc[Sup] # "idle" /\ \E next \in Place : Go(Sup, next) BY CalmTypes, SupJobGoes
<1>u. job[Sup].uid \in Uid /\ job[Sup].uid # None /\ reply[Sup].uid \in Uid \cup {None} BY <1>s, CalmTypes
<1>i. job[Sup] \in Items BY <1>s, ItemsAre
<1>b. \A d \in Client : Joining(d) /\ job[d].actor \in Live => job[d].uid \notin blocked BY <1>0 DEF JoinInv
<1>j. \A d \in Client : Joining(d)' => Joining(d) /\ job'[d] = job[d]
  <2>1. \A d \in Client : pc'[d] = pc[d] /\ job'[d] = job[d] /\ reply'[d] = reply[d] BY <1>s, CalmTypes, GoFacts
  <2> QED BY <2>1 DEF Joining
<1>r. \A u \in Uid : \A a : RemoveLeaseIfActor(u, a) =>
        /\ \A v \in Uid : lease'[v] = lease[v] \/ (v = u /\ lease[v] = a /\ lease'[v] = None)
        /\ UNCHANGED <<created, exited, actors, blocked, quarantine, quarantined>>
  BY CalmTypes DEF RemoveLeaseIfActor
<1>n. job[Sup].op \in {"broken", "recycle"} => \A k \in todo : ~Assigning(k)
  <2>1. job[Sup].op \in {"broken", "recycle"} => \A k \in Items : k.op # "assign" BY <1>0, <1>i DEF AssignInv
  <2> QED BY <2>1, ItemsAre DEF Assigning
<1>c. job[Sup].op # "cleanup" => job[Sup].actor \in Slot BY <1>0, <1>i, CalmTypes DEF CreatedInv
<1>1. CASE BrokenAnswer
  <2>1. pc[Sup] = "wait" /\ reply[Sup].ready /\ job[Sup].op = "broken" /\ Go(Sup, "check")
        /\ UNCHANGED <<actorVars, drain, supVars>>
    BY <1>1 DEF BrokenAnswer, Answered, At
  <2>2. pc'[Sup] = "check" /\ job'[Sup] = job[Sup] /\ reply'[Sup] = reply[Sup] BY <1>s, <2>1, GoFacts
  <2>3. SupPlaces' BY <2>1, <2>2 DEF SupPlaces
  <2>4. ReleaseInv' BY <1>0, <1>j, <2>1, <2>2 DEF ReleaseInv
  <2>5. CASE reply[Sup].uid \notin {None, job[Sup].uid}
    <3>1. RemoveLeaseIfActor(reply[Sup].uid, job[Sup].actor) BY <1>1, <2>5 DEF BrokenAnswer
    <3>2. reply[Sup].uid \in Uid /\ reply[Sup].uid # None BY <1>u, <2>5
    <3>3. /\ \A v \in Uid : lease'[v] = lease[v] \/ (v = reply[Sup].uid /\ lease[v] = job[Sup].actor /\ lease'[v] = None)
          /\ UNCHANGED <<created, exited, actors, blocked, quarantine, quarantined>>
      BY <1>r, <3>1, <3>2
    <3>4. uid[job[Sup].actor] # reply[Sup].uid BY <1>0, <2>1, <3>2 DEF ReleaseInv
    <3>5. \A d \in Client : ~(Joining(d) /\ job[d].uid = reply[Sup].uid /\ job[d].actor = job[Sup].actor)
      BY <1>0, <2>1, <3>2 DEF ReleaseInv
    <3>6. SupGoesOn BY <1>b, <1>n, <2>1, <3>2, <3>3, <3>4, <3>5, GoesOn
    <3> QED BY <2>3, <2>4, <3>6, SupMoves
  <2>6. CASE reply[Sup].uid \in {None, job[Sup].uid}
    <3>1. UNCHANGED ledgerVars BY <1>1, <2>6 DEF BrokenAnswer
    <3>2. SupGoesOn BY <1>b, <1>u, <2>1, <3>1, GoesOn
    <3> QED BY <2>3, <2>4, <3>2, SupMoves
  <2> QED BY <2>5, <2>6
<1>2. CASE BrokenCheck
  <2>1. PICK next \in {"remove", "idle"} : Go(Sup, next) /\ (next = "remove" => reply[Sup].uid = job[Sup].uid \/ uid[job[Sup].actor] # job[Sup].uid)
    BY <1>2 DEF BrokenCheck
  <2>2. pc[Sup] = "check" /\ job[Sup].op = "broken" /\ UNCHANGED <<ledgerVars, actorVars, drain, supVars>>
    BY <1>2 DEF BrokenCheck, At
  <2>3. pc'[Sup] = next /\ (next = "remove" => job'[Sup] = job[Sup]) BY <1>s, <2>1, GoFacts
  <2>4. SupPlaces' BY <2>2, <2>3 DEF SupPlaces
  <2>5. ReleaseInv' BY <1>0, <1>u, <2>1, <2>2, <2>3 DEF ReleaseInv
  <2>6. SupGoesOn BY <1>b, <1>u, <2>1, <2>2, GoesOn
  <2> QED BY <2>4, <2>5, <2>6, SupMoves
<1>3. CASE RecycleAnswer
  <2>1. PICK next \in {"remove", "idle"} : Go(Sup, next) /\ (next = "remove" => reply[Sup].uid = job[Sup].uid)
    BY <1>3 DEF RecycleAnswer
  <2>2. pc[Sup] = "wait" /\ reply[Sup].ready /\ job[Sup].op = "recycle" /\ UNCHANGED <<ledgerVars, actorVars, drain, supVars>>
    BY <1>3 DEF RecycleAnswer, Answered, At
  <2>3. pc'[Sup] = next /\ (next = "remove" => job'[Sup] = job[Sup]) BY <1>s, <2>1, GoFacts
  <2>4. SupPlaces' BY <2>2, <2>3 DEF SupPlaces
  <2>5. ReleaseInv' BY <1>0, <1>u, <2>1, <2>2, <2>3 DEF ReleaseInv
  <2>6. SupGoesOn BY <1>b, <1>u, <2>1, <2>2, GoesOn
  <2> QED BY <2>4, <2>5, <2>6, SupMoves
<1>4. CASE RemoveLease
  <2>1. pc[Sup] = "remove" /\ job[Sup].op \in {"broken", "recycle"} /\ Go(Sup, "clean")
        /\ RemoveLeaseIfActor(job[Sup].uid, job[Sup].actor) /\ UNCHANGED <<actorVars, drain, supVars>>
    BY <1>4 DEF RemoveLease, At
  <2>2. pc'[Sup] = "clean" /\ job'[Sup] = job[Sup] BY <1>s, <2>1, GoFacts
  <2>3. SupPlaces' BY <2>1, <2>2 DEF SupPlaces
  <2>4. ReleaseInv' BY <2>2 DEF ReleaseInv
  <2>5. uid[job[Sup].actor] # job[Sup].uid BY <1>0, <2>1 DEF ReleaseInv
  <2>6. /\ \A v \in Uid : lease'[v] = lease[v] \/ (v = job[Sup].uid /\ lease[v] = job[Sup].actor /\ lease'[v] = None)
        /\ UNCHANGED <<created, exited, actors, blocked, quarantine, quarantined>>
    BY <1>r, <1>u, <2>1
  <2>7. \A d \in Client : ~(Joining(d) /\ job[Sup].actor \in Live /\ job[d].uid = job[Sup].uid /\ job[d].actor = job[Sup].actor)
    BY <1>0, <1>i DEF JoinInv
  <2>8. SupGoesOn BY <1>b, <1>n, <1>u, <2>1, <2>5, <2>6, <2>7, GoesOn
  <2> QED BY <2>3, <2>4, <2>8, SupMoves
<1>5. CASE Clean
  <2>1. pc[Sup] = "clean" /\ Go(Sup, "cleaned") /\ active' \subseteq active /\ todo' = todo
        /\ UNCHANGED <<created, exited, actors, lease, blocked, quarantine, quarantined, actorState, apc>>
    BY <1>5 DEF Clean, StopUIDs, BeginDrain
  <2>2. pc'[Sup] = "cleaned" /\ job'[Sup] = job[Sup] BY <1>s, <2>1, GoFacts
  <2>3. SupPlaces' BY <1>0, <2>1, <2>2 DEF SupPlaces, PlaceInv
  <2>4. ReleaseInv' BY <2>2 DEF ReleaseInv
  <2>5. SupGoesOn BY <1>b, <1>u, <2>1, GoesOn
  <2> QED BY <2>3, <2>4, <2>5, SupMoves
<1>6. CASE CleanRefused \/ Cleaned
  <2>1. /\ pc[Sup] \in {"clean", "cleaned"} /\ Go(Sup, "idle")
        /\ UNCHANGED <<created, exited, actors, lease, quarantine, quarantined, actorVars, todo>>
    BY <1>6 DEF CleanRefused, Cleaned, BlockUID, UnblockUID
  <2>2. \A d \in Client : Joining(d) /\ job[d].actor \in Live => job[d].uid \notin blocked'
    <3>1. blocked' \subseteq blocked \/ (MayFail(job[Sup].uid) /\ blocked' = blocked \cup {job[Sup].uid})
      BY <1>6 DEF CleanRefused, Cleaned, BlockUID, UnblockUID
    <3>2. MayFail(job[Sup].uid) => \A d \in Client : Joining(d) => job[d].uid # job[Sup].uid
      BY DEF MayFail, Attaching, Joining
    <3> QED BY <1>b, <3>1, <3>2
  <2>3. pc'[Sup] = "idle" BY <1>s, <2>1, GoFacts
  <2>4. SupPlaces' /\ ReleaseInv' BY <2>3 DEF SupPlaces, ReleaseInv
  <2>5. SupGoesOn BY <1>u, <2>1, <2>2, GoesOn
  <2> QED BY <2>4, <2>5, SupMoves
<1>7. CASE AssignAnswer
  <2>1. pc[Sup] = "wait" /\ reply[Sup].ready /\ job[Sup].op = "assign" /\ Go(Sup, "idle")
        /\ UNCHANGED <<actorVars, drain, supVars>>
    BY <1>7 DEF AssignAnswer, Answered, At
  <2>2. pc'[Sup] = "idle" BY <1>s, <2>1, GoFacts
  <2>3. SupPlaces' /\ ReleaseInv' BY <2>2 DEF SupPlaces, ReleaseInv
  <2>4. CASE reply[Sup].ok
    <3>1. UNCHANGED ledgerVars BY <1>7, <2>4 DEF AssignAnswer
    <3>2. SupGoesOn BY <1>b, <1>u, <2>1, <3>1, GoesOn
    <3> QED BY <2>3, <3>2, SupMoves
  <2>5. CASE ~reply[Sup].ok
    <3>1. RemoveLeaseIfActor(job[Sup].uid, job[Sup].actor) BY <1>7, <2>5 DEF AssignAnswer
    <3>2. /\ \A v \in Uid : lease'[v] = lease[v] \/ (v = job[Sup].uid /\ lease[v] = job[Sup].actor /\ lease'[v] = None)
          /\ UNCHANGED <<created, exited, actors, blocked, quarantine, quarantined>>
      BY <1>r, <1>u, <3>1
    <3>3. Assigning(job[Sup]) BY <2>1, <2>5 DEF Assigning
    <3>4. uid[job[Sup].actor] # job[Sup].uid BY <1>0, <1>i, <3>3 DEF AssignInv
    <3>5. \A k \in todo : ~(Assigning(k) /\ k.uid = job[Sup].uid /\ k.actor = job[Sup].actor)
      <4>1. job[Sup] \notin todo BY <1>0, <1>s DEF AssignInv
      <4>2. \A k \in todo : k \in Job /\ job[Sup] \in Job BY <1>s DEF TypeOK, PoolTypeOK
      <4> QED BY <2>1, <4>1, <4>2, JobIs DEF Assigning
    <3>6. \A d \in Client : ~(Joining(d) /\ job[Sup].actor \in Live /\ job[d].uid = job[Sup].uid /\ job[d].actor = job[Sup].actor)
      BY <1>0, <1>i DEF JoinInv
    <3>7. SupGoesOn BY <1>b, <1>u, <2>1, <3>2, <3>4, <3>5, <3>6, GoesOn
    <3> QED BY <2>3, <3>7, SupMoves
  <2> QED BY <2>4, <2>5
<1> QED BY <1>1, <1>2, <1>3, <1>4, <1>5, <1>6, <1>7 DEF SupJobStep

\* Every step of the supervisor's tick.
LEMMA CalmSupStep == ASSUME Faults = {}, TypeOK, LedgerInv, CalmInv, SupStep PROVE CalmInv'
<1> USE DEF callState, leaseState, actorState, callVars, supVars, actorVars, ledgerVars, indexVars, exitVars
<1>1. CASE Tick
  <2>1. Reaped(Dead(TRUE), {}) BY <1>1 DEF Tick, ReapDoneDraining, ReapSet, Reaped, Dead
  <2> QED BY <1>1, <2>1, ReapInv DEF Tick
<1>2. CASE EndPhase BY <1>2, StillInv DEF EndPhase
<1>3. CASE StopAll BY <1>3, StillInv DEF StopAll, BeginDrain
<1>4. CASE StopSome BY <1>4, StillInv DEF StopSome, BeginDrain
<1>5. CASE Adopt BY <1>5, StillInv DEF Adopt
<1>6. CASE Snapshot BY <1>6, SnapshotInv
<1>7. ASSUME NEW n \in 0 .. MaxTarget, Maintain(n) PROVE CalmInv'
  <2>1. UNCHANGED <<callState, actorState, active, apc>> BY <1>7 DEF Maintain
  <2>2. PICK new, extra : EnsureSlots(new, extra) BY <1>7 DEF Maintain
  <2>3. Reaped(Dead(FALSE), new) BY <2>2 DEF EnsureSlots, Unused, Reaped, Dead
  <2> QED BY <2>1, <2>3, ReapInv
<1>8. ASSUME NEW i \in todo, ItemStep(i) PROVE CalmInv' BY <1>8, CalmItemStep
<1>9. CASE SupJobStep BY <1>9, CalmSupJobStep
<1> QED BY <1>1, <1>2, <1>3, <1>4, <1>5, <1>6, <1>7, <1>8, <1>9 DEF SupStep, SupJobStep

\* A new pool has no actors, no leases and no calls.
LEMMA CalmInit == ASSUME Init PROVE CalmInv
<1>1. /\ Live = {} /\ Items = {} /\ \A p \in Caller : pc[p] = "idle"
      /\ \A a \in Slot : uid[a] = None /\ ctrls[a] = <<>> /\ cur[a] = NoCtrl
  <2>1. Sup \in Caller BY DEF Caller
  <2> QED BY <2>1 DEF Init, NewLedger, Live, Items
<1>2. Sup \in Caller /\ \A c \in Client : c \in Caller BY DEF Caller
<1>3. pc[Sup] = "idle" /\ \A c \in Client : pc[c] = "idle" BY <1>1, <1>2
<1>4. CreatedInv BY <1>1, <1>3 DEF CreatedInv, Init, NewLedger
<1>5. HeldInv BY <1>1 DEF HeldInv
<1>6. JoinInv BY <1>3 DEF JoinInv, Joining
<1>7. AssignInv BY <1>1, <1>3 DEF AssignInv
<1>8. ReleaseInv BY <1>3 DEF ReleaseInv
<1>9. PlaceInv BY <1>3 DEF PlaceInv
<1>10. CtrlInv BY <1>1 DEF CtrlInv
<1>11. SessionInv BY DEF SessionInv, Init
<1> QED BY <1>4, <1>5, <1>6, <1>7, <1>8, <1>9, <1>10, <1>11 DEF CalmInv

\* Every step of the calm pool keeps the invariant.
LEMMA CalmStep ==
    ASSUME Faults = {}, TypeOK, LedgerInv, CalmInv, [Next]_poolVars PROVE TypeOK' /\ LedgerInv' /\ CalmInv'
<1>1. TypeOK' /\ LedgerInv' BY PoolStep
<1>2. CASE Next
  <2>1. ASSUME NEW u \in Uid, SessionDrops(u) PROVE CalmInv'
    BY <2>1, StillInv DEF SessionDrops, callState, leaseState, actorState, callVars, supVars, ledgerVars, indexVars, exitVars
  <2>2. ASSUME NEW p \in Caller, Send(p) \/ GaveUp(p) PROVE CalmInv' BY <2>2, SendInv, GaveUpInv
  <2> QED BY <1>1, <1>2, <2>1, <2>2, CalmActorStep, DrainInv, CalmSupStep, CalmClientStep DEF Next
<1>3. CASE UNCHANGED poolVars
  BY <1>1, <1>3, StillInv DEF poolVars, callState, leaseState, actorState, callVars, supVars, actorVars, ledgerVars, indexVars, exitVars
<1> QED BY <1>2, <1>3

\* What the invariant is for.
LEMMA CalmMeans ==
    ASSUME TypeOK, LedgerInv, CalmInv PROVE UniqueDriver /\ HeldNotReusable /\ ActiveNotReusable
<1>1. Live \subseteq Slot BY CalmTypes DEF Live
<1>2. UniqueDriver BY <1>1, LiveHolds DEF UniqueDriver
<1>3. HeldNotReusable BY <1>1, LiveHolds, CalmTypes DEF HeldNotReusable, NotReusable, Leased
<1>4. ActiveNotReusable BY CalmTypes DEF ActiveNotReusable, NotReusable, Leased, CalmInv, SessionInv, LedgerInv, QuarantineHeld
<1> QED BY <1>2, <1>3, <1>4

\* While controls are answered in time, no runtime call panics and no account is
\* lost, two actors never drive the same uid, for any number of actors, uids,
\* requests and queue slots: TryLeaseUID, handleControl, recycleActorUID and
\* releaseBrokenLeases hand a uid on only after its driver has let go of it.
THEOREM PoolUniqueDriver == ASSUME Faults = {} PROVE Spec => []UniqueDriver
<1>1. Init => TypeOK /\ LedgerInv /\ CalmInv BY PoolInit, CalmInit
<1>2. TypeOK /\ LedgerInv /\ CalmInv /\ [Next]_poolVars => (TypeOK /\ LedgerInv /\ CalmInv)' BY CalmStep
<1>3. TypeOK /\ LedgerInv /\ CalmInv => UniqueDriver BY CalmMeans
<1> QED BY <1>1, <1>2, <1>3, PTL DEF Spec

\* In the same world a uid that an actor still holds, or whose game session is
\* open, is never leasable ("stuck uid was reusable before actor exit"): it is
\* leased, or blocked because the quarantine has it.
THEOREM PoolNotReusable == ASSUME Faults = {} PROVE Spec => [](HeldNotReusable /\ ActiveNotReusable)
<1>1. Init => TypeOK /\ LedgerInv /\ CalmInv BY PoolInit, CalmInit
<1>2. TypeOK /\ LedgerInv /\ CalmInv /\ [Next]_poolVars => (TypeOK /\ LedgerInv /\ CalmInv)' BY CalmStep
<1>3. TypeOK /\ LedgerInv /\ CalmInv => HeldNotReusable /\ ActiveNotReusable BY CalmMeans
<1> QED BY <1>1, <1>2, <1>3, PTL DEF Spec

CalmWorld == world = "calm" => TypeOK /\ LedgerInv /\ CalmInv

\* The same of the specification TLC runs, where a faulty world lies beside the
\* calm one: what a live actor holds, or has a session for, no AttachUID and no
\* acquireUIDs can lease again.
THEOREM PoolCalmNotReusable == ASSUME Faults = {} PROVE MCSpec => []CalmNotReusable
<1>1. MCInit => CalmWorld BY PoolInit, CalmInit DEF MCInit, CalmWorld
<1>2. CalmWorld /\ [MCNext]_mcVars => CalmWorld'
  <2> SUFFICES ASSUME CalmWorld, [MCNext]_mcVars, world' = "calm" PROVE TypeOK' /\ LedgerInv' /\ CalmInv'
    BY DEF CalmWorld
  <2>1. world = "calm" /\ [Next]_poolVars BY DEF MCNext, mcVars
  <2> QED BY <2>1, CalmStep DEF CalmWorld
<1>3. CalmWorld => CalmNotReusable BY CalmMeans DEF CalmWorld, CalmNotReusable
<1> QED BY <1>1, <1>2, <1>3, PTL DEF MCSpec
=============================================================================
