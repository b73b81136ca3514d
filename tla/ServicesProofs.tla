--------------------------- MODULE ServicesProofs ---------------------------
(***************************************************************************)
(* What the services of the robot program (module Services) promise for    *)
(* all values of their constants: the manager's operations and its         *)
(* shutdown, the mail notification, the key pair and its cached status,    *)
(* the patches of the running game, the TCP API.                           *)
(*                                                                         *)
(* What a component needs of its constants is the hypothesis of its        *)
(* theorems.                                                               *)
(***************************************************************************)
EXTENDS Services, Integers, Sequences, FiniteSets, FiniteSetTheorems, SequenceTheorems,
        WellFoundedInduction, NaturalsInduction, TLAPS

-----------------------------------------------------------------------------
(* Numbers.                                                                *)

\* A nonempty set of natural numbers that has a bound has a greatest element.
LEMMA GreatestNat ==
    ASSUME NEW n \in Nat, NEW S, S \subseteq 0 .. n, S # {}
    PROVE  \E k \in S : \A j \in S : j <= k
<1> DEFINE D == {n - i : i \in S}
<1>1. D \subseteq Nat /\ D # {}
  <2>1. \A i \in S : n - i \in Nat
    OBVIOUS
  <2> QED BY <2>1
<1>2. PICK d \in D : \A e \in D : <<e, d>> \notin OpToRel(<, Nat)
  BY <1>1, NatLessThanWellFounded, WFMin
<1>3. \A e \in D : ~(e < d)
  BY <1>1, <1>2 DEF OpToRel
<1>4. PICK k \in S : d = n - k
  OBVIOUS
<1>5. \A j \in S : j <= k
  BY <1>3, <1>4
<1> QED BY <1>5

\* A nonempty set of natural numbers has a least element.
LEMMA LeastNat == ASSUME NEW S, S \subseteq Nat, S # {} PROVE \E k \in S : \A j \in S : k <= j
<1>1. PICK k \in S : \A j \in S : <<j, k>> \notin OpToRel(<, Nat)
  BY NatLessThanWellFounded, WFMin
<1>2. \A j \in S : ~(j < k)
  BY <1>1 DEF OpToRel
<1> QED BY <1>2

-----------------------------------------------------------------------------
(* ManagerOps: structural operations and the shutdown.                     *)

MgrPc == {"idle", "lock", "refused", "body", "gone", "finish", "finish2", "prepare",
          "leave", "command", "container", "attach"}
MgrReq == [pc : MgrPc, kind : Kinds \cup {"none"}, uid : Uid \cup {0}, id : Nat]
MgrEntry == [id : Nat, structural : BOOLEAN, running : BOOLEAN]
MgrActor == [mode : {"none", "manual", "auto"}, live : BOOLEAN, drain : BOOLEAN,
             stop : BOOLEAN, stuck : BOOLEAN]
MgrTypeOK ==
    /\ req \in [Req -> MgrReq]
    /\ rw \in [writer : Req \cup {0}, readers : SUBSET Req, waiting : SUBSET Req]
    /\ ops \in Seq(MgrEntry)
    /\ nextId \in Nat
    /\ act \in [Uid -> MgrActor]
    /\ err \in BOOLEAN /\ lost \in BOOLEAN

\* The pcs in which a structural operation has mutationMu, and those of them in which
\* its entry of the list still says that it runs.
MgrHolds == {"body", "gone", "finish", "finish2"}
MgrRuns == {"body", "gone", "finish"}

MgrWriterHolds == \A r \in Req : req[r].pc \in MgrHolds => rw.writer = r

MgrEntryOwned(e) ==
    e.running /\ e.structural =>
        \E r \in Req : rw.writer = r /\ req[r].id = e.id /\ req[r].pc \in MgrRuns

MgrOpsOwned == \A i \in 1 .. Len(ops) : MgrEntryOwned(ops[i])

MgrOpsInv == MgrTypeOK /\ MgrWriterHolds /\ MgrOpsOwned /\ Manager!NeverRefused

\* The two operations on the list of operations keep it a list.
LEMMA MgrBeginType ==
    ASSUME ListMax \in Nat, ops \in Seq(MgrEntry), nextId \in Nat,
           NEW s \in BOOLEAN, Manager!BeginOperationGuarded(s)
    PROVE  /\ ops' \in Seq(MgrEntry) /\ nextId' \in Nat
           /\ \A i \in 1 .. Len(ops') :
                \/ ops'[i] = [id |-> nextId, structural |-> s, running |-> TRUE]
                \/ \E j \in 1 .. Len(ops) : ops'[i] = ops[j]
<1> DEFINE e == [id |-> nextId, structural |-> s, running |-> TRUE]
           list == <<e>> \o ops
           n == IF Len(list) < ListMax THEN Len(list) ELSE ListMax
<1>1. e \in MgrEntry
  BY DEF MgrEntry
<1>2. ops' = SubSeq(list, 1, n) /\ nextId' = nextId + 1
  BY DEF Manager!BeginOperationGuarded
<1>3. <<e>> \in Seq(MgrEntry) /\ Len(<<e>>) = 1 /\ <<e>>[1] = e
  BY <1>1
<1> HIDE DEF e
<1>4. list \in Seq(MgrEntry) /\ Len(list) = 1 + Len(ops) /\ Len(ops) \in Nat
  BY <1>3
<1>5. \A i \in 1 .. Len(list) : list[i] = IF i = 1 THEN e ELSE ops[i - 1]
  BY <1>3, <1>4
<1> HIDE DEF list
<1>6. n \in Nat /\ n <= Len(list)
  BY <1>4
<1> HIDE DEF n
<1>7. ops' \in Seq(MgrEntry) /\ Len(ops') = n /\ \A i \in 1 .. n : ops'[i] = list[i]
  BY <1>2, <1>4, <1>6
<1>8. ASSUME NEW i \in 1 .. Len(ops')
      PROVE  ops'[i] = e \/ \E j \in 1 .. Len(ops) : ops'[i] = ops[j]
  <2>1. i \in 1 .. Len(list) /\ ops'[i] = list[i]
    BY <1>4, <1>6, <1>7
  <2>2. CASE i = 1
    BY <2>1, <2>2, <1>5
  <2>3. CASE i # 1
    <3>1. i - 1 \in 1 .. Len(ops)
      BY <2>1, <2>3, <1>4
    <3> QED BY <2>1, <2>3, <3>1, <1>5
  <2> QED BY <2>2, <2>3
<1>9. nextId' \in Nat
  BY <1>2
<1> QED BY <1>7, <1>8, <1>9 DEF e

\* Completing an operation keeps the list well typed.
LEMMA MgrCompleteType ==
    ASSUME ops \in Seq(MgrEntry), NEW id, Manager!CompleteOperation(id)
    PROVE  /\ ops' \in Seq(MgrEntry) /\ Len(ops') = Len(ops)
           /\ \A i \in 1 .. Len(ops) :
                ops'[i] = IF ops[i].id = id THEN [ops[i] EXCEPT !.running = FALSE] ELSE ops[i]
<1>1. Len(ops) \in Nat /\ DOMAIN ops = 1 .. Len(ops) /\ \A i \in 1 .. Len(ops) : ops[i] \in MgrEntry
  OBVIOUS
<1> DEFINE f(i) == IF ops[i].id = id THEN [ops[i] EXCEPT !.running = FALSE] ELSE ops[i]
<1>2. ops' = [i \in 1 .. Len(ops) |-> f(i)]
  BY <1>1 DEF Manager!CompleteOperation
<1>3. \A i \in 1 .. Len(ops) : f(i) \in MgrEntry
  BY <1>1 DEF MgrEntry
<1> HIDE DEF f
<1>4. ops' \in Seq(MgrEntry) /\ Len(ops') = Len(ops)
  BY <1>1, <1>2, <1>3
<1> QED BY <1>2, <1>4 DEF f

\* Nothing runs at first.
LEMMA MgrInit == ASSUME Manager!Init PROVE MgrOpsInv
<1> USE DEF Manager!Init
<1>1. req \in [Req -> MgrReq]
  BY DEF MgrReq, MgrPc, Manager!Idle
<1>2. act \in [Uid -> MgrActor]
  BY DEF MgrActor, Manager!NoActor
<1>3. ops \in Seq(MgrEntry) /\ nextId \in Nat /\ rw \in [writer : Req \cup {0}, readers : SUBSET Req, waiting : SUBSET Req]
  OBVIOUS
<1>4. MgrTypeOK
  BY <1>1, <1>2, <1>3 DEF MgrTypeOK
<1>5. MgrWriterHolds /\ MgrOpsOwned /\ Manager!NeverRefused
  BY DEF MgrWriterHolds, MgrOpsOwned, MgrHolds, Manager!Idle, Manager!NeverRefused
<1> QED BY <1>4, <1>5 DEF MgrOpsInv

\* A step that changes no request's pc out of or into the pcs that hold mutationMu,
\* and neither the list nor the lock, changes nothing of the operations.
LEMMA MgrQuietStep ==
    ASSUME MgrOpsInv, UNCHANGED <<ops, rw, nextId>>,
           req' \in [Req -> MgrReq], act' \in [Uid -> MgrActor],
           err' \in BOOLEAN, lost' \in BOOLEAN,
           \A q \in Req : /\ req'[q].id = req[q].id
                          /\ req'[q].pc # "refused"
                          /\ req[q].pc \in MgrRuns => req'[q].pc \in MgrRuns
                          /\ req'[q].pc \in MgrHolds => req[q].pc \in MgrHolds
    PROVE  MgrOpsInv'
<1>1. MgrTypeOK'
  BY DEF MgrOpsInv, MgrTypeOK
<1>2. MgrWriterHolds'
  BY DEF MgrOpsInv, MgrWriterHolds
<1>3. MgrOpsOwned'
  BY DEF MgrOpsInv, MgrOpsOwned, MgrEntryOwned
<1>4. Manager!NeverRefused'
  BY DEF Manager!NeverRefused
<1> QED BY <1>1, <1>2, <1>3, <1>4 DEF MgrOpsInv

\* The same for a step of one request.
LEMMA MgrPcStep ==
    ASSUME MgrOpsInv, UNCHANGED <<ops, rw, nextId, err, lost>>,
           NEW r \in Req, NEW pc \in MgrPc \ {"refused"}, Manager!To(r, pc),
           act' \in [Uid -> MgrActor],
           req[r].pc \in MgrRuns => pc \in MgrRuns,
           pc \in MgrHolds => req[r].pc \in MgrHolds
    PROVE  MgrOpsInv'
<1>1. req \in [Req -> MgrReq] /\ req' = [req EXCEPT ![r] = [req[r] EXCEPT !.pc = pc]]
  BY DEF MgrOpsInv, MgrTypeOK, Manager!To
<1>2. req' \in [Req -> MgrReq]
  BY <1>1 DEF MgrReq
<1>3. \A q \in Req : req'[q].id = req[q].id /\ req'[q].pc = IF q = r THEN pc ELSE req[q].pc
  BY <1>1 DEF MgrReq
<1>4. \A q \in Req : req[q].pc # "refused"
  BY DEF MgrOpsInv, Manager!NeverRefused
<1>5. err' \in BOOLEAN /\ lost' \in BOOLEAN
  BY DEF MgrOpsInv, MgrTypeOK
<1> QED BY <1>2, <1>3, <1>4, <1>5, MgrQuietStep

\* The supervisor's steps leave requests and operations alone.
LEMMA MgrActors ==
    ASSUME MgrTypeOK
    PROVE  /\ \A S : Manager!DrainAll(S) \in [Uid -> MgrActor]
           /\ \A u : Manager!Drain(u) \in [Uid -> MgrActor]
           /\ Manager!Reaped \in [Uid -> MgrActor]
           /\ Manager!NoActor \in MgrActor
<1>1. \A u \in Uid : act[u] \in MgrActor
  BY DEF MgrTypeOK
<1>2. Manager!NoActor \in MgrActor
  BY DEF MgrActor, Manager!NoActor
<1>3. \A u \in Uid : [act[u] EXCEPT !.drain = TRUE, !.stop = TRUE] \in MgrActor
  BY <1>1 DEF MgrActor
<1>4. \A S : Manager!DrainAll(S) \in [Uid -> MgrActor]
  BY <1>1, <1>3 DEF Manager!DrainAll
<1>5. ASSUME NEW u PROVE Manager!Drain(u) \in [Uid -> MgrActor]
  <2>1. act \in [Uid -> MgrActor]
    BY DEF MgrTypeOK
  <2>2. CASE u \in Uid
    <3>1. Manager!Drain(u) = [act EXCEPT ![u] = [act[u] EXCEPT !.drain = TRUE, !.stop = TRUE]]
      BY <2>1, <2>2, <1>1 DEF Manager!Drain, MgrActor
    <3> QED BY <2>1, <2>2, <3>1, <1>3
  <2>3. CASE u \notin Uid
    BY <2>1, <2>3 DEF Manager!Drain
  <2> QED BY <2>2, <2>3
<1>6. Manager!Reaped \in [Uid -> MgrActor]
  BY <1>1, <1>2 DEF Manager!Reaped
<1> QED BY <1>2, <1>4, <1>5, <1>6

\* A request comes in.
LEMMA MgrRequest ==
    ASSUME ListMax \in Nat, MgrOpsInv, NEW r \in Req, Manager!Request(r) PROVE MgrOpsInv'
<1>0. MgrTypeOK /\ MgrWriterHolds /\ MgrOpsOwned /\ Manager!NeverRefused
  BY DEF MgrOpsInv
<1>1. req[r].pc = "idle" /\ UNCHANGED <<act, err, lost>>
  BY DEF Manager!Request, Manager!Idle, Manager!supVars
<1>2. PICK kind \in Kinds, u \in Uid :
        /\ req' = [req EXCEPT ![r] = [pc |-> "lock", kind |-> kind, uid |-> u,
                                      id |-> IF kind \in Manager!structural THEN 0 ELSE nextId]]
        /\ IF kind \in Manager!structural
           THEN rw' = [rw EXCEPT !.waiting = @ \cup {r}] /\ UNCHANGED <<ops, nextId>>
           ELSE Manager!BeginOperationGuarded(FALSE) /\ UNCHANGED rw
  BY DEF Manager!Request
<1>3. req' \in [Req -> MgrReq] /\ \A q \in Req : q # r => req'[q] = req[q]
  BY <1>0, <1>2 DEF MgrTypeOK, MgrReq, MgrPc
<1>4. req'[r].pc = "lock"
  BY <1>0, <1>2 DEF MgrTypeOK
<1>5. /\ rw' \in [writer : Req \cup {0}, readers : SUBSET Req, waiting : SUBSET Req]
      /\ rw'.writer = rw.writer
  <2>1. rw' = [rw EXCEPT !.waiting = @ \cup {r}] \/ rw' = rw
    BY <1>2
  <2>2. rw \in [writer : Req \cup {0}, readers : SUBSET Req, waiting : SUBSET Req]
    BY <1>0 DEF MgrTypeOK
  <2> QED BY <2>1, <2>2
<1>6. /\ ops' \in Seq(MgrEntry) /\ nextId' \in Nat
      /\ \A i \in 1 .. Len(ops') : ~ops'[i].structural \/ \E j \in 1 .. Len(ops) : ops'[i] = ops[j]
  <2>1. ops \in Seq(MgrEntry) /\ nextId \in Nat
    BY <1>0 DEF MgrTypeOK
  <2>2. CASE kind \in Manager!structural
    BY <1>2, <2>1, <2>2
  <2>3. CASE kind \notin Manager!structural
    <3>1. Manager!BeginOperationGuarded(FALSE)
      BY <1>2, <2>3
    <3>2. /\ ops' \in Seq(MgrEntry) /\ nextId' \in Nat
          /\ \A i \in 1 .. Len(ops') :
               \/ ops'[i] = [id |-> nextId, structural |-> FALSE, running |-> TRUE]
               \/ \E j \in 1 .. Len(ops) : ops'[i] = ops[j]
      BY <2>1, <3>1, MgrBeginType
    <3> QED BY <3>2
  <2> QED BY <2>2, <2>3
<1>7. MgrTypeOK'
  BY <1>0, <1>1, <1>3, <1>5, <1>6 DEF MgrTypeOK
<1>8. MgrWriterHolds' /\ Manager!NeverRefused'
  BY <1>0, <1>3, <1>4, <1>5 DEF MgrWriterHolds, MgrHolds, Manager!NeverRefused
<1>9. MgrOpsOwned'
  BY <1>0, <1>1, <1>3, <1>5, <1>6 DEF MgrOpsOwned, MgrEntryOwned, MgrRuns
<1> QED BY <1>7, <1>8, <1>9 DEF MgrOpsInv

\* A free lock means that no entry runs: the guard finds no conflict.
LEMMA MgrFree == ASSUME MgrOpsInv, 0 \notin Req, rw.writer = 0 PROVE ~Manager!Conflict(ops)
<1>1. DOMAIN ops = 1 .. Len(ops)
  BY DEF MgrOpsInv, MgrTypeOK
<1> QED BY <1>1 DEF MgrOpsInv, MgrOpsOwned, MgrEntryOwned, Manager!Conflict

\* A structural operation enters the list.
LEMMA MgrBeginTracked ==
    ASSUME ListMax \in Nat, 0 \notin Req, MgrOpsInv, NEW r \in Req,
           Manager!beginTrackedStructuralOperation(r)
    PROVE  MgrOpsInv'
<1>0. MgrTypeOK /\ MgrWriterHolds /\ MgrOpsOwned /\ Manager!NeverRefused
  BY DEF MgrOpsInv
<1>1. rw.writer = 0 /\ UNCHANGED <<act, err, lost>>
  BY DEF Manager!beginTrackedStructuralOperation, Manager!supVars
<1>2. ~Manager!Conflict(ops)
  BY <1>1, MgrFree
<1>3. /\ req' = [req EXCEPT ![r].pc = "body", ![r].id = nextId]
      /\ rw' = [rw EXCEPT !.waiting = @ \ {r}, !.writer = r]
      /\ Manager!BeginOperationGuarded(TRUE)
  BY <1>2 DEF Manager!beginTrackedStructuralOperation
<1>4. req' = [req EXCEPT ![r] = [req[r] EXCEPT !.pc = "body", !.id = nextId]]
  BY <1>0, <1>3 DEF MgrTypeOK, MgrReq
<1>5. req' \in [Req -> MgrReq] /\ \A q \in Req : q # r => req'[q] = req[q]
  BY <1>0, <1>4 DEF MgrTypeOK, MgrReq, MgrPc
<1>6. req'[r].pc = "body" /\ req'[r].id = nextId
  BY <1>0, <1>4 DEF MgrTypeOK, MgrReq
<1>7. /\ rw' \in [writer : Req \cup {0}, readers : SUBSET Req, waiting : SUBSET Req]
      /\ rw'.writer = r
  BY <1>0, <1>3 DEF MgrTypeOK
<1>8. /\ ops' \in Seq(MgrEntry) /\ nextId' \in Nat
      /\ \A i \in 1 .. Len(ops') : ops'[i].id = nextId \/ \E j \in 1 .. Len(ops) : ops'[i] = ops[j]
  <2>1. ops \in Seq(MgrEntry) /\ nextId \in Nat
    BY <1>0 DEF MgrTypeOK
  <2>2. /\ ops' \in Seq(MgrEntry) /\ nextId' \in Nat
        /\ \A i \in 1 .. Len(ops') :
             \/ ops'[i] = [id |-> nextId, structural |-> TRUE, running |-> TRUE]
             \/ \E j \in 1 .. Len(ops) : ops'[i] = ops[j]
    BY <1>3, <2>1, MgrBeginType
  <2> QED BY <2>2
<1>9. \A j \in 1 .. Len(ops) : ~(ops[j].running /\ ops[j].structural)
  BY <1>0, <1>2 DEF Manager!Conflict, MgrTypeOK
<1>10. MgrTypeOK'
  BY <1>0, <1>1, <1>5, <1>7, <1>8 DEF MgrTypeOK
<1>11. MgrWriterHolds'
  BY <1>0, <1>1, <1>5, <1>7 DEF MgrWriterHolds, MgrHolds
<1>12. Manager!NeverRefused'
  BY <1>0, <1>5, <1>6 DEF Manager!NeverRefused
<1>13. MgrOpsOwned'
  BY <1>6, <1>7, <1>8, <1>9 DEF MgrOpsOwned, MgrEntryOwned, MgrRuns
<1> QED BY <1>10, <1>11, <1>12, <1>13 DEF MgrOpsInv

\* CompleteOperation stops entries and starts none.
LEMMA MgrFinish ==
    ASSUME 0 \notin Req, MgrOpsInv, NEW r \in Req, Manager!Finish(r) PROVE MgrOpsInv'
<1>0. MgrTypeOK /\ MgrWriterHolds /\ MgrOpsOwned /\ Manager!NeverRefused
  BY DEF MgrOpsInv
<1>1. UNCHANGED <<act, err, lost, nextId>> /\ rw.writer = r
  BY <1>0 DEF Manager!Finish, Manager!supVars, MgrWriterHolds, MgrHolds
<1>2. CASE req[r].pc = "finish"
  <2>1. Manager!CompleteOperation(req[r].id) /\ UNCHANGED rw
    BY <1>2 DEF Manager!Finish, Manager!FinishStep, Manager!FinishOrder
  <2>2. req' = [req EXCEPT ![r] = [req[r] EXCEPT !.pc = "finish2"]]
    BY <1>2 DEF Manager!Finish
  <2>3. req' \in [Req -> MgrReq] /\ \A q \in Req : q # r => req'[q] = req[q]
    BY <1>0, <2>2 DEF MgrTypeOK, MgrReq, MgrPc
  <2>4. req'[r].pc = "finish2"
    BY <1>0, <2>2 DEF MgrTypeOK, MgrReq
  <2>5. /\ ops' \in Seq(MgrEntry) /\ Len(ops') = Len(ops)
        /\ \A i \in 1 .. Len(ops) :
             ops'[i] = IF ops[i].id = req[r].id THEN [ops[i] EXCEPT !.running = FALSE] ELSE ops[i]
    BY <1>0, <2>1, MgrCompleteType DEF MgrTypeOK
  <2>6. MgrTypeOK'
    BY <1>0, <1>1, <2>1, <2>3, <2>5 DEF MgrTypeOK
  <2>7. MgrWriterHolds' /\ Manager!NeverRefused'
    BY <1>0, <1>1, <2>1, <2>3, <2>4 DEF MgrWriterHolds, MgrHolds, Manager!NeverRefused
  <2>8. ASSUME NEW i \in 1 .. Len(ops') PROVE ~(ops'[i].running /\ ops'[i].structural)
    <3>1. i \in 1 .. Len(ops) /\ ops[i] \in MgrEntry
      BY <1>0, <2>5 DEF MgrTypeOK
    <3>2. CASE ops[i].id = req[r].id
      <4>1. ~[ops[i] EXCEPT !.running = FALSE].running
        BY <3>1 DEF MgrEntry
      <4> QED BY <4>1, <3>1, <3>2, <2>5
    <3>3. CASE ops[i].id # req[r].id
      <4>1. ops'[i] = ops[i]
        BY <3>1, <3>3, <2>5
      <4> QED BY <1>0, <1>1, <3>1, <3>3, <4>1 DEF MgrOpsOwned, MgrEntryOwned
    <3> QED BY <3>2, <3>3
  <2>9. MgrOpsOwned'
    BY <2>8 DEF MgrOpsOwned, MgrEntryOwned
  <2> QED BY <2>6, <2>7, <2>9 DEF MgrOpsInv
<1>3. CASE req[r].pc = "finish2"
  <2>1. rw' = [rw EXCEPT !.writer = 0] /\ UNCHANGED ops
    BY <1>3 DEF Manager!Finish, Manager!FinishStep, Manager!FinishOrder
  <2>2. req' = [req EXCEPT ![r] = Manager!Idle]
    BY <1>3 DEF Manager!Finish
  <2>3. req' \in [Req -> MgrReq] /\ \A q \in Req : q # r => req'[q] = req[q]
    BY <1>0, <2>2 DEF MgrTypeOK, MgrReq, MgrPc, Manager!Idle
  <2>4. req'[r].pc = "idle"
    BY <1>0, <2>2 DEF MgrTypeOK, Manager!Idle
  <2>5. MgrTypeOK'
    BY <1>0, <1>1, <2>1, <2>3 DEF MgrTypeOK
  <2>6. MgrWriterHolds' /\ Manager!NeverRefused'
    BY <1>0, <1>1, <2>3, <2>4 DEF MgrWriterHolds, MgrHolds, Manager!NeverRefused
  <2>7. \A i \in 1 .. Len(ops) : ~(ops[i].running /\ ops[i].structural)
    BY <1>0, <1>1, <1>3 DEF MgrOpsOwned, MgrEntryOwned, MgrRuns
  <2>8. MgrOpsOwned'
    BY <2>1, <2>7 DEF MgrOpsOwned, MgrEntryOwned
  <2> QED BY <2>5, <2>6, <2>8 DEF MgrOpsInv
<1> QED BY <1>2, <1>3 DEF Manager!Finish

\* A request gives the lock back.
LEMMA MgrLeave ==
    ASSUME MgrOpsInv, NEW r \in Req, Manager!Leave(r) PROVE MgrOpsInv'
<1>0. MgrTypeOK /\ MgrWriterHolds /\ MgrOpsOwned /\ Manager!NeverRefused
  BY DEF MgrOpsInv
<1>1. /\ req[r].pc = "leave" /\ Manager!CompleteOperation(req[r].id)
      /\ rw' = [rw EXCEPT !.readers = @ \ {r}] /\ req' = [req EXCEPT ![r] = Manager!Idle]
      /\ UNCHANGED <<act, err, lost, nextId>>
  BY DEF Manager!Leave, Manager!supVars
<1>2. req' \in [Req -> MgrReq] /\ \A q \in Req : q # r => req'[q] = req[q]
  BY <1>0, <1>1 DEF MgrTypeOK, MgrReq, MgrPc, Manager!Idle
<1>3. req'[r].pc = "idle"
  BY <1>0, <1>1 DEF MgrTypeOK, Manager!Idle
<1>4. /\ rw' \in [writer : Req \cup {0}, readers : SUBSET Req, waiting : SUBSET Req]
      /\ rw'.writer = rw.writer
  BY <1>0, <1>1 DEF MgrTypeOK
<1>5. /\ ops' \in Seq(MgrEntry) /\ Len(ops') = Len(ops)
      /\ \A i \in 1 .. Len(ops) :
           ops'[i] = IF ops[i].id = req[r].id THEN [ops[i] EXCEPT !.running = FALSE] ELSE ops[i]
  BY <1>0, <1>1, MgrCompleteType DEF MgrTypeOK
<1>6. MgrTypeOK'
  BY <1>0, <1>1, <1>2, <1>4, <1>5 DEF MgrTypeOK
<1>7. MgrWriterHolds' /\ Manager!NeverRefused'
  BY <1>0, <1>2, <1>3, <1>4 DEF MgrWriterHolds, MgrHolds, Manager!NeverRefused
<1>8. ASSUME NEW i \in 1 .. Len(ops'), ops'[i].running /\ ops'[i].structural
      PROVE  \E q \in Req : rw'.writer = q /\ req'[q].id = ops'[i].id /\ req'[q].pc \in MgrRuns
  <2>1. i \in 1 .. Len(ops) /\ ops[i] \in MgrEntry
    BY <1>0, <1>5 DEF MgrTypeOK
  <2>2. ~[ops[i] EXCEPT !.running = FALSE].running
    BY <2>1 DEF MgrEntry
  <2>3. ops'[i] = ops[i]
    BY <1>5, <1>8, <2>1, <2>2
  <2>4. PICK q \in Req : rw.writer = q /\ req[q].id = ops[i].id /\ req[q].pc \in MgrRuns
    BY <1>0, <1>8, <2>1, <2>3 DEF MgrOpsOwned, MgrEntryOwned
  <2>5. q # r
    BY <1>1, <2>4 DEF MgrRuns
  <2> QED BY <1>2, <1>4, <2>3, <2>4, <2>5
<1>9. MgrOpsOwned'
  BY <1>8 DEF MgrOpsOwned, MgrEntryOwned
<1> QED BY <1>6, <1>7, <1>9 DEF MgrOpsInv

\* A reader gets the lock.
LEMMA MgrRLock ==
    ASSUME MgrOpsInv, NEW r \in Req, Manager!RLock(r) PROVE MgrOpsInv'
<1>0. MgrTypeOK /\ MgrWriterHolds /\ MgrOpsOwned /\ Manager!NeverRefused
  BY DEF MgrOpsInv
<1>1. /\ req[r].pc = "lock" /\ rw' = [rw EXCEPT !.readers = @ \cup {r}]
      /\ req' = [req EXCEPT ![r] = [req[r] EXCEPT !.pc = "prepare"]]
      /\ UNCHANGED <<act, err, lost, nextId, ops>>
  BY <1>0 DEF Manager!RLock, Manager!supVars, Manager!opVars, Manager!To, MgrTypeOK
<1>2. req' \in [Req -> MgrReq] /\ \A q \in Req : q # r => req'[q] = req[q]
  BY <1>0, <1>1 DEF MgrTypeOK, MgrReq, MgrPc
<1>3. req'[r].pc = "prepare"
  BY <1>0, <1>1 DEF MgrTypeOK, MgrReq
<1>4. /\ rw' \in [writer : Req \cup {0}, readers : SUBSET Req, waiting : SUBSET Req]
      /\ rw'.writer = rw.writer
  BY <1>0, <1>1 DEF MgrTypeOK
<1>5. MgrTypeOK'
  BY <1>0, <1>1, <1>2, <1>4 DEF MgrTypeOK
<1>6. MgrWriterHolds' /\ Manager!NeverRefused'
  BY <1>0, <1>2, <1>3, <1>4 DEF MgrWriterHolds, MgrHolds, Manager!NeverRefused
<1>7. MgrOpsOwned'
  BY <1>0, <1>1, <1>2, <1>4 DEF MgrOpsOwned, MgrEntryOwned, MgrRuns
<1> QED BY <1>5, <1>6, <1>7 DEF MgrOpsInv

\* The steps of a request that leave the lock and the list alone.
LEMMA MgrRequestSteps ==
    ASSUME MgrOpsInv, NEW r \in Req,
           \/ Manager!DangerousDelete(r) \/ Manager!cleanupRobots(r) \/ Manager!Deleted(r)
           \/ Manager!CreateRobots(r) \/ Manager!prepareUserActorCommand(r)
           \/ Manager!beginActorContainerOp(r) \/ Manager!AttachUID(r) \/ Manager!Command(r)
    PROVE  MgrOpsInv'
<1>0. MgrTypeOK /\ act \in [Uid -> MgrActor]
  BY DEF MgrOpsInv, MgrTypeOK
<1> USE DEF Manager!opVars, Manager!supVars, MgrPc, MgrRuns, MgrHolds
<1>1. CASE Manager!DangerousDelete(r)
  <2>1. act' \in [Uid -> MgrActor]
    BY <1>0, <1>1, MgrActors DEF Manager!DangerousDelete, Manager!StopUIDs
  <2> QED BY <1>1, <2>1, MgrPcStep DEF Manager!DangerousDelete
<1>2. CASE Manager!cleanupRobots(r)
  <2>1. act' \in [Uid -> MgrActor]
    BY <1>0, <1>2, MgrActors DEF Manager!cleanupRobots, Manager!StopUIDs
  <2> QED BY <1>2, <2>1, MgrPcStep DEF Manager!cleanupRobots
<1>3. CASE Manager!Deleted(r)
  BY <1>0, <1>3, MgrPcStep DEF Manager!Deleted
<1>4. CASE Manager!CreateRobots(r)
  BY <1>0, <1>4, MgrPcStep DEF Manager!CreateRobots
<1>5. CASE Manager!prepareUserActorCommand(r)
  <2>1. PICK pc \in {"leave", "command", "container"} : Manager!To(r, pc)
    BY <1>5 DEF Manager!prepareUserActorCommand
  <2> QED BY <1>0, <1>5, <2>1, MgrPcStep DEF Manager!prepareUserActorCommand
<1>6. CASE Manager!beginActorContainerOp(r)
  BY <1>0, <1>6, MgrPcStep DEF Manager!beginActorContainerOp
<1>7. CASE Manager!AttachUID(r)
  <2>1. PICK ok \in BOOLEAN, stuck \in BOOLEAN :
          /\ \/ act' = act
             \/ act' = [act EXCEPT ![req[r].uid] = [mode |-> "manual", live |-> TRUE, drain |-> ~ok,
                                                    stop |-> ~ok, stuck |-> stuck]]
          /\ Manager!To(r, IF ok THEN "command" ELSE "leave")
    BY <1>7 DEF Manager!AttachUID
  <2>2. [mode |-> "manual", live |-> TRUE, drain |-> ~ok, stop |-> ~ok, stuck |-> stuck] \in MgrActor
    BY DEF MgrActor
  <2>3. act' \in [Uid -> MgrActor]
    BY <1>0, <2>1, <2>2
  <2>4. PICK pc \in {"leave", "command"} : Manager!To(r, pc)
    BY <2>1
  <2> QED BY <1>7, <2>3, <2>4, MgrPcStep DEF Manager!AttachUID
<1>8. CASE Manager!Command(r)
  <2>1. act' \in [Uid -> MgrActor]
    BY <1>0, <1>8, MgrActors DEF Manager!Command
  <2> QED BY <1>8, <2>1, MgrPcStep DEF Manager!Command
<1> QED BY <1>1, <1>2, <1>3, <1>4, <1>5, <1>6, <1>7, <1>8

\* Steps of the actors, of the supervisor and of Shutdown touch no request and no
\* operation.
LEMMA MgrOtherSteps ==
    ASSUME MgrOpsInv,
           \/ \E on \in BOOLEAN : Manager!SetAutoEnabled(on)
           \/ \E u \in Uid : Manager!ActorExits(u) \/ Manager!SavePosition(u)
           \/ Manager!Supervise \/ Manager!Shutdown \/ Manager!stopAutoActions
    PROVE  MgrOpsInv'
<1>0. MgrTypeOK /\ Manager!NeverRefused
  BY DEF MgrOpsInv
<1> USE DEF Manager!opVars, Manager!supVars
<1>1. UNCHANGED <<req, rw, ops, nextId>>
  BY DEF Manager!SetAutoEnabled, Manager!ActorExits, Manager!SavePosition, Manager!Supervise,
    Manager!Shutdown, Manager!stopAutoActions, Manager!Tick, Manager!ConvergeBegins,
    Manager!ConvergeEnds, Manager!Guarded, Manager!Maintain, Manager!PressureBegins,
    Manager!PressureEnds, Manager!shutdownActors, Manager!forceCloseActors, Manager!Deadline,
    Manager!stoppedResult
<1>2. lost' \in BOOLEAN /\ err' \in BOOLEAN
  BY <1>0 DEF MgrTypeOK, Manager!SetAutoEnabled, Manager!ActorExits, Manager!SavePosition,
    Manager!Supervise, Manager!Shutdown, Manager!stopAutoActions, Manager!Tick,
    Manager!ConvergeBegins, Manager!ConvergeEnds, Manager!Guarded, Manager!Maintain,
    Manager!PressureBegins, Manager!PressureEnds, Manager!shutdownActors,
    Manager!forceCloseActors, Manager!Deadline, Manager!stoppedResult, Manager!TimedOut
<1>3. act' \in [Uid -> MgrActor]
  <2>0. act \in [Uid -> MgrActor]
    BY <1>0 DEF MgrTypeOK
  <2>1. CASE \/ \E on \in BOOLEAN : Manager!SetAutoEnabled(on)
             \/ \E u \in Uid : Manager!SavePosition(u)
             \/ Manager!Shutdown \/ Manager!stopAutoActions \/ Manager!ConvergeEnds \/ Manager!Guarded
    BY <2>0, <2>1 DEF Manager!SetAutoEnabled, Manager!SavePosition, Manager!Shutdown,
      Manager!stopAutoActions, Manager!ConvergeEnds, Manager!Guarded
  <2>2. CASE Manager!Tick \/ Manager!Deadline \/ Manager!stoppedResult
    BY <1>0, <2>2, MgrActors DEF Manager!Tick, Manager!Deadline, Manager!stoppedResult
  <2>3. CASE \/ Manager!ConvergeBegins \/ Manager!shutdownActors
             \/ \E u \in Uid : Manager!PressureBegins(u)
    BY <1>0, <2>3, MgrActors DEF Manager!ConvergeBegins, Manager!shutdownActors, Manager!PressureBegins
  <2>4. ASSUME NEW u \in Uid, Manager!ActorExits(u) PROVE act' \in [Uid -> MgrActor]
    <3>1. act' = [act EXCEPT ![u] = [act[u] EXCEPT !.live = FALSE]]
      BY <2>0, <2>4 DEF Manager!ActorExits
    <3> QED BY <2>0, <3>1 DEF MgrActor
  <2>5. CASE Manager!Maintain
    <3>1. PICK stuck \in BOOLEAN :
            act' = [u \in Uid |-> IF ~Manager!Registered(u)
                                  THEN [Manager!NoActor EXCEPT !.mode = "auto", !.live = TRUE, !.stuck = stuck]
                                  ELSE [act[u] EXCEPT !.mode = "auto"]]
      BY <2>5 DEF Manager!Maintain
    <3>2. [Manager!NoActor EXCEPT !.mode = "auto", !.live = TRUE, !.stuck = stuck] \in MgrActor
      BY DEF Manager!NoActor, MgrActor
    <3>3. \A u \in Uid : [act[u] EXCEPT !.mode = "auto"] \in MgrActor
      BY <2>0 DEF MgrActor
    <3> QED BY <3>1, <3>2, <3>3
  <2>6. CASE Manager!PressureEnds
    BY <1>0, <2>0, <2>6, MgrActors DEF Manager!PressureEnds
  <2>7. CASE Manager!forceCloseActors
    <3>1. \A u \in Uid : /\ Manager!Reaped[u] \in MgrActor
                         /\ [Manager!Reaped[u] EXCEPT !.stuck = FALSE] \in MgrActor
      BY <1>0, MgrActors DEF MgrActor
    <3> QED BY <2>7, <3>1 DEF Manager!forceCloseActors
  <2> QED BY <2>1, <2>2, <2>3, <2>4, <2>5, <2>6, <2>7 DEF Manager!Supervise
<1>4. req' \in [Req -> MgrReq] /\ \A q \in Req : req'[q].pc # "refused"
  BY <1>0, <1>1 DEF MgrTypeOK, Manager!NeverRefused
<1> QED BY <1>1, <1>2, <1>3, <1>4, MgrQuietStep

\* Nothing changes.
LEMMA MgrStutter == ASSUME MgrOpsInv, UNCHANGED Manager!vars PROVE MgrOpsInv'
  BY DEF Manager!vars, MgrOpsInv, MgrTypeOK, MgrWriterHolds, MgrOpsOwned, MgrEntryOwned,
    Manager!NeverRefused

\* Every step keeps the operations owned.
LEMMA MgrOpsStep ==
    ASSUME ListMax \in Nat, 0 \notin Req, MgrOpsInv, [Manager!Next]_Manager!vars PROVE MgrOpsInv'
<1>1. ASSUME NEW r \in Req,
             \/ Manager!Request(r) \/ Manager!beginTrackedStructuralOperation(r)
             \/ Manager!DangerousDelete(r) \/ Manager!cleanupRobots(r) \/ Manager!Deleted(r)
             \/ Manager!CreateRobots(r) \/ Manager!Finish(r) \/ Manager!RLock(r)
             \/ Manager!prepareUserActorCommand(r) \/ Manager!beginActorContainerOp(r)
             \/ Manager!AttachUID(r) \/ Manager!Command(r) \/ Manager!Leave(r)
      PROVE  MgrOpsInv'
  BY <1>1, MgrRequest, MgrBeginTracked, MgrFinish, MgrRLock, MgrLeave, MgrRequestSteps
<1> QED BY <1>1, MgrOtherSteps, MgrStutter DEF Manager!Next

\* What the shutdown relies on: when the supervisor begins to drain, no request runs
\* and none begins, what lives is in the ledger, and while it waits what lives is what
\* it waits for.
MgrNobody == press = 0 /\ \A u \in Uid : ~act[u].live
MgrLiveKnown == \A u \in Uid : act[u].live => Manager!Registered(u)
MgrLivePending == \A u \in Uid : act[u].live => u \in pend

MgrShutInv ==
    /\ act \in [Uid -> MgrActor] /\ err \in BOOLEAN /\ lost \in BOOLEAN
    /\ down \in {"no", "work", "auto", "ok", "err"}
    /\ down \in {"auto", "ok", "err"} => Manager!WorkDone
    /\ sup \in {"tick", "converge", "maintain", "grace", "deadline", "done"}
    /\ sup \in {"grace", "deadline", "done"} => down \in {"auto", "ok", "err"}
    /\ down \in {"ok", "err"} => sup = "done"
    /\ MgrLiveKnown
    /\ sup \in {"grace", "deadline"} => MgrLivePending
    /\ sup = "done" /\ ~err => MgrNobody
    /\ down = "ok" => ~err
    /\ down # "err" => ~lost

\* A step that lets no actor come alive and leaves the supervisor and Shutdown where
\* they are.
LEMMA MgrNoBirth ==
    ASSUME MgrShutInv, act' \in [Uid -> MgrActor],
           \A u \in Uid : act'[u].live => act[u].live /\ act'[u].mode # "none",
           Manager!WorkDone => Manager!WorkDone',
           press' \in {0, press}, UNCHANGED <<sup, pend, err, down, lost>>
    PROVE  MgrShutInv'
<1>1. MgrNobody => MgrNobody'
  BY DEF MgrNobody
<1>2. MgrLiveKnown'
  BY DEF MgrLiveKnown, Manager!Registered
<1>3. MgrLivePending => MgrLivePending'
  BY DEF MgrLivePending
<1> QED BY <1>1, <1>2, <1>3 DEF MgrShutInv

\* A step of a request that is under way: Shutdown still waits for it.
LEMMA MgrAtWork ==
    ASSUME MgrShutInv, act' \in [Uid -> MgrActor],
           \A u \in Uid : act'[u].live => act'[u].mode # "none",
           down = "no" \/ ~Manager!WorkDone,
           UNCHANGED <<sup, pend, press, err, down, lost>>
    PROVE  MgrShutInv'
<1>1. down \in {"no", "work"} /\ sup \notin {"grace", "deadline", "done"}
  BY DEF MgrShutInv
<1>2. MgrLiveKnown'
  BY DEF MgrLiveKnown, Manager!Registered
<1> QED BY <1>1, <1>2 DEF MgrShutInv

\* What a draining supervisor still has to end.
LEMMA MgrDrains ==
    ASSUME act \in [Uid -> MgrActor]
    PROVE  /\ \A S : \A u \in Uid : /\ Manager!DrainAll(S)[u].live = act[u].live
                                    /\ Manager!DrainAll(S)[u].mode = act[u].mode
           /\ \A v : \A u \in Uid : /\ Manager!Drain(v)[u].live = act[u].live
                                    /\ Manager!Drain(v)[u].mode = act[u].mode
<1>1. \A u \in Uid : /\ [act[u] EXCEPT !.drain = TRUE, !.stop = TRUE].live = act[u].live
                     /\ [act[u] EXCEPT !.drain = TRUE, !.stop = TRUE].mode = act[u].mode
  BY DEF MgrActor
<1>2. ASSUME NEW S, NEW u \in Uid
      PROVE  Manager!DrainAll(S)[u].live = act[u].live /\ Manager!DrainAll(S)[u].mode = act[u].mode
  BY <1>1 DEF Manager!DrainAll
<1>3. ASSUME NEW v, NEW u \in Uid
      PROVE  Manager!Drain(v)[u].live = act[u].live /\ Manager!Drain(v)[u].mode = act[u].mode
  <2>1. Manager!Drain(v)[u] = IF v = u THEN [act[u] EXCEPT !.drain = TRUE, !.stop = TRUE] ELSE act[u]
    BY DEF Manager!Drain, MgrActor
  <2> QED BY <1>1, <2>1
<1> QED BY <1>2, <1>3

\* A reaped actor is gone.
LEMMA MgrReaps ==
    ASSUME act \in [Uid -> MgrActor], NEW u \in Uid
    PROVE  Manager!Reaped[u].live = act[u].live /\ (Manager!Reaped[u].live => Manager!Reaped[u].mode = act[u].mode)
  BY DEF Manager!Reaped, MgrActor, Manager!NoActor

\* Requests during a shutdown.
LEMMA MgrShutRequests ==
    ASSUME MgrShutInv, MgrOpsInv', NEW r \in Req,
           \/ Manager!Request(r) \/ Manager!beginTrackedStructuralOperation(r)
           \/ Manager!DangerousDelete(r) \/ Manager!cleanupRobots(r) \/ Manager!Deleted(r)
           \/ Manager!CreateRobots(r) \/ Manager!Finish(r) \/ Manager!RLock(r)
           \/ Manager!prepareUserActorCommand(r) \/ Manager!beginActorContainerOp(r)
           \/ Manager!AttachUID(r) \/ Manager!Command(r) \/ Manager!Leave(r)
    PROVE  MgrShutInv'
<1>0. act' \in [Uid -> MgrActor] /\ act \in [Uid -> MgrActor]
  BY DEF MgrOpsInv, MgrTypeOK, MgrShutInv
<1>1. down = "no" \/ req[r].pc \notin {"idle", "refused"}
  BY DEF Manager!Request, Manager!beginTrackedStructuralOperation, Manager!DangerousDelete,
    Manager!cleanupRobots, Manager!Deleted, Manager!CreateRobots, Manager!Finish, Manager!RLock,
    Manager!prepareUserActorCommand, Manager!beginActorContainerOp, Manager!AttachUID,
    Manager!Command, Manager!Leave
<1>2. down = "no" \/ ~Manager!WorkDone
  BY <1>1 DEF Manager!WorkDone
<1>3. UNCHANGED <<sup, pend, press, err, down, lost>>
  BY DEF Manager!Request, Manager!beginTrackedStructuralOperation, Manager!DangerousDelete,
    Manager!cleanupRobots, Manager!Deleted, Manager!CreateRobots, Manager!Finish, Manager!RLock,
    Manager!prepareUserActorCommand, Manager!beginActorContainerOp, Manager!AttachUID,
    Manager!Command, Manager!Leave, Manager!supVars
<1>4. MgrLiveKnown
  BY DEF MgrShutInv
<1>5. ASSUME NEW u \in Uid, act'[u].live PROVE act'[u].mode # "none"
  <2>1. CASE act' = act
    BY <1>4, <1>5, <2>1 DEF MgrLiveKnown, Manager!Registered
  <2>2. ASSUME NEW v, act' = Manager!Drain(v) PROVE act'[u].mode # "none"
    BY <1>0, <1>4, <1>5, <2>2, MgrDrains DEF MgrLiveKnown, Manager!Registered
  <2>3. CASE Manager!AttachUID(r)
    <3>1. act' = act \/ \E ok, stuck \in BOOLEAN :
            act' = [act EXCEPT ![req[r].uid] = [mode |-> "manual", live |-> TRUE, drain |-> ~ok,
                                                stop |-> ~ok, stuck |-> stuck]]
      BY <2>3 DEF Manager!AttachUID
    <3>2. ASSUME NEW ok \in BOOLEAN, NEW stuck \in BOOLEAN,
                 act' = [act EXCEPT ![req[r].uid] = [mode |-> "manual", live |-> TRUE, drain |-> ~ok,
                                                     stop |-> ~ok, stuck |-> stuck]]
          PROVE  act'[u].mode # "none"
      <4>1. act'[u] = IF u = req[r].uid THEN [mode |-> "manual", live |-> TRUE, drain |-> ~ok,
                                              stop |-> ~ok, stuck |-> stuck]
                      ELSE act[u]
        BY <1>0, <3>2
      <4> QED BY <1>4, <1>5, <4>1 DEF MgrLiveKnown, Manager!Registered
    <3> QED BY <2>1, <3>1, <3>2
  <2>4. CASE ~Manager!AttachUID(r)
    <3>1. act' = act \/ act' = Manager!Drain(req[r].uid)
      BY <2>4 DEF Manager!Request, Manager!beginTrackedStructuralOperation, Manager!DangerousDelete,
        Manager!cleanupRobots, Manager!Deleted, Manager!CreateRobots, Manager!Finish, Manager!RLock,
        Manager!prepareUserActorCommand, Manager!beginActorContainerOp,
        Manager!Command, Manager!Leave, Manager!StopUIDs
    <3> QED BY <2>1, <2>2, <3>1
  <2> QED BY <2>3, <2>4
<1> QED BY <1>0, <1>2, <1>3, <1>5, MgrAtWork

\* Actors, the pressure worker and the shutdown itself.
LEMMA MgrShutOthers ==
    ASSUME MgrShutInv, MgrOpsInv',
           \/ \E on \in BOOLEAN : Manager!SetAutoEnabled(on)
           \/ \E u \in Uid : Manager!ActorExits(u) \/ Manager!SavePosition(u)
           \/ Manager!Supervise \/ Manager!Shutdown \/ Manager!stopAutoActions
    PROVE  MgrShutInv'
<1> USE DEF Manager!opVars, Manager!supVars
<1>0. act' \in [Uid -> MgrActor] /\ act \in [Uid -> MgrActor] /\ err' \in BOOLEAN
  BY DEF MgrOpsInv, MgrTypeOK, MgrShutInv
<1>a. \A u \in Uid : act[u].live => act[u].mode # "none"
  BY DEF MgrShutInv, MgrLiveKnown, Manager!Registered
<1>b. UNCHANGED req => (Manager!WorkDone => Manager!WorkDone')
  BY DEF Manager!WorkDone
<1>1. ASSUME NEW on \in BOOLEAN, Manager!SetAutoEnabled(on) PROVE MgrShutInv'
  BY <1>0, <1>a, <1>b, <1>1, MgrNoBirth DEF Manager!SetAutoEnabled
<1>2. ASSUME NEW v \in Uid, Manager!ActorExits(v) PROVE MgrShutInv'
  <2>1. act' = [act EXCEPT ![v] = [act[v] EXCEPT !.live = FALSE]]
    BY <1>0, <1>2 DEF Manager!ActorExits
  <2>2. \A u \in Uid : act'[u].live => act[u].live /\ act'[u].mode # "none"
    BY <1>0, <1>a, <2>1 DEF MgrActor
  <2> QED BY <1>0, <1>b, <1>2, <2>2, MgrNoBirth DEF Manager!ActorExits
<1>3. ASSUME NEW v \in Uid, Manager!SavePosition(v) PROVE MgrShutInv'
  <2>1. act[v].live /\ down \in {"ok", "err"} /\ lost' = TRUE
        /\ UNCHANGED <<act, req, sup, pend, press, err, down>>
    BY <1>3 DEF Manager!SavePosition
  <2>2. down = "err"
    BY <2>1 DEF MgrShutInv, MgrNobody
  <2> QED BY <1>b, <2>1, <2>2 DEF MgrShutInv, MgrLiveKnown, MgrNobody, Manager!Registered
<1>4. CASE Manager!Tick
  <2>1. \A u \in Uid : act'[u].live => act[u].live /\ act'[u].mode # "none"
    BY <1>0, <1>a, <1>4, MgrReaps DEF Manager!Tick
  <2> QED BY <1>0, <1>b, <1>4, <2>1, MgrNoBirth DEF Manager!Tick
<1>5. CASE Manager!ConvergeBegins
  <2>1. \A u \in Uid : act'[u].live => act'[u].mode # "none"
    BY <1>0, <1>a, <1>5, MgrDrains DEF Manager!ConvergeBegins
  <2>2. MgrLiveKnown'
    BY <2>1 DEF MgrLiveKnown, Manager!Registered
  <2> QED BY <1>0, <1>b, <1>5, <2>2 DEF Manager!ConvergeBegins, MgrShutInv
<1>6. CASE Manager!ConvergeEnds \/ Manager!Guarded
  BY <1>0, <1>b, <1>6 DEF Manager!ConvergeEnds, Manager!Guarded, MgrShutInv, MgrLiveKnown, Manager!Registered
<1>7. CASE Manager!Maintain
  <2>1. PICK stuck \in BOOLEAN :
          act' = [u \in Uid |-> IF ~Manager!Registered(u)
                                THEN [Manager!NoActor EXCEPT !.mode = "auto", !.live = TRUE, !.stuck = stuck]
                                ELSE [act[u] EXCEPT !.mode = "auto"]]
    BY <1>7 DEF Manager!Maintain
  <2>2. \A u \in Uid : act'[u].mode = "auto"
    BY <1>0, <2>1 DEF Manager!NoActor, MgrActor
  <2>3. MgrLiveKnown'
    BY <2>2 DEF MgrLiveKnown, Manager!Registered
  <2> QED BY <1>0, <1>b, <1>7, <2>3 DEF Manager!Maintain, MgrShutInv
<1>8. ASSUME NEW v \in Uid, Manager!PressureBegins(v) PROVE MgrShutInv'
  <2>1. \A u \in Uid : act'[u].live => act'[u].mode # "none"
    BY <1>0, <1>a, <1>8, MgrDrains DEF Manager!PressureBegins
  <2>2. MgrLiveKnown'
    BY <2>1 DEF MgrLiveKnown, Manager!Registered
  <2> QED BY <1>0, <1>b, <1>8, <2>2 DEF Manager!PressureBegins, MgrShutInv
<1>9. CASE Manager!PressureEnds
  <2>1. act' = act \/ act' = [act EXCEPT ![press] = Manager!NoActor]
    BY <1>9 DEF Manager!PressureEnds
  <2>2. ASSUME NEW u \in Uid PROVE act'[u] = act[u] \/ act'[u] = Manager!NoActor
    BY <1>0, <2>1
  <2>3. ~Manager!NoActor.live
    BY DEF Manager!NoActor
  <2>4. \A u \in Uid : act'[u].live => act[u].live /\ act'[u].mode # "none"
    BY <1>a, <2>2, <2>3
  <2> QED BY <1>0, <1>b, <1>9, <2>4, MgrNoBirth DEF Manager!PressureEnds
<1>10. CASE Manager!shutdownActors
  <2>1. /\ act' = Manager!DrainAll({u \in Uid : Manager!Registered(u)})
        /\ pend' = {u \in Uid : Manager!Registered(u)}
        /\ sup' = "grace" /\ down = "auto" /\ UNCHANGED <<req, press, err, down, lost>>
    BY <1>10 DEF Manager!shutdownActors
  <2>2. \A u \in Uid : act'[u].live = act[u].live /\ act'[u].mode = act[u].mode
    BY <1>0, <2>1, MgrDrains
  <2>3. MgrLiveKnown' /\ MgrLivePending'
    BY <1>a, <2>1, <2>2 DEF MgrLiveKnown, MgrLivePending, Manager!Registered
  <2> QED BY <1>0, <1>b, <2>1, <2>3 DEF MgrShutInv
<1>11. CASE Manager!forceCloseActors
  <2>1. /\ act' = [u \in Uid |-> IF u \in Manager!Pending THEN [Manager!Reaped[u] EXCEPT !.stuck = FALSE]
                                 ELSE Manager!Reaped[u]]
        /\ pend' = Manager!Pending /\ sup = "grace" /\ sup' = "deadline"
        /\ UNCHANGED <<req, press, err, down, lost>>
    BY <1>11 DEF Manager!forceCloseActors
  <2>2. ASSUME NEW u \in Uid
        PROVE  act'[u].live = Manager!Reaped[u].live /\ act'[u].mode = Manager!Reaped[u].mode
    <3>1. Manager!Reaped[u] \in MgrActor
      BY <1>0 DEF Manager!Reaped, MgrActor, Manager!NoActor
    <3> QED BY <2>1, <3>1 DEF MgrActor
  <2>3. \A u \in Uid : act'[u].live => act[u].live /\ act'[u].mode # "none"
    BY <1>0, <1>a, <2>2, MgrReaps
  <2>4. MgrLivePending
    BY <2>1 DEF MgrShutInv
  <2>5. MgrLiveKnown' /\ MgrLivePending'
    BY <2>1, <2>3, <2>4 DEF MgrLiveKnown, MgrLivePending, Manager!Registered, Manager!Pending
  <2> QED BY <1>0, <1>b, <2>1, <2>5 DEF MgrShutInv
<1>12. CASE Manager!Deadline
  <2>1. /\ sup = "deadline" /\ sup' = "done" /\ err' = Manager!TimedOut /\ act' = Manager!Reaped
        /\ UNCHANGED <<req, pend, press, down, lost>>
    BY <1>12 DEF Manager!Deadline
  <2>2. \A u \in Uid : act'[u].live => act[u].live /\ act'[u].mode # "none"
    BY <1>0, <1>a, <2>1, MgrReaps
  <2>3. MgrLivePending /\ down = "auto"
    BY <2>1 DEF MgrShutInv
  <2>4. ~err' => MgrNobody'
    BY <2>1, <2>2, <2>3 DEF MgrLivePending, MgrNobody, Manager!TimedOut, Manager!Pending
  <2>5. MgrLiveKnown'
    BY <2>2 DEF MgrLiveKnown, Manager!Registered
  <2> QED BY <1>0, <1>b, <2>1, <2>3, <2>4, <2>5 DEF MgrShutInv
<1>13. CASE Manager!stoppedResult
  <2> DEFINE clean == press = 0 /\ \A u \in Uid : Manager!Reaped[u] = Manager!NoActor
  <2>1. /\ sup = "done" /\ down = "auto" /\ act' = Manager!Reaped
        /\ err' = (err /\ ~clean) /\ down' = (IF err /\ ~clean THEN "err" ELSE "ok")
        /\ UNCHANGED <<req, sup, pend, press, lost>>
    BY <1>13 DEF Manager!stoppedResult
  <2>2. \A u \in Uid : act'[u].live => act[u].live /\ act'[u].mode # "none"
    BY <1>0, <1>a, <2>1, MgrReaps
  <2>3. ~err => MgrNobody
    BY <2>1 DEF MgrShutInv
  <2>4. clean => MgrNobody'
    BY <2>1 DEF MgrNobody, Manager!NoActor
  <2> HIDE DEF clean
  <2>5. ~err' => MgrNobody'
    <3>1. CASE clean
      BY <2>4, <3>1
    <3>2. CASE ~err
      BY <2>1, <2>2, <2>3, <3>2 DEF MgrNobody
    <3> QED BY <2>1, <3>1, <3>2 DEF MgrShutInv
  <2>6. MgrLiveKnown'
    BY <2>2 DEF MgrLiveKnown, Manager!Registered
  <2>7. Manager!WorkDone'
    BY <1>b, <2>1 DEF MgrShutInv
  <2>8. ~lost'
    BY <2>1 DEF MgrShutInv
  <2>9. err \in BOOLEAN
    BY DEF MgrShutInv
  <2>10. down' \in {"ok", "err"} /\ (down' = "ok" => ~err')
    BY <2>1, <2>9
  <2> QED BY <1>0, <2>1, <2>5, <2>6, <2>7, <2>8, <2>10 DEF MgrShutInv
<1>14. CASE Manager!Shutdown \/ Manager!stopAutoActions
  BY <1>0, <1>b, <1>14 DEF Manager!Shutdown, Manager!stopAutoActions, MgrShutInv, MgrLiveKnown, Manager!Registered
<1> QED BY <1>1, <1>2, <1>3, <1>4, <1>5, <1>6, <1>7, <1>8, <1>9, <1>10, <1>11, <1>12, <1>13,
    <1>14 DEF Manager!Supervise

\* Nothing changes.
LEMMA MgrShutStutter == ASSUME MgrShutInv, UNCHANGED Manager!vars PROVE MgrShutInv'
  BY DEF Manager!vars, MgrShutInv, MgrLiveKnown, MgrLivePending, MgrNobody, Manager!WorkDone,
    Manager!Registered

\* No shutdown has begun.
LEMMA MgrShutInit == ASSUME Manager!Init PROVE MgrShutInv
<1>1. act \in [Uid -> MgrActor] /\ \A u \in Uid : ~act[u].live
  BY DEF Manager!Init, MgrActor, Manager!NoActor
<1> QED BY <1>1 DEF Manager!Init, MgrShutInv, MgrLiveKnown

\* ManagerSafe: a structural operation is never refused, and a Shutdown that reports no
\* error has ended every actor and the pressure worker before the position writer was
\* closed, for any number of robots, requests and remembered operations.
THEOREM ManagerIsSafe ==
    ASSUME ManagerConstants
    PROVE  Manager!Spec => []Manager!ManagerSafe /\ []ManagerSafe
<1>0. ListMax \in Nat /\ 0 \notin Req
  BY DEF ManagerConstants
<1>1. Manager!Init => MgrOpsInv /\ MgrShutInv
  BY <1>0, MgrInit, MgrShutInit
<1>2. MgrOpsInv /\ MgrShutInv /\ [Manager!Next]_Manager!vars => (MgrOpsInv /\ MgrShutInv)'
  <2> SUFFICES ASSUME MgrOpsInv, MgrShutInv, [Manager!Next]_Manager!vars PROVE MgrOpsInv' /\ MgrShutInv'
    OBVIOUS
  <2>1. MgrOpsInv'
    BY <1>0, MgrOpsStep
  <2>2. ASSUME NEW r \in Req,
               \/ Manager!Request(r) \/ Manager!beginTrackedStructuralOperation(r)
               \/ Manager!DangerousDelete(r) \/ Manager!cleanupRobots(r) \/ Manager!Deleted(r)
               \/ Manager!CreateRobots(r) \/ Manager!Finish(r) \/ Manager!RLock(r)
               \/ Manager!prepareUserActorCommand(r) \/ Manager!beginActorContainerOp(r)
               \/ Manager!AttachUID(r) \/ Manager!Command(r) \/ Manager!Leave(r)
        PROVE  MgrShutInv'
    BY <1>0, <2>1, <2>2, MgrShutRequests
  <2> QED BY <1>0, <2>1, <2>2, MgrShutOthers, MgrShutStutter DEF Manager!Next
<1>3. MgrOpsInv /\ MgrShutInv => Manager!ManagerSafe
  BY DEF MgrOpsInv, MgrShutInv, MgrNobody, Manager!ManagerSafe, Manager!ShutdownCleans
<1>4. Manager!ManagerSafe => ManagerSafe
  BY DEF ManagerSafe, Manager!ManagerSafe
<1> QED BY <1>1, <1>2, <1>3, <1>4, PTL DEF Manager!Spec

-----------------------------------------------------------------------------
(* MailNotify: the cursors.                                                *)

MailNumber(t) == 1 .. MaxMails[t]
MailState == [cursor : [Mail!Table -> Nat], pending : SUBSET Charac, old : SUBSET Charac,
              ok : BOOLEAN]
MailPoll == [pc : {"idle", "load", "base", "prune", "collect", "tell"}, st : MailState,
             tried : SUBSET Charac, changed : BOOLEAN, cancelled : BOOLEAN]

MailTypeOK ==
    /\ mail = [t \in Mail!Table |-> mail[t]]
    /\ \A t \in Mail!Table : mail[t] \in [MailNumber(t) -> Charac \cup {0, -1}]
    /\ told \subseteq Mail!Rows /\ lapsed \subseteq Mail!Rows
    /\ file \in MailState /\ poll \in MailPoll

\* Mails arrive in the order of their numbers, and a cursor is the number of a mail.
MailInOrder ==
    \A t \in Mail!Table : \A i, j \in MailNumber(t) : j < i /\ mail[t][i] # -1 => mail[t][j] # -1
MailCursor(st) ==
    \A t \in Mail!Table : \A i \in MailNumber(t) : i <= st.cursor[t] => mail[t][i] # -1

\* What a state has passed was told, has lapsed, is pending, or is among what the poll
\* has dropped for its age and the saving will count as lapsed.
MailKept(st, dropped) ==
    \A t \in Mail!Table : \A i \in MailNumber(t) :
        i <= st.cursor[t] /\ mail[t][i] > 0 =>
            \/ <<t, i>> \in told \cup lapsed
            \/ mail[t][i] \in st.pending
            \/ mail[t][i] \in dropped /\ i <= file.cursor[t]

MailInv ==
    /\ MailTypeOK /\ MailInOrder
    /\ MailCursor(file)
    /\ file.ok => MailKept(file, {})
    /\ poll.pc = "prune" => poll.st = file /\ file.ok
    /\ poll.pc \in {"collect", "tell"} =>
         file.ok /\ MailCursor(poll.st) /\ MailKept(poll.st, file.old)

\* What the rows of a table are.
LEMMA MailRows ==
    /\ \A t \in Mail!Table : \A i \in MailNumber(t) : <<t, i>> \in Mail!Rows
    /\ \A m \in Mail!Rows : m[1] \in Mail!Table /\ m[2] \in MailNumber(m[1]) /\ m = <<m[1], m[2]>>
<1>1. ASSUME NEW m \in Mail!Rows
      PROVE  m[1] \in Mail!Table /\ m[2] \in MailNumber(m[1]) /\ m = <<m[1], m[2]>>
  <2>1. PICK t \in Mail!Table : m \in {<<t, i>> : i \in 1 .. MaxMails[t]}
    BY DEF Mail!Rows
  <2>2. PICK i \in 1 .. MaxMails[t] : m = <<t, i>>
    BY <2>1
  <2> QED BY <2>2 DEF MailNumber
<1>2. ASSUME NEW t \in Mail!Table, NEW i \in MailNumber(t) PROVE <<t, i>> \in Mail!Rows
  <2>1. <<t, i>> \in {<<t, k>> : k \in 1 .. MaxMails[t]}
    BY DEF MailNumber
  <2> QED BY <2>1 DEF Mail!Rows
<1> QED BY <1>1, <1>2

\* A mail is for a character or a player, or there is none.
LEMMA MailFor ==
    ASSUME MailConstants, MailTypeOK, NEW t \in Mail!Table, NEW i \in MailNumber(t)
    PROVE  /\ mail[t][i] \in Charac \cup {0, -1} /\ mail[t][i] \in Int
           /\ MaxMails[t] \in Nat /\ i \in Nat /\ i <= MaxMails[t]
           /\ mail[t][i] > 0 => mail[t][i] \in Charac /\ i \in Mail!Numbers(t)
  BY DEF MailConstants, MailTypeOK, MailNumber, Mail!Numbers

\* The newest mail of a table is one that arrived.
LEMMA MailNewest ==
    ASSUME MailConstants, MailTypeOK, NEW t \in Mail!Table
    PROVE  /\ Mail!Newest(t) \in Nat
           /\ Mail!Newest(t) = 0 \/ Mail!Newest(t) \in Mail!Numbers(t)
           /\ Mail!Numbers(t) \subseteq MailNumber(t)
           /\ \A i \in Mail!Numbers(t) : i <= Mail!Newest(t)
<1>1. MaxMails[t] \in Nat
  BY DEF MailConstants
<1>2. Mail!Numbers(t) \subseteq 0 .. MaxMails[t] /\ Mail!Numbers(t) \subseteq MailNumber(t)
  BY <1>1 DEF Mail!Numbers, MailNumber
<1>3. CASE Mail!Numbers(t) = {}
  BY <1>2, <1>3 DEF Mail!Newest
<1>4. CASE Mail!Numbers(t) # {}
  <2>1. \E k \in Mail!Numbers(t) : \A j \in Mail!Numbers(t) : j <= k
    BY <1>1, <1>2, <1>4, GreatestNat
  <2>2. Mail!Newest(t) \in Mail!Numbers(t) /\ \A j \in Mail!Numbers(t) : j <= Mail!Newest(t)
    BY <1>4, <2>1 DEF Mail!Newest
  <2> QED BY <1>1, <1>2, <2>2
<1> QED BY <1>3, <1>4

\* The instance's Cardinality is that of FiniteSets.
LEMMA MailCardinality == \A S : Mail!Cardinality(S) = Cardinality(S)
  BY DEF Mail!Cardinality, Cardinality

MailTop(t) ==
    IF Mail!queryEvents(t) = {} THEN poll.st.cursor[t]
    ELSE CHOOSE i \in Mail!queryEvents(t) : \A j \in Mail!queryEvents(t) : j <= i

\* A query returns all mails between the cursor and the last one of its answer.
LEMMA MailQuery ==
    ASSUME MailConstants, MailTypeOK, NEW t \in Mail!Table
    PROVE  /\ MailTop(t) \in Nat
           /\ MailTop(t) = poll.st.cursor[t] \/ MailTop(t) \in Mail!Numbers(t)
           /\ \A i \in Mail!Numbers(t) :
                i <= MailTop(t) => i <= poll.st.cursor[t] \/ i \in Mail!queryEvents(t)
<1> DEFINE after == {i \in Mail!Numbers(t) : i > poll.st.cursor[t]}
           rows == Mail!queryEvents(t)
<1>1. MaxMails[t] \in Nat /\ poll.st.cursor[t] \in Nat
  BY DEF MailConstants, MailTypeOK, MailPoll, MailState
<1>2. Mail!Numbers(t) \subseteq 1 .. MaxMails[t]
  BY <1>1 DEF Mail!Numbers
<1>3. \A i : i \in rows <=> i \in after /\ Cardinality({j \in after : j <= i}) <= Limit
  <2>1. rows = {i \in after : Mail!Cardinality({j \in after : j <= i}) <= Limit}
    BY DEF Mail!queryEvents
  <2> QED BY Zenon, <2>1, MailCardinality
<1>4. rows \subseteq 0 .. MaxMails[t] /\ rows \subseteq Mail!Numbers(t)
  <2>1. \A i \in rows : i \in after
    BY <1>3, Zenon
  <2> HIDE DEF rows
  <2>2. rows \subseteq Mail!Numbers(t)
    BY <2>1
  <2> QED BY <1>1, <1>2, <2>2
<1>5. CASE rows = {}
  BY <1>1, <1>2, <1>5 DEF MailTop
<1>6. CASE rows # {}
  <2>1. \E k \in rows : \A j \in rows : j <= k
    BY <1>1, <1>4, <1>6, GreatestNat
  <2>2. MailTop(t) \in rows /\ \A j \in rows : j <= MailTop(t)
    BY <1>6, <2>1 DEF MailTop
  <2>3. ASSUME NEW i \in Mail!Numbers(t), i <= MailTop(t), ~(i <= poll.st.cursor[t])
        PROVE  i \in rows
    <3> DEFINE A == {j \in after : j <= i}
               B == {j \in after : j <= MailTop(t)}
    <3>1. i \in after
      BY <1>1, <1>2, <2>3
    <3>2. MailTop(t) \in Nat /\ A \subseteq B /\ B \subseteq 1 .. MaxMails[t]
      BY <1>1, <1>2, <1>4, <2>2, <2>3
    <3>3. IsFiniteSet(B)
      <4>1. IsFiniteSet(1 .. MaxMails[t])
        BY <1>1, FS_Interval
      <4> QED BY <3>2, <4>1, FS_Subset
    <3>4. IsFiniteSet(A) /\ Cardinality(A) <= Cardinality(B)
      BY <3>2, <3>3, FS_Subset
    <3>5. Cardinality(A) \in Nat /\ Cardinality(B) \in Nat
      BY <3>3, <3>4, FS_CardinalityType
    <3>6. Cardinality(B) <= Limit
      BY <1>3, <2>2
    <3>7. Limit \in Nat
      BY DEF MailConstants
    <3>8. Cardinality(A) <= Limit
      BY <3>4, <3>5, <3>6, <3>7
    <3> QED BY <1>3, <3>1, <3>8
  <2> QED BY <1>2, <1>4, <2>2, <2>3
<1> QED BY <1>5, <1>6

\* The cursors start at the newest mails.
LEMMA MailInit == ASSUME MailConstants, Mail!Init PROVE MailInv
<1> USE DEF Mail!Init
<1>1. mail = [t \in Mail!Table |-> [i \in MailNumber(t) |-> -1]]
  BY DEF MailNumber
<1>2. Mail!NoState \in MailState
  BY DEF Mail!NoState, MailState
<1>3. poll \in MailPoll /\ poll.pc = "idle"
  BY <1>2 DEF Mail!NoPoll, MailPoll
<1>4. mail = [t \in Mail!Table |-> mail[t]] /\ \A t \in Mail!Table : mail[t] \in [MailNumber(t) -> Charac \cup {0, -1}]
  BY <1>1
<1>5. MailTypeOK
  BY <1>2, <1>3, <1>4 DEF MailTypeOK
<1>6. MailInOrder
  <2>1. ASSUME NEW t \in Mail!Table, NEW i \in MailNumber(t) PROVE mail[t][i] = -1
    <3>1. mail[t] = [k \in MailNumber(t) |-> -1]
      BY <1>1, Zenon
    <3> QED BY <3>1
  <2> QED BY <2>1 DEF MailInOrder
<1>7. ~file.ok /\ \A t \in Mail!Table : file.cursor[t] = 0
  BY DEF Mail!NoState
<1>8. MailCursor(file)
  <2>1. \A t \in Mail!Table : MaxMails[t] \in Nat
    BY DEF MailConstants
  <2> QED BY <1>7, <2>1 DEF MailCursor, MailNumber
<1> QED BY <1>3, <1>5, <1>6, <1>7, <1>8 DEF MailInv

\* A mail that arrives is after every cursor, and nobody waits for it yet.
LEMMA MailArrive ==
    ASSUME MailConstants, MailInv, NEW n \in Mail!Rows, Mail!Arrive(n[1], n[2]) PROVE MailInv'
<1> DEFINE a == n[1]
           b == n[2]
<1>1. a \in Mail!Table /\ b \in MailNumber(a)
  BY MailRows
<1>2. MailTypeOK /\ MailInOrder /\ MaxMails[a] \in Nat
  BY <1>1 DEF MailInv, MailConstants
<1>3. /\ mail[a][b] = -1 /\ \A j \in 1 .. (b - 1) : mail[a][j] # -1
      /\ UNCHANGED <<told, lapsed, file, poll>>
  BY DEF Mail!Arrive, MailConstants
<1>4. PICK c \in Charac \cup {0} : mail' = [mail EXCEPT ![a] = [mail[a] EXCEPT ![b] = c]]
  <2>1. PICK c \in Charac \cup {0} : mail' = [mail EXCEPT ![a][b] = c]
    BY DEF Mail!Arrive
  <2>2. mail' = [mail EXCEPT ![a] = [mail[a] EXCEPT ![b] = c]]
    BY <1>1, <1>2, <2>1 DEF MailTypeOK
  <2> QED BY <2>2
<1> HIDE DEF a, b
<1>5. /\ mail' = [t \in Mail!Table |-> mail'[t]]
      /\ \A t \in Mail!Table : mail'[t] \in [MailNumber(t) -> Charac \cup {0, -1}]
      /\ \A t \in Mail!Table : \A i \in MailNumber(t) :
           mail'[t][i] = IF t = a /\ i = b THEN c ELSE mail[t][i]
  BY <1>1, <1>2, <1>4 DEF MailTypeOK
<1>6. c # -1
  BY DEF MailConstants
<1>7. MailTypeOK'
  BY <1>2, <1>3, <1>5 DEF MailTypeOK, Mail!Rows
<1>8. MailInOrder'
  <2> SUFFICES ASSUME NEW t \in Mail!Table, NEW i \in MailNumber(t), NEW j \in MailNumber(t),
                      j < i, mail'[t][i] # -1
               PROVE  mail'[t][j] # -1
    BY DEF MailInOrder, MailNumber
  <2>1. CASE t = a /\ i = b
    <3>1. j \in 1 .. (b - 1)
      BY <1>1, <1>2, <2>1 DEF MailNumber
    <3> QED BY <1>3, <1>5, <1>6, <2>1, <3>1
  <2>2. CASE ~(t = a /\ i = b)
    BY <1>2, <1>5, <1>6, <2>2 DEF MailInOrder
  <2> QED BY <2>1, <2>2
<1>9. ASSUME NEW st, MailCursor(st), st.cursor[a] \in Nat PROVE ~(b <= st.cursor[a])
  BY <1>1, <1>3, <1>9 DEF MailCursor
<1>10. ASSUME NEW st, MailCursor(st), st' = st PROVE MailCursor(st)'
  BY <1>5, <1>6, <1>10 DEF MailCursor, MailNumber
<1>11. ASSUME NEW st, NEW old, MailCursor(st), st' = st, old' = old, st.cursor[a] \in Nat, MailKept(st, old)
       PROVE  MailKept(st, old)'
  BY <1>3, <1>5, <1>9, <1>11 DEF MailKept, MailNumber
<1>12. file.cursor[a] \in Nat /\ poll.st.cursor[a] \in Nat
  BY <1>1, <1>2 DEF MailTypeOK, MailState, MailPoll
<1> QED BY <1>3, <1>7, <1>8, <1>10, <1>11, <1>12 DEF MailInv

\* Steps that leave the mails, what was told and what lapsed alone, and put no poll to
\* work on a state of its own.
LEMMA MailAsideStep ==
    ASSUME MailInv, UNCHANGED <<mail, told, lapsed>>, file' \in MailState, poll' \in MailPoll,
           \/ /\ UNCHANGED file
              /\ \/ poll'.pc \in {"idle", "load", "base"}
                 \/ poll'.pc = poll.pc /\ poll'.st = poll.st
           \/ /\ poll.pc = "idle" /\ UNCHANGED poll
              /\ \/ file'.cursor = file.cursor /\ file'.pending = file.pending /\ file'.ok = file.ok
                 \/ file' = Mail!NoState
    PROVE  MailInv'
<1>1. MailTypeOK'
  BY DEF MailInv, MailTypeOK, Mail!Rows
<1>2. MailInOrder'
  BY DEF MailInv, MailInOrder, MailNumber
<1>3. CASE UNCHANGED file
  <2>1. MailCursor(file)' /\ (file'.ok => MailKept(file, {})')
    BY <1>3 DEF MailInv, MailCursor, MailKept, MailNumber
  <2>2. CASE poll'.pc \in {"idle", "load", "base"}
    BY <1>1, <1>2, <2>1, <2>2 DEF MailInv
  <2>3. CASE poll'.pc = poll.pc /\ poll'.st = poll.st
    <3>1. MailCursor(poll.st) => MailCursor(poll.st)'
      BY <2>3 DEF MailCursor, MailNumber
    <3>2. MailKept(poll.st, file.old) => MailKept(poll.st, file.old)'
      BY <1>3, <2>3 DEF MailKept, MailNumber
    <3> QED BY <1>1, <1>2, <1>3, <2>1, <2>3, <3>1, <3>2 DEF MailInv
  <2> QED BY <1>3, <2>2, <2>3 DEF Mail!NoState, MailInv
<1>4. CASE poll.pc = "idle" /\ UNCHANGED poll /\ file'.cursor = file.cursor /\ file'.pending = file.pending /\ file'.ok = file.ok
  <2>1. MailCursor(file)' /\ (file'.ok => MailKept(file, {})')
    BY <1>4 DEF MailInv, MailCursor, MailKept, MailNumber
  <2> QED BY <1>1, <1>2, <1>4, <2>1 DEF MailInv
<1>5. CASE poll.pc = "idle" /\ UNCHANGED poll /\ file' = Mail!NoState
  <2>1. ~file'.ok /\ \A t \in Mail!Table : file'.cursor[t] = 0
    BY <1>5 DEF Mail!NoState
  <2>2. MailCursor(file)'
    BY <2>1 DEF MailCursor, MailNumber
  <2> QED BY <1>1, <1>2, <1>5, <2>1, <2>2 DEF MailInv
<1> QED BY <1>3, <1>4, <1>5

\* A step that leaves the mails and the cursors alone.
LEMMA MailAside ==
    ASSUME MailInv,
           \/ Mail!Disturb \/ Mail!pollMailNotifications \/ Mail!Shutdown
           \/ Mail!waitMailNotifications \/ Mail!Restart
    PROVE  MailInv'
<1>0. file \in MailState /\ poll \in MailPoll
  BY DEF MailInv, MailTypeOK
<1>1. Mail!NoState \in MailState /\ Mail!NoPoll \in MailPoll /\ Mail!NoPoll.pc = "idle"
  <2>1. Mail!NoState \in MailState
    BY DEF Mail!NoState, MailState
  <2> QED BY <2>1 DEF Mail!NoPoll, MailPoll
<1>2. CASE Mail!Disturb
  <2>1. CASE file' = Mail!NoState
    BY <1>0, <1>1, <1>2, <2>1, MailAsideStep DEF Mail!Disturb
  <2>2. ASSUME NEW c \in file.pending \ file.old, file' = [file EXCEPT !.old = @ \cup {c}] PROVE MailInv'
    <3>1. /\ file' \in MailState
          /\ file'.cursor = file.cursor /\ file'.pending = file.pending /\ file'.ok = file.ok
      BY <1>0, <2>2 DEF MailState
    <3> QED BY <1>0, <1>2, <3>1, MailAsideStep DEF Mail!Disturb
  <2> QED BY <1>2, <2>1, <2>2 DEF Mail!Disturb
<1>3. CASE Mail!pollMailNotifications
  <2>1. poll' = [Mail!NoPoll EXCEPT !.pc = "load"]
    BY <1>3 DEF Mail!pollMailNotifications
  <2>2. poll' \in MailPoll /\ poll'.pc = "load"
    BY <1>1, <2>1 DEF MailPoll
  <2> QED BY <1>0, <1>3, <2>2, MailAsideStep DEF Mail!pollMailNotifications
<1>4. CASE Mail!Shutdown
  <2>1. poll' = poll \/ poll' = [poll EXCEPT !.cancelled = TRUE]
    BY <1>4 DEF Mail!Shutdown
  <2>2. poll' \in MailPoll /\ poll'.pc = poll.pc /\ poll'.st = poll.st
    BY <1>0, <2>1 DEF MailPoll
  <2> QED BY <1>0, <1>4, <2>2, MailAsideStep DEF Mail!Shutdown
<1>5. CASE Mail!waitMailNotifications
  BY <1>0, <1>5, MailAsideStep DEF Mail!waitMailNotifications
<1>6. CASE Mail!Restart
  BY <1>0, <1>1, <1>6, MailAsideStep DEF Mail!Restart
<1> QED BY <1>2, <1>3, <1>4, <1>5, <1>6

\* The state is read from its file.
LEMMA MailLoad == ASSUME MailInv, Mail!loadState PROVE MailInv'
<1>0. file \in MailState /\ poll \in MailPoll
  BY DEF MailInv, MailTypeOK
<1>1. CASE ~file.ok
  <2>1. poll' = [poll EXCEPT !.pc = "base"]
    BY <1>1 DEF Mail!loadState
  <2>2. poll' \in MailPoll /\ poll'.pc = "base"
    BY <1>0, <2>1 DEF MailPoll
  <2> QED BY <1>0, <2>2, MailAsideStep DEF Mail!loadState
<1>2. CASE file.ok
  <2>1. poll' = [poll EXCEPT !.pc = "prune", !.st = file] /\ UNCHANGED <<mail, told, lapsed, file>>
    BY <1>2 DEF Mail!loadState
  <2>2. poll' \in MailPoll /\ poll'.pc = "prune" /\ poll'.st = file
    BY <1>0, <2>1 DEF MailPoll
  <2>3. MailTypeOK'
    BY <2>1, <2>2 DEF MailInv, MailTypeOK, Mail!Rows
  <2>4. MailInOrder' /\ MailCursor(file)'
    BY <2>1 DEF MailInv, MailInOrder, MailCursor, MailNumber
  <2>5. MailKept(file, {})'
    BY <1>2, <2>1 DEF MailInv, MailKept, MailNumber
  <2> QED BY <1>2, <2>1, <2>2, <2>3, <2>4, <2>5 DEF MailInv
<1> QED BY <1>1, <1>2

\* The baseline: every mail of this moment lapses.
LEMMA MailBase == ASSUME MailConstants, MailInv, Mail!currentCursor PROVE MailInv'
<1>0. MailTypeOK /\ file \in MailState /\ poll \in MailPoll
  BY DEF MailInv, MailTypeOK
<1>1. Mail!NoState \in MailState /\ Mail!NoPoll \in MailPoll /\ Mail!NoPoll.pc = "idle"
  <2>1. Mail!NoState \in MailState
    BY DEF Mail!NoState, MailState
  <2> QED BY <2>1 DEF Mail!NoPoll, MailPoll
<1>2. poll' = Mail!NoPoll /\ UNCHANGED <<mail, told>>
  BY DEF Mail!currentCursor, Mail!Ends
<1>3. CASE UNCHANGED <<file, lapsed>>
  BY <1>0, <1>1, <1>2, <1>3, MailAsideStep
<1>4. CASE /\ file' = [Mail!NoState EXCEPT !.cursor = [t \in Mail!Table |-> Mail!Newest(t)], !.ok = TRUE]
           /\ lapsed' = lapsed \cup {m \in Mail!Rows : m[2] <= Mail!Newest(m[1])}
  <2>1. \A t \in Mail!Table : Mail!Newest(t) \in Nat
    BY <1>0, MailNewest
  <2>2. file' \in MailState /\ \A t \in Mail!Table : file'.cursor[t] = Mail!Newest(t)
    BY <1>4, <2>1 DEF Mail!NoState, MailState
  <2>3. MailTypeOK'
    <3>1. lapsed' \subseteq Mail!Rows /\ told' \subseteq Mail!Rows
      BY <1>0, <1>2, <1>4 DEF MailTypeOK
    <3> QED BY <1>0, <1>1, <1>2, <2>2, <3>1 DEF MailTypeOK, Mail!Rows
  <2>4. MailInOrder'
    BY <1>2 DEF MailInv, MailInOrder, MailNumber
  <2>5. MailCursor(file)'
    <3> SUFFICES ASSUME NEW t \in Mail!Table, NEW i \in MailNumber(t), i <= Mail!Newest(t)
                 PROVE  mail[t][i] # -1
      BY <1>2, <2>2 DEF MailCursor, MailNumber
    <3>1. MaxMails[t] \in Nat
      BY DEF MailConstants
    <3>2. /\ Mail!Newest(t) \in Nat /\ (Mail!Newest(t) = 0 \/ Mail!Newest(t) \in Mail!Numbers(t))
          /\ Mail!Numbers(t) \subseteq MailNumber(t)
      BY <1>0, MailNewest
    <3>3. i >= 1
      BY <3>1 DEF MailNumber
    <3>4. Mail!Newest(t) \in MailNumber(t) /\ mail[t][Mail!Newest(t)] # -1
      BY <3>1, <3>2, <3>3 DEF Mail!Numbers, MailNumber
    <3>5. CASE i = Mail!Newest(t)
      BY <3>4, <3>5
    <3>6. CASE i < Mail!Newest(t)
      BY <3>4, <3>6 DEF MailInv, MailInOrder
    <3> QED BY <3>1, <3>2, <3>5, <3>6 DEF MailNumber
  <2>6. MailKept(file, {})'
    <3> SUFFICES ASSUME NEW t \in Mail!Table, NEW i \in MailNumber(t), i <= Mail!Newest(t)
                 PROVE  <<t, i>> \in lapsed'
      BY <1>2, <2>2 DEF MailKept, MailNumber
    <3>1. <<t, i>> \in Mail!Rows
      BY MailRows
    <3> QED BY <1>4, <3>1
  <2> QED BY <1>1, <1>2, <2>3, <2>4, <2>5, <2>6 DEF MailInv
<1> QED BY <1>3, <1>4 DEF Mail!currentCursor

\* What is pending for too long is dropped.
LEMMA MailPrune == ASSUME MailInv, Mail!prunePendingMails PROVE MailInv'
<1>0. file \in MailState /\ poll \in MailPoll /\ poll.pc = "prune" /\ poll.st = file /\ file.ok
  BY DEF MailInv, MailTypeOK, Mail!prunePendingMails
<1>1. UNCHANGED <<mail, told, lapsed, file>>
  BY DEF Mail!prunePendingMails
<1>2. /\ poll' \in MailPoll /\ poll'.pc \in {"collect", "tell"}
      /\ poll'.st.cursor = file.cursor /\ poll'.st.pending = file.pending \ file.old
  <2>1. PICK pc \in {"collect", "tell"} :
          poll' = [poll EXCEPT !.pc = pc, !.st.pending = @ \ poll.st.old, !.st.old = {},
                               !.changed = poll.st.old # {}]
    BY DEF Mail!prunePendingMails
  <2>2. poll' = [poll EXCEPT !.pc = pc, !.changed = poll.st.old # {},
                   !.st = [poll.st EXCEPT !.pending = poll.st.pending \ poll.st.old, !.old = {}]]
    BY <1>0, <2>1 DEF MailPoll, MailState
  <2>3. [file EXCEPT !.pending = file.pending \ file.old, !.old = {}] \in MailState
    BY <1>0 DEF MailState
  <2> QED BY <1>0, <2>2, <2>3 DEF MailPoll, MailState
<1>3. MailTypeOK' /\ MailInOrder'
  BY <1>1, <1>2 DEF MailInv, MailTypeOK, Mail!Rows, MailInOrder, MailNumber
<1>4. MailCursor(file)' /\ MailCursor(poll.st)'
  BY <1>1, <1>2 DEF MailInv, MailCursor, MailNumber
<1>5. MailKept(file, {})'
  BY <1>0, <1>1 DEF MailInv, MailKept, MailNumber
<1>6. MailKept(poll.st, file.old)'
  BY <1>0, <1>1, <1>2 DEF MailInv, MailKept, MailNumber
<1> QED BY <1>0, <1>1, <1>2, <1>3, <1>4, <1>5, <1>6 DEF MailInv

\* What a query found and kept moves the cursors over it, or they stay.
LEMMA MailCollect == ASSUME MailConstants, MailInv, Mail!collect PROVE MailInv'
<1>0. MailTypeOK /\ file \in MailState /\ poll \in MailPoll
  BY DEF MailInv, MailTypeOK
<1>1. /\ poll.pc = "collect" /\ UNCHANGED <<mail, told, lapsed, file>> /\ file.ok
      /\ MailCursor(poll.st) /\ MailKept(poll.st, file.old)
  BY DEF MailInv, Mail!collect
<1>2. CASE poll' = Mail!NoPoll
  <2>1. Mail!NoState \in MailState
    BY DEF Mail!NoState, MailState
  <2>2. Mail!NoPoll \in MailPoll /\ Mail!NoPoll.pc = "idle"
    BY <2>1 DEF Mail!NoPoll, MailPoll
  <2> QED BY <1>0, <1>1, <1>2, <2>2, MailAsideStep
<1>3. CASE poll' # Mail!NoPoll
  <2> DEFINE found == {mail[m[1]][m[2]] : m \in {x \in Mail!Rows : x[2] \in Mail!queryEvents(x[1])}} \ {0}
             upTo(all) == [t \in Mail!Table |-> IF Mail!Ack(found, all) THEN MailTop(t) ELSE poll.st.cursor[t]]
  <2>1. PICK kept \in SUBSET (found \ poll.st.pending) :
          LET all == poll.st.pending \cup kept IN
          poll' = [poll EXCEPT !.pc = "tell", !.st.pending = all, !.st.cursor = upTo(all),
                            !.changed = @ \/ kept # {} \/ upTo(all) # poll.st.cursor]
    BY <1>3 DEF Mail!collect, Mail!Ends, MailTop
  <2> DEFINE all == poll.st.pending \cup kept
             ahead == upTo(all)
  <2>2. found \subseteq Charac
    <3> SUFFICES ASSUME NEW m \in Mail!Rows, m[2] \in Mail!queryEvents(m[1]), mail[m[1]][m[2]] # 0
                 PROVE  mail[m[1]][m[2]] \in Charac
      OBVIOUS
    <3>1. m[1] \in Mail!Table /\ m[2] \in MailNumber(m[1])
      BY MailRows
    <3>2. m[2] \in Mail!Numbers(m[1])
      BY DEF Mail!queryEvents
    <3> QED BY <1>0, <3>1, <3>2, MailFor DEF Mail!Numbers
  <2>3. ASSUME NEW t \in Mail!Table, NEW i \in MailNumber(t), i \in Mail!queryEvents(t), mail[t][i] > 0
        PROVE  mail[t][i] \in found
    <3>1. <<t, i>> \in Mail!Rows /\ <<t, i>>[1] = t /\ <<t, i>>[2] = i
      BY MailRows
    <3>2. mail[t][i] # 0
      BY <1>0, <2>3, MailFor
    <3> QED BY <2>3, <3>1, <3>2
  <2> HIDE DEF found
  <2>4. poll.st \in MailState /\ all \subseteq Charac
    BY <1>0, <2>2 DEF MailPoll, MailState
  <2>5. ahead \in [Mail!Table -> Nat] /\ \A t \in Mail!Table : ahead[t] = MailTop(t) \/ ahead[t] = poll.st.cursor[t]
    <3>1. \A t \in Mail!Table : MailTop(t) \in Nat
      BY <1>0, MailQuery
    <3> QED BY <2>4, <3>1 DEF MailState
  <2>6. (\A t \in Mail!Table : ahead[t] = poll.st.cursor[t]) \/ found \subseteq all
    BY DEF Mail!Ack
  <2>7. poll' = [poll EXCEPT !.pc = "tell", !.st = [poll.st EXCEPT !.pending = all, !.cursor = ahead],
                             !.changed = @ \/ kept # {} \/ ahead # poll.st.cursor]
    BY <1>0, <2>1 DEF MailPoll, MailState
  <2> HIDE DEF all, ahead
  <2>8. /\ poll' \in MailPoll /\ poll'.pc = "tell"
        /\ poll'.st.cursor = ahead /\ poll'.st.pending = all
    <3>1. [poll.st EXCEPT !.pending = all, !.cursor = ahead] \in MailState
      BY <2>4, <2>5 DEF MailState
    <3> QED BY <1>0, <2>4, <2>7, <3>1 DEF MailPoll, MailState
  <2>9. MailTypeOK' /\ MailInOrder'
    BY <1>1, <2>8 DEF MailInv, MailTypeOK, Mail!Rows, MailInOrder, MailNumber
  <2>10. MailCursor(file)' /\ MailKept(file, {})'
    BY <1>1 DEF MailInv, MailCursor, MailKept, MailNumber
  <2>11. MailCursor(poll.st)'
    <3> SUFFICES ASSUME NEW t \in Mail!Table, NEW i \in MailNumber(t), i <= ahead[t]
                 PROVE  mail[t][i] # -1
      BY <1>1, <2>8 DEF MailCursor, MailNumber
    <3>1. CASE ahead[t] = poll.st.cursor[t]
      BY <1>1, <3>1 DEF MailCursor
    <3>2. CASE ahead[t] # poll.st.cursor[t]
      <4>1. ahead[t] = MailTop(t) /\ MailTop(t) \in Mail!Numbers(t)
        BY <1>0, <2>5, <3>2, MailQuery
      <4>2. MailTop(t) \in MailNumber(t) /\ mail[t][MailTop(t)] # -1
        BY <4>1 DEF Mail!Numbers, MailNumber
      <4>3. MailTop(t) \in Int /\ i \in Int
        BY <1>0, <4>2, MailFor
      <4> QED BY <4>1, <4>2, <4>3 DEF MailInv, MailInOrder
    <3> QED BY <3>1, <3>2
  <2>12. MailKept(poll.st, file.old)'
    <3> SUFFICES ASSUME NEW t \in Mail!Table, NEW i \in MailNumber(t), i <= ahead[t], mail[t][i] > 0
                 PROVE  \/ <<t, i>> \in told \cup lapsed
                        \/ mail[t][i] \in all
                        \/ mail[t][i] \in file.old /\ i <= file.cursor[t]
      BY <1>1, <2>8 DEF MailKept, MailNumber
    <3>1. CASE i <= poll.st.cursor[t]
      BY <1>1, <3>1 DEF MailKept, all
    <3>2. CASE ~(i <= poll.st.cursor[t])
      <4>1. ahead[t] = MailTop(t) /\ ahead[t] # poll.st.cursor[t]
        BY <2>5, <3>2
      <4>2. i \in Mail!Numbers(t)
        BY <1>0, MailFor
      <4>3. i \in Mail!queryEvents(t)
        BY <1>0, <3>2, <4>1, <4>2, MailQuery
      <4> QED BY <2>3, <2>6, <4>1, <4>3
    <3> QED BY <3>1, <3>2
  <2> QED BY <1>1, <2>8, <2>9, <2>10, <2>11, <2>12 DEF MailInv
<1> QED BY <1>2, <1>3

\* A character is told.
LEMMA MailTell == ASSUME MailConstants, MailInv, NEW c \in Charac, Mail!NotifyNewMail(c) PROVE MailInv'
<1>0. MailTypeOK /\ file \in MailState /\ poll \in MailPoll /\ poll.st \in MailState
  BY DEF MailInv, MailTypeOK, MailPoll
<1>1. /\ poll.pc = "tell" /\ UNCHANGED <<mail, lapsed, file>> /\ file.ok
      /\ MailCursor(poll.st) /\ MailKept(poll.st, file.old)
  BY DEF MailInv, Mail!NotifyNewMail
<1>2. PICK bad \in BOOLEAN :
        /\ told' = IF bad THEN told ELSE told \cup Mail!Mails(c)
        /\ poll' = [poll EXCEPT !.tried = @ \cup {c}, !.changed = @ \/ ~bad,
                       !.st.pending = Mail!Forget(@, c, bad)]
  BY DEF Mail!NotifyNewMail
<1>3. poll' = [poll EXCEPT !.tried = @ \cup {c}, !.changed = @ \/ ~bad,
                 !.st = [poll.st EXCEPT !.pending = Mail!Forget(poll.st.pending, c, bad)]]
  BY <1>0, <1>2 DEF MailPoll, MailState
<1>4. Mail!Forget(poll.st.pending, c, bad) \subseteq Charac
  BY <1>0 DEF MailState, Mail!Forget
<1>5. /\ poll' \in MailPoll /\ poll'.pc = "tell" /\ poll'.st.cursor = poll.st.cursor
      /\ poll'.st.pending = Mail!Forget(poll.st.pending, c, bad)
  <2>1. [poll.st EXCEPT !.pending = Mail!Forget(poll.st.pending, c, bad)] \in MailState
    BY <1>0, <1>4 DEF MailState
  <2> QED BY <1>0, <1>1, <1>3, <2>1 DEF MailPoll, MailState
<1>6. told \subseteq told' /\ told' \subseteq Mail!Rows
  BY <1>0, <1>2 DEF Mail!Mails, MailTypeOK
<1>7. MailTypeOK' /\ MailInOrder'
  BY <1>0, <1>1, <1>5, <1>6 DEF MailInv, MailTypeOK, Mail!Rows, MailInOrder, MailNumber
<1>8. MailCursor(file)' /\ MailCursor(poll.st)'
  BY <1>1, <1>5 DEF MailInv, MailCursor, MailNumber
<1>9. MailKept(file, {})'
  BY <1>1, <1>6 DEF MailInv, MailKept, MailNumber
<1>10. MailKept(poll.st, file.old)'
  <2> SUFFICES ASSUME NEW t \in Mail!Table, NEW i \in MailNumber(t), i <= poll.st.cursor[t], mail[t][i] > 0
               PROVE  \/ <<t, i>> \in told' \cup lapsed
                      \/ mail[t][i] \in poll'.st.pending
                      \/ mail[t][i] \in file.old /\ i <= file.cursor[t]
    BY <1>1, <1>5 DEF MailKept, MailNumber
  <2>1. CASE mail[t][i] = c /\ ~bad
    <3>1. <<t, i>> \in Mail!Mails(c)
      BY <2>1, MailRows DEF Mail!Mails
    <3> QED BY <1>2, <2>1, <3>1
  <2>2. CASE ~(mail[t][i] = c /\ ~bad)
    <3>1. mail[t][i] \in poll.st.pending => mail[t][i] \in poll'.st.pending
      BY <1>5, <2>2 DEF Mail!Forget
    <3> QED BY <1>1, <1>6, <3>1 DEF MailKept
  <2> QED BY <2>1, <2>2
<1> QED BY <1>1, <1>5, <1>7, <1>8, <1>9, <1>10 DEF MailInv

\* The state is written to its file.
LEMMA MailSave == ASSUME MailInv, Mail!saveState PROVE MailInv'
<1>0. MailTypeOK /\ file \in MailState /\ poll \in MailPoll /\ poll.st \in MailState
  BY DEF MailInv, MailTypeOK, MailPoll
<1>1. /\ poll.pc = "tell" /\ poll' = Mail!NoPoll /\ UNCHANGED <<mail, told>>
      /\ MailCursor(poll.st) /\ MailKept(poll.st, file.old)
  BY DEF MailInv, Mail!saveState, Mail!Ends
<1>2. Mail!NoPoll \in MailPoll /\ Mail!NoPoll.pc = "idle"
  <2>1. Mail!NoState \in MailState
    BY DEF Mail!NoState, MailState
  <2> QED BY <2>1 DEF Mail!NoPoll, MailPoll
<1>3. CASE UNCHANGED <<file, lapsed>>
  BY <1>0, <1>1, <1>2, <1>3, MailAsideStep
<1>4. CASE /\ file' = poll.st
           /\ lapsed' = lapsed \cup {m \in UNION {Mail!Mails(c) : c \in file.old} : m[2] <= file.cursor[m[1]]}
  <2>1. MailTypeOK' /\ MailInOrder'
    <3>1. lapsed' \subseteq Mail!Rows
      BY <1>0, <1>4 DEF MailTypeOK, Mail!Mails
    <3> QED BY <1>0, <1>1, <1>2, <1>4, <3>1 DEF MailInv, MailTypeOK, Mail!Rows, MailInOrder, MailNumber
  <2>2. MailCursor(file)'
    BY <1>1, <1>4 DEF MailCursor, MailNumber
  <2>3. MailKept(file, {})'
    <3> SUFFICES ASSUME NEW t \in Mail!Table, NEW i \in MailNumber(t), i <= poll.st.cursor[t], mail[t][i] > 0,
                        mail[t][i] \in file.old, i <= file.cursor[t]
                 PROVE  <<t, i>> \in lapsed'
      BY <1>1, <1>4 DEF MailKept, MailNumber
    <3>1. <<t, i>> \in Mail!Mails(mail[t][i])
      BY MailRows DEF Mail!Mails
    <3>2. <<t, i>> \in UNION {Mail!Mails(c) : c \in file.old}
      BY <3>1
    <3> QED BY <1>4, <3>2
  <2> QED BY <1>1, <1>2, <2>1, <2>2, <2>3 DEF MailInv
<1> QED BY <1>3, <1>4 DEF Mail!saveState

\* Nothing changes.
LEMMA MailStutter == ASSUME MailInv, UNCHANGED Mail!vars PROVE MailInv'
  BY DEF Mail!vars, MailInv, MailTypeOK, Mail!Rows, MailInOrder, MailCursor, MailKept, MailNumber

\* PassedIsKept: no mail that the saved cursors have passed is lost, whatever query, save
\* or notification fails and wherever the process ends, for any number of mails and
\* characters and any limits, if mails are committed in the order of their numbers.
THEOREM NoMailIsSkipped ==
    ASSUME MailConstants
    PROVE  Mail!Spec => []Mail!PassedIsKept /\ []PassedIsKept
<1>1. Mail!Init => MailInv
  BY MailInit
<1>2. MailInv /\ [Mail!Next]_Mail!vars => MailInv'
  <2> SUFFICES ASSUME MailInv, [Mail!Next]_Mail!vars PROVE MailInv'
    OBVIOUS
  <2>1. CASE \E m \in Mail!Rows : Mail!Arrive(m[1], m[2])
    BY <2>1, MailArrive
  <2>2. CASE \E c \in Charac : Mail!NotifyNewMail(c)
    BY <2>2, MailTell
  <2> QED BY <2>1, <2>2, MailAside, MailLoad, MailBase, MailPrune, MailCollect, MailSave, MailStutter
    DEF Mail!Next
<1>3. MailInv => Mail!PassedIsKept
  <2> SUFFICES ASSUME MailInv, file.ok, NEW m \in Mail!Rows, m[2] <= file.cursor[m[1]], mail[m[1]][m[2]] > 0
               PROVE  m \in told \cup lapsed \/ mail[m[1]][m[2]] \in file.pending
    BY DEF Mail!PassedIsKept
  <2>1. m[1] \in Mail!Table /\ m[2] \in MailNumber(m[1]) /\ m = <<m[1], m[2]>>
    BY MailRows
  <2>2. MailKept(file, {})
    BY DEF MailInv
  <2> QED BY <2>1, <2>2 DEF MailKept
<1>4. Mail!PassedIsKept => PassedIsKept
  BY DEF PassedIsKept
<1> QED BY <1>1, <1>2, <1>3, <1>4, PTL DEF Mail!Spec

-----------------------------------------------------------------------------
(* KeyPair: the cached status.                                             *)

KeyPc == {"idle", "stat", "priv", "pub", "source", "copy", "source2", "copy2", "built", "init"} \cup Keys!Files
KeyVal == {"none", "d", "u", "bad"}
KeyCall == [pc : KeyPc, derive : BOOLEAN, priv : KeyVal, valid : BOOLEAN, copy : KeyVal, err : BOOLEAN]
KeyBudget == [look : Int, release : Int, fault : Int, crossed : BOOLEAN]
KeyTypeOK ==
    /\ file \in [Keys!Files -> KeyVal]
    /\ proc \in [Keys!Proc -> KeyCall]
    /\ cache \in [valid : BOOLEAN, stamp : Int, loaded : BOOLEAN, status : BOOLEAN]
    /\ stamp \in Int
    /\ budget \in KeyBudget /\ budget.fault <= MaxFaults

\* A status is that of the files, and no builder can make it another one.
KeyTrue(status) ==
    /\ status = Keys!GameValid
    /\ Keys!IsKey(file["gamePriv"]) => file["gamePub"] # "none"

\* While no default pair is being released, the private key stays as it is and so does
\* the public one once it is there, unless a derived one crosses it.
KeySettled ==
    /\ cache.valid => KeyTrue(cache.status)
    /\ proc["current"].pc \in {"priv", "pub"} /\ ~proc["current"].derive => file["gamePub"] # "none"
    /\ proc["current"].pc = "pub" =>
         proc["current"].priv = file["gamePriv"] /\ Keys!IsKey(file["gamePriv"])
    /\ proc["current"].pc \in {"source", "copy", "source2", "copy2", "built"} =>
         KeyTrue(proc["current"].valid)

KeyInv ==
    /\ KeyTypeOK
    /\ Keys!Undisturbed => /\ ~proc["release"].err
                           /\ proc["release"].pc = "idle" => KeySettled

\* A fault is spent or there is none.
LEMMA KeyFault ==
    ASSUME KeyTypeOK, KeyConstants, Keys!Fault
    PROVE  /\ budget' \in KeyBudget /\ budget'.fault <= MaxFaults
           /\ ~Keys!Undisturbed'
<1>1. budget \in KeyBudget /\ budget.fault <= MaxFaults /\ MaxFaults \in Int
  BY DEF KeyTypeOK, KeyConstants
<1>2. budget' = [budget EXCEPT !.fault = budget.fault - 1]
  BY DEF Keys!Fault
<1>3. budget'.fault = budget.fault - 1 /\ budget' \in KeyBudget
  BY <1>1, <1>2 DEF KeyBudget
<1>4. budget.fault \in Int
  BY <1>1 DEF KeyBudget
<1>5. budget'.fault <= MaxFaults /\ budget'.fault # MaxFaults
  BY <1>1, <1>3, <1>4
<1> QED BY <1>3, <1>5 DEF Keys!Undisturbed

\* One call's step: its pc and what it notes.
LEMMA KeyTo ==
    ASSUME KeyTypeOK, NEW p \in Keys!Proc, NEW c \in KeyCall, proc' = [proc EXCEPT ![p] = c]
    PROVE  proc' \in [Keys!Proc -> KeyCall] /\ proc'[p] = c /\ \A q \in Keys!Proc : q # p => proc'[q] = proc[q]
  BY DEF KeyTypeOK

\* A call goes to its next statement.
LEMMA KeyToPc ==
    ASSUME KeyTypeOK, NEW p \in Keys!Proc, NEW pc \in KeyPc, Keys!To(p, pc)
    PROVE  /\ proc' \in [Keys!Proc -> KeyCall] /\ \A q \in Keys!Proc : q # p => proc'[q] = proc[q]
           /\ proc'[p].pc = pc /\ proc'[p].priv = proc[p].priv /\ proc'[p].valid = proc[p].valid
           /\ proc'[p].err = proc[p].err /\ proc'[p].derive = proc[p].derive
<1>1. proc[p] \in KeyCall
  BY DEF KeyTypeOK
<1>2. proc' = [proc EXCEPT ![p] = [proc[p] EXCEPT !.pc = pc]]
  BY <1>1 DEF Keys!To, KeyTypeOK
<1>3. [proc[p] EXCEPT !.pc = pc] \in KeyCall
  BY <1>1 DEF KeyCall
<1>4. proc'[p] = [proc[p] EXCEPT !.pc = pc]
  BY <1>2, <1>3, KeyTo
<1> QED BY <1>1, <1>2, <1>3, <1>4, KeyTo DEF KeyCall

\* The callers and the files are what their names say.
LEMMA KeyNames ==
    /\ {"gamePriv", "gamePub", "cfgPriv", "cfgPub"} = Keys!Files
    /\ {"current", "release"} \subseteq Keys!Proc /\ Viewer \subseteq Keys!Proc
    /\ Keys!Idle \in KeyCall /\ Keys!Idle.pc = "idle" /\ ~Keys!Idle.valid /\ ~Keys!Idle.err
  BY DEF Keys!Files, Keys!Proc, Keys!Idle, KeyCall, KeyPc, KeyVal

\* ensureGameKeypair returns to its caller.
LEMMA KeyReturns ==
    ASSUME KeyTypeOK, NEW p \in Keys!Proc, NEW v \in BOOLEAN, Keys!Returns(p, v)
    PROVE  /\ proc' \in [Keys!Proc -> KeyCall] /\ \A q \in Keys!Proc : q # p => proc'[q] = proc[q]
           /\ proc'[p].pc \in {"source", "built"} /\ proc'[p].valid = v /\ proc'[p].err = proc[p].err
<1>1. proc[p] \in KeyCall
  BY DEF KeyTypeOK
<1> DEFINE pc == IF v THEN "source" ELSE "built"
           c == [Keys!Idle EXCEPT !.pc = pc, !.valid = v, !.err = proc[p].err]
<1>2. pc \in {"source", "built"} /\ pc \in KeyPc
  BY DEF KeyPc
<1>3. proc' = [proc EXCEPT ![p] = c]
  BY DEF Keys!Returns
<1> HIDE DEF pc
<1>4. c \in KeyCall /\ c.pc = pc /\ c.valid = v /\ c.err = proc[p].err
  BY <1>1, <1>2, KeyNames DEF KeyCall
<1> HIDE DEF c
<1> QED BY <1>2, <1>3, <1>4, KeyTo

\* A file is written.
LEMMA KeyPut ==
    ASSUME KeyTypeOK, NEW f \in Keys!Files, NEW k \in KeyVal, Keys!Put(f, k)
    PROVE  /\ file' \in [Keys!Files -> KeyVal] /\ stamp' \in Int /\ file'[f] = k
           /\ \A g \in Keys!Files : g # f => file'[g] = file[g]
  BY DEF KeyTypeOK, Keys!Put

\* A step that leaves the game's two files and the cache alone, and of the calls only
\* those that are not CurrentStatus, or CurrentStatus at a pc that notes nothing.
LEMMA KeyAside ==
    ASSUME KeyInv, KeyTypeOK', Keys!Undisturbed' => Keys!Undisturbed,
           file'["gamePriv"] = file["gamePriv"], file'["gamePub"] = file["gamePub"],
           UNCHANGED cache,
           proc'["release"].err = proc["release"].err,
           proc'["release"].pc = "idle" => proc["release"].pc = "idle",
           \/ proc'["current"].pc \in {"idle", "stat"}
           \/ proc'["current"] = proc["current"]
           \/ /\ proc["current"].pc \in {"source", "copy", "source2", "copy2", "built"}
              /\ proc'["current"].pc \in {"source", "copy", "source2", "copy2", "built"}
              /\ proc'["current"].valid = proc["current"].valid
    PROVE  KeyInv'
  BY DEF KeyInv, KeySettled, KeyTrue, Keys!GameValid

\* A write that fails, a file that is replaced by hand, and a derived public key that
\* replaces another one, end the claim.
LEMMA KeyDisturbed == ASSUME KeyTypeOK', ~Keys!Undisturbed' PROVE KeyInv'
  BY DEF KeyInv

\* Nothing is cached at first.
LEMMA KeyInit == ASSUME KeyConstants, Keys!Init PROVE KeyInv
<1>1. file \in [Keys!Files -> KeyVal] /\ stamp \in Int
  BY DEF Keys!Init, KeyVal
<1>2. proc = [p \in Keys!Proc |-> Keys!Idle]
  BY DEF Keys!Init
<1>3. proc \in [Keys!Proc -> KeyCall] /\ proc["current"].pc = "idle" /\ ~proc["release"].err
  BY <1>2, KeyNames
<1>4. budget \in KeyBudget /\ budget.fault <= MaxFaults
  BY DEF Keys!Init, KeyConstants, KeyBudget
<1>5. cache \in [valid : BOOLEAN, stamp : Int, loaded : BOOLEAN, status : BOOLEAN] /\ ~cache.valid
  BY DEF Keys!Init
<1>6. KeyTypeOK
  BY <1>1, <1>3, <1>4, <1>5 DEF KeyTypeOK
<1> QED BY <1>3, <1>5, <1>6 DEF KeyInv, KeySettled

\* A call that is not CurrentStatus moves within the build, and reads only.
LEMMA KeyOthers ==
    ASSUME KeyInv, KeyTypeOK', NEW p \in Keys!Proc, p # "current", proc[p].pc # "idle",
           \A q \in Keys!Proc : q # p => proc'[q] = proc[q], proc'[p].err = proc[p].err,
           proc'[p].pc # "idle", UNCHANGED <<file, cache, budget>>
    PROVE  KeyInv'
<1>1. proc'["current"] = proc["current"]
  BY KeyNames
<1>2. proc'["release"].err = proc["release"].err /\ (proc'["release"].pc = "idle" => proc["release"].pc = "idle")
  BY KeyNames
<1> QED BY <1>1, <1>2, KeyAside DEF Keys!Undisturbed

\* CurrentStatus moves within the build, and what it notes is what KeySettled wants.
LEMMA KeyCurrent ==
    ASSUME KeyInv, KeyTypeOK', proc["current"].pc # "idle", UNCHANGED <<file, cache, budget>>,
           proc'["release"] = proc["release"],
           KeySettled =>
             \/ /\ proc'["current"].pc = "priv" /\ (~proc'["current"].derive => file["gamePub"] # "none")
             \/ /\ proc'["current"].pc = "pub" /\ (~proc'["current"].derive => file["gamePub"] # "none")
                /\ proc'["current"].priv = file["gamePriv"] /\ Keys!IsKey(file["gamePriv"])
             \/ /\ proc'["current"].pc \in {"source", "built"}
                /\ KeyTrue(proc'["current"].valid)
    PROVE  KeyInv'
<1>1. ASSUME NEW v, KeyTrue(v) PROVE KeyTrue(v)'
  BY <1>1 DEF KeyTrue, Keys!GameValid
<1>2. KeySettled => KeySettled'
  <2> SUFFICES ASSUME KeySettled PROVE KeySettled'
    OBVIOUS
  <2>1. cache'.valid => KeyTrue(cache.status)'
    BY <1>1 DEF KeySettled
  <2>2. CASE proc'["current"].pc = "priv" /\ (~proc'["current"].derive => file["gamePub"] # "none")
    BY <2>1, <2>2 DEF KeySettled
  <2>3. CASE /\ proc'["current"].pc = "pub" /\ (~proc'["current"].derive => file["gamePub"] # "none")
             /\ proc'["current"].priv = file["gamePriv"] /\ Keys!IsKey(file["gamePriv"])
    BY <2>1, <2>3 DEF KeySettled
  <2>4. CASE proc'["current"].pc \in {"source", "built"} /\ KeyTrue(proc'["current"].valid)
    <3>1. KeyTrue(proc["current"].valid)'
      BY <2>4 DEF KeyTrue, Keys!GameValid
    <3> QED BY <2>1, <2>4, <3>1 DEF KeySettled
  <2> QED BY <2>2, <2>3, <2>4
<1> QED BY <1>2 DEF KeyInv, Keys!Undisturbed

\* The files are looked for.
LEMMA KeyStatPair ==
    ASSUME KeyInv, NEW p \in Keys!Proc, Keys!StatPair(p) PROVE KeyInv'
<1>0. KeyTypeOK /\ proc[p] \in KeyCall /\ proc[p].pc = "stat" /\ UNCHANGED <<file, stamp, mem, cache, budget>>
  BY DEF KeyInv, KeyTypeOK, Keys!StatPair
<1>1. CASE file["gamePriv"] = "none"
  <2>1. Keys!Returns(p, FALSE)
    BY <1>1 DEF Keys!StatPair
  <2>2. /\ proc' \in [Keys!Proc -> KeyCall] /\ \A q \in Keys!Proc : q # p => proc'[q] = proc[q]
        /\ proc'[p].pc \in {"source", "built"} /\ proc'[p].valid = FALSE /\ proc'[p].err = proc[p].err
    BY <1>0, <2>1, KeyReturns
  <2>3. KeyTypeOK'
    BY <1>0, <2>2 DEF KeyTypeOK
  <2>4. KeyTrue(FALSE)
    BY <1>1 DEF KeyTrue, Keys!GameValid, Keys!IsKey
  <2>5. CASE p = "current"
    BY <1>0, <2>2, <2>3, <2>4, <2>5, KeyCurrent, KeyNames
  <2>6. CASE p # "current"
    BY <1>0, <2>2, <2>3, <2>6, KeyOthers
  <2> QED BY <2>5, <2>6
<1>2. CASE file["gamePriv"] # "none"
  <2>0. PICK d \in BOOLEAN : d = (file["gamePub"] = "none")
    OBVIOUS
  <2> DEFINE c == [proc[p] EXCEPT !.pc = "priv", !.derive = d]
  <2>1. proc' = [proc EXCEPT ![p] = c]
    BY <1>0, <1>2, <2>0 DEF Keys!StatPair, KeyTypeOK, KeyCall
  <2>2. c \in KeyCall /\ c.pc = "priv" /\ c.derive = d /\ c.err = proc[p].err
    BY <1>0, <2>0 DEF KeyCall, KeyPc
  <2> HIDE DEF c
  <2>3. proc' \in [Keys!Proc -> KeyCall] /\ proc'[p] = c /\ \A q \in Keys!Proc : q # p => proc'[q] = proc[q]
    BY <1>0, <2>1, <2>2, KeyTo
  <2>4. KeyTypeOK'
    BY <1>0, <2>3 DEF KeyTypeOK
  <2>5. CASE p = "current"
    <3>1. ~proc'["current"].derive => file["gamePub"] # "none"
      BY <2>0, <2>2, <2>3, <2>5
    <3> QED BY <1>0, <2>2, <2>3, <2>4, <2>5, <3>1, KeyCurrent, KeyNames
  <2>6. CASE p # "current"
    BY <1>0, <2>2, <2>3, <2>4, <2>6, KeyOthers
  <2> QED BY <2>5, <2>6
<1> QED BY <1>1, <1>2

\* The private key is read.
LEMMA KeyReadPrivate ==
    ASSUME KeyInv, NEW p \in Keys!Proc, Keys!ReadPrivate(p) PROVE KeyInv'
<1>0. KeyTypeOK /\ proc[p] \in KeyCall /\ proc[p].pc = "priv" /\ UNCHANGED <<file, stamp, mem, cache, budget>>
  BY DEF KeyInv, KeyTypeOK, Keys!ReadPrivate
<1>1. CASE ~Keys!IsKey(file["gamePriv"])
  <2>1. Keys!Returns(p, FALSE)
    BY <1>1 DEF Keys!ReadPrivate
  <2>2. /\ proc' \in [Keys!Proc -> KeyCall] /\ \A q \in Keys!Proc : q # p => proc'[q] = proc[q]
        /\ proc'[p].pc \in {"source", "built"} /\ proc'[p].valid = FALSE /\ proc'[p].err = proc[p].err
    BY <1>0, <2>1, KeyReturns
  <2>3. KeyTypeOK'
    BY <1>0, <2>2 DEF KeyTypeOK
  <2>4. KeyTrue(FALSE)
    BY <1>1 DEF KeyTrue, Keys!GameValid
  <2>5. CASE p = "current"
    BY <1>0, <2>2, <2>3, <2>4, <2>5, KeyCurrent, KeyNames
  <2>6. CASE p # "current"
    BY <1>0, <2>2, <2>3, <2>6, KeyOthers
  <2> QED BY <2>5, <2>6
<1>2. CASE Keys!IsKey(file["gamePriv"])
  <2> DEFINE c == [proc[p] EXCEPT !.pc = "pub", !.priv = file["gamePriv"]]
  <2>0. file["gamePriv"] \in KeyVal
    BY <1>0, KeyNames DEF KeyTypeOK
  <2>1. proc' = [proc EXCEPT ![p] = c]
    BY <1>0, <1>2 DEF Keys!ReadPrivate, KeyTypeOK, KeyCall
  <2>2. /\ c \in KeyCall /\ c.pc = "pub" /\ c.priv = file["gamePriv"] /\ c.derive = proc[p].derive
        /\ c.err = proc[p].err
    BY <1>0, <2>0 DEF KeyCall, KeyPc
  <2> HIDE DEF c
  <2>3. proc' \in [Keys!Proc -> KeyCall] /\ proc'[p] = c /\ \A q \in Keys!Proc : q # p => proc'[q] = proc[q]
    BY <1>0, <2>1, <2>2, KeyTo
  <2>4. KeyTypeOK'
    BY <1>0, <2>3 DEF KeyTypeOK
  <2>5. CASE p = "current"
    <3>1. KeySettled => (~proc'["current"].derive => file["gamePub"] # "none")
      BY <1>0, <2>2, <2>3, <2>5 DEF KeySettled
    <3> QED BY <1>0, <1>2, <2>2, <2>3, <2>4, <2>5, <3>1, KeyCurrent, KeyNames
  <2>6. CASE p # "current"
    BY <1>0, <2>2, <2>3, <2>4, <2>6, KeyOthers
  <2> QED BY <2>5, <2>6
<1> QED BY <1>1, <1>2

\* The public key is read.
LEMMA KeyReadPublic ==
    ASSUME KeyInv, NEW p \in Keys!Proc, Keys!ReadPublic(p) PROVE KeyInv'
<1>0. /\ KeyTypeOK /\ proc[p] \in KeyCall /\ proc[p].pc = "pub" /\ ~proc[p].derive
      /\ UNCHANGED <<file, stamp, mem, cache, budget>>
  BY DEF KeyInv, KeyTypeOK, Keys!ReadPublic
<1>1. PICK v \in BOOLEAN : v = (file["gamePub"] = proc[p].priv)
  OBVIOUS
<1>2. Keys!Returns(p, v)
  BY <1>1 DEF Keys!ReadPublic, Keys!Returns
<1>3. /\ proc' \in [Keys!Proc -> KeyCall] /\ \A q \in Keys!Proc : q # p => proc'[q] = proc[q]
      /\ proc'[p].pc \in {"source", "built"} /\ proc'[p].valid = v /\ proc'[p].err = proc[p].err
  BY <1>0, <1>2, KeyReturns
<1>4. KeyTypeOK'
  BY <1>0, <1>3 DEF KeyTypeOK
<1>5. CASE p = "current"
  <2>1. KeySettled => KeyTrue(v)
    <3> SUFFICES ASSUME KeySettled PROVE KeyTrue(v)
      OBVIOUS
    <3>1. proc[p].priv = file["gamePriv"] /\ Keys!IsKey(file["gamePriv"]) /\ file["gamePub"] # "none"
      BY <1>0, <1>5 DEF KeySettled
    <3>2. CASE v = TRUE
      <4>1. file["gamePub"] = file["gamePriv"]
        BY <1>1, <3>1, <3>2
      <4>2. Keys!GameValid
        BY <3>1, <4>1 DEF Keys!GameValid
      <4> QED BY <3>1, <3>2, <4>2 DEF KeyTrue
    <3>3. CASE v = FALSE
      <4>1. file["gamePub"] # file["gamePriv"]
        BY <1>1, <3>1, <3>3
      <4> QED BY <3>1, <3>3, <4>1 DEF KeyTrue, Keys!GameValid
    <3> QED BY <3>2, <3>3
  <2> QED BY <1>0, <1>3, <1>4, <1>5, <2>1, KeyCurrent, KeyNames
<1>6. CASE p # "current"
  BY <1>0, <1>3, <1>4, <1>6, KeyOthers
<1> QED BY <1>5, <1>6

\* The public key is derived and written, perhaps over another one.
LEMMA KeyDerivePublic ==
    ASSUME KeyConstants, KeyInv, NEW p \in Keys!Proc, Keys!DerivePublic(p) PROVE KeyInv'
<1>0. KeyTypeOK /\ proc[p] \in KeyCall /\ proc[p].pc = "pub" /\ UNCHANGED <<mem, cache>>
  BY DEF KeyInv, KeyTypeOK, Keys!DerivePublic
<1>1. CASE Keys!Fault /\ Keys!Returns(p, FALSE) /\ UNCHANGED <<file, stamp>>
  <2>1. budget' \in KeyBudget /\ budget'.fault <= MaxFaults /\ ~Keys!Undisturbed'
    BY <1>0, <1>1, KeyFault
  <2>2. proc' \in [Keys!Proc -> KeyCall]
    BY <1>0, <1>1, KeyReturns
  <2>3. KeyTypeOK'
    BY <1>0, <1>1, <2>1, <2>2 DEF KeyTypeOK
  <2> QED BY <2>1, <2>3, KeyDisturbed
<1>2. CASE /\ Keys!Returns(p, TRUE) /\ Keys!Put("gamePub", proc[p].priv)
           /\ budget' = [budget EXCEPT !.crossed = budget.crossed \/ file["gamePub"] \notin {"none", proc[p].priv}]
  <2>0. /\ file' \in [Keys!Files -> KeyVal] /\ stamp' \in Int /\ file'["gamePub"] = proc[p].priv
        /\ file'["gamePriv"] = file["gamePriv"]
    BY <1>0, <1>2, KeyPut, KeyNames DEF KeyCall
  <2>1. /\ proc' \in [Keys!Proc -> KeyCall] /\ \A q \in Keys!Proc : q # p => proc'[q] = proc[q]
        /\ proc'[p].pc \in {"source", "built"} /\ proc'[p].valid = TRUE /\ proc'[p].err = proc[p].err
    BY <1>0, <1>2, KeyReturns
  <2>2. budget' \in KeyBudget /\ budget'.fault = budget.fault
    BY <1>0, <1>2 DEF KeyTypeOK, KeyBudget
  <2>3. KeyTypeOK'
    BY <1>0, <2>0, <2>1, <2>2 DEF KeyTypeOK
  <2>4. CASE file["gamePub"] \notin {"none", proc[p].priv}
    <3>1. budget'.crossed = TRUE
      BY <1>0, <1>2, <2>4 DEF KeyTypeOK, KeyBudget
    <3> QED BY <2>3, <3>1, KeyDisturbed DEF Keys!Undisturbed
  <2>5. CASE file["gamePub"] \in {"none", proc[p].priv}
    <3>0. Keys!Undisturbed' => Keys!Undisturbed
      <4>1. budget'.crossed = budget.crossed
        BY <1>0, <1>2, <2>5 DEF KeyTypeOK, KeyBudget
      <4> QED BY <2>2, <4>1 DEF Keys!Undisturbed
    <3>1. ASSUME NEW s, KeyTrue(s) PROVE KeyTrue(s)'
      <4>1. CASE file["gamePub"] = "none"
        <5>1. ~Keys!IsKey(file["gamePriv"]) /\ ~Keys!IsKey(file'["gamePriv"])
          BY <2>0, <3>1, <4>1 DEF KeyTrue
        <5> QED BY <3>1, <5>1 DEF KeyTrue, Keys!GameValid
      <4>2. CASE file["gamePub"] = proc[p].priv
        BY <2>0, <3>1, <4>2 DEF KeyTrue, Keys!GameValid
      <4> QED BY <2>5, <4>1, <4>2
    <3>2. file["gamePub"] # "none" => file'["gamePub"] # "none"
      BY <2>0, <2>5
    <3>3. CASE p # "current"
      <4>1. /\ proc'["current"] = proc["current"] /\ proc'["release"].err = proc["release"].err
            /\ proc'["release"].pc = "idle" => proc["release"].pc = "idle"
        BY <1>0, <2>1, <3>3, KeyNames
      <4>2. KeySettled => KeySettled'
        BY <1>0, <2>0, <3>1, <3>2, <4>1 DEF KeySettled
      <4> QED BY <2>3, <3>0, <4>1, <4>2 DEF KeyInv
    <3>4. CASE p = "current"
      <4>1. proc'["current"].valid = TRUE /\ proc'["current"].pc \in {"source", "built"}
            /\ proc'["release"] = proc["release"]
        BY <2>1, <3>4, KeyNames
      <4>2. KeySettled => KeyTrue(TRUE)'
        BY <1>0, <2>0, <3>4 DEF KeySettled, KeyTrue, Keys!GameValid, Keys!IsKey
      <4>3. KeySettled => KeySettled'
        BY <1>0, <3>1, <4>1, <4>2 DEF KeySettled
      <4> QED BY <2>3, <3>0, <4>1, <4>3 DEF KeyInv
    <3> QED BY <3>3, <3>4
  <2> QED BY <2>4, <2>5
<1> QED BY <1>1, <1>2 DEF Keys!DerivePublic

\* The copies of the pair.
LEMMA KeyCopies ==
    ASSUME KeyConstants, KeyInv, NEW p \in Keys!Proc, Keys!ReadSource(p) \/ Keys!copyFileIfDifferent(p)
    PROVE  KeyInv'
<1>0. KeyTypeOK /\ proc[p] \in KeyCall /\ UNCHANGED <<mem, cache>>
      /\ proc[p].pc \in {"source", "copy", "source2", "copy2"}
  BY DEF KeyInv, KeyTypeOK, Keys!ReadSource, Keys!copyFileIfDifferent
<1>1. CASE Keys!ReadSource(p)
  <2> DEFINE pc == IF proc[p].pc = "source" THEN "copy" ELSE "copy2"
             k == file[IF proc[p].pc = "source" THEN "gamePriv" ELSE "gamePub"]
             c == [proc[p] EXCEPT !.pc = pc, !.copy = k]
  <2>1. proc' = [proc EXCEPT ![p] = c] /\ UNCHANGED <<file, stamp, budget>>
    BY <1>0, <1>1 DEF Keys!ReadSource, KeyTypeOK, KeyCall
  <2>2. pc \in {"copy", "copy2"} /\ k \in KeyVal
    BY <1>0, KeyNames DEF KeyTypeOK
  <2> HIDE DEF pc, k
  <2>3. c \in KeyCall /\ c.pc = pc /\ c.valid = proc[p].valid /\ c.err = proc[p].err
    BY <1>0, <2>2 DEF KeyCall, KeyPc
  <2> HIDE DEF c
  <2>4. proc' \in [Keys!Proc -> KeyCall] /\ proc'[p] = c /\ \A q \in Keys!Proc : q # p => proc'[q] = proc[q]
    BY <1>0, <2>1, <2>3, KeyTo
  <2>5. KeyTypeOK'
    BY <1>0, <2>1, <2>4 DEF KeyTypeOK
  <2>6. CASE p = "current"
    BY <1>0, <2>1, <2>2, <2>3, <2>4, <2>5, <2>6, KeyAside, KeyNames DEF Keys!Undisturbed
  <2>7. CASE p # "current"
    BY <1>0, <2>1, <2>2, <2>3, <2>4, <2>5, <2>7, KeyAside, KeyNames DEF Keys!Undisturbed
  <2> QED BY <2>6, <2>7
<1>2. CASE Keys!copyFileIfDifferent(p)
  <2>1. PICK pc \in {"source2", "built"}, dst \in {"cfgPriv", "cfgPub"} :
          /\ proc' = [proc EXCEPT ![p].pc = pc, ![p].copy = "none"]
          /\ UNCHANGED budget \/ Keys!Fault
          /\ UNCHANGED <<file, stamp>> \/ Keys!Put(dst, proc[p].copy)
    BY <1>2 DEF Keys!copyFileIfDifferent
  <2>2. /\ proc' \in [Keys!Proc -> KeyCall] /\ \A q \in Keys!Proc : q # p => proc'[q] = proc[q]
        /\ proc'[p].pc = pc /\ proc'[p].valid = proc[p].valid /\ proc'[p].err = proc[p].err
    <3> DEFINE c == [proc[p] EXCEPT !.pc = pc, !.copy = "none"]
    <3>1. proc' = [proc EXCEPT ![p] = c]
      BY <1>0, <2>1 DEF KeyTypeOK, KeyCall
    <3>2. c \in KeyCall /\ c.pc = pc /\ c.valid = proc[p].valid /\ c.err = proc[p].err
      BY <1>0, <2>1 DEF KeyCall, KeyPc, KeyVal
    <3> HIDE DEF c
    <3> QED BY <1>0, <3>1, <3>2, KeyTo
  <2>3. /\ budget' \in KeyBudget /\ budget'.fault <= MaxFaults
        /\ Keys!Undisturbed' => Keys!Undisturbed
    BY <1>0, <2>1, KeyFault DEF KeyTypeOK, Keys!Undisturbed
  <2>4. /\ file' \in [Keys!Files -> KeyVal] /\ stamp' \in Int
        /\ file'["gamePriv"] = file["gamePriv"] /\ file'["gamePub"] = file["gamePub"]
    <3>1. CASE UNCHANGED <<file, stamp>>
      BY <1>0, <3>1 DEF KeyTypeOK
    <3>2. CASE Keys!Put(dst, proc[p].copy)
      BY <1>0, <3>2, KeyPut, KeyNames DEF KeyCall
    <3> QED BY <2>1, <3>1, <3>2
  <2>5. KeyTypeOK'
    BY <1>0, <2>2, <2>3, <2>4 DEF KeyTypeOK
  <2>6. CASE p = "current"
    BY <1>0, <2>2, <2>3, <2>4, <2>5, <2>6, KeyAside, KeyNames
  <2>7. CASE p # "current"
    BY <1>0, <2>2, <2>3, <2>4, <2>5, <2>7, KeyAside, KeyNames
  <2> QED BY <2>6, <2>7
<1> QED BY <1>1, <1>2

\* A look at the status, cached or built.
LEMMA KeyLooks ==
    ASSUME KeyConstants, KeyInv,
           (\E p \in Keys!Proc : Keys!Look(p)) \/ Keys!Store \/ (\E v \in Viewer : Keys!Viewed(v))
    PROVE  KeyInv'
<1>0. KeyTypeOK
  BY DEF KeyInv
<1>1. ASSUME NEW p \in Keys!Proc, Keys!Look(p) PROVE KeyInv'
  <2>1. Keys!To(p, "stat") /\ p # "release" /\ UNCHANGED <<file, stamp, mem, cache>>
        /\ budget' = [budget EXCEPT !.look = budget.look - 1]
    BY <1>1 DEF Keys!Look
  <2>2. proc' \in [Keys!Proc -> KeyCall] /\ proc'[p].pc = "stat" /\ \A q \in Keys!Proc : q # p => proc'[q] = proc[q]
    BY <1>0, <2>1, KeyToPc DEF KeyPc
  <2>3. /\ budget' \in KeyBudget /\ budget'.fault <= MaxFaults
        /\ Keys!Undisturbed' => Keys!Undisturbed
    BY <1>0, <2>1 DEF KeyTypeOK, KeyBudget, Keys!Undisturbed
  <2>4. KeyTypeOK'
    BY <1>0, <2>1, <2>2, <2>3 DEF KeyTypeOK
  <2> QED BY <2>1, <2>2, <2>3, <2>4, KeyAside, KeyNames
<1>2. CASE Keys!Store
  <2>1. /\ proc["current"].pc = "built" /\ proc' = [proc EXCEPT !["current"] = Keys!Idle]
        /\ cache' = [valid |-> TRUE, stamp |-> stamp, loaded |-> mem # "none",
                     status |-> proc["current"].valid]
        /\ UNCHANGED <<file, stamp, mem, budget>>
    BY <1>2 DEF Keys!Store
  <2>2. /\ proc' \in [Keys!Proc -> KeyCall] /\ proc'["current"] = Keys!Idle
        /\ proc'["release"] = proc["release"]
    BY <1>0, <2>1, KeyTo, KeyNames
  <2>3. proc["current"].valid \in BOOLEAN
    BY <1>0, KeyNames DEF KeyTypeOK, KeyCall
  <2>4. KeyTypeOK'
    BY <1>0, <2>1, <2>2, <2>3 DEF KeyTypeOK
  <2>5. KeySettled => KeySettled'
    <3>1. KeySettled => KeyTrue(proc["current"].valid)
      BY <2>1 DEF KeySettled
    <3>2. KeyTrue(proc["current"].valid) => KeyTrue(cache.status)'
      BY <2>1 DEF KeyTrue, Keys!GameValid
    <3> QED BY <2>2, <3>1, <3>2, KeyNames DEF KeySettled
  <2> QED BY <2>1, <2>2, <2>4, <2>5 DEF KeyInv, Keys!Undisturbed
<1>3. ASSUME NEW v \in Viewer, Keys!Viewed(v) PROVE KeyInv'
  <2>1. proc' = [proc EXCEPT ![v] = Keys!Idle] /\ UNCHANGED <<file, stamp, mem, cache, budget>>
    BY <1>3 DEF Keys!Viewed
  <2>2. /\ proc' \in [Keys!Proc -> KeyCall] /\ proc'[v] = Keys!Idle
        /\ \A q \in Keys!Proc : q # v => proc'[q] = proc[q]
    BY <1>0, <2>1, KeyTo, KeyNames
  <2>3. KeyTypeOK'
    BY <1>0, <2>1, <2>2 DEF KeyTypeOK
  <2>4. v # "release" /\ {"current", "release"} \subseteq Keys!Proc /\ Keys!Idle.pc = "idle"
    BY KeyNames DEF KeyConstants
  <2>5. proc'["release"] = proc["release"] /\ (proc'["current"].pc = "idle" \/ proc'["current"] = proc["current"])
    BY <2>2, <2>4
  <2> QED BY <2>1, <2>3, <2>5, KeyAside DEF Keys!Undisturbed
<1> QED BY <1>1, <1>2, <1>3

\* ReleaseDefault drops the cached status before its first and after its last write,
\* and each time waits for the CurrentStatus that is under way.
LEMMA KeyReleases ==
    ASSUME KeyConstants, KeyInv,
           Keys!ReleaseDefault \/ Keys!WriteDefault \/ Keys!InitPrivateKey \/ Keys!Released
    PROVE  KeyInv'
<1>0. KeyTypeOK
  BY DEF KeyInv
<1>a. /\ "release" \in Keys!Proc /\ "current" \in Keys!Proc /\ proc["release"] \in KeyCall
  BY <1>0, KeyNames DEF KeyTypeOK
<1>b. ASSUME Keys!Invalidate
      PROVE  /\ cache' \in [valid : BOOLEAN, stamp : Int, loaded : BOOLEAN, status : BOOLEAN]
             /\ ~cache'.valid /\ proc["current"].pc = "idle"
  BY <1>0, <1>b DEF Keys!Invalidate, Keys!CacheFree, KeyTypeOK
<1>1. CASE Keys!ReleaseDefault
  <2>1. /\ Keys!To("release", "gamePriv") /\ Keys!Invalidate /\ UNCHANGED <<file, stamp, mem>>
        /\ budget' = [budget EXCEPT !.release = budget.release - 1]
    BY <1>1 DEF Keys!ReleaseDefault
  <2>2. /\ proc' \in [Keys!Proc -> KeyCall] /\ proc'["release"].pc = "gamePriv"
        /\ proc'["release"].err = proc["release"].err
    BY <1>0, <1>a, <2>1, KeyToPc, KeyNames DEF KeyPc
  <2>3. /\ budget' \in KeyBudget /\ budget'.fault <= MaxFaults
        /\ Keys!Undisturbed' => Keys!Undisturbed
    BY <1>0, <2>1 DEF KeyTypeOK, KeyBudget, Keys!Undisturbed
  <2>4. KeyTypeOK'
    BY <1>0, <1>b, <2>1, <2>2, <2>3 DEF KeyTypeOK
  <2> QED BY <2>2, <2>3, <2>4 DEF KeyInv
<1>2. CASE Keys!WriteDefault
  <2>0. proc["release"].pc \in Keys!Files /\ UNCHANGED <<mem, cache>>
    BY <1>2 DEF Keys!WriteDefault
  <2> DEFINE f == proc["release"].pc
  <2>1. CASE Keys!Put(f, "d") /\ Keys!To("release", Keys!After(f)) /\ UNCHANGED budget
    <3>1. Keys!After(f) \in KeyPc \ {"idle"}
      BY <2>0 DEF Keys!After, Keys!Files, KeyPc
    <3>2. /\ proc' \in [Keys!Proc -> KeyCall] /\ proc'["release"].pc = Keys!After(f)
          /\ proc'["release"].err = proc["release"].err
      BY <1>0, <1>a, <2>1, <3>1, KeyToPc
    <3>3. file' \in [Keys!Files -> KeyVal] /\ stamp' \in Int
      <4>1. "d" \in KeyVal
        BY DEF KeyVal
      <4> QED BY <1>0, <2>0, <2>1, <4>1, KeyPut
    <3>4. KeyTypeOK'
      BY <1>0, <2>0, <2>1, <3>2, <3>3 DEF KeyTypeOK
    <3> QED BY <2>1, <3>1, <3>2, <3>4 DEF KeyInv, Keys!Undisturbed
  <2>2. CASE /\ Keys!Fault /\ UNCHANGED <<file, stamp>>
             /\ proc' = [proc EXCEPT !["release"].pc = "stat", !["release"].err = TRUE]
    <3>1. /\ budget' \in KeyBudget /\ budget'.fault <= MaxFaults
          /\ ~Keys!Undisturbed'
      BY <1>0, <2>2, KeyFault
    <3>2. [proc["release"] EXCEPT !.pc = "stat", !.err = TRUE] \in KeyCall
      BY <1>a DEF KeyCall, KeyPc
    <3>3. proc' \in [Keys!Proc -> KeyCall]
      BY <1>0, <1>a, <2>2, <3>2 DEF KeyTypeOK, KeyCall
    <3>4. KeyTypeOK'
      BY <1>0, <2>0, <2>2, <3>1, <3>3 DEF KeyTypeOK
    <3> QED BY <3>1, <3>4, KeyDisturbed
  <2> QED BY <1>2, <2>1, <2>2 DEF Keys!WriteDefault
<1>3. CASE Keys!InitPrivateKey
  <2>1. Keys!To("release", "stat") /\ Keys!Invalidate /\ UNCHANGED <<file, stamp, budget>>
    BY <1>3 DEF Keys!InitPrivateKey
  <2>2. /\ proc' \in [Keys!Proc -> KeyCall] /\ proc'["release"].pc = "stat"
        /\ proc'["release"].err = proc["release"].err
    BY <1>0, <1>a, <2>1, KeyToPc, KeyNames DEF KeyPc
  <2>3. KeyTypeOK'
    BY <1>0, <1>b, <2>1, <2>2 DEF KeyTypeOK
  <2> QED BY <2>1, <2>2, <2>3 DEF KeyInv, Keys!Undisturbed
<1>4. CASE Keys!Released
  <2>1. /\ proc' = [proc EXCEPT !["release"] = Keys!Idle] /\ UNCHANGED <<file, stamp, mem, budget>>
        /\ IF proc["release"].err THEN UNCHANGED cache ELSE Keys!Invalidate
    BY <1>4 DEF Keys!Released
  <2>2. proc' \in [Keys!Proc -> KeyCall] /\ proc'["release"] = Keys!Idle /\ proc'["current"] = proc["current"]
    BY <1>0, <1>a, <2>1, KeyTo, KeyNames
  <2>3. cache' \in [valid : BOOLEAN, stamp : Int, loaded : BOOLEAN, status : BOOLEAN]
    BY <1>0, <1>b, <2>1 DEF KeyTypeOK
  <2>4. KeyTypeOK'
    BY <1>0, <2>1, <2>2, <2>3 DEF KeyTypeOK
  <2>5. ASSUME Keys!Undisturbed' PROVE KeySettled'
    <3>1. ~proc["release"].err
      BY <2>1, <2>5 DEF KeyInv, Keys!Undisturbed
    <3> QED BY <1>b, <2>1, <2>2, <3>1 DEF KeySettled
  <2> QED BY <2>2, <2>4, <2>5, KeyNames DEF KeyInv
<1> QED BY <1>1, <1>2, <1>3, <1>4

\* Somebody else changes a file.
LEMMA KeyOperator ==
    ASSUME KeyConstants, KeyInv, NEW f \in {"gamePriv", "gamePub"}, Keys!Operator(f) PROVE KeyInv'
<1>1. KeyTypeOK /\ Keys!Fault /\ Keys!Put(f, "u") /\ UNCHANGED <<mem, cache, proc>>
  BY DEF KeyInv, Keys!Operator
<1>2. file' \in [Keys!Files -> KeyVal] /\ stamp' \in Int
  <2>1. f \in Keys!Files /\ "u" \in KeyVal
    BY DEF Keys!Files, KeyVal
  <2> QED BY <1>1, <2>1, KeyPut
<1>3. /\ budget' \in KeyBudget /\ budget'.fault <= MaxFaults
      /\ ~Keys!Undisturbed'
  BY <1>1, KeyFault
<1>4. KeyTypeOK'
  BY <1>1, <1>2, <1>3 DEF KeyTypeOK
<1> QED BY <1>3, <1>4, KeyDisturbed

\* StatusIsCurrent: while no write fails, nobody replaces a file and no derived public key
\* replaces another one, a cached status that CurrentStatus would answer with is that of
\* the files, for any number of viewers, looks and releases.
THEOREM CachedStatusIsCurrent ==
    ASSUME KeyConstants
    PROVE  Keys!Spec => []Keys!StatusIsCurrent /\ []StatusIsCurrent
<1>1. Keys!Init => KeyInv
  BY KeyInit
<1>2. KeyInv /\ [Keys!Next]_Keys!vars => KeyInv'
  <2> SUFFICES ASSUME KeyInv, [Keys!Next]_Keys!vars PROVE KeyInv'
    OBVIOUS
  <2>1. ASSUME NEW p \in Keys!Proc, Keys!BuildKeypairStatus(p) PROVE KeyInv'
    BY <2>1, KeyStatPair, KeyReadPrivate, KeyReadPublic, KeyDerivePublic, KeyCopies DEF Keys!BuildKeypairStatus
  <2>2. CASE UNCHANGED Keys!vars
    BY <2>2 DEF Keys!vars, KeyInv, KeyTypeOK, KeySettled, KeyTrue, Keys!GameValid, Keys!Undisturbed
  <2> QED BY <2>1, <2>2, KeyLooks, KeyReleases, KeyOperator DEF Keys!Next
<1>3. KeyInv => Keys!StatusIsCurrent
  BY KeyNames DEF KeyInv, KeySettled, KeyTrue, Keys!StatusIsCurrent, Keys!CacheHit, Keys!Quiet
<1>4. Keys!StatusIsCurrent => StatusIsCurrent
  BY DEF StatusIsCurrent
<1> QED BY <1>1, <1>2, <1>3, <1>4, PTL DEF Keys!Spec

-----------------------------------------------------------------------------
(* GamePatches: the branch and its routine.                                *)

PatchSite == {"cave", "timer", "branch"}
PatchWrite(s, v) == [site |-> s, value |-> v]

\* The writes that are left, when the memory is `m' and `wrote' holds what they replaced
\* so far: enabling, disabling a patch in use, clearing left-overs.
PatchEnabling(m, todo, wrote) ==
    /\ m["branch"] = 1 => m["cave"] # 0
    /\ \/ \E r : /\ r # 0 /\ wrote = <<>>
                 /\ todo = <<PatchWrite("cave", r), PatchWrite("timer", 1), PatchWrite("branch", 1)>>
       \/ /\ todo = <<PatchWrite("timer", 1), PatchWrite("branch", 1)>> /\ m["cave"] # 0
          /\ \E c : wrote = <<PatchWrite("cave", c)>> /\ (m["branch"] = 1 => c # 0)
       \/ /\ todo = <<PatchWrite("branch", 1)>> /\ m["cave"] # 0
          /\ \E c, t : /\ wrote = <<PatchWrite("cave", c), PatchWrite("timer", t)>>
                       /\ m["branch"] = 1 => c # 0

PatchDisabling(m, todo, wrote) ==
    /\ m["cave"] # 0
    /\ \/ /\ todo = <<PatchWrite("branch", 0), PatchWrite("timer", 0), PatchWrite("cave", 0)>>
          /\ wrote = <<>>
       \/ /\ todo = <<PatchWrite("timer", 0), PatchWrite("cave", 0)>> /\ m["branch"] = 0
          /\ \E b : wrote = <<PatchWrite("branch", b)>>
       \/ /\ todo = <<PatchWrite("cave", 0)>> /\ m["branch"] = 0
          /\ \E b, t : wrote = <<PatchWrite("branch", b), PatchWrite("timer", t)>>

PatchClearing(m, todo, wrote) ==
    /\ m["branch"] # 1
    /\ \/ todo = <<PatchWrite("timer", 0)>> /\ wrote = <<>>
       \/ todo = <<PatchWrite("timer", 0), PatchWrite("cave", 0)>> /\ wrote = <<>>
       \/ /\ todo = <<PatchWrite("cave", 0)>>
          /\ \E t : wrote = <<PatchWrite("timer", t)>>

\* The restores that are left.
PatchUndoing(m, todo) ==
    \/ /\ m["branch"] # 1 \/ m["cave"] # 0
       /\ \/ todo = <<>>
          \/ \E t : todo = <<PatchWrite("timer", t)>>
          \/ \E c : todo = <<PatchWrite("cave", c)>> /\ (m["branch"] = 1 => c # 0)
          \/ \E c, t : /\ todo = <<PatchWrite("timer", t), PatchWrite("cave", c)>>
                       /\ m["branch"] = 1 => c # 0
    \/ /\ m["cave"] # 0
       /\ \/ \E b, c, t : /\ todo = <<PatchWrite("branch", b), PatchWrite("timer", t), PatchWrite("cave", c)>>
                          /\ b = 1 => c # 0
          \/ \E b : todo = <<PatchWrite("branch", b)>>
          \/ \E b, t : todo = <<PatchWrite("timer", t), PatchWrite("branch", b)>>
    \/ /\ m["branch"] # 1
       /\ \/ \E b, c, t : todo = <<PatchWrite("cave", c), PatchWrite("timer", t), PatchWrite("branch", b)>> /\ c # 0
          \/ \E c, t : todo = <<PatchWrite("cave", c), PatchWrite("timer", t)>>

PatchSafe(m) == m["branch"] = 1 => m["cave"] # 0

PatchPlan(m, o) ==
    /\ o.pc = "write" =>
         \/ o.todo = <<>> \/ PatchEnabling(m, o.todo, o.wrote)
         \/ PatchDisabling(m, o.todo, o.wrote) \/ PatchClearing(m, o.todo, o.wrote)
    /\ o.pc = "undo" => PatchUndoing(m, o.todo) /\ budget.faults = 0

\* Processes are numbered: one that is gone does not come back.
PatchPids ==
    LET ahead == 2 + MaxRestarts - budget.restarts IN
    /\ game.pid \in Int /\ op.pid \in Int /\ game.pid <= ahead /\ op.pid <= ahead
    /\ game.pid = 0 => op.pid < ahead
    /\ op.pc \in {"write", "undo"} => op.pid # 0

\* A configuration that asks for the patch has an account range.
PatchCfg(c) == c.on => c.range # 0

PatchTypeOK ==
    /\ mem = [s \in PatchSite |-> mem[s]]
    /\ op = [pc |-> op.pc, who |-> op.who, cfg |-> op.cfg, pid |-> op.pid, traced |-> op.traced,
             todo |-> op.todo, wrote |-> op.wrote, err |-> op.err]
    /\ game = [pid |-> game.pid, stopped |-> game.stopped]
    /\ budget \in [edits : Int, faults : Int, kills : Int, restarts : Int]
    /\ budget.faults <= MaxFaults /\ budget.faults >= 0 /\ budget.restarts <= MaxRestarts

PatchCfgs ==
    /\ PatchCfg(file.cfg) /\ PatchCfg(snap) /\ PatchCfg(op.cfg) /\ PatchCfg(watch.cfg)
    /\ watch = [pc |-> watch.pc, stamp |-> watch.stamp, cfg |-> watch.cfg, seen |-> watch.seen]

PatchInv ==
    /\ PatchTypeOK /\ PatchCfgs /\ PatchPids
    /\ op.pc \in {"inspect", "set"} => op.wrote = <<>>
    /\ PatchSafe(mem)
    /\ op.pid = game.pid => PatchPlan(mem, op)

\* The single fault is spent once.
LEMMA PatchSpend ==
    ASSUME PatchTypeOK, NEW what \in {"edits", "faults", "kills", "restarts"}, Patches!Spend(what)
    PROVE  /\ budget' \in [edits : Int, faults : Int, kills : Int, restarts : Int]
           /\ budget'.faults = IF what = "faults" THEN budget.faults - 1 ELSE budget.faults
           /\ budget'.restarts = IF what = "restarts" THEN budget.restarts - 1 ELSE budget.restarts
           /\ what = "faults" => budget.faults > 0
  BY DEF PatchTypeOK, Patches!Spend

\* What a step that may fail leaves of the bounds.
LEMMA PatchOutcome ==
    ASSUME PatchTypeOK, PatchConstants, NEW bad \in BOOLEAN, Patches!Outcome(bad)
    PROVE  /\ budget' \in [edits : Int, faults : Int, kills : Int, restarts : Int]
           /\ budget'.restarts = budget.restarts
           /\ budget'.faults <= MaxFaults /\ budget'.faults >= 0
           /\ budget.faults = 0 => budget'.faults = 0
           /\ bad => budget'.faults = 0 /\ budget.faults # 0
<1>1. CASE bad
  BY <1>1, PatchSpend DEF PatchTypeOK, PatchConstants, Patches!Outcome
<1>2. CASE ~bad
  BY <1>2 DEF PatchTypeOK, Patches!Outcome
<1> QED BY <1>1, <1>2

\* What a step may do to the bounds when the game goes on.
PatchLeft ==
    /\ budget' \in [edits : Int, faults : Int, kills : Int, restarts : Int]
    /\ budget'.restarts = budget.restarts /\ budget'.faults <= MaxFaults /\ budget'.faults >= 0
    /\ budget.faults = 0 => budget'.faults = 0

\* The bounds of every step in which the game goes on.
LEMMA PatchLeftCases ==
    ASSUME PatchTypeOK, PatchConstants,
           \/ UNCHANGED budget \/ Patches!Spend("edits") \/ Patches!Spend("kills")
           \/ \E bad \in BOOLEAN : Patches!Outcome(bad)
    PROVE  PatchLeft
<1>1. CASE UNCHANGED budget
  BY <1>1 DEF PatchTypeOK, PatchLeft
<1>2. CASE Patches!Spend("edits")
  BY <1>2, PatchSpend DEF PatchTypeOK, PatchLeft
<1>3. CASE Patches!Spend("kills")
  BY <1>3, PatchSpend DEF PatchTypeOK, PatchLeft
<1>4. CASE \E bad \in BOOLEAN : Patches!Outcome(bad)
  BY <1>4, PatchOutcome DEF PatchLeft
<1> QED BY <1>1, <1>2, <1>3, <1>4

\* A step that leaves the game, its memory and the operation alone.
LEMMA PatchAside ==
    ASSUME PatchInv, PatchLeft, UNCHANGED <<game, mem, op>>, PatchCfgs'
    PROVE  PatchInv'
<1>1. PatchTypeOK'
  BY DEF PatchInv, PatchTypeOK, PatchLeft
<1>2. PatchPids'
  BY DEF PatchInv, PatchPids, PatchLeft
<1>3. PatchPlan(mem, op) => PatchPlan(mem, op)'
  BY DEF PatchPlan, PatchLeft, PatchEnabling, PatchDisabling, PatchClearing, PatchUndoing
<1> QED BY <1>1, <1>2, <1>3 DEF PatchInv, PatchSafe

\* A step that leaves the game and its memory alone, after which nothing is written.
LEMMA PatchNoWrites ==
    ASSUME PatchConstants, PatchInv, PatchLeft, mem' = mem, game'.pid = game.pid,
           game' = [pid |-> game'.pid, stopped |-> game'.stopped],
           PatchCfgs', op'.pc \notin {"write", "undo"},
           op' = [pc |-> op'.pc, who |-> op'.who, cfg |-> op'.cfg, pid |-> op'.pid, traced |-> op'.traced,
                  todo |-> op'.todo, wrote |-> op'.wrote, err |-> op'.err],
           op'.pid \in {0, op.pid, game.pid},
           op'.pc \in {"inspect", "set"} => op'.wrote = <<>>
    PROVE  PatchInv'
<1>1. PatchTypeOK'
  BY DEF PatchInv, PatchTypeOK, PatchLeft
<1>2. PatchPids'
  <2>1. /\ game.pid \in Int /\ op.pid \in Int /\ budget.restarts \in Int /\ budget.restarts <= MaxRestarts
        /\ MaxRestarts \in Nat
    BY DEF PatchInv, PatchPids, PatchTypeOK, PatchConstants
  <2> QED BY <2>1 DEF PatchInv, PatchPids, PatchLeft
<1>3. PatchPlan(mem, op)'
  BY DEF PatchPlan
<1> QED BY <1>1, <1>2, <1>3 DEF PatchInv, PatchSafe

\* The game starts with its original bytes.
LEMMA PatchInit == ASSUME PatchConstants, Patches!Init PROVE PatchInv
<1>1. mem = [s \in PatchSite |-> 0] /\ mem["branch"] = 0
  BY DEF Patches!Init, Patches!Places, PatchConstants, PatchSite
<1>2. /\ op = Patches!Idle /\ op.pc = "idle" /\ op.pid = 0 /\ ~op.cfg.on
      /\ op = [pc |-> op.pc, who |-> op.who, cfg |-> op.cfg, pid |-> op.pid, traced |-> op.traced,
               todo |-> op.todo, wrote |-> op.wrote, err |-> op.err]
  BY DEF Patches!Init, Patches!Idle, Patches!NoConfig
<1>3. PatchTypeOK
  BY <1>1, <1>2 DEF Patches!Init, PatchTypeOK, PatchConstants
<1>4. PatchCfgs
  <2>1. PatchCfg(file.cfg)
    BY DEF Patches!Init, Patches!Config, PatchCfg, PatchConstants
  <2>2. PatchCfg(snap) /\ PatchCfg(watch.cfg)
        /\ watch = [pc |-> watch.pc, stamp |-> watch.stamp, cfg |-> watch.cfg, seen |-> watch.seen]
    BY DEF Patches!Init, Patches!NoConfig, Patches!Watching, PatchCfg
  <2> QED BY <1>2, <2>1, <2>2 DEF PatchCfgs, PatchCfg
<1>5. PatchPids
  BY <1>2 DEF Patches!Init, PatchPids, PatchConstants
<1> QED BY <1>1, <1>2, <1>3, <1>4, <1>5 DEF PatchInv, PatchSafe, PatchPlan

\* The file and its poller.
LEMMA PatchWatch ==
    ASSUME PatchConstants, PatchInv,
           \/ Patches!WatchSteps \/ Patches!GuardReads \/ Patches!Restarted
           \/ \E c \in Patches!Config : Patches!Edit(c)
    PROVE  PatchInv'
<1>0. PatchTypeOK /\ PatchCfgs
  BY DEF PatchInv
<1> USE DEF PatchCfgs
<1>1. CASE Patches!Poll
  BY <1>0, <1>1, PatchLeftCases, PatchAside DEF Patches!Poll
<1>2. CASE Patches!ReadFile
  BY <1>0, <1>2, PatchLeftCases, PatchAside DEF Patches!ReadFile
<1>3. CASE Patches!StoreSnapshot
  BY <1>0, <1>3, PatchLeftCases, PatchAside DEF Patches!StoreSnapshot
<1>4. CASE Patches!ResetFailures
  BY <1>0, <1>4, PatchLeftCases, PatchAside DEF Patches!ResetFailures
<1>5. CASE Patches!GuardReads
  BY <1>5 DEF Patches!GuardReads, PatchConstants
<1>6. CASE Patches!Restarted
  BY <1>0, <1>6, PatchLeftCases, PatchAside DEF Patches!Restarted
<1>7. ASSUME NEW c \in Patches!Config, Patches!Edit(c) PROVE PatchInv'
  <2>1. PatchCfg(c)
    BY DEF PatchCfg, Patches!Config, PatchConstants
  <2> QED BY <1>0, <1>7, <2>1, PatchLeftCases, PatchAside DEF Patches!Edit
<1> QED BY <1>1, <1>2, <1>3, <1>4, <1>5, <1>6, <1>7 DEF Patches!WatchSteps, Patches!Reload

\* Operations begin, look and end without a write.
LEMMA PatchBegins ==
    ASSUME PatchConstants, PatchInv,
           \/ Patches!SupervisorBegins \/ Patches!GuardBegins \/ Patches!Inspect \/ Patches!After
           \/ Patches!Killed
           \/ \E c \in Patches!Config : Patches!handlePartyCompat(c) \/ Patches!handleCompat(c)
    PROVE  PatchInv'
<1>0. PatchTypeOK /\ PatchCfgs /\ game = [pid |-> game.pid, stopped |-> game.stopped]
  BY DEF PatchInv, PatchTypeOK
<1>a. /\ Patches!Idle.pc = "idle" /\ Patches!Idle.pid = 0 /\ PatchCfg(Patches!Idle.cfg)
      /\ Patches!Idle = [pc |-> Patches!Idle.pc, who |-> Patches!Idle.who, cfg |-> Patches!Idle.cfg,
                         pid |-> Patches!Idle.pid, traced |-> Patches!Idle.traced,
                         todo |-> Patches!Idle.todo, wrote |-> Patches!Idle.wrote, err |-> Patches!Idle.err]
  BY DEF Patches!Idle, Patches!NoConfig, PatchCfg
<1>b. ASSUME NEW who, NEW pc \in {"inspect", "set"}, NEW c, PatchCfg(c), Patches!Begin(who, pc, c)
      PROVE  /\ op' = [pc |-> op'.pc, who |-> op'.who, cfg |-> op'.cfg, pid |-> op'.pid,
                       traced |-> op'.traced, todo |-> op'.todo, wrote |-> op'.wrote, err |-> op'.err]
             /\ op'.pc = pc /\ op'.pid = 0 /\ op'.wrote = <<>> /\ PatchCfg(op'.cfg)
  BY <1>b DEF Patches!Begin, Patches!Idle
<1>1. CASE Patches!SupervisorBegins
  <2>1. PatchCfg(Patches!Loaded)
    BY <1>0 DEF PatchCfgs, Patches!Loaded
  <2>2. snap' = Patches!Loaded /\ UNCHANGED <<file, watch>> /\ UNCHANGED <<game, mem, budget>>
        /\ Patches!Begin("supervisor", "inspect", Patches!Loaded)
    BY <1>1 DEF Patches!SupervisorBegins
  <2>3. /\ op' = [pc |-> op'.pc, who |-> op'.who, cfg |-> op'.cfg, pid |-> op'.pid,
                  traced |-> op'.traced, todo |-> op'.todo, wrote |-> op'.wrote, err |-> op'.err]
        /\ op'.pc = "inspect" /\ op'.pid = 0 /\ op'.wrote = <<>> /\ PatchCfg(op'.cfg)
    BY <1>b, <2>1, <2>2
  <2>4. PatchCfgs'
    BY <1>0, <2>1, <2>2, <2>3 DEF PatchCfgs, PatchCfg
  <2>5. PatchLeft
    BY <1>0, <2>2, PatchLeftCases
  <2> QED BY <1>0, <2>2, <2>3, <2>4, <2>5, PatchNoWrites
<1>2. CASE Patches!GuardBegins \/ \E c \in Patches!Config : Patches!handleCompat(c)
  BY <1>2 DEF Patches!GuardBegins, Patches!handleCompat, PatchConstants
<1>3. ASSUME NEW c \in Patches!Config, Patches!handlePartyCompat(c) PROVE PatchInv'
  <2>1. PatchCfg(c)
    BY DEF PatchCfg, Patches!Config, PatchConstants
  <2>2. snap' = c /\ file'.cfg = c /\ UNCHANGED <<watch, game, mem>> /\ Patches!Spend("edits")
        /\ Patches!Begin("http", "set", c)
    BY <1>3 DEF Patches!handlePartyCompat, Patches!Saved
  <2>3. /\ op' = [pc |-> op'.pc, who |-> op'.who, cfg |-> op'.cfg, pid |-> op'.pid,
                  traced |-> op'.traced, todo |-> op'.todo, wrote |-> op'.wrote, err |-> op'.err]
        /\ op'.pc = "set" /\ op'.pid = 0 /\ op'.wrote = <<>> /\ PatchCfg(op'.cfg)
    BY <1>b, <2>1, <2>2
  <2>4. PatchCfgs'
    BY <1>0, <2>1, <2>2, <2>3 DEF PatchCfgs, PatchCfg
  <2>5. PatchLeft
    BY <1>0, <2>2, PatchLeftCases
  <2> QED BY <1>0, <2>2, <2>3, <2>4, <2>5, PatchNoWrites
<1>4. CASE Patches!Inspect
  <2>1. PatchLeft
    BY <1>0, <1>4, PatchLeftCases DEF Patches!Inspect
  <2>2. UNCHANGED <<game, mem, file, snap, watch>> /\ op.pc = "inspect"
        /\ (op' = [op EXCEPT !.pc = "set"] \/ op' = Patches!Idle)
    BY <1>4 DEF Patches!Inspect
  <2>3. op.wrote = <<>>
    BY <2>2 DEF PatchInv
  <2>4. /\ op' = [pc |-> op'.pc, who |-> op'.who, cfg |-> op'.cfg, pid |-> op'.pid,
                  traced |-> op'.traced, todo |-> op'.todo, wrote |-> op'.wrote, err |-> op'.err]
        /\ op'.pc \in {"set", "idle"} /\ op'.pid \in {0, op.pid} /\ (op'.pc = "set" => op'.wrote = <<>>)
        /\ PatchCfg(op'.cfg)
    <3>1. CASE op' = [op EXCEPT !.pc = "set"]
      BY <1>0, <2>3, <3>1 DEF PatchTypeOK, PatchCfgs
    <3>2. CASE op' = Patches!Idle
      BY <1>a, <3>2
    <3> QED BY <2>2, <3>1, <3>2
  <2>5. PatchCfgs'
    BY <1>0, <2>2, <2>4 DEF PatchCfgs, PatchCfg
  <2> QED BY <1>0, <2>1, <2>2, <2>4, <2>5, PatchNoWrites
<1>5. CASE Patches!After
  <2>1. PatchLeft
    BY <1>0, <1>5, PatchLeftCases DEF Patches!After
  <2>2. /\ UNCHANGED <<game, mem, watch>> /\ op' = Patches!Idle
        /\ \/ UNCHANGED <<file, snap>>
           \/ snap' = [op.cfg EXCEPT !.on = FALSE] /\ file'.cfg = snap' /\ op.cfg.on
    BY <1>5 DEF Patches!After
  <2>3. PatchCfg(op.cfg) /\ PatchCfg(file.cfg) /\ PatchCfg(snap)
    BY <1>0 DEF PatchCfgs
  <2>4. PatchCfg([op.cfg EXCEPT !.on = FALSE])
    BY <2>3 DEF PatchCfg
  <2>5. PatchCfgs'
    BY <1>0, <1>a, <2>2, <2>3, <2>4 DEF PatchCfgs
  <2> QED BY <1>0, <1>a, <2>1, <2>2, <2>5, PatchNoWrites
<1>6. CASE Patches!Killed
  <2>1. PatchLeft
    BY <1>0, <1>6, PatchLeftCases DEF Patches!Killed
  <2>2. UNCHANGED <<game, mem, file>> /\ op' = Patches!Idle /\ snap' = Patches!NoConfig /\ watch' = Patches!Watching
    BY <1>6 DEF Patches!Killed
  <2>3. PatchCfgs'
    BY <1>0, <1>a, <2>2 DEF PatchCfgs, PatchCfg, Patches!NoConfig, Patches!Watching
  <2> QED BY <1>0, <1>a, <2>1, <2>2, <2>3, PatchNoWrites
<1> QED BY <1>1, <1>2, <1>3, <1>4, <1>5, <1>6

\* What the operations on short lists compute.
LEMMA PatchLists ==
    /\ \A a : Head(<<a>>) = a /\ Tail(<<a>>) = <<>> /\ Append(<<>>, a) = <<a>>
    /\ \A a, b : Head(<<a, b>>) = a /\ Tail(<<a, b>>) = <<b>> /\ Append(<<a>>, b) = <<a, b>>
    /\ \A a, b, c : Head(<<a, b, c>>) = a /\ Tail(<<a, b, c>>) = <<b, c>>
    /\ \A a, b, c : Append(<<a, b>>, c) = <<a, b, c>>
    /\ \A a, b, c : <<a>> # <<>> /\ <<a, b>> # <<>> /\ <<a, b, c>> # <<>>
    /\ \A a, b : <<a>> \o <<>> = <<a>> /\ <<a>> \o <<b>> = <<a, b>>
<1>1. ASSUME NEW a, NEW b, NEW c PROVE Head(<<a>>) = a /\ Head(<<a, b>>) = a /\ Head(<<a, b, c>>) = a
  OBVIOUS
<1>2. ASSUME NEW a PROVE Tail(<<a>>) = <<>>
  OBVIOUS
<1>3. ASSUME NEW a, NEW b PROVE Tail(<<a, b>>) = <<b>>
  OBVIOUS
<1>4. ASSUME NEW a, NEW b, NEW c PROVE Tail(<<a, b, c>>) = <<b, c>>
  OBVIOUS
<1>5. ASSUME NEW a PROVE Append(<<>>, a) = <<a>>
  OBVIOUS
<1>6. ASSUME NEW a, NEW b PROVE Append(<<a>>, b) = <<a, b>>
  <2>1. Append(<<a>>, b) \in Seq({a, b}) /\ <<a, b>> \in Seq({a, b})
    OBVIOUS
  <2>2. Len(Append(<<a>>, b)) = 2 /\ Len(<<a, b>>) = 2
    OBVIOUS
  <2>3. \A i \in 1 .. 2 : (Append(<<a>>, b))[i] = <<a, b>>[i]
    OBVIOUS
  <2> QED BY <2>1, <2>2, <2>3, SeqEqual
<1>7. ASSUME NEW a, NEW b, NEW c PROVE Append(<<a, b>>, c) = <<a, b, c>>
  <2>1. Append(<<a, b>>, c) \in Seq({a, b, c}) /\ <<a, b, c>> \in Seq({a, b, c})
    OBVIOUS
  <2>2. Len(Append(<<a, b>>, c)) = 3 /\ Len(<<a, b, c>>) = 3
    OBVIOUS
  <2>3. \A i \in 1 .. 3 : (Append(<<a, b>>, c))[i] = <<a, b, c>>[i]
    OBVIOUS
  <2> QED BY <2>1, <2>2, <2>3, SeqEqual
<1>8. ASSUME NEW a, NEW b, NEW c PROVE <<a>> # <<>> /\ <<a, b>> # <<>> /\ <<a, b, c>> # <<>>
  OBVIOUS
<1>9. ASSUME NEW a PROVE <<a>> \o <<>> = <<a>>
  OBVIOUS
<1>10. ASSUME NEW a, NEW b PROVE <<a>> \o <<b>> = <<a, b>>
  <2>1. <<a>> \o <<b>> \in Seq({a, b}) /\ <<a, b>> \in Seq({a, b})
    OBVIOUS
  <2>2. Len(<<a>> \o <<b>>) = 2 /\ Len(<<a, b>>) = 2
    OBVIOUS
  <2>3. \A i \in 1 .. 2 : (<<a>> \o <<b>>)[i] = <<a, b>>[i]
    OBVIOUS
  <2> QED BY <2>1, <2>2, <2>3, SeqEqual
<1> QED BY <1>1, <1>2, <1>3, <1>4, <1>5, <1>6, <1>7, <1>8, <1>9, <1>10

\* Short lists, the last element first.
LEMMA PatchReverse ==
    /\ \A a : Patches!Reverse(<<a>>) = <<a>>
    /\ \A a, b : Patches!Reverse(<<a, b>>) = <<b, a>>
    /\ \A a, b, c : Patches!Reverse(<<a, b, c>>) = <<c, b, a>>
<1>1. ASSUME NEW a PROVE Patches!Reverse(<<a>>) = <<a>>
  BY DEF Patches!Reverse
<1>2. ASSUME NEW a, NEW b PROVE Patches!Reverse(<<a, b>>) = <<b, a>>
  BY DEF Patches!Reverse
<1>3. ASSUME NEW a, NEW b, NEW c PROVE Patches!Reverse(<<a, b, c>>) = <<c, b, a>>
  BY DEF Patches!Reverse
<1> QED BY <1>1, <1>2, <1>3

\* One write of a plan, from the memory `m': it and its undoing are safe, and so is what
\* is left.
PatchNext(m, todo, wrote) ==
    LET w == Head(todo)
        m2 == [m EXCEPT ![w.site] = w.value]
        done == Append(wrote, PatchWrite(w.site, m[w.site]))
    IN  /\ PatchSafe(m) /\ PatchSafe(m2)
        /\ \/ Tail(todo) = <<>> \/ PatchEnabling(m2, Tail(todo), done)
           \/ PatchDisabling(m2, Tail(todo), done) \/ PatchClearing(m2, Tail(todo), done)
        /\ PatchUndoing(m, Patches!Reverse(done)) /\ PatchUndoing(m2, Patches!Reverse(done))

PatchMemory(m) == m = [s \in PatchSite |-> m[s]]

\* A write changes one site.
LEMMA PatchSet ==
    ASSUME NEW m, PatchMemory(m), NEW s \in PatchSite, NEW v
    PROVE  \A t \in PatchSite : [m EXCEPT ![s] = v][t] = IF t = s THEN v ELSE m[t]
  BY DEF PatchMemory

\* Cave, timer, branch: the branch is set when there is something to branch to.
LEMMA PatchEnablingStep ==
    ASSUME NEW m, PatchMemory(m), NEW todo, NEW wrote, PatchEnabling(m, todo, wrote)
    PROVE  PatchNext(m, todo, wrote)
<1> USE DEF PatchSite
<1>1. ASSUME NEW r, r # 0, wrote = <<>>,
             todo = <<PatchWrite("cave", r), PatchWrite("timer", 1), PatchWrite("branch", 1)>>
      PROVE  PatchNext(m, todo, wrote)
  <2> DEFINE m2 == [m EXCEPT !["cave"] = r]
             u == PatchWrite("cave", m["cave"])
  <2>1. m2["cave"] = r /\ m2["branch"] = m["branch"]
    BY PatchSet
  <2>2. Head(todo) = PatchWrite("cave", r) /\ Tail(todo) = <<PatchWrite("timer", 1), PatchWrite("branch", 1)>>
        /\ Append(wrote, u) = <<u>> /\ Patches!Reverse(<<u>>) = <<u>>
    BY <1>1, PatchLists, PatchReverse
  <2>3. Head(todo).site = "cave" /\ Head(todo).value = r
    BY <2>2 DEF PatchWrite
  <2>4. m["branch"] = 1 => m["cave"] # 0
    BY DEF PatchEnabling
  <2> HIDE DEF m2
  <2>5. PatchEnabling(m2, Tail(todo), <<u>>)
    BY <1>1, <2>1, <2>2, <2>4 DEF PatchEnabling
  <2>6. PatchUndoing(m, <<u>>) /\ PatchUndoing(m2, <<u>>)
    BY <1>1, <2>1, <2>4 DEF PatchUndoing
  <2> QED BY <1>1, <2>1, <2>2, <2>3, <2>4, <2>5, <2>6 DEF PatchNext, PatchSafe, m2
<1>2. ASSUME todo = <<PatchWrite("timer", 1), PatchWrite("branch", 1)>>, m["cave"] # 0,
             NEW c, wrote = <<PatchWrite("cave", c)>>, m["branch"] = 1 => c # 0
      PROVE  PatchNext(m, todo, wrote)
  <2> DEFINE m2 == [m EXCEPT !["timer"] = 1]
             u == PatchWrite("timer", m["timer"])
             o == PatchWrite("cave", c)
  <2>1. m2["cave"] = m["cave"] /\ m2["branch"] = m["branch"]
    BY PatchSet
  <2>2. Head(todo) = PatchWrite("timer", 1) /\ Tail(todo) = <<PatchWrite("branch", 1)>>
        /\ Append(wrote, u) = <<o, u>> /\ Patches!Reverse(<<o, u>>) = <<u, o>>
    BY <1>2, PatchLists, PatchReverse
  <2>3. Head(todo).site = "timer" /\ Head(todo).value = 1
    BY <2>2 DEF PatchWrite
  <2> HIDE DEF m2
  <2>5. PatchEnabling(m2, Tail(todo), <<o, u>>)
    BY <1>2, <2>1, <2>2 DEF PatchEnabling
  <2>6. PatchUndoing(m, <<u, o>>) /\ PatchUndoing(m2, <<u, o>>)
    BY <1>2, <2>1 DEF PatchUndoing
  <2> QED BY <1>2, <2>1, <2>2, <2>3, <2>5, <2>6 DEF PatchNext, PatchSafe, m2
<1>3. ASSUME todo = <<PatchWrite("branch", 1)>>, m["cave"] # 0, NEW c, NEW t,
             wrote = <<PatchWrite("cave", c), PatchWrite("timer", t)>>, m["branch"] = 1 => c # 0
      PROVE  PatchNext(m, todo, wrote)
  <2> DEFINE m2 == [m EXCEPT !["branch"] = 1]
             u == PatchWrite("branch", m["branch"])
             o == PatchWrite("cave", c)
             p == PatchWrite("timer", t)
  <2>1. m2["cave"] = m["cave"] /\ m2["branch"] = 1
    BY PatchSet
  <2>2. Head(todo) = PatchWrite("branch", 1) /\ Tail(todo) = <<>>
        /\ Append(wrote, u) = <<o, p, u>> /\ Patches!Reverse(<<o, p, u>>) = <<u, p, o>>
    BY <1>3, PatchLists, PatchReverse
  <2>3. Head(todo).site = "branch" /\ Head(todo).value = 1
    BY <2>2 DEF PatchWrite
  <2> HIDE DEF m2
  <2>6. PatchUndoing(m, <<u, p, o>>) /\ PatchUndoing(m2, <<u, p, o>>)
    BY <1>3, <2>1 DEF PatchUndoing
  <2> QED BY <1>3, <2>1, <2>2, <2>3, <2>6 DEF PatchNext, PatchSafe, m2
<1> QED BY <1>1, <1>2, <1>3 DEF PatchEnabling

\* Branch, timer, cave: the routine goes when nothing branches to it.
LEMMA PatchDisablingStep ==
    ASSUME NEW m, PatchMemory(m), NEW todo, NEW wrote, PatchDisabling(m, todo, wrote)
    PROVE  PatchNext(m, todo, wrote)
<1> USE DEF PatchSite
<1>0. m["cave"] # 0
  BY DEF PatchDisabling
<1>1. ASSUME todo = <<PatchWrite("branch", 0), PatchWrite("timer", 0), PatchWrite("cave", 0)>>, wrote = <<>>
      PROVE  PatchNext(m, todo, wrote)
  <2> DEFINE m2 == [m EXCEPT !["branch"] = 0]
             u == PatchWrite("branch", m["branch"])
  <2>1. m2["cave"] = m["cave"] /\ m2["branch"] = 0
    BY PatchSet
  <2>2. Head(todo) = PatchWrite("branch", 0) /\ Tail(todo) = <<PatchWrite("timer", 0), PatchWrite("cave", 0)>>
        /\ Append(wrote, u) = <<u>> /\ Patches!Reverse(<<u>>) = <<u>>
    BY <1>1, PatchLists, PatchReverse
  <2>3. Head(todo).site = "branch" /\ Head(todo).value = 0
    BY <2>2 DEF PatchWrite
  <2> HIDE DEF m2
  <2>5. PatchDisabling(m2, Tail(todo), <<u>>)
    BY <1>0, <2>1, <2>2 DEF PatchDisabling
  <2>6. PatchUndoing(m, <<u>>) /\ PatchUndoing(m2, <<u>>)
    BY <1>0, <2>1 DEF PatchUndoing
  <2> QED BY <1>0, <2>1, <2>2, <2>3, <2>5, <2>6 DEF PatchNext, PatchSafe, m2
<1>2. ASSUME todo = <<PatchWrite("timer", 0), PatchWrite("cave", 0)>>, m["branch"] = 0,
             NEW b, wrote = <<PatchWrite("branch", b)>>
      PROVE  PatchNext(m, todo, wrote)
  <2> DEFINE m2 == [m EXCEPT !["timer"] = 0]
             u == PatchWrite("timer", m["timer"])
             o == PatchWrite("branch", b)
  <2>1. m2["cave"] = m["cave"] /\ m2["branch"] = m["branch"]
    BY PatchSet
  <2>2. Head(todo) = PatchWrite("timer", 0) /\ Tail(todo) = <<PatchWrite("cave", 0)>>
        /\ Append(wrote, u) = <<o, u>> /\ Patches!Reverse(<<o, u>>) = <<u, o>>
    BY <1>2, PatchLists, PatchReverse
  <2>3. Head(todo).site = "timer" /\ Head(todo).value = 0
    BY <2>2 DEF PatchWrite
  <2> HIDE DEF m2
  <2>5. PatchDisabling(m2, Tail(todo), <<o, u>>)
    BY <1>0, <1>2, <2>1, <2>2 DEF PatchDisabling
  <2>6. PatchUndoing(m, <<u, o>>) /\ PatchUndoing(m2, <<u, o>>)
    BY <1>0, <2>1 DEF PatchUndoing
  <2> QED BY <1>0, <1>2, <2>1, <2>2, <2>3, <2>5, <2>6 DEF PatchNext, PatchSafe, m2
<1>3. ASSUME todo = <<PatchWrite("cave", 0)>>, m["branch"] = 0, NEW b, NEW t,
             wrote = <<PatchWrite("branch", b), PatchWrite("timer", t)>>
      PROVE  PatchNext(m, todo, wrote)
  <2> DEFINE m2 == [m EXCEPT !["cave"] = 0]
             u == PatchWrite("cave", m["cave"])
             o == PatchWrite("branch", b)
             p == PatchWrite("timer", t)
  <2>1. m2["branch"] = 0
    BY <1>3, PatchSet
  <2>2. Head(todo) = PatchWrite("cave", 0) /\ Tail(todo) = <<>>
        /\ Append(wrote, u) = <<o, p, u>> /\ Patches!Reverse(<<o, p, u>>) = <<u, p, o>>
    BY <1>3, PatchLists, PatchReverse
  <2>3. Head(todo).site = "cave" /\ Head(todo).value = 0
    BY <2>2 DEF PatchWrite
  <2> HIDE DEF m2
  <2>6. PatchUndoing(m, <<u, p, o>>) /\ PatchUndoing(m2, <<u, p, o>>)
    BY <1>0, <1>3, <2>1 DEF PatchUndoing
  <2>7. PatchSafe(m) /\ PatchSafe(m2)
    BY <1>3, <2>1 DEF PatchSafe
  <2>8. [m EXCEPT ![Head(todo).site] = Head(todo).value] = m2
        /\ Append(wrote, PatchWrite(Head(todo).site, m[Head(todo).site])) = <<o, p, u>>
    BY <2>2, <2>3 DEF m2
  <2> QED BY <2>2, <2>6, <2>7, <2>8 DEF PatchNext
<1> QED BY <1>1, <1>2, <1>3 DEF PatchDisabling

\* What is left behind without a branch goes in any order.
LEMMA PatchClearingStep ==
    ASSUME NEW m, PatchMemory(m), NEW todo, NEW wrote, PatchClearing(m, todo, wrote)
    PROVE  PatchNext(m, todo, wrote)
<1> USE DEF PatchSite
<1>0. m["branch"] # 1
  BY DEF PatchClearing
<1>1. ASSUME NEW rest \in {<<>>, <<PatchWrite("cave", 0)>>}, wrote = <<>>,
             Head(todo) = PatchWrite("timer", 0), Tail(todo) = rest
      PROVE  PatchNext(m, todo, wrote)
  <2> DEFINE m2 == [m EXCEPT !["timer"] = 0]
             u == PatchWrite("timer", m["timer"])
  <2>1. m2["branch"] = m["branch"]
    BY PatchSet
  <2>2. Append(wrote, u) = <<u>> /\ Patches!Reverse(<<u>>) = <<u>>
    BY <1>1, PatchLists, PatchReverse
  <2>3. Head(todo).site = "timer" /\ Head(todo).value = 0
    BY <1>1 DEF PatchWrite
  <2> HIDE DEF m2
  <2>5. Tail(todo) = <<>> \/ PatchClearing(m2, Tail(todo), <<u>>)
    BY <1>0, <1>1, <2>1 DEF PatchClearing
  <2>6. PatchUndoing(m, <<u>>) /\ PatchUndoing(m2, <<u>>)
    BY <1>0, <2>1 DEF PatchUndoing
  <2> QED BY <1>0, <2>1, <2>2, <2>3, <2>5, <2>6 DEF PatchNext, PatchSafe, m2
<1>2. ASSUME todo = <<PatchWrite("cave", 0)>>, NEW t, wrote = <<PatchWrite("timer", t)>>
      PROVE  PatchNext(m, todo, wrote)
  <2> DEFINE m2 == [m EXCEPT !["cave"] = 0]
             u == PatchWrite("cave", m["cave"])
             p == PatchWrite("timer", t)
  <2>1. m2["branch"] = m["branch"]
    BY PatchSet
  <2>2. Head(todo) = PatchWrite("cave", 0) /\ Tail(todo) = <<>>
        /\ Append(wrote, u) = <<p, u>> /\ Patches!Reverse(<<p, u>>) = <<u, p>>
    BY <1>2, PatchLists, PatchReverse
  <2>3. Head(todo).site = "cave" /\ Head(todo).value = 0
    BY <2>2 DEF PatchWrite
  <2> HIDE DEF m2
  <2>6. PatchUndoing(m, <<u, p>>) /\ PatchUndoing(m2, <<u, p>>)
    BY <1>0, <2>1 DEF PatchUndoing
  <2> QED BY <1>0, <2>1, <2>2, <2>3, <2>6 DEF PatchNext, PatchSafe, m2
<1>3. CASE todo = <<PatchWrite("timer", 0)>> /\ wrote = <<>>
  <2>1. Head(todo) = PatchWrite("timer", 0) /\ Tail(todo) = <<>>
    BY <1>3, PatchLists
  <2> QED BY <1>1, <1>3, <2>1
<1>4. CASE todo = <<PatchWrite("timer", 0), PatchWrite("cave", 0)>> /\ wrote = <<>>
  <2>1. Head(todo) = PatchWrite("timer", 0) /\ Tail(todo) = <<PatchWrite("cave", 0)>>
    BY <1>4, PatchLists
  <2> QED BY <1>1, <1>4, <2>1
<1> QED BY <1>2, <1>3, <1>4 DEF PatchClearing

\* One restore: the memory stays safe, and so does what is left.
LEMMA PatchUndoStep ==
    ASSUME NEW m, PatchMemory(m), NEW todo, todo # <<>>, PatchUndoing(m, todo)
    PROVE  LET m2 == [m EXCEPT ![Head(todo).site] = Head(todo).value]
           IN  PatchSafe(m2) /\ PatchUndoing(m2, Tail(todo))
<1> USE DEF PatchSite
<1> DEFINE m2(s, v) == [m EXCEPT ![s] = v]
<1>0. /\ \A v : m2("timer", v)["cave"] = m["cave"] /\ m2("timer", v)["branch"] = m["branch"]
      /\ \A v : m2("cave", v)["cave"] = v /\ m2("cave", v)["branch"] = m["branch"]
      /\ \A v : m2("branch", v)["cave"] = m["cave"] /\ m2("branch", v)["branch"] = v
  BY PatchSet
<1> HIDE DEF m2
<1>a. ASSUME NEW s, NEW v, NEW rest, Head(todo) = PatchWrite(s, v), Tail(todo) = rest,
             PatchSafe(m2(s, v)), PatchUndoing(m2(s, v), rest)
      PROVE  LET n == [m EXCEPT ![Head(todo).site] = Head(todo).value]
             IN  PatchSafe(n) /\ PatchUndoing(n, Tail(todo))
  <2>1. Head(todo).site = s /\ Head(todo).value = v
    BY <1>a DEF PatchWrite
  <2> QED BY <1>a, <2>1 DEF m2
<1>1. CASE /\ m["branch"] # 1 \/ m["cave"] # 0
           /\ \/ \E t : todo = <<PatchWrite("timer", t)>>
              \/ \E c : todo = <<PatchWrite("cave", c)>> /\ (m["branch"] = 1 => c # 0)
              \/ \E c, t : /\ todo = <<PatchWrite("timer", t), PatchWrite("cave", c)>>
                           /\ m["branch"] = 1 => c # 0
  <2>1. ASSUME NEW t, todo = <<PatchWrite("timer", t)>>
        PROVE  LET n == [m EXCEPT ![Head(todo).site] = Head(todo).value]
               IN  PatchSafe(n) /\ PatchUndoing(n, Tail(todo))
    <3>1. PatchSafe(m2("timer", t)) /\ PatchUndoing(m2("timer", t), <<>>)
      BY <1>0, <1>1 DEF PatchSafe, PatchUndoing
    <3>2. Head(todo) = PatchWrite("timer", t) /\ Tail(todo) = <<>>
      BY <2>1, PatchLists
    <3> QED BY <1>a, <3>1, <3>2
  <2>2. ASSUME NEW c, todo = <<PatchWrite("cave", c)>>, m["branch"] = 1 => c # 0
        PROVE  LET n == [m EXCEPT ![Head(todo).site] = Head(todo).value]
               IN  PatchSafe(n) /\ PatchUndoing(n, Tail(todo))
    <3>1. PatchSafe(m2("cave", c)) /\ PatchUndoing(m2("cave", c), <<>>)
      BY <1>0, <2>2 DEF PatchSafe, PatchUndoing
    <3>2. Head(todo) = PatchWrite("cave", c) /\ Tail(todo) = <<>>
      BY <2>2, PatchLists
    <3> QED BY <1>a, <3>1, <3>2
  <2>3. ASSUME NEW c, NEW t, todo = <<PatchWrite("timer", t), PatchWrite("cave", c)>>,
               m["branch"] = 1 => c # 0
        PROVE  LET n == [m EXCEPT ![Head(todo).site] = Head(todo).value]
               IN  PatchSafe(n) /\ PatchUndoing(n, Tail(todo))
    <3>1. PatchSafe(m2("timer", t)) /\ PatchUndoing(m2("timer", t), <<PatchWrite("cave", c)>>)
      BY <1>0, <1>1, <2>3 DEF PatchSafe, PatchUndoing
    <3>2. Head(todo) = PatchWrite("timer", t) /\ Tail(todo) = <<PatchWrite("cave", c)>>
      BY <2>3, PatchLists
    <3> QED BY <1>a, <3>1, <3>2
  <2> QED BY <1>1, <2>1, <2>2, <2>3
<1>2. CASE /\ m["cave"] # 0
           /\ \/ \E b, c, t : /\ todo = <<PatchWrite("branch", b), PatchWrite("timer", t), PatchWrite("cave", c)>>
                              /\ b = 1 => c # 0
              \/ \E b : todo = <<PatchWrite("branch", b)>>
              \/ \E b, t : todo = <<PatchWrite("timer", t), PatchWrite("branch", b)>>
  <2>1. ASSUME NEW b, NEW c, NEW t, b = 1 => c # 0,
               todo = <<PatchWrite("branch", b), PatchWrite("timer", t), PatchWrite("cave", c)>>
        PROVE  LET n == [m EXCEPT ![Head(todo).site] = Head(todo).value]
               IN  PatchSafe(n) /\ PatchUndoing(n, Tail(todo))
    <3>1. PatchSafe(m2("branch", b))
          /\ PatchUndoing(m2("branch", b), <<PatchWrite("timer", t), PatchWrite("cave", c)>>)
      BY <1>0, <1>2, <2>1 DEF PatchSafe, PatchUndoing
    <3>2. Head(todo) = PatchWrite("branch", b) /\ Tail(todo) = <<PatchWrite("timer", t), PatchWrite("cave", c)>>
      BY <2>1, PatchLists
    <3> QED BY <1>a, <3>1, <3>2
  <2>2. ASSUME NEW b, todo = <<PatchWrite("branch", b)>>
        PROVE  LET n == [m EXCEPT ![Head(todo).site] = Head(todo).value]
               IN  PatchSafe(n) /\ PatchUndoing(n, Tail(todo))
    <3>1. PatchSafe(m2("branch", b)) /\ PatchUndoing(m2("branch", b), <<>>)
      BY <1>0, <1>2 DEF PatchSafe, PatchUndoing
    <3>2. Head(todo) = PatchWrite("branch", b) /\ Tail(todo) = <<>>
      BY <2>2, PatchLists
    <3> QED BY <1>a, <3>1, <3>2
  <2>3. ASSUME NEW b, NEW t, todo = <<PatchWrite("timer", t), PatchWrite("branch", b)>>
        PROVE  LET n == [m EXCEPT ![Head(todo).site] = Head(todo).value]
               IN  PatchSafe(n) /\ PatchUndoing(n, Tail(todo))
    <3>1. PatchSafe(m2("timer", t)) /\ PatchUndoing(m2("timer", t), <<PatchWrite("branch", b)>>)
      BY <1>0, <1>2 DEF PatchSafe, PatchUndoing
    <3>2. Head(todo) = PatchWrite("timer", t) /\ Tail(todo) = <<PatchWrite("branch", b)>>
      BY <2>3, PatchLists
    <3> QED BY <1>a, <3>1, <3>2
  <2> QED BY <1>2, <2>1, <2>2, <2>3
<1>3. CASE /\ m["branch"] # 1
           /\ \/ \E b, c, t : todo = <<PatchWrite("cave", c), PatchWrite("timer", t), PatchWrite("branch", b)>> /\ c # 0
              \/ \E c, t : todo = <<PatchWrite("cave", c), PatchWrite("timer", t)>>
  <2>1. ASSUME NEW b, NEW c, NEW t, c # 0,
               todo = <<PatchWrite("cave", c), PatchWrite("timer", t), PatchWrite("branch", b)>>
        PROVE  LET n == [m EXCEPT ![Head(todo).site] = Head(todo).value]
               IN  PatchSafe(n) /\ PatchUndoing(n, Tail(todo))
    <3>1. PatchSafe(m2("cave", c))
          /\ PatchUndoing(m2("cave", c), <<PatchWrite("timer", t), PatchWrite("branch", b)>>)
      BY <1>0, <2>1 DEF PatchSafe, PatchUndoing
    <3>2. Head(todo) = PatchWrite("cave", c) /\ Tail(todo) = <<PatchWrite("timer", t), PatchWrite("branch", b)>>
      BY <2>1, PatchLists
    <3> QED BY <1>a, <3>1, <3>2
  <2>2. ASSUME NEW c, NEW t, todo = <<PatchWrite("cave", c), PatchWrite("timer", t)>>
        PROVE  LET n == [m EXCEPT ![Head(todo).site] = Head(todo).value]
               IN  PatchSafe(n) /\ PatchUndoing(n, Tail(todo))
    <3>1. PatchSafe(m2("cave", c)) /\ PatchUndoing(m2("cave", c), <<PatchWrite("timer", t)>>)
      BY <1>0, <1>3 DEF PatchSafe, PatchUndoing
    <3>2. Head(todo) = PatchWrite("cave", c) /\ Tail(todo) = <<PatchWrite("timer", t)>>
      BY <2>2, PatchLists
    <3> QED BY <1>a, <3>1, <3>2
  <2> QED BY <1>3, <2>1, <2>2
<1>4. todo # <<>> /\ PatchUndoing(m, todo)
  OBVIOUS
<1> QED BY <1>1, <1>2, <1>3, <1>4 DEF PatchUndoing

\* A step of the operation that holds the mutex, in a process that goes on.
LEMMA PatchGoesOn ==
    ASSUME PatchConstants, PatchInv, PatchLeft, game'.pid = game.pid,
           game' = [pid |-> game'.pid, stopped |-> game'.stopped],
           UNCHANGED <<file, snap, watch>>, op'.cfg = op.cfg,
           op' = [pc |-> op'.pc, who |-> op'.who, cfg |-> op'.cfg, pid |-> op'.pid, traced |-> op'.traced,
                  todo |-> op'.todo, wrote |-> op'.wrote, err |-> op'.err],
           op'.pid \in {op.pid, game.pid}, op'.pc \notin {"inspect", "set"},
           op'.pc \in {"write", "undo"} => op'.pid # 0,
           PatchMemory(mem'), PatchSafe(mem'),
           op'.pid = game.pid => PatchPlan(mem, op)'
    PROVE  PatchInv'
<1>1. PatchTypeOK'
  BY DEF PatchInv, PatchTypeOK, PatchLeft, PatchMemory
<1>2. PatchPids'
  <2>1. /\ game.pid \in Int /\ op.pid \in Int /\ budget.restarts \in Int /\ budget.restarts <= MaxRestarts
        /\ MaxRestarts \in Nat
    BY DEF PatchInv, PatchPids, PatchTypeOK, PatchConstants
  <2> QED BY <2>1 DEF PatchInv, PatchPids, PatchLeft
<1>3. PatchCfgs'
  BY DEF PatchInv, PatchCfgs, PatchCfg
<1> QED BY <1>1, <1>2, <1>3 DEF PatchInv, PatchSafe

\* The writes an operation sets out with.
LEMMA PatchWritesFor ==
    ASSUME PatchConstants, PatchSafe(mem), NEW c, PatchCfg(c)
    PROVE  LET todo == Patches!WritesFor(c) IN
           \/ todo = <<>> \/ PatchEnabling(mem, todo, <<>>)
           \/ PatchDisabling(mem, todo, <<>>) \/ PatchClearing(mem, todo, <<>>)
<1>0. Patch = "party" /\ Patch # "mailbox"
  BY DEF PatchConstants
<1> DEFINE todo == Patches!WritesFor(c)
<1>1. CASE c.on
  <2>1. todo = <<>> \/ todo = Patches!EnableWrites(c.range)
    BY <1>0, <1>1 DEF Patches!WritesFor
  <2>2. Patches!EnableWrites(c.range)
          = <<PatchWrite("cave", c.range), PatchWrite("timer", 1), PatchWrite("branch", 1)>>
    BY DEF Patches!EnableWrites, Patches!Write, PatchWrite
  <2>3. PatchEnabling(mem, Patches!EnableWrites(c.range), <<>>)
    BY <1>1, <2>2 DEF PatchEnabling, PatchSafe, PatchCfg
  <2> QED BY <2>1, <2>3
<1>2. CASE ~c.on
  <2>1. todo = <<>> \/ todo = Patches!DisableWrites
    BY <1>0, <1>2 DEF Patches!WritesFor
  <2>2. CASE mem["branch"] = 1
    <3>1. Patches!DisableWrites
            = <<PatchWrite("branch", 0), PatchWrite("timer", 0), PatchWrite("cave", 0)>>
      BY <2>2 DEF Patches!DisableWrites, Patches!Write, PatchWrite
    <3>2. PatchDisabling(mem, Patches!DisableWrites, <<>>)
      BY <2>2, <3>1 DEF PatchDisabling, PatchSafe
    <3> QED BY <2>1, <3>2
  <2>3. CASE mem["branch"] # 1
    <3> DEFINE t == PatchWrite("timer", 0)
               k == PatchWrite("cave", 0)
    <3>0. Patches!Write("timer", 0) = t /\ Patches!Write("cave", 0) = k
      BY DEF Patches!Write, PatchWrite
    <3> HIDE DEF t, k
    <3>1. Patches!DisableWrites = <<t>> \/ Patches!DisableWrites = <<t, k>>
      BY <2>3, <3>0, PatchLists DEF Patches!DisableWrites
    <3>2. PatchClearing(mem, Patches!DisableWrites, <<>>)
      BY <2>3, <3>1 DEF PatchClearing, t, k
    <3> QED BY <2>1, <3>2
  <2> QED BY <2>2, <2>3
<1> QED BY <1>1, <1>2

\* The process is found, stopped and read.
LEMMA PatchSetStep == ASSUME PatchConstants, PatchInv, Patches!Set PROVE PatchInv'
<1>0. /\ PatchTypeOK /\ PatchCfgs /\ PatchSafe(mem) /\ game = [pid |-> game.pid, stopped |-> game.stopped]
      /\ PatchMemory(mem)
      /\ op = [pc |-> op.pc, who |-> op.who, cfg |-> op.cfg, pid |-> op.pid, traced |-> op.traced,
               todo |-> op.todo, wrote |-> op.wrote, err |-> op.err]
  BY DEF PatchInv, PatchTypeOK, PatchMemory
<1>1. PatchLeft
  BY <1>0, PatchLeftCases DEF Patches!Set
<1>2. op.pc = "set" /\ op.wrote = <<>> /\ UNCHANGED <<mem, file, snap, watch>>
  BY DEF PatchInv, Patches!Set
<1>3. CASE op' = [op EXCEPT !.pc = "after", !.err = TRUE, !.pid = game.pid] /\ UNCHANGED game
  <2>1. /\ op' = [pc |-> op'.pc, who |-> op'.who, cfg |-> op'.cfg, pid |-> op'.pid, traced |-> op'.traced,
                  todo |-> op'.todo, wrote |-> op'.wrote, err |-> op'.err]
        /\ op'.pc = "after" /\ op'.pid = game.pid /\ op'.cfg = op.cfg
    BY <1>0, <1>3
  <2>2. PatchPlan(mem, op)'
    BY <2>1 DEF PatchPlan
  <2>3. PatchMemory(mem') /\ PatchSafe(mem')
    BY <1>0, <1>2
  <2> QED BY <1>0, <1>1, <1>2, <1>3, <2>1, <2>2, <2>3, PatchGoesOn
<1>4. ASSUME NEW traced \in BOOLEAN, Patches!Hold(traced), game.pid # 0 PROVE PatchInv'
  <2>1. /\ op' = [pc |-> op'.pc, who |-> op'.who, cfg |-> op'.cfg, pid |-> op'.pid, traced |-> op'.traced,
                  todo |-> op'.todo, wrote |-> op'.wrote, err |-> op'.err]
        /\ op'.pc = "write" /\ op'.pid = game.pid /\ op'.cfg = op.cfg
        /\ op'.todo = Patches!WritesFor(op.cfg) /\ op'.wrote = <<>>
    BY <1>0, <1>2, <1>4 DEF Patches!Hold
  <2>2. game' = [pid |-> game'.pid, stopped |-> game'.stopped] /\ game'.pid = game.pid
    BY <1>0, <1>4 DEF Patches!Hold
  <2>3. LET todo == Patches!WritesFor(op.cfg) IN
        \/ todo = <<>> \/ PatchEnabling(mem, todo, <<>>)
        \/ PatchDisabling(mem, todo, <<>>) \/ PatchClearing(mem, todo, <<>>)
    BY <1>0, PatchWritesFor DEF PatchCfgs
  <2>4. PatchPlan(mem, op)'
    BY <1>2, <2>1, <2>3 DEF PatchPlan
  <2>5. PatchMemory(mem') /\ PatchSafe(mem')
    BY <1>0, <1>2
  <2> QED BY <1>0, <1>1, <1>2, <1>4, <2>1, <2>2, <2>4, <2>5, PatchGoesOn
<1> QED BY <1>3, <1>4 DEF Patches!Set

\* A write: it works, fails, or cannot be verified; a process that is gone takes none.
LEMMA PatchWriteStep == ASSUME PatchConstants, PatchInv, Patches!WriteSite PROVE PatchInv'
<1> DEFINE w == Head(op.todo)
           u == [site |-> w.site, value |-> mem[w.site]]
           m2 == [mem EXCEPT ![w.site] = w.value]
<1>0. /\ PatchTypeOK /\ PatchSafe(mem) /\ game = [pid |-> game.pid, stopped |-> game.stopped]
      /\ PatchMemory(mem)
      /\ op = [pc |-> op.pc, who |-> op.who, cfg |-> op.cfg, pid |-> op.pid, traced |-> op.traced,
               todo |-> op.todo, wrote |-> op.wrote, err |-> op.err]
  BY DEF PatchInv, PatchTypeOK, PatchMemory
<1>1. PICK done \in BOOLEAN, bad \in BOOLEAN :
         /\ done \/ bad
         /\ IF op.pid # game.pid THEN bad /\ ~done /\ UNCHANGED budget ELSE Patches!Outcome(bad)
         /\ mem' = IF done THEN m2 ELSE mem
         /\ op' = IF bad
                  THEN [op EXCEPT !.pc = "undo", !.todo = Patches!Restores(op.wrote, u), !.err = TRUE]
                  ELSE [op EXCEPT !.todo = Tail(@), !.wrote = Append(@, u)]
  BY DEF Patches!WriteSite
<1>2. op.pc = "write" /\ op.todo # <<>> /\ UNCHANGED <<game, file, snap, watch>> /\ op.pid # 0
  BY DEF Patches!WriteSite, PatchInv, PatchPids
<1>3. PatchLeft
  BY <1>0, <1>1, PatchLeftCases
<1>4. PatchMemory(m2)
  BY <1>0 DEF PatchMemory
<1>5. /\ op' = [pc |-> op'.pc, who |-> op'.who, cfg |-> op'.cfg, pid |-> op'.pid, traced |-> op'.traced,
                todo |-> op'.todo, wrote |-> op'.wrote, err |-> op'.err]
      /\ op'.pid = op.pid /\ op'.cfg = op.cfg
      /\ bad => op'.pc = "undo" /\ op'.todo = Patches!Restores(op.wrote, u)
      /\ ~bad => op'.pc = "write" /\ op'.todo = Tail(op.todo) /\ op'.wrote = Append(op.wrote, u)
  BY <1>0, <1>1, <1>2
<1> HIDE DEF m2
<1>6. PatchMemory(mem')
  BY <1>0, <1>1, <1>4
<1>7. CASE op.pid # game.pid
  <2>1. PatchSafe(mem')
    BY <1>0, <1>1, <1>7
  <2> QED BY <1>0, <1>2, <1>3, <1>5, <1>6, <1>7, <2>1, PatchGoesOn
<1>8. CASE op.pid = game.pid
  <2>1. PatchNext(mem, op.todo, op.wrote)
    <3>1. PatchPlan(mem, op)
      BY <1>8 DEF PatchInv
    <3> QED BY <1>0, <1>2, <3>1, PatchEnablingStep, PatchDisablingStep, PatchClearingStep DEF PatchPlan
  <2> DEFINE done2 == Append(op.wrote, u)
  <2>2. u = PatchWrite(w.site, mem[w.site])
    BY DEF PatchWrite
  <2>3. /\ PatchSafe(m2)
        /\ \/ Tail(op.todo) = <<>> \/ PatchEnabling(m2, Tail(op.todo), done2)
           \/ PatchDisabling(m2, Tail(op.todo), done2) \/ PatchClearing(m2, Tail(op.todo), done2)
        /\ PatchUndoing(mem, Patches!Reverse(done2)) /\ PatchUndoing(m2, Patches!Reverse(done2))
    BY <2>1, <2>2 DEF PatchNext, m2
  <2>4. Patches!Restores(op.wrote, u) \in {<<>>, Patches!Reverse(done2)}
    BY DEF Patches!Restores
  <2>5. PatchSafe(mem')
    BY <1>0, <1>1, <2>3
  <2>6. PatchUndoing(mem, <<>>) /\ PatchUndoing(m2, <<>>)
    BY <1>0, <2>3 DEF PatchSafe, PatchUndoing
  <2>7. PatchPlan(mem, op)'
    <3>1. CASE bad
      <4>1. budget'.faults = 0
        BY <1>0, <1>1, <1>8, <3>1, PatchOutcome
      <4>2. PatchUndoing(mem', op'.todo)
        BY <1>1, <1>5, <2>3, <2>4, <2>6, <3>1
      <4> QED BY <1>5, <3>1, <4>1, <4>2 DEF PatchPlan
    <3>2. CASE ~bad
      <4>1. mem' = m2
        BY <1>1, <3>2
      <4> QED BY <1>5, <2>3, <3>2, <4>1 DEF PatchPlan
    <3> QED BY <3>1, <3>2
  <2> HIDE DEF done2
  <2> QED BY <1>0, <1>2, <1>3, <1>5, <1>6, <1>8, <2>5, <2>7, PatchGoesOn
<1> QED BY <1>7, <1>8

\* A restore.
LEMMA PatchRestoreStep == ASSUME PatchConstants, PatchInv, Patches!Undo PROVE PatchInv'
<1> DEFINE w == Head(op.todo)
           m2 == [mem EXCEPT ![w.site] = w.value]
<1>0. /\ PatchTypeOK /\ PatchSafe(mem) /\ game = [pid |-> game.pid, stopped |-> game.stopped]
      /\ PatchMemory(mem)
      /\ op = [pc |-> op.pc, who |-> op.who, cfg |-> op.cfg, pid |-> op.pid, traced |-> op.traced,
               todo |-> op.todo, wrote |-> op.wrote, err |-> op.err]
  BY DEF PatchInv, PatchTypeOK, PatchMemory
<1>1. PICK bad \in BOOLEAN :
         /\ IF op.pid # game.pid THEN bad /\ UNCHANGED budget ELSE Patches!Outcome(bad)
         /\ mem' = IF bad THEN mem ELSE m2
  BY DEF Patches!Undo
<1>2. op.pc = "undo" /\ op.todo # <<>> /\ UNCHANGED <<game, file, snap, watch>> /\ op.pid # 0
  BY DEF Patches!Undo, PatchInv, PatchPids
<1>3. PatchLeft
  BY <1>0, <1>1, PatchLeftCases
<1>4. PatchMemory(m2)
  BY <1>0 DEF PatchMemory
<1>5. /\ op' = [pc |-> op'.pc, who |-> op'.who, cfg |-> op'.cfg, pid |-> op'.pid, traced |-> op'.traced,
                todo |-> op'.todo, wrote |-> op'.wrote, err |-> op'.err]
      /\ op'.pid = op.pid /\ op'.cfg = op.cfg /\ op'.pc = "undo" /\ op'.todo = Tail(op.todo)
  BY <1>0, <1>2 DEF Patches!Undo
<1>6. CASE op.pid # game.pid
  <2>1. mem' = mem
    BY <1>1, <1>6
  <2> QED BY <1>0, <1>2, <1>3, <1>5, <1>6, <2>1, PatchGoesOn
<1>7. CASE op.pid = game.pid
  <2>1. PatchUndoing(mem, op.todo) /\ budget.faults = 0
    BY <1>2, <1>7 DEF PatchInv, PatchPlan
  <2>2. mem' = m2 /\ budget'.faults = 0
    BY <1>0, <1>1, <1>7, <2>1, PatchOutcome
  <2>3. PatchSafe(m2) /\ PatchUndoing(m2, Tail(op.todo))
    BY <1>0, <1>2, <2>1, PatchUndoStep
  <2> HIDE DEF m2
  <2>4. PatchPlan(mem, op)'
    BY <1>5, <2>2, <2>3 DEF PatchPlan
  <2>5. PatchMemory(mem') /\ PatchSafe(mem')
    BY <1>4, <2>2, <2>3
  <2> QED BY <1>0, <1>2, <1>3, <1>5, <1>7, <2>4, <2>5, PatchGoesOn
<1> QED BY <1>6, <1>7

\* The process goes on.
LEMMA PatchResumeStep == ASSUME PatchConstants, PatchInv, Patches!Resume PROVE PatchInv'
<1>0. /\ PatchTypeOK /\ PatchSafe(mem) /\ game = [pid |-> game.pid, stopped |-> game.stopped]
      /\ PatchMemory(mem)
      /\ op = [pc |-> op.pc, who |-> op.who, cfg |-> op.cfg, pid |-> op.pid, traced |-> op.traced,
               todo |-> op.todo, wrote |-> op.wrote, err |-> op.err]
  BY DEF PatchInv, PatchTypeOK, PatchMemory
<1>1. PatchLeft /\ UNCHANGED <<mem, file, snap, watch>>
  BY <1>0, PatchLeftCases DEF Patches!Resume
<1>2. /\ op' = [pc |-> op'.pc, who |-> op'.who, cfg |-> op'.cfg, pid |-> op'.pid, traced |-> op'.traced,
                todo |-> op'.todo, wrote |-> op'.wrote, err |-> op'.err]
      /\ op'.pid = op.pid /\ op'.cfg = op.cfg /\ op'.pc = "after"
  BY <1>0 DEF Patches!Resume
<1>3. game' = [pid |-> game'.pid, stopped |-> game'.stopped] /\ game'.pid = game.pid
  BY <1>0 DEF Patches!Resume
<1>4. PatchPlan(mem, op)'
  BY <1>2 DEF PatchPlan
<1>5. PatchMemory(mem') /\ PatchSafe(mem')
  BY <1>0, <1>1
<1> QED BY <1>1, <1>2, <1>3, <1>4, <1>5, PatchGoesOn

\* The game exits, and starts again under a new number with its original bytes.
LEMMA PatchGameStep ==
    ASSUME PatchConstants, PatchInv, Patches!GameExits \/ Patches!GameStarts
    PROVE  PatchInv'
<1>0. /\ game.pid \in Int /\ op.pid \in Int /\ budget.restarts \in Int /\ budget.restarts <= MaxRestarts
      /\ MaxRestarts \in Nat
  BY DEF PatchInv, PatchPids, PatchTypeOK, PatchConstants
<1>1. UNCHANGED <<op, file, snap, watch>>
  BY DEF Patches!GameExits, Patches!GameStarts
<1>2. PatchCfgs'
  BY <1>1 DEF PatchInv, PatchCfgs, PatchCfg
<1>3. CASE Patches!GameExits
  <2>1. /\ budget' \in [edits : Int, faults : Int, kills : Int, restarts : Int]
        /\ budget'.faults = budget.faults /\ budget'.restarts = budget.restarts - 1
    BY <1>3, PatchSpend DEF Patches!GameExits, PatchInv
  <2>2. game' = [pid |-> 0, stopped |-> FALSE] /\ mem' = [s \in PatchSite |-> 0]
    BY <1>3 DEF Patches!GameExits, Patches!Places, PatchConstants, PatchSite
  <2>3. PatchTypeOK'
    <3>1. mem' = [s \in PatchSite |-> mem'[s]] /\ game' = [pid |-> game'.pid, stopped |-> game'.stopped]
      BY <2>2
    <3> QED BY <1>0, <1>1, <2>1, <3>1 DEF PatchInv, PatchTypeOK
  <2>4. PatchPids'
    BY <1>0, <1>1, <2>1, <2>2 DEF PatchInv, PatchPids
  <2>5. PatchSafe(mem)'
    BY <2>2 DEF PatchSafe, PatchSite
  <2>6. op'.pid = game'.pid => PatchPlan(mem, op)'
    <3>1. op.pc \in {"write", "undo"} => op.pid # 0
      BY DEF PatchInv, PatchPids
    <3> QED BY <1>1, <2>2, <3>1 DEF PatchPlan
  <2> QED BY <1>1, <1>2, <2>3, <2>4, <2>5, <2>6 DEF PatchInv
<1>4. CASE Patches!GameStarts
  <2>1. game' = [pid |-> 2 + MaxRestarts - budget.restarts, stopped |-> FALSE] /\ UNCHANGED <<mem, budget>> /\ game.pid = 0
    BY <1>4 DEF Patches!GameStarts
  <2>2. PatchTypeOK'
    BY <1>1, <2>1 DEF PatchInv, PatchTypeOK
  <2>3. PatchPids' /\ op'.pid # game'.pid
    BY <1>0, <1>1, <2>1 DEF PatchInv, PatchPids
  <2> QED BY <1>1, <1>2, <2>1, <2>2, <2>3 DEF PatchInv, PatchSafe
<1> QED BY <1>3, <1>4

\* What the web admin's patches of the running game promise, whenever it is killed and
\* whenever the game restarts: the game never holds a branch to a cave without a routine,
\* and with one write failing, the writes that put back what it replaced do not break it
\* either.
THEOREM BranchAlwaysHasRoutine ==
    ASSUME PatchConstants
    PROVE  Patches!Spec => []Patches!BranchHasRoutine /\ []BranchHasRoutine
<1>1. Patches!Init => PatchInv
  BY PatchInit
<1>2. PatchInv /\ [Patches!Next]_(Patches!vars) => PatchInv'
  <2> SUFFICES ASSUME PatchInv, [Patches!Next]_(Patches!vars) PROVE PatchInv'
    OBVIOUS
  <2>1. CASE UNCHANGED Patches!vars
    <3>1. PatchLeft
      BY <2>1, PatchLeftCases DEF Patches!vars, PatchInv
    <3>2. PatchCfgs'
      BY <2>1 DEF Patches!vars, PatchInv, PatchCfgs, PatchCfg
    <3> QED BY <2>1, <3>1, <3>2, PatchAside DEF Patches!vars
  <2>2. CASE Patches!OpSteps
    BY <2>2, PatchBegins, PatchSetStep, PatchWriteStep, PatchRestoreStep, PatchResumeStep DEF Patches!OpSteps
  <2>3. CASE Patches!WatchSteps \/ Patches!GuardReads \/ Patches!Restarted
    BY <2>3, PatchWatch
  <2>4. CASE \E c \in Patches!Config : Patches!handlePartyCompat(c) \/ Patches!handleCompat(c) \/ Patches!Edit(c)
    BY <2>4, PatchBegins, PatchWatch
  <2>5. CASE Patches!SupervisorBegins \/ Patches!GuardBegins \/ Patches!Killed
    BY <2>5, PatchBegins
  <2>6. CASE Patches!GameExits \/ Patches!GameStarts
    BY <2>6, PatchGameStep
  <2> QED BY <2>1, <2>2, <2>3, <2>4, <2>5, <2>6 DEF Patches!Next
<1>3. PatchInv => Patches!BranchHasRoutine
  BY DEF PatchInv, PatchSafe, Patches!BranchHasRoutine
<1>4. Patches!BranchHasRoutine => BranchHasRoutine
  BY DEF BranchHasRoutine
<1> QED BY <1>1, <1>2, <1>3, <1>4, PTL DEF Patches!Spec

-----------------------------------------------------------------------------
(* ApiServer: connections, jobs and tokens.                                *)

ApiConn == 1 .. MaxConns

\* Where a handler can be once its first packet was counted, and where it can be at all.
ApiServedAt == {"dispatch", "reply", "leave", "online", "delete"}
ApiHandlerAt == {"read"} \cup ApiServedAt

ApiCall == [addr : Addr \cup {0}, st : {"new", "backlog", "taken", "gone"} \cup ApiHandlerAt,
            ask : Requests \cup {"none"}, token : {0} \cup ApiConn, open : BOOLEAN, peer : BOOLEAN,
            registered : BOOLEAN]

ApiAcceptor == {<<"off", 0>>, <<"accept", 0>>} \cup ({"taken", "spawn"} \X ApiConn)

ApiSrv == [running : BOOLEAN, listening : BOOLEAN, clients : [Addr -> {0} \cup ApiConn], connCount : Int,
           pending : Int, byIP : [Api!Ip -> Int], wg : Int, acceptor : ApiAcceptor]
ApiTypeOK == conn \in [ApiConn -> ApiCall] /\ srv \in ApiSrv

\* What a connection is at each place.
ApiPlaces ==
    \A c \in ApiConn :
      /\ conn[c].st # "new" => conn[c].addr \in Addr
      /\ conn[c].st \in {"new", "gone"} => ~conn[c].open
      /\ conn[c].st \in {"new", "backlog", "taken", "read"} => ~conn[c].registered
      /\ conn[c].st \in {"dispatch", "reply", "online", "delete"} => conn[c].registered
      /\ (conn[c].st = "taken") <=> (srv.acceptor \in {<<"taken", c>>, <<"spawn", c>>})

\* Connections are made, and taken, in the order of their numbers.
ApiStage(c) ==
    IF conn[c].st = "new" THEN 3 ELSE IF conn[c].st = "backlog" THEN 2 ELSE IF conn[c].st = "taken" THEN 1 ELSE 0
ApiOrder ==
    \A c, d \in ApiConn : conn[d].st # "gone" /\ conn[c].st # "gone" /\ ApiStage(d) < ApiStage(c) => d < c

\* A peer that has an address again has lost its earlier connections.
ApiOpen ==
    main \in {"boot", "run", "flag", "listener"} =>
      /\ \A c \in ApiConn : conn[c].st \notin {"new", "gone"} => conn[c].open
      /\ \A c, d \in ApiConn :
           /\ d < c /\ conn[c].addr = conn[d].addr
           /\ conn[c].st \notin {"new", "gone"} /\ conn[d].st \notin {"new", "gone"}
           => ~conn[d].peer

\* How far the server has been closed.
ApiPhases ==
    /\ main \in {"boot", "run", "flag", "listener", "wait", "closed", "market", "background", "down"}
    /\ main = "run" <=> srv.running
    /\ main \in {"run", "flag"} <=> srv.listening
    /\ ~srv.listening => \A c \in ApiConn : conn[c].st # "backlog"
    /\ main = "boot" => /\ srv.acceptor = <<"off", 0>> /\ srv.wg = 0
                        /\ \A c \in ApiConn : conn[c].st = "new"
    /\ main \in {"closed", "market", "background", "down"} => srv.wg = 0

ApiRunning == {c \in ApiConn : conn[c].st \in ApiHandlerAt}
ApiHandled == {c \in ApiConn : conn[c].st \in ApiHandlerAt \/ srv.acceptor = <<"spawn", c>>}
ApiWaiting == {c \in ApiHandled : ~conn[c].registered}
ApiFrom(i) == {c \in ApiWaiting : IpOf[conn[c].addr] = i}
ApiServed == {c \in ApiHandled : conn[c].registered}

\* The counters.
ApiCounts ==
    /\ srv.wg = Cardinality(ApiRunning) + (IF srv.acceptor = <<"off", 0>> THEN 0 ELSE 1)
    /\ srv.pending = Cardinality(ApiWaiting)
    /\ \A i \in Api!Ip : srv.byIP[i] = Cardinality(ApiFrom(i))
    /\ srv.connCount = Cardinality(ApiServed) /\ srv.connCount <= MaxClients

\* The address of a client leads to its connection.
ApiClients ==
    main \in {"run", "flag", "listener"} =>
      \A c \in ApiHandled : conn[c].peer => srv.clients[conn[c].addr] = c

ApiSlotsInv == ApiTypeOK /\ ApiPlaces /\ ApiOrder /\ ApiOpen /\ ApiPhases /\ ApiCounts /\ ApiClients

\* The jobs.
ApiBusy == {n \in Api!Job : job[n] = "running"}
ApiJobsInv ==
    /\ job \in [Api!Job -> {"no", "named", "running", "finished"}]
    /\ bg \in [stopping : BOOLEAN, count : Int]
    /\ bg.count = Cardinality(ApiBusy)
    /\ main \in {"background", "down"} => bg.stopping
    /\ main = "down" => ApiBusy = {}

\* The tokens: one per unlock, none that was shown.
ApiTokensInv ==
    /\ \A t \in tokens : t.id \in issued \ shown /\ t = [id |-> t.id, ip |-> t.ip, old |-> t.old, at |-> t.at]
    /\ \A t, u \in tokens : t.id = u.id => t = u
    /\ issued \subseteq ApiConn /\ shown \subseteq issued
    /\ \A c \in ApiConn : conn[c].token \in {0} \cup issued
    /\ \A c \in issued : conn[c].st \in {"reply", "leave", "gone"} /\ IpOf[conn[c].addr] \in Loopback
    /\ deletes \in Seq([id : ApiConn, again : BOOLEAN])
    /\ \A n \in 1 .. Len(deletes) : deletes[n].id \in issued \cap shown /\ ~deletes[n].again
    /\ \A n, m \in 1 .. Len(deletes) : deletes[n].id = deletes[m].id => n = m

\* Counting by one.
LEMMA ApiCount ==
    ASSUME NEW S, IsFiniteSet(S), NEW c
    PROVE  /\ Cardinality(S) \in Nat
           /\ c \notin S => Cardinality(S \cup {c}) = Cardinality(S) + 1 /\ IsFiniteSet(S \cup {c})
           /\ c \in S => Cardinality(S \ {c}) = Cardinality(S) - 1 /\ Cardinality(S) > 0
<1>1. Cardinality(S) \in Nat
  BY FS_CardinalityType
<1>2. c \notin S => Cardinality(S \cup {c}) = Cardinality(S) + 1 /\ IsFiniteSet(S \cup {c})
  BY FS_AddElement
<1>3. c \in S => Cardinality(S \ {c}) = Cardinality(S) - 1 /\ Cardinality(S) > 0
  <2>1. ASSUME c \in S PROVE Cardinality(S \ {c}) = Cardinality(S) - 1 /\ IsFiniteSet(S \ {c})
    BY <2>1, FS_RemoveElement
  <2>2. ASSUME c \in S PROVE Cardinality(S \ {c}) \in Nat
    BY <2>1, <2>2, FS_CardinalityType
  <2> QED BY <1>1, <2>1, <2>2
<1> QED BY <1>1, <1>2, <1>3

\* There are finitely many connections to count.
LEMMA ApiFinite ==
    ASSUME ApiConstants
    PROVE  /\ IsFiniteSet(ApiRunning) /\ IsFiniteSet(ApiHandled) /\ IsFiniteSet(ApiWaiting)
           /\ IsFiniteSet(ApiServed) /\ \A i : IsFiniteSet(ApiFrom(i))
<1>1. IsFiniteSet(ApiConn)
  BY FS_Interval DEF ApiConn, ApiConstants
<1>2. ApiRunning \subseteq ApiConn /\ ApiHandled \subseteq ApiConn /\ ApiWaiting \subseteq ApiConn
      /\ ApiServed \subseteq ApiConn /\ \A i : ApiFrom(i) \subseteq ApiConn
  BY DEF ApiRunning, ApiHandled, ApiWaiting, ApiServed, ApiFrom
<1> QED BY <1>1, <1>2, FS_Subset

\* The instance counts as this module does.
LEMMA ApiCardinality == \A S : Api!Cardinality(S) = Cardinality(S)
  BY DEF Api!Cardinality, Cardinality

\* Nobody is connected at first.
LEMMA ApiInit == ASSUME ApiConstants, Api!Init PROVE ApiSlotsInv /\ ApiJobsInv /\ ApiTokensInv
<1> USE DEF Api!Init
<1>a. ApiConn = Api!Conn /\ Api!None = 0
  BY DEF ApiConn, Api!Conn, Api!None
<1>b. \A c \in ApiConn : conn[c] = [addr |-> 0, st |-> "new", ask |-> "none", token |-> 0,
                                    open |-> FALSE, peer |-> TRUE, registered |-> FALSE]
  BY <1>a
<1>c. srv = [running |-> FALSE, listening |-> FALSE, clients |-> [a \in Addr |-> 0],
             connCount |-> 0, pending |-> 0, byIP |-> [i \in Api!Ip |-> 0],
             wg |-> 0, acceptor |-> <<"off", 0>>]
  BY <1>a
<1>d. \A c \in ApiConn : <<"off", 0>> # <<"spawn", c>> /\ <<"off", 0>> # <<"taken", c>>
  OBVIOUS
<1>1. ApiTypeOK
  BY <1>a, <1>b, <1>c DEF ApiTypeOK, ApiSrv, ApiCall, ApiAcceptor
<1>e. /\ \A c \in ApiConn : conn[c].st = "new" /\ ~conn[c].open /\ ~conn[c].registered
      /\ srv.running = FALSE /\ srv.listening = FALSE /\ srv.acceptor = <<"off", 0>> /\ srv.wg = 0
      /\ main = "boot" /\ srv.pending = 0 /\ srv.connCount = 0 /\ \A i \in Api!Ip : srv.byIP[i] = 0
  <2>0. main = "boot"
    OBVIOUS
  <2> HIDE DEF Api!Init
  <2>1. \A c \in ApiConn : conn[c].st = "new" /\ ~conn[c].open /\ ~conn[c].registered
    BY <1>b
  <2>2. srv.byIP = [i \in Api!Ip |-> 0]
    BY <1>c
  <2>3. /\ srv.running = FALSE /\ srv.listening = FALSE /\ srv.acceptor = <<"off", 0>> /\ srv.wg = 0
        /\ main = "boot" /\ srv.pending = 0 /\ srv.connCount = 0
    BY <1>c, <2>0
  <2> QED BY <2>1, <2>2, <2>3
<1> HIDE DEF Api!Init
<1>2. ApiPlaces /\ ApiOrder /\ ApiOpen /\ ApiPhases
  BY <1>d, <1>e DEF ApiPlaces, ApiOrder, ApiStage, ApiOpen, ApiPhases, ApiConn
<1>3. ApiRunning = {} /\ ApiHandled = {}
  BY <1>d, <1>e DEF ApiRunning, ApiHandled, ApiHandlerAt, ApiServedAt
<1>4. ApiWaiting = {} /\ ApiServed = {} /\ \A i : ApiFrom(i) = {}
  BY <1>3 DEF ApiWaiting, ApiServed, ApiFrom
<1>5. ApiCounts
  <2>1. Cardinality({}) = 0
    BY FS_EmptySet
  <2>2. \A i \in Api!Ip : srv.byIP[i] = Cardinality(ApiFrom(i))
    BY <1>e, <1>4, <2>1
  <2>3. srv.wg = Cardinality(ApiRunning) + (IF srv.acceptor = <<"off", 0>> THEN 0 ELSE 1)
    BY <1>e, <1>3, <2>1
  <2>4. srv.pending = Cardinality(ApiWaiting) /\ srv.connCount = Cardinality(ApiServed) /\ srv.connCount <= MaxClients
    BY <1>e, <1>4, <2>1 DEF ApiConstants
  <2> QED BY <2>2, <2>3, <2>4 DEF ApiCounts
<1>6. ApiClients
  BY <1>e DEF ApiClients
<1> USE DEF Api!Init
<1>7. ApiJobsInv
  <2>1. ApiBusy = {}
    BY DEF ApiBusy
  <2> QED BY <2>1, FS_EmptySet DEF ApiJobsInv
<1>8. ApiTokensInv
  BY <1>a, <1>b DEF ApiTokensInv
<1> QED BY <1>1, <1>2, <1>5, <1>6, <1>7, <1>8 DEF ApiSlotsInv

\* Types of the server's record.
LEMMA ApiSrvType ==
    ASSUME NEW s \in ApiSrv, NEW a \in ApiAcceptor, NEW w \in Int
    PROVE  [s EXCEPT !.acceptor = a, !.wg = w] \in ApiSrv
  BY DEF ApiSrv

\* The order does not change when nobody gets to another stage.
LEMMA ApiSameOrder ==
    ASSUME ApiOrder, \A d \in ApiConn : conn'[d].st # "gone" => conn[d].st # "gone" /\ ApiStage(d)' = ApiStage(d)
    PROVE  ApiOrder'
  BY DEF ApiOrder

\* A handler goes on: no counter is about where it is.
LEMMA ApiMove ==
    ASSUME ApiSlotsInv, NEW c \in ApiConn, NEW s \in ApiServedAt, conn[c].st \in ApiHandlerAt,
           s \in {"dispatch", "reply", "online", "delete"} => conn[c].st # "read" /\ conn[c].registered,
           conn' = [conn EXCEPT ![c].st = s], UNCHANGED <<srv, main>>
    PROVE  ApiSlotsInv'
<1> USE DEF ApiHandlerAt, ApiServedAt
<1>0. ApiTypeOK /\ conn[c] \in ApiCall
  BY DEF ApiSlotsInv, ApiTypeOK
<1>1. /\ conn' \in [ApiConn -> ApiCall]
      /\ \A d \in ApiConn : /\ conn'[d].addr = conn[d].addr /\ conn'[d].open = conn[d].open
                            /\ conn'[d].peer = conn[d].peer /\ conn'[d].registered = conn[d].registered
                            /\ d # c => conn'[d].st = conn[d].st
      /\ conn'[c].st = s
  BY <1>0 DEF ApiTypeOK, ApiCall
<1>2. ApiTypeOK'
  BY <1>1 DEF ApiSlotsInv, ApiTypeOK, Api!Ip
<1>3. ApiPlaces'
  BY <1>1 DEF ApiSlotsInv, ApiPlaces
<1>4. ApiOpen' /\ ApiPhases'
  BY <1>1 DEF ApiSlotsInv, ApiOpen, ApiPhases
<1>9. ApiOrder'
  BY <1>1, ApiSameOrder DEF ApiSlotsInv, ApiStage
<1>5. ApiRunning' = ApiRunning /\ ApiHandled' = ApiHandled
  BY <1>1 DEF ApiRunning, ApiHandled
<1>6. ApiWaiting' = ApiWaiting /\ ApiServed' = ApiServed
  BY <1>1, <1>5 DEF ApiWaiting, ApiServed, ApiHandled
<1>7. ASSUME NEW i PROVE ApiFrom(i)' = ApiFrom(i)
  BY <1>1, <1>6 DEF ApiFrom, ApiWaiting, ApiHandled
<1>8. ApiCounts' /\ ApiClients'
  BY <1>1, <1>5, <1>6, <1>7 DEF ApiSlotsInv, ApiCounts, ApiClients, ApiHandled, Api!Ip
<1> QED BY <1>2, <1>3, <1>4, <1>8, <1>9 DEF ApiSlotsInv

\* What is counted does not change when nobody becomes or ceases to be handled.
LEMMA ApiSameSets ==
    ASSUME \A d \in ApiConn :
             /\ (conn'[d].st \in ApiHandlerAt) <=> (conn[d].st \in ApiHandlerAt)
             /\ (srv'.acceptor = <<"spawn", d>>) <=> (srv.acceptor = <<"spawn", d>>)
             /\ d \in ApiHandled => conn'[d].registered = conn[d].registered /\ conn'[d].addr = conn[d].addr
    PROVE  /\ ApiRunning' = ApiRunning /\ ApiHandled' = ApiHandled /\ ApiWaiting' = ApiWaiting
           /\ ApiServed' = ApiServed /\ \A i : ApiFrom(i)' = ApiFrom(i)
<1>1. ApiRunning' = ApiRunning /\ ApiHandled' = ApiHandled
  BY DEF ApiRunning, ApiHandled
<1>2. ApiHandled \subseteq ApiConn
  BY DEF ApiHandled
<1>3. ApiWaiting' = ApiWaiting /\ ApiServed' = ApiServed
  BY <1>1, <1>2 DEF ApiWaiting, ApiServed
<1>4. ApiWaiting \subseteq ApiHandled
  BY DEF ApiWaiting
<1>5. ASSUME NEW i PROVE ApiFrom(i)' = ApiFrom(i)
  BY <1>2, <1>3, <1>4 DEF ApiFrom
<1> QED BY <1>1, <1>3, <1>5

\* A step that counts nobody in or out keeps the counters.
LEMMA ApiSameCounts ==
    ASSUME ApiConstants, ApiSlotsInv,
           \A d \in ApiConn :
             /\ (conn'[d].st \in ApiHandlerAt) <=> (conn[d].st \in ApiHandlerAt)
             /\ (srv'.acceptor = <<"spawn", d>>) <=> (srv.acceptor = <<"spawn", d>>)
             /\ d \in ApiHandled => conn'[d].registered = conn[d].registered /\ conn'[d].addr = conn[d].addr,
           srv'.pending = srv.pending, srv'.byIP = srv.byIP, srv'.connCount = srv.connCount,
           srv'.wg = srv.wg + (IF srv'.acceptor = <<"off", 0>> THEN 0 ELSE 1)
                            - (IF srv.acceptor = <<"off", 0>> THEN 0 ELSE 1)
    PROVE  ApiCounts'
<1>1. /\ ApiRunning' = ApiRunning /\ ApiHandled' = ApiHandled /\ ApiWaiting' = ApiWaiting
      /\ ApiServed' = ApiServed /\ \A i : ApiFrom(i)' = ApiFrom(i)
  BY ApiSameSets
<1>2. /\ srv.wg = Cardinality(ApiRunning) + (IF srv.acceptor = <<"off", 0>> THEN 0 ELSE 1)
      /\ srv.wg \in Int
  BY DEF ApiSlotsInv, ApiCounts, ApiTypeOK, ApiSrv
<1>3. srv'.wg = Cardinality(ApiRunning') + (IF srv'.acceptor = <<"off", 0>> THEN 0 ELSE 1)
  <2>1. Cardinality(ApiRunning) \in Nat
    BY ApiFinite, FS_CardinalityType
  <2> QED BY <1>1, <1>2, <2>1
<1> QED BY <1>1, <1>3 DEF ApiSlotsInv, ApiCounts, Api!Ip

\* What a client does.
LEMMA ApiClientStep ==
    ASSUME ApiConstants, ApiSlotsInv, NEW c \in ApiConn,
           (\E a \in Addr : Api!Connect(c, a)) \/ Api!PeerGone(c)
    PROVE  ApiSlotsInv'
<1> USE DEF ApiHandlerAt, ApiServedAt
<1>0. ApiTypeOK /\ conn[c] \in ApiCall /\ Api!Conn = ApiConn
  BY DEF ApiSlotsInv, ApiTypeOK, Api!Conn, ApiConn
<1>1. ASSUME NEW a \in Addr, Api!Connect(c, a) PROVE ApiSlotsInv'
  <2>0. /\ conn[c].st = "new" /\ srv.listening /\ UNCHANGED <<srv, main>>
        /\ \A d \in ApiConn : conn[d].addr = a => ~conn[d].peer \/ ~conn[d].open
        /\ conn' = [conn EXCEPT ![c].addr = a, ![c].st = "backlog", ![c].open = TRUE]
    BY <1>0, <1>1 DEF Api!Connect
  <2>1. /\ conn' \in [ApiConn -> ApiCall]
        /\ \A d \in ApiConn \ {c} : conn'[d] = conn[d]
        /\ conn'[c].st = "backlog" /\ conn'[c].addr = a /\ conn'[c].open
        /\ conn'[c].peer = conn[c].peer /\ conn'[c].registered = conn[c].registered
    BY <1>0, <2>0 DEF ApiTypeOK, ApiCall
  <2>2. ApiTypeOK'
    BY <2>0, <2>1 DEF ApiSlotsInv, ApiTypeOK, Api!Ip
  <2>3. ApiPlaces'
    BY <2>0, <2>1 DEF ApiSlotsInv, ApiPlaces
  <2>4. ApiOpen'
    <3>1. \A d \in ApiConn : conn[d].st \notin {"new", "gone"} => d < c
      BY <2>0 DEF ApiSlotsInv, ApiOrder, ApiStage
    <3>2. c \in Int /\ \A d \in ApiConn : d \in Int
      BY DEF ApiConn
    <3> QED BY <2>0, <2>1, <3>1, <3>2 DEF ApiSlotsInv, ApiOpen
  <2>9. ApiOrder'
    <3>1. \A d \in ApiConn : d < c => conn[d].st # "new"
      BY <1>0, <1>1 DEF Api!Connect
    <3>2. \A d \in ApiConn : (d # c => ApiStage(d)' = ApiStage(d)) /\ ApiStage(c)' = 2 /\ ApiStage(c) = 3
      BY <2>0, <2>1 DEF ApiStage
    <3>3. \A d \in ApiConn : ApiStage(d) = 3 <=> conn[d].st = "new"
      BY DEF ApiStage
    <3>4. c \in Int /\ \A d \in ApiConn : d \in Int /\ ApiStage(d) \in 0 .. 3
      BY DEF ApiConn, ApiStage
    <3>5. ASSUME NEW d \in ApiConn, NEW e \in ApiConn, conn'[d].st # "gone", conn'[e].st # "gone",
                 ApiStage(d)' < ApiStage(e)'
          PROVE  d < e
      <4>1. CASE d = c
        <5>1. ApiStage(e) = 3 /\ e # c
          BY <3>2, <3>4, <3>5, <4>1
        <5> QED BY <3>1, <3>3, <3>4, <4>1, <5>1
      <4>2. CASE e = c /\ d # c
        BY <2>0, <2>1, <3>2, <3>4, <3>5, <4>2 DEF ApiSlotsInv, ApiOrder
      <4>3. CASE e # c /\ d # c
        BY <2>1, <3>2, <3>5, <4>3 DEF ApiSlotsInv, ApiOrder
      <4> QED BY <4>1, <4>2, <4>3
    <3> QED BY <3>5 DEF ApiOrder
  <2>5. ApiPhases'
    BY <2>0, <2>1 DEF ApiSlotsInv, ApiPhases
  <2>6. c \notin ApiHandled
    BY <2>0 DEF ApiHandled, ApiSlotsInv, ApiPlaces
  <2>7. ApiCounts'
    BY <2>0, <2>1, <2>6, ApiSameCounts, <1>0 DEF ApiTypeOK, ApiSrv
  <2>8. ApiClients'
    BY <2>0, <2>1, <2>6 DEF ApiSlotsInv, ApiClients, ApiHandled
  <2> QED BY <2>2, <2>3, <2>4, <2>5, <2>7, <2>8, <2>9 DEF ApiSlotsInv
<1>2. CASE Api!PeerGone(c)
  <2>0. UNCHANGED <<srv, main>> /\ conn' = [conn EXCEPT ![c].peer = FALSE]
    BY <1>2 DEF Api!PeerGone
  <2>1. /\ conn' \in [ApiConn -> ApiCall]
        /\ \A d \in ApiConn : /\ conn'[d].st = conn[d].st /\ conn'[d].addr = conn[d].addr
                              /\ conn'[d].open = conn[d].open /\ conn'[d].registered = conn[d].registered
                              /\ conn'[d].peer => conn[d].peer
    BY <1>0, <2>0 DEF ApiTypeOK, ApiCall
  <2>2. ApiTypeOK'
    BY <2>0, <2>1 DEF ApiSlotsInv, ApiTypeOK, Api!Ip
  <2>3. ApiPlaces'
    BY <2>0, <2>1 DEF ApiSlotsInv, ApiPlaces
  <2>9. ApiOrder'
    <3>1. \A d \in ApiConn : ApiStage(d)' = ApiStage(d)
      BY <2>1 DEF ApiStage
    <3> QED BY <2>1, <3>1, ApiSameOrder DEF ApiSlotsInv
  <2>4. ApiOpen'
    BY <2>0, <2>1 DEF ApiSlotsInv, ApiOpen
  <2>5. ApiPhases'
    BY <2>0, <2>1 DEF ApiSlotsInv, ApiPhases
  <2>7. ApiCounts'
    BY <2>0, <2>1, ApiSameCounts, <1>0 DEF ApiTypeOK, ApiSrv
  <2>8. ApiClients'
    BY <2>0, <2>1 DEF ApiSlotsInv, ApiClients, ApiHandled
  <2> QED BY <2>2, <2>3, <2>4, <2>5, <2>7, <2>8, <2>9 DEF ApiSlotsInv
<1> QED BY <1>1, <1>2

\* The places of the accept loop are told apart.
LEMMA ApiAcceptorAt ==
    ASSUME NEW c, NEW d, d # 0
    PROVE  /\ <<"taken", d>> # <<"spawn", c>> /\ <<"accept", 0>> # <<"spawn", d>> /\ <<"off", 0>> # <<"spawn", d>>
           /\ <<"accept", 0>> # <<"taken", d>> /\ <<"off", 0>> # <<"taken", d>> /\ <<"off", 0>> # <<"accept", 0>>
           /\ (<<"taken", c>> = <<"taken", d>>) => c = d
           /\ (<<"spawn", c>> = <<"spawn", d>>) => c = d
  OBVIOUS

\* A connection is taken from the backlog; the loop ends.
LEMMA ApiAcceptStep ==
    ASSUME ApiConstants, ApiSlotsInv, (\E c \in ApiConn : Api!Accept(c)) \/ Api!AcceptEnds
    PROVE  ApiSlotsInv'
<1> USE DEF ApiHandlerAt, ApiServedAt
<1>0. ApiTypeOK /\ Api!Conn = ApiConn /\ Api!None = 0 /\ \A d \in ApiConn : d # 0
  BY DEF ApiSlotsInv, ApiTypeOK, Api!Conn, ApiConn, Api!None
<1>1. ASSUME NEW c \in ApiConn, Api!Accept(c) PROVE ApiSlotsInv'
  <2>0. /\ srv.acceptor = <<"accept", 0>> /\ srv.listening /\ conn[c].st = "backlog"
        /\ conn' = [conn EXCEPT ![c].st = "taken"] /\ srv' = [srv EXCEPT !.acceptor = <<"taken", c>>] /\ main' = main
    BY <1>0, <1>1 DEF Api!Accept, Api!To
  <2>1. /\ conn' \in [ApiConn -> ApiCall]
        /\ \A d \in ApiConn \ {c} : conn'[d] = conn[d]
        /\ conn'[c].st = "taken" /\ conn'[c].addr = conn[c].addr /\ conn'[c].open = conn[c].open
        /\ conn'[c].peer = conn[c].peer /\ conn'[c].registered = conn[c].registered
    BY <1>0, <2>0 DEF ApiTypeOK, ApiCall
  <2>2. ApiTypeOK'
    BY <1>0, <2>0, <2>1 DEF ApiTypeOK, ApiSrv, ApiAcceptor, Api!Ip
  <2>a. /\ srv'.acceptor = <<"taken", c>> /\ srv'.running = srv.running /\ srv'.listening = srv.listening
        /\ srv'.pending = srv.pending /\ srv'.byIP = srv.byIP /\ srv'.connCount = srv.connCount
        /\ srv'.wg = srv.wg /\ srv'.clients = srv.clients
    BY <1>0, <2>0 DEF ApiTypeOK, ApiSrv
  <2>b. \A d \in ApiConn : conn[d].st # "taken" /\ srv.acceptor # <<"spawn", d>> /\ srv'.acceptor # <<"spawn", d>>
                           /\ (srv'.acceptor \in {<<"taken", d>>, <<"spawn", d>>} <=> d = c)
    BY <1>0, <2>0, <2>a, ApiAcceptorAt DEF ApiSlotsInv, ApiPlaces
  <2>3. ApiPlaces'
    BY <2>0, <2>1, <2>b DEF ApiSlotsInv, ApiPlaces
  <2>4. ApiOpen'
    BY <2>0, <2>1 DEF ApiSlotsInv, ApiOpen
  <2>9. ApiOrder'
    <3>1. \A d \in ApiConn : d < c => conn[d].st # "backlog"
      BY <1>0, <1>1 DEF Api!Accept
    <3>2. \A d \in ApiConn : (d # c => ApiStage(d)' = ApiStage(d)) /\ ApiStage(c)' = 1 /\ ApiStage(c) = 2
      BY <2>0, <2>1 DEF ApiStage
    <3>3. \A d \in ApiConn : (ApiStage(d) = 2 <=> conn[d].st = "backlog") /\ ApiStage(d) # 1
      BY <2>b DEF ApiStage
    <3>4. c \in Int /\ \A d \in ApiConn : d \in Int /\ ApiStage(d) \in 0 .. 3
      BY DEF ApiConn, ApiStage
    <3>5. ASSUME NEW d \in ApiConn, NEW e \in ApiConn, conn'[d].st # "gone", conn'[e].st # "gone",
                 ApiStage(d)' < ApiStage(e)'
          PROVE  d < e
      <4>1. CASE d = c
        <5>1. (ApiStage(e) = 2 \/ ApiStage(e) = 3) /\ e # c
          BY <3>2, <3>3, <3>4, <3>5, <4>1
        <5>2. CASE ApiStage(e) = 2
          BY <3>1, <3>3, <3>4, <4>1, <5>1, <5>2
        <5>3. CASE ApiStage(e) = 3
          BY <2>0, <2>1, <3>2, <3>5, <4>1, <5>1, <5>3 DEF ApiSlotsInv, ApiOrder
        <5> QED BY <5>1, <5>2, <5>3
      <4>2. CASE e = c /\ d # c
        BY <2>0, <2>1, <3>2, <3>4, <3>5, <4>2 DEF ApiSlotsInv, ApiOrder
      <4>3. CASE e # c /\ d # c
        BY <2>1, <3>2, <3>5, <4>3 DEF ApiSlotsInv, ApiOrder
      <4> QED BY <4>1, <4>2, <4>3
    <3> QED BY <3>5 DEF ApiOrder
  <2>5. ApiPhases'
    BY <2>0, <2>1, <2>a DEF ApiSlotsInv, ApiPhases
  <2>6. c \notin ApiHandled
    BY <2>0, <2>b DEF ApiHandled
  <2>c. srv'.acceptor # <<"off", 0>> /\ srv.acceptor # <<"off", 0>> /\ srv.wg \in Int
    BY <1>0, <2>0, <2>a, ApiAcceptorAt DEF ApiTypeOK, ApiSrv
  <2>7. ApiCounts'
    BY <2>0, <2>1, <2>6, <2>a, <2>b, <2>c, ApiSameCounts
  <2>8. ApiClients'
    BY <2>0, <2>1, <2>6, <2>a, <2>b DEF ApiSlotsInv, ApiClients, ApiHandled
  <2> QED BY <2>2, <2>3, <2>4, <2>5, <2>7, <2>8, <2>9 DEF ApiSlotsInv
<1>2. CASE Api!AcceptEnds
  <2>0. /\ srv.acceptor = <<"accept", 0>> /\ ~srv.running
        /\ srv' = [srv EXCEPT !.acceptor = <<"off", 0>>, !.wg = @ - 1] /\ UNCHANGED <<conn, main>>
    BY <1>0, <1>2 DEF Api!AcceptEnds
  <2>a. /\ srv'.acceptor = <<"off", 0>> /\ srv'.running = srv.running /\ srv'.listening = srv.listening
        /\ srv'.pending = srv.pending /\ srv'.byIP = srv.byIP /\ srv'.connCount = srv.connCount
        /\ srv'.wg = srv.wg - 1 /\ srv'.clients = srv.clients /\ srv.wg \in Int
    BY <1>0, <2>0 DEF ApiTypeOK, ApiSrv
  <2>1. ApiTypeOK'
    <3>1. <<"off", 0>> \in ApiAcceptor
      BY DEF ApiAcceptor
    <3>2. srv \in ApiSrv /\ srv.wg - 1 \in Int
      BY <1>0, <2>a DEF ApiTypeOK
    <3>3. srv' \in ApiSrv
      BY <2>0, <3>1, <3>2, ApiSrvType
    <3> QED BY <1>0, <2>0, <3>3 DEF ApiTypeOK, ApiSrv, Api!Ip
  <2>b. \A d \in ApiConn : /\ srv.acceptor # <<"spawn", d>> /\ srv.acceptor # <<"taken", d>>
                           /\ srv'.acceptor # <<"spawn", d>> /\ srv'.acceptor # <<"taken", d>>
    BY <1>0, <2>0, <2>a, ApiAcceptorAt
  <2>2. ApiPlaces' /\ ApiOpen' /\ ApiOrder'
    BY <2>0, <2>b DEF ApiSlotsInv, ApiPlaces, ApiOpen, ApiOrder, ApiStage
  <2>3. ApiCounts'
    <3>1. srv.acceptor # <<"off", 0>>
      BY <2>0, ApiAcceptorAt
    <3> QED BY <2>0, <2>a, <2>b, <3>1, ApiSameCounts
  <2>4. ApiPhases'
    <3>1. main \in {"closed", "market", "background", "down", "boot"} => FALSE
      <4>1. srv.wg = Cardinality(ApiRunning) + 1 /\ Cardinality(ApiRunning) \in Nat
        <5>1. srv.acceptor # <<"off", 0>>
          BY <2>0, ApiAcceptorAt
        <5> QED BY <5>1, ApiFinite, FS_CardinalityType DEF ApiSlotsInv, ApiCounts
      <4> QED BY <2>0, <4>1, ApiAcceptorAt DEF ApiSlotsInv, ApiPhases
    <3> QED BY <2>0, <2>a, <3>1 DEF ApiSlotsInv, ApiPhases
  <2>5. ApiClients'
    BY <2>0, <2>a, <2>b DEF ApiSlotsInv, ApiClients, ApiHandled
  <2> QED BY <2>1, <2>2, <2>3, <2>4, <2>5 DEF ApiSlotsInv
<1> QED BY <1>1, <1>2

\* A connection is turned away, or gets a place among those that wait.
LEMMA ApiAdmitStep == ASSUME ApiConstants, ApiSlotsInv, NEW c \in ApiConn, Api!Admit(c) PROVE ApiSlotsInv'
<1> USE DEF ApiHandlerAt, ApiServedAt
<1>0. ApiTypeOK /\ conn[c] \in ApiCall /\ Api!Conn = ApiConn /\ Api!None = 0
      /\ (\A d \in ApiConn : d # 0) /\ srv.acceptor = <<"taken", c>>
  BY DEF ApiSlotsInv, ApiTypeOK, Api!Conn, ApiConn, Api!None, Api!Admit
<1>a. /\ conn[c].st = "taken" /\ conn[c].addr \in Addr /\ ~conn[c].registered /\ c \notin ApiHandled
      /\ \A d \in ApiConn : /\ srv.acceptor # <<"spawn", d>> /\ srv.acceptor # <<"off", 0>>
                            /\ (d # c => conn[d].st # "taken")
  BY <1>0, ApiAcceptorAt DEF ApiSlotsInv, ApiPlaces, ApiHandled
<1>b. srv.wg = Cardinality(ApiRunning) + 1 /\ Cardinality(ApiRunning) \in Nat
  BY <1>a, ApiFinite, FS_CardinalityType DEF ApiSlotsInv, ApiCounts
<1>c. main \notin {"closed", "market", "background", "down", "boot"}
  BY <1>0, <1>a, <1>b DEF ApiSlotsInv, ApiPhases
<1> DEFINE i == IpOf[conn[c].addr]
<1>d. i \in Api!Ip /\ Api!Ipc(c) = i
  BY <1>a DEF Api!Ip, Api!Ipc
<1>1. CASE Api!Admitted(c)
  <2>0. /\ srv' = [srv EXCEPT !.acceptor = <<"spawn", c>>, !.clients[conn[c].addr] = c,
                              !.pending = @ + 1, !.byIP[i] = @ + 1]
        /\ UNCHANGED <<conn, main>> /\ srv.running
    BY <1>1, <1>d DEF Api!Admit, Api!Admitted
  <2>1. /\ srv'.acceptor = <<"spawn", c>> /\ srv'.running = srv.running /\ srv'.listening = srv.listening
        /\ srv'.pending = srv.pending + 1 /\ srv'.byIP = [srv.byIP EXCEPT ![i] = @ + 1]
        /\ srv'.connCount = srv.connCount /\ srv'.wg = srv.wg
        /\ srv'.clients = [srv.clients EXCEPT ![conn[c].addr] = c]
    BY <1>0, <2>0 DEF ApiTypeOK, ApiSrv
  <2> HIDE DEF i
  <2>2. ApiTypeOK'
    <3>1. srv'.byIP \in [Api!Ip -> Int] /\ srv'.clients \in [Addr -> {0} \cup ApiConn] /\ srv'.pending \in Int
      BY <1>0, <1>a, <1>d, <2>1 DEF ApiTypeOK, ApiSrv
    <3>2. srv'.acceptor \in ApiAcceptor
      BY <2>1 DEF ApiAcceptor
    <3>3. srv' = [running |-> srv'.running, listening |-> srv'.listening, clients |-> srv'.clients,
                  connCount |-> srv'.connCount, pending |-> srv'.pending, byIP |-> srv'.byIP,
                  wg |-> srv'.wg, acceptor |-> srv'.acceptor]
      BY <1>0, <2>0 DEF ApiTypeOK, ApiSrv
    <3>4. srv'.running \in BOOLEAN /\ srv'.listening \in BOOLEAN /\ srv'.connCount \in Int /\ srv'.wg \in Int
      BY <1>0, <2>1 DEF ApiTypeOK, ApiSrv
    <3>5. srv' \in ApiSrv
      BY <3>1, <3>2, <3>3, <3>4 DEF ApiSrv
    <3> QED BY <1>0, <2>0, <3>5 DEF ApiTypeOK, ApiSrv, Api!Ip
  <2>b. \A d \in ApiConn : /\ (srv'.acceptor = <<"spawn", d>> <=> d = c) /\ srv'.acceptor # <<"taken", d>>
                           /\ srv'.acceptor # <<"off", 0>>
    BY <1>0, <2>1, ApiAcceptorAt
  <2>3. ApiPlaces'
    BY <1>a, <2>0, <2>b DEF ApiSlotsInv, ApiPlaces
  <2>4. ApiOpen' /\ ApiPhases' /\ ApiOrder'
    BY <1>c, <2>0, <2>1 DEF ApiSlotsInv, ApiOpen, ApiPhases, ApiOrder, ApiStage
  <2>5. ApiRunning' = ApiRunning /\ ApiHandled' = ApiHandled \cup {c}
    BY <1>a, <2>0, <2>b DEF ApiRunning, ApiHandled
  <2>6. ApiWaiting' = ApiWaiting \cup {c} /\ ApiServed' = ApiServed
    BY <1>a, <2>0, <2>5 DEF ApiWaiting, ApiServed
  <2>7. ASSUME NEW j PROVE ApiFrom(j)' = IF j = i THEN ApiFrom(j) \cup {c} ELSE ApiFrom(j)
    BY <2>0, <2>6 DEF ApiFrom, i
  <2>8. c \notin ApiWaiting /\ \A j : c \notin ApiFrom(j)
    BY <1>a DEF ApiWaiting, ApiFrom
  <2>9. ApiCounts'
    <3>1. srv'.pending = Cardinality(ApiWaiting)'
      BY <2>1, <2>6, <2>8, ApiFinite, ApiCount DEF ApiSlotsInv, ApiCounts
    <3>2. ASSUME NEW j \in Api!Ip PROVE srv'.byIP[j] = Cardinality(ApiFrom(j))'
      <4>1. srv.byIP[j] = Cardinality(ApiFrom(j)) /\ srv'.byIP[j] = IF j = i THEN srv.byIP[j] + 1 ELSE srv.byIP[j]
        BY <1>0, <1>d, <2>1 DEF ApiSlotsInv, ApiCounts, ApiTypeOK, ApiSrv
      <4>2. CASE j = i
        <5>1. Cardinality(ApiFrom(j) \cup {c}) = Cardinality(ApiFrom(j)) + 1
          BY <2>8, ApiFinite, ApiCount
        <5> QED BY <2>7, <4>1, <4>2, <5>1
      <4>3. CASE j # i
        BY <2>7, <4>1, <4>3
      <4> QED BY <4>2, <4>3
    <3>3. srv'.wg = Cardinality(ApiRunning)' + (IF srv'.acceptor = <<"off", 0>> THEN 0 ELSE 1)
      BY <1>b, <2>1, <2>5, <2>b
    <3>4. srv'.connCount = Cardinality(ApiServed)' /\ srv'.connCount <= MaxClients
      BY <2>1, <2>6 DEF ApiSlotsInv, ApiCounts
    <3> QED BY <3>1, <3>2, <3>3, <3>4 DEF ApiCounts, Api!Ip
  <2>10. ApiClients'
    <3>1. main = "run"
      BY <2>0 DEF ApiSlotsInv, ApiPhases
    <3>2. ASSUME NEW d \in ApiHandled, d # c, conn[d].peer PROVE srv'.clients[conn[d].addr] = d
      <4>1. d \in ApiConn /\ conn[d].st \notin {"new", "gone"} /\ conn[d].addr \in Addr
        BY <1>a DEF ApiHandled, ApiSlotsInv, ApiPlaces
      <4>2. srv.clients[conn[d].addr] = d
        BY <3>1, <3>2 DEF ApiSlotsInv, ApiClients
      <4>3. CASE conn[d].addr # conn[c].addr
        BY <1>0, <1>a, <2>1, <4>1, <4>2, <4>3 DEF ApiTypeOK, ApiSrv
      <4>4. CASE conn[d].addr = conn[c].addr
        <5>1. d < c
          BY <1>a, <3>2, <4>1 DEF ApiSlotsInv, ApiOrder, ApiStage, ApiHandled
        <5> QED BY <1>a, <3>1, <3>2, <4>1, <4>4, <5>1 DEF ApiSlotsInv, ApiOpen
      <4> QED BY <4>3, <4>4
    <3>3. srv'.clients[conn[c].addr] = c
      BY <1>0, <1>a, <2>1 DEF ApiTypeOK, ApiSrv
    <3> QED BY <2>0, <2>5, <3>2, <3>3 DEF ApiClients
  <2> QED BY <2>2, <2>3, <2>4, <2>9, <2>10 DEF ApiSlotsInv
<1>2. CASE ~Api!Admitted(c)
  <2>0. /\ srv' = [srv EXCEPT !.acceptor = IF srv.running THEN <<"accept", 0>> ELSE <<"off", 0>>,
                              !.wg = IF srv.running THEN @ ELSE @ - 1]
        /\ conn' = [conn EXCEPT ![c].st = "gone", ![c].open = FALSE] /\ main' = main
    BY <1>0, <1>2 DEF Api!Admit
  <2>1. /\ conn' \in [ApiConn -> ApiCall]
        /\ \A d \in ApiConn \ {c} : conn'[d] = conn[d]
        /\ conn'[c].st = "gone" /\ conn'[c].open = FALSE /\ conn'[c].addr = conn[c].addr
    BY <1>0, <2>0 DEF ApiTypeOK, ApiCall
  <2>a. /\ srv'.acceptor = (IF srv.running THEN <<"accept", 0>> ELSE <<"off", 0>>)
        /\ srv'.running = srv.running /\ srv'.listening = srv.listening
        /\ srv'.pending = srv.pending /\ srv'.byIP = srv.byIP /\ srv'.connCount = srv.connCount
        /\ srv'.wg = (IF srv.running THEN srv.wg ELSE srv.wg - 1) /\ srv'.clients = srv.clients /\ srv.wg \in Int
    BY <1>0, <2>0 DEF ApiTypeOK, ApiSrv
  <2>2. ApiTypeOK'
    <3>1. <<"off", 0>> \in ApiAcceptor /\ <<"accept", 0>> \in ApiAcceptor
      BY DEF ApiAcceptor
    <3>2. srv' \in ApiSrv
      <4>1. srv.wg \in Int /\ srv.wg - 1 \in Int /\ srv \in ApiSrv
        BY <1>0, <2>a DEF ApiTypeOK
      <4>2. (IF srv.running THEN <<"accept", 0>> ELSE <<"off", 0>>) \in ApiAcceptor
        BY <3>1
      <4>3. (IF srv.running THEN srv.wg ELSE srv.wg - 1) \in Int
        BY <4>1
      <4> QED BY <2>0, <4>1, <4>2, <4>3, ApiSrvType
    <3> QED BY <1>0, <2>1, <3>2 DEF ApiTypeOK, ApiSrv, Api!Ip
  <2>b. \A d \in ApiConn : srv'.acceptor # <<"spawn", d>> /\ srv'.acceptor # <<"taken", d>>
    BY <1>0, <2>a, ApiAcceptorAt
  <2>3. ApiPlaces'
    BY <1>a, <2>0, <2>1, <2>b DEF ApiSlotsInv, ApiPlaces
  <2>4. ApiOpen' /\ ApiPhases'
    BY <1>c, <2>0, <2>1, <2>a DEF ApiSlotsInv, ApiOpen, ApiPhases
  <2>5. ApiOrder'
    BY <2>1, ApiSameOrder DEF ApiSlotsInv, ApiStage
  <2>6. ApiCounts'
    <3>1. (srv'.acceptor = <<"off", 0>>) <=> ~srv.running
      BY <2>a, ApiAcceptorAt
    <3> QED BY <1>a, <2>1, <2>a, <2>b, <3>1, ApiSameCounts
  <2>7. ApiClients'
    BY <1>a, <2>0, <2>1, <2>a, <2>b DEF ApiSlotsInv, ApiClients, ApiHandled
  <2> QED BY <2>2, <2>3, <2>4, <2>5, <2>6, <2>7 DEF ApiSlotsInv
<1> QED BY <1>1, <1>2

\* The handler of an admitted connection starts.
LEMMA ApiSpawnStep == ASSUME ApiConstants, ApiSlotsInv, NEW c \in ApiConn, Api!Spawn(c) PROVE ApiSlotsInv'
<1> USE DEF ApiHandlerAt, ApiServedAt
<1>0. /\ ApiTypeOK /\ conn[c] \in ApiCall /\ Api!None = 0 /\ (\A d \in ApiConn : d # 0)
      /\ srv.acceptor = <<"spawn", c>> /\ srv \in ApiSrv
  BY DEF ApiSlotsInv, ApiTypeOK, ApiConn, Api!None, Api!Spawn
<1>1. /\ srv' = [srv EXCEPT !.acceptor = <<"accept", 0>>, !.wg = @ + 1]
      /\ conn' = [conn EXCEPT ![c].st = "read"] /\ main' = main
  BY <1>0 DEF Api!Spawn, Api!To
<1>2. /\ conn' \in [ApiConn -> ApiCall]
      /\ \A d \in ApiConn : /\ conn'[d].addr = conn[d].addr /\ conn'[d].open = conn[d].open
                            /\ conn'[d].peer = conn[d].peer /\ conn'[d].registered = conn[d].registered
                            /\ d # c => conn'[d].st = conn[d].st
      /\ conn'[c].st = "read"
  BY <1>0, <1>1 DEF ApiTypeOK, ApiCall
<1>3. /\ srv'.acceptor = <<"accept", 0>> /\ srv'.running = srv.running /\ srv'.listening = srv.listening
      /\ srv'.pending = srv.pending /\ srv'.byIP = srv.byIP /\ srv'.connCount = srv.connCount
      /\ srv'.wg = srv.wg + 1 /\ srv'.clients = srv.clients /\ srv.wg \in Int
  BY <1>0, <1>1 DEF ApiSrv
<1>4. ApiTypeOK'
  <2>1. <<"accept", 0>> \in ApiAcceptor /\ srv.wg + 1 \in Int
    BY <1>3 DEF ApiAcceptor
  <2>2. srv' \in ApiSrv
    BY <1>0, <1>1, <2>1, ApiSrvType
  <2> QED BY <1>2, <2>2 DEF ApiTypeOK, ApiSrv, Api!Ip
<1>a. /\ conn[c].st = "taken" /\ ~conn[c].registered
      /\ \A d \in ApiConn : /\ (srv.acceptor = <<"spawn", d>>) <=> d = c
                            /\ (d # c => conn[d].st # "taken")
                            /\ srv'.acceptor # <<"spawn", d>> /\ srv'.acceptor # <<"taken", d>>
      /\ srv.acceptor # <<"off", 0>> /\ srv'.acceptor # <<"off", 0>>
  BY <1>0, <1>3, ApiAcceptorAt DEF ApiSlotsInv, ApiPlaces
<1>5. ApiPlaces'
  BY <1>2, <1>a DEF ApiSlotsInv, ApiPlaces
<1>6. ApiOpen'
  BY <1>1, <1>2, <1>a DEF ApiSlotsInv, ApiOpen
<1>7. ApiRunning' = ApiRunning \cup {c} /\ c \notin ApiRunning
  BY <1>2, <1>a DEF ApiRunning
<1>8. ApiHandled' = ApiHandled
  BY <1>2, <1>a DEF ApiHandled
<1>9. ApiHandled \subseteq ApiConn
  BY DEF ApiHandled
<1>10. ApiWaiting' = ApiWaiting /\ ApiServed' = ApiServed
  BY <1>2, <1>8, <1>9 DEF ApiWaiting, ApiServed
<1>11. ASSUME NEW i PROVE ApiFrom(i)' = ApiFrom(i)
  BY <1>2, <1>9, <1>10 DEF ApiFrom, ApiWaiting
<1>12. ApiCounts'
  <2>1. Cardinality(ApiRunning \cup {c}) = Cardinality(ApiRunning) + 1 /\ Cardinality(ApiRunning) \in Nat
    BY <1>7, ApiFinite, ApiCount
  <2>2. srv'.wg = Cardinality(ApiRunning)' + (IF srv'.acceptor = <<"off", 0>> THEN 0 ELSE 1)
    BY <1>3, <1>7, <1>a, <2>1 DEF ApiSlotsInv, ApiCounts
  <2> QED BY <1>3, <1>10, <1>11, <2>2 DEF ApiSlotsInv, ApiCounts, Api!Ip
<1>13. ApiClients'
  BY <1>1, <1>2, <1>3, <1>8, <1>9 DEF ApiSlotsInv, ApiClients
<1>14. ApiPhases'
  <2>1. srv.wg > 0
    <3>1. Cardinality(ApiRunning) \in Nat
      BY ApiFinite, FS_CardinalityType
    <3> QED BY <1>a, <3>1 DEF ApiSlotsInv, ApiCounts
  <2> QED BY <1>1, <1>2, <1>3, <1>a, <2>1 DEF ApiSlotsInv, ApiPhases
<1>15. ApiOrder'
  <2>1. \A d \in ApiConn : (d # c => ApiStage(d)' = ApiStage(d)) /\ ApiStage(c)' = 0 /\ ApiStage(c) = 1
    BY <1>2, <1>a DEF ApiStage
  <2>2. \A d \in ApiConn : ApiStage(d) \in 0 .. 3 /\ (d # c => ApiStage(d) # 1)
    BY <1>a DEF ApiStage
  <2>3. ASSUME NEW d \in ApiConn, NEW e \in ApiConn, conn'[d].st # "gone", conn'[e].st # "gone",
               ApiStage(d)' < ApiStage(e)'
        PROVE  d < e
    <3>1. e # c /\ ApiStage(d) < ApiStage(e) /\ conn[d].st # "gone" /\ conn[e].st # "gone"
      BY <1>2, <1>a, <2>1, <2>2, <2>3
    <3> QED BY <3>1 DEF ApiSlotsInv, ApiOrder
  <2> QED BY <2>3 DEF ApiOrder
<1> QED BY <1>4, <1>5, <1>6, <1>12, <1>13, <1>14, <1>15 DEF ApiSlotsInv

\* The first packet of a connection is counted: it waits no longer and is served.
LEMMA ApiReadStep ==
    ASSUME ApiConstants, ApiSlotsInv, NEW c \in ApiConn, NEW q \in Requests, NEW t \in {0} \cup ApiConn,
           Api!Read(c, q, t)
    PROVE  ApiSlotsInv'
<1> USE DEF ApiHandlerAt, ApiServedAt
<1>0. ApiTypeOK /\ conn[c] \in ApiCall /\ srv \in ApiSrv /\ conn[c].st = "read" /\ main' = main
  BY DEF ApiSlotsInv, ApiTypeOK, Api!Read
<1>1. CASE srv.connCount < MaxClients
  <2> DEFINE i == IpOf[conn[c].addr]
  <2>a. conn[c].addr \in Addr /\ ~conn[c].registered /\ c \in ApiHandled /\ c \in ApiWaiting /\ c \in ApiFrom(i)
        /\ c \notin ApiServed
    BY <1>0 DEF ApiSlotsInv, ApiPlaces, ApiHandled, ApiWaiting, ApiFrom, ApiServed
  <2>b. i \in Api!Ip /\ Api!Ipc(c) = i
    BY <2>a DEF Api!Ip, Api!Ipc
  <2>c. /\ srv.pending = Cardinality(ApiWaiting) /\ srv.pending > 0
        /\ srv.byIP[i] = Cardinality(ApiFrom(i)) /\ srv.byIP[i] > 0
        /\ Cardinality(ApiWaiting \ {c}) = Cardinality(ApiWaiting) - 1
        /\ Cardinality(ApiFrom(i) \ {c}) = Cardinality(ApiFrom(i)) - 1
        /\ Cardinality(ApiServed \cup {c}) = Cardinality(ApiServed) + 1
        /\ srv.connCount = Cardinality(ApiServed) /\ srv.connCount \in Int /\ srv.pending \in Int
    BY <1>0, <2>a, <2>b, ApiFinite, ApiCount DEF ApiSlotsInv, ApiCounts, ApiSrv
  <2> HIDE DEF i
  <2>d. /\ srv' = [[srv EXCEPT !.pending = IF @ > 0 THEN @ - 1 ELSE 0, !.byIP[i] = IF @ > 0 THEN @ - 1 ELSE 0]
                    EXCEPT !.connCount = @ + 1]
        /\ conn' = [conn EXCEPT ![c].st = "dispatch", ![c].registered = TRUE, ![c].ask = q, ![c].token = t]
    BY <1>1, <2>b DEF Api!Read, Api!WithoutPending
  <2>1. /\ conn' \in [ApiConn -> ApiCall]
        /\ \A d \in ApiConn : /\ conn'[d].addr = conn[d].addr /\ conn'[d].open = conn[d].open
                              /\ conn'[d].peer = conn[d].peer
                              /\ d # c => conn'[d].st = conn[d].st /\ conn'[d].registered = conn[d].registered
        /\ conn'[c].st = "dispatch" /\ conn'[c].registered
    BY <1>0, <2>d DEF ApiTypeOK, ApiCall
  <2>2. /\ srv'.acceptor = srv.acceptor /\ srv'.running = srv.running /\ srv'.listening = srv.listening
        /\ srv'.pending = srv.pending - 1 /\ srv'.byIP = [srv.byIP EXCEPT ![i] = @ - 1]
        /\ srv'.connCount = srv.connCount + 1 /\ srv'.wg = srv.wg /\ srv'.clients = srv.clients
        /\ srv' = [running |-> srv'.running, listening |-> srv'.listening, clients |-> srv'.clients,
                   connCount |-> srv'.connCount, pending |-> srv'.pending, byIP |-> srv'.byIP,
                   wg |-> srv'.wg, acceptor |-> srv'.acceptor]
    BY <1>0, <2>b, <2>c, <2>d DEF ApiSrv
  <2>3. ApiTypeOK'
    <3>1. srv'.byIP \in [Api!Ip -> Int]
      BY <1>0, <2>b, <2>2 DEF ApiSrv
    <3>2. srv' \in ApiSrv
      BY <1>0, <2>2, <2>c, <3>1 DEF ApiSrv
    <3> QED BY <2>1, <3>2 DEF ApiTypeOK, ApiSrv, Api!Ip
  <2>4. ApiPlaces'
    BY <1>0, <2>1, <2>2 DEF ApiSlotsInv, ApiPlaces
  <2>5. ApiOpen' /\ ApiPhases'
    BY <1>0, <2>1, <2>2 DEF ApiSlotsInv, ApiOpen, ApiPhases
  <2>6. ApiOrder'
    <3>1. \A d \in ApiConn : ApiStage(d)' = ApiStage(d)
      BY <1>0, <2>1 DEF ApiStage
    <3> QED BY <1>0, <2>1, <3>1, ApiSameOrder DEF ApiSlotsInv
  <2>7. ApiRunning' = ApiRunning /\ ApiHandled' = ApiHandled
    BY <1>0, <2>1, <2>2 DEF ApiRunning, ApiHandled
  <2>8. ApiHandled \subseteq ApiConn
    BY DEF ApiHandled
  <2>9. ApiWaiting' = ApiWaiting \ {c} /\ ApiServed' = ApiServed \cup {c}
    BY <2>1, <2>7, <2>8, <2>a DEF ApiWaiting, ApiServed
  <2>10. ASSUME NEW j PROVE ApiFrom(j)' = IF j = i THEN ApiFrom(j) \ {c} ELSE ApiFrom(j)
    <3>1. ApiWaiting \subseteq ApiConn
      BY <2>8 DEF ApiWaiting
    <3>2. ApiFrom(j)' = {d \in ApiWaiting \ {c} : IpOf[conn[d].addr] = j}
      BY <2>1, <2>9, <3>1 DEF ApiFrom
    <3> QED BY <3>2 DEF ApiFrom, i
  <2>11. ApiCounts'
    <3>1. ASSUME NEW j \in Api!Ip PROVE srv'.byIP[j] = Cardinality(ApiFrom(j))'
      <4>1. srv.byIP[j] = Cardinality(ApiFrom(j)) /\ srv'.byIP[j] = IF j = i THEN srv.byIP[j] - 1 ELSE srv.byIP[j]
        BY <1>0, <2>b, <2>2 DEF ApiSlotsInv, ApiCounts, ApiSrv
      <4>2. CASE j = i
        BY <2>10, <2>c, <4>1, <4>2
      <4>3. CASE j # i
        BY <2>10, <4>1, <4>3
      <4> QED BY <4>2, <4>3
    <3>2. srv'.pending = Cardinality(ApiWaiting)'
      BY <2>2, <2>9, <2>c
    <3>3. srv'.connCount = Cardinality(ApiServed)' /\ srv'.connCount <= MaxClients
      BY <1>1, <2>2, <2>9, <2>c DEF ApiConstants
    <3>4. srv'.wg = Cardinality(ApiRunning)' + (IF srv'.acceptor = <<"off", 0>> THEN 0 ELSE 1)
      BY <2>2, <2>7 DEF ApiSlotsInv, ApiCounts
    <3> QED BY <3>1, <3>2, <3>3, <3>4 DEF ApiCounts, Api!Ip
  <2>12. ApiClients'
    BY <1>0, <2>1, <2>2, <2>7, <2>8 DEF ApiSlotsInv, ApiClients
  <2> QED BY <2>3, <2>4, <2>5, <2>6, <2>11, <2>12 DEF ApiSlotsInv
<1>2. CASE ~(srv.connCount < MaxClients)
  <2>1. conn' = [conn EXCEPT ![c].st = "leave"] /\ UNCHANGED srv
    BY <1>2 DEF Api!Read, Api!To
  <2> QED BY <1>0, <2>1, ApiMove
<1> QED BY <1>1, <1>2

\* A handler ends: it gives back the place it has, and its address if that is still its own.
LEMMA ApiLeaveStep == ASSUME ApiConstants, ApiSlotsInv, NEW c \in ApiConn, Api!Leave(c) PROVE ApiSlotsInv'
<1> USE DEF ApiHandlerAt, ApiServedAt
<1>0. ApiTypeOK /\ conn[c] \in ApiCall /\ srv \in ApiSrv /\ conn[c].st = "leave" /\ main' = main /\ Api!None = 0
  BY DEF ApiSlotsInv, ApiTypeOK, Api!Leave, Api!None
<1> DEFINE i == IpOf[conn[c].addr]
           s1 == IF srv.clients[conn[c].addr] = c THEN [srv EXCEPT !.clients[conn[c].addr] = 0] ELSE srv
<1>a. conn[c].addr \in Addr /\ c \in ApiHandled /\ c \in ApiRunning /\ i \in Api!Ip /\ Api!Ipc(c) = i
  BY <1>0 DEF ApiSlotsInv, ApiPlaces, ApiHandled, ApiRunning, Api!Ip, Api!Ipc
<1>b. /\ s1 \in ApiSrv /\ s1.acceptor = srv.acceptor /\ s1.running = srv.running /\ s1.listening = srv.listening
      /\ s1.pending = srv.pending /\ s1.byIP = srv.byIP /\ s1.connCount = srv.connCount /\ s1.wg = srv.wg
      /\ \A a \in Addr : s1.clients[a] = IF a = conn[c].addr /\ srv.clients[a] = c THEN 0 ELSE srv.clients[a]
  <2>1. CASE srv.clients[conn[c].addr] = c
    <3>1. /\ s1 = [srv EXCEPT !.clients[conn[c].addr] = 0]
          /\ [srv.clients EXCEPT ![conn[c].addr] = 0] \in [Addr -> {0} \cup ApiConn]
      BY <1>0, <1>a, <2>1 DEF ApiSrv
    <3>2. s1.clients = [srv.clients EXCEPT ![conn[c].addr] = 0]
      BY <1>0, <3>1 DEF ApiSrv
    <3> QED BY <1>0, <1>a, <2>1, <3>1, <3>2 DEF ApiSrv
  <2>2. CASE srv.clients[conn[c].addr] # c
    BY <1>0, <2>2
  <2> QED BY <2>1, <2>2
<1>c. /\ srv' = [(IF conn[c].registered THEN [s1 EXCEPT !.connCount = IF @ > 0 THEN @ - 1 ELSE 0]
                  ELSE [s1 EXCEPT !.pending = IF @ > 0 THEN @ - 1 ELSE 0, !.byIP[i] = IF @ > 0 THEN @ - 1 ELSE 0])
                 EXCEPT !.wg = @ - 1]
      /\ conn' = [conn EXCEPT ![c].st = "gone", ![c].open = FALSE]
  BY <1>0, <1>a DEF Api!Leave, Api!WithoutPending, Api!OwnEntry
<1> HIDE DEF s1, i
<1>1. /\ conn' \in [ApiConn -> ApiCall]
      /\ \A d \in ApiConn \ {c} : conn'[d] = conn[d]
      /\ conn'[c].st = "gone" /\ conn'[c].open = FALSE /\ conn'[c].registered = conn[c].registered
      /\ conn'[c].addr = conn[c].addr
  BY <1>0, <1>c DEF ApiTypeOK, ApiCall
<1>d. srv.acceptor # <<"spawn", c>> /\ srv.acceptor # <<"taken", c>>
  BY <1>0 DEF ApiSlotsInv, ApiPlaces
<1>2. ApiRunning' = ApiRunning \ {c}
  BY <1>1 DEF ApiRunning
<1>e. /\ Cardinality(ApiRunning \ {c}) = Cardinality(ApiRunning) - 1 /\ Cardinality(ApiRunning) \in Nat
      /\ Cardinality(ApiRunning) > 0 /\ srv.wg > 0
  <2>1. /\ Cardinality(ApiRunning \ {c}) = Cardinality(ApiRunning) - 1 /\ Cardinality(ApiRunning) \in Nat
        /\ Cardinality(ApiRunning) > 0
    BY <1>a, ApiFinite, ApiCount
  <2> QED BY <2>1 DEF ApiSlotsInv, ApiCounts
<1>f. main \notin {"boot", "closed", "market", "background", "down"}
  BY <1>0, <1>e DEF ApiSlotsInv, ApiPhases
\* What the two kinds of places have in common.
<1>3. ASSUME srv' \in ApiSrv, srv'.acceptor = srv.acceptor, srv'.running = srv.running,
             srv'.listening = srv.listening, srv'.wg = srv.wg - 1, srv'.clients = s1.clients,
             srv'.pending = Cardinality(ApiWaiting)', srv'.connCount = Cardinality(ApiServed)',
             srv'.connCount <= MaxClients, \A j \in Api!Ip : srv'.byIP[j] = Cardinality(ApiFrom(j))'
      PROVE  ApiSlotsInv'
  <2>1. ApiTypeOK'
    BY <1>1, <1>3 DEF ApiTypeOK, ApiSrv, Api!Ip
  <2>2. ApiPlaces'
    BY <1>0, <1>1, <1>3, <1>d DEF ApiSlotsInv, ApiPlaces
  <2>3. ApiOpen' /\ ApiPhases'
    BY <1>0, <1>1, <1>3, <1>f DEF ApiSlotsInv, ApiOpen, ApiPhases
  <2>4. ApiOrder'
    BY <1>1, ApiSameOrder DEF ApiSlotsInv, ApiStage
  <2>5. srv'.wg = Cardinality(ApiRunning)' + (IF srv'.acceptor = <<"off", 0>> THEN 0 ELSE 1)
    BY <1>2, <1>3, <1>e DEF ApiSlotsInv, ApiCounts
  <2>6. ApiCounts'
    BY <1>3, <2>5 DEF ApiCounts, Api!Ip
  <2>7. ApiHandled' \subseteq ApiHandled \ {c}
    BY <1>1, <1>3, <1>d DEF ApiHandled
  <2>8. ApiClients'
    <3>1. ASSUME NEW d \in ApiHandled, d # c, conn[d].peer, main \in {"run", "flag", "listener"}
          PROVE  srv'.clients[conn[d].addr] = d
      <4>1. d \in ApiConn /\ conn[d].addr \in Addr
        BY DEF ApiHandled, ApiSlotsInv, ApiPlaces
      <4>2. srv.clients[conn[d].addr] = d
        BY <3>1 DEF ApiSlotsInv, ApiClients
      <4> QED BY <1>3, <1>b, <3>1, <4>1, <4>2
    <3>2. ApiHandled \subseteq ApiConn
      BY DEF ApiHandled
    <3> QED BY <1>0, <1>1, <2>7, <3>1, <3>2 DEF ApiClients
  <2> QED BY <2>1, <2>2, <2>3, <2>4, <2>6, <2>8 DEF ApiSlotsInv
<1>4. ApiHandled \subseteq ApiConn
  BY DEF ApiHandled
<1>5. srv'.acceptor = srv.acceptor
  BY <1>0, <1>b, <1>c DEF ApiSrv
<1>6. ApiHandled' = ApiHandled \ {c}
  BY <1>1, <1>5, <1>d DEF ApiHandled
<1>7. ApiWaiting' = ApiWaiting \ {c} /\ ApiServed' = ApiServed \ {c}
  BY <1>1, <1>4, <1>6 DEF ApiWaiting, ApiServed
<1>8. ASSUME NEW j PROVE ApiFrom(j)' = ApiFrom(j) \ {c}
  <2>1. ApiWaiting \subseteq ApiConn
    BY <1>4 DEF ApiWaiting
  <2>2. ApiFrom(j)' = {d \in ApiWaiting \ {c} : IpOf[conn[d].addr] = j}
    BY <1>1, <1>7, <2>1 DEF ApiFrom
  <2> QED BY <2>2 DEF ApiFrom
<1>9. CASE conn[c].registered
  <2>1. c \in ApiServed /\ c \notin ApiWaiting /\ \A j : c \notin ApiFrom(j)
    BY <1>9, <1>a DEF ApiServed, ApiWaiting, ApiFrom
  <2>2. /\ Cardinality(ApiServed \ {c}) = Cardinality(ApiServed) - 1
        /\ Cardinality(ApiServed) \in Nat /\ Cardinality(ApiServed) > 0 /\ srv.connCount = Cardinality(ApiServed)
        /\ srv.connCount <= MaxClients
    BY <2>1, ApiFinite, ApiCount DEF ApiSlotsInv, ApiCounts
  <2>3. srv' = [s1 EXCEPT !.connCount = srv.connCount - 1, !.wg = srv.wg - 1]
    <3>1. srv' = [[s1 EXCEPT !.connCount = IF @ > 0 THEN @ - 1 ELSE 0] EXCEPT !.wg = @ - 1]
      BY <1>9, <1>c
    <3>2. (IF s1.connCount > 0 THEN s1.connCount - 1 ELSE 0) = srv.connCount - 1
      BY <1>b, <2>2
    <3>3. s1 \in ApiSrv /\ s1.wg = srv.wg
      BY <1>b
    <3>4. [s1 EXCEPT !.connCount = IF @ > 0 THEN @ - 1 ELSE 0] = [s1 EXCEPT !.connCount = srv.connCount - 1]
      BY <3>2
    <3>5. srv' = [[s1 EXCEPT !.connCount = srv.connCount - 1] EXCEPT !.wg = @ - 1]
      BY <3>1, <3>4
    <3> QED BY <3>3, <3>5 DEF ApiSrv
  <2>4. /\ srv' \in ApiSrv /\ srv'.running = srv.running
        /\ srv'.listening = srv.listening /\ srv'.wg = srv.wg - 1 /\ srv'.clients = s1.clients
        /\ srv'.pending = srv.pending /\ srv'.connCount = srv.connCount - 1 /\ srv'.byIP = srv.byIP
    <3>1. srv.connCount - 1 \in Int /\ srv.wg - 1 \in Int /\ srv.byIP \in [Api!Ip -> Int]
      BY <1>0 DEF ApiSrv
    <3>2. s1 \in ApiSrv
      BY <1>b
    <3>3. /\ srv' = [running |-> srv'.running, listening |-> srv'.listening, clients |-> srv'.clients,
                     connCount |-> srv'.connCount, pending |-> srv'.pending, byIP |-> srv'.byIP,
                     wg |-> srv'.wg, acceptor |-> srv'.acceptor]
          /\ srv'.running = s1.running /\ srv'.listening = s1.listening /\ srv'.clients = s1.clients
          /\ srv'.connCount = srv.connCount - 1 /\ srv'.pending = s1.pending /\ srv'.wg = srv.wg - 1
          /\ srv'.acceptor = s1.acceptor /\ srv'.byIP = s1.byIP
      BY <2>3, <3>2 DEF ApiSrv
    <3>4. srv' \in ApiSrv
      BY <3>1, <3>2, <3>3 DEF ApiSrv
    <3> QED BY <1>b, <3>3, <3>4
  <2>5. ApiWaiting' = ApiWaiting /\ \A j : ApiFrom(j)' = ApiFrom(j)
    BY <1>7, <1>8, <2>1
  <2>6. srv'.pending = Cardinality(ApiWaiting)' /\ \A j \in Api!Ip : srv'.byIP[j] = Cardinality(ApiFrom(j))'
    BY <2>4, <2>5 DEF ApiSlotsInv, ApiCounts
  <2>7. srv'.connCount = Cardinality(ApiServed)' /\ srv'.connCount <= MaxClients
    BY <1>7, <2>2, <2>4 DEF ApiConstants
  <2> QED BY <1>3, <1>5, <2>4, <2>6, <2>7
<1>10. CASE ~conn[c].registered
  <2>1. c \notin ApiServed /\ c \in ApiWaiting /\ (\A j : j # i => c \notin ApiFrom(j)) /\ c \in ApiFrom(i)
    BY <1>10, <1>a DEF ApiServed, ApiWaiting, ApiFrom, i
  <2>2. /\ Cardinality(ApiWaiting \ {c}) = Cardinality(ApiWaiting) - 1
        /\ Cardinality(ApiWaiting) > 0 /\ srv.pending = Cardinality(ApiWaiting) /\ Cardinality(ApiWaiting) \in Nat
        /\ Cardinality(ApiFrom(i) \ {c}) = Cardinality(ApiFrom(i)) - 1
        /\ Cardinality(ApiFrom(i)) > 0 /\ srv.byIP[i] = Cardinality(ApiFrom(i)) /\ Cardinality(ApiFrom(i)) \in Nat
    BY <1>a, <2>1, ApiFinite, ApiCount DEF ApiSlotsInv, ApiCounts
  <2>3. srv' = [s1 EXCEPT !.pending = srv.pending - 1, !.byIP = [srv.byIP EXCEPT ![i] = @ - 1], !.wg = srv.wg - 1]
    BY <1>10, <1>0, <1>a, <1>b, <1>c, <2>2 DEF ApiSrv
  <2>a. [srv.byIP EXCEPT ![i] = @ - 1] \in [Api!Ip -> Int]
    BY <1>0, <1>a DEF ApiSrv
  <2>4. /\ srv' \in ApiSrv /\ srv'.running = srv.running
        /\ srv'.listening = srv.listening /\ srv'.wg = srv.wg - 1 /\ srv'.clients = s1.clients
        /\ srv'.pending = srv.pending - 1 /\ srv'.connCount = srv.connCount
        /\ srv'.byIP = [srv.byIP EXCEPT ![i] = @ - 1]
    <3>1. srv.pending - 1 \in Int /\ srv.wg - 1 \in Int
      BY <1>0 DEF ApiSrv
    <3>2. s1 \in ApiSrv
      BY <1>b
    <3>3. /\ srv' = [running |-> srv'.running, listening |-> srv'.listening, clients |-> srv'.clients,
                     connCount |-> srv'.connCount, pending |-> srv'.pending, byIP |-> srv'.byIP,
                     wg |-> srv'.wg, acceptor |-> srv'.acceptor]
          /\ srv'.running = s1.running /\ srv'.listening = s1.listening /\ srv'.clients = s1.clients
          /\ srv'.connCount = s1.connCount /\ srv'.pending = srv.pending - 1 /\ srv'.wg = srv.wg - 1
          /\ srv'.acceptor = s1.acceptor /\ srv'.byIP = [srv.byIP EXCEPT ![i] = @ - 1]
      BY <2>3, <3>2 DEF ApiSrv
    <3>4. srv' \in ApiSrv
      BY <2>a, <3>1, <3>2, <3>3 DEF ApiSrv
    <3> QED BY <1>b, <3>3, <3>4
  <2>5. ApiServed' = ApiServed
    BY <1>7, <2>1
  <2>6. ASSUME NEW j \in Api!Ip PROVE srv'.byIP[j] = Cardinality(ApiFrom(j))'
    <3>1. srv.byIP[j] = Cardinality(ApiFrom(j)) /\ srv'.byIP[j] = IF j = i THEN srv.byIP[j] - 1 ELSE srv.byIP[j]
      BY <1>0, <1>a, <2>4 DEF ApiSlotsInv, ApiCounts, ApiSrv
    <3>2. CASE j = i
      BY <1>8, <2>2, <3>1, <3>2
    <3>3. CASE j # i
      <4>1. ApiFrom(j) \ {c} = ApiFrom(j)
        BY <2>1, <3>3
      <4> QED BY <1>8, <3>1, <3>3, <4>1
    <3> QED BY <3>2, <3>3
  <2>7. srv'.pending = Cardinality(ApiWaiting)'
    BY <1>7, <2>2, <2>4
  <2>8. srv'.connCount = Cardinality(ApiServed)' /\ srv'.connCount <= MaxClients
    BY <2>4, <2>5 DEF ApiSlotsInv, ApiCounts
  <2> QED BY <1>3, <1>5, <2>4, <2>6, <2>7, <2>8
<1> QED BY <1>9, <1>10

\* Nothing of the server changes.
LEMMA ApiSlotsStutter == ASSUME ApiSlotsInv, UNCHANGED <<conn, srv, main>> PROVE ApiSlotsInv'
<1>1. ApiTypeOK' /\ ApiPlaces' /\ ApiOrder' /\ ApiOpen' /\ ApiPhases'
  BY DEF ApiSlotsInv, ApiTypeOK, ApiSrv, Api!Ip, ApiPlaces, ApiOrder, ApiStage, ApiOpen, ApiPhases
<1>2. /\ ApiRunning' = ApiRunning /\ ApiHandled' = ApiHandled /\ ApiWaiting' = ApiWaiting
      /\ ApiServed' = ApiServed /\ \A i : ApiFrom(i)' = ApiFrom(i)
  BY ApiSameSets
<1>3. ApiCounts' /\ ApiClients'
  BY <1>2 DEF ApiSlotsInv, ApiCounts, ApiClients, Api!Ip
<1> QED BY <1>1, <1>3 DEF ApiSlotsInv

\* The server is started and closed; the rest is torn down.
LEMMA ApiMainStep ==
    ASSUME ApiConstants, ApiSlotsInv,
           \/ Api!Start \/ Api!CloseFlag \/ Api!CloseListener \/ Api!CloseClients \/ Api!CloseWait
           \/ Api!MarketDown \/ Api!stopAndWaitBackgroundWork \/ Api!ManagerDown
    PROVE  ApiSlotsInv'
<1> USE DEF ApiHandlerAt, ApiServedAt
<1>0. ApiTypeOK /\ srv \in ApiSrv /\ Api!None = 0 /\ Api!Conn = ApiConn /\ \A d \in ApiConn : d # 0
  BY DEF ApiSlotsInv, ApiTypeOK, Api!None, Api!Conn, ApiConn
<1>1. CASE Api!CloseWait \/ Api!MarketDown \/ Api!stopAndWaitBackgroundWork \/ Api!ManagerDown \/ (Api!Start /\ UNCHANGED srv)
  <2>1. UNCHANGED <<conn, srv>>
    BY <1>1 DEF Api!CloseWait, Api!MarketDown, Api!stopAndWaitBackgroundWork, Api!ManagerDown, Api!Start
  <2>2. /\ main \in {"wait", "closed", "market", "background", "boot"}
        /\ main' \in {"closed", "market", "background", "down", "run"} /\ srv.wg = 0
        /\ main' = "run" => main = "boot"
    <3>1. CASE Api!CloseWait
      BY <3>1 DEF Api!CloseWait, Api!AllDone
    <3>2. CASE Api!MarketDown \/ Api!stopAndWaitBackgroundWork \/ Api!ManagerDown
      BY <3>2 DEF Api!MarketDown, Api!stopAndWaitBackgroundWork, Api!ManagerDown, ApiSlotsInv, ApiPhases
    <3>3. CASE Api!Start
      BY <3>3 DEF Api!Start, ApiSlotsInv, ApiPhases
    <3> QED BY <1>1, <3>1, <3>2, <3>3
  <2>3. main' # "run"
    <3>1. ASSUME Api!Start, UNCHANGED srv PROVE main' # "run"
      <4>1. main = "boot" /\ ~srv.running
        BY <3>1 DEF Api!Start, ApiSlotsInv, ApiPhases
      <4>2. Api!Listening.running = TRUE
        BY <1>0 DEF Api!Listening, ApiSrv
      <4> QED BY <3>1, <4>1, <4>2 DEF Api!Start
    <3> QED BY <1>1, <2>1, <3>1 DEF Api!CloseWait, Api!MarketDown, Api!stopAndWaitBackgroundWork, Api!ManagerDown
  <2>4. ApiTypeOK' /\ ApiPlaces' /\ ApiOrder'
    BY <2>1 DEF ApiSlotsInv, ApiTypeOK, ApiSrv, Api!Ip, ApiPlaces, ApiOrder, ApiStage
  <2>5. ApiOpen' /\ ApiPhases' /\ ApiClients'
    BY <2>1, <2>2, <2>3 DEF ApiSlotsInv, ApiOpen, ApiPhases, ApiClients
  <2>6. /\ ApiRunning' = ApiRunning /\ ApiHandled' = ApiHandled /\ ApiWaiting' = ApiWaiting
        /\ ApiServed' = ApiServed /\ \A i : ApiFrom(i)' = ApiFrom(i)
    BY <2>1, ApiSameSets
  <2>7. ApiCounts'
    BY <2>1, <2>6 DEF ApiSlotsInv, ApiCounts, Api!Ip
  <2> QED BY <2>4, <2>5, <2>7 DEF ApiSlotsInv
<1>2. CASE Api!Start /\ main' = "run" /\ srv' = Api!Listening
  <2>0. main = "boot" /\ conn' = conn /\ srv.acceptor = <<"off", 0>> /\ srv.wg = 0
        /\ \A c \in ApiConn : conn[c].st = "new"
    BY <1>2 DEF Api!Start, ApiSlotsInv, ApiPhases
  <2>1. srv' = [srv EXCEPT !.running = TRUE, !.listening = TRUE, !.wg = 1, !.acceptor = <<"accept", 0>>]
    BY <1>0, <1>2 DEF Api!Listening
  <2>2. /\ srv'.running = TRUE /\ srv'.listening = TRUE /\ srv'.wg = 1 /\ srv'.acceptor = <<"accept", 0>>
        /\ srv'.pending = srv.pending /\ srv'.byIP = srv.byIP /\ srv'.connCount = srv.connCount
        /\ srv'.clients = srv.clients
        /\ srv' = [running |-> srv'.running, listening |-> srv'.listening, clients |-> srv'.clients,
                   connCount |-> srv'.connCount, pending |-> srv'.pending, byIP |-> srv'.byIP,
                   wg |-> srv'.wg, acceptor |-> srv'.acceptor]
    BY <1>0, <2>1 DEF ApiSrv
  <2>3. ApiTypeOK'
    <3>1. <<"accept", 0>> \in ApiAcceptor
      BY DEF ApiAcceptor
    <3>2. srv' \in ApiSrv
      <4>0. srv'.running = TRUE /\ srv'.listening = TRUE /\ srv'.wg = 1
        BY <2>2
      <4>a. srv'.running \in BOOLEAN /\ srv'.listening \in BOOLEAN
        BY <4>0, Zenon
      <4>1. srv'.wg \in Int /\ srv'.acceptor \in ApiAcceptor
        BY <2>2, <3>1, <4>0
      <4>2. /\ srv'.clients \in [Addr -> {0} \cup ApiConn] /\ srv'.connCount \in Int /\ srv'.pending \in Int
            /\ srv'.byIP \in [Api!Ip -> Int]
        BY <1>0, <2>2 DEF ApiSrv
      <4>3. srv' = [running |-> srv'.running, listening |-> srv'.listening, clients |-> srv'.clients,
                    connCount |-> srv'.connCount, pending |-> srv'.pending, byIP |-> srv'.byIP,
                    wg |-> srv'.wg, acceptor |-> srv'.acceptor]
        BY <2>2
      <4> QED BY <4>a, <4>1, <4>2, <4>3 DEF ApiSrv
    <3> QED BY <1>0, <2>0, <3>2 DEF ApiTypeOK, ApiSrv, Api!Ip
  <2>4. \A d \in ApiConn : /\ srv'.acceptor # <<"spawn", d>> /\ srv'.acceptor # <<"taken", d>>
                           /\ srv.acceptor # <<"spawn", d>>
    BY <1>0, <2>0, <2>2, ApiAcceptorAt
  <2>5. ApiPlaces' /\ ApiOrder' /\ ApiOpen' /\ ApiPhases'
    BY <1>2, <2>0, <2>2, <2>4 DEF ApiSlotsInv, ApiPlaces, ApiOrder, ApiStage, ApiOpen, ApiPhases
  <2>6. ApiCounts'
    <3>1. srv'.acceptor # <<"off", 0>>
      BY <2>2, ApiAcceptorAt
    <3> QED BY <2>0, <2>2, <2>4, <3>1, ApiSameCounts
  <2>7. ApiClients'
    BY <2>0, <2>4 DEF ApiClients, ApiHandled
  <2> QED BY <2>3, <2>5, <2>6, <2>7 DEF ApiSlotsInv
<1>3. CASE Api!CloseFlag
  <2>0. main = "run" /\ main' = "flag" /\ conn' = conn /\ srv' = [srv EXCEPT !.running = FALSE]
    BY <1>3 DEF Api!CloseFlag
  <2>1. /\ srv'.running = FALSE /\ srv'.listening = srv.listening /\ srv'.wg = srv.wg
        /\ srv'.acceptor = srv.acceptor /\ srv'.pending = srv.pending /\ srv'.byIP = srv.byIP
        /\ srv'.connCount = srv.connCount /\ srv'.clients = srv.clients /\ srv' \in ApiSrv /\ srv.wg \in Int
    BY <1>0, <2>0 DEF ApiSrv
  <2>2. ApiTypeOK'
    BY <1>0, <2>0, <2>1 DEF ApiTypeOK, ApiSrv, Api!Ip
  <2>3. ApiPlaces' /\ ApiOrder' /\ ApiOpen' /\ ApiPhases'
    BY <2>0, <2>1 DEF ApiSlotsInv, ApiPlaces, ApiOrder, ApiStage, ApiOpen, ApiPhases
  <2>4. ApiCounts'
    BY <2>0, <2>1, ApiSameCounts
  <2>5. ApiClients'
    BY <2>0, <2>1 DEF ApiSlotsInv, ApiClients, ApiHandled
  <2> QED BY <2>2, <2>3, <2>4, <2>5 DEF ApiSlotsInv
<1>4. CASE Api!CloseListener
  <2>0. /\ main = "flag" /\ main' = "listener" /\ srv' = [srv EXCEPT !.listening = FALSE]
        /\ conn' = [c \in ApiConn |-> IF conn[c].st = "backlog"
                                      THEN [conn[c] EXCEPT !.st = "gone", !.open = FALSE] ELSE conn[c]]
    BY <1>0, <1>4 DEF Api!CloseListener
  <2>1. /\ srv'.running = srv.running /\ srv'.listening = FALSE /\ srv'.wg = srv.wg
        /\ srv'.acceptor = srv.acceptor /\ srv'.pending = srv.pending /\ srv'.byIP = srv.byIP
        /\ srv'.connCount = srv.connCount /\ srv'.clients = srv.clients /\ srv' \in ApiSrv /\ srv.wg \in Int
    BY <1>0, <2>0 DEF ApiSrv
  <2>2. /\ conn' \in [ApiConn -> ApiCall]
        /\ \A d \in ApiConn : conn[d].st # "backlog" => conn'[d] = conn[d]
        /\ \A d \in ApiConn : conn[d].st = "backlog" => conn'[d].st = "gone" /\ conn'[d].open = FALSE
                                                        /\ conn'[d].addr = conn[d].addr
    <3>1. ASSUME NEW d \in ApiConn
          PROVE  /\ conn'[d] \in ApiCall /\ (conn[d].st # "backlog" => conn'[d] = conn[d])
                 /\ conn[d].st = "backlog" => conn'[d].st = "gone" /\ conn'[d].open = FALSE
                                              /\ conn'[d].addr = conn[d].addr
      <4>1. conn[d] \in ApiCall
        BY <1>0 DEF ApiTypeOK
      <4>2. conn'[d] = IF conn[d].st = "backlog" THEN [conn[d] EXCEPT !.st = "gone", !.open = FALSE] ELSE conn[d]
        BY <2>0
      <4> QED BY <4>1, <4>2 DEF ApiCall
    <3> QED BY <2>0, <3>1
  <2>3. ApiTypeOK'
    BY <2>1, <2>2 DEF ApiTypeOK, ApiSrv, Api!Ip
  <2>4. ApiPlaces'
    BY <2>0, <2>1, <2>2 DEF ApiSlotsInv, ApiPlaces
  <2>5. ApiOpen' /\ ApiPhases'
    BY <2>0, <2>1, <2>2 DEF ApiSlotsInv, ApiOpen, ApiPhases
  <2>6. ApiOrder'
    BY <2>2, ApiSameOrder DEF ApiSlotsInv, ApiStage
  <2>7. \A d \in ApiConn : conn[d].st = "backlog" => d \notin ApiHandled
    BY DEF ApiSlotsInv, ApiPlaces, ApiHandled
  <2>8. ApiCounts'
    BY <2>1, <2>2, <2>7, ApiSameCounts
  <2>9. ApiClients'
    BY <2>0, <2>1, <2>2, <2>7 DEF ApiSlotsInv, ApiClients, ApiHandled
  <2> QED BY <2>3, <2>4, <2>5, <2>6, <2>8, <2>9 DEF ApiSlotsInv
<1>5. CASE Api!CloseClients
  <2>0. /\ main = "listener" /\ main' = "wait" /\ srv' = [srv EXCEPT !.clients = [a \in Addr |-> 0]]
        /\ conn' = [c \in ApiConn |-> IF \E a \in Addr : srv.clients[a] = c
                                      THEN [conn[c] EXCEPT !.open = FALSE] ELSE conn[c]]
    BY <1>0, <1>5 DEF Api!CloseClients
  <2>1. /\ srv'.running = srv.running /\ srv'.listening = srv.listening /\ srv'.wg = srv.wg
        /\ srv'.acceptor = srv.acceptor /\ srv'.pending = srv.pending /\ srv'.byIP = srv.byIP
        /\ srv'.connCount = srv.connCount /\ srv' \in ApiSrv /\ srv.wg \in Int
    BY <1>0, <2>0 DEF ApiSrv
  <2>2. /\ conn' \in [ApiConn -> ApiCall]
        /\ \A d \in ApiConn : /\ conn'[d].st = conn[d].st /\ conn'[d].addr = conn[d].addr
                              /\ conn'[d].registered = conn[d].registered /\ conn'[d].peer = conn[d].peer
                              /\ conn'[d].open => conn[d].open
    <3>1. ASSUME NEW d \in ApiConn
          PROVE  /\ conn'[d] \in ApiCall /\ conn'[d].st = conn[d].st /\ conn'[d].addr = conn[d].addr
                 /\ conn'[d].registered = conn[d].registered /\ conn'[d].peer = conn[d].peer
                 /\ conn'[d].open => conn[d].open
      <4>1. conn[d] \in ApiCall
        BY <1>0 DEF ApiTypeOK
      <4>2. conn'[d] \in {[conn[d] EXCEPT !.open = FALSE], conn[d]}
        BY <2>0
      <4> QED BY <4>1, <4>2 DEF ApiCall
    <3> QED BY <2>0, <3>1
  <2>3. ApiTypeOK'
    BY <2>1, <2>2 DEF ApiTypeOK, ApiSrv, Api!Ip
  <2>4. ApiPlaces'
    BY <2>0, <2>1, <2>2 DEF ApiSlotsInv, ApiPlaces
  <2>5. ApiOpen' /\ ApiPhases' /\ ApiClients'
    BY <2>0, <2>1, <2>2 DEF ApiSlotsInv, ApiOpen, ApiPhases, ApiClients
  <2>6. ApiOrder'
    BY <2>2, ApiSameOrder DEF ApiSlotsInv, ApiStage
  <2>8. ApiCounts'
    BY <2>1, <2>2, ApiSameCounts
  <2> QED BY <2>3, <2>4, <2>5, <2>6, <2>8 DEF ApiSlotsInv
<1>6. Api!Start => UNCHANGED srv \/ (main' = "run" /\ srv' = Api!Listening)
  BY DEF Api!Start
<1> QED BY <1>1, <1>2, <1>3, <1>4, <1>5, <1>6

ApiInv == ApiSlotsInv /\ ApiJobsInv /\ ApiTokensInv

\* What a handler's step does to the connections: only its place changes.
LEMMA ApiHandlerStep ==
    ASSUME ApiSlotsInv, NEW c \in ApiConn,
           \/ Api!ReadFails(c) \/ Api!Reply(c) \/ Api!Refuse(c) \/ Api!Malformed(c)
           \/ Api!handleRobotCommand(c) \/ Api!handleMarketCommand(c)
           \/ Api!Unlock(c) \/ Api!Delete(c) \/ Api!Online(c) \/ \E n \in Api!Job : Api!Launch(c, n)
    PROVE  /\ UNCHANGED <<srv, main>> /\ conn[c].st \in ApiHandlerAt
           /\ \E s \in {"reply", "leave", "online", "delete"} :
                /\ conn' = [conn EXCEPT ![c].st = s]
                /\ s # "leave" => conn[c].st \in {"dispatch", "online", "delete"}
                /\ s \in {"online", "delete"} => conn[c].st = "dispatch"
<1> USE DEF ApiHandlerAt, ApiServedAt, Api!To
<1>1. CASE Api!ReadFails(c) \/ Api!Reply(c)
  BY <1>1 DEF Api!ReadFails, Api!Reply
<1>2. CASE Api!Refuse(c) \/ Api!Malformed(c) \/ Api!handleRobotCommand(c) \/ Api!handleMarketCommand(c)
  BY <1>2 DEF Api!Refuse, Api!Malformed, Api!handleRobotCommand, Api!handleMarketCommand
<1>3. CASE Api!Unlock(c)
  BY <1>3 DEF Api!Unlock
<1>4. CASE Api!Delete(c)
  <2>1. UNCHANGED <<srv, main>> /\ conn[c].st = "dispatch"
    BY <1>4 DEF Api!Delete
  <2>2. conn' = [conn EXCEPT ![c].st = "reply"] \/ conn' = [conn EXCEPT ![c].st = "delete"]
    BY <1>4 DEF Api!Delete, Api!Named
  <2> QED BY <2>1, <2>2
<1>5. CASE Api!Online(c)
  BY <1>5 DEF Api!Online, Api!Named
<1>6. ASSUME NEW n \in Api!Job, Api!Launch(c, n) PROVE
           /\ UNCHANGED <<srv, main>> /\ conn[c].st \in ApiHandlerAt
           /\ conn' = [conn EXCEPT ![c].st = "reply"] /\ conn[c].st \in {"online", "delete"}
  BY <1>6 DEF Api!Launch, Api!Job
<1> QED BY <1>1, <1>2, <1>3, <1>4, <1>5, <1>6

\* Every step keeps the counters.
LEMMA ApiSlotsStep == ASSUME ApiConstants, ApiInv, [Api!Next]_(Api!vars) PROVE ApiSlotsInv'
<1>0. ApiSlotsInv /\ ApiTokensInv /\ Api!Conn = ApiConn /\ Api!None = 0
  BY DEF ApiInv, Api!Conn, ApiConn, Api!None
<1>1. CASE UNCHANGED Api!vars
  BY <1>0, <1>1, ApiSlotsStutter DEF Api!vars
<1>2. ASSUME NEW c \in ApiConn,
           \/ Api!ReadFails(c) \/ Api!Reply(c) \/ Api!Refuse(c) \/ Api!Malformed(c)
           \/ Api!handleRobotCommand(c) \/ Api!handleMarketCommand(c)
           \/ Api!Unlock(c) \/ Api!Delete(c) \/ Api!Online(c) \/ \E n \in Api!Job : Api!Launch(c, n)
      PROVE ApiSlotsInv'
  <2>1. /\ UNCHANGED <<srv, main>> /\ conn[c].st \in ApiHandlerAt
        /\ \E s \in {"reply", "leave", "online", "delete"} :
             /\ conn' = [conn EXCEPT ![c].st = s]
             /\ s # "leave" => conn[c].st \in {"dispatch", "online", "delete"}
             /\ s \in {"online", "delete"} => conn[c].st = "dispatch"
    BY <1>0, <1>2, ApiHandlerStep
  <2>2. PICK s \in {"reply", "leave", "online", "delete"} :
             /\ conn' = [conn EXCEPT ![c].st = s]
             /\ s # "leave" => conn[c].st \in {"dispatch", "online", "delete"}
             /\ s \in {"online", "delete"} => conn[c].st = "dispatch"
    BY <2>1
  <2>3. s \in ApiServedAt
    BY <2>2 DEF ApiServedAt
  <2>4. s \in {"dispatch", "reply", "online", "delete"} => conn[c].st # "read" /\ conn[c].registered
    BY <1>0, <2>2 DEF ApiSlotsInv, ApiPlaces
  <2> QED BY <1>0, <2>1, <2>2, <2>3, <2>4, ApiMove
<1>3. ASSUME NEW c \in ApiConn, (\E a \in Addr : Api!Connect(c, a)) \/ Api!PeerGone(c) PROVE ApiSlotsInv'
  BY <1>0, <1>3, ApiClientStep
<1>4. ASSUME NEW c \in ApiConn, Api!Accept(c) PROVE ApiSlotsInv'
  BY <1>0, <1>4, ApiAcceptStep
<1>5. ASSUME NEW c \in ApiConn, Api!Admit(c) \/ Api!Spawn(c) \/ Api!Leave(c) PROVE ApiSlotsInv'
  BY <1>0, <1>5, ApiAdmitStep, ApiSpawnStep, ApiLeaveStep
<1>6. ASSUME NEW c \in ApiConn, NEW q \in Requests, NEW t \in {0} \cup issued, Api!Read(c, q, t) PROVE ApiSlotsInv'
  <2>1. t \in {0} \cup ApiConn
    BY <1>0 DEF ApiTokensInv
  <2> QED BY <1>0, <1>6, <2>1, ApiReadStep
<1>7. CASE (\E n \in Api!Job : Api!JobFinishes(n) \/ Api!JobForgotten(n)) \/ Api!KeyChanges \/ Api!Expire \/ Api!Ended
  BY <1>0, <1>7, ApiSlotsStutter DEF Api!JobFinishes, Api!JobForgotten, Api!KeyChanges, Api!Expire, Api!Ended, Api!vars
<1>8. CASE Api!AcceptEnds
  BY <1>0, <1>8, ApiAcceptStep
<1>9. CASE \/ Api!Start \/ Api!CloseFlag \/ Api!CloseListener \/ Api!CloseClients \/ Api!CloseWait
           \/ Api!MarketDown \/ Api!stopAndWaitBackgroundWork \/ Api!ManagerDown
  BY <1>0, <1>9, ApiMainStep
<1> QED BY <1>0, <1>1, <1>2, <1>3, <1>4, <1>5, <1>6, <1>7, <1>8, <1>9 DEF Api!Next

\* A job ends or begins: one more or one less is busy.
LEMMA ApiBusyFinite == IsFiniteSet(ApiBusy)
<1>1. ApiBusy \subseteq {"online", "delete"}
  BY DEF ApiBusy, Api!Job
<1>2. IsFiniteSet({"online", "delete"})
  <2>1. IsFiniteSet({"online"})
    BY FS_Singleton
  <2>2. IsFiniteSet({"online"} \cup {"delete"})
    BY <2>1, FS_AddElement
  <2>3. {"online"} \cup {"delete"} = {"online", "delete"}
    OBVIOUS
  <2> QED BY <2>2, <2>3
<1> QED BY <1>1, <1>2, FS_Subset

\* A job's place changes, and the count of busy ones with it.
LEMMA ApiJobChange ==
    ASSUME ApiJobsInv, NEW n \in Api!Job, NEW v \in {"no", "named", "running", "finished"},
           job' = [job EXCEPT ![n] = v], main' = main, bg' \in [stopping : BOOLEAN, count : Int],
           bg'.stopping = bg.stopping,
           v = "running" => job[n] # "running" /\ ~bg.stopping /\ bg'.count = bg.count + 1,
           v # "running" /\ job[n] = "running" => bg'.count = bg.count - 1,
           v # "running" /\ job[n] # "running" => bg'.count = bg.count
    PROVE  ApiJobsInv'
<1>0. /\ job' \in [Api!Job -> {"no", "named", "running", "finished"}]
      /\ job'[n] = v /\ \A m \in Api!Job \ {n} : job'[m] = job[m]
  BY DEF ApiJobsInv
<1>1. /\ (v = "running" => ApiBusy' = ApiBusy \cup {n})
      /\ (v # "running" => ApiBusy' = ApiBusy \ {n})
      /\ (n \in ApiBusy <=> job[n] = "running")
  BY <1>0 DEF ApiBusy, Api!Job
<1>2. bg'.count = Cardinality(ApiBusy)'
  <2>1. bg.count = Cardinality(ApiBusy) /\ bg.count \in Int
    BY DEF ApiJobsInv
  <2>2. CASE v = "running"
    BY <1>1, <2>1, <2>2, ApiBusyFinite, ApiCount
  <2>3. CASE v # "running" /\ job[n] = "running"
    BY <1>1, <2>1, <2>3, ApiBusyFinite, ApiCount
  <2>4. CASE v # "running" /\ job[n] # "running"
    <3>1. ApiBusy' = ApiBusy
      BY <1>1, <2>4
    <3> QED BY <3>1, <2>1, <2>4
  <2> QED BY <2>2, <2>3, <2>4
<1>3. main' = "down" => ApiBusy' = {}
  <2>1. ASSUME main' = "down" PROVE ApiBusy' = {}
    <3>1. ApiBusy = {} /\ bg.stopping
      BY <2>1 DEF ApiJobsInv
    <3> QED BY <1>1, <3>1
  <2> QED BY <2>1
<1> QED BY <1>0, <1>2, <1>3 DEF ApiJobsInv, Api!Job

\* Every step keeps the jobs counted; none begins once the shutdown waits for them.
LEMMA ApiJobsStep == ASSUME ApiConstants, ApiInv, [Api!Next]_(Api!vars) PROVE ApiJobsInv'
<1>0. ApiJobsInv /\ Api!Conn = ApiConn
  BY DEF ApiInv, Api!Conn, ApiConn
<1>1. ASSUME job' = job, bg' = bg, main' \notin {"background", "down"} \/ main' = main PROVE ApiJobsInv'
  <2>1. ApiBusy' = ApiBusy
    BY <1>1 DEF ApiBusy, Api!Job
  <2> QED BY <1>0, <1>1, <2>1 DEF ApiJobsInv, Api!Job
<1>2. CASE UNCHANGED Api!vars
  BY <1>1, <1>2 DEF Api!vars
<1>3. ASSUME NEW c \in ApiConn,
           \/ (\E a \in Addr : Api!Connect(c, a)) \/ Api!PeerGone(c) \/ Api!Accept(c) \/ Api!Admit(c) \/ Api!Spawn(c)
           \/ (\E q \in Requests, t \in {0} \cup issued : Api!Read(c, q, t)) \/ Api!Leave(c)
      PROVE ApiJobsInv'
  BY <1>1, <1>3 DEF Api!Connect, Api!PeerGone, Api!Accept, Api!Admit, Api!Spawn, Api!Read, Api!Leave
<1>4. ASSUME NEW c \in ApiConn,
           \/ Api!ReadFails(c) \/ Api!Reply(c) \/ Api!Refuse(c) \/ Api!Malformed(c)
           \/ Api!handleRobotCommand(c) \/ Api!handleMarketCommand(c) \/ Api!Unlock(c)
      PROVE ApiJobsInv'
  BY <1>1, <1>4 DEF Api!ReadFails, Api!Reply, Api!Refuse, Api!Malformed, Api!handleRobotCommand,
       Api!handleMarketCommand, Api!Unlock
<1>5. ASSUME NEW c \in ApiConn, NEW n \in {"online", "delete"} \cap Requests, bg' = bg, main' = main, Api!Named(c, n)
      PROVE ApiJobsInv'
  <2>0. n \in Api!Job
    BY <1>5 DEF Api!Job
  <2>1. CASE job[n] = "no"
    <3>1. job' = [job EXCEPT ![n] = "named"] /\ bg' \in [stopping : BOOLEAN, count : Int]
      BY <1>0, <1>5, <2>1 DEF Api!Named, ApiJobsInv
    <3> QED BY <1>0, <1>5, <2>0, <2>1, <3>1, ApiJobChange
  <2>2. CASE job[n] # "no"
    BY <1>1, <1>5, <2>2 DEF Api!Named
  <2> QED BY <2>1, <2>2
<1>a. ASSUME NEW c \in ApiConn, conn[c].ask \in {"online", "delete"} PROVE conn[c].ask \in Requests
  BY <1>a DEF ApiInv, ApiSlotsInv, ApiTypeOK, ApiCall
<1>6. ASSUME NEW c \in ApiConn, Api!Delete(c) PROVE ApiJobsInv'
  <2>1. "delete" \in {"online", "delete"} \cap Requests /\ bg' = bg /\ main' = main
    BY <1>6, <1>a DEF Api!Delete
  <2>2. job' = job \/ Api!Named(c, "delete")
    BY <1>6 DEF Api!Delete
  <2> QED BY <1>1, <1>5, <2>1, <2>2
<1>7. ASSUME NEW c \in ApiConn, Api!Online(c) PROVE ApiJobsInv'
  BY <1>5, <1>7, <1>a DEF Api!Online
<1>8. ASSUME NEW c \in ApiConn, NEW n \in Api!Job, Api!Launch(c, n) PROVE ApiJobsInv'
  <2>0. bg \in [stopping : BOOLEAN, count : Int] /\ main' = main /\ job[n] = "named"
    BY <1>0, <1>8 DEF ApiJobsInv, Api!Launch
  <2>1. CASE bg.stopping
    <3>1. job' = [job EXCEPT ![n] = "no"] /\ bg' = bg
      BY <1>8, <2>1 DEF Api!Launch, Api!BeginBackgroundWork
    <3> QED BY <1>0, <2>0, <3>1, ApiJobChange
  <2>2. CASE ~bg.stopping
    <3>1. job' = [job EXCEPT ![n] = "running"] /\ bg' = [bg EXCEPT !.count = @ + 1]
      BY <1>8, <2>2 DEF Api!Launch, Api!BeginBackgroundWork
    <3>2. bg' \in [stopping : BOOLEAN, count : Int] /\ bg'.stopping = bg.stopping /\ bg'.count = bg.count + 1
      BY <2>0, <3>1
    <3> QED BY <1>0, <2>0, <2>2, <3>1, <3>2, ApiJobChange
  <2> QED BY <2>1, <2>2
<1>9. ASSUME NEW n \in Api!Job, Api!JobFinishes(n) \/ Api!JobForgotten(n) PROVE ApiJobsInv'
  <2>0. bg \in [stopping : BOOLEAN, count : Int] /\ main' = main
    BY <1>0, <1>9 DEF ApiJobsInv, Api!JobFinishes, Api!JobForgotten
  <2>1. CASE Api!JobFinishes(n)
    <3>1. job[n] = "running" /\ job' = [job EXCEPT ![n] = "finished"] /\ bg' = [bg EXCEPT !.count = @ - 1]
      BY <2>1 DEF Api!JobFinishes
    <3>2. bg' \in [stopping : BOOLEAN, count : Int] /\ bg'.stopping = bg.stopping /\ bg'.count = bg.count - 1
      BY <2>0, <3>1
    <3> QED BY <1>0, <2>0, <3>1, <3>2, ApiJobChange
  <2>2. CASE Api!JobForgotten(n)
    <3>1. job[n] = "finished" /\ job' = [job EXCEPT ![n] = "no"] /\ bg' = bg
      BY <2>2 DEF Api!JobForgotten
    <3> QED BY <1>0, <2>0, <3>1, ApiJobChange
  <2> QED BY <1>9, <2>1, <2>2
<1>10. CASE Api!KeyChanges \/ Api!AcceptEnds \/ Api!Expire \/ Api!Ended
  BY <1>1, <1>10 DEF Api!KeyChanges, Api!AcceptEnds, Api!Expire, Api!Ended, Api!vars
<1>11. CASE Api!Start \/ Api!CloseFlag \/ Api!CloseListener \/ Api!CloseClients \/ Api!CloseWait \/ Api!MarketDown
  BY <1>1, <1>11 DEF Api!Start, Api!CloseFlag, Api!CloseListener, Api!CloseClients, Api!CloseWait, Api!MarketDown
<1>12. CASE Api!stopAndWaitBackgroundWork
  <2>1. main' = "background" /\ bg' = [bg EXCEPT !.stopping = TRUE] /\ job' = job
    BY <1>12 DEF Api!stopAndWaitBackgroundWork
  <2>2. ApiBusy' = ApiBusy
    BY <2>1 DEF ApiBusy, Api!Job
  <2>3. bg' \in [stopping : BOOLEAN, count : Int] /\ bg'.stopping /\ bg'.count = bg.count
    BY <1>0, <2>1 DEF ApiJobsInv
  <2> QED BY <1>0, <2>1, <2>2, <2>3 DEF ApiJobsInv, Api!Job
<1>13. CASE Api!ManagerDown
  <2>1. main = "background" /\ main' = "down" /\ bg' = bg /\ job' = job /\ bg.count = 0
    BY <1>13 DEF Api!ManagerDown
  <2>2. ApiBusy' = ApiBusy
    BY <2>1 DEF ApiBusy, Api!Job
  <2>3. ApiBusy = {}
    BY <1>0, <2>1, ApiBusyFinite, FS_EmptySet DEF ApiJobsInv
  <2> QED BY <1>0, <2>1, <2>2, <2>3 DEF ApiJobsInv, Api!Job
<1> QED BY <1>0, <1>2, <1>3, <1>4, <1>6, <1>7, <1>8, <1>9, <1>10, <1>11, <1>12, <1>13 DEF Api!Next, Api!None

\* A connection whose unlock was granted stays what it is until it is gone.
LEMMA ApiTokensAside ==
    ASSUME ApiTokensInv, UNCHANGED <<tokens, issued, shown, deletes>>,
           \A d \in ApiConn : conn'[d].token \in {0} \cup issued,
           \A d \in issued : conn'[d].addr = conn[d].addr /\ conn'[d].st \in {"reply", "leave", "gone"}
    PROVE  ApiTokensInv'
<1>1. \A c \in issued' : conn'[c].st \in {"reply", "leave", "gone"} /\ IpOf[conn'[c].addr] \in Loopback
  BY DEF ApiTokensInv
<1>2. deletes' \in Seq([id : ApiConn, again : BOOLEAN])
  BY DEF ApiTokensInv
<1> QED BY <1>1, <1>2 DEF ApiTokensInv

\* The connections of an unlock, in a step in which one of them changes only its place.
LEMMA ApiTokensMove ==
    ASSUME ApiSlotsInv, ApiTokensInv, NEW c \in ApiConn, NEW s, conn' = [conn EXCEPT ![c].st = s]
    PROVE  /\ \A d \in ApiConn : conn'[d].token = conn[d].token /\ conn'[d].addr = conn[d].addr
           /\ \A d \in ApiConn \ {c} : conn'[d].st = conn[d].st
           /\ conn'[c].st = s
           /\ \A d \in ApiConn : conn'[d].token \in {0} \cup issued
<1>1. \A d \in ApiConn : conn'[d].token = conn[d].token /\ conn'[d].addr = conn[d].addr
  BY DEF ApiSlotsInv, ApiTypeOK, ApiCall
<1>2. (\A d \in ApiConn \ {c} : conn'[d].st = conn[d].st) /\ conn'[c].st = s
  BY DEF ApiSlotsInv, ApiTypeOK, ApiCall
<1> QED BY <1>1, <1>2 DEF ApiTokensInv

\* A token is issued to a connection that had none.
LEMMA ApiUnlockStep == ASSUME ApiInv, NEW c \in ApiConn, Api!Unlock(c) PROVE ApiTokensInv'
<1>0. ApiSlotsInv /\ ApiTokensInv /\ conn[c].st = "dispatch" /\ UNCHANGED <<shown, deletes>>
      /\ conn' = [conn EXCEPT ![c].st = "reply"]
  BY DEF ApiInv, Api!Unlock, Api!To
<1>1. /\ \A d \in ApiConn : conn'[d].token = conn[d].token /\ conn'[d].addr = conn[d].addr
      /\ \A d \in ApiConn \ {c} : conn'[d].st = conn[d].st
      /\ conn'[c].st = "reply" /\ \A d \in ApiConn : conn'[d].token \in {0} \cup issued
  BY <1>0, ApiTokensMove
<1>2. c \notin issued
  BY <1>0 DEF ApiTokensInv
<1>3. CASE IpOf[conn[c].addr] \notin Loopback
  <2>1. UNCHANGED <<tokens, issued>>
    BY <1>3 DEF Api!Unlock, Api!Ipc
  <2> QED BY <1>0, <1>1, <1>2, <2>1, ApiTokensAside DEF ApiTokensInv
<1>4. CASE IpOf[conn[c].addr] \in Loopback
  <2> DEFINE one == [id |-> c, ip |-> IpOf[conn[c].addr], old |-> FALSE, at |-> Api!Cardinality(issued) + 1]
  <2>1. issued' = issued \cup {c}
    BY <1>4 DEF Api!Unlock, Api!Ipc
  <2>2. \A t \in tokens' : t \in tokens \/ t = one
    <3>1. Api!Pruned \subseteq tokens
      BY DEF Api!Pruned
    <3>2. tokens' = (IF Api!Cardinality(Api!Pruned) >= MaxTokens THEN Api!Pruned \ {Api!Oldest} ELSE Api!Pruned) \cup {one}
      BY <1>4 DEF Api!Unlock, Api!Ipc
    <3> HIDE DEF one
    <3> QED BY <3>1, <3>2
  <2>3. one.id = c /\ one = [id |-> one.id, ip |-> one.ip, old |-> one.old, at |-> one.at]
    OBVIOUS
  <2> HIDE DEF one
  <2>4. c \notin shown
    BY <1>0, <1>2 DEF ApiTokensInv
  <2>5. \A t \in tokens' : t.id \in issued' \ shown' /\ t = [id |-> t.id, ip |-> t.ip, old |-> t.old, at |-> t.at]
    <3>1. ASSUME NEW t \in tokens' PROVE t.id \in issued' \ shown' /\ t = [id |-> t.id, ip |-> t.ip, old |-> t.old, at |-> t.at]
      <4>1. CASE t \in tokens
        BY <4>1, <1>0, <2>1 DEF ApiTokensInv
      <4>2. CASE t = one
        BY <4>2, <1>0, <2>1, <2>3, <2>4
      <4> QED BY <2>2, <4>1, <4>2
    <3> QED BY <3>1
  <2>6. \A t, u \in tokens' : t.id = u.id => t = u
    <3>1. \A t \in tokens : t.id # c
      BY <1>0, <1>2 DEF ApiTokensInv
    <3> QED BY <1>0, <2>2, <2>3, <3>1 DEF ApiTokensInv
  <2>7. issued' \subseteq ApiConn /\ shown' \subseteq issued'
    BY <1>0, <2>1 DEF ApiTokensInv
  <2>8. \A d \in ApiConn : conn'[d].token \in {0} \cup issued'
    BY <1>1, <2>1
  <2>9. \A d \in issued' : conn'[d].st \in {"reply", "leave", "gone"} /\ IpOf[conn'[d].addr] \in Loopback
    BY <1>0, <1>1, <1>2, <1>4, <2>1, <2>7 DEF ApiTokensInv
  <2>10. deletes' = deletes /\ shown' = shown
    BY <1>0
  <2>11. \A n \in 1 .. Len(deletes') : deletes'[n].id \in issued' \cap shown' /\ ~deletes'[n].again
    BY <1>0, <2>1, <2>10 DEF ApiTokensInv
  <2>12. /\ deletes' \in Seq([id : ApiConn, again : BOOLEAN])
         /\ \A n, m \in 1 .. Len(deletes') : deletes'[n].id = deletes'[m].id => n = m
    BY <1>0, <2>10 DEF ApiTokensInv
  <2> QED BY <2>5, <2>6, <2>7, <2>8, <2>9, <2>11, <2>12 DEF ApiTokensInv
<1> QED BY <1>3, <1>4

\* A token that is shown is no token any more.
LEMMA ApiDeleteStep == ASSUME ApiInv, NEW c \in ApiConn, Api!Delete(c) PROVE ApiTokensInv'
<1>0. ApiSlotsInv /\ ApiTokensInv /\ conn[c].st = "dispatch" /\ issued' = issued
  BY DEF ApiInv, Api!Delete
<1>1. conn' = [conn EXCEPT ![c].st = "reply"] \/ conn' = [conn EXCEPT ![c].st = "delete"]
  BY DEF Api!Delete, Api!Named, Api!To
<1>2. /\ \A d \in ApiConn : conn'[d].token = conn[d].token /\ conn'[d].addr = conn[d].addr
      /\ \A d \in ApiConn \ {c} : conn'[d].st = conn[d].st
      /\ \A d \in ApiConn : conn'[d].token \in {0} \cup issued
  BY <1>0, <1>1, ApiTokensMove
<1>3. c \notin issued
  BY <1>0 DEF ApiTokensInv
<1>4. \A d \in issued' : conn'[d].st \in {"reply", "leave", "gone"} /\ IpOf[conn'[d].addr] \in Loopback
  BY <1>0, <1>2, <1>3 DEF ApiTokensInv
<1>5. /\ issued' \subseteq ApiConn /\ \A d \in ApiConn : conn'[d].token \in {0} \cup issued'
      /\ deletes \in Seq([id : ApiConn, again : BOOLEAN]) /\ shown \subseteq issued
  BY <1>0, <1>2 DEF ApiTokensInv
<1>6. shown' = IF IpOf[conn[c].addr] \in Loopback THEN shown \cup ({conn[c].token} \ {0}) ELSE shown
  BY DEF Api!Delete, Api!None, Api!Ipc
<1>7. shown' \subseteq issued' /\ shown \subseteq shown'
  BY <1>0, <1>5, <1>6 DEF ApiTokensInv
<1>8. CASE \/ IpOf[conn[c].addr] \notin Loopback
           \/ {t \in tokens : t.id = conn[c].token} = {}
  <2>1. UNCHANGED <<tokens, deletes>>
    BY <1>8 DEF Api!Delete, Api!Ipc
  <2>2. \A t \in tokens : t.id \in issued' \ shown'
    BY <1>0, <1>6, <1>8 DEF ApiTokensInv
  <2>3. \A n \in 1 .. Len(deletes) : deletes[n].id \in issued' \cap shown' /\ ~deletes[n].again
    BY <1>0, <1>7 DEF ApiTokensInv
  <2>4. /\ \A t \in tokens : t = [id |-> t.id, ip |-> t.ip, old |-> t.old, at |-> t.at]
        /\ \A t, u \in tokens : t.id = u.id => t = u
        /\ \A n, m \in 1 .. Len(deletes) : deletes[n].id = deletes[m].id => n = m
    BY <1>0 DEF ApiTokensInv
  <2> QED BY <1>4, <1>5, <1>7, <2>1, <2>2, <2>3, <2>4 DEF ApiTokensInv
<1>9. CASE IpOf[conn[c].addr] \in Loopback /\ {t \in tokens : t.id = conn[c].token} # {}
  <2>1. PICK t \in tokens :
          /\ t.id = conn[c].token /\ tokens' = tokens \ {t}
          /\ \/ deletes' = Append(deletes, [id |-> t.id, again |-> t.id \in shown])
             \/ deletes' = deletes
    <3>1. PICK t \in {t \in tokens : t.id = conn[c].token} :
            LET good == t.ip = IpOf[conn[c].addr] /\ ~t.old IN
            /\ tokens' = tokens \ {t}
            /\ IF good THEN deletes' = Append(deletes, [id |-> t.id, again |-> t.id \in shown])
               ELSE deletes' = deletes
      BY <1>9 DEF Api!Delete, Api!Ipc, Api!Consumed
    <3> QED BY <3>1
  <2>2. t.id \in issued \ shown /\ t.id \in shown' /\ t.id \in ApiConn
    <3>1. t.id \in issued \ shown /\ t.id \in ApiConn
      BY <1>0 DEF ApiTokensInv
    <3>2. t.id # 0
      BY <3>1 DEF ApiConn
    <3> QED BY <1>6, <1>9, <2>1, <3>1, <3>2
  <2>3. \A u \in tokens' : u.id \in issued' \ shown'
    <3>1. \A u \in tokens' : u \in tokens /\ u.id # t.id
      BY <1>0, <2>1 DEF ApiTokensInv
    <3> QED BY <1>0, <1>6, <2>1, <3>1 DEF ApiTokensInv
  <2>4. /\ \A u \in tokens' : u = [id |-> u.id, ip |-> u.ip, old |-> u.old, at |-> u.at]
        /\ \A v, u \in tokens' : v.id = u.id => v = u
    BY <1>0, <2>1 DEF ApiTokensInv
  <2>5. /\ deletes' \in Seq([id : ApiConn, again : BOOLEAN])
        /\ \A n \in 1 .. Len(deletes') : deletes'[n].id \in issued' \cap shown' /\ ~deletes'[n].again
        /\ \A n, m \in 1 .. Len(deletes') : deletes'[n].id = deletes'[m].id => n = m
    <3>1. \A n \in 1 .. Len(deletes) : deletes[n].id \in issued' \cap shown' /\ deletes[n].id # t.id /\ ~deletes[n].again
      BY <1>0, <1>7, <2>2 DEF ApiTokensInv
    <3>2. \A n, m \in 1 .. Len(deletes) : deletes[n].id = deletes[m].id => n = m
      BY <1>0 DEF ApiTokensInv
    <3>3. CASE deletes' = deletes
      BY <1>5, <3>1, <3>2, <3>3
    <3>4. CASE deletes' = Append(deletes, [id |-> t.id, again |-> t.id \in shown])
      <4> DEFINE one == [id |-> t.id, again |-> FALSE]
      <4>1. one \in [id : ApiConn, again : BOOLEAN] /\ one.id = t.id /\ ~one.again
        BY <2>2
      <4>2. deletes' = Append(deletes, one)
        <5>1. (t.id \in shown) = FALSE
          <6>1. ~(t.id \in shown)
            BY <2>2
          <6> QED BY <6>1
        <5> QED BY <3>4, <5>1
      <4> HIDE DEF one
      <4>3. /\ deletes' \in Seq([id : ApiConn, again : BOOLEAN]) /\ Len(deletes') = Len(deletes) + 1
            /\ \A n \in 1 .. Len(deletes) : deletes'[n] = deletes[n]
            /\ deletes'[Len(deletes) + 1] = one /\ Len(deletes) \in Nat
        BY <1>5, <4>1, <4>2
      <4>4. \A n \in 1 .. Len(deletes') : n \in 1 .. Len(deletes) \/ n = Len(deletes) + 1
        BY <4>3
      <4>5. \A n \in 1 .. Len(deletes') : deletes'[n].id \in issued' \cap shown' /\ ~deletes'[n].again
        BY <1>0, <2>2, <3>1, <4>1, <4>3, <4>4
      <4>6. \A n, m \in 1 .. Len(deletes') : deletes'[n].id = deletes'[m].id => n = m
        BY <3>1, <3>2, <4>1, <4>3, <4>4
      <4> QED BY <4>3, <4>5, <4>6
    <3> QED BY <2>1, <3>3, <3>4
  <2> QED BY <1>4, <1>5, <1>7, <2>3, <2>4, <2>5 DEF ApiTokensInv
<1> QED BY <1>8, <1>9

\* A token gets old.
LEMMA ApiExpireStep == ASSUME ApiInv, Api!Expire PROVE ApiTokensInv'
<1>0. ApiTokensInv /\ UNCHANGED <<conn, issued, shown, deletes>>
  BY DEF ApiInv, Api!Expire
<1>1. PICK t \in tokens : tokens' = (tokens \ {t}) \cup {[t EXCEPT !.old = TRUE]}
  BY DEF Api!Expire
<1>2. PICK e : e = [t EXCEPT !.old = TRUE]
  OBVIOUS
<1>3. t = [id |-> t.id, ip |-> t.ip, old |-> t.old, at |-> t.at]
  BY <1>0 DEF ApiTokensInv
<1>4. e.id = t.id /\ e = [id |-> e.id, ip |-> e.ip, old |-> e.old, at |-> e.at]
  BY <1>2, <1>3
<1>5. tokens' = (tokens \ {t}) \cup {e}
  BY <1>1, <1>2
<1>6. \A u \in tokens' : u.id \in issued' \ shown' /\ u = [id |-> u.id, ip |-> u.ip, old |-> u.old, at |-> u.at]
  <2>1. ASSUME NEW u \in tokens' PROVE u.id \in issued' \ shown' /\ u = [id |-> u.id, ip |-> u.ip, old |-> u.old, at |-> u.at]
    <3>1. CASE u \in tokens
      BY <1>0, <3>1 DEF ApiTokensInv
    <3>2. CASE u = e
      <4>1. t.id \in issued' \ shown'
        BY <1>0 DEF ApiTokensInv
      <4> QED BY <1>4, <3>2, <4>1
    <3> QED BY <1>5, <3>1, <3>2
  <2> QED BY <2>1
<1>7. \A u, v \in tokens' : u.id = v.id => u = v
  <2>1. \A u \in tokens \ {t} : u.id # t.id
    BY <1>0 DEF ApiTokensInv
  <2>2. \A u, v \in tokens : u.id = v.id => u = v
    BY <1>0 DEF ApiTokensInv
  <2> QED BY <1>4, <1>5, <2>1, <2>2
<1> QED BY <1>0, <1>6, <1>7 DEF ApiTokensInv

\* Every step keeps the tokens that were not shown apart from those that were.
LEMMA ApiTokensStep == ASSUME ApiConstants, ApiInv, [Api!Next]_(Api!vars) PROVE ApiTokensInv'
<1>0. ApiSlotsInv /\ ApiTokensInv /\ Api!Conn = ApiConn /\ Api!None = 0 /\ conn \in [ApiConn -> ApiCall]
  BY DEF ApiInv, Api!Conn, ApiConn, Api!None, ApiSlotsInv, ApiTypeOK
<1>a. issued \subseteq ApiConn /\ \A d \in ApiConn : conn[d].token \in {0} \cup issued
  BY <1>0 DEF ApiTokensInv
<1>b. \A d \in issued : conn[d].st \in {"reply", "leave", "gone"} /\ d \in ApiConn
  BY <1>0 DEF ApiTokensInv
<1>1. ASSUME conn' = conn, UNCHANGED <<tokens, issued, shown, deletes>> PROVE ApiTokensInv'
  BY <1>0, <1>1, <1>a, <1>b, ApiTokensAside
<1>2. ASSUME NEW c \in ApiConn, NEW s, conn' = [conn EXCEPT ![c].st = s], UNCHANGED <<tokens, issued, shown, deletes>>,
             s \in {"reply", "leave", "gone"} \/ conn[c].st \notin {"reply", "leave", "gone"}
      PROVE  ApiTokensInv'
  <2>1. /\ \A d \in ApiConn : conn'[d].token = conn[d].token /\ conn'[d].addr = conn[d].addr
        /\ \A d \in ApiConn \ {c} : conn'[d].st = conn[d].st
        /\ conn'[c].st = s /\ \A d \in ApiConn : conn'[d].token \in {0} \cup issued
    BY <1>0, <1>2, ApiTokensMove
  <2> QED BY <1>0, <1>2, <1>b, <2>1, ApiTokensAside
<1>3. CASE UNCHANGED Api!vars
  BY <1>1, <1>3 DEF Api!vars
<1>4. ASSUME NEW c \in ApiConn,
           \/ Api!ReadFails(c) \/ Api!Reply(c) \/ Api!Refuse(c) \/ Api!Malformed(c)
           \/ Api!handleRobotCommand(c) \/ Api!handleMarketCommand(c)
           \/ Api!Online(c) \/ \E n \in Api!Job : Api!Launch(c, n)
      PROVE ApiTokensInv'
  <2>1. UNCHANGED <<tokens, issued, shown, deletes>>
    BY <1>4 DEF Api!ReadFails, Api!Reply, Api!Refuse, Api!Malformed, Api!handleRobotCommand,
         Api!handleMarketCommand, Api!Online, Api!Launch
  <2>2. PICK s \in {"reply", "leave", "online", "delete"} :
             /\ conn' = [conn EXCEPT ![c].st = s]
             /\ s # "leave" => conn[c].st \in {"dispatch", "online", "delete"}
             /\ s \in {"online", "delete"} => conn[c].st = "dispatch"
    BY <1>0, <1>4, ApiHandlerStep
  <2> QED BY <1>2, <2>1, <2>2
<1>5. ASSUME NEW c \in ApiConn, NEW a \in Addr, Api!Connect(c, a) PROVE ApiTokensInv'
  <2>1. /\ conn' = [conn EXCEPT ![c].addr = a, ![c].st = "backlog", ![c].open = TRUE] /\ conn[c].st = "new"
        /\ UNCHANGED <<tokens, issued, shown, deletes>>
    BY <1>5 DEF Api!Connect
  <2>2. conn'[c].token = conn[c].token /\ \A d \in ApiConn \ {c} : conn'[d] = conn[d]
    BY <1>0, <2>1 DEF ApiCall
  <2> QED BY <1>0, <1>a, <1>b, <2>1, <2>2, ApiTokensAside
<1>6. ASSUME NEW c \in ApiConn, Api!PeerGone(c) PROVE ApiTokensInv'
  <2>1. conn' = [conn EXCEPT ![c].peer = FALSE] /\ UNCHANGED <<tokens, issued, shown, deletes>>
    BY <1>6 DEF Api!PeerGone
  <2>2. \A d \in ApiConn : conn'[d].token = conn[d].token /\ conn'[d].st = conn[d].st /\ conn'[d].addr = conn[d].addr
    BY <1>0, <2>1 DEF ApiCall
  <2> QED BY <1>0, <1>a, <1>b, <2>1, <2>2, ApiTokensAside
<1>7. ASSUME NEW c \in ApiConn, Api!Accept(c) PROVE ApiTokensInv'
  <2>1. conn' = [conn EXCEPT ![c].st = "taken"] /\ conn[c].st = "backlog" /\ UNCHANGED <<tokens, issued, shown, deletes>>
    BY <1>7 DEF Api!Accept, Api!To
  <2> QED BY <1>2, <2>1
<1>8. ASSUME NEW c \in ApiConn, Api!Spawn(c) PROVE ApiTokensInv'
  <2>1. conn' = [conn EXCEPT ![c].st = "read"] /\ srv.acceptor = <<"spawn", c>> /\ UNCHANGED <<tokens, issued, shown, deletes>>
    BY <1>8 DEF Api!Spawn, Api!To
  <2>2. conn[c].st = "taken"
    BY <1>0, <2>1 DEF ApiSlotsInv, ApiPlaces
  <2> QED BY <1>2, <2>1, <2>2
<1>9. ASSUME NEW c \in ApiConn, Api!Admit(c) \/ Api!Leave(c) PROVE ApiTokensInv'
  <2>1. /\ UNCHANGED <<tokens, issued, shown, deletes>>
        /\ conn' = conn \/ conn' = [conn EXCEPT ![c].st = "gone", ![c].open = FALSE]
    BY <1>9 DEF Api!Admit, Api!Leave
  <2>2. CASE conn' = conn
    BY <1>1, <2>1, <2>2
  <2>3. CASE conn' = [conn EXCEPT ![c].st = "gone", ![c].open = FALSE]
    <3>1. /\ conn'[c].token = conn[c].token /\ conn'[c].addr = conn[c].addr /\ conn'[c].st = "gone"
          /\ \A d \in ApiConn \ {c} : conn'[d] = conn[d]
      BY <1>0, <2>3 DEF ApiCall
    <3> QED BY <1>0, <1>a, <1>b, <2>1, <3>1, ApiTokensAside
  <2> QED BY <2>1, <2>2, <2>3
<1>10. ASSUME NEW c \in ApiConn, NEW q \in Requests, NEW t \in {0} \cup issued, Api!Read(c, q, t) PROVE ApiTokensInv'
  <2>1. UNCHANGED <<tokens, issued, shown, deletes>> /\ conn[c].st = "read"
    BY <1>10 DEF Api!Read
  <2>2. CASE conn' = [conn EXCEPT ![c].st = "dispatch", ![c].registered = TRUE, ![c].ask = q, ![c].token = t]
    <3>1. conn'[c].token = t /\ \A d \in ApiConn \ {c} : conn'[d] = conn[d]
      BY <1>0, <2>2 DEF ApiCall
    <3> QED BY <1>0, <1>a, <1>b, <2>1, <3>1, ApiTokensAside
  <2>3. CASE conn' = [conn EXCEPT ![c].st = "leave"]
    BY <1>2, <2>1, <2>3
  <2>4. \/ conn' = [conn EXCEPT ![c].st = "dispatch", ![c].registered = TRUE, ![c].ask = q, ![c].token = t]
        \/ conn' = [conn EXCEPT ![c].st = "leave"]
    BY <1>10 DEF Api!Read, Api!To
  <2> QED BY <2>2, <2>3, <2>4
<1>11. ASSUME NEW c \in ApiConn, Api!Unlock(c) \/ Api!Delete(c) PROVE ApiTokensInv'
  BY <1>11, ApiUnlockStep, ApiDeleteStep
<1>12. CASE (\E n \in Api!Job : Api!JobFinishes(n) \/ Api!JobForgotten(n)) \/ Api!KeyChanges \/ Api!AcceptEnds \/ Api!Ended
  BY <1>1, <1>12 DEF Api!JobFinishes, Api!JobForgotten, Api!KeyChanges, Api!AcceptEnds, Api!Ended, Api!vars
<1>13. CASE \/ Api!Start \/ Api!CloseFlag \/ Api!CloseWait \/ Api!MarketDown \/ Api!stopAndWaitBackgroundWork \/ Api!ManagerDown
  BY <1>1, <1>13 DEF Api!Start, Api!CloseFlag, Api!CloseWait, Api!MarketDown, Api!stopAndWaitBackgroundWork, Api!ManagerDown
<1>14. CASE Api!CloseListener \/ Api!CloseClients
  <2>1. UNCHANGED <<tokens, issued, shown, deletes>>
    BY <1>14 DEF Api!CloseListener, Api!CloseClients
  <2>2. \A d \in ApiConn : \/ conn'[d] = conn[d] \/ conn'[d] = [conn[d] EXCEPT !.st = "gone", !.open = FALSE]
                           \/ conn'[d] = [conn[d] EXCEPT !.open = FALSE]
    BY <1>0, <1>14 DEF Api!CloseListener, Api!CloseClients
  <2>3. \A d \in ApiConn : /\ conn'[d].token = conn[d].token /\ conn'[d].addr = conn[d].addr
                           /\ conn'[d].st = conn[d].st \/ conn'[d].st = "gone"
    <3>1. ASSUME NEW d \in ApiConn
          PROVE  /\ conn'[d].token = conn[d].token /\ conn'[d].addr = conn[d].addr
                 /\ conn'[d].st = conn[d].st \/ conn'[d].st = "gone"
      <4>1. conn[d] \in ApiCall
        BY <1>0
      <4>2. CASE conn'[d] = conn[d]
        BY <4>2
      <4>3. CASE conn'[d] = [conn[d] EXCEPT !.st = "gone", !.open = FALSE]
        BY <4>1, <4>3 DEF ApiCall
      <4>4. CASE conn'[d] = [conn[d] EXCEPT !.open = FALSE]
        BY <4>1, <4>4 DEF ApiCall
      <4> QED BY <2>2, <4>2, <4>3, <4>4
    <3> QED BY <3>1
  <2> QED BY <1>0, <1>a, <1>b, <2>1, <2>3, ApiTokensAside
<1>15. CASE Api!Expire
  BY <1>15, ApiExpireStep
<1> QED BY <1>0, <1>3, <1>4, <1>5, <1>6, <1>7, <1>8, <1>9, <1>10, <1>11, <1>12, <1>13, <1>14, <1>15 DEF Api!Next

\* The three invariants hold together.
LEMMA ApiInvHolds == ASSUME ApiConstants PROVE Api!Spec => []ApiInv
<1>1. Api!Init => ApiInv
  BY ApiInit DEF ApiInv
<1>2. ApiInv /\ [Api!Next]_(Api!vars) => ApiInv'
  BY ApiSlotsStep, ApiJobsStep, ApiTokensStep DEF ApiInv
<1> QED BY <1>1, <1>2, PTL DEF Api!Spec

\* The invariant says it: the property counts the same connections.
LEMMA ApiInvSays == ASSUME ApiConstants, ApiInv PROVE Api!ConnectionsAccounted
<1>0. ApiSlotsInv /\ ApiJobsInv /\ ApiTokensInv /\ Api!Conn = ApiConn
  BY DEF ApiInv, Api!Conn, ApiConn
<1>1. Api!Handled = ApiHandled
  BY <1>0 DEF Api!Handled, ApiHandled, ApiSlotsInv, ApiTypeOK, ApiCall, ApiHandlerAt, ApiServedAt
<1>2. Api!SlotsGivenBack
  <2>1. {c \in Api!Handled : ~conn[c].registered} = ApiWaiting
    BY <1>1 DEF ApiWaiting
  <2>2. Api!Handled \ ApiWaiting = ApiServed
    BY <1>1 DEF ApiWaiting, ApiServed
  <2>3. \A i : {c \in ApiWaiting : Api!Ipc(c) = i} = ApiFrom(i)
    BY DEF ApiFrom, Api!Ipc
  <2>4. DOMAIN srv.byIP = Api!Ip
    BY <1>0 DEF ApiSlotsInv, ApiTypeOK, ApiSrv
  <2> QED BY <1>0, <1>1, <2>1, <2>2, <2>3, <2>4, ApiCardinality
    DEF Api!SlotsGivenBack, ApiSlotsInv, ApiCounts, ApiClients
<1>3. Api!NothingOutlives
  <2>1. ASSUME main \in {"closed", "market", "background", "down"}, NEW c \in ApiConn
        PROVE  ~conn[c].open /\ conn[c].st \in {"new", "gone"}
    <3>1. srv.wg = 0 /\ ~srv.listening
      BY <1>0, <2>1 DEF ApiSlotsInv, ApiPhases
    <3>2. Cardinality(ApiRunning) \in Nat /\ IsFiniteSet(ApiRunning)
      BY ApiFinite, FS_CardinalityType
    <3>3. Cardinality(ApiRunning) = 0 /\ srv.acceptor = <<"off", 0>>
      BY <1>0, <3>1, <3>2 DEF ApiSlotsInv, ApiCounts
    <3>4. ApiRunning = {}
      BY <3>2, <3>3, FS_EmptySet
    <3>5. conn[c].st \notin ApiHandlerAt
      BY <3>4 DEF ApiRunning
    <3>6. conn[c].st # "taken" /\ conn[c].st # "backlog"
      <4>1. <<"off", 0>> # <<"taken", c>> /\ <<"off", 0>> # <<"spawn", c>>
        OBVIOUS
      <4> QED BY <1>0, <3>1, <3>3, <4>1 DEF ApiSlotsInv, ApiPlaces, ApiPhases
    <3>7. conn[c].st \in {"new", "gone"}
      BY <1>0, <3>5, <3>6 DEF ApiSlotsInv, ApiTypeOK, ApiCall
    <3> QED BY <1>0, <3>7 DEF ApiSlotsInv, ApiPlaces
  <2>2. main = "down" => \A n \in DOMAIN job : job[n] # "running"
    BY <1>0 DEF ApiJobsInv, ApiBusy
  <2> QED BY <1>0, <2>1, <2>2 DEF Api!NothingOutlives
<1>4. Api!OneDeletePerUnlock
  <2>1. DOMAIN deletes = 1 .. Len(deletes)
    BY <1>0 DEF ApiTokensInv
  <2> QED BY <1>0, <2>1 DEF ApiTokensInv, Api!OneDeletePerUnlock, Api!Ipc
<1> QED BY <1>2, <1>3, <1>4 DEF Api!ConnectionsAccounted

\* For any number of connections, addresses and limits, with peers that come back on
\* an address whose handler still runs and with Close at any moment: the counters
\* behind the API's limits are its waiting and served connections, an address leads to
\* its newest connection, nothing runs on what the shutdown has torn down, and a delete
\* token pays once (tcpserver.go, tcpapi, main.go; Api!ConnectionsAccounted).
THEOREM ApiConnectionsAccounted ==
    ASSUME ApiConstants
    PROVE  Api!Spec => []Api!ConnectionsAccounted /\ []ConnectionsAccounted
<1>1. ApiInv => Api!ConnectionsAccounted
  BY ApiInvSays
<1>2. Api!ConnectionsAccounted => ConnectionsAccounted
  BY DEF ConnectionsAccounted
<1> QED BY <1>1, <1>2, ApiInvHolds, PTL
=============================================================================
