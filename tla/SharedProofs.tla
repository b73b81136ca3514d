---------------------------- MODULE SharedProofs ----------------------------
(***************************************************************************)
(* What holds of the things that several goroutines or programs change,    *)
(* for all values of the constants: the lock of a uid (RefHub), and what   *)
(* the programs change on the hosts (Hosts): the game's scripts and the    *)
(* player limits of its channels, the robot while the launcher replaces    *)
(* it, the market's files of the game and the memory of the auction        *)
(* service.                                                                *)
(*                                                                         *)
(* What a component needs of its constants is the hypothesis of its        *)
(* theorems.                                                               *)
(***************************************************************************)
EXTENDS RefHub, Hosts, Sequences, FiniteSetTheorems, SequenceTheorems,
        WellFoundedInduction, NaturalsInduction, TLAPS

-----------------------------------------------------------------------------
(* RefHub: the locks of the uids.                                          *)

\* The counted goroutines of a lock are finitely many: Cardinality is defined.
LEMMA UsersFinite == \A l : IsFiniteSet(Users(l))
  BY RefHubAssumption, FS_Subset DEF Users

\* NewRefHub: the empty hub satisfies the inductive invariant.
LEMMA InitIInv == Init => IInv
  BY RefHubAssumption DEF Init, IInv, TypeOK, PC, MapCurrent, OneUidPerLock, RefsCount, OwnerInside

\* Acquire, first half, preserves the invariant.
LEMMA FindOrCreateIInv ==
  ASSUME IInv, NEW p \in Proc, NEW u \in Uid, FindOrCreate(p, u)
  PROVE  IInv'
<1> USE RefHubAssumption DEF IInv
<1>1. CASE locks[u] # None
  <2>0. /\ locks[u] \in Lock /\ locks' = locks /\ owner' = owner
        /\ pc' = [pc EXCEPT ![p] = "wait"] /\ uid' = [uid EXCEPT ![p] = u]
        /\ lock' = [lock EXCEPT ![p] = locks[u]]
        /\ refs' = [refs EXCEPT ![locks[u]] = @ + 1] /\ pc[p] = "out"
    BY <1>1 DEF FindOrCreate, TypeOK
  <2>1. TypeOK'
    BY <2>0 DEF TypeOK, PC
  <2>2. MapCurrent' /\ OneUidPerLock' /\ OwnerInside'
    BY <2>0 DEF TypeOK, MapCurrent, OneUidPerLock, OwnerInside
  <2>3. RefsCount'
    <3> SUFFICES ASSUME NEW v \in Uid, locks[v] # None
                 PROVE  refs'[locks[v]] = Cardinality(Users(locks[v])')
      BY <2>0 DEF RefsCount, Users
    <3>1. locks[v] \in Lock /\ refs[locks[v]] = Cardinality(Users(locks[v]))
      BY DEF TypeOK, RefsCount
    <3>2. CASE locks[v] = locks[u]
      <4>1. Users(locks[v])' = Users(locks[v]) \cup {p} /\ p \notin Users(locks[v])
        BY <2>0, <3>2 DEF Users, TypeOK
      <4>2. Cardinality(Users(locks[v])') = Cardinality(Users(locks[v])) + 1
        BY <4>1, UsersFinite, FS_AddElement
      <4> QED BY <4>2, <3>1, <3>2, <2>0 DEF TypeOK
    <3>3. CASE locks[v] # locks[u]
      <4>1. Users(locks[v])' = Users(locks[v])
        BY <2>0, <3>3 DEF Users, TypeOK
      <4> QED BY <4>1, <3>1, <3>3, <2>0 DEF TypeOK
    <3> QED BY <3>2, <3>3
  <2> QED BY <2>1, <2>2, <2>3
<1>2. CASE locks[u] = None
  <2>0. PICK l \in Lock :
        /\ Fresh(l)
        /\ lock' = [lock EXCEPT ![p] = l]
        /\ locks' = [locks EXCEPT ![u] = l]
        /\ refs' = [refs EXCEPT ![l] = 1]
        /\ owner' = [owner EXCEPT ![l] = None]
        /\ pc' = [pc EXCEPT ![p] = "wait"]
        /\ uid' = [uid EXCEPT ![p] = u]
        /\ pc[p] = "out"
    BY <1>2 DEF FindOrCreate
  <2>1. TypeOK'
    <3>1. locks' \in [Uid -> Lock \cup {None}] /\ refs' \in [Lock -> Int]
      BY <2>0 DEF TypeOK
    <3>2. owner' \in [Lock -> Proc \cup {None}] /\ lock' \in [Proc -> Lock]
      BY <2>0 DEF TypeOK
    <3>3. pc' \in [Proc -> PC] /\ uid' \in [Proc -> Uid]
      BY <2>0 DEF TypeOK, PC
    <3> QED BY <3>1, <3>2, <3>3 DEF TypeOK
  <2>2. MapCurrent'
    BY <2>0, <1>2 DEF TypeOK, MapCurrent
  <2>3. OneUidPerLock' /\ OwnerInside'
    BY <2>0 DEF TypeOK, OneUidPerLock, OwnerInside, Fresh
  <2>4. RefsCount'
    <3> SUFFICES ASSUME NEW v \in Uid, locks'[v] # None
                 PROVE  refs'[locks'[v]] = Cardinality(Users(locks[v])')
      BY DEF RefsCount, Users
    <3>1. CASE v = u
      <4>1. Users(locks[v])' = {p}
        BY <2>0, <3>1 DEF Users, TypeOK, Fresh
      <4> QED BY <4>1, <3>1, <2>0, FS_Singleton DEF TypeOK
    <3>2. CASE v # u
      <4>1. locks'[v] = locks[v] /\ locks[v] # l /\ locks[v] \in Lock
        BY <3>2, <2>0 DEF TypeOK, Fresh
      <4>2. Users(locks[v])' = Users(locks[v])
        BY <2>0, <4>1 DEF Users, TypeOK
      <4> QED BY <4>1, <4>2, <2>0 DEF TypeOK, RefsCount
    <3> QED BY <3>1, <3>2
  <2> QED BY <2>1, <2>2, <2>3, <2>4
<1> QED BY <1>1, <1>2

\* lock.mu.Lock and lock.mu.Unlock do not touch the map or the counts.
LEMMA MuIInv ==
  ASSUME IInv, NEW p \in Proc, LockMu(p) \/ UnlockMu(p)
  PROVE  IInv'
<1> USE RefHubAssumption DEF IInv
<1>1. /\ locks' = locks /\ refs' = refs /\ uid' = uid /\ lock' = lock
      /\ \A q \in Proc : pc'[q] # "out" <=> pc[q] # "out"
  BY DEF LockMu, UnlockMu, TypeOK
<1>2. TypeOK'
  BY DEF LockMu, UnlockMu, TypeOK, PC
<1>3. MapCurrent' /\ OneUidPerLock'
  BY <1>1 DEF MapCurrent, OneUidPerLock
<1>4. RefsCount'
  <2>1. \A l : Users(l)' = Users(l)
    BY <1>1 DEF Users
  <2> QED BY <1>1, <2>1 DEF RefsCount
<1>5. OwnerInside'
  BY DEF LockMu, UnlockMu, TypeOK, OwnerInside
<1> QED BY <1>2, <1>3, <1>4, <1>5

\* Release, second half: the entry is deleted only when nobody else is counted.
LEMMA DropRefIInv ==
  ASSUME IInv, NEW p \in Proc, DropRef(p)
  PROVE  IInv'
<1> USE RefHubAssumption DEF IInv
<1>0. /\ pc[p] = "drop" /\ pc' = [pc EXCEPT ![p] = "out"]
      /\ refs' = [refs EXCEPT ![lock[p]] = @ - 1]
      /\ owner' = owner /\ uid' = uid /\ lock' = lock
      /\ locks[uid[p]] = lock[p] /\ lock[p] \in Lock /\ lock[p] # None
      /\ p \in Users(lock[p])
  BY DEF DropRef, MapCurrent, TypeOK, Users
<1>1. refs[lock[p]] = Cardinality(Users(lock[p]))
  BY <1>0 DEF RefsCount, TypeOK
<1>2. ASSUME LastUser(p) PROVE Users(lock[p]) = {p}
  <2>1. Cardinality(Users(lock[p])) <= 1 /\ Cardinality(Users(lock[p])) \in Nat
    BY <1>0, <1>1, <1>2, UsersFinite, FS_CardinalityType DEF LastUser, TypeOK
  <2>2. /\ IsFiniteSet(Users(lock[p]) \ {p})
        /\ Cardinality(Users(lock[p]) \ {p}) = Cardinality(Users(lock[p])) - 1
    BY <1>0, UsersFinite, FS_RemoveElement
  <2>3. Cardinality(Users(lock[p]) \ {p}) = 0
    BY <2>1, <2>2, FS_CardinalityType
  <2>4. Users(lock[p]) \ {p} = {}
    BY <2>2, <2>3, FS_EmptySet
  <2> QED BY <2>4, <1>0
<1>3. TypeOK'
  BY <1>0 DEF DropRef, TypeOK, PC
<1>4. MapCurrent'
  <2> SUFFICES ASSUME NEW q \in Proc, pc'[q] # "out"
               PROVE  locks'[uid[q]] = lock[q]
    BY <1>0 DEF MapCurrent
  <2>1. q # p /\ locks[uid[q]] = lock[q] /\ q \in Users(lock[q])
    BY <1>0 DEF TypeOK, MapCurrent, Users
  <2>2. CASE LastUser(p)
    BY <1>0, <1>2, <2>1, <2>2 DEF DropRef, TypeOK
  <2>3. CASE ~LastUser(p)
    BY <2>1, <2>3 DEF DropRef
  <2> QED BY <2>2, <2>3
<1>5. OneUidPerLock' /\ OwnerInside'
  BY <1>0 DEF DropRef, TypeOK, OneUidPerLock, OwnerInside
<1>6. RefsCount'
  <2> SUFFICES ASSUME NEW u \in Uid, locks'[u] # None
               PROVE  refs'[locks'[u]] = Cardinality(Users(locks[u])')
    BY DEF RefsCount, Users
  <2>1. locks'[u] = locks[u] /\ locks[u] \in Lock
    BY <1>0 DEF DropRef, TypeOK
  <2>2. refs[locks[u]] = Cardinality(Users(locks[u]))
    BY <2>1 DEF RefsCount
  <2>3. CASE locks[u] = lock[p]
    <3>1. Users(locks[u])' = Users(locks[u]) \ {p}
      BY <2>1, <2>3, <1>0 DEF Users, TypeOK
    <3>2. Cardinality(Users(locks[u])') = Cardinality(Users(locks[u])) - 1
      BY <3>1, <2>3, <1>0, UsersFinite, FS_RemoveElement
    <3> QED BY <3>2, <2>1, <2>2, <2>3, <1>0 DEF TypeOK
  <2>4. CASE locks[u] # lock[p]
    <3>1. Users(locks[u])' = Users(locks[u])
      BY <2>1, <2>4, <1>0 DEF Users, TypeOK
    <3> QED BY <3>1, <2>1, <2>2, <2>4, <1>0 DEF TypeOK
  <2> QED BY <2>3, <2>4
<1> QED BY <1>3, <1>4, <1>5, <1>6

\* The inductive invariant holds in every reachable state of the hub.
THEOREM HubInvariant == Spec => []IInv
<1>1. IInv /\ [Next]_vars => IInv'
  <2> SUFFICES ASSUME IInv, [Next]_vars PROVE IInv'
    OBVIOUS
  <2>1. CASE UNCHANGED vars
    BY <2>1 DEF IInv, vars, TypeOK, MapCurrent, OneUidPerLock, RefsCount, OwnerInside, Users
  <2>2. CASE Next
    BY <2>2, FindOrCreateIInv, MuIInv, DropRefIInv DEF Next
  <2> QED BY <2>1, <2>2
<1> QED BY <1>1, InitIInv, PTL DEF Spec

\* Acquire/Release give mutual exclusion per uid although the map entry may be
\* deleted and re-created between the two halves of either.
THEOREM HubMutualExclusion == Spec => []MutualExclusion
<1>1. IInv => MutualExclusion
  BY DEF IInv, TypeOK, MapCurrent, OwnerInside, MutualExclusion
<1> QED BY <1>1, HubInvariant, PTL

\* No step of Acquire or Release leaves an entry behind that nobody uses.
LEMMA NoLeakStep ==
  ASSUME IInv, NoLeakedEntry, [Next]_vars
  PROVE  NoLeakedEntry'
<1> USE RefHubAssumption DEF IInv
<1> SUFFICES ASSUME NEW u \in Uid, locks'[u] # None
             PROVE  \E q \in Proc : pc'[q] # "out" /\ lock'[q] = locks'[u]
  BY DEF NoLeakedEntry, Users
<1>0. locks[u] # None => \E q \in Proc : pc[q] # "out" /\ lock[q] = locks[u]
  BY DEF NoLeakedEntry, Users
<1>1. CASE UNCHANGED vars
  BY <1>0, <1>1 DEF vars
<1>2. ASSUME NEW p \in Proc, NEW v \in Uid, FindOrCreate(p, v)
      PROVE  \E q \in Proc : pc'[q] # "out" /\ lock'[q] = locks'[u]
  <2>1. pc'[p] # "out" /\ lock'[p] = locks'[v]
    BY <1>2 DEF FindOrCreate, TypeOK
  <2>2. CASE u = v
    BY <2>1, <2>2
  <2>3. CASE u # v
    <3>1. locks'[u] = locks[u]
      BY <1>2, <2>3 DEF FindOrCreate, TypeOK
    <3>2. PICK q \in Proc : pc[q] # "out" /\ lock[q] = locks[u]
      BY <1>0, <3>1
    <3>3. q # p
      BY <1>2, <3>2 DEF FindOrCreate
    <3>4. pc'[q] = pc[q] /\ lock'[q] = lock[q]
      BY <1>2, <3>3 DEF FindOrCreate, TypeOK
    <3> QED BY <3>1, <3>2, <3>4
  <2> QED BY <2>2, <2>3
<1>3. ASSUME NEW p \in Proc, LockMu(p) \/ UnlockMu(p)
      PROVE  \E q \in Proc : pc'[q] # "out" /\ lock'[q] = locks'[u]
  <2>1. locks' = locks /\ lock' = lock /\ \A q \in Proc : pc[q] # "out" => pc'[q] # "out"
    BY <1>3 DEF LockMu, UnlockMu, TypeOK
  <2> QED BY <1>0, <2>1
<1>4. ASSUME NEW p \in Proc, DropRef(p)
      PROVE  \E q \in Proc : pc'[q] # "out" /\ lock'[q] = locks'[u]
  <2>1. /\ locks'[u] = locks[u] /\ lock' = lock
        /\ pc[p] = "drop" /\ \A q \in Proc : q # p => pc'[q] = pc[q]
    BY <1>4 DEF DropRef, TypeOK
  <2>2. CASE locks[u] # lock[p]
    BY <1>0, <2>1, <2>2
  <2>3. CASE locks[u] = lock[p]
    <3>1. IInv' BY <1>4, DropRefIInv
    <3>2. uid[p] = u
      BY <2>1, <2>3 DEF MapCurrent, OneUidPerLock, TypeOK
    <3>3. ~LastUser(p)
      BY <1>4, <3>2 DEF DropRef, TypeOK
    <3>4. refs'[locks'[u]] > 0
      BY <1>4, <2>1, <2>3, <3>2, <3>3 DEF DropRef, LastUser, TypeOK
    <3>5. refs'[locks'[u]] = Cardinality(Users(locks[u])')
      BY <2>1, <3>1 DEF RefsCount, Users
    <3>6. Users(locks[u])' # {}
      BY <3>4, <3>5, FS_EmptySet
    <3> QED BY <2>1, <3>6 DEF Users
  <2> QED BY <2>2, <2>3
<1> QED BY <1>1, <1>2, <1>3, <1>4 DEF Next

\* Release drops a uid's entry with its last user, so the map is never larger
\* than the number of goroutines at work.
THEOREM HubNoLeak == Spec => []NoLeakedEntry
<1>1. Init => NoLeakedEntry BY DEF Init, NoLeakedEntry
<1> QED BY <1>1, HubInvariant, NoLeakStep, PTL DEF Spec

\* A nonempty set of natural numbers has a least element.
LEMMA LeastNat == ASSUME NEW S, S \subseteq Nat, S # {} PROVE \E k \in S : \A j \in S : k <= j
<1>1. PICK k \in S : \A j \in S : <<j, k>> \notin OpToRel(<, Nat)
  BY NatLessThanWellFounded, WFMin
<1>2. \A j \in S : ~(j < k)
  BY <1>1 DEF OpToRel
<1> QED BY <1>2

-----------------------------------------------------------------------------
(* GameControl: the scripts and the player limit.                          *)

ControlLast == Cardinality(Service)
ControlScript == [action : {"run", "stop"}, n : 0 .. ControlLast, alive : BOOLEAN]

\* Only the script that serverScriptCancel would end is alive, and it is the last one.
ControlScripts ==
    /\ script \in Seq(ControlScript) /\ cancel \in {0, Len(script)} /\ up \subseteq 1 .. ControlLast
    /\ \A i \in 1 .. Len(script) : script[i].alive => i = cancel /\ script[i].n < ControlLast
    /\ last = "stop" => /\ Len(script) > 0 /\ script[Len(script)].action = "stop"
                        /\ up \subseteq (script[Len(script)].n + 1) .. ControlLast

ControlWriting(w) ==
    /\ wr[w].to \in Value /\ wr[w].orig \in [Channel -> Value] /\ wr[w].done \in Seq(Channel)
    /\ \A f, g \in Channel : wr[w].orig[f] = wr[w].orig[g]
    /\ \A f \in Channel : cfg[f] = IF \E i \in 1 .. Len(wr[w].done) : wr[w].done[i] = f
                                   THEN wr[w].to ELSE wr[w].orig[f]
    /\ \A i, j \in 1 .. Len(wr[w].done) : wr[w].done[i] = wr[w].done[j] => i = j
    /\ wr[w] = [pc |-> wr[w].pc, to |-> wr[w].to, orig |-> wr[w].orig, done |-> wr[w].done]

\* The files are alike, or the writer knows which of them it has changed.
ControlLimit ==
    /\ cfg \in [Channel -> Value] /\ DOMAIN wr = Writer /\ DOMAIN rd = Reader
    /\ controlLeft = [fault |-> controlLeft.fault] /\ controlLeft.fault \in 0 .. MaxFaults
    /\ \A w \in Writer : \/ wr[w] = Control!Off
                         \/ wr[w].pc = "write" /\ ControlWriting(w)
                         \/ wr[w].pc = "undo" /\ ControlWriting(w) /\ controlLeft.fault < MaxFaults
    /\ (\A w \in Writer : wr[w] = Control!Off) =>
         /\ \A f, g \in Channel : cfg[f] = cfg[g]
         /\ controlLeft.fault = MaxFaults => limit \in {0, cfg[1]} /\ \A r \in Reader : rd[r] \in {0, cfg[1]}

ControlInv == ControlScripts /\ ControlLimit

\* The services are counted.
LEMMA ControlCount ==
    ASSUME ControlConstants
    PROVE  /\ ControlLast \in Nat \ {0} /\ Control!Cardinality(Service) = ControlLast
           /\ MaxFaults \in Nat /\ MaxFaults <= 1
<1>1. PICK n \in Nat \ {0} : Service = 1 .. n
  <2>1. Cardinality(Service) \in Nat /\ Service = 1 .. Cardinality(Service) /\ Service # {}
    BY FS_CardinalityType DEF ControlConstants
  <2> QED BY <2>1
<1>2. Cardinality(1 .. n) = n
  BY FS_Interval
<1>3. Control!Cardinality(Service) = Cardinality(Service)
  BY DEF Control!Cardinality, Cardinality
<1>4. MaxFaults \in Nat /\ MaxFaults <= 1
  BY DEF ControlConstants
<1> QED BY <1>1, <1>2, <1>3, <1>4 DEF ControlLast

\* No script runs and the limits agree at first.
LEMMA ControlInit == ASSUME ControlConstants, Control!Init PROVE ControlInv
<1> USE DEF Control!Init
<1>1. ControlScripts
  BY ControlCount DEF ControlScripts
<1>2. PICK v \in Value : cfg = [f \in Channel |-> v]
  OBVIOUS
<1>3. controlLeft = [fault |-> MaxFaults] /\ wr = [w \in Writer |-> Control!Off] /\ rd = [r \in Reader |-> 0] /\ limit = 0
  OBVIOUS
<1> HIDE DEF Control!Init
<1>4. ControlLimit
  BY <1>2, <1>3, ControlCount DEF ControlLimit
<1> QED BY <1>1, <1>4 DEF ControlInv

\* Ending a script changes whether it is alive and nothing else.
LEMMA ControlEnds ==
    ASSUME ControlScripts, NEW s, s = Control!Ended(script, cancel)
    PROVE  /\ s \in Seq(ControlScript) /\ Len(s) = Len(script)
           /\ \A i \in 1 .. Len(s) : s[i].n = script[i].n /\ s[i].action = script[i].action /\ ~s[i].alive
<1>0. script \in Seq(ControlScript) /\ cancel \in {0, Len(script)}
  BY DEF ControlScripts
<1>1. \A i \in 1 .. Len(script) : script[i] \in ControlScript /\ (script[i].alive => i = cancel)
  BY DEF ControlScripts
<1>2. CASE cancel = 0
  <2>1. s = script
    BY <1>2 DEF Control!Ended
  <2> QED BY <1>0, <1>1, <1>2, <2>1
<1>3. CASE cancel # 0
  <2>1. s = [script EXCEPT ![cancel].alive = FALSE] /\ cancel \in 1 .. Len(script) /\ script[cancel] \in ControlScript
    BY <1>0, <1>1, <1>3 DEF Control!Ended
  <2>2. [script[cancel] EXCEPT !.alive = FALSE] \in ControlScript
    BY <2>1 DEF ControlScript
  <2>3. s \in Seq(ControlScript) /\ Len(s) = Len(script)
    BY <1>0, <2>1, <2>2
  <2>4. \A i \in 1 .. Len(script) : s[i] = IF i = cancel THEN [script[cancel] EXCEPT !.alive = FALSE] ELSE script[i]
    BY <1>0, <2>1
  <2>5. ASSUME NEW i \in 1 .. Len(script)
        PROVE  s[i].n = script[i].n /\ s[i].action = script[i].action /\ ~s[i].alive
    BY <1>1, <2>1, <2>4 DEF ControlScript
  <2> QED BY <2>3, <2>5
<1> QED BY <1>2, <1>3

\* A new script cancels the one before it.
LEMMA ControlLaunch ==
    ASSUME ControlConstants, ControlScripts, NEW a \in {"run", "stop"}, Control!startServerScript(a)
    PROVE  ControlScripts'
<1>0. /\ script \in Seq(ControlScript) /\ cancel \in {0, Len(script)} /\ up' = up /\ up \subseteq 1 .. ControlLast
      /\ Len(script) \in Nat /\ ControlLast \in Nat \ {0}
  BY ControlCount DEF ControlScripts, Control!startServerScript
<1>1. PICK s : s = Control!Ended(script, cancel)
  OBVIOUS
<1>2. /\ s \in Seq(ControlScript) /\ Len(s) = Len(script)
      /\ \A i \in 1 .. Len(s) : s[i].n = script[i].n /\ s[i].action = script[i].action /\ ~s[i].alive
  BY <1>1, ControlEnds
<1>3. CASE script' = s /\ cancel' = 0 /\ last' = last
  <2>1. last' = "stop" => /\ Len(script') > 0 /\ script'[Len(script')].action = "stop"
                          /\ up' \subseteq (script'[Len(script')].n + 1) .. ControlLast
    BY <1>0, <1>2, <1>3 DEF ControlScripts
  <2> QED BY <1>0, <1>2, <1>3, <2>1 DEF ControlScripts, ControlLast
<1>4. CASE /\ script' = Append(s, [action |-> a, n |-> 0, alive |-> TRUE])
           /\ cancel' = Len(script) + 1 /\ last' = a
  <2> DEFINE e == [action |-> a, n |-> 0, alive |-> TRUE]
  <2>1. e \in ControlScript /\ e.n = 0 /\ e.action = a
    BY <1>0 DEF ControlScript
  <2>2. script' = Append(s, e)
    BY <1>4
  <2> HIDE DEF e
  <2>3. /\ script' \in Seq(ControlScript) /\ Len(script') = Len(script) + 1 /\ script'[Len(script) + 1] = e
        /\ \A i \in 1 .. Len(script) : script'[i] = s[i]
    BY <1>0, <1>2, <2>1, <2>2
  <2>4. ASSUME NEW i \in 1 .. Len(script'), script'[i].alive PROVE i = cancel' /\ script'[i].n < ControlLast
    <3>1. i \in 1 .. Len(script) \/ i = Len(script) + 1
      BY <1>0, <2>3
    <3> QED BY <1>0, <1>2, <1>4, <2>1, <2>3, <2>4, <3>1
  <2>5. last' = "stop" => /\ Len(script') > 0 /\ script'[Len(script')].action = "stop"
                          /\ up' \subseteq (script'[Len(script')].n + 1) .. ControlLast
    BY <1>0, <1>4, <2>1, <2>3
  <2> QED BY <1>0, <1>4, <2>3, <2>4, <2>5 DEF ControlScripts, ControlLast
<1> QED BY <1>1, <1>3, <1>4 DEF Control!startServerScript, Control!Cancelled

\* A script comes to its next service, or finds itself cancelled.
LEMMA ControlStops == ASSUME ControlConstants, ControlScripts, Control!stopServerScript PROVE ControlScripts'
<1>0. /\ script' = Control!Ended(script, cancel) /\ cancel' = 0 /\ last' = "none" /\ up' = up
  BY DEF Control!stopServerScript
<1>1. PICK s : s = Control!Ended(script, cancel)
  OBVIOUS
<1>2. /\ s \in Seq(ControlScript) /\ Len(s) = Len(script)
      /\ \A i \in 1 .. Len(s) : ~s[i].alive
  BY <1>1, ControlEnds
<1> QED BY <1>0, <1>1, <1>2 DEF ControlScripts, ControlLast

\* A script that runs is the last one: it starts or ends the next service.
LEMMA ControlScriptStep ==
    ASSUME ControlConstants, ControlScripts, NEW i \in DOMAIN script, Control!ScriptSteps(i)
    PROVE  ControlScripts'
<1>0. /\ script \in Seq(ControlScript) /\ i \in 1 .. Len(script) /\ script[i].alive /\ i = cancel /\ i = Len(script)
      /\ script[i] \in ControlScript /\ script[i].n < ControlLast /\ up \subseteq 1 .. ControlLast
  BY DEF ControlScripts, Control!ScriptSteps
<1> DEFINE n == script[i].n + 1
           r == [script[i] EXCEPT !.n = n, !.alive = n < ControlLast]
<1>1. /\ script' = [script EXCEPT ![i] = r] /\ cancel' = cancel /\ last' = last
      /\ up' = IF script[i].action = "run" THEN up \cup {n} ELSE up \ {n}
  BY ControlCount DEF Control!ScriptSteps
<1>2. n \in 1 .. ControlLast
  BY <1>0, ControlCount DEF ControlScript
<1>3. r \in ControlScript /\ r.n = n /\ r.action = script[i].action /\ (r.alive => n < ControlLast)
  <2>1. PICK b \in BOOLEAN : b = (n < ControlLast)
    <3>1. (n < ControlLast) \in BOOLEAN
      BY <1>2, ControlCount
    <3> HIDE DEF n
    <3> QED BY <3>1, Zenon
  <2>2. r = [script[i] EXCEPT !.n = n, !.alive = b]
    BY <2>1
  <2> HIDE DEF r
  <2>3. b => n < ControlLast
    BY <2>1
  <2>4. n \in 0 .. ControlLast
    BY <1>2
  <2> HIDE DEF n
  <2> QED BY <1>0, <2>2, <2>3, <2>4 DEF ControlScript
<1> HIDE DEF r, n
<1>4. script' \in Seq(ControlScript) /\ Len(script') = Len(script)
      /\ \A j \in 1 .. Len(script) : script'[j] = IF j = i THEN r ELSE script[j]
  BY <1>0, <1>1, <1>3
<1>5. \A j \in 1 .. Len(script') : script'[j].alive => j = cancel' /\ script'[j].n < ControlLast
  BY <1>0, <1>1, <1>3, <1>4 DEF ControlScripts
<1>6. up' \subseteq 1 .. ControlLast
  BY <1>0, <1>1, <1>2
<1>7. ASSUME last' = "stop"
      PROVE  /\ Len(script') > 0 /\ script'[Len(script')].action = "stop"
             /\ up' \subseteq (script'[Len(script')].n + 1) .. ControlLast
  <2>1. script[i].action = "stop" /\ up \subseteq (script[i].n + 1) .. ControlLast /\ Len(script) > 0
    BY <1>0, <1>1, <1>7 DEF ControlScripts
  <2>2. up' = up \ {n}
    BY <1>1, <2>1
  <2>3. script'[Len(script')] = r
    BY <1>0, <1>4
  <2>4. up' \subseteq (n + 1) .. ControlLast
    <3>1. n = script[i].n + 1 /\ script[i].n \in Nat /\ ControlLast \in Nat
      BY <1>0, ControlCount DEF n, ControlScript
    <3>2. ASSUME NEW x \in up' PROVE x \in (n + 1) .. ControlLast
      <4>1. x \in (script[i].n + 1) .. ControlLast /\ x # n
        BY <2>1, <2>2
      <4> QED BY <3>1, <4>1
    <3> QED BY <3>2
  <2> QED BY <1>3, <1>4, <2>1, <2>3, <2>4
<1>8. cancel' \in {0, Len(script')}
  BY <1>1, <1>4 DEF ControlScripts
<1> QED BY <1>4, <1>5, <1>6, <1>7, <1>8 DEF ControlScripts, ControlLast

\* A fault is spent or there is none.
LEMMA ControlFault ==
    ASSUME ControlConstants, ControlLimit, NEW bad \in BOOLEAN, Control!Fault(bad)
    PROVE  /\ controlLeft' = [fault |-> controlLeft'.fault] /\ controlLeft'.fault \in 0 .. MaxFaults
           /\ bad => controlLeft'.fault < MaxFaults /\ controlLeft.fault > 0
           /\ ~bad => controlLeft' = controlLeft
           /\ controlLeft'.fault <= controlLeft.fault
<1>0. controlLeft = [fault |-> controlLeft.fault] /\ controlLeft.fault \in 0 .. MaxFaults /\ MaxFaults \in Nat
  BY ControlCount DEF ControlLimit
<1>1. CASE bad
  <2>1. controlLeft.fault > 0 /\ controlLeft' = [controlLeft EXCEPT !.fault = @ - 1]
    BY <1>1 DEF Control!Fault
  <2>2. controlLeft' = [fault |-> controlLeft.fault - 1]
    BY <1>0, <2>1
  <2> QED BY <1>0, <1>1, <2>1, <2>2
<1>2. CASE ~bad
  BY <1>0, <1>2 DEF Control!Fault
<1> QED BY <1>1, <1>2

\* A step that leaves the files and the writers alone.
LEMMA ControlAside ==
    ASSUME ControlConstants, ControlLimit, UNCHANGED <<cfg, wr>>, DOMAIN rd' = Reader,
           controlLeft' = [fault |-> controlLeft'.fault], controlLeft'.fault \in 0 .. MaxFaults,
           controlLeft'.fault <= controlLeft.fault,
           (\A w \in Writer : wr[w] = Control!Off) /\ controlLeft'.fault = MaxFaults =>
             limit' \in {0, cfg[1]} /\ \A r \in Reader : rd'[r] \in {0, cfg[1]}
    PROVE  ControlLimit'
<1>1. cfg' \in [Channel -> Value] /\ DOMAIN wr' = Writer
  BY DEF ControlLimit
<1>2. MaxFaults \in Nat /\ controlLeft.fault \in 0 .. MaxFaults
  BY ControlCount DEF ControlLimit
<1>3. ASSUME NEW w \in Writer
      PROVE  \/ wr'[w] = Control!Off
             \/ wr'[w].pc = "write" /\ ControlWriting(w)'
             \/ wr'[w].pc = "undo" /\ ControlWriting(w)' /\ controlLeft'.fault < MaxFaults
  <2>1. ControlWriting(w)' <=> ControlWriting(w)
    BY DEF ControlWriting
  <2> QED BY <1>2, <2>1 DEF ControlLimit
<1>4. (\A w \in Writer : wr'[w] = Control!Off) =>
         /\ \A f, g \in Channel : cfg'[f] = cfg'[g]
         /\ controlLeft'.fault = MaxFaults => limit' \in {0, cfg'[1]} /\ \A r \in Reader : rd'[r] \in {0, cfg'[1]}
  BY DEF ControlLimit
<1> QED BY <1>1, <1>3, <1>4 DEF ControlLimit

\* Scripts and the limit share nothing but the faults.
LEMMA ControlScriptLimit ==
    ASSUME ControlConstants, ControlLimit,
           Control!handleServerScript \/ Control!stopServerScript \/ \E i \in DOMAIN script : Control!ScriptSteps(i)
    PROVE  ControlLimit'
<1>1. UNCHANGED <<cfg, wr, rd, limit>>
  BY DEF Control!handleServerScript, Control!startServerScript, Control!stopServerScript, Control!ScriptSteps, Control!limitVars
<1>2. \/ \E bad \in BOOLEAN : Control!Fault(bad)
      \/ controlLeft' = controlLeft
  BY DEF Control!handleServerScript, Control!startServerScript, Control!stopServerScript, Control!ScriptSteps
<1>3. /\ controlLeft' = [fault |-> controlLeft'.fault] /\ controlLeft'.fault \in 0 .. MaxFaults
      /\ controlLeft'.fault <= controlLeft.fault
  <2>1. CASE controlLeft' = controlLeft
    BY <2>1, ControlCount DEF ControlLimit
  <2> QED BY <1>2, <2>1, ControlFault
<1>4. controlLeft.fault \in 0 .. MaxFaults /\ MaxFaults \in Nat
  BY ControlCount DEF ControlLimit
<1>5. controlLeft'.fault = MaxFaults => controlLeft.fault = MaxFaults
  BY <1>3, <1>4
<1>6. DOMAIN rd' = Reader
  BY <1>1 DEF ControlLimit
<1>7. (\A w \in Writer : wr[w] = Control!Off) /\ controlLeft'.fault = MaxFaults =>
         limit' \in {0, cfg[1]} /\ \A r \in Reader : rd'[r] \in {0, cfg[1]}
  BY <1>1, <1>5 DEF ControlLimit
<1> QED BY <1>1, <1>3, <1>6, <1>7, ControlAside

\* The readers and the time that a limit is remembered.
LEMMA ControlReads ==
    ASSUME ControlConstants, ControlLimit,
           (\E r \in Reader : Control!readGameMaxUserNum(r) \/ Control!gameMaxUserNum(r)) \/ Control!CacheExpires
    PROVE  ControlLimit'
<1>0. /\ UNCHANGED <<cfg, wr, controlLeft>> /\ DOMAIN rd = Reader /\ controlLeft.fault \in 0 .. MaxFaults
      /\ controlLeft = [fault |-> controlLeft.fault] /\ MaxFaults \in Nat
  BY ControlCount DEF Control!readGameMaxUserNum, Control!gameMaxUserNum, Control!CacheExpires, ControlLimit
<1>a. ASSUME \A w \in Writer : wr[w] = Control!Off, controlLeft.fault = MaxFaults
      PROVE  limit \in {0, cfg[1]} /\ \A r \in Reader : rd[r] \in {0, cfg[1]}
  BY <1>a DEF ControlLimit
<1>1. ASSUME NEW r \in Reader, Control!readGameMaxUserNum(r) PROVE ControlLimit'
  <2>1. rd' = [rd EXCEPT ![r] = cfg[1]] /\ limit' = limit
    BY <1>1 DEF Control!readGameMaxUserNum
  <2>2. DOMAIN rd' = Reader /\ \A q \in Reader : rd'[q] = IF q = r THEN cfg[1] ELSE rd[q]
    BY <1>0, <2>1
  <2> QED BY <1>0, <1>a, <2>1, <2>2, ControlAside
<1>2. ASSUME NEW r \in Reader, Control!gameMaxUserNum(r) PROVE ControlLimit'
  <2>1. rd' = [rd EXCEPT ![r] = 0] /\ limit' = rd[r]
    BY <1>2 DEF Control!gameMaxUserNum
  <2>2. DOMAIN rd' = Reader /\ \A q \in Reader : rd'[q] = IF q = r THEN 0 ELSE rd[q]
    BY <1>0, <2>1
  <2> QED BY <1>0, <1>a, <2>1, <2>2, ControlAside
<1>3. CASE Control!CacheExpires
  <2>1. rd' = rd /\ limit' = 0
    BY <1>3 DEF Control!CacheExpires
  <2> QED BY <1>0, <1>a, <2>1, ControlAside
<1> QED BY <1>1, <1>2, <1>3

\* One writer is all of them.
LEMMA ControlBusy ==
    ASSUME ControlConstants, NEW w \in Writer, DOMAIN wr' = Writer, wr'[w] # Control!Off,
           cfg' \in [Channel -> Value], DOMAIN rd' = Reader,
           controlLeft' = [fault |-> controlLeft'.fault], controlLeft'.fault \in 0 .. MaxFaults,
           \/ wr'[w].pc = "write" /\ ControlWriting(w)'
           \/ wr'[w].pc = "undo" /\ ControlWriting(w)' /\ controlLeft'.fault < MaxFaults
    PROVE  ControlLimit'
<1>1. \A v \in Writer : v = w
  BY DEF ControlConstants
<1> QED BY <1>1 DEF ControlLimit

\* A request reads the limits it may have to put back.
LEMMA ControlBegins ==
    ASSUME ControlConstants, ControlLimit, NEW w \in Writer, Control!writeMaxUserNum(w) PROVE ControlLimit'
<1>0. /\ wr[w] = Control!Off /\ UNCHANGED <<cfg, rd, limit, controlLeft>> /\ cfg \in [Channel -> Value]
      /\ DOMAIN wr = Writer /\ DOMAIN rd = Reader
      /\ controlLeft = [fault |-> controlLeft.fault] /\ controlLeft.fault \in 0 .. MaxFaults
  BY DEF Control!writeMaxUserNum, ControlLimit
<1>1. PICK v \in Value : wr' = [wr EXCEPT ![w] = [pc |-> "write", to |-> v, orig |-> cfg, done |-> <<>>]]
  BY DEF Control!writeMaxUserNum
<1>2. DOMAIN wr' = Writer /\ wr'[w] = [pc |-> "write", to |-> v, orig |-> cfg, done |-> <<>>]
  BY <1>0, <1>1
<1>3. \A f, g \in Channel : cfg[f] = cfg[g]
  <2>1. \A u \in Writer : wr[u] = Control!Off
    BY <1>0 DEF ControlConstants
  <2> QED BY <2>1 DEF ControlLimit
<1>4. wr'[w].pc = "write" /\ wr'[w].to = v /\ wr'[w].orig = cfg /\ wr'[w].done = <<>>
  BY <1>2
<1>5. ControlWriting(w)'
  BY <1>0, <1>2, <1>3, <1>4 DEF ControlWriting
<1>6. wr'[w] # Control!Off
  BY <1>4 DEF Control!Off
<1> QED BY <1>0, <1>2, <1>4, <1>5, <1>6, ControlBusy

\* One channel's file is written, or the write fails.
LEMMA ControlWrites ==
    ASSUME ControlConstants, ControlLimit, NEW w \in Writer, Control!WriteFile(w) PROVE ControlLimit'
<1>0. /\ wr[w].pc = "write" /\ UNCHANGED <<rd, limit>> /\ cfg \in [Channel -> Value]
      /\ DOMAIN wr = Writer /\ DOMAIN rd = Reader
  BY DEF Control!WriteFile, ControlLimit
<1>1. ControlWriting(w)
  BY <1>0 DEF ControlLimit, Control!Off
<1>b. PICK f : f = CHOOSE f1 \in Control!ToWrite(w) : \A g \in Control!ToWrite(w) : f1 <= g
  OBVIOUS
<1>2. PICK bad \in BOOLEAN :
        /\ Control!Fault(bad)
        /\ cfg' = IF bad THEN cfg ELSE [cfg EXCEPT ![f] = wr[w].to]
        /\ wr' = IF bad THEN [wr EXCEPT ![w].pc = "undo"] ELSE [wr EXCEPT ![w].done = Append(wr[w].done, f)]
  BY <1>b DEF Control!WriteFile
<1>3. f \in Control!ToWrite(w)
  <2>1. Control!ToWrite(w) # {} /\ Control!ToWrite(w) \subseteq Nat
    BY DEF Control!WriteFile, Control!ToWrite, ControlConstants
  <2>2. \E m \in Control!ToWrite(w) : \A g \in Control!ToWrite(w) : m <= g
    BY <2>1, LeastNat
  <2> QED BY <1>b, <2>2
<1>4. f \in Channel /\ \A i \in 1 .. Len(wr[w].done) : wr[w].done[i] # f
  <2>1. DOMAIN wr[w].done = 1 .. Len(wr[w].done)
    BY <1>1 DEF ControlWriting
  <2> QED BY <1>3, <2>1 DEF Control!ToWrite
<1>5. /\ controlLeft' = [fault |-> controlLeft'.fault] /\ controlLeft'.fault \in 0 .. MaxFaults
      /\ bad => controlLeft'.fault < MaxFaults
  BY <1>2, ControlFault
<1>6. /\ wr[w].to \in Value /\ wr[w].orig \in [Channel -> Value] /\ wr[w].done \in Seq(Channel)
      /\ wr[w] = [pc |-> "write", to |-> wr[w].to, orig |-> wr[w].orig, done |-> wr[w].done]
  BY <1>0, <1>1 DEF ControlWriting
<1>7. CASE bad
  <2>1. DOMAIN wr' = Writer /\ wr'[w] = [wr[w] EXCEPT !.pc = "undo"] /\ cfg' = cfg
    BY <1>0, <1>2, <1>7
  <2>2. /\ wr'[w] = [pc |-> "undo", to |-> wr[w].to, orig |-> wr[w].orig, done |-> wr[w].done]
    BY <1>6, <2>1
  <2>3. wr'[w].pc = "undo" /\ wr'[w].to = wr[w].to /\ wr'[w].orig = wr[w].orig /\ wr'[w].done = wr[w].done
    BY <2>2
  <2>4. ControlWriting(w)'
    BY <1>1, <2>1, <2>2, <2>3 DEF ControlWriting
  <2>5. wr'[w] # Control!Off
    BY <2>3 DEF Control!Off
  <2> QED BY <1>0, <1>5, <1>7, <2>1, <2>3, <2>4, <2>5, ControlBusy
<1>8. CASE ~bad
  <2>1. DOMAIN wr' = Writer /\ wr'[w] = [wr[w] EXCEPT !.done = Append(wr[w].done, f)] /\ cfg' = [cfg EXCEPT ![f] = wr[w].to]
    BY <1>0, <1>2, <1>8
  <2>2. wr'[w] = [pc |-> "write", to |-> wr[w].to, orig |-> wr[w].orig, done |-> Append(wr[w].done, f)]
    <3>1. PICK a : a = Append(wr[w].done, f)
      OBVIOUS
    <3>2. wr'[w] = [wr[w] EXCEPT !.done = a]
      BY <2>1, <3>1
    <3>3. wr'[w] = [pc |-> "write", to |-> wr[w].to, orig |-> wr[w].orig, done |-> a]
      BY <1>6, <3>2
    <3> QED BY <3>1, <3>3
  <2>3. wr'[w].pc = "write" /\ wr'[w].to = wr[w].to /\ wr'[w].orig = wr[w].orig /\ wr'[w].done = Append(wr[w].done, f)
    BY <2>2
  <2> DEFINE d == wr[w].done
             e == wr'[w].done
  <2>4. /\ e \in Seq(Channel) /\ Len(e) = Len(d) + 1 /\ Len(d) \in Nat /\ e[Len(d) + 1] = f
        /\ \A i \in 1 .. Len(d) : e[i] = d[i]
    BY <1>4, <1>6, <2>3
  <2>5. \A i \in 1 .. Len(e) : i \in 1 .. Len(d) \/ i = Len(d) + 1
    BY <2>4
  <2>a. /\ \A i \in 1 .. Len(d) : d[i] # f
        /\ \A i, j \in 1 .. Len(d) : d[i] = d[j] => i = j
        /\ \A g \in Channel : cfg[g] = IF \E i \in 1 .. Len(d) : d[i] = g THEN wr[w].to ELSE wr[w].orig[g]
    BY <1>1, <1>4 DEF ControlWriting
  <2> HIDE DEF d, e
  <2>6. \A i, j \in 1 .. Len(e) : e[i] = e[j] => i = j
    BY <2>4, <2>5, <2>a
  <2>7. \A g \in Channel : (\E i \in 1 .. Len(e) : e[i] = g) <=> (g = f \/ \E i \in 1 .. Len(d) : d[i] = g)
    <3>1. \A i \in 1 .. Len(d) : i \in 1 .. Len(e)
      BY <2>4
    <3>2. Len(d) + 1 \in 1 .. Len(e)
      BY <2>4
    <3> QED BY <2>4, <2>5, <3>1, <3>2
  <2>8. /\ cfg' \in [Channel -> Value] /\ \A g \in Channel : cfg'[g] = IF g = f THEN wr[w].to ELSE cfg[g]
    BY <1>0, <1>4, <1>6, <2>1
  <2>9. \A g \in Channel : cfg'[g] = IF \E i \in 1 .. Len(e) : e[i] = g THEN wr[w].to ELSE wr[w].orig[g]
    BY <2>7, <2>8, <2>a
  <2>10. ControlWriting(w)'
    BY <1>1, <2>2, <2>3, <2>4, <2>6, <2>9 DEF ControlWriting, e
  <2>11. wr'[w] # Control!Off
    BY <2>3 DEF Control!Off
  <2> QED BY <1>0, <1>5, <2>1, <2>3, <2>8, <2>10, <2>11, ControlBusy
<1> QED BY <1>7, <1>8

\* What was written is put back.
LEMMA ControlRollback ==
    ASSUME ControlConstants, ControlLimit, NEW w \in Writer, Control!Rollback(w) PROVE ControlLimit'
<1>0. /\ wr[w].pc = "undo" /\ UNCHANGED <<rd, limit>> /\ cfg \in [Channel -> Value]
      /\ DOMAIN wr = Writer /\ DOMAIN rd = Reader
      /\ controlLeft = [fault |-> controlLeft.fault] /\ controlLeft.fault \in 0 .. MaxFaults
  BY DEF Control!Rollback, ControlLimit
<1>1. ControlWriting(w) /\ controlLeft.fault < MaxFaults
  BY <1>0 DEF ControlLimit, Control!Off
<1> DEFINE d == wr[w].done
<1>2. /\ wr[w].to \in Value /\ wr[w].orig \in [Channel -> Value] /\ d \in Seq(Channel)
      /\ wr[w] = [pc |-> "undo", to |-> wr[w].to, orig |-> wr[w].orig, done |-> d]
      /\ \A i, j \in 1 .. Len(d) : d[i] = d[j] => i = j
      /\ \A g \in Channel : cfg[g] = IF \E i \in 1 .. Len(d) : d[i] = g THEN wr[w].to ELSE wr[w].orig[g]
      /\ \A f, g \in Channel : wr[w].orig[f] = wr[w].orig[g]
  BY <1>0, <1>1 DEF ControlWriting
<1>a. controlLeft.fault = 0
  BY <1>0, <1>1, ControlCount
<1>3. CASE d = <<>>
  <2>1. wr' = [wr EXCEPT ![w] = Control!Off] /\ cfg' = cfg /\ controlLeft' = controlLeft
    BY <1>3 DEF Control!Rollback, Control!Undone
  <2>2. DOMAIN wr' = Writer /\ \A v \in Writer : wr'[v] = Control!Off
    BY <1>0, <2>1 DEF ControlConstants
  <2>3. \A f, g \in Channel : cfg'[f] = cfg'[g]
    BY <1>2, <1>3, <2>1
  <2> QED BY <1>0, <1>1, <2>1, <2>2, <2>3 DEF ControlLimit
<1>4. CASE d # <<>>
  <2>1. PICK bad \in BOOLEAN :
          /\ Control!Fault(bad)
          /\ cfg' = IF bad THEN cfg ELSE [cfg EXCEPT ![d[Len(d)]] = wr[w].orig[d[Len(d)]]]
          /\ wr' = [wr EXCEPT ![w].done = SubSeq(d, 1, Len(d) - 1)]
    BY <1>4 DEF Control!Rollback, Control!Undone
  <2>2. ~bad /\ controlLeft' = controlLeft
    BY <1>a, <2>1, ControlFault
  <2>3. Len(d) \in Nat /\ Len(d) > 0 /\ d[Len(d)] \in Channel
    BY <1>2, <1>4
  <2> DEFINE f == d[Len(d)]
             e == SubSeq(d, 1, Len(d) - 1)
  <2>4. DOMAIN wr' = Writer /\ wr'[w] = [wr[w] EXCEPT !.done = e] /\ cfg' = [cfg EXCEPT ![f] = wr[w].orig[f]]
    BY <1>0, <2>1, <2>2
  <2>5. e \in Seq(Channel) /\ Len(e) = Len(d) - 1 /\ \A i \in 1 .. Len(e) : e[i] = d[i]
    BY <1>2, <2>3
  <2>6. wr'[w] = [pc |-> "undo", to |-> wr[w].to, orig |-> wr[w].orig, done |-> e]
    <3> HIDE DEF d, e
    <3> QED BY <1>2, <2>4
  <2>7. wr'[w].pc = "undo" /\ wr'[w].to = wr[w].to /\ wr'[w].orig = wr[w].orig /\ wr'[w].done = e
    BY <2>6
  <2>b. f \in Channel /\ f = d[Len(d)]
    BY <2>3
  <2> HIDE DEF d, e, f
  <2>8. \A g \in Channel : (\E i \in 1 .. Len(e) : e[i] = g) <=> (g # f /\ \E i \in 1 .. Len(d) : d[i] = g)
    <3>1. \A i \in 1 .. Len(e) : i \in 1 .. Len(d) /\ i # Len(d)
      BY <2>3, <2>5
    <3>2. \A i \in 1 .. Len(d) : i = Len(d) \/ i \in 1 .. Len(e)
      BY <2>3, <2>5
    <3>3. Len(d) \in 1 .. Len(d)
      BY <2>3
    <3>4. \A i, j \in 1 .. Len(d) : d[i] = d[j] => i = j
      BY <1>2
    <3>5. ASSUME NEW g \in Channel, NEW i \in 1 .. Len(e), e[i] = g
          PROVE  g # f /\ \E j \in 1 .. Len(d) : d[j] = g
      <4>1. i \in 1 .. Len(d) /\ i # Len(d) /\ d[i] = g
        BY <2>5, <3>1, <3>5
      <4> QED BY <2>b, <3>3, <3>4, <4>1
    <3>6. ASSUME NEW g \in Channel, NEW i \in 1 .. Len(d), d[i] = g, g # f
          PROVE  \E j \in 1 .. Len(e) : e[j] = g
      BY <2>5, <2>b, <3>2, <3>6
    <3> QED BY <3>5, <3>6
  <2>9. cfg' \in [Channel -> Value] /\ \A g \in Channel : cfg'[g] = IF g = f THEN wr[w].orig[f] ELSE cfg[g]
    BY <1>0, <1>2, <2>4, <2>b
  <2>10. \A g \in Channel : cfg'[g] = IF \E i \in 1 .. Len(e) : e[i] = g THEN wr[w].to ELSE wr[w].orig[g]
    BY <1>2, <2>8, <2>9
  <2>11. \A i, j \in 1 .. Len(e) : e[i] = e[j] => i = j
    <3>1. \A i \in 1 .. Len(e) : i \in 1 .. Len(d)
      BY <2>3, <2>5
    <3>2. \A i, j \in 1 .. Len(d) : d[i] = d[j] => i = j
      BY <1>2
    <3> SUFFICES ASSUME NEW i \in 1 .. Len(e), NEW j \in 1 .. Len(e), e[i] = e[j] PROVE i = j
      OBVIOUS
    <3>3. i \in 1 .. Len(d) /\ j \in 1 .. Len(d) /\ d[i] = e[i] /\ d[j] = e[j]
      BY <2>5, <3>1
    <3> QED BY <3>2, <3>3
  <2>12. ControlWriting(w)'
    BY <1>2, <2>5, <2>6, <2>7, <2>10, <2>11 DEF ControlWriting
  <2>13. wr'[w] # Control!Off
    BY <2>7 DEF Control!Off
  <2> QED BY <1>0, <1>1, <2>2, <2>4, <2>7, <2>9, <2>12, <2>13, ControlBusy
<1> QED BY <1>3, <1>4

\* The cached limit is forgotten, and read again.
LEMMA ControlInvalidates ==
    ASSUME ControlConstants, ControlLimit, NEW w \in Writer, Control!invalidateGameMaxUserCache(w) PROVE ControlLimit'
<1>0. /\ wr[w].pc = "write" /\ UNCHANGED <<cfg, rd, controlLeft>> /\ cfg \in [Channel -> Value]
      /\ DOMAIN wr = Writer /\ DOMAIN rd = Reader /\ limit' = 0 /\ Control!ToWrite(w) = {}
      /\ controlLeft = [fault |-> controlLeft.fault] /\ controlLeft.fault \in 0 .. MaxFaults
      /\ wr' = [wr EXCEPT ![w] = Control!Off] /\ \A r \in Reader : rd[r] = 0
  BY DEF Control!invalidateGameMaxUserCache, ControlLimit, Control!NobodyReads
<1>1. ControlWriting(w)
  BY <1>0 DEF ControlLimit, Control!Off
<1>2. DOMAIN wr' = Writer /\ \A v \in Writer : wr'[v] = Control!Off
  BY <1>0 DEF ControlConstants
<1>3. \A f \in Channel : cfg[f] = wr[w].to
  <2>1. DOMAIN wr[w].done = 1 .. Len(wr[w].done)
    BY <1>1 DEF ControlWriting
  <2>2. \A f \in Channel : wr[w].orig[f] # wr[w].to => \E i \in 1 .. Len(wr[w].done) : wr[w].done[i] = f
    BY <1>0, <2>1 DEF Control!ToWrite
  <2> QED BY <1>1, <2>2 DEF ControlWriting
<1> QED BY <1>0, <1>2, <1>3 DEF ControlLimit

\* Every step keeps the scripts in order and the limits together.
LEMMA ControlStep == ASSUME ControlConstants, ControlInv, [Control!Next]_(Control!vars) PROVE ControlInv'
<1>0. ControlScripts /\ ControlLimit
  BY DEF ControlInv
<1>1. CASE UNCHANGED Control!vars
  <2>1. UNCHANGED <<script, cancel, last, up, cfg, wr, rd, limit, controlLeft>>
    BY <1>1 DEF Control!vars
  <2>2. ControlScripts'
    BY <1>0, <2>1 DEF ControlScripts, ControlScript, ControlLast
  <2>3. /\ DOMAIN rd' = Reader /\ controlLeft' = [fault |-> controlLeft'.fault] /\ controlLeft'.fault \in 0 .. MaxFaults
        /\ controlLeft'.fault <= controlLeft.fault
    BY <1>0, <2>1, ControlCount DEF ControlLimit
  <2>4. (\A w \in Writer : wr[w] = Control!Off) /\ controlLeft'.fault = MaxFaults =>
             limit' \in {0, cfg[1]} /\ \A r \in Reader : rd'[r] \in {0, cfg[1]}
    BY <1>0, <2>1 DEF ControlLimit
  <2> QED BY <1>0, <2>1, <2>2, <2>3, <2>4, ControlAside DEF ControlInv
<1>2. CASE Control!handleServerScript
  <2>1. ControlLimit'
    BY <1>0, <1>2, ControlScriptLimit
  <2>2. ControlScripts'
    BY <1>0, <1>2, ControlLaunch DEF Control!handleServerScript
  <2> QED BY <2>1, <2>2 DEF ControlInv
<1>3. CASE Control!stopServerScript
  <2>1. ControlLimit'
    BY <1>0, <1>3, ControlScriptLimit
  <2> QED BY <1>0, <1>3, <2>1, ControlStops DEF ControlInv
<1>4. CASE \E i \in DOMAIN script : Control!ScriptSteps(i)
  <2>1. ControlLimit'
    BY <1>0, <1>4, ControlScriptLimit
  <2>2. ControlScripts'
    BY <1>0, <1>4, ControlScriptStep
  <2> QED BY <2>1, <2>2 DEF ControlInv
<1>5. ASSUME UNCHANGED <<script, cancel, last, up>> PROVE ControlScripts'
  BY <1>0, <1>5 DEF ControlScripts, ControlScript, ControlLast
<1>6. ASSUME NEW w \in Writer, \/ Control!writeMaxUserNum(w) \/ Control!WriteFile(w) \/ Control!Rollback(w)
                               \/ Control!invalidateGameMaxUserCache(w)
      PROVE  ControlInv'
  <2>1. UNCHANGED <<script, cancel, last, up>>
    BY <1>6 DEF Control!writeMaxUserNum, Control!WriteFile, Control!Rollback, Control!invalidateGameMaxUserCache,
         Control!scriptVars
  <2>2. ControlLimit'
    BY <1>0, <1>6, ControlBegins, ControlWrites, ControlRollback, ControlInvalidates
  <2> QED BY <1>5, <2>1, <2>2 DEF ControlInv
<1>7. CASE (\E r \in Reader : Control!readGameMaxUserNum(r) \/ Control!gameMaxUserNum(r)) \/ Control!CacheExpires
  <2>1. UNCHANGED <<script, cancel, last, up>>
    BY <1>7 DEF Control!readGameMaxUserNum, Control!gameMaxUserNum, Control!CacheExpires, Control!scriptVars
  <2>2. ControlLimit'
    BY <1>0, <1>7, ControlReads
  <2> QED BY <1>5, <2>1, <2>2 DEF ControlInv
<1> QED BY <1>1, <1>2, <1>3, <1>4, <1>6, <1>7 DEF Control!Next

\* The scripts of the web administration and the player limit of the channels: a stop
\* wins over every script before it, and a limit reaches all files or none, and
\* whoever remembered the old one, whichever single write fails (game_control.go).
THEOREM ControlAllOrNothing ==
    ASSUME ControlConstants
    PROVE  Control!Spec => [](Control!StopWins /\ Control!LimitTogether)
<1>1. Control!Init => ControlInv
  BY ControlInit
<1>2. ControlInv /\ [Control!Next]_(Control!vars) => ControlInv'
  BY ControlStep
<1>3. ControlInv => Control!StopWins
  <2>1. ASSUME ControlScripts, last = "stop", script[Len(script)].n = ControlLast PROVE up = {}
    <3>1. up \subseteq (ControlLast + 1) .. ControlLast /\ ControlLast \in Nat
      BY <2>1, ControlCount DEF ControlScripts
    <3>2. \A x \in (ControlLast + 1) .. ControlLast : FALSE
      BY <3>1
    <3> QED BY <3>1, <3>2
  <2> QED BY <2>1, ControlCount DEF ControlInv, Control!StopWins
<1>4. ControlInv => Control!LimitTogether
  BY DEF ControlInv, ControlLimit, Control!LimitTogether
<1> QED BY <1>1, <1>2, <1>3, <1>4, PTL DEF Control!Spec

-----------------------------------------------------------------------------
(* Deploy: what is installed.                                              *)

DeployFile(f) == f = [ver |-> f.ver, whole |-> f.whole] /\ f.whole \in BOOLEAN

\* How far an operation is, and what that means for the host: the uploaded program has
\* the operation's version and, once its size is checked, is whole; nothing runs when it
\* is moved into place; and from then on only it runs.
DeployAt(c, kind, ver) ==
    /\ c \in {"upload", "sent", "size", "backup", "move", "config"} => kind = "deploy"
    /\ kind = "deploy" =>
         /\ c \in {"sent", "size", "backup", "term", "check", "kill", "again", "move"} => new.ver = ver
         /\ c \in {"backup", "term", "check", "kill", "again", "move"} => new.whole = TRUE
         /\ c = "move" => procs = {}
         /\ c \in {"config", "start", "ports", "main", "sink", "listen"} =>
              robot.ver = ver /\ \A p \in procs : p.ver = ver

DeployLine(r) ==
    /\ r = [pc |-> r.pc, kind |-> r.kind, ver |-> r.ver, fresh |-> r.fresh, found |-> r.found, tries |-> r.tries]
    /\ DeployAt(r.pc, r.kind, r.ver)

DeployHost == DeployFile(new) /\ DeployFile(robot) /\ robot.whole = TRUE

DeployBaks ==
    /\ config \in Int /\ next \in Int /\ moved \in Seq(Int) /\ configBaks \in Seq(Int)
    /\ \A i \in 1 .. Len(moved) : i <= Keep => i <= Len(configBaks) /\ configBaks[i] = moved[i]

DeployInv ==
    /\ DeployHost /\ DeployBaks /\ DOMAIN launch = Launcher
    /\ \A l \in Launcher : DeployLine(launch[l])

\* No operation runs.
LEMMA DeployIdle == ASSUME DeployHost PROVE DeployLine(Deployment!Idle)
<1>1. PICK r : r = Deployment!Idle
  OBVIOUS
<1>2. r = [pc |-> "idle", kind |-> "none", ver |-> 0, fresh |-> FALSE, found |-> {}, tries |-> 0]
  BY <1>1 DEF Deployment!Idle
<1>3. /\ r = [pc |-> r.pc, kind |-> r.kind, ver |-> r.ver, fresh |-> r.fresh, found |-> r.found, tries |-> r.tries]
      /\ r.pc = "idle" /\ r.kind = "none"
  BY <1>2
<1> QED BY <1>1, <1>3 DEF DeployLine, DeployAt

\* Nothing is torn at first.
LEMMA DeployInit == ASSUME DeployConstants, Deployment!Init PROVE DeployInv
<1>1. DeployHost
  <2>1. new = [ver |-> 0, whole |-> FALSE] /\ robot = [ver |-> 1, whole |-> TRUE]
    BY DEF Deployment!Init, Deployment!NoFile
  <2> QED BY <2>1 DEF DeployHost, DeployFile
<1>2. DeployBaks
  <2>1. config = 1 /\ next = 2 /\ moved = <<>> /\ configBaks = <<>>
    BY DEF Deployment!Init
  <2> QED BY <2>1 DEF DeployBaks
<1>3. launch = [l \in Launcher |-> Deployment!Idle]
  BY DEF Deployment!Init
<1> QED BY <1>1, <1>2, <1>3, DeployIdle DEF DeployInv

\* A window's own step: what it is at fits the host afterwards.
LEMMA DeployOwn ==
    ASSUME DeployConstants, DeployInv, NEW l \in Launcher, NEW r, launch' = [launch EXCEPT ![l] = r],
           DeployHost', DeployBaks', DeployLine(r)'
    PROVE  DeployInv'
<1>1. DOMAIN launch' = Launcher /\ launch'[l] = r
  BY DEF DeployInv
<1>2. \A m \in Launcher : launch'[m] = r
  BY <1>1 DEF DeployConstants
<1> QED BY <1>1, <1>2 DEF DeployInv

\* An operation ends, whatever it has changed.
LEMMA DeployFinish ==
    ASSUME DeployConstants, DeployInv, NEW l \in Launcher, Deployment!Finish(l), DeployHost', DeployBaks'
    PROVE  DeployInv'
<1>1. launch' = [launch EXCEPT ![l] = Deployment!Idle]
  BY DEF Deployment!Finish
<1>2. DeployLine(Deployment!Idle)'
  BY DeployIdle, PTL
<1> QED BY <1>1, <1>2, DeployOwn

\* An operation goes on to the next statement.
LEMMA DeployTo ==
    ASSUME DeployConstants, DeployInv, NEW l \in Launcher, NEW c, Deployment!To(l, c), DeployHost', DeployBaks',
           NEW o, o = launch[l], NEW k, k = o.kind, NEW v, v = o.ver, DeployAt(c, k, v)'
    PROVE  DeployInv'
<1>1. PICK r : r = [o EXCEPT !.pc = c]
  OBVIOUS
<1>2. launch' = [launch EXCEPT ![l] = r]
  BY <1>1 DEF Deployment!To
<1>3. o = [pc |-> o.pc, kind |-> o.kind, ver |-> o.ver, fresh |-> o.fresh, found |-> o.found, tries |-> o.tries]
  BY DEF DeployInv, DeployLine
<1>4. r = [pc |-> c, kind |-> o.kind, ver |-> o.ver, fresh |-> o.fresh, found |-> o.found, tries |-> o.tries]
  BY <1>1, <1>3
<1>5. /\ r = [pc |-> r.pc, kind |-> r.kind, ver |-> r.ver, fresh |-> r.fresh, found |-> r.found, tries |-> r.tries]
      /\ r.pc = c /\ r.kind = o.kind /\ r.ver = o.ver
  BY <1>4
<1>6. DeployLine(r)'
  <2>1. DeployAt(r.pc, r.kind, r.ver)'
    BY <1>5 DEF DeployAt
  <2> QED BY <1>5, <2>1 DEF DeployLine
<1> QED BY <1>2, <1>6, DeployOwn

\* What a step leaves alone.
LEMMA DeployHostSame == ASSUME DeployHost, UNCHANGED <<new, robot>> PROVE DeployHost'
  BY DEF DeployHost, DeployFile

\* A step that leaves the copies alone.
LEMMA DeployBaksSame == ASSUME DeployBaks, UNCHANGED <<config, configBaks, moved, next>> PROVE DeployBaks'
  BY DEF DeployBaks

\* The window and the upload.
LEMMA DeployUploads ==
    ASSUME DeployConstants, DeployInv, NEW l \in Launcher,
           \/ Deployment!startOperation(l) \/ Deployment!sshConnectWithRetry(l) \/ Deployment!WindowCloses(l)
           \/ Deployment!uploadFile(l) \/ Deployment!Uploaded(l) \/ Deployment!CheckSize(l) \/ Deployment!Backup(l)
    PROVE  DeployInv'
<1>0. DeployHost /\ DeployBaks /\ DeployLine(launch[l])
  BY DEF DeployInv
<1>1. PICK o : o = launch[l]
  OBVIOUS
<1>2. PICK k, v : k = o.kind /\ v = o.ver
  OBVIOUS
<1>2a. DeployAt(o.pc, k, v)
  BY <1>0, <1>1, <1>2 DEF DeployLine
<1>3. CASE Deployment!startOperation(l)
  <2>1. UNCHANGED <<new, robot, config, configBaks, moved, procs, next>>
    BY <1>3 DEF Deployment!startOperation, Deployment!hostVars
  <2>2. PICK kind \in {"deploy", "restart"}, x \in 1 .. MaxVersions, ini \in Ini :
          launch' = [launch EXCEPT ![l] = [Deployment!Idle EXCEPT
                       !.pc = "connect", !.kind = kind,
                       !.ver = IF kind = "deploy" THEN x ELSE 0, !.fresh = Deployment!FreshInstall(ini)]]
    BY <1>3 DEF Deployment!startOperation
  <2>3. PICK a, b, r : /\ a = (IF kind = "deploy" THEN x ELSE 0) /\ b = Deployment!FreshInstall(ini)
                       /\ r = [Deployment!Idle EXCEPT !.pc = "connect", !.kind = kind, !.ver = a, !.fresh = b]
    OBVIOUS
  <2>4. launch' = [launch EXCEPT ![l] = r]
    BY <2>2, <2>3
  <2>5. r = [pc |-> "connect", kind |-> kind, ver |-> a, fresh |-> b, found |-> {}, tries |-> 0]
    <3>1. r = [[pc |-> "idle", kind |-> "none", ver |-> 0, fresh |-> FALSE, found |-> {}, tries |-> 0] EXCEPT
                  !.pc = "connect", !.kind = kind, !.ver = a, !.fresh = b]
      BY <2>3 DEF Deployment!Idle
    <3> QED BY <3>1
  <2>6. /\ r = [pc |-> r.pc, kind |-> r.kind, ver |-> r.ver, fresh |-> r.fresh, found |-> r.found, tries |-> r.tries]
        /\ r.pc = "connect"
    BY <2>5
  <2>7. DeployLine(r)'
    BY <2>6 DEF DeployLine, DeployAt
  <2> QED BY <1>0, <2>1, <2>4, <2>7, DeployOwn, DeployHostSame, DeployBaksSame
<1>4. CASE Deployment!sshConnectWithRetry(l)
  <2>1. UNCHANGED <<new, robot, config, configBaks, moved, procs, next>>
    BY <1>4 DEF Deployment!sshConnectWithRetry, Deployment!hostVars
  <2>2. \/ Deployment!Finish(l)
        \/ Deployment!To(l, "upload") /\ o.kind = "deploy"
        \/ Deployment!To(l, "term") /\ o.kind # "deploy"
    BY <1>1, <1>4 DEF Deployment!sshConnectWithRetry
  <2>3. DeployHost' /\ DeployBaks'
    BY <1>0, <2>1, DeployHostSame, DeployBaksSame
  <2>4. CASE Deployment!Finish(l)
    BY <2>3, <2>4, DeployFinish
  <2>5. CASE Deployment!To(l, "upload") /\ o.kind = "deploy"
    <3>1. DeployAt("upload", k, v)'
      BY <1>2, <2>5 DEF DeployAt
    <3> QED BY <1>1, <1>2, <2>3, <2>5, <3>1, DeployTo
  <2>6. CASE Deployment!To(l, "term") /\ o.kind # "deploy"
    <3>1. DeployAt("term", k, v)'
      BY <1>2, <2>6 DEF DeployAt
    <3> QED BY <1>1, <1>2, <2>3, <2>6, <3>1, DeployTo
  <2> QED BY <2>2, <2>4, <2>5, <2>6
<1>5. CASE Deployment!WindowCloses(l)
  <2>1. UNCHANGED <<new, robot, config, configBaks, moved, procs, next>> /\ Deployment!Finish(l)
    BY <1>5 DEF Deployment!WindowCloses, Deployment!hostVars
  <2> QED BY <1>0, <2>1, DeployHostSame, DeployBaksSame, DeployFinish
<1>6. CASE Deployment!uploadFile(l)
  <2>1. /\ UNCHANGED <<robot, config, configBaks, moved, procs, next>> /\ Deployment!To(l, "sent") /\ o.pc = "upload"
        /\ new' = [ver |-> o.ver, whole |-> FALSE]
    BY <1>1, <1>6 DEF Deployment!uploadFile
  <2>2. DeployHost' /\ new'.ver = v
    BY <1>0, <1>2, <2>1 DEF DeployHost, DeployFile
  <2>3. k = "deploy" /\ DeployBaks'
    BY <1>0, <1>2a, <2>1, DeployBaksSame DEF DeployAt
  <2>4. DeployAt("sent", k, v)'
    BY <2>2, <2>3 DEF DeployAt
  <2> QED BY <1>1, <1>2, <2>1, <2>2, <2>3, <2>4, DeployTo
<1>7. CASE Deployment!Uploaded(l)
  <2>1. PICK whole \in BOOLEAN, bad \in BOOLEAN :
          /\ new' = [new EXCEPT !.whole = new.whole \/ whole]
          /\ Deployment!Finish(l) \/ Deployment!To(l, "size")
    BY <1>7 DEF Deployment!Uploaded
  <2>2. UNCHANGED <<robot, config, configBaks, moved, procs, next>> /\ o.pc = "sent"
    BY <1>1, <1>7 DEF Deployment!Uploaded
  <2>3. PICK b \in BOOLEAN : b = (new.whole \/ whole)
    BY Zenon
  <2>4. new' = [new EXCEPT !.whole = b]
    BY <2>1, <2>3, Zenon
  <2>5. new = [ver |-> new.ver, whole |-> new.whole]
    BY <1>0 DEF DeployHost, DeployFile
  <2>6. new' = [ver |-> new.ver, whole |-> b]
    BY <2>4, <2>5
  <2>7. DeployHost' /\ new'.ver = new.ver
    BY <1>0, <2>2, <2>6 DEF DeployHost, DeployFile
  <2>8. k = "deploy" /\ new.ver = v /\ DeployBaks'
    BY <1>0, <1>2a, <2>2, DeployBaksSame DEF DeployAt
  <2>9. CASE Deployment!Finish(l)
    BY <2>7, <2>8, <2>9, DeployFinish
  <2>10. CASE Deployment!To(l, "size")
    <3>1. DeployAt("size", k, v)'
      BY <2>7, <2>8 DEF DeployAt
    <3> QED BY <1>1, <1>2, <2>7, <2>8, <2>10, <3>1, DeployTo
  <2> QED BY <2>1, <2>9, <2>10
<1>8. CASE Deployment!CheckSize(l)
  <2>1. UNCHANGED <<new, robot, config, configBaks, moved, procs, next>> /\ o.pc = "size"
    BY <1>1, <1>8 DEF Deployment!CheckSize, Deployment!hostVars
  <2>2. Deployment!Finish(l) \/ (Deployment!To(l, "backup") /\ new.whole = TRUE)
    <3>1. new.whole \in BOOLEAN
      BY <1>0 DEF DeployHost, DeployFile
    <3>2. Deployment!Finish(l) \/ (Deployment!To(l, "backup") /\ new.whole)
      BY <1>8 DEF Deployment!CheckSize, Deployment!SameSize
    <3> QED BY <3>1, <3>2
  <2>3. DeployHost' /\ DeployBaks' /\ k = "deploy" /\ new'.ver = v
    BY <1>0, <1>2a, <2>1, DeployHostSame, DeployBaksSame DEF DeployAt
  <2>4. CASE Deployment!Finish(l)
    BY <2>3, <2>4, DeployFinish
  <2>5. CASE Deployment!To(l, "backup") /\ new.whole = TRUE
    <3>1. DeployAt("backup", k, v)'
      BY <2>1, <2>3, <2>5 DEF DeployAt
    <3> QED BY <1>1, <1>2, <2>3, <2>5, <3>1, DeployTo
  <2> QED BY <2>2, <2>4, <2>5
<1>9. CASE Deployment!Backup(l)
  <2>1. UNCHANGED <<new, robot, config, configBaks, moved, procs, next>> /\ o.pc = "backup" /\ Deployment!To(l, "term")
    BY <1>1, <1>9 DEF Deployment!Backup
  <2>2. DeployHost' /\ DeployBaks' /\ k = "deploy" /\ new'.ver = v /\ new'.whole = TRUE
    BY <1>0, <1>2a, <2>1, DeployHostSame, DeployBaksSame DEF DeployAt
  <2>3. DeployAt("term", k, v)'
    BY <2>2 DEF DeployAt
  <2> QED BY <1>1, <1>2, <2>1, <2>2, <2>3, DeployTo
<1> QED BY <1>3, <1>4, <1>5, <1>6, <1>7, <1>8, <1>9

\* A record with two fields replaced.
LEMMA DeployRecord ==
    ASSUME NEW o, o = [pc |-> o.pc, kind |-> o.kind, ver |-> o.ver, fresh |-> o.fresh, found |-> o.found,
                       tries |-> o.tries],
           NEW c, NEW x, NEW y, NEW r, r = [o EXCEPT !.pc = c, !.found = x], NEW s, s = [o EXCEPT !.pc = c, !.tries = y]
    PROVE  /\ r = [pc |-> c, kind |-> o.kind, ver |-> o.ver, fresh |-> o.fresh, found |-> x, tries |-> o.tries]
           /\ s = [pc |-> c, kind |-> o.kind, ver |-> o.ver, fresh |-> o.fresh, found |-> o.found, tries |-> y]
<1>1. r = [pc |-> c, kind |-> o.kind, ver |-> o.ver, fresh |-> o.fresh, found |-> x, tries |-> o.tries]
  OBVIOUS
<1>2. s = [pc |-> c, kind |-> o.kind, ver |-> o.ver, fresh |-> o.fresh, found |-> o.found, tries |-> y]
  OBVIOUS
<1> QED BY <1>1, <1>2

\* The robot is stopped.
LEMMA DeployStops ==
    ASSUME DeployConstants, DeployInv, NEW l \in Launcher,
           Deployment!Term(l) \/ Deployment!Check(l) \/ Deployment!Kill(l) \/ Deployment!Again(l)
    PROVE  DeployInv'
<1>0. DeployHost /\ DeployBaks /\ DeployLine(launch[l])
  BY DEF DeployInv
<1>1. PICK o : o = launch[l]
  OBVIOUS
<1>2. PICK k, v : k = o.kind /\ v = o.ver
  OBVIOUS
<1>2a. DeployAt(o.pc, k, v)
  BY <1>0, <1>1, <1>2 DEF DeployLine
<1>3. UNCHANGED <<new, robot, config, configBaks, moved, next>>
  BY DEF Deployment!Term, Deployment!Check, Deployment!Kill, Deployment!Again, Deployment!hostVars
<1>4. DeployHost' /\ DeployBaks'
  BY <1>0, <1>3, DeployHostSame, DeployBaksSame
<1>5. o.pc \in {"term", "check", "kill", "again"} /\ (k = "deploy" => new'.ver = v /\ new'.whole = TRUE)
  <2>1. o.pc \in {"term", "check", "kill", "again"}
    BY <1>1 DEF Deployment!Term, Deployment!Check, Deployment!Kill, Deployment!Again
  <2> QED BY <1>2a, <1>3, <2>1 DEF DeployAt
<1>6. \A c \in {"check", "kill", "again"} : DeployAt(c, k, v)'
  BY <1>5 DEF DeployAt
<1>7. ASSUME Deployment!To(l, Deployment!Stopped(l)), procs' = {} PROVE DeployInv'
  <2>1. PICK c : c = Deployment!Stopped(l)
    OBVIOUS
  <2>2. c = IF k = "deploy" THEN "move" ELSE "start"
    BY <1>1, <1>2, <2>1 DEF Deployment!Stopped
  <2>3. DeployAt(c, k, v)'
    BY <1>5, <1>7, <2>2 DEF DeployAt
  <2> QED BY <1>1, <1>2, <1>4, <1>7, <2>1, <2>3, DeployTo
<1>8. CASE Deployment!Term(l)
  <2>1. Deployment!Finish(l) \/ Deployment!To(l, "check")
    BY <1>8 DEF Deployment!Term, Deployment!Command
  <2> QED BY <1>1, <1>2, <1>4, <1>6, <2>1, DeployFinish, DeployTo
<1>9. CASE Deployment!Check(l)
  <2>1. \/ Deployment!Finish(l)
        \/ Deployment!To(l, Deployment!Stopped(l)) /\ procs' = {}
        \/ launch' = [launch EXCEPT ![l].pc = "kill", ![l].found = procs]
    BY <1>9 DEF Deployment!Check, Deployment!hostVars
  <2>2. CASE launch' = [launch EXCEPT ![l].pc = "kill", ![l].found = procs]
    <3>1. PICK r : r = [o EXCEPT !.pc = "kill", !.found = procs]
      OBVIOUS
    <3>2. launch' = [launch EXCEPT ![l] = r]
      <4>1. DOMAIN launch = Launcher
        BY DEF DeployInv
      <4>2. launch' = [[launch EXCEPT ![l] = [launch[l] EXCEPT !.pc = "kill"]] EXCEPT
                          ![l] = [[launch EXCEPT ![l] = [launch[l] EXCEPT !.pc = "kill"]][l] EXCEPT !.found = procs]]
        BY <2>2
      <4>3. PICK a : a = [launch[l] EXCEPT !.pc = "kill"]
        OBVIOUS
      <4>4. PICK m : m = [launch EXCEPT ![l] = a]
        OBVIOUS
      <4>5. m[l] = a
        BY <4>1, <4>4
      <4>6. launch' = [m EXCEPT ![l] = [m[l] EXCEPT !.found = procs]]
        BY <4>2, <4>3, <4>4
      <4>7. r = [a EXCEPT !.found = procs]
        BY <1>1, <3>1, <4>3
      <4>8. launch' = [m EXCEPT ![l] = r]
        BY <4>5, <4>6, <4>7
      <4> QED BY <4>1, <4>4, <4>8
    <3>3. o = [pc |-> o.pc, kind |-> o.kind, ver |-> o.ver, fresh |-> o.fresh, found |-> o.found, tries |-> o.tries]
      BY <1>0, <1>1 DEF DeployLine
    <3>4. r = [pc |-> "kill", kind |-> k, ver |-> v, fresh |-> o.fresh, found |-> procs, tries |-> o.tries]
      BY <1>2, <3>1, <3>3, DeployRecord
    <3>5. /\ r = [pc |-> r.pc, kind |-> r.kind, ver |-> r.ver, fresh |-> r.fresh, found |-> r.found, tries |-> r.tries]
          /\ r.pc = "kill" /\ r.kind = k /\ r.ver = v
      BY <3>4
    <3>6. DeployLine(r)'
      <4>1. DeployAt(r.pc, r.kind, r.ver)'
        BY <1>5, <3>5 DEF DeployAt
      <4> QED BY <3>5, <4>1 DEF DeployLine
    <3> QED BY <1>4, <3>2, <3>6, DeployOwn
  <2> QED BY <1>4, <1>7, <2>1, <2>2, DeployFinish
<1>10. CASE Deployment!Kill(l)
  <2>1. Deployment!Finish(l) \/ Deployment!To(l, "again")
    BY <1>10 DEF Deployment!Kill, Deployment!Command
  <2> QED BY <1>1, <1>2, <1>4, <1>6, <2>1, DeployFinish, DeployTo
<1>11. CASE Deployment!Again(l)
  <2>1. Deployment!Finish(l) \/ (Deployment!To(l, Deployment!Stopped(l)) /\ procs' = {})
    BY <1>11 DEF Deployment!Again, Deployment!hostVars, Deployment!LeftOver
  <2> QED BY <1>4, <1>7, <2>1, DeployFinish
<1> QED BY <1>8, <1>9, <1>10, <1>11

\* One more in front of a sequence, and the first elements of one.
LEMMA SeqCons ==
    ASSUME NEW S, NEW c \in S, NEW s \in Seq(S)
    PROVE  /\ <<c>> \o s \in Seq(S) /\ Len(<<c>> \o s) = Len(s) + 1 /\ (<<c>> \o s)[1] = c
           /\ \A i \in 2 .. (Len(s) + 1) : (<<c>> \o s)[i] = s[i - 1]
<1>1. PICK d : d = <<c>> \o s
  OBVIOUS
<1>2. Len(d) = Len(s) + 1 /\ d \in Seq(S) /\ d[1] = c
  BY <1>1
<1>3. \A i \in 2 .. (Len(s) + 1) : d[i] = s[i - 1]
  BY <1>1
<1> QED BY <1>1, <1>2, <1>3

\* The beginning of a sequence.
LEMMA SeqTake ==
    ASSUME NEW S, NEW s \in Seq(S), NEW n \in 0 .. Len(s)
    PROVE  /\ SubSeq(s, 1, n) \in Seq(S) /\ Len(SubSeq(s, 1, n)) = n
           /\ \A i \in 1 .. n : SubSeq(s, 1, n)[i] = s[i]
<1>1. PICK b : b = SubSeq(s, 1, n)
  OBVIOUS
<1>2. \A i \in 1 .. n : i \in 1 .. Len(s) /\ s[i] \in S
  OBVIOUS
<1>3. b = [i \in 1 .. n |-> s[i]]
  BY <1>1
<1>4. b \in Seq(S) /\ Len(b) = n /\ \A i \in 1 .. n : b[i] = s[i]
  BY <1>2, <1>3
<1> QED BY <1>1, <1>4

\* The new program is moved into place, and the old configuration away.
LEMMA DeployReplaces ==
    ASSUME DeployConstants, DeployInv, NEW l \in Launcher,
           Deployment!Move(l) \/ Deployment!backupAndResetConfigCommand(l)
    PROVE  DeployInv'
<1>0. DeployHost /\ DeployBaks /\ DeployLine(launch[l])
  BY DEF DeployInv
<1>1. PICK o : o = launch[l]
  OBVIOUS
<1>2. PICK k, v : k = o.kind /\ v = o.ver
  OBVIOUS
<1>2a. DeployAt(o.pc, k, v)
  BY <1>0, <1>1, <1>2 DEF DeployLine
<1>3. CASE Deployment!Move(l)
  <2>1. UNCHANGED <<config, configBaks, moved, procs, next>> /\ o.pc = "move"
    BY <1>1, <1>3 DEF Deployment!Move
  <2>2. k = "deploy" /\ new.ver = v /\ new.whole = TRUE /\ procs' = {} /\ DeployBaks'
    BY <1>0, <1>2a, <2>1, DeployBaksSame DEF DeployAt
  <2>3. \/ (robot' = new /\ new' = Deployment!NoFile) /\ (Deployment!To(l, "config") \/ Deployment!To(l, "start"))
        \/ (robot' = new /\ new' = Deployment!NoFile) /\ Deployment!Finish(l)
        \/ UNCHANGED <<robot, new>> /\ Deployment!Finish(l)
    BY <1>3 DEF Deployment!Move, Deployment!Command
  <2>4. CASE UNCHANGED <<robot, new>> /\ Deployment!Finish(l)
    BY <1>0, <2>2, <2>4, DeployHostSame, DeployFinish
  <2>5. ASSUME robot' = new, new' = Deployment!NoFile PROVE DeployHost' /\ robot'.ver = v
    <3>1. new' = [ver |-> 0, whole |-> FALSE]
      BY <2>5 DEF Deployment!NoFile
    <3> QED BY <1>0, <2>2, <2>5, <3>1 DEF DeployHost, DeployFile
  <2>6. CASE (robot' = new /\ new' = Deployment!NoFile) /\ Deployment!Finish(l)
    BY <2>2, <2>5, <2>6, DeployFinish
  <2>7. CASE (robot' = new /\ new' = Deployment!NoFile) /\ (Deployment!To(l, "config") \/ Deployment!To(l, "start"))
    <3>1. \A c \in {"config", "start"} : DeployAt(c, k, v)'
      BY <2>2, <2>5, <2>7 DEF DeployAt
    <3> QED BY <1>1, <1>2, <2>2, <2>5, <2>7, <3>1, DeployTo
  <2> QED BY <2>3, <2>4, <2>6, <2>7
<1>4. CASE Deployment!backupAndResetConfigCommand(l)
  <2>1. UNCHANGED <<new, robot, procs, next>> /\ o.pc = "config"
    BY <1>1, <1>4 DEF Deployment!backupAndResetConfigCommand
  <2>2. config' \in Int /\ (Deployment!To(l, "start") \/ Deployment!Finish(l))
    BY <1>4 DEF Deployment!backupAndResetConfigCommand
  <2>3. /\ config = -1 => UNCHANGED <<configBaks, moved>>
        /\ config # -1 => /\ configBaks' = Deployment!NewestConfigs(<<config>> \o configBaks)
                          /\ moved' = <<config>> \o moved
    BY <1>4 DEF Deployment!backupAndResetConfigCommand
  <2>4. DeployBaks'
    <3>1. CASE config = -1
      BY <1>0, <2>1, <2>2, <2>3, <3>1 DEF DeployBaks
    <3>2. CASE config # -1
      <4>1. /\ Keep \in Nat /\ config \in Int /\ moved \in Seq(Int) /\ configBaks \in Seq(Int)
            /\ \A i \in 1 .. Len(moved) : i <= Keep => i <= Len(configBaks) /\ configBaks[i] = moved[i]
        BY <1>0 DEF DeployBaks, DeployConstants
      <4>2. PICK d : d = <<config>> \o configBaks
        OBVIOUS
      <4>3. /\ d \in Seq(Int) /\ Len(d) = Len(configBaks) + 1 /\ d[1] = config
            /\ \A i \in 2 .. (Len(configBaks) + 1) : d[i] = configBaks[i - 1]
        BY <4>1, <4>2, SeqCons
      <4>4. /\ moved' \in Seq(Int) /\ Len(moved') = Len(moved) + 1 /\ moved'[1] = config
            /\ \A i \in 2 .. (Len(moved) + 1) : moved'[i] = moved[i - 1]
        <5>1. PICK m1 : m1 = <<config>> \o moved
          OBVIOUS
        <5>2. /\ m1 \in Seq(Int) /\ Len(m1) = Len(moved) + 1 /\ m1[1] = config
              /\ \A i \in 2 .. (Len(moved) + 1) : m1[i] = moved[i - 1]
          BY <4>1, <5>1, SeqCons
        <5> QED BY <2>3, <3>2, <5>1, <5>2
      <4>5. PICK n : n = IF Len(d) < Keep THEN Len(d) ELSE Keep
        OBVIOUS
      <4>6. n \in 0 .. Len(d) /\ n \in Nat
        BY <4>1, <4>3, <4>5
      <4>7. configBaks' = SubSeq(d, 1, n)
        BY <2>3, <3>2, <4>2, <4>5 DEF Deployment!NewestConfigs, Deployment!Newest
      <4>8. configBaks' \in Seq(Int) /\ Len(configBaks') = n /\ \A i \in 1 .. n : configBaks'[i] = d[i]
        BY <4>3, <4>6, <4>7, SeqTake
      <4>9. \A i \in 1 .. Len(moved') : i <= Keep => i <= Len(configBaks') /\ configBaks'[i] = moved'[i]
        <5>1. PICK m1, b1 : m1 = moved' /\ b1 = configBaks'
          OBVIOUS
        <5>2. PICK c, m, b : c = config /\ m = moved /\ b = configBaks
          OBVIOUS
        <5>3. /\ Keep \in Nat /\ c \in Int /\ m \in Seq(Int) /\ b \in Seq(Int)
              /\ \A i \in 1 .. Len(m) : i <= Keep => i <= Len(b) /\ b[i] = m[i]
          BY <4>1, <5>2
        <5>4. m1 \in Seq(Int) /\ Len(m1) = Len(m) + 1 /\ m1[1] = c /\ \A i \in 2 .. (Len(m) + 1) : m1[i] = m[i - 1]
          BY <4>4, <5>1, <5>2
        <5>5. d \in Seq(Int) /\ Len(d) = Len(b) + 1 /\ d[1] = c /\ \A i \in 2 .. (Len(b) + 1) : d[i] = b[i - 1]
          BY <4>3, <5>2
        <5>6. b1 \in Seq(Int) /\ Len(b1) = n /\ \A i \in 1 .. n : b1[i] = d[i]
          BY <4>8, <5>1
        <5>7. \A i \in 1 .. Len(m1) : i <= Keep => i <= Len(b1) /\ b1[i] = m1[i]
          <6>1. Len(m) \in Nat /\ Len(b) \in Nat
            BY <5>3
          <6>2. ASSUME NEW i \in 1 .. Len(m1), i <= Keep PROVE i <= Len(b1) /\ b1[i] = m1[i]
            <7>0. i \in Nat /\ i >= 1 /\ i <= Len(m) + 1
              BY <5>4, <6>1
            <7>1. CASE i = 1
              <8>1. i \in 1 .. n
                BY <4>5, <5>3, <5>5, <6>1, <6>2, <7>1
              <8> QED BY <4>6, <5>4, <5>5, <5>6, <7>1, <8>1
            <7>2. CASE i # 1
              <8>1. i - 1 \in 1 .. Len(m) /\ i - 1 <= Keep /\ i \in 2 .. (Len(m) + 1)
                BY <5>3, <6>1, <6>2, <7>0, <7>2
              <8>2. i - 1 <= Len(b) /\ b[i - 1] = m[i - 1]
                BY <5>3, <8>1
              <8>3. i \in 2 .. (Len(b) + 1) /\ i \in 1 .. n
                BY <4>5, <5>3, <5>5, <6>1, <6>2, <7>0, <7>2, <8>2
              <8>4. b1[i] = d[i] /\ d[i] = b[i - 1] /\ m1[i] = m[i - 1]
                BY <5>4, <5>5, <5>6, <8>1, <8>3
              <8> QED BY <4>6, <5>6, <8>2, <8>3, <8>4
            <7> QED BY <7>1, <7>2
          <6> QED BY <6>2
        <5> QED BY <5>1, <5>7
      <4>10. next' \in Int
        BY <1>0, <2>1 DEF DeployBaks
      <4> QED BY <2>2, <4>4, <4>8, <4>9, <4>10 DEF DeployBaks
    <3> QED BY <3>1, <3>2
  <2>5. DeployHost' /\ DeployAt("start", k, v)'
    BY <1>0, <1>2a, <2>1, DeployHostSame DEF DeployAt
  <2> QED BY <1>1, <1>2, <2>2, <2>4, <2>5, DeployFinish, DeployTo
<1> QED BY <1>3, <1>4

\* The robot is started and watched until it answers.
LEMMA DeployStarts ==
    ASSUME DeployConstants, DeployInv, NEW l \in Launcher,
           \/ Deployment!Start(l) \/ Deployment!ReadPorts(l) \/ Deployment!ReadMainPID(l)
           \/ Deployment!ReadSinkPID(l) \/ Deployment!ReadListeners(l) \/ Deployment!Report(l)
    PROVE  DeployInv'
<1>0. DeployHost /\ DeployBaks /\ DeployLine(launch[l])
  BY DEF DeployInv
<1>1. PICK o : o = launch[l]
  OBVIOUS
<1>2. PICK k, v : k = o.kind /\ v = o.ver
  OBVIOUS
<1>2a. DeployAt(o.pc, k, v)
  BY <1>0, <1>1, <1>2 DEF DeployLine
<1>3. CASE Deployment!Start(l)
  <2>1. UNCHANGED <<new, robot, configBaks, moved, next>> /\ o.pc = "start"
    BY <1>1, <1>3 DEF Deployment!Start
  <2>2. /\ Deployment!Finish(l) \/ Deployment!To(l, "ports")
        /\ \/ procs' = Deployment!Started /\ config' = (IF config = -1 THEN 0 ELSE config)
           \/ UNCHANGED <<procs, config>>
    BY <1>3 DEF Deployment!Start, Deployment!Command
  <2>3. config' \in Int
    BY <1>0, <2>2 DEF DeployBaks
  <2>4. DeployHost' /\ DeployBaks'
    BY <1>0, <2>1, <2>3, DeployHostSame DEF DeployBaks
  <2>5. ASSUME k = "deploy" PROVE robot'.ver = v /\ \A p \in procs' : p.ver = v
    <3>1. robot.ver = v /\ \A p \in procs : p.ver = v
      BY <1>2a, <2>1, <2>5 DEF DeployAt
    <3>2. \A p \in procs' : p \in procs \/ p.ver = robot.ver
      BY <2>2 DEF Deployment!Started
    <3> QED BY <2>1, <3>1, <3>2
  <2>6. DeployAt("ports", k, v)'
    BY <2>5 DEF DeployAt
  <2> QED BY <1>1, <1>2, <2>2, <2>4, <2>6, DeployFinish, DeployTo
<1>4. ASSUME NEW c \in {"ports", "main", "sink", "listen"}, NEW ok, NEW d \in {"main", "sink", "listen", "success"},
             Deployment!Probe(l, c, ok, d)
      PROVE  DeployInv'
  <2>1. UNCHANGED <<new, robot, config, configBaks, moved, procs, next>> /\ o.pc = c
    BY <1>1, <1>4 DEF Deployment!Probe, Deployment!hostVars
  <2>2. DeployHost' /\ DeployBaks'
    BY <1>0, <2>1, DeployHostSame, DeployBaksSame
  <2>3. \A e \in {"ports", "main", "sink", "listen", "success"} : DeployAt(e, k, v)'
    <3>1. k = "deploy" => robot'.ver = v /\ \A p \in procs' : p.ver = v
      BY <1>2a, <1>4, <2>1 DEF DeployAt
    <3> QED BY <3>1 DEF DeployAt
  <2>4. Deployment!Retry(l) \/ Deployment!To(l, d)
    BY <1>4 DEF Deployment!Probe
  <2>5. CASE Deployment!To(l, d)
    BY <1>1, <1>2, <2>2, <2>3, <2>5, DeployTo
  <2>6. CASE Deployment!Retry(l)
    <3>1. PICK n, e : n = o.tries + 1 /\ e = (IF o.pc = "ports" THEN "ports" ELSE "main")
      OBVIOUS
    <3>2. PICK r : r = [o EXCEPT !.pc = e, !.tries = n]
      OBVIOUS
    <3>3. launch' = [launch EXCEPT ![l] = Deployment!Idle] \/ launch' = [launch EXCEPT ![l] = r]
      BY <1>1, <2>6, <3>1, <3>2 DEF Deployment!Retry
    <3>4. CASE launch' = [launch EXCEPT ![l] = Deployment!Idle]
      BY <2>2, <3>4, DeployFinish DEF Deployment!Finish
    <3>5. CASE launch' = [launch EXCEPT ![l] = r]
      <4>1. o = [pc |-> o.pc, kind |-> o.kind, ver |-> o.ver, fresh |-> o.fresh, found |-> o.found, tries |-> o.tries]
        BY <1>0, <1>1 DEF DeployLine
      <4>2. r = [pc |-> e, kind |-> o.kind, ver |-> o.ver, fresh |-> o.fresh, found |-> o.found, tries |-> n]
        BY <3>2, <4>1, DeployRecord
      <4>3. /\ r = [pc |-> r.pc, kind |-> r.kind, ver |-> r.ver, fresh |-> r.fresh, found |-> r.found, tries |-> r.tries]
            /\ r.pc = e /\ r.kind = k /\ r.ver = v
        BY <1>2, <4>2
      <4>4. e \in {"ports", "main"}
        BY <3>1
      <4>5. DeployAt(r.pc, r.kind, r.ver)'
        <5>1. DeployAt(e, k, v)'
          BY <2>3, <4>4
        <5> QED BY <4>3, <5>1 DEF DeployAt
      <4>6. DeployLine(r)'
        BY <4>3, <4>5 DEF DeployLine
      <4> QED BY <2>2, <3>5, <4>6, DeployOwn
    <3> QED BY <3>3, <3>4, <3>5
  <2> QED BY <2>4, <2>5, <2>6
<1>5. CASE Deployment!ReadPorts(l)
  BY <1>4, <1>5 DEF Deployment!ReadPorts
<1>6. CASE Deployment!ReadMainPID(l)
  BY <1>4, <1>6 DEF Deployment!ReadMainPID
<1>7. CASE Deployment!ReadSinkPID(l)
  BY <1>4, <1>7 DEF Deployment!ReadSinkPID
<1>8. CASE Deployment!ReadListeners(l)
  BY <1>4, <1>8 DEF Deployment!ReadListeners
<1>9. CASE Deployment!Report(l)
  <2>1. UNCHANGED <<new, robot, config, configBaks, moved, procs, next>> /\ Deployment!Finish(l)
    BY <1>9 DEF Deployment!Report, Deployment!hostVars
  <2> QED BY <1>0, <2>1, DeployHostSame, DeployBaksSame, DeployFinish
<1> QED BY <1>3, <1>5, <1>6, <1>7, <1>8, <1>9

\* The host by itself: a process that is there boots or dies.
LEMMA DeployProcesses ==
    ASSUME DeployConstants, DeployInv, NEW p \in procs, Deployment!Boots(p) \/ Deployment!Dies(p)
    PROVE  DeployInv'
<1>1. UNCHANGED <<launch, new, robot, configBaks, moved>>
  BY DEF Deployment!Boots, Deployment!Dies
<1>2. config' \in Int /\ next' \in Int
  BY DEF DeployInv, DeployBaks, Deployment!Boots, Deployment!Dies
<1>3. DeployHost' /\ DeployBaks'
  BY <1>1, <1>2, DeployHostSame DEF DeployInv, DeployBaks
<1>4. \A q \in procs' : \E x \in procs : q.ver = x.ver
  <2>1. CASE Deployment!Dies(p)
    BY <2>1 DEF Deployment!Dies
  <2>2. CASE Deployment!Boots(p)
    <3>1. PICK b, e : procs' = (procs \ {p}) \cup {[p EXCEPT !.up = b]} \cup {[what |-> "web", ver |-> p.ver, up |-> u] : u \in e}
      BY <2>2 DEF Deployment!Boots
    <3>2. [p EXCEPT !.up = b].ver = p.ver
      OBVIOUS
    <3>3. PICK a : a = [p EXCEPT !.up = b]
      OBVIOUS
    <3>4. \A u : [what |-> "web", ver |-> p.ver, up |-> u].ver = p.ver
      OBVIOUS
    <3>5. ASSUME NEW q \in procs' PROVE \E x \in procs : q.ver = x.ver
      <4>1. q \in procs \/ q = a \/ \E u \in e : q = [what |-> "web", ver |-> p.ver, up |-> u]
        BY <3>1, <3>3
      <4>2. CASE q \in procs
        BY <4>2
      <4>3. CASE q = a
        BY <3>2, <3>3, <4>3
      <4>4. CASE \E u \in e : q = [what |-> "web", ver |-> p.ver, up |-> u]
        BY <3>4, <4>4
      <4> QED BY <4>1, <4>2, <4>3, <4>4
    <3> QED BY <3>5
  <2> QED BY <2>1, <2>2
<1>5. procs = {} => FALSE
  OBVIOUS
<1>6. ASSUME NEW l \in Launcher PROVE DeployLine(launch[l])'
  <2>1. DeployLine(launch[l])
    BY DEF DeployInv
  <2>2. PICK o : o = launch[l] /\ o = launch'[l]
    BY <1>1
  <2>3. DeployAt(o.pc, o.kind, o.ver)'
    <3>1. DeployAt(o.pc, o.kind, o.ver)
      BY <2>1, <2>2 DEF DeployLine
    <3> QED BY <1>1, <1>4, <1>5, <3>1 DEF DeployAt
  <2>4. DeployLine(o)'
    BY <2>1, <2>2, <2>3 DEF DeployLine
  <2> QED BY <2>2, <2>4 DEF DeployLine, DeployAt
<1>7. DOMAIN launch' = Launcher
  BY <1>1 DEF DeployInv
<1> QED BY <1>3, <1>6, <1>7 DEF DeployInv

\* Every step keeps the program and its configuration whole.
LEMMA DeployStep == ASSUME DeployConstants, DeployInv, [Deployment!Next]_(Deployment!vars) PROVE DeployInv'
<1>1. CASE UNCHANGED Deployment!vars
  <2>1. UNCHANGED <<launch, new, robot, config, configBaks, moved, procs, next>>
    BY <1>1 DEF Deployment!vars, Deployment!hostVars
  <2>2. DeployHost' /\ DeployBaks' /\ DOMAIN launch' = Launcher
    BY <2>1, DeployHostSame, DeployBaksSame DEF DeployInv
  <2>3. \A l \in Launcher : DeployLine(launch[l])'
    BY <2>1 DEF DeployInv, DeployLine, DeployAt
  <2> QED BY <2>2, <2>3 DEF DeployInv
<1>2. CASE \E l \in Launcher : Deployment!Operation(l)
  BY <1>2, DeployUploads, DeployStops, DeployReplaces, DeployStarts DEF Deployment!Operation
<1>3. CASE \E p \in procs : Deployment!Boots(p) \/ Deployment!Dies(p)
  BY <1>3, DeployProcesses
<1> QED BY <1>1, <1>2, <1>3 DEF Deployment!Next

\* With one window at work the installed program is a complete one, wherever an
\* operation ends, and the configurations of the last Keep fresh installs are kept
\* (doDeploy, backupAndResetConfigCommand).
THEOREM DeployNothingTorn ==
    ASSUME DeployConstants
    PROVE  Deployment!Spec => []Deployment!NothingTorn
<1>1. Deployment!Init => DeployInv
  BY DeployInit
<1>2. DeployInv /\ [Deployment!Next]_(Deployment!vars) => DeployInv'
  BY DeployStep
<1>3. DeployInv => Deployment!NothingTorn
  <2>1. ASSUME DeployInv, NEW i \in DOMAIN moved, i <= Keep PROVE moved[i] \in {configBaks[j] : j \in DOMAIN configBaks}
    <3>1. /\ moved \in Seq(Int) /\ configBaks \in Seq(Int)
          /\ \A n \in 1 .. Len(moved) : n <= Keep => n <= Len(configBaks) /\ configBaks[n] = moved[n]
      BY <2>1 DEF DeployInv, DeployBaks
    <3>2. i \in 1 .. Len(moved)
      BY <3>1
    <3>3. i <= Len(configBaks) /\ configBaks[i] = moved[i]
      BY <2>1, <3>1, <3>2
    <3>4. i \in DOMAIN configBaks
      BY <3>1, <3>2, <3>3
    <3> QED BY <3>3, <3>4
  <2> QED BY <2>1 DEF DeployInv, DeployHost, Deployment!NothingTorn
<1> QED BY <1>1, <1>2, <1>3, PTL DEF Deployment!Spec

\* A deployment that reports success has just seen both ports open, and whatever
\* answers is the version it brought: nothing of the old robot answers in its place
\* (stopRemoteRobot, waitForRemoteRobot).
THEOREM DeploySuccessMeansNew ==
    ASSUME DeployConstants
    PROVE  Deployment!Spec => [][Deployment!SuccessMeansNew]_(Deployment!vars)
<1>1. Deployment!Init => DeployInv
  BY DeployInit
<1>2. DeployInv /\ [Deployment!Next]_(Deployment!vars) => DeployInv'
  BY DeployStep
<1>3. DeployInv => Deployment!SuccessMeansNew
  <2>1. ASSUME DeployInv, NEW l \in Launcher, launch[l].pc = "listen", launch[l].kind = "deploy", NEW p \in procs
        PROVE  p.ver = launch[l].ver
    BY <2>1 DEF DeployInv, DeployLine, DeployAt
  <2> QED BY <2>1 DEF Deployment!SuccessMeansNew
<1> QED BY <1>1, <1>2, <1>3, PTL DEF Deployment!Spec

-----------------------------------------------------------------------------
(* MarketPatches: the bytes of df_auction_r.                               *)

MemorySites == Cardinality(Sites)

MemoryCurrent(p) == pat[p] # Memory!Off /\ pat[p].pid = pid
MemoryTypeOK ==
    /\ bytes \in [Sites -> {0, 1, 2}] /\ pid \in Nat \ {0} /\ DOMAIN pat = Patcher
    /\ patchLeft = [fault |-> patchLeft.fault, restart |-> patchLeft.restart]
    /\ patchLeft.fault \in 0 .. MaxFaults /\ patchLeft.restart \in Nat
    /\ \A p \in Patcher : pat[p] = Memory!Off \/
         /\ pat[p] = [pc |-> pat[p].pc, pid |-> pat[p].pid, n |-> pat[p].n, before |-> pat[p].before,
                      wrote |-> pat[p].wrote]
         /\ pat[p].pc \in {"read", "write", "undo"} /\ pat[p].pid \in Nat /\ pat[p].pid <= pid
         /\ pat[p].n \in Sites /\ pat[p].before \in Seq({0, 1}) /\ pat[p].wrote \in Seq(Sites)
         /\ Len(pat[p].before) = IF pat[p].pc = "read" THEN pat[p].n - 1 ELSE MemorySites

\* What a patcher of the running process has found and done.
MemorySeen ==
    \A p \in Patcher : MemoryCurrent(p) =>
      /\ \A s \in 1 .. Len(pat[p].before) : pat[p].before[s] = 1 => bytes[s] = 1
      /\ pat[p].pc = "write" => \A s \in Sites : s < pat[p].n => bytes[s] = 1
      /\ pat[p].pc = "undo" => patchLeft.fault < MaxFaults

\* No failures: who has begun to write makes all bytes new.
MemoryAgree ==
    MaxFaults = 0 =>
      \A s, t \in Sites : bytes[s] = 1 /\ bytes[t] # 1 =>
        \E p \in Patcher : MemoryCurrent(p) /\ pat[p].pc = "write" /\ pat[p].n <= t

\* One patcher: it found all bytes alike, and what is new since is its own.
MemoryAlone ==
    MaxFaults = 1 => \A p \in Patcher :
      /\ ~MemoryCurrent(p) \/ pat[p].pc = "read" => \A s, t \in Sites : bytes[s] = 1 => bytes[t] = 1
      /\ MemoryCurrent(p) =>
           /\ pat[p].pc = "read" => \A s \in 1 .. Len(pat[p].before) : pat[p].before[s] = bytes[s]
           /\ \A s, t \in 1 .. Len(pat[p].before) : pat[p].before[s] = 1 => pat[p].before[t] = 1
           /\ pat[p].pc # "read" =>
                \A s \in Sites : bytes[s] = 1 =>
                  pat[p].before[s] = 1 \/ \E i \in 1 .. Len(pat[p].wrote) : pat[p].wrote[i] = s

MemoryNobody == Patcher = {} => \A s \in Sites : bytes[s] # 1

MemoryInv == MemoryTypeOK /\ MemorySeen /\ MemoryAgree /\ MemoryAlone /\ MemoryNobody

\* The sites are counted by their last one.
LEMMA MemoryCount ==
    ASSUME MemoryConstants
    PROVE  /\ MemorySites \in Nat \ {0} /\ Sites = 1 .. MemorySites /\ Memory!Cardinality(Sites) = MemorySites
           /\ MaxFaults \in {0, 1}
<1>1. PICK n \in Nat \ {0} : Sites = 1 .. n
  <2>1. Cardinality(Sites) \in Nat /\ Sites = 1 .. Cardinality(Sites) /\ Sites # {}
    BY FS_CardinalityType DEF MemoryConstants
  <2> QED BY <2>1
<1>2. Cardinality(1 .. n) = n
  BY FS_Interval
<1>3. Memory!Cardinality(Sites) = Cardinality(Sites)
  BY DEF Memory!Cardinality, Cardinality
<1> QED BY <1>1, <1>2, <1>3 DEF MemorySites, MemoryConstants

\* A fault is spent or there is none.
LEMMA MemoryFault ==
    ASSUME MemoryConstants, MemoryTypeOK, NEW bad \in BOOLEAN, Memory!Fault(bad)
    PROVE  /\ patchLeft' = [fault |-> patchLeft'.fault, restart |-> patchLeft'.restart]
           /\ patchLeft'.fault \in 0 .. MaxFaults /\ patchLeft'.restart \in Nat
           /\ patchLeft'.fault <= patchLeft.fault
           /\ bad => patchLeft'.fault < MaxFaults /\ patchLeft.fault > 0
           /\ ~bad => patchLeft' = patchLeft
<1>0. /\ patchLeft = [fault |-> patchLeft.fault, restart |-> patchLeft.restart]
      /\ patchLeft.fault \in 0 .. MaxFaults /\ patchLeft.restart \in Nat /\ MaxFaults \in {0, 1}
  BY MemoryCount DEF MemoryTypeOK
<1>1. CASE bad
  <2>1. patchLeft["fault"] > 0 /\ patchLeft' = [patchLeft EXCEPT !["fault"] = patchLeft["fault"] - 1]
    BY <1>1 DEF Memory!Fault, Memory!Spend
  <2>2. patchLeft' = [fault |-> patchLeft.fault - 1, restart |-> patchLeft.restart] /\ patchLeft.fault > 0
    BY <1>0, <2>1
  <2> QED BY <1>0, <1>1, <2>2
<1>2. CASE ~bad
  <2>1. patchLeft' = patchLeft
    BY <1>2 DEF Memory!Fault
  <2> QED BY <1>0, <1>2, <2>1
<1> QED BY <1>1, <1>2

\* The service starts with its own bytes.
LEMMA MemoryInit == ASSUME MemoryConstants, Memory!Init PROVE MemoryInv
<1>1. /\ patchLeft = [fault |-> MaxFaults, restart |-> MaxRestarts] /\ pat = [p \in Patcher |-> Memory!Off] /\ pid = 1
  BY DEF Memory!Init
<1>2. bytes \in [Sites -> {0, 1, 2}] /\ \A s \in Sites : bytes[s] # 1
  BY DEF Memory!Init
<1>3. MemoryTypeOK
  <2>1. patchLeft.fault = MaxFaults /\ patchLeft.restart = MaxRestarts
    BY <1>1
  <2> QED BY <1>1, <1>2, <2>1, MemoryCount DEF MemoryTypeOK, MemoryConstants
<1>4. \A p \in Patcher : ~MemoryCurrent(p)
  BY <1>1 DEF MemoryCurrent
<1> QED BY <1>2, <1>3, <1>4 DEF MemoryInv, MemorySeen, MemoryAgree, MemoryAlone, MemoryNobody

\* Nothing of the memory changes; faults may have been spent on a file.
LEMMA MemoryAside ==
    ASSUME MemoryConstants, MemoryInv, UNCHANGED <<bytes, pid, pat>>,
           \/ UNCHANGED patchLeft
           \/ \E bad \in BOOLEAN : Memory!Fault(bad)
    PROVE  MemoryInv'
<1>0. MemoryTypeOK /\ MemorySeen /\ MemoryAgree /\ MemoryAlone /\ MemoryNobody
  BY DEF MemoryInv
<1>1. /\ patchLeft' = [fault |-> patchLeft'.fault, restart |-> patchLeft'.restart]
      /\ patchLeft'.fault \in 0 .. MaxFaults /\ patchLeft'.restart \in Nat /\ patchLeft'.fault <= patchLeft.fault
  <2>1. CASE UNCHANGED patchLeft
    BY <1>0, <2>1, MemoryCount DEF MemoryTypeOK
  <2>2. ASSUME NEW bad \in BOOLEAN, Memory!Fault(bad)
        PROVE  /\ patchLeft' = [fault |-> patchLeft'.fault, restart |-> patchLeft'.restart]
               /\ patchLeft'.fault \in 0 .. MaxFaults /\ patchLeft'.restart \in Nat /\ patchLeft'.fault <= patchLeft.fault
    BY <1>0, <2>2, MemoryFault
  <2> QED BY <2>1, <2>2
<1>2. MemoryTypeOK'
  BY <1>0, <1>1 DEF MemoryTypeOK, MemorySites
<1>3. \A p \in Patcher : MemoryCurrent(p)' <=> MemoryCurrent(p)
  BY DEF MemoryCurrent
<1>4. patchLeft.fault \in Int /\ patchLeft'.fault \in Int /\ MaxFaults \in Int
  BY <1>0, <1>1, MemoryCount DEF MemoryTypeOK
<1>5. patchLeft.fault < MaxFaults => patchLeft'.fault < MaxFaults
  BY <1>1, <1>4
<1>6. MemorySeen'
  BY <1>0, <1>3, <1>5 DEF MemorySeen
<1>7. MemoryAgree'
  BY <1>0, <1>3 DEF MemoryAgree
<1>8. MemoryAlone'
  BY <1>0, <1>3 DEF MemoryAlone
<1>9. MemoryNobody'
  BY <1>0 DEF MemoryNobody
<1> QED BY <1>2, <1>6, <1>7, <1>8, <1>9 DEF MemoryInv

\* The service is started again, with its own bytes.
LEMMA MemoryRestarts == ASSUME MemoryConstants, MemoryInv, Memory!Restarts PROVE MemoryInv'
<1>0. MemoryTypeOK /\ pat' = pat /\ pid' = pid + 1 /\ bytes' = [s \in Sites |-> IF bytes[s] = 1 THEN 0 ELSE bytes[s]]
  BY DEF MemoryInv, Memory!Restarts
<1>1. bytes' \in [Sites -> {0, 1, 2}] /\ \A s \in Sites : bytes'[s] # 1
  BY <1>0 DEF MemoryTypeOK
<1>2. /\ patchLeft' = [fault |-> patchLeft'.fault, restart |-> patchLeft'.restart]
      /\ patchLeft'.fault \in 0 .. MaxFaults /\ patchLeft'.restart \in Nat
  <2>1. patchLeft["restart"] > 0 /\ patchLeft' = [patchLeft EXCEPT !["restart"] = patchLeft["restart"] - 1]
    BY DEF Memory!Restarts, Memory!Spend
  <2>2. /\ patchLeft = [fault |-> patchLeft.fault, restart |-> patchLeft.restart]
        /\ patchLeft.fault \in 0 .. MaxFaults /\ patchLeft.restart \in Nat
    BY <1>0 DEF MemoryTypeOK
  <2>3. patchLeft' = [fault |-> patchLeft.fault, restart |-> patchLeft.restart - 1] /\ patchLeft.restart > 0
    BY <2>1, <2>2
  <2> QED BY <2>2, <2>3
<1>3. \A p \in Patcher : pat[p] = Memory!Off \/ (pat[p].pid \in Nat /\ pat[p].pid <= pid /\ pat[p].pid <= pid' /\ pat[p].pid # pid')
  BY <1>0 DEF MemoryTypeOK
<1>4. MemoryTypeOK'
  BY <1>0, <1>1, <1>2, <1>3 DEF MemoryTypeOK, MemorySites
<1>5. \A p \in Patcher : ~MemoryCurrent(p)'
  BY <1>0, <1>3 DEF MemoryCurrent
<1> QED BY <1>1, <1>4, <1>5 DEF MemoryInv, MemorySeen, MemoryAgree, MemoryAlone, MemoryNobody

\* One patcher's own step: the others stay what they are.
LEMMA MemoryOthers ==
    ASSUME MemoryTypeOK, NEW p \in Patcher, NEW r, pat' = [pat EXCEPT ![p] = r], pid' = pid
    PROVE  /\ DOMAIN pat' = Patcher /\ pat'[p] = r
           /\ \A q \in Patcher \ {p} : pat'[q] = pat[q] /\ (MemoryCurrent(q)' <=> MemoryCurrent(q))
           /\ MemoryCurrent(p)' <=> (r # Memory!Off /\ r.pid = pid)
<1>1. DOMAIN pat' = Patcher /\ pat'[p] = r /\ \A q \in Patcher \ {p} : pat'[q] = pat[q]
  BY DEF MemoryTypeOK
<1> QED BY <1>1 DEF MemoryCurrent

\* A patcher's step, put together: its new record, and the bytes, which only become new
\* unless it is alone.
LEMMA MemoryOwnStep ==
    ASSUME MemoryConstants, MemoryInv, NEW p \in Patcher, NEW r, pat' = [pat EXCEPT ![p] = r], pid' = pid,
           bytes' \in [Sites -> {0, 1, 2}],
           patchLeft' = [fault |-> patchLeft'.fault, restart |-> patchLeft'.restart],
           patchLeft'.fault \in 0 .. MaxFaults, patchLeft'.restart \in Nat, patchLeft'.fault <= patchLeft.fault,
           MaxFaults = 1 \/ \A s \in Sites : bytes[s] = 1 => bytes'[s] = 1,
           r = Memory!Off \/
             /\ r = [pc |-> r.pc, pid |-> r.pid, n |-> r.n, before |-> r.before, wrote |-> r.wrote]
             /\ r.pc \in {"read", "write", "undo"} /\ r.pid \in Nat /\ r.pid <= pid
             /\ r.n \in Sites /\ r.before \in Seq({0, 1}) /\ r.wrote \in Seq(Sites)
             /\ Len(r.before) = IF r.pc = "read" THEN r.n - 1 ELSE MemorySites,
           r # Memory!Off /\ r.pid = pid =>
             /\ \A s \in 1 .. Len(r.before) : r.before[s] = 1 => bytes'[s] = 1
             /\ r.pc = "write" => \A s \in Sites : s < r.n => bytes'[s] = 1
             /\ r.pc = "undo" => patchLeft'.fault < MaxFaults,
           MaxFaults = 0 => \A s, t \in Sites : bytes'[s] = 1 /\ bytes'[t] # 1 =>
              \/ \E q \in Patcher \ {p} : MemoryCurrent(q) /\ pat[q].pc = "write" /\ pat[q].n <= t
              \/ r # Memory!Off /\ r.pid = pid /\ r.pc = "write" /\ r.n <= t,
           MaxFaults = 1 =>
             /\ r = Memory!Off \/ r.pid # pid \/ r.pc = "read" => \A s, t \in Sites : bytes'[s] = 1 => bytes'[t] = 1
             /\ r # Memory!Off /\ r.pid = pid =>
                  /\ r.pc = "read" => \A s \in 1 .. Len(r.before) : r.before[s] = bytes'[s]
                  /\ \A s, t \in 1 .. Len(r.before) : r.before[s] = 1 => r.before[t] = 1
                  /\ r.pc # "read" => \A s \in Sites : bytes'[s] = 1 =>
                       r.before[s] = 1 \/ \E i \in 1 .. Len(r.wrote) : r.wrote[i] = s
    PROVE  MemoryInv'
<1>0. MemoryTypeOK /\ MemorySeen /\ MemoryAgree /\ MemoryAlone /\ MemoryNobody
  BY DEF MemoryInv
<1>1. /\ DOMAIN pat' = Patcher /\ pat'[p] = r
      /\ \A q \in Patcher \ {p} : pat'[q] = pat[q] /\ (MemoryCurrent(q)' <=> MemoryCurrent(q))
      /\ MemoryCurrent(p)' <=> (r # Memory!Off /\ r.pid = pid)
  BY <1>0, MemoryOthers
<1>2. MemoryTypeOK'
  <2>1. \A q \in Patcher : pat'[q] = Memory!Off \/
         /\ pat'[q] = [pc |-> pat'[q].pc, pid |-> pat'[q].pid, n |-> pat'[q].n, before |-> pat'[q].before,
                      wrote |-> pat'[q].wrote]
         /\ pat'[q].pc \in {"read", "write", "undo"} /\ pat'[q].pid \in Nat /\ pat'[q].pid <= pid
         /\ pat'[q].n \in Sites /\ pat'[q].before \in Seq({0, 1}) /\ pat'[q].wrote \in Seq(Sites)
         /\ Len(pat'[q].before) = IF pat'[q].pc = "read" THEN pat'[q].n - 1 ELSE MemorySites
    <3>1. ASSUME NEW q \in Patcher, q # p
          PROVE  pat[q] = Memory!Off \/
             /\ pat[q] = [pc |-> pat[q].pc, pid |-> pat[q].pid, n |-> pat[q].n, before |-> pat[q].before,
                          wrote |-> pat[q].wrote]
             /\ pat[q].pc \in {"read", "write", "undo"} /\ pat[q].pid \in Nat /\ pat[q].pid <= pid
             /\ pat[q].n \in Sites /\ pat[q].before \in Seq({0, 1}) /\ pat[q].wrote \in Seq(Sites)
             /\ Len(pat[q].before) = IF pat[q].pc = "read" THEN pat[q].n - 1 ELSE MemorySites
      BY <1>0 DEF MemoryTypeOK
    <3> QED BY <1>1, <3>1
  <2>2. pid' \in Nat \ {0}
    BY <1>0 DEF MemoryTypeOK
  <2> QED BY <1>1, <2>1, <2>2 DEF MemoryTypeOK, MemorySites
<1>3. MemorySeen'
  <2>1. ASSUME NEW q \in Patcher, MemoryCurrent(q)'
        PROVE  /\ \A s \in 1 .. Len(pat'[q].before) : pat'[q].before[s] = 1 => bytes'[s] = 1
               /\ pat'[q].pc = "write" => \A s \in Sites : s < pat'[q].n => bytes'[s] = 1
               /\ pat'[q].pc = "undo" => patchLeft'.fault < MaxFaults
    <3>1. CASE q = p
      BY <1>1, <2>1, <3>1
    <3>2. CASE q # p
      <4>1. \A s \in Sites : bytes[s] = 1 => bytes'[s] = 1
        BY <3>2 DEF MemoryConstants
      <4>2. MemoryCurrent(q) /\ pat'[q] = pat[q]
        BY <1>1, <2>1, <3>2
      <4>3. \A s \in 1 .. Len(pat[q].before) : s \in Sites
        <5>1. Len(pat[q].before) <= MemorySites /\ Len(pat[q].before) \in Int
          <6>1. /\ pat[q].n \in Sites /\ pat[q].before \in Seq({0, 1})
                /\ Len(pat[q].before) = IF pat[q].pc = "read" THEN pat[q].n - 1 ELSE MemorySites
            BY <1>0, <4>2 DEF MemoryTypeOK, MemoryCurrent
          <6>2. pat[q].n \in 1 .. MemorySites /\ MemorySites \in Nat
            BY <6>1, MemoryCount
          <6> QED BY <6>1, <6>2
        <5> QED BY <5>1, MemoryCount
      <4>4. patchLeft.fault < MaxFaults => patchLeft'.fault < MaxFaults
        BY <1>0, MemoryCount DEF MemoryTypeOK
      <4>5. /\ \A s \in 1 .. Len(pat[q].before) : pat[q].before[s] = 1 => bytes[s] = 1
            /\ pat[q].pc = "write" => \A s \in Sites : s < pat[q].n => bytes[s] = 1
            /\ pat[q].pc = "undo" => patchLeft.fault < MaxFaults
        BY <1>0, <4>2 DEF MemorySeen
      <4> QED BY <4>1, <4>2, <4>3, <4>4, <4>5
    <3> QED BY <3>1, <3>2
  <2> QED BY <2>1 DEF MemorySeen
<1>4. MemoryAgree'
  BY <1>1 DEF MemoryAgree
<1>5. MemoryAlone'
  <2>1. ASSUME MaxFaults = 1 PROVE \A q \in Patcher : q = p
    BY <2>1 DEF MemoryConstants
  <2> QED BY <1>1, <2>1 DEF MemoryAlone
<1>6. MemoryNobody'
  BY DEF MemoryNobody
<1> QED BY <1>2, <1>3, <1>4, <1>5, <1>6 DEF MemoryInv

\* A patcher opens the process.
LEMMA MemoryBegins ==
    ASSUME MemoryConstants, MemoryInv, NEW p \in Patcher, Memory!PatchBegins(p) PROVE MemoryInv'
<1>0. /\ MemoryTypeOK /\ MemorySeen /\ MemoryAgree /\ MemoryAlone /\ pat[p] = Memory!Off
      /\ UNCHANGED <<bytes, pid, patchLeft>>
  BY DEF MemoryInv, Memory!PatchBegins
<1> DEFINE r == [pc |-> "read", pid |-> pid, n |-> 1, before |-> <<>>, wrote |-> <<>>]
<1>1. pat' = [pat EXCEPT ![p] = r]
  BY DEF Memory!PatchBegins
<1>2. /\ r = [pc |-> r.pc, pid |-> r.pid, n |-> r.n, before |-> r.before, wrote |-> r.wrote]
      /\ r.pc = "read" /\ r.pid = pid /\ r.n = 1 /\ r.before = <<>> /\ r.wrote = <<>> /\ Len(r.before) = 0
  OBVIOUS
<1> HIDE DEF r
<1>3. /\ r.pid \in Nat /\ r.pid <= pid /\ r.n \in Sites /\ r.before \in Seq({0, 1}) /\ r.wrote \in Seq(Sites)
      /\ Len(r.before) = r.n - 1
  <2>1. pid \in Nat
    BY <1>0 DEF MemoryTypeOK
  <2>2. 1 \in Sites
    BY MemoryCount
  <2> QED BY <1>2, <2>1, <2>2
<1>4. /\ bytes' \in [Sites -> {0, 1, 2}] /\ patchLeft' = [fault |-> patchLeft'.fault, restart |-> patchLeft'.restart]
      /\ patchLeft'.fault \in 0 .. MaxFaults /\ patchLeft'.restart \in Nat /\ patchLeft'.fault <= patchLeft.fault
  BY <1>0, MemoryCount DEF MemoryTypeOK
<1>5. MaxFaults = 0 => \A s, t \in Sites : bytes'[s] = 1 /\ bytes'[t] # 1 =>
              \E q \in Patcher \ {p} : MemoryCurrent(q) /\ pat[q].pc = "write" /\ pat[q].n <= t
  BY <1>0 DEF MemoryAgree, MemoryCurrent
<1>6. MaxFaults = 1 => \A s, t \in Sites : bytes'[s] = 1 => bytes'[t] = 1
  BY <1>0 DEF MemoryAlone, MemoryCurrent
<1>7. \A s \in 1 .. Len(r.before) : FALSE
  BY <1>2
<1>8. \A s \in Sites : bytes[s] = 1 => bytes'[s] = 1
  BY <1>0
<1>9. pid' = pid
  BY <1>0
<1>10. /\ r.pc \in {"read", "write", "undo"} /\ r.pc # "write" /\ r.pc # "undo"
       /\ Len(r.before) = IF r.pc = "read" THEN r.n - 1 ELSE MemorySites
       /\ \A s \in 1 .. Len(r.before) : r.before[s] = 1 => bytes'[s] = 1
       /\ \A s \in 1 .. Len(r.before) : r.before[s] = bytes'[s]
       /\ \A s, t \in 1 .. Len(r.before) : r.before[s] = 1 => r.before[t] = 1
  BY <1>2, <1>3, <1>7
<1>11. r = [pc |-> r.pc, pid |-> r.pid, n |-> r.n, before |-> r.before, wrote |-> r.wrote]
  BY <1>2
<1> QED BY <1>1, <1>2, <1>3, <1>4, <1>5, <1>6, <1>8, <1>9, <1>10, <1>11, MemoryOwnStep

\* A site is read, before any is written.
LEMMA MemoryPreflight ==
    ASSUME MemoryConstants, MemoryInv, NEW p \in Patcher, Memory!Preflight(p) PROVE MemoryInv'
<1>0. /\ MemoryTypeOK /\ MemorySeen /\ MemoryAgree /\ MemoryAlone /\ pat[p].pc = "read"
      /\ UNCHANGED <<bytes, pid>>
  BY DEF MemoryInv, Memory!Preflight
<1>a. pat[p] # Memory!Off
  BY <1>0 DEF Memory!Off
<1>b. /\ pat[p] = [pc |-> "read", pid |-> pat[p].pid, n |-> pat[p].n, before |-> pat[p].before, wrote |-> pat[p].wrote]
      /\ pat[p].pid \in Nat /\ pat[p].pid <= pid
      /\ pat[p].n \in Sites /\ pat[p].before \in Seq({0, 1}) /\ pat[p].wrote \in Seq(Sites)
      /\ Len(pat[p].before) = pat[p].n - 1
  BY <1>0, <1>a DEF MemoryTypeOK
<1> DEFINE v == bytes[pat[p].n]
           last1 == pat[p].n = MemorySites
           b == Append(pat[p].before, v)
           r == [pat[p] EXCEPT !.pc = IF last1 THEN "write" ELSE "read", !.n = IF last1 THEN 1 ELSE pat[p].n + 1,
                               !.before = b]
<1>1. PICK bad \in BOOLEAN :
        /\ IF pat[p].pid # pid THEN bad /\ UNCHANGED patchLeft ELSE Memory!Fault(bad)
        /\ pat' = [pat EXCEPT ![p] = IF bad \/ v \notin {0, 1} THEN Memory!Off ELSE r]
  BY MemoryCount DEF Memory!Preflight, Memory!Gone, Memory!Supported, Memory!Last
<1>2. /\ bytes' \in [Sites -> {0, 1, 2}] /\ patchLeft' = [fault |-> patchLeft'.fault, restart |-> patchLeft'.restart]
      /\ patchLeft'.fault \in 0 .. MaxFaults /\ patchLeft'.restart \in Nat /\ patchLeft'.fault <= patchLeft.fault
  <2>1. CASE UNCHANGED patchLeft
    BY <1>0, <2>1, MemoryCount DEF MemoryTypeOK
  <2>2. CASE Memory!Fault(bad)
    BY <1>0, <2>2, MemoryFault DEF MemoryTypeOK
  <2> QED BY <1>1, <2>1, <2>2
<1>3. /\ MaxFaults = 0 => \A s, t \in Sites : bytes'[s] = 1 /\ bytes'[t] # 1 =>
              \E q \in Patcher \ {p} : MemoryCurrent(q) /\ pat[q].pc = "write" /\ pat[q].n <= t
      /\ MaxFaults = 1 => \A s, t \in Sites : bytes'[s] = 1 => bytes'[t] = 1
      /\ pid' = pid /\ \A s \in Sites : bytes[s] = 1 => bytes'[s] = 1
  BY <1>0 DEF MemoryAgree, MemoryAlone
<1>4. CASE bad \/ v \notin {0, 1}
  <2>1. pat' = [pat EXCEPT ![p] = Memory!Off]
    BY <1>1, <1>4
  <2> HIDE DEF v, r
  <2> QED BY <1>2, <1>3, <2>1, MemoryOwnStep
<1>5. CASE ~bad /\ v \in {0, 1}
  <2>1. pat' = [pat EXCEPT ![p] = r] /\ pat[p].pid = pid
    BY <1>1, <1>5
  <2>2. /\ b \in Seq({0, 1}) /\ Len(b) = pat[p].n /\ b[pat[p].n] = v /\ \A s \in 1 .. (pat[p].n - 1) : b[s] = pat[p].before[s]
        /\ pat[p].n \in 1 .. MemorySites /\ MemorySites \in Nat
    <3>1. pat[p].n \in 1 .. MemorySites /\ MemorySites \in Nat
      BY <1>b, MemoryCount
    <3> HIDE DEF v
    <3> QED BY <1>5, <1>b, <3>1
  <2>3. MemoryCurrent(p)
    BY <1>a, <2>1 DEF MemoryCurrent
  <2>v. v = bytes[pat[p].n]
    OBVIOUS
  <2> HIDE DEF b, v
  <2>4. /\ r = [pc |-> r.pc, pid |-> r.pid, n |-> r.n, before |-> r.before, wrote |-> r.wrote]
        /\ r.pc = (IF last1 THEN "write" ELSE "read") /\ r.pid = pid /\ r.n = (IF last1 THEN 1 ELSE pat[p].n + 1)
        /\ r.before = b /\ r.wrote = pat[p].wrote
    <3>1. PICK pc1 : pc1 = IF last1 THEN "write" ELSE "read"
      OBVIOUS
    <3>2. PICK n1 : n1 = IF last1 THEN 1 ELSE pat[p].n + 1
      OBVIOUS
    <3>3. r = [pat[p] EXCEPT !.pc = pc1, !.n = n1, !.before = b]
      BY <3>1, <3>2
    <3> HIDE DEF r
    <3>4. r = [pc |-> pc1, pid |-> pat[p].pid, n |-> n1, before |-> b, wrote |-> pat[p].wrote]
      BY <1>b, <3>3
    <3> QED BY <2>1, <3>1, <3>2, <3>4
  <2> HIDE DEF r
  <2>5. /\ r.pc \in {"read", "write"} /\ r.pid \in Nat /\ r.pid <= pid /\ r.n \in Sites
        /\ r.before \in Seq({0, 1}) /\ r.wrote \in Seq(Sites)
        /\ Len(r.before) = IF r.pc = "read" THEN r.n - 1 ELSE MemorySites
    BY <1>b, <2>1, <2>2, <2>4, MemoryCount
  <2>6. \A s \in 1 .. Len(r.before) : s = pat[p].n \/ s \in 1 .. (pat[p].n - 1)
    BY <2>2, <2>4
  <2>7. \A s \in 1 .. Len(r.before) : r.before[s] = 1 => bytes'[s] = 1
    <3>1. \A s \in 1 .. Len(pat[p].before) : pat[p].before[s] = 1 => bytes[s] = 1
      BY <1>0, <2>3 DEF MemorySeen
    <3> QED BY <1>0, <1>b, <2>2, <2>4, <2>6, <2>v, <3>1
  <2>8. r.pc = "write" => \A s \in Sites : s < r.n => bytes'[s] = 1
    BY <2>4, MemoryCount
  <2>9. ASSUME MaxFaults = 1
        PROVE  /\ \A s \in 1 .. Len(r.before) : r.before[s] = bytes'[s]
               /\ \A s, t \in 1 .. Len(r.before) : r.before[s] = 1 => r.before[t] = 1
    <3>1. \A s \in 1 .. Len(pat[p].before) : pat[p].before[s] = bytes[s]
      BY <1>0, <2>3, <2>9 DEF MemoryAlone
    <3>2. \A s \in 1 .. Len(r.before) : r.before[s] = bytes'[s]
      BY <1>0, <1>b, <2>2, <2>4, <2>6, <2>v, <3>1
    <3>3. \A s \in 1 .. Len(r.before) : s \in Sites
      BY <2>2, <2>4, MemoryCount
    <3> QED BY <1>3, <2>9, <3>2, <3>3
  <2>10. ASSUME MaxFaults = 1, r.pc # "read", NEW s \in Sites, bytes'[s] = 1 PROVE r.before[s] = 1
    <3>1. s \in 1 .. Len(r.before)
      BY <2>5, <2>10, MemoryCount
    <3> QED BY <2>9, <2>10, <3>1
  <2>11. MaxFaults = 1 \/ \A s \in Sites : bytes[s] = 1 => bytes'[s] = 1
    BY <1>3
  <2> QED BY <1>2, <1>3, <2>1, <2>4, <2>5, <2>7, <2>8, <2>9, <2>10, <2>11, MemoryOwnStep
<1> QED BY <1>1, <1>4, <1>5

\* The record of a patcher that writes or restores, in a step that changes its place and
\* what it has written.
LEMMA MemoryField ==
    ASSUME NEW o, o = [pc |-> o.pc, pid |-> o.pid, n |-> o.n, before |-> o.before, wrote |-> o.wrote], NEW m, NEW w
    PROVE  /\ [o EXCEPT !.n = m] = [pc |-> o.pc, pid |-> o.pid, n |-> m, before |-> o.before, wrote |-> o.wrote]
           /\ [o EXCEPT !.wrote = w] = [pc |-> o.pc, pid |-> o.pid, n |-> o.n, before |-> o.before, wrote |-> w]
<1>1. [o EXCEPT !.n = m] = [pc |-> o.pc, pid |-> o.pid, n |-> m, before |-> o.before, wrote |-> o.wrote]
  OBVIOUS
<1>2. [o EXCEPT !.wrote = w] = [pc |-> o.pc, pid |-> o.pid, n |-> o.n, before |-> o.before, wrote |-> w]
  OBVIOUS
<1> QED BY <1>1, <1>2

\* A patcher's record, and what its fields are.
LEMMA MemoryRecord ==
    ASSUME NEW o, o = [pc |-> o.pc, pid |-> o.pid, n |-> o.n, before |-> o.before, wrote |-> o.wrote],
           NEW c, NEW w, NEW r, r = [o EXCEPT !.pc = c, !.wrote = w]
    PROVE  r = [pc |-> c, pid |-> o.pid, n |-> o.n, before |-> o.before, wrote |-> w]
  OBVIOUS

\* What a list holds after one more element.
LEMMA MemoryAppend ==
    ASSUME NEW S, NEW w \in Seq(S), NEW n \in S
    PROVE  /\ Append(w, n) \in Seq(S)
           /\ \E i \in 1 .. Len(Append(w, n)) : Append(w, n)[i] = n
           /\ \A s : (\E i \in 1 .. Len(w) : w[i] = s) => \E i \in 1 .. Len(Append(w, n)) : Append(w, n)[i] = s
<1>1. PICK a : a = Append(w, n)
  OBVIOUS
<1>2. a \in Seq(S) /\ Len(a) = Len(w) + 1 /\ Len(w) \in Nat /\ a[Len(w) + 1] = n /\ \A i \in 1 .. Len(w) : a[i] = w[i]
  BY <1>1
<1>3. Len(w) + 1 \in 1 .. Len(a) /\ \A i \in 1 .. Len(w) : i \in 1 .. Len(a)
  BY <1>2
<1> QED BY <1>1, <1>2, <1>3

\* The patcher goes on with the forth site, or is through.
LEMMA MemoryApply ==
    ASSUME MemoryConstants, MemoryInv, NEW p \in Patcher, Memory!ApplySite(p) PROVE MemoryInv'
<1>0. MemoryTypeOK /\ MemorySeen /\ MemoryAgree /\ MemoryAlone /\ pat[p].pc = "write" /\ pid' = pid
  BY DEF MemoryInv, Memory!ApplySite
<1>a. pat[p] # Memory!Off
  BY <1>0 DEF Memory!Off
<1> DEFINE o == pat[p]
           n == pat[p].n
<1>b. /\ o = [pc |-> o.pc, pid |-> o.pid, n |-> o.n, before |-> o.before, wrote |-> o.wrote] /\ o.pc = "write"
      /\ o.pid \in Nat /\ o.pid <= pid
      /\ n \in Sites /\ o.before \in Seq({0, 1}) /\ o.wrote \in Seq(Sites)
      /\ Len(o.before) = MemorySites /\ bytes \in [Sites -> {0, 1, 2}]
      /\ patchLeft = [fault |-> patchLeft.fault, restart |-> patchLeft.restart]
      /\ patchLeft.fault \in 0 .. MaxFaults /\ patchLeft.restart \in Nat
  BY <1>0, <1>a DEF MemoryTypeOK
<1>c. n \in 1 .. MemorySites /\ MemorySites \in Nat /\ Sites = 1 .. MemorySites /\ MaxFaults \in {0, 1}
  BY <1>b, MemoryCount
<1>d. ASSUME o.pid = pid
      PROVE  /\ \A s \in Sites : o.before[s] = 1 => bytes[s] = 1
             /\ \A s \in Sites : s < n => bytes[s] = 1
             /\ MaxFaults = 1 => /\ \A s, t \in Sites : o.before[s] = 1 => o.before[t] = 1
                                 /\ \A s \in Sites : bytes[s] = 1 =>
                                      o.before[s] = 1 \/ \E i \in 1 .. Len(o.wrote) : o.wrote[i] = s
  <2>1. MemoryCurrent(p)
    BY <1>a, <1>d DEF MemoryCurrent
  <2> QED BY <1>0, <1>b, <1>c, <2>1 DEF MemorySeen, MemoryAlone
<1>e. o.pid # pid /\ MaxFaults = 1 => \A s, t \in Sites : bytes[s] = 1 => bytes[t] = 1
  BY <1>0 DEF MemoryAlone, MemoryCurrent
<1>f. ASSUME MaxFaults = 0, NEW s \in Sites, NEW t \in Sites, bytes[s] = 1, bytes[t] # 1
      PROVE  \/ \E q \in Patcher \ {p} : MemoryCurrent(q) /\ pat[q].pc = "write" /\ pat[q].n <= t
             \/ o.pid = pid /\ n <= t
  BY <1>0, <1>f DEF MemoryAgree, MemoryCurrent
<1> DEFINE forth(r) == IF n = MemorySites THEN Memory!Off ELSE [r EXCEPT !.n = r.n + 1]
\* A site that is new is behind it.
<1>1. ASSUME NEW w \in Seq(Sites), patchLeft' = patchLeft, bytes' \in [Sites -> {0, 1, 2}],
             \A s \in Sites : bytes[s] = 1 => bytes'[s] = 1,
             \A s \in Sites \ {n} : bytes'[s] = bytes[s],
             o.pid = pid => bytes'[n] = 1, o.pid # pid => bytes' = bytes,
             \A s : (\E i \in 1 .. Len(o.wrote) : o.wrote[i] = s) => \E i \in 1 .. Len(w) : w[i] = s,
             o.before[n] = 1 \/ \E i \in 1 .. Len(w) : w[i] = n,
             pat' = [pat EXCEPT ![p] = forth([o EXCEPT !.wrote = w])]
      PROVE  MemoryInv'
  <2>1. CASE n = MemorySites
    <3>1. pat' = [pat EXCEPT ![p] = Memory!Off]
      BY <1>1, <2>1
    <3>2. MaxFaults = 0 => \A s, t \in Sites : bytes'[s] = 1 /\ bytes'[t] # 1 =>
              \E q \in Patcher \ {p} : MemoryCurrent(q) /\ pat[q].pc = "write" /\ pat[q].n <= t
      <4>1. ASSUME MaxFaults = 0, NEW s \in Sites, NEW t \in Sites, bytes'[s] = 1, bytes'[t] # 1
            PROVE  \E q \in Patcher \ {p} : MemoryCurrent(q) /\ pat[q].pc = "write" /\ pat[q].n <= t
        <5>1. CASE o.pid = pid
          <6>1. t < n
            BY <1>1, <1>c, <2>1, <4>1, <5>1
          <6> QED BY <1>1, <1>d, <4>1, <5>1, <6>1
        <5>2. CASE o.pid # pid
          BY <1>1, <1>f, <4>1, <5>2
        <5> QED BY <5>1, <5>2
      <4> QED BY <4>1
    <3>3. MaxFaults = 1 => \A s, t \in Sites : bytes'[s] = 1 => bytes'[t] = 1
      <4>1. CASE o.pid = pid
        <5>1. \A t \in Sites : t < n \/ t = n
          BY <1>c, <2>1
        <5> QED BY <1>1, <1>d, <4>1, <5>1
      <4>2. CASE o.pid # pid
        BY <1>1, <1>e, <4>2
      <4> QED BY <4>1, <4>2
    <3>4. /\ patchLeft' = [fault |-> patchLeft'.fault, restart |-> patchLeft'.restart]
          /\ patchLeft'.fault \in 0 .. MaxFaults /\ patchLeft'.restart \in Nat /\ patchLeft'.fault <= patchLeft.fault
      BY <1>1, <1>b, <1>c
    <3>5. /\ bytes' \in [Sites -> {0, 1, 2}] /\ pid' = pid
          /\ MaxFaults = 1 \/ \A s \in Sites : bytes[s] = 1 => bytes'[s] = 1
      BY <1>0, <1>1
    <3> HIDE DEF o, n, forth
    <3> QED BY <3>1, <3>2, <3>3, <3>4, <3>5, MemoryOwnStep
  <2>2. CASE n # MemorySites
    <3>1. PICK r : r = [[o EXCEPT !.wrote = w] EXCEPT !.n = n + 1]
      OBVIOUS
    <3>2. r = [pc |-> "write", pid |-> o.pid, n |-> n + 1, before |-> o.before, wrote |-> w]
      <4>1. PICK o1 : o1 = [o EXCEPT !.wrote = w]
        OBVIOUS
      <4>2. o1 = [pc |-> "write", pid |-> o.pid, n |-> n, before |-> o.before, wrote |-> w]
        BY <1>b, <4>1, MemoryField
      <4>3. /\ o1 = [pc |-> o1.pc, pid |-> o1.pid, n |-> o1.n, before |-> o1.before, wrote |-> o1.wrote]
            /\ o1.pc = "write" /\ o1.pid = o.pid /\ o1.before = o.before /\ o1.wrote = w
        BY <4>2
      <4>4. r = [o1 EXCEPT !.n = n + 1]
        BY <3>1, <4>1
      <4> HIDE DEF o, n
      <4>5. [o1 EXCEPT !.n = n + 1] = [pc |-> o1.pc, pid |-> o1.pid, n |-> n + 1, before |-> o1.before, wrote |-> o1.wrote]
        BY <4>3, MemoryField
      <4> QED BY <4>3, <4>4, <4>5
    <3>3. pat' = [pat EXCEPT ![p] = r]
      <4>1. [o EXCEPT !.wrote = w].n = n
        <5>1. [o EXCEPT !.wrote = w] = [pc |-> o.pc, pid |-> o.pid, n |-> o.n, before |-> o.before, wrote |-> w]
          BY <1>b, MemoryField
        <5> QED BY <5>1
      <4>2. forth([o EXCEPT !.wrote = w]) = [[o EXCEPT !.wrote = w] EXCEPT !.n = [o EXCEPT !.wrote = w].n + 1]
        BY <2>2
      <4> QED BY <1>1, <3>1, <4>1, <4>2
    <3>4. /\ r = [pc |-> r.pc, pid |-> r.pid, n |-> r.n, before |-> r.before, wrote |-> r.wrote]
          /\ r.pc = "write" /\ r.pid = o.pid /\ r.n = n + 1 /\ r.before = o.before /\ r.wrote = w
      BY <3>2
    <3>5. r # Memory!Off
      BY <3>4 DEF Memory!Off
    <3> HIDE DEF o, n
    <3>6. /\ r.pc \in {"read", "write", "undo"} /\ r.pid \in Nat /\ r.pid <= pid /\ r.n \in Sites
          /\ r.before \in Seq({0, 1}) /\ r.wrote \in Seq(Sites) /\ Len(r.before) = MemorySites
      BY <1>b, <1>c, <2>2, <3>4
    <3>7. ASSUME r.pid = pid
          PROVE  /\ \A s \in 1 .. Len(r.before) : r.before[s] = 1 => bytes'[s] = 1
                 /\ \A s \in Sites : s < r.n => bytes'[s] = 1
                 /\ \A s \in Sites : s < n + 1 => s < n \/ s = n
      <4>1. \A s \in Sites : s < n + 1 => s < n \/ s = n
        BY <1>c
      <4>2. \A s \in 1 .. Len(r.before) : s \in Sites
        BY <1>c, <3>6
      <4> QED BY <1>1, <1>d, <3>4, <3>7, <4>1, <4>2
    <3>8. MaxFaults = 0 => \A s, t \in Sites : bytes'[s] = 1 /\ bytes'[t] # 1 =>
              \/ \E q \in Patcher \ {p} : MemoryCurrent(q) /\ pat[q].pc = "write" /\ pat[q].n <= t
              \/ r # Memory!Off /\ r.pid = pid /\ r.pc = "write" /\ r.n <= t
      <4>1. ASSUME MaxFaults = 0, NEW s \in Sites, NEW t \in Sites, bytes'[s] = 1, bytes'[t] # 1
            PROVE  \/ \E q \in Patcher \ {p} : MemoryCurrent(q) /\ pat[q].pc = "write" /\ pat[q].n <= t
                   \/ r # Memory!Off /\ r.pid = pid /\ r.pc = "write" /\ r.n <= t
        <5>1. CASE o.pid = pid
          <6>1. ~(t < n) /\ t # n
            BY <1>1, <1>d, <4>1, <5>1
          <6>2. n + 1 <= t
            BY <1>c, <6>1
          <6> QED BY <3>4, <3>5, <5>1, <6>2
        <5>2. CASE o.pid # pid
          BY <1>1, <1>f, <4>1, <5>2
        <5> QED BY <5>1, <5>2
      <4> QED BY <4>1
    <3>9. ASSUME MaxFaults = 1
          PROVE  /\ r.pid # pid => \A s, t \in Sites : bytes'[s] = 1 => bytes'[t] = 1
                 /\ r.pid = pid => \A s, t \in 1 .. Len(r.before) : r.before[s] = 1 => r.before[t] = 1
                 /\ r.pid = pid => \A s \in Sites : bytes'[s] = 1 =>
                       r.before[s] = 1 \/ \E i \in 1 .. Len(r.wrote) : r.wrote[i] = s
      <4>1. \A s \in 1 .. Len(r.before) : s \in Sites
        BY <1>c, <3>6
      <4>2. r.pid # pid => \A s, t \in Sites : bytes'[s] = 1 => bytes'[t] = 1
        BY <1>1, <1>e, <3>4, <3>9
      <4>3. r.pid = pid => \A s, t \in 1 .. Len(r.before) : r.before[s] = 1 => r.before[t] = 1
        BY <1>d, <3>4, <3>9, <4>1
      <4>4. ASSUME r.pid = pid, NEW s \in Sites, bytes'[s] = 1
            PROVE  r.before[s] = 1 \/ \E i \in 1 .. Len(r.wrote) : r.wrote[i] = s
        BY <1>1, <1>d, <3>4, <3>9, <4>4
      <4> QED BY <4>2, <4>3, <4>4
    <3>10. /\ patchLeft' = [fault |-> patchLeft'.fault, restart |-> patchLeft'.restart]
           /\ patchLeft'.fault \in 0 .. MaxFaults /\ patchLeft'.restart \in Nat /\ patchLeft'.fault <= patchLeft.fault
      BY <1>1, <1>b, <1>c
    <3>11. /\ r.pc # "read" /\ r.pc # "undo" /\ bytes' \in [Sites -> {0, 1, 2}] /\ pid' = pid
           /\ Len(r.before) = IF r.pc = "read" THEN r.n - 1 ELSE MemorySites
           /\ \A s \in Sites : bytes[s] = 1 => bytes'[s] = 1
      BY <1>0, <1>1, <3>4, <3>6
    <3>12. r = [pc |-> r.pc, pid |-> r.pid, n |-> r.n, before |-> r.before, wrote |-> r.wrote]
      BY <3>4
    <3> QED BY <3>3, <3>5, <3>6, <3>7, <3>8, <3>9, <3>10, <3>11, <3>12, MemoryOwnStep
  <2> QED BY <2>1, <2>2
<1>2. CASE o.before[n] = 1
  <2>1. pat' = [pat EXCEPT ![p] = forth(o)] /\ bytes' = bytes /\ patchLeft' = patchLeft
    BY <1>2, MemoryCount DEF Memory!ApplySite, Memory!Next1, Memory!Last
  <2>2. [o EXCEPT !.wrote = o.wrote] = o
    <3> HIDE DEF o
    <3> QED BY <1>b, MemoryField
  <2>3. pat' = [pat EXCEPT ![p] = forth([o EXCEPT !.wrote = o.wrote])]
    BY <2>1, <2>2
  <2> HIDE DEF forth, o, n
  <2> QED BY <1>1, <1>2, <1>b, <1>d, <2>1, <2>3
<1>3. CASE o.before[n] # 1
  <2>1. PICK done \in BOOLEAN, bad \in BOOLEAN :
          /\ done \/ bad
          /\ IF o.pid # pid THEN bad /\ ~done /\ UNCHANGED patchLeft ELSE Memory!Fault(bad)
          /\ bytes' = IF done THEN [bytes EXCEPT ![n] = 1] ELSE bytes
          /\ pat' = [pat EXCEPT ![p] = IF bad THEN [o EXCEPT !.pc = "undo", !.wrote = Append(o.wrote, n)]
                                       ELSE forth([o EXCEPT !.wrote = Append(o.wrote, n)])]
    BY <1>3, MemoryCount DEF Memory!ApplySite, Memory!Next1, Memory!Last, Memory!Gone, Memory!AmongWritten
  <2>2. PICK w : w = Append(o.wrote, n)
    OBVIOUS
  <2>3. /\ w \in Seq(Sites) /\ \E i \in 1 .. Len(w) : w[i] = n
        /\ \A s : (\E i \in 1 .. Len(o.wrote) : o.wrote[i] = s) => \E i \in 1 .. Len(w) : w[i] = s
    <3>1. PICK v : v = o.wrote
      OBVIOUS
    <3>2. PICK k : k = n
      OBVIOUS
    <3>3. v \in Seq(Sites) /\ k \in Sites /\ w = Append(v, k)
      BY <1>b, <2>2, <3>1, <3>2
    <3>4. /\ w \in Seq(Sites) /\ \E i \in 1 .. Len(w) : w[i] = k
          /\ \A s : (\E i \in 1 .. Len(v) : v[i] = s) => \E i \in 1 .. Len(w) : w[i] = s
      BY <3>3, MemoryAppend
    <3> QED BY <3>1, <3>2, <3>4
  <2>4. /\ bytes' \in [Sites -> {0, 1, 2}] /\ \A s \in Sites : bytes[s] = 1 => bytes'[s] = 1
        /\ \A s \in Sites \ {n} : bytes'[s] = bytes[s]
    <3> HIDE DEF o, n
    <3>1. CASE done
      <4>1. bytes' = [bytes EXCEPT ![n] = 1]
        BY <2>1, <3>1
      <4>2. \A s \in Sites : bytes'[s] = IF s = n THEN 1 ELSE bytes[s]
        BY <1>b, <4>1
      <4> QED BY <1>b, <3>1, <4>1, <4>2
    <3>2. CASE ~done
      BY <1>b, <2>1, <3>2
    <3> QED BY <3>1, <3>2
  <2>5. CASE ~bad
    <3>1. done /\ o.pid = pid /\ patchLeft' = patchLeft
      BY <1>0, <2>1, <2>5, MemoryFault
    <3>2. pat' = [pat EXCEPT ![p] = forth([o EXCEPT !.wrote = w])]
      BY <2>1, <2>2, <2>5
    <3>3. bytes'[n] = 1 /\ \A s \in Sites \ {n} : bytes'[s] = bytes[s]
      <4> HIDE DEF o, n
      <4>1. bytes' = [bytes EXCEPT ![n] = 1]
        BY <2>1, <3>1
      <4> QED BY <1>b, <4>1
    <3> HIDE DEF forth, o, n
    <3> QED BY <1>1, <2>3, <2>4, <3>1, <3>2, <3>3
  <2>6. CASE bad
    <3>1. PICK r : r = [pc |-> "undo", pid |-> o.pid, n |-> n, before |-> o.before, wrote |-> w]
      OBVIOUS
    <3>2. pat' = [pat EXCEPT ![p] = r]
      <4>1. pat' = [pat EXCEPT ![p] = [o EXCEPT !.pc = "undo", !.wrote = w]]
        BY <2>1, <2>2, <2>6
      <4>2. PICK x : x = [o EXCEPT !.pc = "undo", !.wrote = w]
        OBVIOUS
      <4>3. x = r
        <5>1. n = o.n
          OBVIOUS
        <5> HIDE DEF o, n
        <5>2. x = [pc |-> "undo", pid |-> o.pid, n |-> o.n, before |-> o.before, wrote |-> w]
          BY <1>b, <4>2, MemoryRecord
        <5> QED BY <3>1, <5>1, <5>2
      <4> QED BY <4>1, <4>2, <4>3
    <3>3. /\ r = [pc |-> r.pc, pid |-> r.pid, n |-> r.n, before |-> r.before, wrote |-> r.wrote]
          /\ r.pc = "undo" /\ r.pid = o.pid /\ r.n = n /\ r.before = o.before /\ r.wrote = w
      BY <3>1
    <3>4. r # Memory!Off
      BY <3>3 DEF Memory!Off
    <3>5. /\ patchLeft' = [fault |-> patchLeft'.fault, restart |-> patchLeft'.restart]
          /\ patchLeft'.fault \in 0 .. MaxFaults /\ patchLeft'.restart \in Nat /\ patchLeft'.fault <= patchLeft.fault
          /\ o.pid = pid => patchLeft'.fault < MaxFaults
      <4>1. CASE o.pid # pid
        <5>1. patchLeft' = patchLeft
          BY <2>1, <4>1
        <5> QED BY <1>b, <1>c, <4>1, <5>1
      <4>2. CASE o.pid = pid
        BY <1>0, <2>1, <2>6, <4>2, MemoryFault
      <4> QED BY <4>1, <4>2
    <3>6. o.pid = pid => MaxFaults = 1
      BY <1>c, <3>5
    <3>7. o.pid # pid => bytes' = bytes
      BY <2>1
    <3> HIDE DEF o, n, forth
    <3>8. /\ r.pc \in {"read", "write", "undo"} /\ r.pid \in Nat /\ r.pid <= pid /\ r.n \in Sites
          /\ r.before \in Seq({0, 1}) /\ r.wrote \in Seq(Sites)
          /\ Len(r.before) = IF r.pc = "read" THEN r.n - 1 ELSE MemorySites
      BY <1>b, <2>3, <3>3
    <3>9. \A s \in 1 .. Len(r.before) : s \in Sites
      BY <1>b, <1>c, <3>3
    <3>10. r.pid = pid => \A s \in 1 .. Len(r.before) : r.before[s] = 1 => bytes'[s] = 1
      BY <1>d, <2>4, <3>3, <3>9
    <3>11. ASSUME MaxFaults = 0, NEW s \in Sites, NEW t \in Sites, bytes'[s] = 1, bytes'[t] # 1
           PROVE  \E q \in Patcher \ {p} : MemoryCurrent(q) /\ pat[q].pc = "write" /\ pat[q].n <= t
      <4>1. o.pid # pid /\ bytes' = bytes
        BY <3>6, <3>7, <3>11
      <4> QED BY <1>f, <3>11, <4>1
    <3>12. MaxFaults = 1 /\ r.pid # pid => \A s, t \in Sites : bytes'[s] = 1 => bytes'[t] = 1
      BY <1>e, <3>3, <3>7
    <3>13. MaxFaults = 1 /\ r.pid = pid => \A s, t \in 1 .. Len(r.before) : r.before[s] = 1 => r.before[t] = 1
      BY <1>d, <3>3, <3>9
    <3>14. ASSUME MaxFaults = 1, r.pid = pid, NEW s \in Sites, bytes'[s] = 1
           PROVE  r.before[s] = 1 \/ \E i \in 1 .. Len(r.wrote) : r.wrote[i] = s
      <4>1. CASE s = n
        BY <2>3, <3>3, <4>1
      <4>2. CASE s # n
        <5>1. bytes[s] = 1 /\ o.pid = pid
          BY <2>4, <3>3, <3>14, <4>2
        <5>2. o.before[s] = 1 \/ \E i \in 1 .. Len(o.wrote) : o.wrote[i] = s
          BY <1>d, <3>14, <5>1
        <5> QED BY <2>3, <3>3, <5>2
      <4> QED BY <4>1, <4>2
    <3>15. r = [pc |-> r.pc, pid |-> r.pid, n |-> r.n, before |-> r.before, wrote |-> r.wrote]
           /\ r.pc # "read" /\ r.pc # "write"
      BY <3>3
    <3>16. pid' = pid /\ bytes' \in [Sites -> {0, 1, 2}] /\ \A s \in Sites : bytes[s] = 1 => bytes'[s] = 1
      BY <1>0, <2>4
    <3>17. r.pid = pid => patchLeft'.fault < MaxFaults
      BY <3>3, <3>5
    <3> QED BY <3>2, <3>4, <3>5, <3>8, <3>10, <3>11, <3>12, <3>13, <3>14, <3>15, <3>16, <3>17, MemoryOwnStep
  <2> QED BY <2>5, <2>6
<1> QED BY <1>2, <1>3

\* Restoring takes back the last site written.
LEMMA MemoryRollback ==
    ASSUME MemoryConstants, MemoryInv, NEW p \in Patcher, Memory!RollbackSite(p) PROVE MemoryInv'
<1>0. MemoryTypeOK /\ MemorySeen /\ MemoryAgree /\ MemoryAlone /\ pat[p].pc = "undo" /\ pid' = pid
  BY DEF MemoryInv, Memory!RollbackSite
<1>a. pat[p] # Memory!Off
  BY <1>0 DEF Memory!Off
<1> DEFINE o == pat[p]
           w == pat[p].wrote
<1>b. /\ o = [pc |-> o.pc, pid |-> o.pid, n |-> o.n, before |-> o.before, wrote |-> o.wrote] /\ o.pc = "undo"
      /\ o.pid \in Nat /\ o.pid <= pid /\ o.wrote = w
      /\ o.n \in Sites /\ o.before \in Seq({0, 1}) /\ w \in Seq(Sites)
      /\ Len(o.before) = MemorySites /\ bytes \in [Sites -> {0, 1, 2}]
      /\ patchLeft = [fault |-> patchLeft.fault, restart |-> patchLeft.restart]
      /\ patchLeft.fault \in 0 .. MaxFaults /\ patchLeft.restart \in Nat
  BY <1>0, <1>a DEF MemoryTypeOK
<1>c. MemorySites \in Nat /\ Sites = 1 .. MemorySites /\ MaxFaults \in {0, 1}
  BY MemoryCount
<1>d. ASSUME o.pid = pid
      PROVE  /\ \A s \in Sites : o.before[s] = 1 => bytes[s] = 1
             /\ MaxFaults = 1 /\ patchLeft.fault = 0
             /\ \A s, t \in Sites : o.before[s] = 1 => o.before[t] = 1
             /\ \A s \in Sites : bytes[s] = 1 => o.before[s] = 1 \/ \E i \in 1 .. Len(w) : w[i] = s
  <2>1. MemoryCurrent(p)
    BY <1>a, <1>d DEF MemoryCurrent
  <2>2. patchLeft.fault < MaxFaults /\ \A s \in Sites : o.before[s] = 1 => bytes[s] = 1
    BY <1>0, <1>b, <1>c, <2>1 DEF MemorySeen
  <2>3. MaxFaults = 1 /\ patchLeft.fault = 0
    BY <1>b, <1>c, <2>2
  <2>4. /\ \A s, t \in 1 .. Len(o.before) : o.before[s] = 1 => o.before[t] = 1
        /\ o.pc # "read" => \A s \in Sites : bytes[s] = 1 =>
                              o.before[s] = 1 \/ \E i \in 1 .. Len(w) : w[i] = s
    BY <1>0, <2>1, <2>3 DEF MemoryAlone
  <2>5. Sites = 1 .. Len(o.before) /\ o.pc # "read"
    BY <1>b, <1>c
  <2> HIDE DEF o, w
  <2> QED BY <2>2, <2>3, <2>4, <2>5
<1>e. o.pid # pid /\ MaxFaults = 1 => \A s, t \in Sites : bytes[s] = 1 => bytes[t] = 1
  BY <1>0 DEF MemoryAlone, MemoryCurrent
<1>f. ASSUME MaxFaults = 0, NEW s \in Sites, NEW t \in Sites, bytes[s] = 1, bytes[t] # 1
      PROVE  \E q \in Patcher \ {p} : MemoryCurrent(q) /\ pat[q].pc = "write" /\ pat[q].n <= t
  <2>1. PICK q \in Patcher : MemoryCurrent(q) /\ pat[q].pc = "write" /\ pat[q].n <= t
    BY <1>0, <1>f DEF MemoryAgree
  <2> QED BY <1>0, <2>1
<1>1. CASE w = <<>>
  <2>1. pat' = [pat EXCEPT ![p] = Memory!Off] /\ bytes' = bytes /\ patchLeft' = patchLeft
    BY <1>1 DEF Memory!RollbackSite
  <2>2. MaxFaults = 1 => \A s, t \in Sites : bytes'[s] = 1 => bytes'[t] = 1
    <3>1. CASE o.pid = pid
      <4>1. \A i \in 1 .. Len(w) : FALSE
        BY <1>1
      <4> HIDE DEF o, w
      <4> QED BY <1>d, <2>1, <3>1, <4>1
    <3>2. CASE o.pid # pid
      BY <1>e, <2>1, <3>2
    <3> QED BY <3>1, <3>2
  <2>3. MaxFaults = 0 => \A s, t \in Sites : bytes'[s] = 1 /\ bytes'[t] # 1 =>
              \E q \in Patcher \ {p} : MemoryCurrent(q) /\ pat[q].pc = "write" /\ pat[q].n <= t
    BY <1>f, <2>1
  <2>4. /\ patchLeft' = [fault |-> patchLeft'.fault, restart |-> patchLeft'.restart]
        /\ patchLeft'.fault \in 0 .. MaxFaults /\ patchLeft'.restart \in Nat /\ patchLeft'.fault <= patchLeft.fault
        /\ bytes' \in [Sites -> {0, 1, 2}] /\ pid' = pid
        /\ MaxFaults = 1 \/ \A s \in Sites : bytes[s] = 1 => bytes'[s] = 1
    BY <1>0, <1>b, <1>c, <2>1
  <2> HIDE DEF o, w
  <2> QED BY <2>1, <2>2, <2>3, <2>4, MemoryOwnStep
<1>2. CASE w # <<>>
  <2> DEFINE n == w[Len(w)]
  <2>1. PICK bad \in BOOLEAN :
          /\ IF o.pid # pid THEN bad /\ UNCHANGED patchLeft ELSE Memory!Fault(bad)
          /\ bytes' = IF bad THEN bytes ELSE [bytes EXCEPT ![n] = o.before[n]]
          /\ pat' = [pat EXCEPT ![p] = [o EXCEPT !.wrote = SubSeq(w, 1, Len(w) - 1)]]
    BY <1>2 DEF Memory!RollbackSite, Memory!Gone
  <2>2. PICK x : x = SubSeq(w, 1, Len(w) - 1)
    OBVIOUS
  <2>3. /\ x \in Seq(Sites) /\ n \in Sites
        /\ \A s : (\E i \in 1 .. Len(w) : w[i] = s) => s = n \/ \E i \in 1 .. Len(x) : x[i] = s
    <3>1. PICK v : v = w
      OBVIOUS
    <3>2. v \in Seq(Sites) /\ v # <<>> /\ x = SubSeq(v, 1, Len(v) - 1)
      BY <1>2, <1>b, <2>2, <3>1
    <3>3. x \in Seq(Sites) /\ Len(x) = Len(v) - 1 /\ (\A i \in 1 .. (Len(v) - 1) : x[i] = v[i]) /\ Len(v) \in Nat \ {0}
      <4>1. Len(v) \in Nat \ {0} /\ \A i \in 1 .. Len(v) : v[i] \in Sites
        BY <3>2
      <4>2. \A i \in 1 .. (Len(v) - 1) : v[i] \in Sites
        BY <4>1
      <4>3. x = [i \in 1 .. (Len(v) - 1) |-> v[i]]
        BY <3>2, <4>1
      <4>4. x \in Seq(Sites) /\ Len(x) = Len(v) - 1
        BY <4>1, <4>2, <4>3
      <4> QED BY <4>1, <4>3, <4>4
    <3>4. v[Len(v)] \in Sites /\ \A i \in 1 .. Len(v) : i = Len(v) \/ i \in 1 .. Len(x)
      BY <3>2, <3>3
    <3> QED BY <3>1, <3>3, <3>4
  <2>4. PICK r : r = [o EXCEPT !.wrote = x]
    OBVIOUS
  <2>5. pat' = [pat EXCEPT ![p] = r]
    BY <2>1, <2>2, <2>4
  <2>n. PICK k : k = n
    OBVIOUS
  <2> HIDE DEF n, w
  <2>6. r = [pc |-> "undo", pid |-> o.pid, n |-> o.n, before |-> o.before, wrote |-> x]
    <3> HIDE DEF o
    <3>1. [o EXCEPT !.wrote = x] = [pc |-> o.pc, pid |-> o.pid, n |-> o.n, before |-> o.before, wrote |-> x]
      BY <1>b, MemoryField
    <3> QED BY <1>b, <2>4, <3>1
  <2>7. /\ r = [pc |-> r.pc, pid |-> r.pid, n |-> r.n, before |-> r.before, wrote |-> r.wrote]
        /\ r.pc = "undo" /\ r.pid = o.pid /\ r.n = o.n /\ r.before = o.before /\ r.wrote = x
    BY <2>6
  <2>8. r # Memory!Off
    BY <2>7 DEF Memory!Off
  <2> HIDE DEF o
  <2>9. o.pid # pid => bytes' = bytes /\ patchLeft' = patchLeft
    BY <2>1
  <2>10. o.pid = pid => bytes' = [bytes EXCEPT ![k] = o.before[k]] /\ patchLeft' = patchLeft
    <3>1. ASSUME o.pid = pid PROVE ~bad /\ patchLeft' = patchLeft
      <4>1. Memory!Fault(bad) /\ patchLeft.fault = 0
        BY <1>d, <2>1, <3>1
      <4> QED BY <1>0, <4>1, MemoryFault
    <3> QED BY <2>1, <2>n, <3>1
  <2>11. /\ patchLeft' = [fault |-> patchLeft'.fault, restart |-> patchLeft'.restart]
         /\ patchLeft'.fault \in 0 .. MaxFaults /\ patchLeft'.restart \in Nat /\ patchLeft'.fault <= patchLeft.fault
         /\ patchLeft' = patchLeft
    BY <1>b, <1>c, <2>9, <2>10
  <2>12. o.pid = pid => \A s \in Sites : bytes'[s] = IF s = k THEN o.before[s] ELSE bytes[s]
    BY <1>b, <2>10
  <2>13. \A s \in Sites : o.before[s] \in {0, 1}
    BY <1>b, <1>c
  <2>14. bytes' \in [Sites -> {0, 1, 2}]
    <3>1. CASE o.pid # pid
      BY <1>b, <2>9, <3>1
    <3>2. CASE o.pid = pid
      <4>1. k \in Sites /\ o.before[k] \in {0, 1, 2}
        BY <2>3, <2>n, <2>13
      <4> QED BY <1>b, <2>10, <3>2, <4>1
    <3> QED BY <3>1, <3>2
  <2>15. MaxFaults = 1 \/ \A s \in Sites : bytes[s] = 1 => bytes'[s] = 1
    BY <1>d, <2>9
  <2>16. /\ r.pc \in {"read", "write", "undo"} /\ r.pid \in Nat /\ r.pid <= pid /\ r.n \in Sites
         /\ r.before \in Seq({0, 1}) /\ r.wrote \in Seq(Sites)
         /\ Len(r.before) = IF r.pc = "read" THEN r.n - 1 ELSE MemorySites
    BY <1>b, <2>3, <2>7
  <2>17. \A s \in 1 .. Len(r.before) : s \in Sites
    BY <1>b, <1>c, <2>7
  <2>18. r.pid = pid => \A s \in 1 .. Len(r.before) : r.before[s] = 1 => bytes'[s] = 1
    BY <1>d, <2>7, <2>12, <2>17
  <2>19. r.pid = pid => patchLeft'.fault < MaxFaults
    BY <1>d, <2>7, <2>11
  <2>20. ASSUME MaxFaults = 0, NEW s \in Sites, NEW t \in Sites, bytes'[s] = 1, bytes'[t] # 1
         PROVE  \E q \in Patcher \ {p} : MemoryCurrent(q) /\ pat[q].pc = "write" /\ pat[q].n <= t
    <3>1. bytes' = bytes
      BY <1>d, <2>9, <2>20
    <3> QED BY <1>f, <2>20, <3>1
  <2>21. MaxFaults = 1 /\ r.pid # pid => \A s, t \in Sites : bytes'[s] = 1 => bytes'[t] = 1
    BY <1>e, <2>7, <2>9
  <2>22. r.pid = pid => \A s, t \in 1 .. Len(r.before) : r.before[s] = 1 => r.before[t] = 1
    BY <1>d, <2>7, <2>17
  <2>23. ASSUME r.pid = pid, NEW s \in Sites, bytes'[s] = 1
         PROVE  r.before[s] = 1 \/ \E i \in 1 .. Len(r.wrote) : r.wrote[i] = s
    <3>1. CASE s = k
      BY <2>7, <2>12, <2>23, <3>1
    <3>2. CASE s # k
      <4>1. bytes[s] = 1
        BY <2>7, <2>12, <2>23, <3>2
      <4>2. o.before[s] = 1 \/ \E i \in 1 .. Len(w) : w[i] = s
        BY <1>d, <2>7, <2>23, <4>1
      <4> QED BY <2>3, <2>7, <2>n, <3>2, <4>2
    <3> QED BY <3>1, <3>2
  <2>24. /\ r = [pc |-> r.pc, pid |-> r.pid, n |-> r.n, before |-> r.before, wrote |-> r.wrote]
         /\ r.pc # "read" /\ r.pc # "write" /\ pid' = pid
    BY <1>0, <2>7
  <2> QED BY <2>5, <2>8, <2>11, <2>14, <2>15, <2>16, <2>18, <2>19, <2>20, <2>21, <2>22, <2>23, <2>24, MemoryOwnStep
<1> QED BY <1>1, <1>2

\* Every step, a step of the files included.
LEMMA MemoryStep == ASSUME MemoryConstants, MemoryInv, [Memory!Next]_(Memory!vars) PROVE MemoryInv'
<1>1. CASE UNCHANGED Memory!vars
  BY <1>1, MemoryAside DEF Memory!vars
<1>2. CASE \/ \E f \in File : Memory!VendorUpdates(f)
           \/ Memory!InstallAuctionSearchGuard \/ Memory!PatchPVFUpgradeSeparate
  <2>1. UNCHANGED <<bytes, pid, pat, patchLeft>>
    BY <1>2 DEF Memory!VendorUpdates, Memory!InstallAuctionSearchGuard, Memory!PatchPVFUpgradeSeparate, Memory!Take,
         Memory!memVars
  <2> QED BY <2>1, MemoryAside
<1>3. CASE Memory!WriteTemp \/ Memory!RemoveOldest \/ Memory!Shift \/ Memory!Publish \/ Memory!Replace
  <2>1. UNCHANGED <<bytes, pid, pat>>
    BY <1>3 DEF Memory!WriteTemp, Memory!RemoveOldest, Memory!Shift, Memory!Publish, Memory!Replace, Memory!memVars
  <2>2. \E bad \in BOOLEAN : Memory!Fault(bad)
    BY <1>3 DEF Memory!WriteTemp, Memory!RemoveOldest, Memory!Shift, Memory!Publish, Memory!Replace, Memory!Step
  <2> QED BY <2>1, <2>2, MemoryAside
<1>4. CASE Memory!Restarts
  BY <1>4, MemoryRestarts
<1>5. CASE \E p \in Patcher : \/ Memory!PatchBegins(p) \/ Memory!Preflight(p)
                              \/ Memory!ApplySite(p) \/ Memory!RollbackSite(p)
  BY <1>5, MemoryBegins, MemoryPreflight, MemoryApply, MemoryRollback
<1> QED BY <1>1, <1>2, <1>3, <1>4, <1>5 DEF Memory!Next

\* Whichever single step fails, and when several calls overlap and none fails,
\* df_auction_r has all bytes patched or none while no call runs
\* (applyAuctionMemoryPatches, rollbackAuctionMemoryPatches).
THEOREM MemoryAllBytesOrNone ==
    ASSUME MemoryConstants
    PROVE  Memory!Spec => []Memory!AllBytesOrNone
<1>1. Memory!Init => MemoryInv
  BY MemoryInit
<1>2. MemoryInv /\ [Memory!Next]_(Memory!vars) => MemoryInv'
  BY MemoryStep
<1>3. MemoryInv => Memory!AllBytesOrNone
  <2>1. ASSUME MemoryInv, \A p \in DOMAIN pat : pat[p] = Memory!Off, NEW s \in Sites, NEW t \in Sites, bytes[s] = 1
        PROVE  bytes[t] = 1
    <3>0. \A p \in Patcher : pat[p] = Memory!Off
      BY <2>1 DEF MemoryInv, MemoryTypeOK
    <3>1. CASE MaxFaults = 0
      BY <2>1, <3>0, <3>1 DEF MemoryInv, MemoryAgree, MemoryCurrent
    <3>2. CASE MaxFaults = 1 /\ Patcher # {}
      BY <2>1, <3>0, <3>2 DEF MemoryInv, MemoryAlone, MemoryCurrent
    <3>3. CASE Patcher = {}
      BY <2>1, <3>3 DEF MemoryInv, MemoryNobody
    <3> QED BY <3>1, <3>2, <3>3, MemoryCount
  <2> QED BY <2>1 DEF Memory!AllBytesOrNone
<1> QED BY <1>1, <1>2, <1>3, PTL DEF Memory!Spec

-----------------------------------------------------------------------------
(* MarketPatches: the copies of the game's files.                          *)

BackupSpent == MaxFaults - patchLeft.fault

BackupTypeOK ==
    /\ DOMAIN cur = File /\ bak \in [File -> [0 .. (Count - 1) -> Nat]] /\ saves \in [File -> Seq(Nat)]
    /\ \A f \in File : /\ cur[f] = [ver |-> cur[f].ver, patched |-> cur[f].patched]
                       /\ cur[f].ver \in Nat \ {0} /\ cur[f].patched \in BOOLEAN
    /\ patchLeft = [fault |-> patchLeft.fault, restart |-> patchLeft.restart]
    /\ patchLeft.fault \in 0 .. MaxFaults /\ patchLeft.restart \in Nat

\* What holds patchMu: the file it works on is not patched and does not change.
BackupJob ==
    fileJob = Memory!Free \/
      /\ fileJob = [file |-> fileJob.file, pc |-> fileJob.pc, data |-> fileJob.data, n |-> fileJob.n]
      /\ fileJob.file \in File /\ fileJob.pc \in {"temp", "remove", "shift", "publish", "replace"}
      /\ fileJob.data = cur[fileJob.file].ver /\ cur[fileJob.file].patched = FALSE
      /\ fileJob.pc = "shift" => fileJob.n \in 0 .. (Count - 2)

\* A patched file's version is the newest copy, and is it before the file is replaced.
BackupNewest ==
    /\ \A f \in File : cur[f].patched = TRUE => bak[f][0] = cur[f].ver
    /\ fileJob.pc = "replace" =>
         /\ bak[fileJob.file][0] = fileJob.data
         /\ saves[fileJob.file] # <<>> /\ saves[fileJob.file][1] = fileJob.data

\* This version was saved by a Save whose replacement failed: the next Save moves the
\* copies without adding one.
BackupRepeats(f) ==
    /\ saves[f] # <<>> /\ saves[f][1] = cur[f].ver /\ cur[f].patched = FALSE
    /\ ~(fileJob.file = f /\ fileJob.pc = "replace")

\* Where the rotation has moved a copy.
BackupMoved(f, k) ==
    fileJob.file = f /\ (fileJob.pc = "publish" \/ (fileJob.pc = "shift" /\ k > fileJob.n))

BackupSaved(f) ==
    \A i \in 1 .. Len(saves[f]) :
      /\ saves[f][i] \in 1 .. cur[f].ver
      /\ i <= Count - 1 - BackupSpent =>
           \E k \in 0 .. (i - 1 + BackupSpent - (IF BackupRepeats(f) THEN 1 ELSE 0)) :
             bak[f][IF BackupMoved(f, k) THEN k + 1 ELSE k] = saves[f][i]

BackupInv == BackupTypeOK /\ BackupJob /\ BackupNewest /\ \A f \in File : BackupSaved(f)

\* A fault is spent or there is none.
LEMMA BackupFault ==
    ASSUME BackupConstants, BackupTypeOK, NEW bad \in BOOLEAN, Memory!Fault(bad)
    PROVE  /\ patchLeft' = [fault |-> patchLeft'.fault, restart |-> patchLeft'.restart]
           /\ patchLeft'.fault \in 0 .. MaxFaults /\ patchLeft'.restart \in Nat
           /\ bad => BackupSpent' = BackupSpent + 1
           /\ ~bad => BackupSpent' = BackupSpent
           /\ BackupSpent \in Nat /\ BackupSpent' \in Nat
<1>0. /\ patchLeft = [fault |-> patchLeft.fault, restart |-> patchLeft.restart]
      /\ patchLeft.fault \in 0 .. MaxFaults /\ patchLeft.restart \in Nat /\ MaxFaults \in Nat
  BY DEF BackupTypeOK, BackupConstants
<1>1. CASE bad
  <2>1. patchLeft["fault"] > 0 /\ patchLeft' = [patchLeft EXCEPT !["fault"] = patchLeft["fault"] - 1]
    BY <1>1 DEF Memory!Fault, Memory!Spend
  <2>2. patchLeft' = [fault |-> patchLeft.fault - 1, restart |-> patchLeft.restart] /\ patchLeft.fault > 0
    BY <1>0, <2>1
  <2>3. patchLeft'.fault = patchLeft.fault - 1 /\ patchLeft'.restart = patchLeft.restart
    BY <2>2
  <2> QED BY <1>0, <1>1, <2>2, <2>3 DEF BackupSpent
<1>2. CASE ~bad
  <2>1. patchLeft' = patchLeft
    BY <1>2 DEF Memory!Fault
  <2> QED BY <1>0, <1>2, <2>1 DEF BackupSpent
<1> QED BY <1>1, <1>2

\* Nothing was saved at first.
LEMMA BackupInit == ASSUME BackupConstants, Memory!Init PROVE BackupInv
<1>1. /\ cur = [f \in File |-> [ver |-> 1, patched |-> FALSE]]
      /\ bak = [f \in File |-> [i \in 0 .. (Count - 1) |-> 0]] /\ saves = [f \in File |-> <<>>]
      /\ fileJob = Memory!Free /\ patchLeft = [fault |-> MaxFaults, restart |-> MaxRestarts]
  BY DEF Memory!Init
<1>2. \A f \in File : cur[f].ver = 1 /\ cur[f].patched = FALSE /\ cur[f] = [ver |-> 1, patched |-> FALSE]
  BY <1>1
<1>3. BackupTypeOK
  <2>1. patchLeft.fault = MaxFaults /\ patchLeft.restart = MaxRestarts
    BY <1>1
  <2>2. patchLeft.fault \in 0 .. MaxFaults /\ patchLeft.restart \in Nat
    BY <2>1 DEF BackupConstants
  <2>3. bak \in [File -> [0 .. (Count - 1) -> Nat]]
    BY <1>1
  <2>4. saves \in [File -> Seq(Nat)] /\ DOMAIN cur = File
    BY <1>1
  <2>5. patchLeft = [fault |-> patchLeft.fault, restart |-> patchLeft.restart]
    BY <1>1, <2>1
  <2>6. \A f \in File : /\ cur[f] = [ver |-> cur[f].ver, patched |-> cur[f].patched]
                        /\ cur[f].ver \in Nat \ {0} /\ cur[f].patched \in BOOLEAN
    <3>1. ASSUME NEW f \in File
          PROVE  /\ cur[f] = [ver |-> cur[f].ver, patched |-> cur[f].patched]
                 /\ cur[f].ver \in Nat \ {0} /\ cur[f].patched \in BOOLEAN
      <4>1. cur[f].ver = 1 /\ cur[f].patched = FALSE /\ cur[f] = [ver |-> 1, patched |-> FALSE]
        BY <1>2
      <4>2. cur[f].ver \in Nat \ {0} /\ cur[f].patched \in BOOLEAN
        BY <4>1
      <4> QED BY <4>1, <4>2
    <3> QED BY <3>1
  <2> QED BY <2>2, <2>3, <2>4, <2>5, <2>6 DEF BackupTypeOK
<1>4. fileJob.pc = "idle"
  BY <1>1 DEF Memory!Free
<1>5. \A f \in File : saves[f] = <<>>
  BY <1>1
<1> QED BY <1>1, <1>2, <1>3, <1>4, <1>5 DEF BackupInv, BackupJob, BackupNewest, BackupSaved

\* A file that nobody is moving copies of, before and after.
LEMMA BackupStill ==
    ASSUME BackupConstants, BackupTypeOK, NEW f \in File, BackupSaved(f),
           bak'[f] = bak[f], saves'[f] = saves[f], cur'[f] = cur[f],
           BackupSpent \in Nat, BackupSpent' \in Nat, BackupSpent <= BackupSpent',
           \/ ~(fileJob.file = f /\ fileJob.pc \in {"shift", "publish", "replace"})
              /\ ~(fileJob'.file = f /\ fileJob'.pc \in {"shift", "publish", "replace"})
           \/ fileJob' = fileJob
    PROVE  BackupSaved(f)'
<1>1. /\ \A k \in Nat : BackupMoved(f, k)' <=> BackupMoved(f, k)
      /\ BackupRepeats(f)' <=> BackupRepeats(f)
  BY DEF BackupMoved, BackupRepeats
<1>2. PICK d : d = IF BackupRepeats(f) THEN 1 ELSE 0
  OBVIOUS
<1>3. d \in {0, 1} /\ d = (IF BackupRepeats(f)' THEN 1 ELSE 0)
  BY <1>1, <1>2
<1>4. ASSUME NEW i \in 1 .. Len(saves[f])
      PROVE  /\ saves[f][i] \in 1 .. cur[f].ver
             /\ i <= Count - 1 - BackupSpent' =>
                  \E k \in 0 .. (i - 1 + BackupSpent' - d) : bak[f][IF BackupMoved(f, k)' THEN k + 1 ELSE k] = saves[f][i]
  <2>1. /\ saves[f][i] \in 1 .. cur[f].ver
        /\ i <= Count - 1 - BackupSpent =>
             \E k \in 0 .. (i - 1 + BackupSpent - d) : bak[f][IF BackupMoved(f, k) THEN k + 1 ELSE k] = saves[f][i]
    BY <1>2 DEF BackupSaved
  <2>2. ASSUME i <= Count - 1 - BackupSpent'
        PROVE  \E k \in 0 .. (i - 1 + BackupSpent' - d) : bak[f][IF BackupMoved(f, k)' THEN k + 1 ELSE k] = saves[f][i]
    <3>0. i \in Int /\ Count \in Int
      BY DEF BackupConstants
    <3>a. PICK a, b : a = BackupSpent /\ b = BackupSpent'
      OBVIOUS
    <3>b. a \in Nat /\ b \in Nat /\ a <= b /\ i <= Count - 1 - b
      BY <2>2, <3>a
    <3>c. i <= Count - 1 - a
      BY <3>0, <3>b
    <3>1. i <= Count - 1 - BackupSpent
      BY <3>a, <3>c
    <3>2. PICK k \in 0 .. (i - 1 + BackupSpent - d) : bak[f][IF BackupMoved(f, k) THEN k + 1 ELSE k] = saves[f][i]
      BY <2>1, <3>1
    <3>3. k \in 0 .. (i - 1 + BackupSpent' - d) /\ k \in Nat
      BY <1>3, <3>0, <3>2
    <3> QED BY <1>1, <3>2, <3>3
  <2> QED BY <2>1, <2>2
<1> QED BY <1>3, <1>4 DEF BackupSaved

\* Nothing of the files changes.
LEMMA BackupAside ==
    ASSUME BackupConstants, BackupInv, UNCHANGED <<cur, bak, saves, fileJob>>,
           patchLeft' = [fault |-> patchLeft'.fault, restart |-> patchLeft'.restart],
           patchLeft'.fault \in 0 .. MaxFaults, patchLeft'.restart \in Nat, patchLeft'.fault <= patchLeft.fault
    PROVE  BackupInv'
<1>0. BackupTypeOK /\ BackupJob /\ BackupNewest /\ \A f \in File : BackupSaved(f)
  BY DEF BackupInv
<1>1. BackupTypeOK'
  BY <1>0 DEF BackupTypeOK
<1>2. BackupJob' /\ BackupNewest'
  BY <1>0 DEF BackupJob, BackupNewest
<1>3. BackupSpent \in Nat /\ BackupSpent' \in Nat /\ BackupSpent <= BackupSpent'
  BY <1>0 DEF BackupTypeOK, BackupSpent, BackupConstants
<1>4. \A f \in File : BackupSaved(f)'
  <2>1. ASSUME NEW f \in File PROVE BackupSaved(f)'
    <3>1. bak'[f] = bak[f] /\ saves'[f] = saves[f] /\ cur'[f] = cur[f] /\ fileJob' = fileJob
      OBVIOUS
    <3> QED BY <1>0, <1>3, <3>1, BackupStill
  <2> QED BY <2>1
<1> QED BY <1>1, <1>2, <1>4 DEF BackupInv

\* The step fails, or the service dies: the copies stay where the rotation has left them.
LEMMA BackupFails ==
    ASSUME BackupConstants, BackupInv, UNCHANGED <<cur, bak, saves>>, fileJob' = Memory!Free, fileJob # Memory!Free,
           Memory!Fault(TRUE)
    PROVE  BackupInv'
<1>0. BackupTypeOK /\ BackupJob /\ BackupNewest /\ \A f \in File : BackupSaved(f)
  BY DEF BackupInv
<1>1. /\ patchLeft' = [fault |-> patchLeft'.fault, restart |-> patchLeft'.restart]
      /\ patchLeft'.fault \in 0 .. MaxFaults /\ patchLeft'.restart \in Nat
      /\ BackupSpent' = BackupSpent + 1 /\ BackupSpent \in Nat /\ BackupSpent' \in Nat
  BY <1>0, BackupFault
<1>2. BackupTypeOK'
  BY <1>0, <1>1 DEF BackupTypeOK
<1>3. fileJob'.pc = "idle"
  BY DEF Memory!Free
<1>4. BackupJob' /\ BackupNewest'
  BY <1>0, <1>3 DEF BackupJob, BackupNewest
<1>5. ASSUME NEW f \in File PROVE BackupSaved(f)'
  <2>1. /\ \A k \in Nat : ~BackupMoved(f, k)'
        /\ BackupRepeats(f)' => BackupRepeats(f) \/ \A k \in Nat : ~BackupMoved(f, k)
    BY <1>3 DEF BackupMoved, BackupRepeats
  <2>2. PICK d : d = IF BackupRepeats(f) THEN 1 ELSE 0
    OBVIOUS
  <2>3. PICK e : e = IF BackupRepeats(f)' THEN 1 ELSE 0
    OBVIOUS
  <2>4. d \in {0, 1} /\ e \in {0, 1} /\ (e <= d \/ \A k \in Nat : ~BackupMoved(f, k))
    BY <2>1, <2>2, <2>3
  <2>5. ASSUME NEW i \in 1 .. Len(saves[f])
        PROVE  /\ saves[f][i] \in 1 .. cur[f].ver
               /\ i <= Count - 1 - BackupSpent' => \E k \in 0 .. (i - 1 + BackupSpent' - e) : bak[f][k] = saves[f][i]
    <3>1. /\ saves[f][i] \in 1 .. cur[f].ver
          /\ i <= Count - 1 - BackupSpent =>
               \E k \in 0 .. (i - 1 + BackupSpent - d) : bak[f][IF BackupMoved(f, k) THEN k + 1 ELSE k] = saves[f][i]
      BY <1>0, <2>2 DEF BackupSaved
    <3>2. ASSUME i <= Count - 1 - BackupSpent' PROVE \E k \in 0 .. (i - 1 + BackupSpent' - e) : bak[f][k] = saves[f][i]
      <4>0. i \in Int /\ Count \in Int
        BY DEF BackupConstants
      <4>1. i <= Count - 1 - BackupSpent
        BY <1>1, <3>2, <4>0
      <4>2. PICK k \in 0 .. (i - 1 + BackupSpent - d) : bak[f][IF BackupMoved(f, k) THEN k + 1 ELSE k] = saves[f][i]
        BY <3>1, <4>1
      <4>3. CASE BackupMoved(f, k)
        <5>1. e <= d
          BY <2>4, <4>3
        <5>2. k + 1 \in 0 .. (i - 1 + BackupSpent' - e)
          BY <1>1, <2>4, <4>0, <4>2, <5>1
        <5> QED BY <4>2, <4>3, <5>2
      <4>4. CASE ~BackupMoved(f, k)
        <5>1. k \in 0 .. (i - 1 + BackupSpent' - e)
          BY <1>1, <2>4, <4>0, <4>2
        <5> QED BY <4>2, <4>4, <5>1
      <4> QED BY <4>3, <4>4
    <3> QED BY <3>1, <3>2
  <2>6. \A i \in Nat : \A k \in 0 .. (i - 1 + BackupSpent' - e) : k \in Nat
    OBVIOUS
  <2>7. \A i \in 1 .. Len(saves[f]) : i \in Nat
    OBVIOUS
  <2>8. \A i \in 1 .. Len(saves[f]) : i <= Count - 1 - BackupSpent' =>
           \E k \in 0 .. (i - 1 + BackupSpent' - e) : bak[f][IF BackupMoved(f, k)' THEN k + 1 ELSE k] = saves[f][i]
    BY <2>1, <2>5, <2>6, <2>7
  <2> QED BY <2>3, <2>5, <2>8 DEF BackupSaved
<1> QED BY <1>2, <1>4, <1>5 DEF BackupInv

\* A new version, or a job that begins or ends: no copy is moved.
LEMMA BackupVendor ==
    ASSUME BackupConstants, BackupInv, NEW f \in File, Memory!VendorUpdates(f) PROVE BackupInv'
<1>0. /\ BackupTypeOK /\ BackupJob /\ BackupNewest /\ \A g \in File : BackupSaved(g)
      /\ fileJob.file # f /\ UNCHANGED <<bak, saves, fileJob, patchLeft>>
  BY DEF BackupInv, Memory!VendorUpdates
<1>1. cur' = [cur EXCEPT ![f] = [ver |-> cur[f].ver + 1, patched |-> FALSE]]
  BY DEF Memory!VendorUpdates
<1>2. /\ DOMAIN cur' = File /\ \A g \in File \ {f} : cur'[g] = cur[g]
      /\ cur'[f] = [ver |-> cur[f].ver + 1, patched |-> FALSE]
  BY <1>0, <1>1 DEF BackupTypeOK
<1>3. /\ cur[f].ver \in Nat \ {0} /\ cur'[f].ver = cur[f].ver + 1 /\ cur'[f].patched = FALSE
      /\ cur'[f] = [ver |-> cur'[f].ver, patched |-> cur'[f].patched]
  BY <1>0, <1>2 DEF BackupTypeOK
<1>4. BackupTypeOK'
  <2>1. \A g \in File : /\ cur'[g] = [ver |-> cur'[g].ver, patched |-> cur'[g].patched]
                        /\ cur'[g].ver \in Nat \ {0} /\ cur'[g].patched \in BOOLEAN
    <3>1. ASSUME NEW g \in File, g # f
          PROVE  /\ cur[g] = [ver |-> cur[g].ver, patched |-> cur[g].patched]
                 /\ cur[g].ver \in Nat \ {0} /\ cur[g].patched \in BOOLEAN
      BY <1>0 DEF BackupTypeOK
    <3>2. cur'[f].ver \in Nat \ {0} /\ cur'[f].patched \in BOOLEAN
      <4>1. cur'[f].ver \in Nat \ {0}
        BY <1>3
      <4>2. cur'[f].patched \in BOOLEAN
        BY <1>3, Zenon
      <4> QED BY <4>1, <4>2
    <3> QED BY <1>2, <1>3, <3>1, <3>2
  <2> QED BY <1>0, <1>2, <2>1 DEF BackupTypeOK
<1>5. BackupJob' /\ BackupNewest'
  <2>1. BackupJob'
    BY <1>0, <1>2 DEF BackupJob
  <2> QED BY <1>0, <1>2, <1>3, <2>1 DEF BackupNewest
<1>6. BackupSpent \in Nat /\ BackupSpent' = BackupSpent
  BY <1>0 DEF BackupTypeOK, BackupSpent, BackupConstants
<1>7. ASSUME NEW g \in File, g # f PROVE BackupSaved(g)'
  <2>1. bak'[g] = bak[g] /\ saves'[g] = saves[g] /\ cur'[g] = cur[g] /\ fileJob' = fileJob /\ BackupSpent <= BackupSpent'
    BY <1>0, <1>2, <1>6, <1>7
  <2> QED BY <1>0, <1>6, <2>1, BackupStill
<1>8. BackupSaved(f)'
  <2>1. \A k \in Nat : ~BackupMoved(f, k) /\ ~BackupMoved(f, k)'
    BY <1>0 DEF BackupMoved
  <2>2. saves[f] \in Seq(Nat) /\ \A i \in 1 .. Len(saves[f]) : saves[f][i] \in 1 .. cur[f].ver
    BY <1>0 DEF BackupSaved, BackupTypeOK
  <2>3. \A i \in 1 .. Len(saves[f]) : saves[f][i] \in 1 .. cur'[f].ver /\ saves[f][i] # cur'[f].ver
    <3>1. PICK v \in Nat : v = cur[f].ver /\ cur'[f].ver = v + 1
      BY <1>3
    <3>2. \A x \in 1 .. v : x \in 1 .. (v + 1) /\ x # v + 1
      OBVIOUS
    <3> QED BY <2>2, <3>1, <3>2
  <2>4. ~BackupRepeats(f)'
    <3>1. saves[f] # <<>> => 1 \in 1 .. Len(saves[f])
      BY <2>2
    <3> QED BY <1>0, <2>3, <3>1 DEF BackupRepeats
  <2>5. PICK d \in {0, 1} : d = IF BackupRepeats(f) THEN 1 ELSE 0
    OBVIOUS
  <2>6. ASSUME NEW i \in 1 .. Len(saves[f]), i <= Count - 1 - BackupSpent
        PROVE  \E k \in 0 .. (i - 1 + BackupSpent) : bak[f][k] = saves[f][i]
    <3>1. PICK k \in 0 .. (i - 1 + BackupSpent - d) : bak[f][IF BackupMoved(f, k) THEN k + 1 ELSE k] = saves[f][i]
      BY <1>0, <2>5, <2>6 DEF BackupSaved
    <3>2. k \in Nat /\ k \in 0 .. (i - 1 + BackupSpent)
      BY <1>6, <2>5, <3>1
    <3> QED BY <2>1, <3>1, <3>2
  <2>7. \A i \in 1 .. Len(saves[f]) : i <= Count - 1 - BackupSpent =>
           \E k \in 0 .. (i - 1 + BackupSpent - 0) : bak[f][IF BackupMoved(f, k)' THEN k + 1 ELSE k] = saves[f][i]
    <3>1. ASSUME NEW i \in 1 .. Len(saves[f]), i <= Count - 1 - BackupSpent
          PROVE  \E k \in 0 .. (i - 1 + BackupSpent - 0) : bak[f][IF BackupMoved(f, k)' THEN k + 1 ELSE k] = saves[f][i]
      <4>1. PICK k \in 0 .. (i - 1 + BackupSpent) : bak[f][k] = saves[f][i]
        BY <2>6, <3>1
      <4>2. k \in Nat /\ k \in 0 .. (i - 1 + BackupSpent - 0)
        BY <1>6, <4>1
      <4> QED BY <2>1, <4>1, <4>2
    <3> QED BY <3>1
  <2> QED BY <1>0, <1>6, <2>3, <2>4, <2>7 DEF BackupSaved
<1> QED BY <1>4, <1>5, <1>7, <1>8 DEF BackupInv

\* The current version is saved.
LEMMA BackupTakes ==
    ASSUME BackupConstants, BackupInv, NEW f \in File, cur[f].patched = FALSE, Memory!Take(f) PROVE BackupInv'
<1>0. /\ BackupTypeOK /\ BackupJob /\ BackupNewest /\ \A g \in File : BackupSaved(g)
      /\ fileJob = Memory!Free /\ UNCHANGED <<cur, bak, saves, patchLeft>>
  BY DEF BackupInv, Memory!Take
<1>1. fileJob' = [file |-> f, pc |-> "temp", data |-> cur[f].ver, n |-> 0]
  BY DEF Memory!Take
<1>2. /\ fileJob' = [file |-> fileJob'.file, pc |-> fileJob'.pc, data |-> fileJob'.data, n |-> fileJob'.n]
      /\ fileJob'.file = f /\ fileJob'.pc = "temp" /\ fileJob'.data = cur[f].ver
  BY <1>1
<1>3. fileJob.pc = "idle"
  BY <1>0 DEF Memory!Free
<1>4. BackupTypeOK' /\ BackupNewest'
  BY <1>0, <1>2 DEF BackupTypeOK, BackupNewest
<1>5. BackupJob'
  BY <1>0, <1>2 DEF BackupJob
<1>6. BackupSpent \in Nat /\ BackupSpent' = BackupSpent
  BY <1>0 DEF BackupTypeOK, BackupSpent, BackupConstants
<1>7. ASSUME NEW g \in File PROVE BackupSaved(g)'
  <2>1. bak'[g] = bak[g] /\ saves'[g] = saves[g] /\ cur'[g] = cur[g] /\ BackupSpent <= BackupSpent'
    BY <1>0, <1>6
  <2> QED BY <1>0, <1>2, <1>3, <1>6, <2>1, BackupStill
<1> QED BY <1>4, <1>5, <1>7 DEF BackupInv

\* A step of Save that works.
LEMMA BackupAt ==
    ASSUME BackupJob, fileJob # Memory!Free, NEW c, NEW m, Memory!At(c, m)
    PROVE  /\ fileJob' = [file |-> fileJob'.file, pc |-> fileJob'.pc, data |-> fileJob'.data, n |-> fileJob'.n]
           /\ fileJob'.file = fileJob.file /\ fileJob'.pc = c /\ fileJob'.data = fileJob.data /\ fileJob'.n = m
<1>1. PICK j, r : j = fileJob /\ r = [j EXCEPT !.pc = c, !.n = m]
  OBVIOUS
<1>2. j = [file |-> j.file, pc |-> j.pc, data |-> j.data, n |-> j.n]
  BY <1>1 DEF BackupJob
<1>3. r = [file |-> j.file, pc |-> c, data |-> j.data, n |-> m]
  BY <1>1, <1>2
<1>4. fileJob' = r
  BY <1>1 DEF Memory!At
<1>5. /\ r = [file |-> r.file, pc |-> r.pc, data |-> r.data, n |-> r.n]
      /\ r.file = j.file /\ r.pc = c /\ r.data = j.data /\ r.n = m
  BY <1>3
<1> QED BY <1>1, <1>4, <1>5

\* A rotation goes on by one copy.
LEMMA BackupGoes ==
    ASSUME BackupConstants, BackupInv, fileJob # Memory!Free, NEW c \in {"remove", "shift", "publish", "replace"},
           NEW m, Memory!At(c, m), c = "shift" => m \in 0 .. (Count - 2),
           UNCHANGED <<cur, patchLeft>>,
           NEW f, f = fileJob.file,
           bak' \in [File -> [0 .. (Count - 1) -> Nat]], saves' \in [File -> Seq(Nat)],
           \A g \in File \ {f} : bak'[g] = bak[g] /\ saves'[g] = saves[g],
           c = "replace" => /\ bak'[f][0] = fileJob.data
                            /\ saves'[f] # <<>> /\ saves'[f][1] = fileJob.data,
           BackupSaved(f)'
    PROVE  BackupInv'
<1>0. BackupTypeOK /\ BackupJob /\ BackupNewest /\ \A g \in File : BackupSaved(g)
  BY DEF BackupInv
<1>1. /\ fileJob' = [file |-> fileJob'.file, pc |-> fileJob'.pc, data |-> fileJob'.data, n |-> fileJob'.n]
      /\ fileJob'.file = f /\ fileJob'.pc = c /\ fileJob'.data = fileJob.data /\ fileJob'.n = m
  BY <1>0, BackupAt
<1>2. f \in File /\ fileJob.data = cur[f].ver /\ cur[f].patched = FALSE
  BY <1>0 DEF BackupJob
<1>3. BackupTypeOK'
  BY <1>0 DEF BackupTypeOK
<1>4. BackupJob'
  BY <1>1, <1>2 DEF BackupJob
<1>5. BackupNewest'
  BY <1>0, <1>1, <1>2 DEF BackupNewest
<1>6. BackupSpent \in Nat /\ BackupSpent' = BackupSpent
  BY <1>0 DEF BackupTypeOK, BackupSpent, BackupConstants
<1>7. ASSUME NEW g \in File, g # f PROVE BackupSaved(g)'
  <2>1. bak'[g] = bak[g] /\ saves'[g] = saves[g] /\ cur'[g] = cur[g] /\ BackupSpent <= BackupSpent'
    BY <1>6, <1>7
  <2> QED BY <1>0, <1>1, <1>6, <1>7, <2>1, BackupStill
<1> QED BY <1>2, <1>3, <1>4, <1>5, <1>7 DEF BackupInv

\* What one version needs of a step, by the place of its copy.
LEMMA BackupPlace ==
    ASSUME BackupConstants, BackupInv, fileJob # Memory!Free, NEW f, f = fileJob.file, fileJob.pc # "replace",
           NEW i \in 1 .. Len(saves[f]), i <= Count - 1 - BackupSpent
    PROVE  /\ BackupSpent \in Nat /\ saves[f] \in Seq(Nat) /\ saves[f][i] \in 1 .. cur[f].ver /\ cur[f].ver \in Nat
           /\ \E k \in Nat : /\ k <= i - 1 + BackupSpent /\ k <= Count - 2
                             /\ BackupRepeats(f) => k <= i - 2 + BackupSpent
                             /\ BackupMoved(f, k) => bak[f][k + 1] = saves[f][i]
                             /\ ~BackupMoved(f, k) => bak[f][k] = saves[f][i]
<1>0. BackupTypeOK /\ BackupJob /\ f \in File
  BY DEF BackupInv, BackupJob
<1>1. BackupSaved(f)
  BY <1>0 DEF BackupInv
<1>2. BackupSpent \in Nat /\ cur[f].ver \in Nat /\ saves[f] \in Seq(Nat)
  BY <1>0 DEF BackupTypeOK, BackupSpent, BackupConstants
<1>3. PICK d \in {0, 1} : d = IF BackupRepeats(f) THEN 1 ELSE 0
  OBVIOUS
<1>4. PICK k \in 0 .. (i - 1 + BackupSpent - d) : bak[f][IF BackupMoved(f, k) THEN k + 1 ELSE k] = saves[f][i]
  BY <1>1, <1>3 DEF BackupSaved
<1>5. k \in Nat /\ k <= i - 1 + BackupSpent /\ k <= Count - 2 /\ (d = 1 => k <= i - 2 + BackupSpent)
  <2>1. PICK s \in Nat : s = BackupSpent
    BY <1>2
  <2>2. i \in Nat /\ i <= Count - 1 - s /\ Count \in Nat /\ k \in 0 .. (i - 1 + s - d)
    BY <1>4, <2>1 DEF BackupConstants
  <2>3. k \in Nat /\ k <= i - 1 + s /\ k <= Count - 2 /\ (d = 1 => k <= i - 2 + s)
    BY <2>2
  <2> QED BY <2>1, <2>3
<1>6. saves[f][i] \in 1 .. cur[f].ver
  BY <1>1 DEF BackupSaved
<1> QED BY <1>2, <1>3, <1>4, <1>5, <1>6

\* And what it makes of the state after it.
LEMMA BackupPlaces ==
    ASSUME BackupConstants, NEW f, NEW i \in Nat \ {0}, NEW k \in Nat, BackupSpent' \in Nat,
           k <= i - 1 + BackupSpent', BackupRepeats(f)' => k <= i - 2 + BackupSpent',
           BackupMoved(f, k)' => bak'[f][k + 1] = saves'[f][i],
           ~BackupMoved(f, k)' => bak'[f][k] = saves'[f][i]
    PROVE  \E x \in 0 .. (i - 1 + BackupSpent' - (IF BackupRepeats(f)' THEN 1 ELSE 0)) :
             bak'[f][IF BackupMoved(f, x)' THEN x + 1 ELSE x] = saves'[f][i]
<1>1. PICK d \in {0, 1} : d = IF BackupRepeats(f)' THEN 1 ELSE 0
  OBVIOUS
<1>2. d = 1 => k <= i - 2 + BackupSpent'
  BY <1>1
<1>3. k \in 0 .. (i - 1 + BackupSpent' - d)
  <2>1. PICK s \in Nat : s = BackupSpent'
    OBVIOUS
  <2>2. k <= i - 1 + s /\ (d = 1 => k <= i - 2 + s)
    BY <1>2, <2>1
  <2>3. k \in 0 .. (i - 1 + s - d)
    BY <2>2
  <2> QED BY <2>1, <2>3
<1>4. bak'[f][IF BackupMoved(f, k)' THEN k + 1 ELSE k] = saves'[f][i]
  OBVIOUS
<1> QED BY <1>1, <1>3, <1>4

\* The temporary copy, and the oldest copy's removal.
LEMMA BackupRemoves ==
    ASSUME BackupConstants, BackupInv, Memory!WriteTemp \/ Memory!RemoveOldest PROVE BackupInv'
<1>0. BackupTypeOK /\ BackupJob /\ BackupNewest /\ \A g \in File : BackupSaved(g)
  BY DEF BackupInv
<1>1. fileJob # Memory!Free /\ fileJob.pc \in {"temp", "remove"}
  BY DEF Memory!WriteTemp, Memory!RemoveOldest, Memory!Free
<1>2. PICK f : f = fileJob.file
  OBVIOUS
<1>3. f \in File
  BY <1>0, <1>1, <1>2 DEF BackupJob
<1>4. Count \in Nat /\ Count >= 2 /\ bak \in [File -> [0 .. (Count - 1) -> Nat]] /\ saves \in [File -> Seq(Nat)]
  BY <1>0 DEF BackupTypeOK, BackupConstants
<1>5. CASE Memory!WriteTemp
  <2>1. UNCHANGED <<cur, bak, saves>>
    BY <1>5 DEF Memory!WriteTemp
  <2>2. (Memory!Fault(TRUE) /\ fileJob' = Memory!Free) \/ (UNCHANGED patchLeft /\ Memory!At("remove", 0))
    BY <1>5 DEF Memory!WriteTemp, Memory!Step, Memory!Fault
  <2>3. CASE Memory!Fault(TRUE) /\ fileJob' = Memory!Free
    BY <1>1, <2>1, <2>3, BackupFails
  <2>4. CASE UNCHANGED patchLeft /\ Memory!At("remove", 0)
    <3>1. fileJob'.pc = "remove"
      BY <1>0, <1>1, <2>4, BackupAt
    <3>2. BackupSpent \in Nat /\ BackupSpent' = BackupSpent /\ BackupSpent <= BackupSpent'
      BY <1>0, <2>4 DEF BackupTypeOK, BackupSpent, BackupConstants
    <3>3. bak'[f] = bak[f] /\ saves'[f] = saves[f] /\ cur'[f] = cur[f] /\ BackupSpent' \in Nat
          /\ fileJob.pc \notin {"shift", "publish", "replace"}
      BY <1>5, <2>1, <3>2 DEF Memory!WriteTemp
    <3>4. BackupSaved(f)'
      BY <1>0, <1>3, <3>1, <3>2, <3>3, BackupStill
    <3>5. /\ bak' \in [File -> [0 .. (Count - 1) -> Nat]] /\ saves' \in [File -> Seq(Nat)]
          /\ \A g \in File \ {f} : bak'[g] = bak[g] /\ saves'[g] = saves[g]
      BY <1>4, <2>1
    <3> QED BY <1>1, <1>2, <2>1, <2>4, <3>4, <3>5, BackupGoes
  <2> QED BY <2>2, <2>3, <2>4
<1>6. CASE Memory!RemoveOldest
  <2>1. UNCHANGED <<cur, saves>> /\ fileJob.pc = "remove"
    BY <1>6 DEF Memory!RemoveOldest
  <2>2. /\ (Memory!Fault(TRUE) /\ fileJob' = Memory!Free) \/ (UNCHANGED patchLeft /\ Memory!At("shift", Count - 2))
        /\ bak' = IF fileJob'.pc = "idle" THEN bak ELSE [bak EXCEPT ![f][Count - 1] = 0]
    BY <1>2, <1>6 DEF Memory!RemoveOldest, Memory!Step, Memory!Fault
  <2>3. CASE Memory!Fault(TRUE) /\ fileJob' = Memory!Free
    <3>1. bak' = bak
      BY <2>2, <2>3 DEF Memory!Free
    <3> QED BY <1>1, <2>1, <2>3, <3>1, BackupFails
  <2>4. CASE UNCHANGED patchLeft /\ Memory!At("shift", Count - 2)
    <3>1. fileJob'.pc = "shift" /\ fileJob'.n = Count - 2 /\ fileJob'.file = f
      BY <1>0, <1>1, <1>2, <2>4, BackupAt
    <3>2. bak' = [bak EXCEPT ![f] = [bak[f] EXCEPT ![Count - 1] = 0]]
      BY <2>2, <3>1
    <3>3. PICK b : b = [bak[f] EXCEPT ![Count - 1] = 0]
      OBVIOUS
    <3>4. bak[f] \in [0 .. (Count - 1) -> Nat]
      BY <1>3, <1>4
    <3>5. b \in [0 .. (Count - 1) -> Nat] /\ \A k \in 0 .. (Count - 2) : b[k] = bak[f][k]
      BY <1>4, <3>3, <3>4
    <3>6. /\ bak' \in [File -> [0 .. (Count - 1) -> Nat]] /\ bak'[f] = b
          /\ \A g \in File \ {f} : bak'[g] = bak[g]
      BY <1>3, <1>4, <3>2, <3>3, <3>5
    <3>7. BackupSaved(f)'
      <4>0. BackupSpent \in Nat /\ BackupSpent' = BackupSpent
        BY <1>0, <2>4 DEF BackupTypeOK, BackupSpent, BackupConstants
      <4>1. saves'[f] = saves[f] /\ cur'[f] = cur[f] /\ \A i \in 1 .. Len(saves[f]) : saves[f][i] \in 1 .. cur[f].ver
        BY <1>0, <1>3, <2>1 DEF BackupSaved
      <4>2. ASSUME NEW i \in 1 .. Len(saves[f]), i <= Count - 1 - BackupSpent
            PROVE  \E x \in 0 .. (i - 1 + BackupSpent' - (IF BackupRepeats(f)' THEN 1 ELSE 0)) :
                     bak'[f][IF BackupMoved(f, x)' THEN x + 1 ELSE x] = saves'[f][i]
        <5>1. PICK k \in Nat : /\ k <= i - 1 + BackupSpent /\ k <= Count - 2
                               /\ BackupRepeats(f) => k <= i - 2 + BackupSpent
                               /\ BackupMoved(f, k) => bak[f][k + 1] = saves[f][i]
                               /\ ~BackupMoved(f, k) => bak[f][k] = saves[f][i]
          BY <1>1, <1>2, <2>1, <4>2, BackupPlace
        <5>2. ~BackupMoved(f, k) /\ ~BackupMoved(f, k)'
          BY <1>4, <2>1, <3>1, <5>1 DEF BackupMoved
        <5>3. BackupRepeats(f)' <=> BackupRepeats(f)
          BY <2>1, <3>1, <4>1 DEF BackupRepeats
        <5>4. bak'[f][k] = saves'[f][i]
          <6>1. k \in 0 .. (Count - 2)
            BY <1>4, <5>1
          <6> QED BY <3>5, <3>6, <4>1, <5>1, <5>2, <6>1
        <5>5. i \in Nat \ {0} /\ BackupSpent' \in Nat /\ k <= i - 1 + BackupSpent' /\ (BackupRepeats(f)' => k <= i - 2 + BackupSpent')
          BY <4>0, <5>1, <5>3
        <5> QED BY <5>2, <5>4, <5>5, BackupPlaces
      <4> QED BY <4>0, <4>1, <4>2 DEF BackupSaved
    <3>8. Count - 2 \in 0 .. (Count - 2) /\ saves' \in [File -> Seq(Nat)] /\ UNCHANGED <<cur, patchLeft>>
          /\ \A g \in File \ {f} : bak'[g] = bak[g] /\ saves'[g] = saves[g]
      BY <1>4, <2>1, <2>4, <3>6
    <3> QED BY <1>1, <1>2, <2>4, <3>6, <3>7, <3>8, BackupGoes
  <2> QED BY <2>2, <2>3, <2>4
<1> QED BY <1>5, <1>6

\* One copy takes the next place.
LEMMA BackupShifts ==
    ASSUME BackupConstants, BackupInv, Memory!Shift PROVE BackupInv'
<1>0. /\ BackupTypeOK /\ BackupJob /\ BackupNewest /\ \A g \in File : BackupSaved(g)
      /\ fileJob.pc = "shift" /\ UNCHANGED <<cur, saves>>
  BY DEF BackupInv, Memory!Shift
<1>1. fileJob # Memory!Free
  BY <1>0 DEF Memory!Free
<1>2. PICK f, n : f = fileJob.file /\ n = fileJob.n
  OBVIOUS
<1>3. f \in File /\ n \in 0 .. (Count - 2)
  BY <1>0, <1>1, <1>2 DEF BackupJob
<1>4. Count \in Nat /\ Count >= 2 /\ bak \in [File -> [0 .. (Count - 1) -> Nat]] /\ saves \in [File -> Seq(Nat)]
  BY <1>0 DEF BackupTypeOK, BackupConstants
<1>5. /\ \/ Memory!Fault(TRUE) /\ fileJob' = Memory!Free
         \/ UNCHANGED patchLeft /\ n = 0 /\ Memory!At("publish", 0)
         \/ UNCHANGED patchLeft /\ n # 0 /\ Memory!At("shift", n - 1)
      /\ bak' = IF fileJob'.pc = "idle" \/ bak[f][n] = 0 THEN bak
                ELSE [bak EXCEPT ![f] = [bak[f] EXCEPT ![n + 1] = bak[f][n], ![n] = 0]]
  BY <1>2 DEF Memory!Shift, Memory!Step, Memory!Fault, Memory!From
<1>6. CASE Memory!Fault(TRUE) /\ fileJob' = Memory!Free
  <2>1. bak' = bak
    BY <1>5, <1>6 DEF Memory!Free
  <2> QED BY <1>0, <1>1, <1>6, <2>1, BackupFails
<1>7. ASSUME UNCHANGED patchLeft, NEW c, NEW m, Memory!At(c, m),
             (n = 0 /\ c = "publish" /\ m = 0) \/ (n # 0 /\ c = "shift" /\ m = n - 1)
      PROVE  BackupInv'
  <2>1. fileJob'.pc = c /\ fileJob'.n = m /\ fileJob'.file = f
    BY <1>0, <1>1, <1>2, <1>7, BackupAt
  <2>2. bak[f] \in [0 .. (Count - 1) -> Nat]
    BY <1>3, <1>4
  <2>3. PICK b : b = IF bak[f][n] = 0 THEN bak[f] ELSE [[bak[f] EXCEPT ![n + 1] = bak[f][n]] EXCEPT ![n] = 0]
    OBVIOUS
  <2>4. /\ b \in [0 .. (Count - 1) -> Nat] /\ \A k \in 0 .. (Count - 1) : k # n /\ k # n + 1 => b[k] = bak[f][k]
        /\ bak[f][n] # 0 => b[n + 1] = bak[f][n]
    <3>1. n \in 0 .. (Count - 1) /\ n + 1 \in 0 .. (Count - 1)
      BY <1>3, <1>4
    <3>2. PICK a, v : a = bak[f] /\ v = bak[f][n]
      OBVIOUS
    <3>3. a \in [0 .. (Count - 1) -> Nat] /\ v \in Nat /\ v = a[n]
      BY <2>2, <3>1, <3>2
    <3>4. CASE v = 0
      <4>1. b = a
        BY <2>3, <3>2, <3>4
      <4> QED BY <3>2, <3>3, <3>4, <4>1
    <3>5. CASE v # 0
      <4>1. PICK e : e = [a EXCEPT ![n + 1] = v]
        OBVIOUS
      <4>2. b = [e EXCEPT ![n] = 0]
        BY <2>3, <3>2, <3>5, <4>1
      <4>3. e \in [0 .. (Count - 1) -> Nat] /\ e[n + 1] = v /\ \A k \in 0 .. (Count - 1) : k # n + 1 => e[k] = a[k]
        BY <3>1, <3>3, <4>1
      <4>4. b \in [0 .. (Count - 1) -> Nat] /\ \A k \in 0 .. (Count - 1) : k # n => b[k] = e[k]
        BY <3>1, <4>2, <4>3
      <4>5. n + 1 # n
        BY <1>3
      <4> QED BY <3>1, <3>2, <3>5, <4>3, <4>4, <4>5
    <3> QED BY <3>4, <3>5
  <2>5. bak' \in [File -> [0 .. (Count - 1) -> Nat]] /\ bak'[f] = b /\ \A g \in File \ {f} : bak'[g] = bak[g]
    <3>1. c # "idle"
      BY <1>7
    <3>2. CASE bak[f][n] = 0
      <4>1. bak' = bak /\ b = bak[f]
        BY <1>5, <2>1, <2>3, <3>1, <3>2
      <4> QED BY <1>4, <4>1
    <3>3. CASE bak[f][n] # 0
      <4>1. bak' = [bak EXCEPT ![f] = b]
        BY <1>5, <2>1, <2>3, <3>1, <3>3
      <4> QED BY <1>3, <1>4, <2>4, <4>1
    <3> QED BY <3>2, <3>3
  <2>6. \A k \in Nat : /\ BackupMoved(f, k) <=> k > n
                       /\ BackupMoved(f, k)' <=> k >= n
    <3>1. \A k \in Nat : BackupMoved(f, k) <=> k > n
      BY <1>0, <1>2 DEF BackupMoved
    <3>2. \A k \in Nat : BackupMoved(f, k)' <=> k >= n
      BY <1>3, <1>7, <2>1 DEF BackupMoved
    <3> QED BY <3>1, <3>2
  <2>7. BackupSaved(f)'
    <3>0. BackupSpent \in Nat /\ BackupSpent' = BackupSpent
      BY <1>0, <1>7 DEF BackupTypeOK, BackupSpent, BackupConstants
    <3>1. saves'[f] = saves[f] /\ cur'[f] = cur[f] /\ \A i \in 1 .. Len(saves[f]) : saves[f][i] \in 1 .. cur[f].ver
      BY <1>0, <1>3 DEF BackupSaved
    <3>2. ASSUME NEW i \in 1 .. Len(saves[f]), i <= Count - 1 - BackupSpent
          PROVE  \E x \in 0 .. (i - 1 + BackupSpent' - (IF BackupRepeats(f)' THEN 1 ELSE 0)) :
                   bak'[f][IF BackupMoved(f, x)' THEN x + 1 ELSE x] = saves'[f][i]
      <4>1. PICK k \in Nat : /\ k <= i - 1 + BackupSpent /\ k <= Count - 2
                             /\ BackupRepeats(f) => k <= i - 2 + BackupSpent
                             /\ BackupMoved(f, k) => bak[f][k + 1] = saves[f][i]
                             /\ ~BackupMoved(f, k) => bak[f][k] = saves[f][i]
        BY <1>0, <1>1, <1>2, <3>2, BackupPlace
      <4>2. BackupRepeats(f)' <=> BackupRepeats(f)
        BY <1>0, <1>7, <2>1, <3>1 DEF BackupRepeats
      <4>3. BackupMoved(f, k)' => bak'[f][k + 1] = saves'[f][i]
        <5>0. saves[f][i] # 0
          BY <3>1
        <5>1. CASE k > n
          <6>1. k + 1 \in 0 .. (Count - 1) /\ k + 1 # n /\ k + 1 # n + 1
            BY <1>3, <1>4, <4>1, <5>1
          <6> QED BY <2>4, <2>5, <2>6, <3>1, <4>1, <5>1, <6>1
        <5>2. CASE k = n
          <6>1. bak[f][n] = saves[f][i]
            BY <1>3, <2>6, <4>1, <5>2
          <6> QED BY <2>4, <2>5, <3>1, <5>0, <5>2, <6>1
        <5>3. CASE ~(k > n) /\ k # n
          BY <1>3, <2>6, <5>3
        <5> QED BY <5>1, <5>2, <5>3
      <4>4. ~BackupMoved(f, k)' => bak'[f][k] = saves'[f][i]
        <5>1. ASSUME k < n PROVE bak'[f][k] = saves'[f][i]
          <6>1. k \in 0 .. (Count - 1) /\ k # n /\ k # n + 1 /\ ~(k > n)
            BY <1>3, <1>4, <5>1
          <6> QED BY <2>4, <2>5, <2>6, <3>1, <4>1, <6>1
        <5>2. k < n \/ k >= n
          BY <1>3
        <5> QED BY <2>6, <5>1, <5>2
      <4>5. i \in Nat \ {0} /\ BackupSpent' \in Nat /\ k <= i - 1 + BackupSpent' /\ (BackupRepeats(f)' => k <= i - 2 + BackupSpent')
        BY <3>0, <4>1, <4>2
      <4> QED BY <4>3, <4>4, <4>5, BackupPlaces
    <3> QED BY <3>0, <3>1, <3>2 DEF BackupSaved
  <2>8. /\ c \in {"remove", "shift", "publish", "replace"} /\ c # "replace" /\ (c = "shift" => m \in 0 .. (Count - 2))
        /\ saves' \in [File -> Seq(Nat)] /\ UNCHANGED <<cur, patchLeft>>
        /\ \A g \in File \ {f} : bak'[g] = bak[g] /\ saves'[g] = saves[g]
    BY <1>0, <1>3, <1>4, <1>7, <2>5
  <2> QED BY <1>1, <1>2, <1>7, <2>5, <2>7, <2>8, BackupGoes
<1>8. CASE UNCHANGED patchLeft /\ n = 0 /\ Memory!At("publish", 0)
  BY <1>7, <1>8
<1>9. CASE UNCHANGED patchLeft /\ n # 0 /\ Memory!At("shift", n - 1)
  BY <1>7, <1>9
<1> QED BY <1>5, <1>6, <1>8, <1>9

\* The new copy: it is one more version, or the version that the last Save published.
LEMMA BackupPublishes ==
    ASSUME BackupConstants, BackupInv, Memory!Publish PROVE BackupInv'
<1>0. /\ BackupTypeOK /\ BackupJob /\ BackupNewest /\ \A g \in File : BackupSaved(g)
      /\ fileJob.pc = "publish" /\ cur' = cur
  BY DEF BackupInv, Memory!Publish
<1>1. fileJob # Memory!Free
  BY <1>0 DEF Memory!Free
<1>2. PICK f, v : f = fileJob.file /\ v = fileJob.data
  OBVIOUS
<1>3. f \in File /\ v = cur[f].ver /\ cur[f].patched = FALSE
  BY <1>0, <1>1, <1>2 DEF BackupJob
<1>4. /\ Count \in Nat /\ Count >= 2 /\ bak \in [File -> [0 .. (Count - 1) -> Nat]] /\ saves \in [File -> Seq(Nat)]
      /\ v \in Nat \ {0} /\ saves[f] \in Seq(Nat)
  BY <1>0, <1>3 DEF BackupTypeOK, BackupConstants
<1>5. \/ Memory!Fault(TRUE) /\ fileJob' = Memory!Free
      \/ UNCHANGED patchLeft /\ Memory!At("replace", 0)
  BY DEF Memory!Publish, Memory!Step, Memory!Fault
<1>6. /\ fileJob'.pc = "idle" => UNCHANGED <<bak, saves>>
      /\ fileJob'.pc # "idle" =>
           /\ bak' = [bak EXCEPT ![f] = [bak[f] EXCEPT ![0] = v]]
           /\ saves' = [saves EXCEPT ![f] = IF saves[f] # <<>> /\ Head(saves[f]) = v THEN saves[f] ELSE <<v>> \o saves[f]]
  BY <1>2 DEF Memory!Publish
<1>7. CASE Memory!Fault(TRUE) /\ fileJob' = Memory!Free
  <2>1. UNCHANGED <<bak, saves>>
    BY <1>6, <1>7 DEF Memory!Free
  <2> QED BY <1>0, <1>1, <1>7, <2>1, BackupFails
<1>8. CASE UNCHANGED patchLeft /\ Memory!At("replace", 0)
  <2>1. fileJob'.pc = "replace" /\ fileJob'.file = f
    BY <1>0, <1>1, <1>2, <1>8, BackupAt
  <2>2. PICK b : b = [bak[f] EXCEPT ![0] = v]
    OBVIOUS
  <2>3. b \in [0 .. (Count - 1) -> Nat] /\ b[0] = v /\ \A k \in 0 .. (Count - 1) : k # 0 => b[k] = bak[f][k]
    <3>1. bak[f] \in [0 .. (Count - 1) -> Nat] /\ 0 \in 0 .. (Count - 1)
      BY <1>3, <1>4
    <3> QED BY <1>4, <2>2, <3>1
  <2>4. bak' \in [File -> [0 .. (Count - 1) -> Nat]] /\ bak'[f] = b /\ \A g \in File \ {f} : bak'[g] = bak[g]
    <3>1. bak' = [bak EXCEPT ![f] = b]
      BY <1>6, <2>1, <2>2
    <3> QED BY <1>3, <1>4, <2>3, <3>1
  <2>5. PICK s : s = IF saves[f] # <<>> /\ Head(saves[f]) = v THEN saves[f] ELSE <<v>> \o saves[f]
    OBVIOUS
  <2>6. saves' = [saves EXCEPT ![f] = s]
    BY <1>6, <2>1, <2>5
  <2>7. /\ s \in Seq(Nat) /\ s # <<>> /\ s[1] = v
        /\ \/ s = saves[f] /\ saves[f] # <<>> /\ saves[f][1] = v
           \/ /\ ~(saves[f] # <<>> /\ saves[f][1] = v)
              /\ Len(s) = Len(saves[f]) + 1 /\ \A i \in 2 .. (Len(saves[f]) + 1) : s[i] = saves[f][i - 1]
    <3>0. saves[f] # <<>> => Head(saves[f]) = saves[f][1]
      BY <1>4
    <3>1. CASE saves[f] # <<>> /\ saves[f][1] = v
      BY <1>4, <2>5, <3>0, <3>1
    <3>2. CASE ~(saves[f] # <<>> /\ saves[f][1] = v)
      <4>1. PICK a : a = <<v>> \o saves[f]
        OBVIOUS
      <4>2. /\ a \in Seq(Nat) /\ Len(a) = Len(saves[f]) + 1 /\ a[1] = v
            /\ \A i \in 2 .. (Len(saves[f]) + 1) : a[i] = saves[f][i - 1]
        BY <1>4, <4>1, SeqCons
      <4>3. s = a
        BY <2>5, <3>0, <3>2, <4>1
      <4>4. a # <<>>
        BY <1>4, <4>2
      <4> QED BY <3>2, <4>2, <4>3, <4>4
    <3> QED BY <3>1, <3>2
  <2>8. saves' \in [File -> Seq(Nat)] /\ saves'[f] = s /\ \A g \in File \ {f} : saves'[g] = saves[g]
    BY <1>3, <1>4, <2>6, <2>7
  <2>9. (\A k \in Nat : BackupMoved(f, k) /\ ~BackupMoved(f, k)') /\ ~BackupRepeats(f)'
    BY <1>0, <1>2, <2>1 DEF BackupMoved, BackupRepeats
  <2>10. BackupSpent \in Nat /\ BackupSpent' = BackupSpent
    BY <1>0, <1>8 DEF BackupTypeOK, BackupSpent, BackupConstants
  <2>11. \A i \in 1 .. Len(saves[f]) : saves[f][i] \in 1 .. v
    BY <1>0, <1>3 DEF BackupSaved
  \* Where the copy of a version is now.
  <2>12. ASSUME NEW i \in 1 .. Len(saves[f]), i <= Count - 1 - BackupSpent
         PROVE  \E k \in Nat : /\ k <= i + BackupSpent /\ bak'[f][k] = saves[f][i]
                               /\ BackupRepeats(f) => k <= i - 1 + BackupSpent
    <3>1. PICK k \in Nat : /\ k <= i - 1 + BackupSpent /\ k <= Count - 2
                           /\ BackupRepeats(f) => k <= i - 2 + BackupSpent
                           /\ BackupMoved(f, k) => bak[f][k + 1] = saves[f][i]
                           /\ ~BackupMoved(f, k) => bak[f][k] = saves[f][i]
      BY <1>0, <1>1, <1>2, <2>12, BackupPlace
    <3>2. bak[f][k + 1] = saves[f][i] /\ k + 1 \in 0 .. (Count - 1) /\ k + 1 # 0
      BY <1>4, <2>9, <3>1
    <3>3. bak'[f][k + 1] = saves[f][i]
      BY <2>3, <2>4, <3>2
    <3>4. k + 1 \in Nat /\ k + 1 <= i + BackupSpent /\ (BackupRepeats(f) => k + 1 <= i - 1 + BackupSpent)
      BY <2>10, <3>1
    <3> QED BY <3>3, <3>4
  <2>13. ASSUME NEW i \in 1 .. Len(s), i <= Count - 1 - BackupSpent
         PROVE  \E k \in Nat : k <= i - 1 + BackupSpent /\ bak'[f][k] = s[i]
    <3>1. CASE s = saves[f] /\ saves[f] # <<>> /\ saves[f][1] = v
      <4>1. BackupRepeats(f)
        BY <1>0, <1>3, <3>1 DEF BackupRepeats
      <4> QED BY <2>12, <2>13, <3>1, <4>1
    <3>2. CASE /\ Len(s) = Len(saves[f]) + 1 /\ \A j \in 2 .. (Len(saves[f]) + 1) : s[j] = saves[f][j - 1]
      <4>0. Len(saves[f]) \in Nat
        BY <1>4
      <4>1. CASE i = 1
        <5>1. 0 <= i - 1 + BackupSpent
          BY <2>10, <4>1
        <5>2. bak'[f][0] = s[i]
          BY <2>3, <2>4, <2>7, <4>1
        <5> QED BY <5>1, <5>2
      <4>2. CASE i # 1
        <5>1. i - 1 \in 1 .. Len(saves[f]) /\ i - 1 <= Count - 1 - BackupSpent /\ i \in 2 .. (Len(saves[f]) + 1)
          BY <1>4, <2>10, <2>13, <3>2, <4>0, <4>2
        <5>2. PICK j : j = i - 1
          OBVIOUS
        <5>3. j \in 1 .. Len(saves[f]) /\ j <= Count - 1 - BackupSpent /\ s[i] = saves[f][j]
          BY <3>2, <5>1, <5>2
        <5>4. PICK k \in Nat : k <= j + BackupSpent /\ bak'[f][k] = saves[f][j]
          BY <2>12, <5>3
        <5>5. k <= i - 1 + BackupSpent
          BY <5>2, <5>4
        <5> QED BY <5>3, <5>4, <5>5
      <4> QED BY <4>1, <4>2
    <3> QED BY <2>7, <3>1, <3>2
  <2>14. \A i \in 1 .. Len(s) : s[i] \in 1 .. v
    <3>1. ASSUME NEW i \in 1 .. Len(s) PROVE s[i] \in 1 .. v
      <4>1. CASE i = 1
        BY <1>4, <2>7, <4>1
      <4>2. CASE i # 1
        <5>0. Len(saves[f]) \in Nat
          BY <1>4
        <5>1. CASE s = saves[f]
          BY <2>11, <5>1
        <5>2. CASE Len(s) = Len(saves[f]) + 1 /\ \A j \in 2 .. (Len(saves[f]) + 1) : s[j] = saves[f][j - 1]
          <6>1. i - 1 \in 1 .. Len(saves[f]) /\ i \in 2 .. (Len(saves[f]) + 1)
            BY <4>2, <5>0, <5>2
          <6> QED BY <2>11, <5>2, <6>1
        <5> QED BY <2>7, <5>1, <5>2
      <4> QED BY <4>1, <4>2
    <3> QED BY <3>1
  <2>15. BackupSaved(f)'
    <3>1. ASSUME NEW i \in 1 .. Len(s), i <= Count - 1 - BackupSpent
          PROVE  \E x \in 0 .. (i - 1 + BackupSpent' - (IF BackupRepeats(f)' THEN 1 ELSE 0)) :
                   bak'[f][IF BackupMoved(f, x)' THEN x + 1 ELSE x] = saves'[f][i]
      <4>1. PICK k \in Nat : k <= i - 1 + BackupSpent /\ bak'[f][k] = s[i]
        BY <2>13, <3>1
      <4>2. /\ i \in Nat \ {0} /\ BackupSpent' \in Nat /\ k <= i - 1 + BackupSpent' /\ bak'[f][k] = saves'[f][i]
            /\ ~BackupRepeats(f)' /\ ~BackupMoved(f, k)'
        BY <2>8, <2>9, <2>10, <4>1
      <4> QED BY <4>2, BackupPlaces
    <3> QED BY <1>0, <1>3, <2>8, <2>10, <2>14, <3>1 DEF BackupSaved
  <2>16. /\ UNCHANGED <<cur, patchLeft>> /\ \A g \in File \ {f} : bak'[g] = bak[g] /\ saves'[g] = saves[g]
         /\ bak'[f][0] = fileJob.data /\ saves'[f] # <<>> /\ saves'[f][1] = fileJob.data
    BY <1>0, <1>2, <1>8, <2>3, <2>4, <2>7, <2>8
  <2> QED BY <1>1, <1>2, <1>8, <2>4, <2>8, <2>15, <2>16, BackupGoes
<1> QED BY <1>5, <1>7, <1>8

\* The file is replaced.
LEMMA BackupReplaces ==
    ASSUME BackupConstants, BackupInv, Memory!Replace PROVE BackupInv'
<1>0. /\ BackupTypeOK /\ BackupJob /\ BackupNewest /\ \A g \in File : BackupSaved(g)
      /\ fileJob.pc = "replace" /\ UNCHANGED <<bak, saves>> /\ fileJob' = Memory!Free
  BY DEF BackupInv, Memory!Replace
<1>1. fileJob # Memory!Free /\ fileJob'.pc = "idle"
  BY <1>0 DEF Memory!Free
<1>2. PICK f, v : f = fileJob.file /\ v = fileJob.data
  OBVIOUS
<1>3. f \in File /\ v = cur[f].ver /\ cur[f].patched = FALSE /\ bak[f][0] = v
  BY <1>0, <1>1, <1>2 DEF BackupJob, BackupNewest
<1>4. \/ Memory!Fault(TRUE) /\ cur' = cur
      \/ UNCHANGED patchLeft /\ cur' = [cur EXCEPT ![f] = [ver |-> v, patched |-> TRUE]]
  BY <1>2 DEF Memory!Replace, Memory!Fault
<1>5. CASE Memory!Fault(TRUE) /\ cur' = cur
  BY <1>0, <1>1, <1>5, BackupFails
<1>6. CASE UNCHANGED patchLeft /\ cur' = [cur EXCEPT ![f] = [ver |-> v, patched |-> TRUE]]
  <2>1. /\ DOMAIN cur' = File /\ \A g \in File \ {f} : cur'[g] = cur[g]
        /\ cur'[f] = [ver |-> v, patched |-> TRUE]
    BY <1>0, <1>3, <1>6 DEF BackupTypeOK
  <2>2. /\ cur'[f].ver = v /\ cur'[f].patched = TRUE
        /\ cur'[f] = [ver |-> cur'[f].ver, patched |-> cur'[f].patched]
    BY <2>1
  <2>3. BackupTypeOK'
    <3>1. \A g \in File : /\ cur'[g] = [ver |-> cur'[g].ver, patched |-> cur'[g].patched]
                          /\ cur'[g].ver \in Nat \ {0} /\ cur'[g].patched \in BOOLEAN
      <4>1. ASSUME NEW g \in File, g # f
            PROVE  /\ cur[g] = [ver |-> cur[g].ver, patched |-> cur[g].patched]
                   /\ cur[g].ver \in Nat \ {0} /\ cur[g].patched \in BOOLEAN
        BY <1>0 DEF BackupTypeOK
      <4>2. cur'[f].ver \in Nat \ {0}
        BY <1>0, <1>3, <2>2 DEF BackupTypeOK
      <4>3. cur'[f].patched \in BOOLEAN
        BY <2>2, Zenon
      <4> QED BY <2>1, <2>2, <4>1, <4>2, <4>3
    <3> QED BY <1>0, <1>6, <2>1, <3>1 DEF BackupTypeOK
  <2>4. BackupJob' /\ BackupNewest'
    BY <1>0, <1>1, <1>3, <2>1, <2>2 DEF BackupJob, BackupNewest
  <2>5. BackupSpent \in Nat /\ BackupSpent' = BackupSpent
    BY <1>0, <1>6 DEF BackupTypeOK, BackupSpent, BackupConstants
  <2>6. ASSUME NEW g \in File, g # f PROVE BackupSaved(g)'
    <3>1. bak'[g] = bak[g] /\ saves'[g] = saves[g] /\ cur'[g] = cur[g] /\ BackupSpent <= BackupSpent'
      BY <1>0, <2>1, <2>5, <2>6
    <3> QED BY <1>0, <1>1, <1>2, <2>5, <2>6, <3>1, BackupStill
  <2>7. BackupSaved(f)'
    <3>1. /\ \A k \in Nat : ~BackupMoved(f, k) /\ ~BackupMoved(f, k)'
          /\ ~BackupRepeats(f) /\ ~BackupRepeats(f)'
      BY <1>0, <1>1, <1>2, <2>2 DEF BackupMoved, BackupRepeats
    <3>2. saves'[f] = saves[f] /\ bak'[f] = bak[f] /\ \A i \in 1 .. Len(saves[f]) : saves[f][i] \in 1 .. v
      BY <1>0, <1>3 DEF BackupSaved
    <3>3. ASSUME NEW i \in 1 .. Len(saves[f]), i <= Count - 1 - BackupSpent
          PROVE  \E x \in 0 .. (i - 1 + BackupSpent' - (IF BackupRepeats(f)' THEN 1 ELSE 0)) :
                   bak'[f][IF BackupMoved(f, x)' THEN x + 1 ELSE x] = saves'[f][i]
      <4>1. PICK k \in 0 .. (i - 1 + BackupSpent - 0) : bak[f][IF BackupMoved(f, k) THEN k + 1 ELSE k] = saves[f][i]
        BY <1>0, <1>3, <3>1, <3>3 DEF BackupSaved
      <4>2. k \in Nat /\ k <= i - 1 + BackupSpent
        BY <2>5, <4>1
      <4>3. /\ i \in Nat \ {0} /\ BackupSpent' \in Nat /\ k <= i - 1 + BackupSpent' /\ bak'[f][k] = saves'[f][i]
            /\ ~BackupRepeats(f)' /\ ~BackupMoved(f, k)'
        BY <2>5, <3>1, <3>2, <4>1, <4>2
      <4> QED BY <4>2, <4>3, BackupPlaces
    <3> QED BY <2>2, <2>5, <3>2, <3>3 DEF BackupSaved
  <2> QED BY <2>3, <2>4, <2>6, <2>7 DEF BackupInv
<1> QED BY <1>4, <1>5, <1>6

\* Every step keeps the saved versions where they can be found.
LEMMA BackupStep == ASSUME BackupConstants, BackupInv, [Memory!Next]_(Memory!vars) PROVE BackupInv'
<1>0. BackupTypeOK
  BY DEF BackupInv
<1>1. ASSUME UNCHANGED <<cur, bak, saves, fileJob>>, UNCHANGED patchLeft \/ \E bad \in BOOLEAN : Memory!Fault(bad)
      PROVE  BackupInv'
  <2>1. CASE UNCHANGED patchLeft
    <3>1. /\ patchLeft' = [fault |-> patchLeft'.fault, restart |-> patchLeft'.restart]
          /\ patchLeft'.fault \in 0 .. MaxFaults /\ patchLeft'.restart \in Nat /\ patchLeft'.fault <= patchLeft.fault
      BY <1>0, <2>1 DEF BackupTypeOK, BackupConstants
    <3> QED BY <1>1, <3>1, BackupAside
  <2>2. ASSUME NEW bad \in BOOLEAN, Memory!Fault(bad) PROVE BackupInv'
    <3>1. /\ patchLeft' = [fault |-> patchLeft'.fault, restart |-> patchLeft'.restart]
          /\ patchLeft'.fault \in 0 .. MaxFaults /\ patchLeft'.restart \in Nat
          /\ BackupSpent \in Nat /\ BackupSpent' \in Nat /\ (BackupSpent' = BackupSpent \/ BackupSpent' = BackupSpent + 1)
      BY <1>0, <2>2, BackupFault
    <3>2. patchLeft'.fault <= patchLeft.fault
      BY <1>0, <3>1 DEF BackupTypeOK, BackupSpent, BackupConstants
    <3> QED BY <1>1, <3>1, <3>2, BackupAside
  <2> QED BY <1>1, <2>1, <2>2
<1>2. CASE UNCHANGED Memory!vars
  BY <1>1, <1>2 DEF Memory!vars
<1>3. CASE \E f \in File : Memory!VendorUpdates(f)
  BY <1>3, BackupVendor
<1>4. CASE Memory!InstallAuctionSearchGuard \/ Memory!PatchPVFUpgradeSeparate
  <2>1. PICK f \in {"script", "pvf"} : f \in File /\ Memory!Take(f) /\ ~cur[f].patched
    BY <1>4 DEF Memory!InstallAuctionSearchGuard, Memory!PatchPVFUpgradeSeparate, Memory!upsertAuctionSearchGuard,
         Memory!findUpgradeSeparateValue
  <2>2. cur[f].patched \in BOOLEAN
    BY <1>0, <2>1 DEF BackupTypeOK
  <2>3. cur[f].patched = FALSE
    BY <2>1, <2>2
  <2> QED BY <2>1, <2>3, BackupTakes
<1>5. CASE Memory!WriteTemp \/ Memory!RemoveOldest \/ Memory!Shift \/ Memory!Publish \/ Memory!Replace
  BY <1>5, BackupRemoves, BackupShifts, BackupPublishes, BackupReplaces
<1>6. CASE Memory!Restarts
  <2>1. /\ UNCHANGED <<cur, bak, saves, fileJob>>
        /\ patchLeft["restart"] > 0 /\ patchLeft' = [patchLeft EXCEPT !["restart"] = patchLeft["restart"] - 1]
    BY <1>6 DEF Memory!Restarts, Memory!Spend, Memory!fileVars
  <2>2. /\ patchLeft = [fault |-> patchLeft.fault, restart |-> patchLeft.restart]
        /\ patchLeft.fault \in 0 .. MaxFaults /\ patchLeft.restart \in Nat /\ MaxFaults \in Nat
    BY <1>0 DEF BackupTypeOK, BackupConstants
  <2>3. patchLeft' = [fault |-> patchLeft.fault, restart |-> patchLeft.restart - 1] /\ patchLeft.restart > 0
    BY <2>1, <2>2
  <2>4. /\ patchLeft' = [fault |-> patchLeft'.fault, restart |-> patchLeft'.restart]
        /\ patchLeft'.fault \in 0 .. MaxFaults /\ patchLeft'.restart \in Nat /\ patchLeft'.fault <= patchLeft.fault
    BY <2>2, <2>3
  <2> QED BY <2>1, <2>4, BackupAside
<1>7. ASSUME NEW p \in Patcher, \/ Memory!PatchBegins(p) \/ Memory!Preflight(p)
                                \/ Memory!ApplySite(p) \/ Memory!RollbackSite(p)
      PROVE  BackupInv'
  <2>1. UNCHANGED <<cur, bak, saves, fileJob>>
    BY <1>7 DEF Memory!PatchBegins, Memory!Preflight, Memory!ApplySite, Memory!RollbackSite, Memory!fileVars
  <2>2. UNCHANGED patchLeft \/ \E bad \in BOOLEAN : Memory!Fault(bad)
    BY <1>7 DEF Memory!PatchBegins, Memory!Preflight, Memory!ApplySite, Memory!RollbackSite
  <2> QED BY <1>1, <2>1, <2>2
<1> QED BY <1>2, <1>3, <1>4, <1>5, <1>6, <1>7 DEF Memory!Next

\* What a patch of the game's files replaced is among the copies, and of the versions
\* saved all but the oldest, and one more for each interruption, are there
\* (filebackup.Save, InstallAuctionSearchGuard, PatchPVFUpgradeSeparate).
THEOREM BackupCanGoBack ==
    ASSUME BackupConstants
    PROVE  Memory!Spec => []Memory!CanGoBack
<1>1. Memory!Init => BackupInv
  BY BackupInit
<1>2. BackupInv /\ [Memory!Next]_(Memory!vars) => BackupInv'
  BY BackupStep
<1>3. BackupInv => Memory!CanGoBack
  <2> SUFFICES ASSUME BackupInv, NEW f \in File
               PROVE  LET copies == {bak[f][i] : i \in DOMAIN bak[f]}
                          kept == Count - 1 - (MaxFaults - patchLeft.fault) IN
                      /\ cur[f].patched => cur[f].ver \in copies
                      /\ \A i \in DOMAIN saves[f] : i <= kept => saves[f][i] \in copies
    BY DEF Memory!CanGoBack
  <2>1. /\ Count \in Nat /\ Count >= 2 /\ bak[f] \in [0 .. (Count - 1) -> Nat] /\ saves[f] \in Seq(Nat)
        /\ cur[f].patched \in BOOLEAN /\ BackupSpent \in Nat
    BY DEF BackupInv, BackupTypeOK, BackupConstants, BackupSpent
  <2>2. DOMAIN bak[f] = 0 .. (Count - 1) /\ DOMAIN saves[f] = 1 .. Len(saves[f])
    BY <2>1
  <2>3. cur[f].patched => cur[f].ver = bak[f][0] /\ 0 \in DOMAIN bak[f]
    BY <2>1, <2>2 DEF BackupInv, BackupNewest
  <2>4. ASSUME NEW i \in 1 .. Len(saves[f]), i <= Count - 1 - BackupSpent
        PROVE  \E x \in DOMAIN bak[f] : bak[f][x] = saves[f][i]
    <3>1. PICK d \in {0, 1} : d = IF BackupRepeats(f) THEN 1 ELSE 0
      OBVIOUS
    <3>2. PICK k \in 0 .. (i - 1 + BackupSpent - d) : bak[f][IF BackupMoved(f, k) THEN k + 1 ELSE k] = saves[f][i]
      BY <2>4, <3>1 DEF BackupInv, BackupSaved
    <3>3. PICK s \in Nat : s = BackupSpent
      BY <2>1
    <3>4. i \in Nat /\ i <= Count - 1 - s /\ k \in 0 .. (i - 1 + s - d)
      BY <2>4, <3>2, <3>3
    <3>5. k \in 0 .. (Count - 1) /\ k + 1 \in 0 .. (Count - 1)
      <4>1. PICK c \in Nat : c = Count
        BY <2>1
      <4>2. PICK m \in 0 .. (i - 1 + s - d) : m = k
        BY <3>4
      <4>3. i \in Nat /\ i <= c - 1 - s /\ d \in {0, 1} /\ s \in Nat
        BY <3>1, <3>4, <4>1
      <4>4. m \in Nat /\ m <= i - 1 + s - d
        BY <4>2, <4>3
      <4>5. m <= c - 2
        BY <4>3, <4>4
      <4> QED BY <4>1, <4>2, <4>4, <4>5
    <3> QED BY <2>2, <3>2, <3>5
  <2>5. ASSUME NEW i \in DOMAIN saves[f], i <= Count - 1 - (MaxFaults - patchLeft.fault)
        PROVE  saves[f][i] \in {bak[f][x] : x \in DOMAIN bak[f]}
    <3>1. i \in 1 .. Len(saves[f]) /\ i <= Count - 1 - BackupSpent
      BY <2>2, <2>5 DEF BackupSpent
    <3>2. PICK x \in DOMAIN bak[f] : bak[f][x] = saves[f][i]
      BY <2>4, <3>1
    <3> QED BY <3>2
  <2> QED BY <2>3, <2>5
<1> QED BY <1>1, <1>2, <1>3, PTL DEF Memory!Spec

-----------------------------------------------------------------------------
(* What several components promise together.                               *)

\* The patches of the auction service's memory (applyAuctionMemoryPatches) and the player
\* limits of the channels (writeMaxUserNum) are all made or all undone, and no
\* earlier start brings services up after a stop script was accepted.
THEOREM WritesAllOrNothing ==
    ASSUME MemoryConstants, ControlConstants
    PROVE  Memory!Spec /\ Control!Spec => []AllOrNothing
  <1>1. Memory!AllBytesOrNone /\ Control!StopWins /\ Control!LimitTogether => AllOrNothing
    BY DEF AllOrNothing
  <1> QED
    BY <1>1, MemoryAllBytesOrNone, ControlAllOrNothing, PTL

\* What was replaced can be got back: the market's files of the game from their
\* numbered copies, the robot and its configuration from the launcher's, whatever step
\* failed.
THEOREM ReplacedFilesRecoverable ==
    ASSUME BackupConstants, DeployConstants
    PROVE  Memory!Spec /\ Deployment!Spec => []FilesRecoverable
  <1>1. Memory!CanGoBack /\ Deployment!NothingTorn => FilesRecoverable
    BY DEF FilesRecoverable
  <1> QED
    BY <1>1, BackupCanGoBack, DeployNothingTorn, PTL
=============================================================================
