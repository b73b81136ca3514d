------------------------- MODULE StorePointsProofs -------------------------
(***************************************************************************)
(* Proofs about the stall point coordinator (module StorePoints), for all  *)
(* grids, robots, durations and limits.                                    *)
(*                                                                         *)
(* Every step of a robot has one of three forms: it gives claims back      *)
(* (Yields), takes a free point (Takes), or reports a displayed store      *)
(* (Reports).  The forms are shown to keep the invariants, and each action *)
(* to have one of them.  PointsInv holds whether or not attempts outlive   *)
(* the leases of their claims; FitInv, with Apart, if they do not.         *)
(***************************************************************************)
EXTENDS StorePoints, FiniteSetTheorems, WellFoundedInduction, NaturalsInduction, TLAPS

-----------------------------------------------------------------------------
(* The operators *)

\* A nonempty set of natural numbers has a least element.
LEMMA LeastNat ==
  ASSUME NEW S, S \subseteq Nat, S # {}
  PROVE  \E n \in S : \A m \in S : n <= m
<1>1. PICK n \in S : \A m \in S : <<m, n>> \notin OpToRel(<, Nat) BY NatLessThanWellFounded, WFMin
<1>2. \A m \in S : ~(m < n) BY <1>1 DEF OpToRel
<1> QED BY <1>2

\* The points are positive numbers, and have an area and a position.
LEMMA GridFacts ==
  /\ Len(Grid) \in Nat /\ Points \subseteq Nat /\ None \notin Points
  /\ \A p \in Points : Grid[p].area \in Nat \ {0} /\ Grid[p].x \in Int /\ Grid[p].y \in Int
<1> DEFINE Cell == [area : Nat \ {0}, x : Int, y : Int]
<1>1. Grid \in Seq(Cell) BY PointsAssumption
<1>2. Len(Grid) \in Nat /\ \A p \in 1 .. Len(Grid) : Grid[p] \in Cell
  <2> HIDE DEF Cell
  <2> QED BY <1>1
<1>3. \A p \in Points : Grid[p].area \in Nat \ {0} /\ Grid[p].x \in Int /\ Grid[p].y \in Int BY <1>2 DEF Points
<1> QED BY <1>2, <1>3 DEF Points, None

\* Turn counts the areas from the cursor on.
LEMMA TurnIsNat ==
  ASSUME cursor \in Nat, NEW p \in Points
  PROVE  Turn(p) \in Nat
<1>1. IsFiniteSet(Points) BY GridFacts, FS_Interval DEF Points
<1>2. IsFiniteSet(Areas)
  <2>1. [q \in Points |-> Grid[q].area] \in Surjection(Points, Areas) BY DEF Surjection, Areas
  <2> QED BY <1>1, <2>1, FS_Surjection
<1>3. Cardinality(Areas) \in Nat BY <1>2, FS_CardinalityType
<1>4. Cardinality(Areas) # 0 BY <1>2, FS_EmptySet DEF Areas
<1>5. Grid[p].area - cursor \in Int BY GridFacts
<1> QED BY <1>3, <1>4, <1>5 DEF Turn

\* What collides is found in the three by three cells that are searched.
LEMMA ConflictIsNear ==
  ASSUME NEW p \in Points, NEW q \in Points, PositionsConflict(p, q)
  PROVE  NearCell(p, q) /\ PositionsConflict(q, p)
<1>1. \A a, b \in Int : Abs(a - b) <= 119 => Abs((a \div 120) - (b \div 120)) <= 1 /\ Abs(b - a) <= 119 BY DEF Abs
<1>2. \A a, b \in Int : Abs(a - b) <= 159 => Abs((a \div 160) - (b \div 160)) <= 1 /\ Abs(b - a) <= 159 BY DEF Abs
<1>3. SameArea(p, q) /\ SameArea(q, p) BY DEF PositionsConflict, SameArea
<1> DEFINE px == Grid[p].x
           py == Grid[p].y
           qx == Grid[q].x
           qy == Grid[q].y
<1>4. px \in Int /\ py \in Int /\ qx \in Int /\ qy \in Int BY GridFacts
<1>5. Abs(px - qx) <= 119 /\ Abs(py - qy) <= 159 BY DEF PositionsConflict
<1>6. Abs((px \div 120) - (qx \div 120)) <= 1 /\ Abs(qx - px) <= 119
  <2> HIDE DEF px, qx
  <2> QED BY <1>1, <1>4, <1>5
<1>7. Abs((py \div 160) - (qy \div 160)) <= 1 /\ Abs(qy - py) <= 159
  <2> HIDE DEF py, qy
  <2> QED BY <1>2, <1>4, <1>5
<1>8. /\ OccupancyCell(p)[1] = px \div 120 /\ OccupancyCell(q)[1] = qx \div 120
      /\ OccupancyCell(p)[2] = py \div 160 /\ OccupancyCell(q)[2] = qy \div 160
  BY DEF OccupancyCell
<1>9. NearCell(p, q) BY <1>3, <1>6, <1>7, <1>8 DEF NearCell
<1>10. PositionsConflict(q, p) BY <1>3, <1>6, <1>7 DEF PositionsConflict
<1> QED BY <1>9, <1>10

\* A point collides with itself.
LEMMA ConflictWithSelf ==
  ASSUME NEW p \in Points
  PROVE  PositionsConflict(p, p)
BY GridFacts DEF PositionsConflict, SameArea, Abs

\* The point that claim chooses is free: it does not block, and collides with
\* nothing that does.
LEMMA ChoiceIsFree ==
  ASSUME cursor \in Nat, NEW p \in Points, p = Choice
  PROVE  ~Live(claims, succ, p) /\ \A q \in Points : Live(claims, succ, q) => ~PositionsConflict(p, q)
<1> DEFINE passes == {k \in 1 .. 6 : Candidates(k) # {}}
           best == Candidates(CHOOSE k \in passes : \A l \in passes : k <= l)
<1>1. passes # {} BY GridFacts DEF Choice
<1>2. passes \subseteq Nat OBVIOUS
<1>3. \E k \in passes : \A l \in passes : k <= l
  <2> HIDE DEF passes
  <2> QED BY <1>1, <1>2, LeastNat
<1>4. (CHOOSE k \in passes : \A l \in passes : k <= l) \in passes
  <2> HIDE DEF passes
  <2> QED BY <1>3
<1>5. best # {} BY <1>4
<1>6. best \subseteq {q \in Points : Free(q)}  BY DEF Candidates
<1>7. \E b \in best : \A q \in best : Precedes(b, q)
  <2> HIDE DEF best
  <2> DEFINE turns == {Turn(q) : q \in best}
  <2>1. turns \subseteq Nat BY <1>6, TurnIsNat
  <2>2. turns # {} BY <1>5
  <2>3. \E t \in turns : \A v \in turns : t <= v
    <3> HIDE DEF turns
    <3> QED BY <2>1, <2>2, LeastNat
  <2>4. PICK a \in best : \A q \in best : Turn(a) <= Turn(q) BY <2>3
  <2> DEFINE first == {q \in best : Turn(q) = Turn(a)}
  <2>5. first \subseteq Nat /\ first # {} BY <1>6, GridFacts
  <2>6. PICK b \in first : \A q \in first : b <= q
    <3> HIDE DEF first
    <3> QED BY <2>5, LeastNat
  <2>7. \A q \in best : Turn(q) \in Nat BY <2>1
  <2>8. ASSUME NEW q \in best PROVE Precedes(b, q)
    <3>1. Turn(b) = Turn(a) /\ Turn(b) <= Turn(q) BY <2>4, <2>6
    <3>2. CASE Turn(b) = Turn(q) BY <2>6, <3>1, <3>2 DEF Precedes
    <3>3. CASE Turn(b) # Turn(q) BY <2>6, <2>7, <3>1, <3>3 DEF Precedes
    <3> QED BY <3>2, <3>3
  <2> QED BY <2>6, <2>8
<1>8. p \in best
  <2>1. p = CHOOSE b \in best : \A q \in best : Precedes(b, q) BY <1>1 DEF Choice
  <2> HIDE DEF best
  <2> QED BY <1>7, <2>1
<1>9. Free(p) BY <1>6, <1>8
<1>10. \A q \in Points : Live(claims, succ, q) => ~PositionsConflict(p, q)
  BY <1>9, ConflictIsNear DEF Free, Occupied
<1> QED BY <1>10, ConflictWithSelf

-----------------------------------------------------------------------------
(* The inductive invariant *)

\* What an attempt holds at each of its steps.
JobShape(j) ==
  /\ j \in Jobs
  /\ j.pc = "idle" => j = Idle
  /\ j.pc \in {"next", "cleanup"} => j.pos = None
  /\ j.pc \in {"prepare", "try", "report"} => j.pos # None
  /\ j.pc \in {"prepare", "report"} => j.fail = None
  /\ j.fail # None => j.why \in Ambiguous

\* The types that the argument needs, and the shape of the attempts.
Typed ==
  /\ claims \in [Points -> Claims]
  /\ succ \in [Points -> Nat] /\ file \in [Points -> Nat]
  /\ cursor \in Nat
  /\ job \in [Uids -> Jobs] /\ \A u \in Uids : JobShape(job[u])
  /\ stall \in [Uids -> Points \cup {None}]

\* A claim that waits for its result expires when it stops blocking; the store
\* that a claim covers is due no later than the claim is forgotten.
CoveredAt(p) ==
  /\ claims[p].reuse <= claims[p].lease
  /\ claims[p].until > 0 => claims[p].expires = claims[p].until
  /\ claims[p].uid \in Uids /\ succ[p] > 0 => claims[p].expires >= succ[p]
Covered == \A p \in Points : CoveredAt(p)

\* The inductive invariant that holds whether or not attempts outlive their leases.
PointsInv == Typed /\ Covered /\ NoLeakedClaim

\* Attempts that end within their leases own what they have in hand, and have
\* two different points in hand if two.
HandHeld ==
  \A u \in Uids :
    /\ \A p \in InHand(u) : claims[p].uid = u /\ claims[p].until > 0
    /\ job[u].fail # None => job[u].fail # job[u].pos

\* The points of the active file are apart, however old it is.
FileApart ==
  \A p, q \in Points : p # q /\ file[p] > 0 /\ file[q] > 0 => ~PositionsConflict(p, q)

\* What holds besides when attempts end within their leases.
FitInv == HandHeld /\ Apart /\ FileApart

-----------------------------------------------------------------------------
(* The steps, as what they may do to claims, occupancy, file and attempts.    *)

\* The attempt that robot u has after a step, and what it has in hand then.
HandAfter(u) == {job'[u].pos, job'[u].fail} \ {None}

\* The file stays or is written from the occupancy before or after the step.
Written == file' = file \/ file' = succ \/ file' = succ'

\* Only robot u's attempt moves.
MovesOnly(u) ==
  /\ job' \in [Uids -> Jobs] /\ \A v \in Uids : v # u => job'[v] = job[v]
  /\ JobShape(job'[u])
  /\ stall' \in [Uids -> Points \cup {None}]

\* A step of robot u that gives back claims of its own or forgets expired ones.
Yields(u) ==
  /\ claims' \in [Points -> Claims] /\ succ' \in [Points -> Nat]
  /\ \A p \in Points :
       \/ claims'[p] = claims[p]
       \/ claims'[p] = NoClaim /\ (claims[p].uid = u \/ claims[p].expires < 0)
  /\ \A p \in Points : succ'[p] = succ[p] \/ (succ'[p] = 0 /\ claims[p].uid = u)
  /\ Written /\ cursor' = cursor /\ MovesOnly(u)
  /\ \A p \in InHand(u) : p \in HandAfter(u) \/ claims'[p].uid # u \/ claims'[p].until = 0
  /\ HandAfter(u) \subseteq InHand(u)
  /\ HandHeld => /\ \A p \in HandAfter(u) : claims'[p] = claims[p]
                 /\ job'[u].fail # None => job'[u].fail # job'[u].pos
  /\ job'[u] # job[u] \/ stall'[u] # stall[u] \/ \A p \in Points : claims[p].expires >= 0 => claims'[p] = claims[p] /\ succ'[p] = succ[p]

\* A step of robot u that claims the free point p.
Takes(u, p) ==
  /\ ~Live(claims, succ, p)
  /\ \A q \in Points : Live(claims, succ, q) => ~PositionsConflict(p, q)
  /\ claims' \in [Points -> Claims] /\ succ' = succ
  /\ \A q \in Points \ {p} :
       claims'[q] = claims[q] \/ (claims'[q] = NoClaim /\ claims[q].expires < 0)
  /\ \E r \in Reuse : claims'[p] = NewPointClaim(u, Lease, r)
  /\ file' = file /\ cursor' \in Nat /\ MovesOnly(u)
  /\ job[u].pos = None /\ job'[u].pos = p /\ job'[u].fail = job[u].fail

-----------------------------------------------------------------------------
(* The forms preserve the invariant *)

\* Giving back keeps the invariant.
LEMMA YieldsKeepInv ==
  ASSUME PointsInv, NEW u \in Uids, Yields(u)
  PROVE  PointsInv'
<1>0. Typed /\ Covered /\ NoLeakedClaim BY DEF PointsInv
<1>n. NoClaim \in Claims /\ NoClaim.uid = "none" /\ NoClaim.until = 0 /\ NoClaim.reuse = 0 /\ NoClaim.lease = 0 /\ NoClaim.expires = -1
  BY PointsAssumption DEF NoClaim, Claims
<1>1. Typed' BY <1>0 DEF Typed, Yields, MovesOnly, Written
<1>2. Covered'
  <2> SUFFICES ASSUME NEW p \in Points PROVE CoveredAt(p)'
    BY DEF Covered
  <2>1. CASE claims'[p] = NoClaim BY <1>n, <2>1, PointsAssumption DEF CoveredAt
  <2>2. CASE claims'[p] = claims[p] /\ succ'[p] = succ[p] BY <1>0, <2>2 DEF Covered, CoveredAt
  <2>3. CASE claims'[p] = claims[p] /\ succ'[p] = 0 BY <1>0, <2>3 DEF Covered, CoveredAt
  <2> QED BY <2>1, <2>2, <2>3 DEF Yields
<1>3. NoLeakedClaim'
  <2> SUFFICES ASSUME NEW p \in Points, claims'[p].until > 0
               PROVE  claims'[p].uid \in Uids /\ p \in HandAfter(claims'[p].uid)
    BY DEF NoLeakedClaim, HandAfter, InHand
  <2>1. claims'[p] = claims[p] BY <1>n DEF Yields
  <2>2. claims[p].uid \in Uids /\ p \in InHand(claims[p].uid) BY <1>0, <2>1 DEF NoLeakedClaim
  <2>3. CASE claims[p].uid = u BY <2>1, <2>2, <2>3, <1>1 DEF Yields, Typed, Claims
  <2>4. CASE claims[p].uid # u BY <2>1, <2>2, <2>4 DEF Yields, MovesOnly, InHand, HandAfter
  <2> QED BY <2>3, <2>4
<1> QED BY <1>1, <1>2, <1>3 DEF PointsInv

\* So does taking a free point.
LEMMA TakesKeepInv ==
  ASSUME PointsInv, NEW u \in Uids, NEW p \in Points, Takes(u, p)
  PROVE  PointsInv'
<1>0. Typed /\ Covered /\ NoLeakedClaim BY DEF PointsInv
<1>n. NoClaim.uid = "none" /\ NoClaim.until = 0 /\ NoClaim.reuse = 0 /\ NoClaim.lease = 0
  BY DEF NoClaim
<1>1. Typed' BY <1>0 DEF Typed, Takes, MovesOnly
<1>p. PICK r \in Reuse : claims'[p] = NewPointClaim(u, Lease, r) BY DEF Takes
<1>s. succ[p] = 0 BY <1>0 DEF Takes, Live, Typed
<1>2. Covered'
  <2> SUFFICES ASSUME NEW q \in Points PROVE CoveredAt(q)'
    BY DEF Covered
  <2>1. CASE q = p
    <3>1. claims'[p].reuse = r /\ claims'[p].lease = Lease /\ claims'[p].expires = claims'[p].until BY <1>p DEF NewPointClaim
    <3>2. succ'[p] = 0 BY <1>s DEF Takes
    <3> QED BY <2>1, <3>1, <3>2, PointsAssumption DEF CoveredAt
  <2>2. CASE claims'[q] = NoClaim BY <1>n, <2>2, PointsAssumption DEF CoveredAt
  <2>3. CASE claims'[q] = claims[q] BY <1>0, <2>3 DEF Covered, CoveredAt, Takes
  <2> QED BY <2>1, <2>2, <2>3 DEF Takes
<1>3. NoLeakedClaim'
  <2> SUFFICES ASSUME NEW q \in Points, claims'[q].until > 0
               PROVE  claims'[q].uid \in Uids /\ q \in HandAfter(claims'[q].uid)
    BY DEF NoLeakedClaim, HandAfter, InHand
  <2>1. CASE q = p BY <1>p, <2>1, GridFacts DEF Takes, NewPointClaim, HandAfter
  <2>2. CASE q # p
    <3>1. claims'[q] = claims[q] BY <1>n, <2>2 DEF Takes
    <3>2. claims[q].uid \in Uids /\ q \in InHand(claims[q].uid) BY <1>0, <3>1 DEF NoLeakedClaim
    <3> QED BY <3>1, <3>2 DEF Takes, MovesOnly, InHand, HandAfter
  <2> QED BY <2>1, <2>2
<1> QED BY <1>1, <1>2, <1>3 DEF PointsInv

\* Giving back blocks nothing new, and takes nothing out of a hand that keeps it.
LEMMA YieldsKeepFit ==
  ASSUME PointsInv, FitInv, NEW u \in Uids, Yields(u)
  PROVE  FitInv'
<1>0. Typed /\ Covered /\ NoLeakedClaim /\ HandHeld /\ Apart /\ FileApart BY DEF PointsInv, FitInv
<1>1. HandHeld'
  <2> SUFFICES ASSUME NEW v \in Uids
               PROVE  /\ \A p \in HandAfter(v) : claims'[p].uid = v /\ claims'[p].until > 0
                      /\ job'[v].fail # None => job'[v].fail # job'[v].pos
    BY DEF HandHeld, InHand, HandAfter
  <2>1. CASE v = u BY <1>0, <2>1 DEF Yields, HandHeld
  <2>2. CASE v # u
    <3>1. job'[v] = job[v] /\ HandAfter(v) = InHand(v) BY <2>2 DEF Yields, MovesOnly, InHand, HandAfter
    <3>2. ASSUME NEW p \in InHand(v) PROVE claims'[p].uid = v /\ claims'[p].until > 0
      <4>1. p \in Points /\ claims[p].uid = v /\ claims[p].until > 0 BY <1>0 DEF HandHeld, InHand, Typed, Jobs
      <4>2. claims[p].expires = claims[p].until /\ claims[p].until \in Int BY <1>0, <4>1, PointsAssumption DEF Covered, CoveredAt, Typed, Claims
      <4> QED BY <1>0, <2>2, <4>1, <4>2 DEF Yields
    <3> QED BY <1>0, <3>1, <3>2 DEF HandHeld
  <2> QED BY <2>1, <2>2
<1>2. \A p \in Points : Live(claims', succ', p) => Live(claims, succ, p)
  BY DEF Live, Yields, NoClaim
<1>3. Apart' BY <1>0, <1>2 DEF Apart
<1>4. FileApart'
  <2>2. CASE file' = file BY <1>0, <2>2 DEF FileApart
  <2>3. CASE file' = succ \/ file' = succ'
    <3>1. \A p \in Points : file'[p] > 0 => Live(claims, succ, p) BY <2>3 DEF Yields, Live
    <3> QED BY <1>0, <3>1 DEF FileApart, Apart
  <2> QED BY <2>2, <2>3 DEF Yields, Written
<1> QED BY <1>1, <1>3, <1>4 DEF FitInv

\* What is taken is apart from all that blocks.
LEMMA TakesKeepFit ==
  ASSUME PointsInv, FitInv, NEW u \in Uids, NEW p \in Points, Takes(u, p)
  PROVE  FitInv'
<1>0. Typed /\ Covered /\ NoLeakedClaim /\ HandHeld /\ Apart /\ FileApart BY DEF PointsInv, FitInv
<1>p. claims'[p].uid = u /\ claims'[p].until > 0 BY PointsAssumption DEF Takes, NewPointClaim
<1>1. HandHeld'
  <2> SUFFICES ASSUME NEW v \in Uids
               PROVE  /\ \A q \in HandAfter(v) : claims'[q].uid = v /\ claims'[q].until > 0
                      /\ job'[v].fail # None => job'[v].fail # job'[v].pos
    BY DEF HandHeld, InHand, HandAfter
  <2>1. ASSUME NEW q \in InHand(v) PROVE q # p /\ claims'[q].uid = v /\ claims'[q].until > 0
    <3>1. q \in Points /\ claims[q].uid = v /\ claims[q].until > 0 BY <1>0 DEF HandHeld, InHand, Typed, Jobs
    <3>2. q # p BY <3>1 DEF Takes, Live
    <3>3. claims[q].expires = claims[q].until /\ claims[q].until \in Int BY <1>0, <3>1, PointsAssumption DEF Covered, CoveredAt, Typed, Claims
    <3> QED BY <1>0, <3>1, <3>2, <3>3 DEF Takes
  <2>2. CASE v = u
    <3>1. HandAfter(u) \subseteq InHand(u) \cup {p} BY DEF Takes, InHand, HandAfter
    <3>2. job'[u].fail # None => job'[u].fail \in InHand(u) BY DEF Takes, InHand
    <3> QED BY <1>p, <2>1, <2>2, <3>1, <3>2 DEF Takes
  <2>3. CASE v # u
    <3>1. job'[v] = job[v] /\ HandAfter(v) = InHand(v) BY <2>3 DEF Takes, MovesOnly, InHand, HandAfter
    <3> QED BY <1>0, <2>1, <3>1 DEF HandHeld
  <2> QED BY <2>2, <2>3
<1>2. \A q \in Points \ {p} : Live(claims', succ', q) => Live(claims, succ, q)
  BY DEF Live, Takes, NoClaim
<1>3. Apart'
  <2> SUFFICES ASSUME NEW a \in Points, NEW b \in Points, a # b, Live(claims', succ', a), Live(claims', succ', b)
               PROVE  ~PositionsConflict(a, b)
    BY DEF Apart
  <2>1. CASE a = p BY <1>2, <2>1 DEF Takes
  <2>2. CASE b = p BY <1>2, <2>2, ConflictIsNear DEF Takes
  <2>3. CASE a # p /\ b # p BY <1>0, <1>2, <2>3 DEF Apart
  <2> QED BY <2>1, <2>2, <2>3
<1>4. FileApart' BY <1>0 DEF FileApart, Takes
<1> QED BY <1>1, <1>3, <1>4 DEF FitInv

-----------------------------------------------------------------------------
(* What the helpers on claims return *)

\* No claim belongs to no robot and blocks nothing.
LEMMA NoClaimFacts ==
  /\ NoClaim \in Claims /\ NoClaim.uid = "none" /\ NoClaim.until = 0 /\ NoClaim.expires = -1
  /\ NoClaim.uid \notin Uids
BY PointsAssumption DEF NoClaim, Claims

\* Discard drops the robot's own claim of the point and nothing else.
LEMMA DiscardFacts ==
  ASSUME NEW c \in [Points -> Claims], NEW u \in Uids, NEW p \in Points \cup {None}
  PROVE  /\ Discard(c, u, p) \in [Points -> Claims]
         /\ \A q \in Points : Discard(c, u, p)[q] = IF q = p /\ c[q].uid = u THEN NoClaim ELSE c[q]
BY NoClaimFacts, GridFacts DEF Discard, Owned

\* ClearExpiredClaims drops the expired claims.
LEMMA ClearFacts ==
  ASSUME NEW c \in [Points -> Claims]
  PROVE  /\ ClearExpiredClaims(c) \in [Points -> Claims]
         /\ \A q \in Points : ClearExpiredClaims(c)[q] = IF c[q].expires < 0 THEN NoClaim ELSE c[q]
BY NoClaimFacts DEF ClearExpiredClaims

\* ReleaseUID drops the robot's claims, and the occupancy under them.
LEMMA ReleasedFacts ==
  ASSUME NEW c \in [Points -> Claims], NEW s \in [Points -> Nat], NEW u \in Uids
  PROVE  /\ ReleasedClaims(c, u) \in [Points -> Claims]
         /\ \A q \in Points : ReleasedClaims(c, u)[q] = IF c[q].uid = u THEN NoClaim ELSE c[q]
         /\ ReleasedSucc(c, s, u) \in [Points -> Nat]
         /\ \A q \in Points : ReleasedSucc(c, s, u)[q] = IF c[q].uid = u THEN 0 ELSE s[q]
BY NoClaimFacts DEF ReleasedClaims, ReleasedSucc, Owned

\* An attempt in a shape: the types of its fields.
LEMMA JobFacts ==
  ASSUME Typed, NEW u \in Uids
  PROVE  /\ job[u].pos \in Points \cup {None} /\ job[u].fail \in Points \cup {None}
         /\ job[u] \in Jobs /\ JobShape(job[u])
         /\ InHand(u) \subseteq Points
BY DEF Typed, Jobs, InHand

\* A robot without an attempt has nothing in hand.
LEMMA IdleFacts ==
  Idle \in Jobs /\ JobShape(Idle) /\ Idle.pc = "idle" /\ Idle.pos = None /\ Idle.fail = None
<1>1. Idle.pc = "idle" /\ Idle.pos = None /\ Idle.fail = None BY DEF Idle
<1>2. Idle \in Jobs BY PointsAssumption DEF Idle, Jobs
<1> QED BY <1>1, <1>2 DEF JobShape

-----------------------------------------------------------------------------
(* Every action has one of the forms *)

\* A step that claims: a free point is taken, or there is none.
LEMMA ClaimFacts ==
  ASSUME Typed, NEW u \in Uids, NEW p \in Points \cup {None}, Claim(u, p)
  PROVE  /\ claims' \in [Points -> Claims]
         /\ p = None => claims' = ClearExpiredClaims(claims) /\ cursor' = cursor
         /\ p # None => /\ ~Live(claims, succ, p)
                        /\ \A q \in Points : Live(claims, succ, q) => ~PositionsConflict(p, q)
                        /\ \A q \in Points \ {p} : claims'[q] = ClearExpiredClaims(claims)[q]
                        /\ \E r \in Reuse : claims'[p] = NewPointClaim(u, Lease, r)
                        /\ cursor' \in Nat
<1>0. claims \in [Points -> Claims] /\ cursor \in Nat BY DEF Typed
<1>1. CASE p = None BY <1>0, <1>1, ClearFacts, GridFacts DEF Claim
<1>2. CASE p # None
  <2>1. p \in Points /\ p = Choice BY <1>2 DEF Claim
  <2>2. PICK r \in Reuse : claims' = [ClearExpiredClaims(claims) EXCEPT ![p] = NewPointClaim(u, Lease, r)]
    BY <1>2 DEF Claim
  <2>3. NewPointClaim(u, Lease, r) \in Claims BY PointsAssumption DEF NewPointClaim, Claims
  <2>4. cursor' \in Nat BY <1>2, <2>1, GridFacts DEF Claim, NextArea
  <2>5. ClearExpiredClaims(claims) \in [Points -> Claims] BY <1>0, ClearFacts
  <2>6. claims' \in [Points -> Claims] /\ claims'[p] = NewPointClaim(u, Lease, r)
        /\ \A q \in Points \ {p} : claims'[q] = ClearExpiredClaims(claims)[q] BY <2>1, <2>2, <2>3, <2>5
  <2> QED BY <1>0, <1>2, <2>1, <2>4, <2>6, ChoiceIsFree
<1> QED BY <1>1, <1>2

\* The first claim of an item store: a point is taken, or only expired claims go.
LEMMA BeginItemForm ==
  ASSUME Typed, NEW u \in Uids, BeginItem(u)
  PROVE  Yields(u) \/ \E p \in Points : Takes(u, p)
<1>0. claims \in [Points -> Claims] /\ succ \in [Points -> Nat] /\ job \in [Uids -> Jobs] BY DEF Typed
<1>1. PICK p \in Points \cup {None} :
        /\ Claim(u, p)
        /\ IF p = None THEN Flush /\ UNCHANGED job
           ELSE /\ Put(u, [Idle EXCEPT !.pc = "prepare", !.kind = "item", !.pos = p, !.tries = 1])
                /\ UNCHANGED <<file, cache>>
  BY DEF BeginItem
<1>2. succ' = succ /\ stall' = stall /\ job[u] = Idle /\ "item" \in Kinds
  BY JobFacts DEF BeginItem, Running, JobShape
<1>3. CASE p = None
  <2>1. claims' = ClearExpiredClaims(claims) /\ cursor' = cursor /\ job' = job /\ Written
    BY <1>1, <1>3, ClaimFacts DEF Flush, Written
  <2>2. MovesOnly(u) BY <1>2, <2>1 DEF MovesOnly, Typed
  <2>3. InHand(u) = {} /\ HandAfter(u) = {} BY <1>2, <2>1 DEF InHand, HandAfter, Idle
  <2>4. claims' \in [Points -> Claims] /\ \A q \in Points : claims'[q] = IF claims[q].expires < 0 THEN NoClaim ELSE claims[q]
    BY <1>0, <2>1, ClearFacts
  <2>5. \A q \in Points : claims[q].expires >= 0 => ~(claims[q].expires < 0) BY <1>0, PointsAssumption DEF Claims
  <2>6. job'[u].fail = None BY <1>2, <2>1 DEF Idle
  <2> QED BY <1>0, <1>2, <2>1, <2>2, <2>3, <2>4, <2>5, <2>6 DEF Yields
<1>4. CASE p # None
  <2> DEFINE j == [Idle EXCEPT !.pc = "prepare", !.kind = "item", !.pos = p, !.tries = 1]
  <2>1. p \in Points BY <1>4
  <2>b. j \in Jobs /\ j.pc = "prepare" /\ j.pos = p /\ j.fail = None
    <3>1. 1 \in 0 .. MaxTries BY PointsAssumption
    <3>2. Idle \in Jobs /\ Idle.fail = None BY IdleFacts
    <3> QED BY <1>2, <3>1, <3>2 DEF Jobs
  <2>2. j \in Jobs /\ JobShape(j) /\ j.pos = p /\ j.fail = None
    <3> HIDE DEF j
    <3> QED BY <1>4, <2>b DEF JobShape
  <2>3. job' = [job EXCEPT ![u] = j] /\ file' = file BY <1>1, <1>4 DEF Put
  <2>4. MovesOnly(u) /\ job'[u] = j
    <3> HIDE DEF j
    <3> QED BY <1>0, <1>2, <2>2, <2>3 DEF MovesOnly, Typed
  <2>5. Takes(u, p)
    BY <1>0, <1>1, <1>2, <1>4, <2>1, <2>2, <2>3, <2>4, ClaimFacts, ClearFacts DEF Takes, Idle
  <2> QED BY <2>1, <2>5
<1> QED BY <1>3, <1>4

\* The session is ready: the claim stays.
LEMMA PreparedForm ==
  ASSUME Typed, NEW u \in Uids, Prepared(u)
  PROVE  Yields(u)
<1>0. claims \in [Points -> Claims] /\ succ \in [Points -> Nat] /\ job \in [Uids -> Jobs] BY DEF Typed
<1> DEFINE j == [job[u] EXCEPT !.pc = "try"]
<1>1. job[u] \in Jobs /\ job[u].pc = "prepare" /\ job[u].pos # None /\ job[u].fail = None
  BY JobFacts DEF Prepared, JobShape
<1>2. j \in Jobs /\ j.pc = "try" /\ j.pos = job[u].pos /\ j.fail = None BY <1>1 DEF Jobs
<1>3. job' = [job EXCEPT ![u] = j] BY DEF Prepared, Put
<1>4. job'[u] = j /\ MovesOnly(u) /\ job'[u] # job[u]
  <2> HIDE DEF j
  <2> QED BY <1>0, <1>1, <1>2, <1>3 DEF MovesOnly, Typed, JobShape, Prepared
<1>5. HandAfter(u) = InHand(u)
  <2> HIDE DEF j
  <2> QED BY <1>1, <1>2, <1>4 DEF HandAfter, InHand
<1> HIDE DEF j
<1> QED BY <1>0, <1>2, <1>4, <1>5 DEF Prepared, Yields, Written

\* It is not: the claim goes, by itself or with all of the robot's.
LEMMA PrepareFailedForm ==
  ASSUME Typed, NEW u \in Uids, PrepareFailed(u)
  PROVE  Yields(u)
<1>0. claims \in [Points -> Claims] /\ succ \in [Points -> Nat] /\ job \in [Uids -> Jobs] BY DEF Typed
<1>1. job[u].pos \in Points /\ job[u].fail = None /\ job[u].pc = "prepare"
  BY JobFacts DEF PrepareFailed, JobShape
<1>2. PICK released \in BOOLEAN :
        /\ claims' = IF released THEN ReleasedClaims(claims, u)
                     ELSE Discard(ClearExpiredClaims(claims), u, job[u].pos)
        /\ succ' = IF released THEN ReleasedSucc(claims, succ, u) ELSE succ
  BY DEF PrepareFailed
<1>3. /\ claims' \in [Points -> Claims] /\ succ' \in [Points -> Nat]
      /\ \A p \in Points :
           \/ claims'[p] = claims[p]
           \/ claims'[p] = NoClaim /\ (claims[p].uid = u \/ claims[p].expires < 0)
      /\ \A p \in Points : succ'[p] = succ[p] \/ (succ'[p] = 0 /\ claims[p].uid = u)
      /\ claims'[job[u].pos].uid # u
  <2>1. CASE released
    <3>1. claims' = ReleasedClaims(claims, u) /\ succ' = ReleasedSucc(claims, succ, u) BY <1>2, <2>1
    <3>2. /\ claims' \in [Points -> Claims] /\ succ' \in [Points -> Nat]
          /\ \A q \in Points : claims'[q] = IF claims[q].uid = u THEN NoClaim ELSE claims[q]
          /\ \A q \in Points : succ'[q] = IF claims[q].uid = u THEN 0 ELSE succ[q]
      BY <1>0, <3>1, ReleasedFacts
    <3> QED BY <1>1, <3>2, NoClaimFacts
  <2>2. CASE ~released
    <3> DEFINE c == ClearExpiredClaims(claims)
    <3>1. claims' = Discard(c, u, job[u].pos) /\ succ' = succ BY <1>2, <2>2
    <3>2. c \in [Points -> Claims] /\ \A q \in Points : c[q] = IF claims[q].expires < 0 THEN NoClaim ELSE claims[q]
      BY <1>0, ClearFacts
    <3> HIDE DEF c
    <3>3. claims' \in [Points -> Claims] /\ \A q \in Points : claims'[q] = IF q = job[u].pos /\ c[q].uid = u THEN NoClaim ELSE c[q]
      BY <1>1, <3>1, <3>2, DiscardFacts
    <3> QED BY <1>0, <1>1, <3>1, <3>2, <3>3, NoClaimFacts
  <2> QED BY <2>1, <2>2
<1>4. job' = [job EXCEPT ![u] = Idle] /\ stall' = stall /\ cursor' = cursor /\ Written BY DEF PrepareFailed, Put, Flush, Written
<1>i. Idle \in Jobs /\ JobShape(Idle) /\ Idle.pc = "idle" /\ Idle.pos = None /\ Idle.fail = None BY IdleFacts
<1>5. job'[u] = Idle /\ MovesOnly(u) /\ job'[u] # job[u]
  BY <1>0, <1>1, <1>4, <1>i DEF MovesOnly, Typed
<1>6. HandAfter(u) = {} /\ InHand(u) = {job[u].pos} BY <1>1, <1>5, <1>i, GridFacts DEF HandAfter, InHand
<1> QED BY <1>3, <1>4, <1>5, <1>6, <1>i DEF Yields

\* Put moves the attempt of one robot.
LEMMA PutFacts ==
  ASSUME Typed, NEW u \in Uids, NEW j \in Jobs, JobShape(j), Put(u, j), stall' \in [Uids -> Points \cup {None}]
  PROVE  MovesOnly(u) /\ job'[u] = j
BY DEF MovesOnly, Typed, Put

\* Dropping the robot's claims of two points, with or without forgetting the
\* expired ones in between.
LEMMA DiscardBothFacts ==
  ASSUME Typed, NEW u \in Uids, NEW a \in Points \cup {None}, NEW b \in Points \cup {None}
  PROVE  /\ Discard(Discard(claims, u, a), u, b) \in [Points -> Claims]
         /\ \A q \in Points : Discard(Discard(claims, u, a), u, b)[q] =
              IF q \in {a, b} /\ claims[q].uid = u THEN NoClaim ELSE claims[q]
<1> DEFINE c == Discard(claims, u, a)
<1>1. claims \in [Points -> Claims] BY DEF Typed
<1>2. c \in [Points -> Claims] /\ \A q \in Points : c[q] = IF q = a /\ claims[q].uid = u THEN NoClaim ELSE claims[q]
  BY <1>1, DiscardFacts
<1> HIDE DEF c
<1>3. Discard(c, u, b) \in [Points -> Claims] /\ \A q \in Points : Discard(c, u, b)[q] = IF q = b /\ c[q].uid = u THEN NoClaim ELSE c[q]
  BY <1>2, DiscardFacts
<1>4. /\ Discard(c, u, b) \in [Points -> Claims]
      /\ \A q \in Points : Discard(c, u, b)[q] = IF q \in {a, b} /\ claims[q].uid = u THEN NoClaim ELSE claims[q]
  BY <1>2, <1>3, NoClaimFacts
<1> QED BY <1>4 DEF c

\* The same, with the expired claims forgotten before the second.
LEMMA DiscardClearFacts ==
  ASSUME Typed, NEW u \in Uids, NEW a \in Points \cup {None}, NEW b \in Points \cup {None}
  PROVE  LET c == ClearExpiredClaims(Discard(claims, u, a))
         IN  /\ c \in [Points -> Claims] /\ Discard(c, u, b) \in [Points -> Claims]
             /\ \A q \in Points : c[q] =
                  IF (q = a /\ claims[q].uid = u) \/ claims[q].expires < 0 THEN NoClaim ELSE claims[q]
             /\ \A q \in Points : Discard(c, u, b)[q] =
                  IF (q \in {a, b} /\ claims[q].uid = u) \/ claims[q].expires < 0 THEN NoClaim ELSE claims[q]
<1> DEFINE d == Discard(claims, u, a)
           c == ClearExpiredClaims(d)
<1>1. claims \in [Points -> Claims] BY DEF Typed
<1>2. d \in [Points -> Claims] /\ \A q \in Points : d[q] = IF q = a /\ claims[q].uid = u THEN NoClaim ELSE claims[q]
  BY <1>1, DiscardFacts
<1> HIDE DEF d
<1>3. c \in [Points -> Claims] /\ \A q \in Points : c[q] = IF d[q].expires < 0 THEN NoClaim ELSE d[q]
  BY <1>2, ClearFacts
<1> HIDE DEF c
<1>4. Discard(c, u, b) \in [Points -> Claims] /\ \A q \in Points : Discard(c, u, b)[q] = IF q = b /\ c[q].uid = u THEN NoClaim ELSE c[q]
  BY <1>3, DiscardFacts
<1>5. \A q \in Points : c[q] = IF (q = a /\ claims[q].uid = u) \/ claims[q].expires < 0 THEN NoClaim ELSE claims[q]
  BY <1>2, <1>3, NoClaimFacts
<1>6. \A q \in Points : Discard(c, u, b)[q] =
         IF (q \in {a, b} /\ claims[q].uid = u) \/ claims[q].expires < 0 THEN NoClaim ELSE claims[q]
  BY <1>4, <1>5, NoClaimFacts
<1> QED BY <1>3, <1>4, <1>5, <1>6 DEF c, d

\* A step that leaves the robot with nothing in hand, its claims given back.
LEMMA EmptiesHand ==
  ASSUME Typed, NEW u \in Uids,
         claims' \in [Points -> Claims], succ' \in [Points -> Nat],
         \A p \in Points :
           \/ claims'[p] = claims[p]
           \/ claims'[p] = NoClaim /\ (claims[p].uid = u \/ claims[p].expires < 0),
         \A p \in Points : succ'[p] = succ[p] \/ (succ'[p] = 0 /\ claims[p].uid = u),
         Written, cursor' = cursor, MovesOnly(u),
         job'[u].pos = None, job'[u].fail = None,
         job'[u] # job[u] \/ stall'[u] # stall[u],
         \A p \in InHand(u) : claims'[p].uid # u
  PROVE  Yields(u)
<1>1. HandAfter(u) = {} BY DEF HandAfter
<1> QED BY <1>1 DEF Yields

\* A disjoint store begins without a claim.
LEMMA BeginDisjointForm ==
  ASSUME Typed, NEW u \in Uids, BeginDisjoint(u)
  PROVE  Yields(u)
<1> DEFINE j == [Idle EXCEPT !.pc = "next", !.kind = "disjoint"]
<1>1. job[u] = Idle BY JobFacts DEF BeginDisjoint, Running, JobShape
<1>2. j \in Jobs /\ j.pc = "next" /\ j.pos = None /\ j.fail = None
  <2>1. Idle \in Jobs /\ Idle.pos = None /\ Idle.fail = None BY IdleFacts
  <2> QED BY <2>1 DEF BeginDisjoint, Jobs
<1>3. Put(u, j) BY DEF BeginDisjoint
<1> HIDE DEF j
<1>4. JobShape(j) BY <1>2 DEF JobShape
<1>5. MovesOnly(u) /\ job'[u] = j BY <1>2, <1>3, <1>4, PutFacts DEF BeginDisjoint, Typed
<1>6. InHand(u) = {} BY <1>1, IdleFacts DEF InHand
<1>7. job'[u] # job[u] BY <1>1, <1>2, <1>5, IdleFacts
<1> QED BY <1>2, <1>5, <1>6, <1>7, EmptiesHand DEF BeginDisjoint, Written, Typed

\* What an attempt that fits its lease has in hand has not expired.
LEMMA HandIsFresh ==
  ASSUME Typed, Covered, HandHeld, NEW u \in Uids, NEW p \in InHand(u)
  PROVE  p \in Points /\ claims[p].uid = u /\ claims[p].until > 0 /\ ~(claims[p].expires < 0)
<1>1. p \in Points BY JobFacts
<1>2. claims[p].uid = u /\ claims[p].until > 0 BY DEF HandHeld
<1>3. claims[p].expires = claims[p].until BY <1>1, <1>2 DEF Covered, CoveredAt
<1>4. claims[p].until \in Int BY <1>1, PointsAssumption DEF Typed, Claims
<1> QED BY <1>1, <1>2, <1>3, <1>4

\* The loop takes a point for its next try, or ends.
LEMMA NextTryForm ==
  ASSUME Typed, Covered, NEW u \in Uids, NextTry(u)
  PROVE  Yields(u) \/ \E p \in Points : Takes(u, p)
<1>0. claims \in [Points -> Claims] /\ succ \in [Points -> Nat] /\ job \in [Uids -> Jobs] BY DEF Typed
<1>1. job[u] \in Jobs /\ job[u].pc = "next" /\ job[u].pos = None /\ (job[u].fail # None => job[u].why \in Ambiguous)
  BY JobFacts DEF NextTry, JobShape
<1>2. succ' = succ /\ stall' = stall /\ file' = file /\ stall' \in [Uids -> Points \cup {None}] BY DEF NextTry, Typed
<1>3. ASSUME Put(u, [job[u] EXCEPT !.pc = "cleanup"]), cursor' = cursor,
             claims' = claims \/ claims' = ClearExpiredClaims(claims)
      PROVE  Yields(u)
  <2> DEFINE j == [job[u] EXCEPT !.pc = "cleanup"]
  <2>1. j \in Jobs /\ j.pc = "cleanup" /\ j.pos = None /\ j.fail = job[u].fail /\ j.why = job[u].why BY <1>1 DEF Jobs
  <2>2. Put(u, j) BY <1>3
  <2> HIDE DEF j
  <2>3. JobShape(j) BY <1>1, <2>1 DEF JobShape
  <2>4. MovesOnly(u) /\ job'[u] = j BY <1>2, <2>1, <2>2, <2>3, PutFacts
  <2>5. HandAfter(u) = InHand(u) BY <1>1, <2>1, <2>4 DEF HandAfter, InHand
  <2>6. job'[u] # job[u] BY <1>1, <2>1, <2>4
  <2>7. claims' \in [Points -> Claims] /\ \A q \in Points : claims'[q] = claims[q] \/ (claims'[q] = NoClaim /\ claims[q].expires < 0)
    BY <1>0, <1>3, ClearFacts
  <2>8. HandHeld => /\ \A p \in HandAfter(u) : claims'[p] = claims[p]
                    /\ job'[u].fail # None => job'[u].fail # job'[u].pos
    <3> SUFFICES ASSUME HandHeld PROVE \A p \in InHand(u) : claims'[p] = claims[p]
      BY <2>1, <2>4, <2>5
    <3> QED BY <2>7, HandIsFresh
  <2> QED BY <1>0, <1>2, <1>3, <2>4, <2>5, <2>6, <2>7, <2>8 DEF Yields, Written
<1>4. CASE ~(job[u].tries < MaxTries) BY <1>3, <1>4 DEF NextTry
<1>5. CASE job[u].tries < MaxTries
  <2>1. PICK p \in Points \cup {None} :
          /\ Claim(u, p)
          /\ Put(u, IF p = None THEN [job[u] EXCEPT !.pc = "cleanup"]
                    ELSE [job[u] EXCEPT !.pc = "try", !.pos = p, !.tries = @ + 1])
    BY <1>5 DEF NextTry
  <2>2. CASE p = None BY <1>3, <2>1, <2>2, ClaimFacts
  <2>3. CASE p # None
    <3> DEFINE j == [job[u] EXCEPT !.pc = "try", !.pos = p, !.tries = @ + 1]
    <3>1. j \in Jobs /\ j.pc = "try" /\ j.pos = p /\ j.fail = job[u].fail /\ j.why = job[u].why
      <4>1. job[u].tries + 1 \in 0 .. MaxTries BY <1>1, <1>5, PointsAssumption DEF Jobs
      <4> QED BY <1>1, <4>1 DEF Jobs
    <3>2. Put(u, j) BY <2>1, <2>3
    <3> HIDE DEF j
    <3>3. JobShape(j) BY <1>1, <2>3, <3>1 DEF JobShape
    <3>4. MovesOnly(u) /\ job'[u] = j BY <1>2, <3>1, <3>2, <3>3, PutFacts
    <3>5. p \in Points BY <2>3
    <3>6. Takes(u, p) BY <1>0, <1>1, <1>2, <2>1, <2>3, <3>1, <3>4, <3>5, ClaimFacts, ClearFacts DEF Takes
    <3> QED BY <3>5, <3>6
  <2> QED BY <2>2, <2>3
<1> QED BY <1>4, <1>5

\* The store is displayed: the claim of the earlier failure goes.
LEMMA DisplayedForm ==
  ASSUME Typed, Covered, NEW u \in Uids, Displayed(u)
  PROVE  Yields(u)
<1>0. claims \in [Points -> Claims] /\ succ \in [Points -> Nat] /\ job \in [Uids -> Jobs] BY DEF Typed
<1>1. job[u] \in Jobs /\ job[u].pc = "try" /\ job[u].pos \in Points /\ job[u].fail \in Points \cup {None}
  BY JobFacts DEF Displayed, JobShape
<1> DEFINE j == [job[u] EXCEPT !.pc = "report", !.fail = None, !.why = "none"]
<1>2. j \in Jobs /\ j.pc = "report" /\ j.pos = job[u].pos /\ j.fail = None BY <1>1 DEF Jobs
<1>3. Put(u, j) BY DEF Displayed
<1>4. stall' \in [Uids -> Points \cup {None}] BY <1>1 DEF Displayed, Typed
<1> HIDE DEF j
<1>5. JobShape(j) BY <1>1, <1>2, GridFacts DEF JobShape
<1>6. MovesOnly(u) /\ job'[u] = j BY <1>2, <1>3, <1>4, <1>5, PutFacts
<1>7. HandAfter(u) = {job[u].pos} /\ InHand(u) = {job[u].pos, job[u].fail} \ {None}
  BY <1>1, <1>2, <1>6, GridFacts DEF HandAfter, InHand
<1>8. /\ claims' \in [Points -> Claims]
      /\ \A q \in Points : claims'[q] = IF q = job[u].fail /\ claims[q].uid = u THEN NoClaim ELSE claims[q]
  BY <1>0, <1>1, DiscardFacts DEF Displayed
<1>9. HandHeld => \A p \in HandAfter(u) : claims'[p] = claims[p]
  BY <1>1, <1>7, <1>8, GridFacts DEF HandHeld
<1>10. \A p \in InHand(u) : p \in HandAfter(u) \/ claims'[p].uid # u BY <1>1, <1>7, <1>8, NoClaimFacts
<1>11. job'[u] # job[u] BY <1>1, <1>2, <1>6
<1>12. HandAfter(u) \subseteq InHand(u) BY <1>1, <1>7, GridFacts
<1> QED BY <1>0, <1>2, <1>6, <1>8, <1>9, <1>10, <1>11, <1>12 DEF Yields, Written, Displayed

\* The session is to blame: both claims go.
LEMMA SessionFailureForm ==
  ASSUME Typed, NEW u \in Uids, SessionFailure(u)
  PROVE  Yields(u)
<1>1. job[u] \in Jobs /\ job[u].pc = "try" /\ job[u].pos \in Points \cup {None} /\ job[u].fail \in Points \cup {None}
  BY JobFacts DEF SessionFailure
<1> DEFINE j == [job[u] EXCEPT !.pc = "cleanup", !.pos = None, !.fail = None, !.why = "none"]
<1>2. j \in Jobs /\ j.pc = "cleanup" /\ j.pos = None /\ j.fail = None BY <1>1 DEF Jobs
<1>3. Put(u, j) BY DEF SessionFailure
<1> HIDE DEF j
<1>4. JobShape(j) BY <1>2 DEF JobShape
<1>5. stall' \in [Uids -> Points \cup {None}] BY DEF SessionFailure, Typed
<1>6. MovesOnly(u) /\ job'[u] = j BY <1>2, <1>3, <1>4, <1>5, PutFacts
<1>7. /\ claims' \in [Points -> Claims]
      /\ \A q \in Points : claims'[q] = IF q \in {job[u].fail, job[u].pos} /\ claims[q].uid = u THEN NoClaim ELSE claims[q]
  BY <1>1, DiscardBothFacts DEF SessionFailure
<1>8. \A p \in InHand(u) : claims'[p].uid # u BY <1>7, JobFacts, NoClaimFacts DEF InHand
<1>9. job'[u] # job[u] BY <1>1, <1>2, <1>6
<1> QED BY <1>2, <1>6, <1>7, <1>8, <1>9, EmptiesHand DEF SessionFailure, Written, Typed

\* Cancellation: both claims go.
LEMMA CancelledForm ==
  ASSUME Typed, NEW u \in Uids, Cancelled(u)
  PROVE  Yields(u)
<1>1. job[u] \in Jobs /\ job[u].pc \in {"try", "next"} /\ job[u].pos \in Points \cup {None} /\ job[u].fail \in Points \cup {None}
  BY JobFacts DEF Cancelled
<1> DEFINE j == [job[u] EXCEPT !.pc = "cleanup", !.pos = None, !.fail = None, !.why = "none"]
<1>2. j \in Jobs /\ j.pc = "cleanup" /\ j.pos = None /\ j.fail = None BY <1>1 DEF Jobs
<1>3. Put(u, j) BY DEF Cancelled
<1> HIDE DEF j
<1>4. JobShape(j) BY <1>2 DEF JobShape
<1>5. stall' \in [Uids -> Points \cup {None}] /\ Written BY DEF Cancelled, Typed, Written, Flush
<1>6. MovesOnly(u) /\ job'[u] = j BY <1>2, <1>3, <1>4, <1>5, PutFacts
<1>7. /\ claims' \in [Points -> Claims]
      /\ \A q \in Points : claims'[q] = IF q \in {job[u].fail, job[u].pos} /\ claims[q].uid = u THEN NoClaim ELSE claims[q]
  BY <1>1, DiscardBothFacts DEF Cancelled
<1>8. \A p \in InHand(u) : claims'[p].uid # u BY <1>7, JobFacts, NoClaimFacts DEF InHand
<1>9. job'[u] # job[u] BY <1>1, <1>2, <1>6
<1> QED BY <1>2, <1>5, <1>6, <1>7, <1>8, <1>9, EmptiesHand DEF Cancelled, Typed

\* The refused point stays in hand, the one before it goes.
LEMMA AmbiguousFailureForm ==
  ASSUME Typed, NEW u \in Uids, AmbiguousFailure(u)
  PROVE  Yields(u)
<1>0. claims \in [Points -> Claims] /\ succ \in [Points -> Nat] BY DEF Typed
<1>1. job[u] \in Jobs /\ job[u].pc = "try" /\ job[u].pos \in Points /\ job[u].fail \in Points \cup {None}
  BY JobFacts DEF AmbiguousFailure, JobShape
<1>p. PICK r \in Ambiguous :
        Put(u, [job[u] EXCEPT !.pc = "next", !.pos = None, !.fail = job[u].pos, !.why = r])
  BY DEF AmbiguousFailure
<1> DEFINE j == [job[u] EXCEPT !.pc = "next", !.pos = None, !.fail = job[u].pos, !.why = r]
<1>2. j \in Jobs /\ j.pc = "next" /\ j.pos = None /\ j.fail = job[u].pos /\ j.why = r BY <1>1 DEF Jobs
<1>3. Put(u, j) BY <1>p
<1> HIDE DEF j
<1>4. JobShape(j) BY <1>2 DEF JobShape
<1>5. stall' \in [Uids -> Points \cup {None}] BY DEF AmbiguousFailure, Typed
<1>6. MovesOnly(u) /\ job'[u] = j BY <1>2, <1>3, <1>4, <1>5, PutFacts
<1>7. HandAfter(u) = {job[u].pos} /\ InHand(u) = {job[u].pos, job[u].fail} \ {None}
  BY <1>1, <1>2, <1>6, GridFacts DEF HandAfter, InHand
<1>8. /\ claims' \in [Points -> Claims]
      /\ \A q \in Points : claims'[q] = IF q = job[u].fail /\ claims[q].uid = u THEN NoClaim ELSE claims[q]
  BY <1>0, <1>1, DiscardFacts DEF AmbiguousFailure
<1>9. HandHeld => \A p \in HandAfter(u) : claims'[p] = claims[p]
  BY <1>1, <1>7, <1>8, GridFacts DEF HandHeld
<1>10. \A p \in InHand(u) : p \in HandAfter(u) \/ claims'[p].uid # u BY <1>1, <1>7, <1>8, NoClaimFacts
<1>11. job'[u] # job[u] BY <1>1, <1>2, <1>6
<1>12. HandAfter(u) \subseteq InHand(u) BY <1>1, <1>7, GridFacts
<1>13. job'[u].fail # job'[u].pos BY <1>1, <1>2, <1>6, GridFacts
<1> QED BY <1>0, <1>6, <1>8, <1>9, <1>10, <1>11, <1>12, <1>13 DEF Yields, Written, AmbiguousFailure

\* A refused zone: the claims go, and the occupancy under the robot's own.
LEMMA ZoneFailureForm ==
  ASSUME Typed, NEW u \in Uids, ZoneFailure(u)
  PROVE  Yields(u)
<1>0. succ \in [Points -> Nat] BY DEF Typed
<1>1. job[u] \in Jobs /\ job[u].pc = "try" /\ job[u].pos \in Points /\ job[u].fail \in Points \cup {None}
  BY JobFacts DEF ZoneFailure, JobShape
<1> DEFINE j == [job[u] EXCEPT !.pc = "next", !.pos = None, !.fail = None, !.why = "none"]
           c == ClearExpiredClaims(Discard(claims, u, job[u].fail))
<1>2. j \in Jobs /\ j.pc = "next" /\ j.pos = None /\ j.fail = None BY <1>1 DEF Jobs
<1>3. Put(u, j) BY DEF ZoneFailure
<1>c. /\ claims' = Discard(c, u, job[u].pos)
      /\ succ' = succ \/ (Owned(c, u, job[u].pos) /\ succ' = [succ EXCEPT ![job[u].pos] = 0])
  BY DEF ZoneFailure
<1>7. /\ claims' \in [Points -> Claims]
      /\ \A q \in Points : claims'[q] =
           IF (q \in {job[u].fail, job[u].pos} /\ claims[q].uid = u) \/ claims[q].expires < 0 THEN NoClaim ELSE claims[q]
  BY <1>1, <1>c, DiscardClearFacts
<1>s. /\ succ' \in [Points -> Nat]
      /\ \A p \in Points : succ'[p] = succ[p] \/ (succ'[p] = 0 /\ claims[p].uid = u)
  <2>1. \A q \in Points : c[q] = IF (q = job[u].fail /\ claims[q].uid = u) \/ claims[q].expires < 0 THEN NoClaim ELSE claims[q]
    BY <1>1, DiscardClearFacts
  <2>2. Owned(c, u, job[u].pos) => claims[job[u].pos].uid = u BY <1>1, <2>1, NoClaimFacts DEF Owned
  <2> HIDE DEF c
  <2> QED BY <1>0, <1>1, <1>c, <2>2
<1> HIDE DEF j, c
<1>4. JobShape(j) BY <1>2 DEF JobShape
<1>5. stall' \in [Uids -> Points \cup {None}] BY DEF ZoneFailure, Typed
<1>6. MovesOnly(u) /\ job'[u] = j BY <1>2, <1>3, <1>4, <1>5, PutFacts
<1>8. \A p \in InHand(u) : claims'[p].uid # u BY <1>7, JobFacts, NoClaimFacts DEF InHand
<1>9. job'[u] # job[u] BY <1>1, <1>2, <1>6
<1>10. Written /\ cursor' = cursor BY DEF ZoneFailure, Written
<1> QED BY <1>2, <1>6, <1>7, <1>8, <1>9, <1>10, <1>s, EmptiesHand

\* Any other failure: the claims go.
LEMMA OtherFailureForm ==
  ASSUME Typed, NEW u \in Uids, OtherFailure(u)
  PROVE  Yields(u)
<1>1. job[u] \in Jobs /\ job[u].pc = "try" /\ job[u].pos \in Points \cup {None} /\ job[u].fail \in Points \cup {None}
  BY JobFacts DEF OtherFailure
<1>p. PICK pc \in {"cleanup", "next"} :
        Put(u, [job[u] EXCEPT !.pc = pc, !.pos = None, !.fail = None, !.why = "none"])
  BY DEF OtherFailure
<1> DEFINE j == [job[u] EXCEPT !.pc = pc, !.pos = None, !.fail = None, !.why = "none"]
<1>2. j \in Jobs /\ j.pc = pc /\ j.pos = None /\ j.fail = None BY <1>1 DEF Jobs
<1>3. Put(u, j) BY <1>p
<1> HIDE DEF j
<1>4. JobShape(j) BY <1>2 DEF JobShape
<1>5. stall' \in [Uids -> Points \cup {None}] BY DEF OtherFailure, Typed
<1>6. MovesOnly(u) /\ job'[u] = j BY <1>2, <1>3, <1>4, <1>5, PutFacts
<1>7. /\ claims' \in [Points -> Claims]
      /\ \A q \in Points : claims'[q] =
           IF (q \in {job[u].fail, job[u].pos} /\ claims[q].uid = u) \/ claims[q].expires < 0 THEN NoClaim ELSE claims[q]
  BY <1>1, DiscardClearFacts DEF OtherFailure
<1>8. \A p \in InHand(u) : claims'[p].uid # u BY <1>7, JobFacts, NoClaimFacts DEF InHand
<1>9. job'[u] # job[u] BY <1>1, <1>2, <1>6
<1>10. Written /\ cursor' = cursor /\ succ' = succ BY DEF OtherFailure, Written
<1> QED BY <1>2, <1>6, <1>7, <1>8, <1>9, <1>10, EmptiesHand DEF Typed

\* What Cleanup does besides dropping claims.
LEMMA CleanupCommon ==
  ASSUME Typed, NEW u \in Uids, Cleanup(u),
         claims' \in [Points -> Claims], succ' \in [Points -> Nat],
         \A p \in Points :
           \/ claims'[p] = claims[p]
           \/ claims'[p] = NoClaim /\ (claims[p].uid = u \/ claims[p].expires < 0),
         \A p \in Points : succ'[p] = succ[p] \/ (succ'[p] = 0 /\ claims[p].uid = u),
         \A p \in InHand(u) : claims'[p].uid # u
  PROVE  Yields(u)
<1>1. job[u].pc = "cleanup" BY DEF Cleanup
<1>2. Put(u, Idle) /\ Written /\ cursor' = cursor /\ stall' \in [Uids -> Points \cup {None}] BY DEF Cleanup, Written, Typed
<1>3. MovesOnly(u) /\ job'[u] = Idle BY <1>2, IdleFacts, PutFacts
<1>4. job'[u].pos = None /\ job'[u].fail = None /\ job'[u] # job[u] BY <1>1, <1>3, IdleFacts
<1> QED BY <1>2, <1>3, <1>4, EmptiesHand

\* The end of the loop: the last failure's claim goes, or all of the robot's.
LEMMA CleanupForm ==
  ASSUME Typed, NEW u \in Uids, Cleanup(u)
  PROVE  Yields(u)
<1>0. claims \in [Points -> Claims] /\ succ \in [Points -> Nat] BY DEF Typed
<1>1. job[u].pc = "cleanup" /\ job[u].pos = None /\ job[u].fail \in Points \cup {None}
  BY JobFacts DEF Cleanup, JobShape
<1> DEFINE c == Discard(claims, u, job[u].fail)
<1>2. c \in [Points -> Claims] /\ \A q \in Points : c[q] = IF q = job[u].fail /\ claims[q].uid = u THEN NoClaim ELSE claims[q]
  BY <1>0, <1>1, DiscardFacts
<1>3. \E released \in BOOLEAN :
        /\ claims' = IF released THEN ReleasedClaims(c, u) ELSE c
        /\ succ' = IF released THEN ReleasedSucc(c, succ, u) ELSE succ
  BY DEF Cleanup
<1> HIDE DEF c
<1>4. CASE claims' = c /\ succ' = succ
  <2>1. /\ claims' \in [Points -> Claims] /\ succ' \in [Points -> Nat]
        /\ \A p \in Points :
             \/ claims'[p] = claims[p]
             \/ claims'[p] = NoClaim /\ (claims[p].uid = u \/ claims[p].expires < 0)
        /\ \A p \in Points : succ'[p] = succ[p] \/ (succ'[p] = 0 /\ claims[p].uid = u)
    BY <1>0, <1>2, <1>4
  <2>2. \A p \in InHand(u) : claims'[p].uid # u BY <1>1, <1>2, <1>4, NoClaimFacts DEF InHand
  <2> QED BY <2>1, <2>2, CleanupCommon
<1>5. CASE claims' = ReleasedClaims(c, u) /\ succ' = ReleasedSucc(c, succ, u)
  <2>1. /\ claims' \in [Points -> Claims] /\ succ' \in [Points -> Nat]
        /\ \A q \in Points : claims'[q] = IF c[q].uid = u THEN NoClaim ELSE c[q]
        /\ \A q \in Points : succ'[q] = IF c[q].uid = u THEN 0 ELSE succ[q]
    BY <1>0, <1>2, <1>5, ReleasedFacts
  <2>2. /\ \A p \in Points :
             \/ claims'[p] = claims[p]
             \/ claims'[p] = NoClaim /\ (claims[p].uid = u \/ claims[p].expires < 0)
        /\ \A p \in Points : succ'[p] = succ[p] \/ (succ'[p] = 0 /\ claims[p].uid = u)
        /\ \A p \in Points : claims'[p].uid # u
    BY <1>2, <2>1, NoClaimFacts
  <2> QED BY <2>1, <2>2, CleanupCommon, JobFacts
<1> QED BY <1>3, <1>4, <1>5

\* The end of a store: all of the robot's claims go.
LEMMA StoreEndsForm ==
  ASSUME Typed, NEW u \in Uids, StoreEnds(u)
  PROVE  Yields(u)
<1>0. claims \in [Points -> Claims] /\ succ \in [Points -> Nat] /\ stall \in [Uids -> Points \cup {None}] BY DEF Typed
<1>1. job[u] = Idle /\ job' = job BY JobFacts DEF StoreEnds, Running, JobShape
<1>2. /\ claims' \in [Points -> Claims] /\ succ' \in [Points -> Nat]
      /\ \A q \in Points : claims'[q] = IF claims[q].uid = u THEN NoClaim ELSE claims[q]
      /\ \A q \in Points : succ'[q] = IF claims[q].uid = u THEN 0 ELSE succ[q]
  BY <1>0, ReleasedFacts DEF StoreEnds
<1>3. stall' \in [Uids -> Points \cup {None}] /\ stall'[u] # stall[u] BY <1>0 DEF StoreEnds
<1>4. MovesOnly(u) BY <1>1, <1>3 DEF MovesOnly, Typed
<1>5. InHand(u) = {} /\ job'[u].pos = None /\ job'[u].fail = None BY <1>1, IdleFacts DEF InHand
<1>6. Written /\ cursor' = cursor BY DEF StoreEnds, Written
<1> QED BY <1>2, <1>3, <1>4, <1>5, <1>6, EmptiesHand

\* A store lost with its connection: the coordinator is not told.
LEMMA StoreLostForm ==
  ASSUME Typed, NEW u \in Uids, StoreLost(u)
  PROVE  Yields(u)
<1>0. claims \in [Points -> Claims] /\ succ \in [Points -> Nat] /\ stall \in [Uids -> Points \cup {None}] BY DEF Typed
<1>1. job[u] = Idle /\ job' = job BY JobFacts DEF StoreLost, Running, JobShape
<1>3. stall' \in [Uids -> Points \cup {None}] /\ stall'[u] # stall[u] BY <1>0 DEF StoreLost
<1>4. MovesOnly(u) BY <1>1, <1>3 DEF MovesOnly, Typed
<1>5. InHand(u) = {} /\ job'[u].pos = None /\ job'[u].fail = None BY <1>1, IdleFacts DEF InHand
<1>6. Written /\ cursor' = cursor /\ claims' = claims /\ succ' = succ BY DEF StoreLost, Written
<1> QED BY <1>0, <1>3, <1>4, <1>5, <1>6, EmptiesHand

\* A report that counts: the point is the reporter's or nobody's.
Reports(u, p) ==
  /\ p \in InHand(u) /\ HandAfter(u) = {} /\ InHand(u) = {p}
  /\ claims[p].uid = u \/ claims[p].uid \notin Uids \/ claims[p].expires < 0
  /\ claims' \in [Points -> Claims] /\ succ' \in [Points -> Nat]
  /\ \A q \in Points \ {p} :
       /\ claims'[q] = claims[q] \/ (claims'[q] = NoClaim /\ claims[q].expires < 0)
       /\ succ'[q] = succ[q]
  /\ claims'[p].uid = u /\ claims'[p].until = 0 /\ claims'[p].expires = claims'[p].lease
  /\ claims'[p].reuse <= claims'[p].lease /\ succ'[p] = claims'[p].reuse
  /\ file' = file /\ cursor' = cursor /\ MovesOnly(u) /\ job'[u] # job[u]

\* A report is ignored if the point is another robot's by now, or counts.
LEMMA ReportSuccessForm ==
  ASSUME Typed, Covered, NEW u \in Uids, ReportSuccess(u)
  PROVE  Yields(u) \/ \E p \in Points : Reports(u, p)
<1>0. claims \in [Points -> Claims] /\ succ \in [Points -> Nat] BY DEF Typed
<1> DEFINE p == job[u].pos
           c == ClearExpiredClaims(claims)
           fresh == [c[p] EXCEPT !.expires = c[p].lease]
           claim == IF Owned(c, u, p) THEN fresh ELSE NewPointClaim(u, TTL, TTL)
<1>1. job[u].pc = "report" /\ p \in Points /\ job[u].fail = None
  BY JobFacts DEF ReportSuccess, JobShape
<1>2. c \in [Points -> Claims] /\ \A q \in Points : c[q] = IF claims[q].expires < 0 THEN NoClaim ELSE claims[q]
  BY <1>0, ClearFacts
<1>3. Put(u, Idle) /\ file' = file /\ cursor' = cursor /\ stall' \in [Uids -> Points \cup {None}] BY DEF ReportSuccess, Typed
<1>4. MovesOnly(u) /\ job'[u] = Idle BY <1>3, IdleFacts, PutFacts
<1>5. job'[u].pos = None /\ job'[u].fail = None /\ job'[u] # job[u] BY <1>1, <1>4, IdleFacts
<1>6. InHand(u) = {p} /\ HandAfter(u) = {} BY <1>1, <1>5, GridFacts DEF InHand, HandAfter
<1>7. CASE c[p] # NoClaim /\ ~Owned(c, u, p)
  <2>1. claims' = c /\ succ' = succ BY <1>7 DEF ReportSuccess
  <2> HIDE DEF c, p
  <2>2. \A q \in InHand(u) : claims'[q].uid # u BY <1>6, <1>7, <2>1 DEF Owned
  <2>3. Written BY <1>3 DEF Written
  <2> QED BY <1>0, <1>2, <1>3, <1>4, <1>5, <2>1, <2>2, <2>3, EmptiesHand
<1>8. CASE ~(c[p] # NoClaim /\ ~Owned(c, u, p))
  <2>1. /\ claims' = [c EXCEPT ![p] = [claim EXCEPT !.until = 0]]
        /\ succ' = [succ EXCEPT ![p] = claim.reuse]
    BY <1>8 DEF ReportSuccess
  <2>2. claim \in Claims /\ claim.uid = u /\ claim.expires = claim.lease /\ claim.reuse <= claim.lease /\ claim.reuse \in Nat
    <3>1. CASE Owned(c, u, p)
      <4>1. c[p] = claims[p] /\ c[p].uid = u /\ c[p] \in Claims
        <5> HIDE DEF c, p
        <5> QED BY <1>1, <1>2, <3>1, NoClaimFacts DEF Owned
      <4>2. claim = [c[p] EXCEPT !.expires = c[p].lease] BY <3>1
      <4>3. c[p].reuse <= c[p].lease
        <5> HIDE DEF c, p
        <5> QED BY <1>1, <4>1 DEF Covered, CoveredAt
      <4>4. c[p].lease \in -1 .. Lease /\ c[p].reuse \in Nat
        <5> HIDE DEF c, p
        <5>1. c[p].lease \in {0, TTL, Lease} /\ c[p].reuse \in Reuse \cup {0, TTL} BY <4>1 DEF Claims
        <5>2. Lease \in Nat /\ TTL \in Nat /\ TTL <= Lease /\ Reuse \subseteq Nat BY PointsAssumption
        <5>3. \A l \in {0, TTL, Lease} : l \in -1 .. Lease BY <5>2
        <5>4. \A r \in Reuse \cup {0, TTL} : r \in Nat BY <5>2
        <5> QED BY <5>1, <5>3, <5>4
      <4> HIDE DEF c, p, claim
      <4> QED BY <4>1, <4>2, <4>3, <4>4 DEF Claims
    <3>2. CASE ~Owned(c, u, p)
      <4>1. claim = NewPointClaim(u, TTL, TTL) BY <3>2
      <4> HIDE DEF c, p, claim
      <4> QED BY <4>1, PointsAssumption DEF NewPointClaim, Claims
    <3> QED BY <3>1, <3>2
  <2>3. claims[p].uid = u \/ claims[p].uid \notin Uids \/ claims[p].expires < 0
    <3> HIDE DEF c, p
    <3> QED BY <1>1, <1>2, <1>8, NoClaimFacts DEF Owned
  <2> HIDE DEF c, p, claim
  <2>4. [claim EXCEPT !.until = 0] \in Claims
    <3>1. 0 \in 0 .. Lease BY PointsAssumption
    <3> QED BY <2>2, <3>1 DEF Claims
  <2>5. claims' \in [Points -> Claims] /\ claims'[p] = [claim EXCEPT !.until = 0] /\ \A q \in Points \ {p} : claims'[q] = c[q]
    BY <1>1, <1>2, <2>1, <2>4
  <2>6. succ' \in [Points -> Nat] /\ succ'[p] = claim.reuse /\ \A q \in Points \ {p} : succ'[q] = succ[q]
    BY <1>0, <1>1, <2>1, <2>2
  <2>7. claims'[p].uid = u /\ claims'[p].until = 0 /\ claims'[p].expires = claims'[p].lease
        /\ claims'[p].reuse <= claims'[p].lease /\ succ'[p] = claims'[p].reuse
    BY <2>2, <2>5, <2>6 DEF Claims
  <2>8. Reports(u, p) BY <1>1, <1>2, <1>3, <1>4, <1>5, <1>6, <2>3, <2>5, <2>6, <2>7 DEF Reports
  <2> QED BY <1>1, <2>8
<1> QED BY <1>7, <1>8

\* A report that counts keeps the invariant.
LEMMA ReportsKeepInv ==
  ASSUME PointsInv, NEW u \in Uids, NEW p \in Points, Reports(u, p)
  PROVE  PointsInv'
<1>0. Typed /\ Covered /\ NoLeakedClaim BY DEF PointsInv
<1>n. NoClaim.uid \notin Uids /\ NoClaim.until = 0 /\ NoClaim.reuse = 0 /\ NoClaim.lease = 0 BY NoClaimFacts DEF NoClaim
<1>1. Typed' BY <1>0 DEF Typed, Reports, MovesOnly
<1>2. Covered'
  <2> SUFFICES ASSUME NEW q \in Points PROVE CoveredAt(q)'
    BY DEF Covered
  <2>1. CASE q = p
    <3>1. claims'[p].expires >= succ'[p] BY <1>1, PointsAssumption DEF Reports, Typed, Claims
    <3> QED BY <2>1, <3>1 DEF Reports, CoveredAt
  <2>2. CASE q # p /\ claims'[q] = NoClaim
    <3>1. claims'[q].reuse = 0 /\ claims'[q].lease = 0 /\ claims'[q].until = 0 /\ claims'[q].uid \notin Uids BY <1>n, <2>2
    <3> QED BY <3>1 DEF CoveredAt
  <2>3. CASE q # p /\ claims'[q] = claims[q] BY <1>0, <2>3 DEF Covered, CoveredAt, Reports
  <2> QED BY <2>1, <2>2, <2>3 DEF Reports
<1>3. NoLeakedClaim'
  <2> SUFFICES ASSUME NEW q \in Points, claims'[q].until > 0
               PROVE  claims'[q].uid \in Uids /\ q \in HandAfter(claims'[q].uid)
    BY DEF NoLeakedClaim, HandAfter, InHand
  <2>1. q # p BY DEF Reports
  <2>2. claims'[q] = claims[q]
    <3>1. claims'[q] # NoClaim BY <1>n
    <3> QED BY <2>1, <3>1 DEF Reports
  <2>3. claims[q].uid \in Uids /\ q \in InHand(claims[q].uid) BY <1>0, <2>2 DEF NoLeakedClaim
  <2>4. claims[q].uid # u BY <2>1, <2>3 DEF Reports
  <2> QED BY <2>2, <2>3, <2>4 DEF Reports, MovesOnly, InHand, HandAfter
<1> QED BY <1>1, <1>2, <1>3 DEF PointsInv

\* It turns a claim into an occupancy and blocks nothing new.
LEMMA ReportsKeepFit ==
  ASSUME PointsInv, FitInv, NEW u \in Uids, NEW p \in Points, Reports(u, p)
  PROVE  FitInv'
<1>0. Typed /\ Covered /\ NoLeakedClaim /\ HandHeld /\ Apart /\ FileApart BY DEF PointsInv, FitInv
<1>p. Live(claims, succ, p) BY <1>0 DEF Reports, HandHeld, Live
<1>1. HandHeld'
  <2> SUFFICES ASSUME NEW v \in Uids
               PROVE  /\ \A q \in HandAfter(v) : claims'[q].uid = v /\ claims'[q].until > 0
                      /\ job'[v].fail # None => job'[v].fail # job'[v].pos
    BY DEF HandHeld, InHand, HandAfter
  <2>1. CASE v = u BY <2>1 DEF Reports, HandAfter
  <2>2. CASE v # u
    <3>1. job'[v] = job[v] /\ HandAfter(v) = InHand(v) BY <2>2 DEF Reports, MovesOnly, InHand, HandAfter
    <3>2. ASSUME NEW q \in InHand(v) PROVE claims'[q].uid = v /\ claims'[q].until > 0
      <4>1. q \in Points /\ claims[q].uid = v /\ claims[q].until > 0 /\ ~(claims[q].expires < 0) BY <1>0, HandIsFresh
      <4>2. claims[p].uid = u BY <1>0 DEF Reports, HandHeld
      <4> QED BY <2>2, <4>1, <4>2 DEF Reports
    <3> QED BY <1>0, <3>1, <3>2 DEF HandHeld
  <2> QED BY <2>1, <2>2
<1>2. \A q \in Points : Live(claims', succ', q) => Live(claims, succ, q)
  BY <1>p, NoClaimFacts DEF Live, Reports
<1>3. Apart' BY <1>0, <1>2 DEF Apart
<1>4. FileApart' BY <1>0 DEF FileApart, Reports
<1> QED BY <1>1, <1>3, <1>4 DEF FitInv

-----------------------------------------------------------------------------
(* The steps of nobody's attempt *)

\* Saving copies what is apart.
LEMMA SaveActiveKeeps ==
  ASSUME PointsInv, SaveActive
  PROVE  PointsInv' /\ (FitInv => FitInv')
<1>1. claims' = claims /\ succ' = succ /\ file' = succ /\ cursor' = cursor /\ job' = job /\ stall' = stall BY DEF SaveActive
<1>2. PointsInv' BY <1>1 DEF PointsInv, Typed, Covered, CoveredAt, NoLeakedClaim, InHand
<1>3. ASSUME FitInv PROVE FitInv'
  <2>1. HandHeld' /\ Apart' BY <1>1, <1>3 DEF FitInv, HandHeld, Apart, InHand, Live
  <2>2. FileApart' BY <1>1, <1>3 DEF FitInv, FileApart, Apart, Live
  <2> QED BY <2>1, <2>2 DEF FitInv
<1> QED BY <1>2, <1>3

\* What one tick does to a claim and to an occupancy.
LEMMA TickFacts ==
  ASSUME Typed, Tick
  PROVE  /\ claims' \in [Points -> Claims] /\ succ' \in [Points -> Nat] /\ file' \in [Points -> Nat]
         /\ \A p \in Points :
              /\ claims'[p].uid = claims[p].uid /\ claims'[p].lease = claims[p].lease /\ claims'[p].reuse = claims[p].reuse
              /\ claims'[p].expires = Older(claims[p].expires) /\ claims'[p].until = Less(claims[p].until)
              /\ succ'[p] = Less(succ[p]) /\ file'[p] = Less(file[p])
<1>1. claims \in [Points -> Claims] /\ succ \in [Points -> Nat] /\ file \in [Points -> Nat] BY DEF Typed
<1>2. \A n \in Nat : Less(n) \in Nat BY DEF Less
<1>3. ASSUME NEW c \in Claims
      PROVE  /\ [c EXCEPT !.expires = Older(@), !.until = Less(@)] \in Claims
             /\ LET d == [c EXCEPT !.expires = Older(@), !.until = Less(@)]
                IN  /\ d.uid = c.uid /\ d.lease = c.lease /\ d.reuse = c.reuse
                    /\ d.expires = Older(c.expires) /\ d.until = Less(c.until)
  <2>1. c.expires \in -1 .. Lease /\ c.until \in 0 .. Lease BY DEF Claims
  <2>2. Lease \in Nat BY PointsAssumption
  <2>3. Older(c.expires) \in -1 .. Lease BY <2>1, <2>2 DEF Older
  <2>4. Less(c.until) \in 0 .. Lease BY <2>1, <2>2 DEF Less
  <2> QED BY <2>3, <2>4 DEF Claims
<1>4. claims' = [p \in Points |-> [claims[p] EXCEPT !.expires = Older(@), !.until = Less(@)]]
  BY DEF Tick
<1>5. succ' = [p \in Points |-> Less(succ[p])] /\ file' = [p \in Points |-> Less(file[p])] BY DEF Tick
<1>6. claims' \in [Points -> Claims] BY <1>1, <1>3, <1>4
<1>7. succ' \in [Points -> Nat] /\ file' \in [Points -> Nat] BY <1>1, <1>2, <1>5
<1> QED BY <1>1, <1>3, <1>4, <1>5, <1>6, <1>7

\* Time shortens claim and occupancy alike.
LEMMA TickKeepsInv ==
  ASSUME PointsInv, Tick
  PROVE  PointsInv'
<1>0. Typed /\ Covered /\ NoLeakedClaim BY DEF PointsInv
<1>1. cursor' = cursor /\ job' = job /\ stall' = stall BY DEF Tick
<1>2. Typed' BY <1>0, <1>1, TickFacts DEF Typed
<1>3. Covered'
  <2> SUFFICES ASSUME NEW p \in Points PROVE CoveredAt(p)'
    BY DEF Covered
  <2>1. claims[p].until \in Int /\ claims[p].expires \in Int /\ succ[p] \in Nat BY <1>0, PointsAssumption DEF Typed, Claims
  <2>2. CoveredAt(p) BY <1>0 DEF Covered
  <2>3. claims'[p].reuse <= claims'[p].lease BY <1>0, <2>2, TickFacts DEF CoveredAt
  <2>4. claims'[p].until > 0 => claims'[p].expires = claims'[p].until
    <3>1. claims'[p].expires = Older(claims[p].expires) /\ claims'[p].until = Less(claims[p].until) BY <1>0, TickFacts
    <3> QED BY <2>1, <2>2, <3>1 DEF CoveredAt, Older, Less
  <2>5. claims'[p].uid \in Uids /\ succ'[p] > 0 => claims'[p].expires >= succ'[p]
    <3>1. claims'[p].uid = claims[p].uid /\ claims'[p].expires = Older(claims[p].expires) /\ succ'[p] = Less(succ[p]) BY <1>0, TickFacts
    <3> QED BY <2>1, <2>2, <3>1 DEF CoveredAt, Older, Less
  <2> QED BY <2>3, <2>4, <2>5 DEF CoveredAt
<1>4. NoLeakedClaim'
  <2> SUFFICES ASSUME NEW p \in Points, claims'[p].until > 0
               PROVE  claims'[p].uid \in Uids /\ p \in HandAfter(claims'[p].uid)
    BY DEF NoLeakedClaim, HandAfter, InHand
  <2>1. claims[p].until \in Int BY <1>0, PointsAssumption DEF Typed, Claims
  <2>2. claims[p].until > 0 /\ claims'[p].uid = claims[p].uid BY <1>0, <2>1, TickFacts DEF Less
  <2> QED BY <1>0, <1>1, <2>2 DEF NoLeakedClaim, HandAfter, InHand
<1> QED BY <1>2, <1>3, <1>4 DEF PointsInv

\* Time frees points, and none that is in hand if attempts fit.
LEMMA TickKeepsFit ==
  ASSUME PointsInv, FitInv, AttemptsFit, Tick
  PROVE  FitInv'
<1>0. Typed /\ HandHeld /\ Apart /\ FileApart BY DEF PointsInv, FitInv
<1>1. job' = job /\ Fits BY DEF Tick
<1>2. HandHeld'
  <2> SUFFICES ASSUME NEW v \in Uids, NEW p \in InHand(v)
               PROVE  claims'[p].uid = v /\ claims'[p].until > 0
    BY <1>0, <1>1 DEF HandHeld, InHand
  <2>1. p \in Points BY <1>0, JobFacts
  <2>2. claims[p].until \in Int BY <1>0, <2>1, PointsAssumption DEF Typed, Claims
  <2>3. claims[p].until > 1 BY <1>1 DEF Fits
  <2>4. claims'[p].until = Less(claims[p].until) /\ claims'[p].uid = claims[p].uid BY <1>0, <2>1, TickFacts
  <2> QED BY <1>0, <2>2, <2>3, <2>4 DEF Less, HandHeld
<1>3. \A p \in Points : Live(claims', succ', p) => Live(claims, succ, p)
  <2> SUFFICES ASSUME NEW p \in Points, Live(claims', succ', p) PROVE Live(claims, succ, p)
    OBVIOUS
  <2>1. claims[p].until \in Int /\ succ[p] \in Int BY <1>0, PointsAssumption DEF Typed, Claims
  <2>2. claims'[p].until = Less(claims[p].until) /\ succ'[p] = Less(succ[p]) BY <1>0, TickFacts
  <2> QED BY <2>1, <2>2 DEF Live, Less
<1>4. Apart' BY <1>0, <1>3 DEF Apart
<1>5. \A p \in Points : file'[p] > 0 => file[p] > 0
  <2>1. \A p \in Points : file[p] \in Nat /\ file'[p] = Less(file[p]) BY <1>0, TickFacts DEF Typed
  <2> QED BY <2>1 DEF Less
<1>6. FileApart' BY <1>0, <1>5 DEF FileApart
<1> QED BY <1>2, <1>4, <1>6 DEF FitInv

\* After a restart only the file's points block.
LEMMA RestartKeeps ==
  ASSUME PointsInv, Restart
  PROVE  PointsInv' /\ (FitInv => FitInv')
<1>0. file \in [Points -> Nat] BY DEF PointsInv, Typed
<1>1. /\ claims' = [p \in Points |-> NoClaim] /\ succ' = file /\ file' = file /\ cursor' = 1
      /\ job' = [u \in Uids |-> Idle] /\ stall' = [u \in Uids |-> None]
  BY DEF Restart
<1>2. Typed' BY <1>0, <1>1, NoClaimFacts, IdleFacts DEF Typed
<1>n. NoClaim.reuse = 0 /\ NoClaim.lease = 0 BY DEF NoClaim
<1>3. Covered' BY <1>1, <1>n, NoClaimFacts DEF Covered, CoveredAt
<1>4. NoLeakedClaim' BY <1>1, NoClaimFacts DEF NoLeakedClaim
<1>5. ASSUME FitInv PROVE FitInv'
  <2>1. HandHeld' BY <1>1, IdleFacts DEF HandHeld, InHand
  <2>2. Apart' /\ FileApart' BY <1>1, <1>5, NoClaimFacts DEF FitInv, Apart, FileApart, Live
  <2> QED BY <2>1, <2>2 DEF FitInv
<1> QED BY <1>2, <1>3, <1>4, <1>5 DEF PointsInv

\* At the start nothing is claimed.
LEMMA InitHolds ==
  ASSUME Init
  PROVE  PointsInv /\ FitInv
<1>1. /\ claims = [p \in Points |-> NoClaim] /\ succ = [p \in Points |-> 0] /\ file = succ /\ cursor = 1
      /\ job = [u \in Uids |-> Idle] /\ stall = [u \in Uids |-> None]
  BY DEF Init
<1>2. Typed BY <1>1, NoClaimFacts, IdleFacts DEF Typed
<1>n. NoClaim.reuse = 0 /\ NoClaim.lease = 0 BY DEF NoClaim
<1>3. Covered BY <1>1, <1>n, NoClaimFacts DEF Covered, CoveredAt
<1>4. NoLeakedClaim BY <1>1, NoClaimFacts DEF NoLeakedClaim
<1>5. HandHeld BY <1>1, IdleFacts DEF HandHeld, InHand
<1>6. Apart /\ FileApart BY <1>1, NoClaimFacts DEF Apart, FileApart, Live
<1> QED BY <1>2, <1>3, <1>4, <1>5, <1>6 DEF PointsInv, FitInv

-----------------------------------------------------------------------------
(* Every step *)

\* Every step of a robot has one of the three forms.
LEMMA RobotForm ==
  ASSUME Typed, Covered, NEW u \in Uids, Attempt(u) \/ StoreEnds(u) \/ StoreLost(u)
  PROVE  Yields(u) \/ (\E p \in Points : Takes(u, p)) \/ (\E p \in Points : Reports(u, p))
BY BeginItemForm, PreparedForm, PrepareFailedForm, BeginDisjointForm, NextTryForm, DisplayedForm,
   ReportSuccessForm, SessionFailureForm, AmbiguousFailureForm, ZoneFailureForm, OtherFailureForm,
   CancelledForm, CleanupForm, StoreEndsForm, StoreLostForm DEF Attempt

\* A stuttering step keeps the invariant.
LEMMA StutterKeeps ==
  ASSUME PointsInv, UNCHANGED vars
  PROVE  PointsInv' /\ (FitInv => FitInv')
BY DEF vars, PointsInv, Typed, Covered, CoveredAt, NoLeakedClaim, InHand, FitInv, HandHeld, Apart, FileApart, Live

\* Every step keeps the invariant.
LEMMA NextKeepsInv ==
  ASSUME PointsInv, [Next]_vars
  PROVE  PointsInv'
<1>1. ASSUME NEW u \in Uids, Attempt(u) \/ StoreEnds(u) \/ StoreLost(u) PROVE PointsInv'
  BY <1>1, RobotForm, YieldsKeepInv, TakesKeepInv, ReportsKeepInv DEF PointsInv
<1> QED BY <1>1, SaveActiveKeeps, TickKeepsInv, RestartKeeps, StutterKeeps DEF Next

\* Every step keeps what holds if attempts fit.
LEMMA NextKeepsFit ==
  ASSUME PointsInv, FitInv, AttemptsFit, [Next]_vars
  PROVE  FitInv'
<1>1. ASSUME NEW u \in Uids, Attempt(u) \/ StoreEnds(u) \/ StoreLost(u) PROVE FitInv'
  <2>1. Typed /\ Covered BY DEF PointsInv
  <2> QED BY <1>1, <2>1, RobotForm, YieldsKeepFit, TakesKeepFit, ReportsKeepFit
<1> QED BY <1>1, SaveActiveKeeps, TickKeepsFit, RestartKeeps, StutterKeeps DEF Next

-----------------------------------------------------------------------------
(* Results on claims *)

\* The invariant behind the others, whether or not attempts outlive their leases:
\* the types, the shape of each attempt at each of its steps, and that a claim is
\* forgotten no sooner than it and the store it covers stop blocking.
THEOREM PointsInvariant == Spec => []PointsInv
<1>1. Init => PointsInv BY InitHolds
<1>2. PointsInv /\ [Next]_vars => PointsInv' BY NextKeepsInv
<1> QED BY <1>1, <1>2, PTL DEF Spec

\* No exit of the two attempt loops (AutoUntilSuccess, autoDisjointStore) leaks a
\* claim that blocks others, also when an attempt outlives its lease and another
\* robot took the point in the meantime.
THEOREM PointsNoLeakedClaim == Spec => []NoLeakedClaim
<1>1. PointsInv => NoLeakedClaim BY DEF PointsInv
<1> QED BY <1>1, PointsInvariant, PTL

\* As long as attempts end within their leases, no two points that block others,
\* by a claim or by a displayed store, collide: whatever the grid, across
\* releases, expiry and restarts from an active file that may be old.
THEOREM PointsApart ==
  ASSUME AttemptsFit
  PROVE  Spec => []Apart
<1>1. Init => PointsInv /\ FitInv BY InitHolds
<1>2. PointsInv /\ FitInv /\ [Next]_vars => (PointsInv /\ FitInv)' BY NextKeepsInv, NextKeepsFit
<1>3. PointsInv /\ FitInv => Apart BY DEF FitInv
<1> QED BY <1>1, <1>2, <1>3, PTL DEF Spec

\* Every step but time and restarts leaves other robots' points alone.
LEMMA NextUntouched ==
  ASSUME PointsInv, [Next]_vars
  PROVE  UNCHANGED vars \/ Tick \/ Restart \/ Untouched
<1>0. Typed /\ Covered BY DEF PointsInv
<1>1. \A p \in Points, u \in Uids : claims[p].uid = u /\ Live(claims, succ, p) => ~(claims[p].expires < 0) /\ claims[p].expires >= 0
  <2> SUFFICES ASSUME NEW p \in Points, claims[p].uid \in Uids, Live(claims, succ, p)
               PROVE  ~(claims[p].expires < 0) /\ claims[p].expires >= 0
    OBVIOUS
  <2>1. claims[p].until \in Int /\ claims[p].expires \in Int /\ succ[p] \in Nat BY <1>0, PointsAssumption DEF Typed, Claims
  <2> QED BY <1>0, <2>1 DEF Covered, CoveredAt, Live
<1>2. ASSUME NEW v \in Uids, Attempt(v) \/ StoreEnds(v) \/ StoreLost(v) PROVE Untouched
  <2> SUFFICES ASSUME NEW p \in Points, NEW u \in Uids, claims[p].uid = u, Live(claims, succ, p),
                      ~(job'[u] # job[u] \/ stall'[u] # stall[u])
               PROVE  claims'[p] = claims[p] /\ succ'[p] = succ[p]
    BY DEF Untouched
  <2>1. ~(claims[p].expires < 0) /\ claims[p].expires >= 0 BY <1>1
  <2>2. CASE Yields(v) BY <2>1, <2>2 DEF Yields
  <2>3. CASE \E q \in Points : Takes(v, q) BY <2>1, <2>3 DEF Takes
  <2>4. CASE \E q \in Points : Reports(v, q) BY <2>1, <2>4 DEF Reports
  <2> QED BY <1>0, <1>2, <2>2, <2>3, <2>4, RobotForm
<1>3. CASE SaveActive BY <1>3 DEF SaveActive, Untouched
<1> QED BY <1>2, <1>3 DEF Next

\* A robot whose claim ran out cannot take the point away from the robot that has
\* it now (Report, Discard and ReleaseUID look at the claim's owner): apart from
\* time and restarts, a point that blocks others changes only by a step of the
\* robot that claimed it.
THEOREM PointsUntouched == Spec => [][Tick \/ Restart \/ Untouched]_vars
<1>1. PointsInv /\ [Next]_vars => [Tick \/ Restart \/ Untouched]_vars BY NextUntouched
<1> QED BY <1>1, PointsInvariant, PTL DEF Spec

-----------------------------------------------------------------------------
(* Evidence *)

\* Every observation that counts against a point stands, and a point that is put
\* aside has enough of them.
EvidInv ==
  /\ evid \in [Points -> [Ambiguous -> [Uids -> -1 .. Window]]]
  /\ cool \in [Points -> Nat]
  /\ said \in [Points -> SUBSET (Uids \X Ambiguous)]
  /\ \A p \in Points, r \in Ambiguous, u \in Uids : evid[p][r][u] >= 0 => <<u, r>> \in said[p]
  /\ EvidenceStands

\* The robots whose observation of a point for a reason stands, among those s.
Sayers(s, r) == {u \in Uids : <<u, r>> \in s}

\* Enough witnesses are enough observations.
LEMMA WitnessesCount ==
  ASSUME NEW e, NEW s, NEW p \in Points, NEW r \in Ambiguous,
         \A u \in Uids : e[p][r][u] >= 0 => <<u, r>> \in s,
         Cardinality(Witnesses(e, p, r)) >= EvidenceLimit
  PROVE  Cardinality(Sayers(s, r)) >= EvidenceLimit
<1> DEFINE W == Witnesses(e, p, r)
           S == Sayers(s, r)
<1>1. W \subseteq S BY DEF Witnesses, Sayers
<1>2. IsFiniteSet(S) BY PointsAssumption, FS_Subset DEF Sayers
<1>3. IsFiniteSet(W) /\ Cardinality(W) <= Cardinality(S) BY <1>1, <1>2, FS_Subset
<1>4. Cardinality(W) \in Nat /\ Cardinality(S) \in Nat BY <1>2, <1>3, FS_CardinalityType
<1>5. EvidenceLimit \in Nat BY PointsAssumption
<1> HIDE DEF W, S
<1>6. Cardinality(W) >= EvidenceLimit BY DEF W
<1>7. Cardinality(S) >= EvidenceLimit BY <1>3, <1>4, <1>5, <1>6
<1> QED BY <1>7 DEF S

\* Remembering an observation keeps the evidence sound.
LEMMA RememberKeeps ==
  ASSUME EvidInv, NEW c \in [Points -> Claims], NEW u \in Uids, NEW p \in Points, NEW r \in Ambiguous,
         Remember(c, u, p, r)
  PROVE  EvidInv'
<1>0. /\ evid \in [Points -> [Ambiguous -> [Uids -> -1 .. Window]]] /\ cool \in [Points -> Nat]
      /\ said \in [Points -> SUBSET (Uids \X Ambiguous)]
      /\ \A q \in Points, t \in Ambiguous, v \in Uids : evid[q][t][v] >= 0 => <<v, t>> \in said[q]
      /\ EvidenceStands
  BY DEF EvidInv
<1> DEFINE lease == IF Owned(c, u, p) THEN c[p].lease ELSE TTL
<1>1. lease \in Nat
  <2>1. c[p].lease \in {0, TTL, Lease} BY DEF Claims
  <2>2. TTL \in Nat /\ Lease \in Nat BY PointsAssumption
  <2> QED BY <2>1, <2>2
<1>2. /\ evid' = [evid EXCEPT ![p][r][u] = Window]
      /\ cool' = IF Cardinality(Witnesses(evid', p, r)) >= EvidenceLimit
                   THEN [cool EXCEPT ![p] = Maximum(@, lease)] ELSE cool
      /\ said' = [said EXCEPT ![p] = @ \cup {<<u, r>>}]
  BY DEF Remember
<1> HIDE DEF lease
<1>w. Window \in -1 .. Window BY PointsAssumption
<1>3. evid' \in [Points -> [Ambiguous -> [Uids -> -1 .. Window]]] BY <1>0, <1>2, <1>w
<1>4. said' \in [Points -> SUBSET (Uids \X Ambiguous)] BY <1>0, <1>2
<1>5. cool' \in [Points -> Nat]
  <2>1. Maximum(cool[p], lease) \in Nat BY <1>0, <1>1 DEF Maximum
  <2> QED BY <1>0, <1>2, <2>1
<1>6. ASSUME NEW q \in Points, NEW t \in Ambiguous, NEW v \in Uids, evid'[q][t][v] >= 0
      PROVE  <<v, t>> \in said'[q]
  <2>1. CASE q = p /\ t = r /\ v = u BY <1>0, <1>2, <2>1
  <2>2. CASE ~(q = p /\ t = r /\ v = u)
    <3>1. evid'[q][t][v] = evid[q][t][v] BY <1>0, <1>2, <2>2
    <3>2. said[q] \subseteq said'[q] BY <1>0, <1>2
    <3> QED BY <1>0, <1>6, <3>1, <3>2
  <2> QED BY <2>1, <2>2
<1>7. EvidenceStands'
  <2> SUFFICES ASSUME NEW q \in Points, cool'[q] > 0
               PROVE  \E t \in Ambiguous : Cardinality({v \in Uids : <<v, t>> \in said'[q]}) >= EvidenceLimit
    BY DEF EvidenceStands
  <2>1. CASE q = p /\ Cardinality(Witnesses(evid', p, r)) >= EvidenceLimit
    <3>1. \A v \in Uids : evid'[p][r][v] >= 0 => <<v, r>> \in said'[p] BY <1>6
    <3>2. Cardinality(Witnesses(evid', p, r)) >= EvidenceLimit BY <2>1
    <3>3. Cardinality(Sayers(said'[p], r)) >= EvidenceLimit BY <3>1, <3>2, WitnessesCount
    <3> QED BY <2>1, <3>3 DEF Sayers
  <2>2. CASE ~(q = p /\ Cardinality(Witnesses(evid', p, r)) >= EvidenceLimit)
    <3>1. cool'[q] = cool[q] BY <1>0, <1>2, <2>2
    <3>2. PICK t \in Ambiguous : Cardinality({v \in Uids : <<v, t>> \in said[q]}) >= EvidenceLimit
      BY <1>0, <3>1 DEF EvidenceStands
    <3> DEFINE A == {v \in Uids : <<v, t>> \in said[q]}
               B == {v \in Uids : <<v, t>> \in said'[q]}
    <3>3. A \subseteq B BY <1>0, <1>2
    <3>4. IsFiniteSet(B) BY PointsAssumption, FS_Subset
    <3> HIDE DEF A, B
    <3>5. IsFiniteSet(A) /\ Cardinality(A) <= Cardinality(B) BY <3>3, <3>4, FS_Subset
    <3>6. Cardinality(A) \in Nat /\ Cardinality(B) \in Nat BY <3>4, <3>5, FS_CardinalityType
    <3>7. Cardinality(A) >= EvidenceLimit BY <3>2 DEF A
    <3>8. EvidenceLimit \in Nat BY PointsAssumption
    <3>9. Cardinality(B) >= EvidenceLimit BY <3>5, <3>6, <3>7, <3>8
    <3> QED BY <3>9 DEF B
  <2> QED BY <2>1, <2>2
<1> QED BY <1>3, <1>4, <1>5, <1>6, <1>7 DEF EvidInv

\* So does taking one back: the point is free again unless others are enough.
LEMMA ForgetKeeps ==
  ASSUME EvidInv, NEW u \in Uids, NEW p \in Points, NEW r \in Ambiguous, Forget(u, p, r)
  PROVE  EvidInv'
<1>0. /\ evid \in [Points -> [Ambiguous -> [Uids -> -1 .. Window]]] /\ cool \in [Points -> Nat]
      /\ said \in [Points -> SUBSET (Uids \X Ambiguous)]
      /\ \A q \in Points, t \in Ambiguous, v \in Uids : evid[q][t][v] >= 0 => <<v, t>> \in said[q]
      /\ EvidenceStands
  BY DEF EvidInv
<1>2. /\ evid' = [evid EXCEPT ![p][r][u] = -1]
      /\ cool' = IF EnoughEvidence(evid', p) THEN cool ELSE [cool EXCEPT ![p] = 0]
      /\ said' = [said EXCEPT ![p] = @ \ {<<u, r>>}]
  BY DEF Forget
<1>w. -1 \in -1 .. Window BY PointsAssumption
<1>3. evid' \in [Points -> [Ambiguous -> [Uids -> -1 .. Window]]] BY <1>0, <1>2, <1>w
<1>4. said' \in [Points -> SUBSET (Uids \X Ambiguous)] BY <1>0, <1>2
<1>5. cool' \in [Points -> Nat] BY <1>0, <1>2
<1>6. ASSUME NEW q \in Points, NEW t \in Ambiguous, NEW v \in Uids, evid'[q][t][v] >= 0
      PROVE  <<v, t>> \in said'[q]
  <2>1. ~(q = p /\ t = r /\ v = u) BY <1>0, <1>2, <1>6
  <2>2. evid'[q][t][v] = evid[q][t][v] BY <1>0, <1>2, <2>1
  <2>3. <<v, t>> \in said[q] BY <1>0, <1>6, <2>2
  <2>4. CASE q # p BY <1>0, <1>2, <2>3, <2>4
  <2>5. CASE q = p
    <3>1. <<v, t>> # <<u, r>> BY <2>1, <2>5
    <3> QED BY <1>0, <1>2, <2>3, <2>5, <3>1
  <2> QED BY <2>4, <2>5
<1>7. EvidenceStands'
  <2> SUFFICES ASSUME NEW q \in Points, cool'[q] > 0
               PROVE  \E t \in Ambiguous : Cardinality({v \in Uids : <<v, t>> \in said'[q]}) >= EvidenceLimit
    BY DEF EvidenceStands
  <2>1. CASE q = p
    <3>1. EnoughEvidence(evid', p) BY <1>0, <1>2, <2>1
    <3>2. PICK t \in Ambiguous : Cardinality(Witnesses(evid', p, t)) >= EvidenceLimit BY <3>1 DEF EnoughEvidence
    <3>3. \A v \in Uids : evid'[p][t][v] >= 0 => <<v, t>> \in said'[p] BY <1>6
    <3>4. Cardinality(Sayers(said'[p], t)) >= EvidenceLimit BY <3>2, <3>3, WitnessesCount
    <3> QED BY <2>1, <3>4 DEF Sayers
  <2>2. CASE q # p
    <3>1. cool'[q] = cool[q] /\ said'[q] = said[q] BY <1>0, <1>2, <2>2
    <3> QED BY <1>0, <3>1 DEF EvidenceStands
  <2> QED BY <2>1, <2>2
<1> QED BY <1>3, <1>4, <1>5, <1>6, <1>7 DEF EvidInv

\* A report that counts wipes the point's evidence.
LEMMA WipeKeeps ==
  ASSUME EvidInv, NEW p \in Points,
         evid' = [evid EXCEPT ![p] = NoEvidence], cool' = [cool EXCEPT ![p] = 0], said' = [said EXCEPT ![p] = {}]
  PROVE  EvidInv'
<1>0. /\ evid \in [Points -> [Ambiguous -> [Uids -> -1 .. Window]]] /\ cool \in [Points -> Nat]
      /\ said \in [Points -> SUBSET (Uids \X Ambiguous)]
      /\ \A q \in Points, t \in Ambiguous, v \in Uids : evid[q][t][v] >= 0 => <<v, t>> \in said[q]
      /\ EvidenceStands
  BY DEF EvidInv
<1>w. -1 \in -1 .. Window BY PointsAssumption
<1>1. NoEvidence \in [Ambiguous -> [Uids -> -1 .. Window]] /\ \A t \in Ambiguous, v \in Uids : ~(NoEvidence[t][v] >= 0)
  BY <1>w DEF NoEvidence
<1>3. evid' \in [Points -> [Ambiguous -> [Uids -> -1 .. Window]]] BY <1>0, <1>1
<1>4. said' \in [Points -> SUBSET (Uids \X Ambiguous)] /\ cool' \in [Points -> Nat] BY <1>0
<1>5. evid'[p] = NoEvidence /\ cool'[p] = 0 BY <1>0
<1>6. \A q \in Points : q # p => evid'[q] = evid[q] /\ cool'[q] = cool[q] /\ said'[q] = said[q] BY <1>0
<1>7. \A q \in Points, t \in Ambiguous, v \in Uids : evid'[q][t][v] >= 0 => <<v, t>> \in said'[q]
  BY <1>0, <1>1, <1>5, <1>6
<1>8. EvidenceStands'
  <2> SUFFICES ASSUME NEW q \in Points, cool'[q] > 0
               PROVE  \E t \in Ambiguous : Cardinality({v \in Uids : <<v, t>> \in said'[q]}) >= EvidenceLimit
    BY DEF EvidenceStands
  <2>1. q # p BY <1>5
  <2>2. cool'[q] = cool[q] /\ said'[q] = said[q] BY <1>6, <2>1
  <2> QED BY <1>0, <2>2 DEF EvidenceStands
<1> QED BY <1>3, <1>4, <1>7, <1>8 DEF EvidInv

\* Time only takes evidence away.
LEMMA EvidTickKeeps ==
  ASSUME EvidInv, Tick
  PROVE  EvidInv'
<1>0. /\ evid \in [Points -> [Ambiguous -> [Uids -> -1 .. Window]]] /\ cool \in [Points -> Nat]
      /\ said \in [Points -> SUBSET (Uids \X Ambiguous)]
      /\ \A q \in Points, t \in Ambiguous, v \in Uids : evid[q][t][v] >= 0 => <<v, t>> \in said[q]
      /\ EvidenceStands
  BY DEF EvidInv
<1>1. /\ cool' = [p \in Points |-> Less(cool[p])] /\ said' = said
      /\ evid' = [p \in Points |-> [r \in Ambiguous |-> [u \in Uids |-> Older(evid[p][r][u])]]]
  BY DEF Tick
<1>w. Window \in Nat BY PointsAssumption
<1>2. \A n \in -1 .. Window : Older(n) \in -1 .. Window /\ (Older(n) >= 0 => n >= 0) BY <1>w DEF Older
<1>3. \A n \in Nat : Less(n) \in Nat /\ (Less(n) > 0 => n > 0) BY DEF Less
<1>4. \A p \in Points, r \in Ambiguous, u \in Uids : evid[p][r][u] \in -1 .. Window /\ evid'[p][r][u] = Older(evid[p][r][u])
  BY <1>0, <1>1
<1>5. evid' \in [Points -> [Ambiguous -> [Uids -> -1 .. Window]]]
  <2>1. \A p \in Points, r \in Ambiguous, u \in Uids : Older(evid[p][r][u]) \in -1 .. Window BY <1>2, <1>4
  <2> QED BY <1>1, <2>1
<1>6. cool' \in [Points -> Nat] /\ \A p \in Points : cool'[p] > 0 => cool[p] > 0 BY <1>0, <1>1, <1>3
<1>7. \A q \in Points, t \in Ambiguous, v \in Uids : evid'[q][t][v] >= 0 => <<v, t>> \in said'[q]
  BY <1>0, <1>1, <1>2, <1>4
<1>8. EvidenceStands' BY <1>0, <1>1, <1>6 DEF EvidenceStands
<1> QED BY <1>0, <1>1, <1>5, <1>6, <1>7, <1>8 DEF EvidInv

\* Nothing observed, nothing put aside: at the start and after a restart.
LEMMA NoEvidenceFacts ==
  /\ [p \in Points |-> NoEvidence] \in [Points -> [Ambiguous -> [Uids -> -1 .. Window]]]
  /\ \A p \in Points, t \in Ambiguous, v \in Uids : ~([q \in Points |-> NoEvidence][p][t][v] >= 0)
<1>w. -1 \in -1 .. Window BY PointsAssumption
<1>1. NoEvidence \in [Ambiguous -> [Uids -> -1 .. Window]] /\ \A t \in Ambiguous, v \in Uids : ~(NoEvidence[t][v] >= 0)
  BY <1>w DEF NoEvidence
<1> QED BY <1>1

\* At the start nothing is observed.
LEMMA EvidInit ==
  ASSUME Init
  PROVE  EvidInv
<1>1. evid = [p \in Points |-> NoEvidence] /\ cool = [p \in Points |-> 0] /\ said = [p \in Points |-> {}] BY DEF Init
<1>2. EvidenceStands BY <1>1 DEF EvidenceStands
<1> QED BY <1>1, <1>2, NoEvidenceFacts DEF EvidInv

\* Nor after a restart.
LEMMA EvidRestart ==
  ASSUME Restart
  PROVE  EvidInv'
<1>1. evid' = [p \in Points |-> NoEvidence] /\ cool' = [p \in Points |-> 0] /\ said' = [p \in Points |-> {}] BY DEF Restart
<1>2. EvidenceStands' BY <1>1 DEF EvidenceStands
<1> QED BY <1>1, <1>2, NoEvidenceFacts DEF EvidInv

\* A step that leaves the evidence alone.
LEMMA EvidSame ==
  ASSUME EvidInv, UNCHANGED <<evid, cool, said>>
  PROVE  EvidInv'
BY DEF EvidInv, EvidenceStands

\* Every step keeps the evidence sound.
LEMMA EvidNext ==
  ASSUME Typed, EvidInv, [Next]_vars
  PROVE  EvidInv'
<1>1. ASSUME NEW u \in Uids, Attempt(u) \/ StoreEnds(u) \/ StoreLost(u) PROVE EvidInv'
  <2>0. /\ job[u].pos \in Points \cup {None} /\ job[u].fail \in Points \cup {None} /\ JobShape(job[u])
        /\ claims \in [Points -> Claims]
    BY JobFacts DEF Typed
  <2>1. CASE \/ BeginItem(u) \/ Prepared(u) \/ PrepareFailed(u) \/ BeginDisjoint(u) \/ NextTry(u) \/ Displayed(u)
             \/ OtherFailure(u) \/ Cleanup(u) \/ StoreEnds(u) \/ StoreLost(u)
    <3>1. UNCHANGED <<evid, cool, said>>
      BY <2>1 DEF BeginItem, Prepared, PrepareFailed, BeginDisjoint, NextTry, Displayed, OtherFailure, Cleanup, StoreEnds, StoreLost
    <3> QED BY <3>1, EvidSame
  <2>2. CASE ReportSuccess(u)
    <3>1. job[u].pos \in Points BY <2>0, <2>2 DEF ReportSuccess, JobShape
    <3>2. \/ UNCHANGED <<evid, cool, said>>
          \/ /\ evid' = [evid EXCEPT ![job[u].pos] = NoEvidence]
             /\ cool' = [cool EXCEPT ![job[u].pos] = 0] /\ said' = [said EXCEPT ![job[u].pos] = {}]
      BY <2>2 DEF ReportSuccess
    <3> QED BY <3>1, <3>2, EvidSame, WipeKeeps
  <2>3. CASE ZoneFailure(u)
    <3>1. job[u].pos \in Points BY <2>0, <2>3 DEF ZoneFailure, JobShape
    <3>2. \/ UNCHANGED <<evid, cool, said>>
          \/ /\ evid' = [evid EXCEPT ![job[u].pos] = NoEvidence]
             /\ cool' = [cool EXCEPT ![job[u].pos] = 0] /\ said' = [said EXCEPT ![job[u].pos] = {}]
      BY <2>3 DEF ZoneFailure
    <3> QED BY <3>1, <3>2, EvidSame, WipeKeeps
  <2>4. CASE SessionFailure(u)
    <3>1. job[u].fail \in Points /\ job[u].why \in Ambiguous BY <2>0, <2>4 DEF SessionFailure, JobShape
    <3> QED BY <2>4, <3>1, ForgetKeeps DEF SessionFailure
  <2>5. CASE AmbiguousFailure(u)
    <3>1. job[u].pos \in Points BY <2>0, <2>5 DEF AmbiguousFailure, JobShape
    <3>2. Discard(claims, u, job[u].fail) \in [Points -> Claims] BY <2>0, DiscardFacts
    <3>3. PICK r \in Ambiguous : Remember(Discard(claims, u, job[u].fail), u, job[u].pos, r) BY <2>5 DEF AmbiguousFailure
    <3> QED BY <3>1, <3>2, <3>3, RememberKeeps
  <2>6. CASE Cancelled(u)
    <3>1. ForgetFailure(u) BY <2>6 DEF Cancelled
    <3>2. CASE job[u].fail = None BY <3>1, <3>2, EvidSame DEF ForgetFailure
    <3>3. CASE job[u].fail # None
      <4>1. job[u].fail \in Points /\ job[u].why \in Ambiguous BY <2>0, <3>3 DEF JobShape
      <4> QED BY <3>1, <3>3, <4>1, ForgetKeeps DEF ForgetFailure
    <3> QED BY <3>2, <3>3
  <2> QED BY <1>1, <2>1, <2>2, <2>3, <2>4, <2>5, <2>6 DEF Attempt
<1>2. CASE SaveActive BY <1>2, EvidSame DEF SaveActive
<1>3. CASE UNCHANGED vars BY <1>3, EvidSame DEF vars
<1> QED BY <1>1, <1>2, <1>3, EvidTickKeeps, EvidRestart DEF Next

\* A point is put aside (rememberPointEvidence) only while the observations of
\* enough robots stand; one that turned out to be the session's fault, and was
\* taken back by forgetPointEvidence, is not among them.
THEOREM PointsEvidence == Spec => []EvidenceStands
<1>1. Init => PointsInv /\ EvidInv BY InitHolds, EvidInit
<1>2. PointsInv /\ EvidInv /\ [Next]_vars => (PointsInv /\ EvidInv)'
  BY NextKeepsInv, EvidNext DEF PointsInv
<1>3. PointsInv /\ EvidInv => EvidenceStands BY DEF EvidInv
<1> QED BY <1>1, <1>2, <1>3, PTL DEF Spec

\* As long as attempts end within their leases, claimed and displayed points never
\* collide, no attempt loop leaks its claim, and a point is put aside only on observations
\* that stand (coordinator.go, AutoUntilSuccess, autoDisjointStore).
THEOREM PointsAreSafe ==
  ASSUME AttemptsFit
  PROVE  Spec => []PointsSafe
<1>1. Apart /\ NoLeakedClaim /\ EvidenceStands => PointsSafe BY DEF PointsSafe
<1> QED BY <1>1, PointsApart, PointsNoLeakedClaim, PointsEvidence, PTL
=============================================================================
