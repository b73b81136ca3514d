----------------------------- MODULE StorePoints -----------------------------
(***************************************************************************)
(* The coordinator that hands out stall positions to robots opening        *)
(* automatic stores (internal/capability/store/coordinator*.go), driven by *)
(* the two store attempts: AutoUntilSuccess (workflow.go) for item stores  *)
(* and autoDisjointStore (scheduler/actor_runtime.go) for disjoint stores. *)
(*                                                                         *)
(* Every method of the coordinator runs under pointMu and is one step.  A  *)
(* robot's attempt is sequential (its actor runs it); attempts of several  *)
(* robots, the writer of the active file, time and crashes interleave.     *)
(*                                                                         *)
(* Points are 1..Len(Grid), in the order of BuildGridPoints.  Deadlines    *)
(* are kept as the time left, so that the state space is finite; left = 0  *)
(* is the instant of the deadline and -1 any time after it.                *)
(***************************************************************************)
EXTENDS Integers, Sequences, FiniteSets

CONSTANTS Uids,          \* robots
          Grid,          \* sequence of [area, x, y], sorted as sort.Slice does
          OldFailed,     \* points an earlier version's cache recorded as failed
          Lease,         \* StorePointLeaseDuration of the configured duration
          TTL,           \* pointClaimTTL
          Reuse,         \* StoreDurationForUID: the possible staggered durations
          Window,        \* pointEvidenceWindow
          EvidenceLimit, \* pointEvidenceLimit
          MaxTries,      \* AutoStoreMaxPositionTries
          Answers,       \* the refusals that the game server gives
          Slots,         \* SchedulerStoreConcurrent
          Kinds,         \* the attempts that robots make: "item", "disjoint"
          AttemptsFit    \* TRUE: attempts end within the lease of their claims

Points == 1 .. Len(Grid)
None == 0
Ambiguous == {"collision", "refused"}    \* store_err_0x38 and 0x3e, disjoint 0x14, 0xbe, 0x3e
Statuses == {"unknown", "success", "failed"}

ASSUME PointsAssumption ==
  /\ IsFiniteSet(Uids) /\ "none" \notin Uids
  /\ Grid \in Seq([area : Nat \ {0}, x : Int, y : Int])
  /\ OldFailed \subseteq Points
  /\ TTL \in Nat \ {0} /\ Lease \in Nat /\ Lease >= TTL
  /\ Reuse \subseteq Nat \ {0} /\ \A r \in Reuse : r < Lease
  /\ Window \in Nat /\ EvidenceLimit \in Nat \ {0} /\ MaxTries \in Nat \ {0} /\ Slots \in Nat
  /\ Answers \subseteq Ambiguous \cup {"zone", "other"}
  /\ Kinds \subseteq {"item", "disjoint"} /\ AttemptsFit \in BOOLEAN

VARIABLES claims,   \* pointClaims: point -> claim or NoClaim
          succ,     \* pointOccupancy[...].SuccessUntil
          hist,     \* the points' records: Status, and LastReason being permanent
          packed,   \* packedPoints
          evid,     \* pointEvidence: point, reason and robot -> time left, -1 if none
          cool,     \* pointCooldown
          cursor,   \* areaCursor, as the area scanned next
          job,      \* the attempt each robot is in
          stall,    \* the point at which each robot's store is displayed
          file,     \* store_points_active.json
          cache,    \* store_points_cache.json
          said      \* history: the observations of a point that stand, by robot and reason

vars == <<claims, succ, hist, packed, evid, cool, cursor, job, stall, file, cache, said>>

NoClaim == [uid |-> "none", expires |-> -1, until |-> 0, lease |-> 0, reuse |-> 0]
Idle == [pc |-> "idle", kind |-> "none", pos |-> None, fail |-> None, why |-> "none", tries |-> 0]

-----------------------------------------------------------------------------
(* Geometry *)

Abs(n) == IF n < 0 THEN -n ELSE n
SameArea(p, q) == Grid[p].area = Grid[q].area

\* Columns are 120 apart and may all be used, rows are 80 apart and every other
\* one is used: pointOccupancyConflictX = 119, pointOccupancyConflictY = 159.
PositionsConflict(p, q) ==
  /\ SameArea(p, q)
  /\ Abs(Grid[p].x - Grid[q].x) <= 119
  /\ Abs(Grid[p].y - Grid[q].y) <= 159

OccupancyCell(p) == <<Grid[p].x \div 120, Grid[p].y \div 160>>

NearCellOwn(p, q) == SameArea(p, q) /\ OccupancyCell(p) = OccupancyCell(q)

\* The three by three cells around the candidate's that are searched.
NearCell(p, q) ==
  /\ SameArea(p, q)
  /\ Abs(OccupancyCell(p)[1] - OccupancyCell(q)[1]) <= 1
  /\ Abs(OccupancyCell(p)[2] - OccupancyCell(q)[2]) <= 1

\* The commercial zone a 0x52 refusal tells about.
InZone(p, q) ==
  /\ SameArea(p, q)
  /\ Abs(Grid[p].x - Grid[q].x) <= 160
  /\ Abs(Grid[p].y - Grid[q].y) <= 300

\* buildPackedPointSet: the greedy choice of points that do not collide.
PackedSet(h) ==
  LET pick[i \in 0 .. Len(Grid)] ==
        IF i = 0 THEN {}
        ELSE IF h[i].never \/ \E q \in pick[i - 1] : NearCell(i, q) /\ PositionsConflict(i, q)
             THEN pick[i - 1]
             ELSE pick[i - 1] \cup {i}
  IN pick[Len(Grid)]

-----------------------------------------------------------------------------
(* Claims and occupancy *)

Owned(c, u, p) == c[p].uid = u
Live(c, s, p) == c[p].until > 0 \/ s[p] > 0

\* positionRecentlyOccupied
Occupied(c, s, p) == \E q \in Points : Live(c, s, q) /\ NearCell(p, q) /\ PositionsConflict(p, q)

NewPointClaim(u, l, r) == [uid |-> u, expires |-> l, until |-> l, lease |-> l, reuse |-> r]

ClearExpiredClaims(c) == [p \in Points |-> IF c[p].expires < 0 THEN NoClaim ELSE c[p]]

DiscardAny(c, u, p) == IF p # None THEN [c EXCEPT ![p] = NoClaim] ELSE c
Discard(c, u, p) == IF p # None /\ Owned(c, u, p) THEN [c EXCEPT ![p] = NoClaim] ELSE c

\* ReleaseUID: all claims of the robot, and the success occupancy under them.
ReleasedClaims(c, u) == [p \in Points |-> IF Owned(c, u, p) THEN NoClaim ELSE c[p]]
ReleasedSucc(c, s, u) == [p \in Points |-> IF Owned(c, u, p) THEN 0 ELSE s[p]]

-----------------------------------------------------------------------------
(* Choosing a point *)

\* recentFailedPoint: cooling down, or refused for good.  A record in OldFailed
\* is past its retry time.
RecentFailed(p) == cool[p] > 0 \/ hist[p].never

Free(p) == ~RecentFailed(p) /\ ~Occupied(claims, succ, p)

AreaHasUsableSuccess(p) ==
  \E q \in Points : SameArea(p, q) /\ hist[q].status = "success" /\ ~RecentFailed(q)

\* The six passes of claim over all areas.
Candidates(pass) ==
  {p \in Points :
     /\ CASE pass = 1 -> hist[p].status = "success" /\ p \in packed
          [] pass = 2 -> hist[p].status = "success"
          [] pass = 3 -> hist[p].status = "unknown" /\ p \in packed
          [] pass = 4 -> hist[p].status = "failed" /\ p \in packed /\ AreaHasUsableSuccess(p)
          [] pass = 5 -> hist[p].status = "unknown"
          [] pass = 6 -> hist[p].status = "failed"
     /\ Free(p)}

Areas == {Grid[p].area : p \in Points}
NextArea(a) == IF a + 1 \in Areas THEN a + 1 ELSE 1
Turn(p) == (Grid[p].area - cursor) % Cardinality(Areas)

\* claimAcrossAreas: the first area from the cursor that has one, its first point.
Precedes(p, q) == Turn(p) < Turn(q) \/ (Turn(p) = Turn(q) /\ p <= q)
Choice ==
  LET passes == {k \in 1 .. 6 : Candidates(k) # {}}
      best == Candidates(CHOOSE k \in passes : \A l \in passes : k <= l)
  IN IF passes = {} THEN None
     ELSE CHOOSE p \in best : \A q \in best : Precedes(p, q)

\* ClaimForStore(uid): the claim is taken, or nothing but expired claims changes.
Claim(u, p) ==
  /\ p = Choice
  /\ IF p = None
       THEN claims' = ClearExpiredClaims(claims) /\ UNCHANGED cursor
       ELSE /\ \E r \in Reuse :
                 claims' = [ClearExpiredClaims(claims) EXCEPT ![p] = NewPointClaim(u, Lease, r)]
            /\ cursor' = NextArea(Grid[p].area)

-----------------------------------------------------------------------------
(* Evidence *)

Maximum(a, b) == IF a >= b THEN a ELSE b
Witnesses(e, p, r) == {u \in Uids : e[p][r][u] >= 0}
EnoughEvidence(e, p) == \E r \in Ambiguous : Cardinality(Witnesses(e, p, r)) >= EvidenceLimit

\* rememberPointEvidence: the third robot refused at a point for the same reason
\* puts the point aside.
Remember(c, u, p, r) ==
  LET e == [evid EXCEPT ![p][r][u] = Window]
      lease == IF Owned(c, u, p) THEN c[p].lease ELSE TTL
  IN /\ evid' = e
     /\ cool' = IF Cardinality(Witnesses(e, p, r)) >= EvidenceLimit
                  THEN [cool EXCEPT ![p] = Maximum(@, lease)]
                  ELSE cool
     /\ said' = [said EXCEPT ![p] = @ \cup {<<u, r>>}]

ForgetOnly(u, p, r) ==
  /\ evid' = [evid EXCEPT ![p][r][u] = -1]
  /\ said' = [said EXCEPT ![p] = @ \ {<<u, r>>}]
  /\ UNCHANGED cool

\* forgetPointEvidence
Forget(u, p, r) ==
  LET e == [evid EXCEPT ![p][r][u] = -1]
  IN /\ evid' = e
     /\ cool' = IF EnoughEvidence(e, p) THEN cool ELSE [cool EXCEPT ![p] = 0]
     /\ said' = [said EXCEPT ![p] = @ \ {<<u, r>>}]

\* DiscardAttemptFailure, for an attempt that may hold none.
ForgetFailure(u) ==
  IF job[u].fail = None THEN UNCHANGED <<evid, cool, said>> ELSE Forget(u, job[u].fail, job[u].why)

NoEvidence == [r \in Ambiguous |-> [u \in Uids |-> -1]]

-----------------------------------------------------------------------------
(* Saving *)

\* Flush joins the delayed writer and writes both files.
Flush == file' = succ' /\ cache' = hist'
\* Report saves the cache when 100 changes or 30 seconds have gathered.
MaySaveCache == cache' = hist' \/ UNCHANGED cache

-----------------------------------------------------------------------------
(* Attempts *)

Running(u) == job[u].pc # "idle"
InHand(u) == {job[u].pos, job[u].fail} \ {None}

\* acquireAutoStoreSlot
SlotFree == Cardinality({v \in Uids : Running(v)}) < Slots

Put(u, j) == job' = [job EXCEPT ![u] = j]

\* AutoUntilSuccess up to the first claim.  A robot that has a store does not
\* start another; one that finds no point reports itself busy.
BeginItem(u) ==
  /\ ~Running(u) /\ stall[u] = None /\ "item" \in Kinds /\ SlotFree
  /\ UNCHANGED <<succ, hist, packed, evid, cool, stall, said>>
  /\ \E p \in Points \cup {None} :
       /\ Claim(u, p)
       /\ IF p = None
            THEN Flush /\ UNCHANGED job
            ELSE /\ Put(u, [Idle EXCEPT !.pc = "prepare", !.kind = "item", !.pos = p, !.tries = 1])
                 /\ UNCHANGED <<file, cache>>

\* prepareAutoSession took the robot off line, wrote and brought it back.
Prepared(u) ==
  /\ job[u].pc = "prepare"
  /\ Put(u, [job[u] EXCEPT !.pc = "try"])
  /\ UNCHANGED <<claims, succ, hist, packed, evid, cool, cursor, stall, file, cache, said>>

\* It failed or was cancelled; FinishStoreState ran on the way (released) unless
\* the robot could not be taken off line.
PrepareFailed(u) ==
  /\ job[u].pc = "prepare"
  /\ \E released \in BOOLEAN :
       /\ claims' = IF released THEN ReleasedClaims(claims, u)
                    ELSE Discard(ClearExpiredClaims(claims), u, job[u].pos)
       /\ succ' = IF released THEN ReleasedSucc(claims, succ, u) ELSE succ
  /\ Put(u, Idle)
  /\ UNCHANGED <<hist, packed, evid, cool, cursor, stall, said>>
  /\ Flush

BeginDisjoint(u) ==
  /\ ~Running(u) /\ stall[u] = None /\ "disjoint" \in Kinds /\ SlotFree
  /\ Put(u, [Idle EXCEPT !.pc = "next", !.kind = "disjoint"])
  /\ UNCHANGED <<claims, succ, hist, packed, evid, cool, cursor, stall, file, cache, said>>

\* The loop claims a point for its next try, or ends.
NextTry(u) ==
  /\ job[u].pc = "next"
  /\ IF job[u].tries < MaxTries
       THEN \E p \in Points \cup {None} :
              /\ Claim(u, p)
              /\ Put(u, IF p = None THEN [job[u] EXCEPT !.pc = "cleanup"]
                        ELSE [job[u] EXCEPT !.pc = "try", !.pos = p, !.tries = @ + 1])
       ELSE Put(u, [job[u] EXCEPT !.pc = "cleanup"]) /\ UNCHANGED <<claims, cursor>>
  /\ UNCHANGED <<succ, hist, packed, evid, cool, stall, file, cache, said>>

DisplayedOnly(u) ==
  /\ job[u].pc = "try"
  /\ stall' = [stall EXCEPT ![u] = job[u].pos]
  /\ Put(u, [job[u] EXCEPT !.pc = "report", !.fail = None, !.why = "none"])
  /\ UNCHANGED <<claims, succ, hist, packed, evid, cool, cursor, file, cache, said>>

\* The server displays the store; CommitAttemptFailure.
Displayed(u) ==
  /\ job[u].pc = "try"
  /\ stall' = [stall EXCEPT ![u] = job[u].pos]
  /\ claims' = Discard(claims, u, job[u].fail)
  /\ Put(u, [job[u] EXCEPT !.pc = "report", !.fail = None, !.why = "none"])
  /\ UNCHANGED <<succ, hist, packed, evid, cool, cursor, file, cache, said>>

\* Report(uid, pos, true, ack): ignored if the point is another robot's by now.
\* The claim stays, for ReleaseUID, and no longer blocks; the occupancy does.
ReportSuccess(u) ==
  LET p == job[u].pos
      c == ClearExpiredClaims(claims)
      claim == IF Owned(c, u, p) THEN [c[p] EXCEPT !.expires = c[p].lease]
               ELSE NewPointClaim(u, TTL, TTL)
  IN /\ job[u].pc = "report"
     /\ IF c[p] # NoClaim /\ ~Owned(c, u, p)
          THEN claims' = c /\ UNCHANGED <<succ, hist, evid, cool, said, cache>>
          ELSE /\ claims' = [c EXCEPT ![p] = [claim EXCEPT !.until = 0]]
               /\ succ' = [succ EXCEPT ![p] = claim.reuse]
               /\ hist' = [hist EXCEPT ![p] = [status |-> "success", never |-> FALSE]]
               /\ evid' = [evid EXCEPT ![p] = NoEvidence]
               /\ cool' = [cool EXCEPT ![p] = 0]
               /\ said' = [said EXCEPT ![p] = {}]
               /\ MaySaveCache
     /\ Put(u, Idle)
     /\ UNCHANGED <<packed, cursor, stall, file>>

\* An ambiguous refusal at a second, distant point for the same reason: the
\* session is to blame, both observations are dropped and the loop ends.
SessionFailure(u) ==
  /\ job[u].pc = "try" /\ job[u].fail # None
  /\ ~PositionsConflict(job[u].fail, job[u].pos)
  /\ Forget(u, job[u].fail, job[u].why)
  /\ claims' = Discard(Discard(claims, u, job[u].fail), u, job[u].pos)
  /\ Put(u, [job[u] EXCEPT !.pc = "cleanup", !.pos = None, !.fail = None, !.why = "none"])
  /\ UNCHANGED <<succ, hist, packed, cursor, stall, file, cache>>

\* An ambiguous refusal that is not the session's: the earlier one is released,
\* this one is kept, with its claim, until the next try tells.
AmbiguousFailure(u) ==
  /\ job[u].pc = "try"
  /\ \E r \in Ambiguous \cap Answers :
       /\ job[u].fail # None /\ job[u].why = r => PositionsConflict(job[u].fail, job[u].pos)
       /\ Remember(Discard(claims, u, job[u].fail), u, job[u].pos, r)
       /\ Put(u, [job[u] EXCEPT !.pc = "next", !.pos = None, !.fail = job[u].pos, !.why = r])
  /\ claims' = Discard(claims, u, job[u].fail)
  /\ UNCHANGED <<succ, hist, packed, cursor, stall, file, cache>>

\* markRestrictiveZoneLocked on top of the refused point's own record.
Restricted(p) ==
  [q \in Points |->
     IF q = p THEN [status |-> IF hist[p].status = "success" THEN "success" ELSE "failed", never |-> TRUE]
     ELSE IF InZone(q, p) /\ hist[q].status # "success" THEN [status |-> "failed", never |-> TRUE]
     ELSE hist[q]]

\* Report(uid, pos, false, 0x52), after the earlier failure is released.
ZoneFailure(u) ==
  LET p == job[u].pos
      c == ClearExpiredClaims(Discard(claims, u, job[u].fail))
  IN /\ job[u].pc = "try" /\ "zone" \in Answers
     /\ claims' = Discard(c, u, p)
     /\ IF c[p] # NoClaim /\ ~Owned(c, u, p)
          THEN UNCHANGED <<succ, hist, packed, evid, cool, said, cache>>
          ELSE /\ succ' = IF Owned(c, u, p) THEN [succ EXCEPT ![p] = 0] ELSE succ
               /\ hist' = Restricted(p)
               /\ packed' = PackedSet(hist')
               /\ evid' = [evid EXCEPT ![p] = NoEvidence]
               /\ cool' = [cool EXCEPT ![p] = 0]
               /\ said' = [said EXCEPT ![p] = {}]
               /\ MaySaveCache
     /\ Put(u, [job[u] EXCEPT !.pc = "next", !.pos = None, !.fail = None, !.why = "none"])
     /\ UNCHANGED <<cursor, stall, file>>

\* Any other failure says nothing about the point.  The item loop ends; the
\* disjoint one goes on after set_area_failed and ack_timeout.
OtherFailure(u) ==
  /\ job[u].pc = "try" /\ "other" \in Answers
  /\ claims' = Discard(ClearExpiredClaims(Discard(claims, u, job[u].fail)), u, job[u].pos)
  /\ \E pc \in {"cleanup"} \cup (IF job[u].kind = "disjoint" THEN {"next"} ELSE {}) :
       Put(u, [job[u] EXCEPT !.pc = pc, !.pos = None, !.fail = None, !.why = "none"])
  /\ UNCHANGED <<succ, hist, packed, evid, cool, cursor, stall, file, cache, said>>

\* shouldStop before or during a try: nothing is learned.
Cancelled(u) ==
  /\ job[u].pc \in {"try", "next"}
  /\ ForgetFailure(u)
  /\ claims' = Discard(Discard(claims, u, job[u].fail), u, job[u].pos)
  /\ Put(u, [job[u] EXCEPT !.pc = "cleanup", !.pos = None, !.fail = None, !.why = "none"])
  /\ UNCHANGED <<succ, hist, packed, cursor, stall>>
  /\ Flush \/ UNCHANGED <<file, cache>>

\* CommitAttemptFailure, Flush and, if the robot can be taken off line,
\* FinishStoreState with ReleaseUID.
Cleanup(u) ==
  LET c == Discard(claims, u, job[u].fail)
  IN /\ job[u].pc = "cleanup"
     /\ \E released \in BOOLEAN :
          /\ claims' = IF released THEN ReleasedClaims(c, u) ELSE c
          /\ succ' = IF released THEN ReleasedSucc(c, succ, u) ELSE succ
     /\ Put(u, Idle)
     /\ UNCHANGED <<hist, packed, evid, cool, cursor, stall, said>>
     /\ file' = succ /\ cache' = hist

-----------------------------------------------------------------------------
(* Stores end, time passes, the process restarts *)

\* ExpireStore, logout or release: FinishStoreState with ReleaseUID.
StoreEnds(u) ==
  /\ ~Running(u) /\ stall[u] # None
  /\ stall' = [stall EXCEPT ![u] = None]
  /\ claims' = ReleasedClaims(claims, u)
  /\ succ' = ReleasedSucc(claims, succ, u)
  /\ UNCHANGED <<hist, packed, evid, cool, cursor, job, file, cache, said>>

\* The connection drops: the server removes the store, nobody tells the coordinator.
StoreLost(u) ==
  /\ ~Running(u) /\ stall[u] # None
  /\ stall' = [stall EXCEPT ![u] = None]
  /\ UNCHANGED <<claims, succ, hist, packed, evid, cool, cursor, job, file, cache, said>>

\* The delayed writer (its protocol is module ActiveSave).
SaveActive ==
  /\ file # succ /\ file' = succ
  /\ UNCHANGED <<claims, succ, hist, packed, evid, cool, cursor, job, stall, cache, said>>

Less(n) == IF n > 0 THEN n - 1 ELSE 0
Older(n) == IF n >= 0 THEN n - 1 ELSE -1

\* An attempt's steps have timeouts of their own, but nothing renews the lease.
Fits == \A u \in Uids : \A p \in InHand(u) : claims[p].until > 1

Tick ==
  /\ AttemptsFit => Fits
  /\ claims' = [p \in Points |-> [claims[p] EXCEPT !.expires = Older(@), !.until = Less(@)]]
  /\ succ' = [p \in Points |-> Less(succ[p])]
  /\ file' = [p \in Points |-> Less(file[p])]
  /\ cool' = [p \in Points |-> Less(cool[p])]
  /\ evid' = [p \in Points |-> [r \in Ambiguous |-> [u \in Uids |-> Older(evid[p][r][u])]]]
  /\ UNCHANGED <<hist, packed, cursor, job, stall, cache, said>>

\* The process dies and comes back: load restores the cache and the active
\* file; claims, evidence and attempts are gone, and so are the sessions.
Restart ==
  /\ claims' = [p \in Points |-> NoClaim]
  /\ succ' = file
  /\ hist' = cache
  /\ packed' = PackedSet(cache)
  /\ evid' = [p \in Points |-> NoEvidence]
  /\ cool' = [p \in Points |-> 0]
  /\ cursor' = 1
  /\ job' = [u \in Uids |-> Idle]
  /\ stall' = [u \in Uids |-> None]
  /\ said' = [p \in Points |-> {}]
  /\ UNCHANGED <<file, cache>>

-----------------------------------------------------------------------------
Init ==
  /\ claims = [p \in Points |-> NoClaim]
  /\ succ = [p \in Points |-> 0]
  /\ hist = [p \in Points |-> [status |-> IF p \in OldFailed THEN "failed" ELSE "unknown", never |-> FALSE]]
  /\ packed = PackedSet(hist)
  /\ evid = [p \in Points |-> NoEvidence]
  /\ cool = [p \in Points |-> 0]
  /\ cursor = 1
  /\ job = [u \in Uids |-> Idle]
  /\ stall = [u \in Uids |-> None]
  /\ file = succ
  /\ cache = hist
  /\ said = [p \in Points |-> {}]

Attempt(u) ==
  \/ BeginItem(u) \/ Prepared(u) \/ PrepareFailed(u) \/ BeginDisjoint(u)
  \/ NextTry(u) \/ Displayed(u) \/ ReportSuccess(u)
  \/ SessionFailure(u) \/ AmbiguousFailure(u) \/ ZoneFailure(u) \/ OtherFailure(u)
  \/ Cancelled(u) \/ Cleanup(u)

Next ==
  \/ \E u \in Uids : Attempt(u) \/ StoreEnds(u) \/ StoreLost(u)
  \/ SaveActive \/ Tick \/ Restart

Spec == Init /\ [][Next]_vars

-----------------------------------------------------------------------------
(* Properties *)

Claims == [uid : Uids \cup {"none"}, expires : -1 .. Lease, until : 0 .. Lease,
           lease : {0, TTL, Lease}, reuse : Reuse \cup {0, TTL}]
Records == [status : Statuses, never : BOOLEAN]
Jobs == [pc : {"idle", "prepare", "next", "try", "report", "cleanup"},
         kind : Kinds \cup {"none"}, pos : Points \cup {None}, fail : Points \cup {None},
         why : Ambiguous \cup {"none"}, tries : 0 .. MaxTries]

\* The types of the coordinator's state, of its two files and of the attempts.
TypeOK ==
  /\ claims \in [Points -> Claims]
  /\ succ \in [Points -> Nat] /\ file \in [Points -> Nat]
  /\ hist \in [Points -> Records] /\ cache \in [Points -> Records]
  /\ packed \in SUBSET Points
  /\ evid \in [Points -> [Ambiguous -> [Uids -> -1 .. Window]]]
  /\ cool \in [Points -> Nat]
  /\ cursor \in Nat
  /\ job \in [Uids -> Jobs]
  /\ stall \in [Uids -> Points \cup {None}]
  /\ said \in [Points -> SUBSET (Uids \X Ambiguous)]

\* Two points that block others, by a claim or by a displayed store, never
\* collide: what claim is for, across attempts, releases, expiry and restarts
\* from the active file.
Apart ==
  \A p, q \in Points :
    p # q /\ Live(claims, succ, p) /\ Live(claims, succ, q) => ~PositionsConflict(p, q)

\* A claim that still waits for its result belongs to an attempt that has the
\* point in hand: no exit of the two attempt loops leaks one.
NoLeakedClaim ==
  \A p \in Points : claims[p].until > 0 => claims[p].uid \in Uids /\ p \in InHand(claims[p].uid)

\* A point is put aside only while the observations of enough robots stand; an
\* observation that turned out to be the session's fault is not one of them.
EvidenceStands ==
  \A p \in Points : cool[p] > 0 =>
    \E r \in Ambiguous : Cardinality({u \in Uids : <<u, r>> \in said[p]}) >= EvidenceLimit

\* What the coordinator is for: as long as attempts end within their leases, points
\* that block others never collide, every exit of the two attempt loops
\* (AutoUntilSuccess, autoDisjointStore) gives its claims back or turns them into a
\* displayed store's, and a point is put aside only on observations that stand.
PointsSafe == Apart /\ NoLeakedClaim /\ EvidenceStands

\* A robot whose claim ran out cannot take the point away from the robot that
\* has it now: apart from time and restarts, a point that blocks others is
\* changed only by a step of the robot that claimed it.
Untouched ==
  \A p \in Points, u \in Uids :
    claims[p].uid = u /\ Live(claims, succ, p) /\ (claims'[p] # claims[p] \/ succ'[p] # succ[p])
      => job'[u] # job[u] \/ stall'[u] # stall[u]

=============================================================================
