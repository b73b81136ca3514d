------------------------------ MODULE RobotData ------------------------------
(***************************************************************************)
(* The rows of robots in the game's database: how they are created, cleaned*)
(* up and deleted (robotlifecycle.Creator and Cleaner, the SQL repository, *)
(* RobotManager's structural operations) while actors and store workflows  *)
(* write rows of their own and players create accounts and characters.     *)
(*                                                                         *)
(* `admin' is the structural operation in progress (mutationMu held for    *)
(* writing), `sup' the supervisor's cleanup of one broken uid, which takes *)
(* no lock and only starts in a tick whose guard saw no structural         *)
(* operation.  A row is reduced to what the classification of cleanup      *)
(* candidates reads.  The process may crash; the database stays.           *)
(***************************************************************************)
EXTENDS Integers, SequencesExt

CONSTANTS Uid,          \* the robot segment, robot_uid_start..robot_uid_end
          Cid,          \* character numbers, from 1
          MaxBatch,     \* robots of one create request
          MaxOps,       \* operations started
          MaxPlayers,   \* accounts and characters made by players
          MaxFaults,    \* failing statements and crashes
          Kinds         \* operations that are requested

VARIABLES db,           \* acc, ch, reg, dummy, v4, view, stall, premium
          batch,        \* robot_create_batch rows in state 'running'
          admin, sup,   \* operations in progress
          pending,      \* cleanupPendingUIDs
          live, busy,   \* actors' uids; autoStoreBusy: uid -> who runs the store
          tick,         \* a supervisor tick is past handleAutoGuards
          used,         \* what of the bounds is used up
          late,         \* ids that players got after an operation had chosen them
          slipped,      \* uids at work while they were deleted
          hurt          \* uids that a create and a broken cleanup chose together, or
                        \* whose character alone was deleted

vars == <<db, batch, admin, sup, pending, live, busy, tick, used, late, slipped, hurt>>

Player == 0 - 1
Nobody == [kind |-> "none", pc |-> "idle", uids |-> <<>>, cids |-> <<>>, i |-> 0,
           full |-> {}, fullCids |-> {}, meta |-> {}, wait |-> {}]

Bounded(what) == used[what] > 0 /\ used' = [used EXCEPT ![what] = @ - 1]
SetOf(s) == {s[i] : i \in DOMAIN s}
BatchUids == UNION {SetOf(batch[i].uids) : i \in DOMAIN batch}
BatchCids == UNION {SetOf(batch[i].cids) : i \in DOMAIN batch}

Init ==
    /\ db = [acc |-> [u \in Uid |-> "none"], ch |-> [c \in Cid |-> 0],
             reg |-> [u \in Uid |-> 0], dummy |-> [u \in Uid |-> 0],
             v4 |-> {}, view |-> {}, stall |-> {}, premium |-> {}]
    /\ batch = <<>> /\ admin = Nobody /\ sup = Nobody
    /\ pending = {} /\ live = {} /\ busy = [u \in Uid |-> "no"] /\ tick = FALSE
    /\ used = [ops |-> MaxOps, players |-> MaxPlayers, faults |-> MaxFaults]
    /\ late = [u |-> {}, c |-> {}] /\ slipped = {} /\ hurt = {}

-----------------------------------------------------------------------------
\* What the statements do.

Owned(u) == {c \in Cid : db.ch[c] = u}
Exists(c) == c \in Cid /\ db.ch[c] # 0

\* AvailableRobotUIDs: a uid that appears in none of robotUIDSources.
Free == {u \in Uid : /\ db.acc[u] = "none" /\ Owned(u) = {}
                     /\ db.reg[u] = 0 /\ db.dummy[u] = 0
                     /\ u \notin db.v4 \cup db.view \cup db.stall \cup db.premium}
NextCid == 1 + Max({c \in Cid : Exists(c)} \cup {0})

\* Mutant: accounts is missing in cleanupUIDTables.
DeleteDataKeepsAccount(U, C) ==
    [db EXCEPT !.reg = [u \in Uid |-> IF u \in U THEN 0 ELSE @[u]],
               !.dummy = [u \in Uid |-> IF u \in U THEN 0 ELSE @[u]],
               !.v4 = @ \ U, !.view = @ \ U, !.stall = @ \ U, !.premium = @ \ U,
               !.ch = [c \in Cid |-> IF c \in C THEN 0 ELSE @[c]]]

\* BatchDeleteRobotData: one transaction over the uid and the cid tables.  No
\* table is asked whose row it is.
DeleteData(U, C) ==
    [db EXCEPT !.acc = [u \in Uid |-> IF u \in U THEN "none" ELSE @[u]],
               !.reg = [u \in Uid |-> IF u \in U THEN 0 ELSE @[u]],
               !.dummy = [u \in Uid |-> IF u \in U THEN 0 ELSE @[u]],
               !.v4 = @ \ U, !.view = @ \ U, !.stall = @ \ U, !.premium = @ \ U,
               !.ch = [c \in Cid |-> IF c \in C THEN 0 ELSE @[c]]]

\* BatchDeleteRobotMetadata: only the robot service's own tables.
DeleteMetadata(U) ==
    [db EXCEPT !.reg = [u \in Uid |-> IF u \in U THEN 0 ELSE @[u]],
               !.dummy = [u \in Uid |-> IF u \in U THEN 0 ELSE @[u]],
               !.v4 = @ \ U, !.stall = @ \ U]

\* DeleteCharacterAtomic: the character, the metadata of a registered robot, and
\* the character list built anew, in one transaction.
DeleteCharacter(c, M) ==
    [DeleteMetadata(M) EXCEPT !.ch[c] = 0,
                              !.view = IF db.ch[c] \in Uid THEN @ \cup {db.ch[c]} ELSE @]

-----------------------------------------------------------------------------
\* Candidates of a cleanup, each "full" (with the cid that goes with it),
\* "meta" or "protected".

Candidate(class, c) == [class |-> class, cid |-> c]

\* classifyRegisteredCleanupCandidate and classifyLegacyDummyCleanupCandidate,
\* for the cid of the registry or of Dummylist.
WithCid(u, c) ==
    LET owned == Cardinality(Owned(u)) IN
    CASE db.acc[u] = "other" -> Candidate("protected", 0)
      [] db.acc[u] = "none" -> Candidate(IF Exists(c) \/ owned > 0 THEN "protected" ELSE "meta", 0)
      [] OTHER -> IF \/ Exists(c) /\ db.ch[c] # u
                     \/ ~Exists(c) /\ owned > 0
                     \/ owned > 1
                  THEN Candidate("protected", 0) ELSE Candidate("full", c)

\* Mutant: whose account it is is not asked.
WithoutCidAnyAccount(u) ==
    CASE Owned(u) # {} -> Candidate("protected", 0)
      [] db.acc[u] = "none" -> Candidate("meta", 0)
      [] OTHER -> Candidate("full", 0)

\* classifyLegacyV4CleanupCandidate and classifyUnregisteredCleanupCandidate.
WithoutCid(u) ==
    CASE db.acc[u] = "other" \/ Owned(u) # {} -> Candidate("protected", 0)
      [] db.acc[u] = "none" -> Candidate("meta", 0)
      [] OTHER -> Candidate("full", 0)

\* orphanCharacViewCandidates
OrphanView(u) == u \in db.view /\ db.acc[u] = "none" /\ Owned(u) = {}

\* orphanStorePermissionCandidates, for requests by range.
OrphanStore(u) == u \in db.stall \cup db.premium

\* CleanupCandidates: every source in turn, each uid once.
CandidateOf(u, broken, range) ==
    CASE db.reg[u] # 0 -> WithCid(u, db.reg[u])
      [] db.dummy[u] # 0 -> WithCid(u, db.dummy[u])
      [] u \in db.v4 -> WithoutCid(u)
      [] OrphanView(u) -> Candidate("full", 0)
      [] broken \/ (range /\ OrphanStore(u)) -> WithoutCid(u)
      [] OTHER -> Candidate("none", 0)

\* Cleaner.Cleanup up to PrepareDelete: what will be deleted is decided here.
Chosen(kind, U, broken, range) ==
    LET of == [u \in U |-> CandidateOf(u, broken, range)]
        full == {u \in U : of[u].class = "full"}
        meta == {u \in U : of[u].class = "meta"}
    IN [Nobody EXCEPT !.kind = kind, !.pc = IF full \cup meta = {} THEN "idle" ELSE "stop",
                      !.full = full, !.meta = meta, !.wait = full \cup meta,
                      !.fullCids = {of[u].cid : u \in full} \ {0}]

-----------------------------------------------------------------------------
\* Structural operations.  beginTrackedStructuralOperation takes mutationMu,
\* which the stores command holds for reading while its workflows run.

Requested(kind) ==
    /\ kind \in Kinds /\ admin.kind = "none"
    /\ \A u \in Uid : busy[u] # "manual"
    /\ Bounded("ops")

Idle(op) == IF op.pc = "idle" THEN Nobody ELSE op

CreateRobots(n) ==
    /\ Requested("create")
    /\ admin' = [Nobody EXCEPT !.kind = "create", !.pc = "recover", !.i = n]
    /\ UNCHANGED <<db, batch, sup, pending, live, busy, tick, late, slipped, hurt>>

\* RecoverIncompleteCreateBatches, RollbackCreateBatch: the rows first, the
\* batch's state afterwards.  The actors of the batch's robots are not stopped.
Rollback(b, next) ==
    /\ admin' = [admin EXCEPT !.pc = next]
    /\ db' = DeleteData(SetOf(b.uids), SetOf(b.cids))
    /\ slipped' = slipped \cup {u \in SetOf(b.uids) : u \in live \/ busy[u] # "no"}
    /\ UNCHANGED <<batch, sup, pending, live, busy, tick, used, late, hurt>>

Recover ==
    /\ admin.pc = "recover" /\ batch # <<>>
    /\ Rollback(Head(batch), "recovered")

MarkRolledBack ==
    /\ admin.pc \in {"recovered", "rolledback"}
    /\ admin' = IF admin.pc = "recovered" THEN [admin EXCEPT !.pc = "recover"] ELSE Nobody
    /\ batch' = IF admin.pc = "recovered" THEN Tail(batch) ELSE Front(batch)
    /\ UNCHANGED <<db, sup, pending, live, busy, tick, used, late, slipped, hurt>>

\* AllocateRobotIDs: the first free uids of the segment, the numbers after the
\* last character.
Allocate ==
    /\ admin.pc = "recover" /\ batch = <<>>
    /\ IF Cardinality(Free) < admin.i THEN admin' = Nobody
       ELSE LET uids == SubSeq(SetToSortSeq(Free, <), 1, admin.i)
                cids == [k \in 1..admin.i |-> NextCid + k - 1]
            IN /\ SetOf(cids) \subseteq Cid
               /\ admin' = [admin EXCEPT !.pc = "begin", !.uids = uids, !.cids = cids, !.i = 1]
    /\ hurt' = hurt \cup (SetOf(admin'.uids) \cap sup.wait)
    /\ UNCHANGED <<db, batch, sup, pending, live, busy, tick, used, late, slipped>>

BeginCreateBatch ==
    /\ admin.pc = "begin"
    /\ admin' = [admin EXCEPT !.pc = "account"]
    /\ batch' = Append(batch, [uids |-> admin.uids, cids |-> admin.cids])
    /\ UNCHANGED <<db, sup, pending, live, busy, tick, used, late, slipped, hurt>>

\* createRobot: statements on their own, the registry last.  EnsureAccount
\* ignores an account that is there and then looks whose it is.
Step(pc, next, row) ==
    /\ admin.pc = pc
    /\ admin' = [admin EXCEPT !.pc = next]
    /\ db' = row
    /\ UNCHANGED <<batch, sup, pending, live, busy, tick, used, late, slipped, hurt>>

U0 == admin.uids[admin.i]
C0 == admin.cids[admin.i]

EnsureAccount ==
    \/ Step("account", "v4", IF db.acc[U0] = "none" THEN [db EXCEPT !.acc[U0] = "own"] ELSE db)
       /\ db.acc[U0] # "other"
    \/ Step("account", "rollback", db) /\ db.acc[U0] = "other"
    \/ Step("v4", "character", [db EXCEPT !.v4 = @ \cup {U0}])

\* CreateBaseCharacter: a plain INSERT, which fails if the number is taken.
CreateBaseCharacter ==
    \/ Step("character", "view", [db EXCEPT !.ch[C0] = U0]) /\ db.ch[C0] = 0
    \/ Step("character", "rollback", db) /\ db.ch[C0] # 0

RebuildCharacView == Step("view", "dummy", [db EXCEPT !.view = @ \cup {U0}])
UpsertDummy == Step("dummy", "register", [db EXCEPT !.dummy[U0] = C0])

RegisterRobot ==
    /\ admin.pc = "register"
    /\ db' = [db EXCEPT !.reg[U0] = C0]
    /\ admin' = IF admin.i < Len(admin.uids) THEN [admin EXCEPT !.pc = "account", !.i = @ + 1]
                ELSE [admin EXCEPT !.pc = "complete"]
    /\ UNCHANGED <<batch, sup, pending, live, busy, tick, used, late, slipped, hurt>>

CompleteCreateBatch ==
    /\ admin.pc = "complete"
    /\ admin' = Nobody /\ batch' = Front(batch)
    /\ UNCHANGED <<db, sup, pending, live, busy, tick, used, late, slipped, hurt>>

RollbackCreateBatch == admin.pc = "rollback" /\ Rollback(Last(batch), "rolledback")

\* A failing statement of a create: before the batch is recorded, and in a
\* rollback, it ends the request; afterwards it starts the rollback.
CreateFails ==
    /\ admin.kind = "create"
    /\ Bounded("faults")
    /\ admin' = IF admin.pc \in {"recover", "recovered", "begin", "rollback", "rolledback"} THEN Nobody
                ELSE [admin EXCEPT !.pc = "rollback"]
    /\ UNCHANGED <<db, batch, sup, pending, live, busy, tick, late, slipped, hurt>>

-----------------------------------------------------------------------------
\* Cleanups and deletions share their second half, told apart by `op'.

CleanupRobots(U, range) ==
    /\ Requested("cleanup")
    /\ admin' = Idle(Chosen("cleanup", U, FALSE, range))
    /\ UNCHANGED <<db, batch, sup, pending, live, busy, tick, late, slipped, hurt>>

\* cleanupBrokenUID, from a tick and for a uid that no actor has.
CleanupBroken(u) ==
    /\ "broken" \in Kinds /\ sup.kind = "none" /\ tick /\ u \notin live
    /\ Bounded("ops")
    /\ sup' = Idle(Chosen("broken", {u}, TRUE, FALSE))
    /\ hurt' = hurt \cup (SetOf(admin.uids) \cap sup'.wait)
    /\ UNCHANGED <<db, batch, admin, pending, live, busy, tick, late, slipped>>

\* DangerousDeletePlan of a character, and of one uid or a range of them.
DangerousCharacter(c) ==
    /\ Requested("character") /\ Exists(c)
    /\ LET regs == {u \in Uid : u = db.ch[c] /\ db.reg[u] = c} IN
       admin' = [Nobody EXCEPT !.kind = "character", !.pc = IF regs = {} THEN "full" ELSE "stop",
                               !.cids = <<c>>, !.meta = regs, !.wait = regs]
    /\ UNCHANGED <<db, batch, sup, pending, live, busy, tick, late, slipped, hurt>>

DangerousUids(U) ==
    /\ Requested("uids")
    /\ LET regs == {u \in U : db.reg[u] # 0} IN
       admin' = [Nobody EXCEPT !.kind = "uids", !.pc = IF regs = {} THEN "full" ELSE "stop",
                               !.full = U, !.fullCids = UNION {Owned(u) : u \in U}, !.wait = regs]
    /\ UNCHANGED <<db, batch, sup, pending, live, busy, tick, late, slipped, hurt>>

\* PrepareDelete: StopUIDs drains the actors, and the caller waits until none of
\* them and no store workflow is left, or for 30 seconds.
Stop(op) == op.pc = "stop" /\ pending' = pending \cup op.wait

\* Mutant: only the actors are waited for.
QuietActors(op) == op.wait \cap live = {}

Quiet(op) == op.wait \cap live = {} /\ \A u \in op.wait : busy[u] = "no"

Waited(op) ==
    /\ op.pc = "wait" /\ Quiet(op)
    /\ UNCHANGED slipped

TimedOut(op) ==
    /\ op.pc = "wait" /\ ~Quiet(op)
    /\ slipped' = slipped \cup op.wait

Prepare(op, move(_)) ==
    \/ Stop(op) /\ move("wait") /\ UNCHANGED slipped
    \/ (Waited(op) \/ TimedOut(op)) /\ move("meta") /\ UNCHANGED pending

\* Metadata first, then the full delete; the finish function clears the marks.
Deleted(op) == IF op.kind = "character" THEN DeleteCharacter(op.cids[1], op.meta)
               ELSE DeleteData(op.full, op.fullCids)

Delete(op, move(_)) ==
    \/ /\ op.pc = "meta" /\ move("full")
       /\ db' = IF op.kind = "character" THEN db ELSE DeleteMetadata(op.meta)
       /\ UNCHANGED <<pending, slipped, hurt>>
    \/ /\ op.pc = "full" /\ move("finish")
       /\ db' = Deleted(op)
       /\ hurt' = hurt \cup (IF op.kind = "character" THEN {db.ch[op.cids[1]]} \cap Uid ELSE {})
       /\ slipped' = slipped \cup {u \in op.full \ op.wait : u \in live \/ busy[u] # "no"}
       /\ UNCHANGED pending
    \/ /\ op.pc = "finish" /\ move("idle")
       /\ pending' = pending \ op.wait
       /\ UNCHANGED <<db, slipped, hurt>>

Move(op, pc) == Idle([op EXCEPT !.pc = pc])
AdminTo(pc) == admin' = Move(admin, pc) /\ UNCHANGED sup
SupTo(pc) == sup' = Move(sup, pc) /\ UNCHANGED admin

AdminPrepares == Prepare(admin, AdminTo) /\ UNCHANGED <<db, batch, live, busy, tick, used, late, hurt>>
SupPrepares == Prepare(sup, SupTo) /\ UNCHANGED <<db, batch, live, busy, tick, used, late, hurt>>
AdminDeletes == Delete(admin, AdminTo) /\ UNCHANGED <<batch, live, busy, tick, used, late>>
SupDeletes == Delete(sup, SupTo) /\ UNCHANGED <<batch, live, busy, tick, used, late>>

\* A delete transaction fails: the candidates are reported as protected, and the
\* cleanup goes on.
DeleteFails ==
    /\ Bounded("faults")
    /\ \/ admin.pc = "meta" /\ AdminTo("full")
       \/ admin.pc = "full" /\ AdminTo("finish")
       \/ sup.pc = "meta" /\ SupTo("full")
       \/ sup.pc = "full" /\ SupTo("finish")
    /\ UNCHANGED <<db, batch, pending, live, busy, tick, late, slipped, hurt>>

-----------------------------------------------------------------------------
\* Actors and stores.  handleAutoGuards reads the structural operation once per
\* tick; candidates are registered robots.

TickBegins ==
    /\ ~tick /\ admin.kind = "none" /\ tick' = TRUE
    /\ UNCHANGED <<db, batch, admin, sup, pending, live, busy, used, late, slipped, hurt>>

TickEnds ==
    /\ tick /\ sup.kind = "none" /\ tick' = FALSE
    /\ UNCHANGED <<db, batch, admin, sup, pending, live, busy, used, late, slipped, hurt>>

\* Nothing but restoreAutoNormalOnline looks at cleanupPendingUIDs.
Starts(u) == slipped' = slipped \cup ({u} \cap (pending \cup admin.wait \cup sup.wait))

Attach(u) ==
    /\ tick /\ sup.kind = "none" /\ db.reg[u] # 0 /\ u \notin live
    /\ live' = live \cup {u} /\ Starts(u)
    /\ UNCHANGED <<db, batch, admin, sup, pending, busy, tick, used, late, hurt>>

ActorExits(u) ==
    /\ u \in live /\ live' = live \ {u}
    /\ UNCHANGED <<db, batch, admin, sup, pending, busy, tick, used, late, slipped, hurt>>

\* beginStoreBusy, by an actor and by the stores command (mutationMu for reading).
BeginStoreBusy(u) ==
    /\ busy[u] = "no" /\ Starts(u)
    /\ \/ u \in live /\ busy' = [busy EXCEPT ![u] = "actor"]
       \/ admin.kind = "none" /\ db.reg[u] # 0 /\ busy' = [busy EXCEPT ![u] = "manual"]
    /\ UNCHANGED <<db, batch, admin, sup, pending, live, tick, used, late, hurt>>

\* EnsureStorePermission asks for no row of the robot; the stall needs the
\* character's inventory.
EnsureStorePermission(u) == [db EXCEPT !.premium = @ \cup {u}]

EnsureInventoryAndStall(u) ==
    /\ busy[u] # "no"
    /\ db' = [EnsureStorePermission(u) EXCEPT !.stall = IF Owned(u) # {} THEN @ \cup {u} ELSE @]
    /\ UNCHANGED <<batch, admin, sup, pending, live, busy, tick, used, late, slipped, hurt>>

\* EndStoreBusy, before it RevokeStorePermission or nothing.
EndStoreBusy(u) ==
    /\ busy[u] # "no" /\ busy' = [busy EXCEPT ![u] = "no"]
    /\ db' \in {db, [db EXCEPT !.premium = @ \ {u}, !.stall = @ \ {u}]}
    /\ UNCHANGED <<batch, admin, sup, pending, live, tick, used, late, slipped, hurt>>

-----------------------------------------------------------------------------
\* Players.  The game numbers a new character after the last one.

ChosenUids == BatchUids \cup SetOf(admin.uids) \cup admin.full \cup sup.full
ChosenCids == BatchCids \cup SetOf(admin.cids) \cup admin.fullCids \cup sup.fullCids

PlayerCharacter ==
    /\ NextCid \in Cid /\ Bounded("players")
    /\ db' = [db EXCEPT !.ch[NextCid] = Player]
    /\ late' = [late EXCEPT !.c = IF NextCid \in ChosenCids THEN @ \cup {NextCid} ELSE @ \ {NextCid}]
    /\ UNCHANGED <<batch, admin, sup, pending, live, busy, tick, slipped, hurt>>

PlayerAccount(u) ==
    /\ db.acc[u] = "none" /\ Bounded("players")
    /\ db' = [db EXCEPT !.acc[u] = "other"]
    /\ late' = [late EXCEPT !.u = IF u \in ChosenUids THEN @ \cup {u} ELSE @ \ {u}]
    /\ UNCHANGED <<batch, admin, sup, pending, live, busy, tick, slipped, hurt>>

\* The process ends, in the middle of anything; its memory is gone.
Crash ==
    /\ Bounded("faults")
    /\ admin' = Nobody /\ sup' = Nobody /\ pending' = {} /\ tick' = FALSE
    /\ live' = {} /\ busy' = [u \in Uid |-> "no"]
    /\ UNCHANGED <<db, batch, late, slipped, hurt>>

Next ==
    \/ \E n \in 1..MaxBatch : CreateRobots(n)
    \/ Recover \/ MarkRolledBack \/ Allocate \/ BeginCreateBatch
    \/ EnsureAccount \/ CreateBaseCharacter \/ RebuildCharacView \/ UpsertDummy \/ RegisterRobot
    \/ CompleteCreateBatch \/ RollbackCreateBatch \/ CreateFails
    \/ \E U \in SUBSET Uid \ {{}} : CleanupRobots(U, TRUE) \/ CleanupRobots(U, FALSE)
    \/ \E u \in Uid : CleanupBroken(u)
    \/ \E c \in Cid : DangerousCharacter(c)
    \/ \E U \in SUBSET Uid \ {{}} : DangerousUids(U)
    \/ AdminPrepares \/ SupPrepares \/ AdminDeletes \/ SupDeletes \/ DeleteFails
    \/ TickBegins \/ TickEnds
    \/ \E u \in Uid : Attach(u) \/ ActorExits(u) \/ BeginStoreBusy(u)
                      \/ EnsureInventoryAndStall(u) \/ EndStoreBusy(u)
    \/ PlayerCharacter \/ \E u \in Uid : PlayerAccount(u)
    \/ Crash

Spec == Init /\ [][Next]_vars

-----------------------------------------------------------------------------
Whole(u) ==
    LET c == db.reg[u] IN
    /\ c # 0 /\ db.dummy[u] = c /\ db.ch[c] = u
    /\ u \in db.v4 /\ u \in db.view

\* A robot account is whole, or a create that has not ended in the database
\* will take it away: no interrupted or failed creation leaves half a robot
\* behind unnoticed.
WholeOrRunning == \A u \in Uid : db.acc[u] = "own" => Whole(u) \/ u \in BatchUids \cup hurt

\* Creation, its rollback and cleanup take an account or a character away from
\* a player only if the player got the number after it had been chosen.
PlayersUntouched ==
    /\ \A c \in Cid : db.ch[c] = Player /\ db'.ch[c] = 0 => c \in late.c \/ admin.kind \in {"character", "uids"}
    /\ \A u \in Uid : db.acc[u] = "other" /\ db'.acc[u] = "none" =>
                         u \in late.u \/ admin.kind = "uids"

\* After a delete that saw its robots at rest, no store workflow writes rows for
\* a uid that has neither account nor registry.
GoneStaysGone ==
    \A u \in Uid : /\ db.acc[u] = "none" /\ db.reg[u] = 0
                   /\ u \in (db'.premium \ db.premium) \cup (db'.stall \ db.stall)
                   => u \in slipped
=============================================================================
