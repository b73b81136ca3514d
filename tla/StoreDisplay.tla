---------------------------- MODULE StoreDisplay ----------------------------
(***************************************************************************)
(* How a session opens a private store: the goroutine that asks for the    *)
(* inventory, creates the store and displays goods, the packets that       *)
(* answer it, and the calls that begin and end an attempt                  *)
(* (dnf.RobotVo, robot_store.go, robot_packet_store_trade.go, and          *)
(* dnfruntime/store.go).  Also the disjoint machine, one command.          *)
(*                                                                         *)
(* Each step holds r.mu once; an opener waits, and reads the database,     *)
(* without it.  Nothing stops the opener of an attempt that was given up:  *)
(* it goes on beside the next one.  The waits may end at any time, since   *)
(* they have time-outs.  Inventories are numbered; a version is only       *)
(* compared with the one an opener took, so a snapshot is current until    *)
(* the version is raised.                                                  *)
(***************************************************************************)
EXTENDS Naturals, Sequences, FiniteSets, TLC

CONSTANTS Opener,       \* goroutines of completePrivateStore
          Items,        \* goods that may be displayed
          MaxAttempts,  \* bound on the calls that begin an attempt
          MaxInventory, \* bound on the inventories the server sends
          MaxWire,      \* bound on unanswered commands
          Env           \* "unready": the session stops or joins a party;
                        \* "disjoint"; "down": sending fails

VARIABLES v,     \* the RobotVo
          pc,    \* where each opener is
          snap,  \* the inventory an opener has read, and whether it is current
          wire,  \* commands the server has not answered
          attempts, inventories,
          disturbed  \* the session was not ready, or the attempt was ended,
                     \* since the last attempt began

vars == <<v, pc, snap, wire, attempts, inventories, disturbed>>

Closed == [sent |-> FALSE, ack |-> FALSE, rejected |-> FALSE, createRejected |-> FALSE,
           created |-> FALSE, plans |-> 0, listed |-> FALSE]

Session == [ready |-> TRUE, typ |-> "none", waiting |-> FALSE, inv |-> 0,
            machine |-> FALSE, queued |-> FALSE]

Init ==
    /\ v = Closed @@ Session
    /\ pc = [o \in Opener |-> "none"]
    /\ snap = [o \in Opener |-> [inv |-> 0, current |-> FALSE]]
    /\ wire = <<>> /\ attempts = 0 /\ inventories = 0 /\ disturbed = TRUE

\* SendMsg works, or the connection refuses.
Sends == {TRUE} \cup IF "down" \in Env THEN {FALSE} ELSE {}

Sent(command) == wire' = Append(wire, command) /\ Len(wire) < MaxWire

Bounded == UNCHANGED <<attempts, inventories>>

-----------------------------------------------------------------------------
(* Calls.                                                                  *)

\* StartPrivateStore and PreparePrivateStoreState.
StartPrivateStore ==
    /\ v.ready /\ attempts < MaxAttempts
    /\ attempts' = attempts + 1 /\ disturbed' = FALSE
    /\ v' = Closed @@ [v EXCEPT !.typ = "store"]
    /\ \E o \in Opener : pc[o] = "none" /\ pc' = [pc EXCEPT ![o] = "ask"]
    /\ UNCHANGED <<snap, wire, inventories>>

\* ResetPrivateStoreState, by the cleanup of an attempt.
ResetPrivateStore ==
    /\ v' = Closed @@ [v EXCEPT !.typ = IF @ = "store" THEN "none" ELSE @]
    /\ disturbed' = TRUE
    /\ UNCHANGED <<pc, snap, wire>> /\ Bounded

\* OpenDisjointStore, called or by runDisjointAfterLoginUnsafe.
OpenDisjointStore ==
    /\ "disjoint" \in Env /\ v.ready
    /\ v' = [v EXCEPT !.typ = "disjoint", !.machine = FALSE, !.queued = FALSE]
    /\ Sent(238) /\ disturbed' = TRUE
    /\ UNCHANGED <<pc, snap>> /\ Bounded

QueueDisjointAfterRun ==
    /\ "disjoint" \in Env /\ ~v.ready
    /\ v' = [v EXCEPT !.queued = TRUE]
    /\ UNCHANGED <<pc, snap, wire, disturbed>> /\ Bounded

-----------------------------------------------------------------------------
(* completePrivateStore.                                                   *)

Goes(o, from, to) == pc[o] = from /\ pc' = [pc EXCEPT ![o] = to]

\* GetCompleteDisplay, which leads to one place where it works and to another
\* where it does not.
AskList(o, from, done, failed) ==
    \/ ~v.ready /\ Goes(o, from, failed) /\ UNCHANGED <<v, wire>>
    \/ v.ready /\ Goes(o, from, done) /\ v' = [v EXCEPT !.waiting = TRUE] /\ Sent(20)
    \/ /\ v.ready /\ FALSE \in Sends
       /\ Goes(o, from, failed) /\ UNCHANGED wire
       /\ v' = [v EXCEPT !.waiting = FALSE, !.rejected = TRUE]

Quiet == UNCHANGED <<snap, disturbed>> /\ Bounded

Ask(o) == AskList(o, "ask", "create", "none") /\ Quiet

\* CreatePrivateStore, after the wait for the inventory.
Create(o) ==
    /\ \/ ~v.ready /\ Goes(o, "create", "none") /\ UNCHANGED <<v, wire>>
       \/ /\ v.ready /\ Goes(o, "create", "ask again")
          /\ v' = [v EXCEPT !.createRejected = FALSE, !.typ = "store"] /\ Sent(88)
       \/ /\ v.ready /\ FALSE \in Sends
          /\ Goes(o, "create", "none") /\ UNCHANGED wire
          /\ v' = [v EXCEPT !.createRejected = TRUE]
    /\ Quiet

AskAgain(o) == AskList(o, "ask again", "created", "none") /\ Quiet

\* waitStoreCreated has ended, for whatever reason.
LookCreated(o) ==
    /\ \/ ~v.ready /\ Goes(o, "created", "none")
       \/ v.ready /\ ~v.created /\ Goes(o, "created", "give up")
       \/ v.ready /\ v.created /\ Goes(o, "created", "read")
    /\ UNCHANGED <<v, wire>> /\ Quiet

\* Mutant: an attempt whose store was not created ends as it is.
MarkCreateFailedNot(o) == Goes(o, "give up", "none") /\ UNCHANGED <<v, wire>> /\ Quiet

\* MarkPrivateStoreCreateFailed.
MarkCreateFailed(o) ==
    /\ Goes(o, "give up", "none")
    /\ v' = [v EXCEPT !.createRejected = @ \/ ~v.created]
    /\ UNCHANGED wire /\ Quiet

\* GetDbDataAndCompleteDisplay, first part: the inventory is copied.
Read(o, from, to, failed) ==
    /\ \/ /\ v.ready /\ v.created /\ Goes(o, from, to)
          /\ snap' = [snap EXCEPT ![o] = [inv |-> v.inv, current |-> TRUE]]
       \/ ~(v.ready /\ v.created) /\ Goes(o, from, failed) /\ UNCHANGED snap
    /\ UNCHANGED <<v, wire, disturbed>> /\ Bounded

\* completeDisplay of n goods.  The first list of an attempt leaves the plans
\* for the lists after it: without the last ones, then each alone.
Plans(n) == IF n =< 1 THEN 0 ELSE 2 * n - 2

Displayed(w, n) ==
    [w EXCEPT !.plans = IF w.listed THEN @ ELSE Plans(n), !.listed = TRUE,
              !.sent = TRUE, !.ack = FALSE]

DisplayFailed(w, n) ==
    [w EXCEPT !.plans = IF w.listed THEN @ ELSE Plans(n), !.listed = TRUE, !.rejected = TRUE]

\* Second part: reconcileStoreDisplay has matched rows and inventory, or the
\* inventory that was prepared in the database; the query may fail, the match
\* be empty, the inventory have changed.
Display(o, from, done, failed) ==
    /\ \/ v.ready /\ v.created /\ snap[o].current /\ ~v.sent /\ \E n \in 1..Items :
             \/ Goes(o, from, done) /\ v' = Displayed(v, n) /\ Sent(90)
             \/ /\ FALSE \in Sends
                /\ Goes(o, from, failed) /\ v' = DisplayFailed(v, n) /\ UNCHANGED wire
       \/ Goes(o, from, failed) /\ UNCHANGED <<v, wire>>
    /\ Quiet

ReadFirst(o) == Read(o, "read", "query", "retry")
DisplayFirst(o) == Display(o, "query", "none", "retry")

\* The inventory is asked for once more unless there is one.
AskLast(o) ==
    /\ \/ ~v.waiting /\ Goes(o, "retry", "read again") /\ UNCHANGED <<v, wire>>
       \/ v.waiting /\ AskList(o, "retry", "read again", "read again")
    /\ Quiet

NotReady(o) == ~v.ready /\ Goes(o, "read again", "none") /\ UNCHANGED <<v, wire>> /\ Quiet

ReadLast(o) == v.ready /\ Read(o, "read again", "query again", "mark")
DisplayLast(o) == Display(o, "query again", "mark", "mark")

\* MarkPrivateStoreDisplayFailed.
MarkDisplayFailed(o) ==
    /\ Goes(o, "mark", "none")
    /\ v' = [v EXCEPT !.rejected = @ \/ ~(v.sent \/ v.ack)]
    /\ UNCHANGED wire /\ Quiet

-----------------------------------------------------------------------------
(* Packets of the server.                                                  *)

Stale == [o \in Opener |-> [snap[o] EXCEPT !.current = FALSE]]

\* Mutant: snapshots of an older inventory stay current.
NewInventoryQuiet ==
    /\ v' = [v EXCEPT !.inv = inventories', !.waiting = FALSE]
    /\ UNCHANGED snap

\* Type 13 with a complete list.
NewInventory ==
    /\ v' = [v EXCEPT !.inv = inventories', !.waiting = FALSE]
    /\ snap' = Stale

\* Asked for or not.  Short bodies, and empty ones while a list is awaited, are
\* passed over.
Inventory ==
    /\ inventories < MaxInventory /\ inventories' = inventories + 1
    /\ NewInventory
    /\ UNCHANGED <<pc, wire, attempts, disturbed>>

\* Type 88.
CreateAnswered(ok) ==
    IF v.typ # "store" THEN v
    ELSE IF ok THEN [v EXCEPT !.created = TRUE, !.createRejected = FALSE]
    ELSE IF v.created THEN v ELSE [v EXCEPT !.createRejected = TRUE]

\* Type 90.  Error 0x11 displays the next plan.
DisplayAnswered(ok) ==
    IF v.typ # "store" THEN v
    ELSE IF ok THEN [v EXCEPT !.ack = TRUE, !.rejected = FALSE]
    ELSE IF v.ack THEN v ELSE [v EXCEPT !.rejected = TRUE]

DisplayRetried ==
    /\ Head(wire) = 90 /\ v.typ = "store" /\ ~v.ack /\ v.plans > 0
    /\ LET w == [v EXCEPT !.sent = FALSE, !.rejected = FALSE, !.plans = @ - 1] IN
       \/ v.ready /\ v' = Displayed(w, 1) /\ wire' = Append(Tail(wire), 90)
       \/ v.ready /\ FALSE \in Sends /\ v' = [w EXCEPT !.rejected = TRUE] /\ wire' = Tail(wire)
       \/ ~v.ready /\ v' = [w EXCEPT !.rejected = TRUE] /\ wire' = Tail(wire)

\* Type 238.  A late refusal does not undo a machine that is there.
MachineAnswered(ok) == IF v.typ = "disjoint" THEN [v EXCEPT !.machine = @ \/ ok] ELSE v

\* The oldest command is answered, or never; answers to a session that is not
\* ready may still be handled while it runs in a party.
Answer ==
    /\ wire # <<>>
    /\ \/ DisplayRetried
       \/ /\ wire' = Tail(wire)
          /\ \/ UNCHANGED v
             \/ Head(wire) = 88 /\ \E ok \in BOOLEAN : v' = CreateAnswered(ok)
             \/ Head(wire) = 90 /\ \E ok \in BOOLEAN : v' = DisplayAnswered(ok)
             \/ Head(wire) = 238 /\ \E ok \in BOOLEAN : v' = MachineAnswered(ok)
    /\ UNCHANGED <<pc, snap, disturbed>> /\ Bounded

\* Type 15, goods move: taken for a display that was accepted.
GoodsMove ==
    /\ v.sent /\ v.typ = "store" /\ ~v.ack
    /\ v' = [v EXCEPT !.ack = TRUE]
    /\ UNCHANGED <<pc, snap, wire, disturbed>> /\ Bounded

\* The session stops or joins a party, and is ready again.  CopyFrom resets it.
Unready ==
    /\ "unready" \in Env /\ v.ready
    /\ v' = [v EXCEPT !.ready = FALSE] /\ disturbed' = TRUE
    /\ UNCHANGED <<pc, snap, wire>> /\ Bounded

Ready ==
    /\ ~v.ready
    /\ \/ v' = [v EXCEPT !.ready = TRUE] /\ UNCHANGED <<snap, wire>>
       \/ /\ v' = Closed @@ [v EXCEPT !.ready = TRUE, !.waiting = FALSE, !.machine = FALSE]
          /\ snap' = Stale /\ wire' = <<>>
    /\ UNCHANGED <<pc, disturbed>> /\ Bounded

Open(o) ==
    \/ Ask(o) \/ Create(o) \/ AskAgain(o) \/ LookCreated(o) \/ MarkCreateFailed(o)
    \/ ReadFirst(o) \/ DisplayFirst(o) \/ AskLast(o) \/ NotReady(o)
    \/ ReadLast(o) \/ DisplayLast(o) \/ MarkDisplayFailed(o)

Next ==
    \/ StartPrivateStore \/ ResetPrivateStore \/ OpenDisjointStore \/ QueueDisjointAfterRun
    \/ \E o \in Opener : Open(o)
    \/ Inventory \/ Answer \/ GoodsMove \/ Unready \/ Ready

Spec == Init /\ [][Next]_vars

-----------------------------------------------------------------------------
(* Properties.                                                             *)

\* A display names slots of the inventory the session has at that time: what
\* the opener read before it asked the database is not used after the server
\* has sent another inventory.
DisplayFromCurrent ==
    \A o \in Opener :
      pc[o] \in {"query", "query again"} /\ ~v.sent /\ v'.sent /\ pc'[o] # pc[o]
      => snap[o].inv = v.inv

Over == \A o \in Opener : pc[o] = "none"

\* The last opener to end leaves a verdict the workflow will find, unless the
\* attempt was disturbed or the store was created as it was given up: goods
\* displayed or refused, or no store.
EndsWithVerdict ==
    ~Over /\ Over' /\ ~disturbed /\ ~(v.created /\ \E o \in Opener : pc[o] = "give up")
    => v'.sent \/ v'.ack \/ v'.rejected \/ v'.createRejected
=============================================================================
