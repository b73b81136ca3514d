---------------------------- MODULE PartyRoster ----------------------------
(***************************************************************************)
(* Whom a robot takes for the members of its party, and when it leaves an  *)
(* orphaned party by returning to the character selection (dnf.RobotVo,    *)
(* party_state.go, party_recovery.go, robot_character_refresh.go).         *)
(*                                                                         *)
(* The game server tells a robot its party in two ways: snapshots with the *)
(* account and the endpoint of every slot, with or without the unique id   *)
(* of the character, and realtime rosters with unique ids only, which      *)
(* count when they were confirmed.  Each step holds r.mu.  A member is its *)
(* account and its unique id is the same number, so the numbers a robot    *)
(* put together can be compared with the truth.                            *)
(***************************************************************************)
EXTENDS Naturals, FiniteSets

CONSTANTS Me,         \* this robot's account
          Robots,     \* accounts of robots
          Humans,     \* other accounts
          Slot,       \* slots of a party, numbers from 0
          WithIds,    \* whether snapshots have unique ids, TRUE, FALSE or both
          MaxChanges  \* bound on the changes of the party

VARIABLES r,       \* the RobotVo
          party,   \* the server's roster, 0 where a slot is empty
          port,    \* the endpoint of each member
          changes,
          \* what happened, for the properties
          announced, \* a snapshot has told the present roster
          applied,   \* and the robot took it over
          told,      \* the members of the last roster that counts
          mixed,     \* a member was given the unique id of another
          newer,     \* a realtime roster came after the last snapshot
          why        \* why a recovery was started, "none" from the return
                     \* on; "kept" after another return in a party

vars == <<r, party, port, changes, announced, applied, told, mixed, newer, why>>

Members == (Robots \cup Humans) \ {Me}
Rosters == {f \in [Slot -> Members \cup {0, Me}] :
              \A s, t \in Slot : s # t /\ f[s] = f[t] => f[s] = 0}

Nobody == [u |-> 0, a |-> 0, port |-> 0]
NoSelf == [u |-> 0, a |-> 0, slot |-> 0, known |-> FALSE]
NoRoster == [s \in Slot |-> 0]

FreshRobot ==
    [state |-> "run", self |-> NoSelf, peers |-> [s \in Slot |-> Nobody],
     rt |-> NoRoster, cand |-> NoRoster, conf |-> 0, candAt |-> FALSE,
     human |-> FALSE, returning |-> FALSE, recovery |-> FALSE, rejected |-> FALSE,
     cooling |-> FALSE, heard |-> [s \in Slot |-> {}]]

Init ==
    /\ r = FreshRobot
    /\ party \in {f \in Rosters : \E s \in Slot : f[s] = Me}
    /\ port = [m \in Members |-> 1]
    /\ changes = 0 /\ announced = TRUE /\ applied = FALSE /\ told = {} /\ newer = FALSE
    /\ mixed = FALSE /\ why = "none"

-----------------------------------------------------------------------------
(* Peers.                                                                  *)

IdentityKnown(p) == p.u # 0 \/ p.a # 0

SameIdentity(p, q) ==
    IF p.a # 0 /\ q.a # 0 THEN p.a = q.a ELSE p.u # 0 /\ p.u = q.u

Filled(old, next) == IF next = 0 THEN old ELSE next

\* mergePartyPeer.
Merge(old, p) ==
    [u |-> Filled(old.u, p.u), a |-> Filled(old.a, p.a), port |-> Filled(old.port, p.port)]

First(S) == CHOOSE s \in S : \A t \in S : s =< t

Silent == [s \in Slot |-> {}]

\* Mutant: the state of a slot goes when another one takes the slot.
ChangedReplaced(before, after) ==
    /\ IdentityKnown(before) /\ IdentityKnown(after)
    /\ ~SameIdentity(before, after)

\* Whether the transport state of a slot goes (resetPartyTQOSPeerUnsafe).
Changed(before, after) ==
    \/ before.u # 0 /\ after.u # 0 /\ before.u # after.u
    \/ ~SameIdentity(before, after) /\ (IdentityKnown(before) \/ IdentityKnown(after))
    \/ SameIdentity(before, after) /\ before.port # after.port

\* setPartyPeersUnsafe, from peers by their slots.
SetPeers(v, new) ==
    LET known(p) == {o \in Slot : SameIdentity(v.peers[o], p)}
        peers == [s \in Slot |-> IF known(new[s]) = {} THEN new[s]
                                 ELSE Merge(v.peers[First(known(new[s]))], new[s])]
    IN IF \E s \in Slot : IdentityKnown(peers[s])
       THEN [v EXCEPT !.peers = peers,
                      !.heard = [s \in Slot |->
                                    IF Changed(v.peers[s], peers[s]) THEN {} ELSE @[s]]]
       ELSE [v EXCEPT !.peers = peers, !.self = NoSelf, !.heard = Silent]

\* setPartySelfPeerUnsafe.
SetSelf(v, p) ==
    LET old == v.self
        same == SameIdentity(old, p) \/ (~IdentityKnown(p) /\ old.a = Me)
    IN [v EXCEPT !.self = IF ~same THEN p
                          ELSE [u |-> Filled(old.u, p.u), a |-> Filled(old.a, p.a),
                                slot |-> IF p.known THEN p.slot ELSE old.slot,
                                known |-> p.known \/ old.known],
                 !.heard = IF old.u # 0 /\ p.u # 0 /\ old.u # p.u THEN Silent ELSE @]

\* observePartyAccountsUnsafe.
Observe(v, peers) ==
    [v EXCEPT !.human = @ \/ \E s \in Slot : peers[s].a \in Humans]

\* partyRosterIsPureRobotUnsafe.
Pure(self, peers) ==
    /\ self.a = Me
    /\ \A s \in Slot : IdentityKnown(peers[s]) => peers[s].a \in Robots

\* applyPartyRealtimeIdentitiesUnsafe: who gets the unique id of its slot.
Named(v, s) == v.rt[s] # 0 /\ IdentityKnown(v.peers[s]) /\ v.peers[s].u = 0
SelfNamed(v) == v.self.known /\ v.self.u = 0 /\ v.rt[v.self.slot] # 0

Apply(v) ==
    LET self == [v.self EXCEPT !.u = v.rt[v.self.slot]]
        w == IF SelfNamed(v) THEN SetSelf(v, self) ELSE v
    IN IF \E s \in Slot : Named(v, s)
       THEN SetPeers(w, [s \in Slot |-> IF Named(v, s) THEN [v.peers[s] EXCEPT !.u = v.rt[s]]
                                        ELSE v.peers[s]])
       ELSE w

\* The realtime roster and the slots are of different times.
Misnames(v) ==
    \/ \E s \in Slot : Named(v, s) /\ v.rt[s] # v.peers[s].a
    \/ SelfNamed(v) /\ v.rt[v.self.slot] # Me

-----------------------------------------------------------------------------
(* Recovery.                                                               *)

MayRecover(v) == v.human /\ ~v.recovery /\ ~v.returning /\ ~v.cooling /\ v.state = "run"

Returning(v) == [v EXCEPT !.returning = TRUE, !.rejected = FALSE, !.recovery = TRUE]

Took(v, members) == r' = v /\ told' = members /\ UNCHANGED <<party, port, changes>>
Other == UNCHANGED <<party, port, changes, announced, applied, told, mixed, newer>>

\* startPartyRecoveryUnsafe when the roster is without humans, else, or when
\* the request cannot be sent, the rest of the handler.
RecoverOr(v, pure, reason, stays, isApplied, members) ==
    \/ /\ pure /\ MayRecover(v)
       /\ Took(Returning(v), members) /\ applied' = FALSE /\ why' = reason
    \/ /\ pure => ~MayRecover(v)
       /\ Took(stays, members) /\ applied' = isApplied /\ UNCHANGED why

\* The same, when sending fails; the robot then waits before it tries again.
RecoverFails(v, pure, stays, isApplied, members) ==
    /\ pure /\ MayRecover(v)
    /\ Took([stays EXCEPT !.cooling = TRUE], members) /\ applied' = isApplied /\ UNCHANGED why

InParty == \E s \in Slot : party[s] = Me
MySlot == CHOOSE s \in Slot : party[s] = Me
MemberIds == {party[s] : s \in Slot} \ {0, Me}

-----------------------------------------------------------------------------
(* What the server sends, handlePartyPacketUnsafe.                         *)

\* Mutant: the realtime roster that waits to be confirmed is kept.
ForgetCandidateNot(v) == v

\* A snapshot ends the confirmation of older realtime rosters.
ForgetCandidate(v) == [v EXCEPT !.cand = NoRoster, !.conf = 0, !.candAt = FALSE]

\* Type 11.
Snapshot(withId) ==
    LET id(m) == IF withId THEN m ELSE 0
        peers == [s \in Slot |-> IF party[s] \in {0, Me} THEN Nobody
                                 ELSE [u |-> id(party[s]), a |-> party[s], port |-> port[party[s]]]]
        self == [u |-> id(Me), a |-> Me, slot |-> MySlot, known |-> TRUE]
        v == SetSelf(Observe(ForgetCandidate(r), peers), self)
        w == SetPeers(v, peers)
        stays == Apply(w)
        pure == v.human /\ Pure(v.self, peers)
    IN /\ r.state = "run" /\ InParty
       /\ announced' = TRUE /\ newer' = FALSE
       /\ \/ RecoverOr(v, pure, "pure", stays, why = "none", MemberIds)
          \/ RecoverFails(v, pure, stays, why = "none", MemberIds)
       /\ mixed' = IF r'.recovery # r.recovery THEN mixed
                   ELSE ~withId /\ (mixed \/ Misnames(w))

\* reconcilePartyRealtimeUnsafe, where the robot finds itself in the roster.
SelfSlots(v, f) == {s \in Slot : v.self.u # 0 /\ f[s] = v.self.u}

FindsItself(v, f) ==
    SelfSlots(v, f) # {} \/ (v.self.known /\ f[v.self.slot] # 0)

Reconcile(v, f, isApplied, members) ==
    LET slot == IF SelfSlots(v, f) # {} THEN First(SelfSlots(v, f)) ELSE v.self.slot
        self == [u |-> IF SelfSlots(v, f) # {} THEN v.self.u ELSE f[slot],
                 a |-> Filled(Me, v.self.a), slot |-> slot, known |-> TRUE]
        old(s) == {o \in Slot : \/ v.peers[o].u = f[s]
                                \/ v.peers[o].u = 0 /\ IdentityKnown(v.peers[o]) /\ o = s}
        peers == [s \in Slot |->
                    IF f[s] = 0 \/ s = slot THEN Nobody
                    ELSE LET p == [Nobody EXCEPT !.u = f[s]] IN
                         IF old(s) = {} THEN p ELSE Merge(v.peers[First(old(s))], p)]
        w == Observe(SetSelf(v, self), peers)
        pure == w.human /\ Pure(self, peers)
    IN \/ FindsItself(v, f) /\ \/ RecoverOr(w, pure, "pure", SetPeers(w, peers), isApplied, members)
                               \/ RecoverFails(w, pure, SetPeers(w, peers), isApplied, members)
       \/ ~FindsItself(v, f) /\ Took(v, members) /\ applied' = isApplied /\ UNCHANGED why

\* Type 153, the second equal one confirms.
Realtime ==
    LET u == [r EXCEPT !.rt = party]
        v == Apply(u)
        again == party = v.cand
        w == [v EXCEPT !.cand = party, !.candAt = IF again THEN @ ELSE TRUE,
                       !.conf = IF ~again THEN 1 ELSE IF @ < 2 THEN @ + 1 ELSE 3]
    IN /\ r.state = "run" /\ InParty
       /\ newer' = TRUE /\ mixed' = (mixed \/ Misnames(u)) /\ UNCHANGED announced
       /\ \/ w.conf = 2 /\ Reconcile([w EXCEPT !.candAt = FALSE], party, applied, MemberIds)
          \/ w.conf # 2 /\ Took(w, told) /\ UNCHANGED <<applied, why>>

\* maybeConfirmPartyRealtimeUnsafe: a roster that nothing has contradicted for
\* two seconds.
Confirm ==
    /\ r.state = "run"
    /\ r.conf = 1 /\ r.candAt
    /\ UNCHANGED <<announced, mixed, newer>>
    /\ Reconcile([r EXCEPT !.conf = 2, !.candAt = FALSE], r.cand, applied /\ r.cand = party,
                 IF newer THEN {r.cand[s] : s \in Slot} \ {0, Me} ELSE told)

\* maybeRecoverStalePartyUnsafe, away from dungeons: only robots are known, or
\* every human was heard once and then not for 30 seconds.
RecoverStale ==
    LET known == {s \in Slot : IdentityKnown(r.peers[s])}
        humans == {s \in known : r.peers[s].a \in Humans}
        pure == Pure(r.self, r.peers)
        silent == /\ \A s \in known : r.peers[s].a # 0
                  /\ humans # {} /\ \A s \in humans : r.heard[s] # {}
    IN /\ MayRecover(r) /\ (pure \/ silent)
       /\ \/ r' = Returning(r) /\ why' = IF pure THEN "pure" ELSE "silent"
          \/ r' = [r EXCEPT !.cooling = TRUE] /\ UNCHANGED why
       /\ Other

\* handleReturnToSelectPacketUnsafe and finishReturnToSelectUnsafe.  The server
\* takes the character out of its party.
ReturnAccepted ==
    LET left == [r EXCEPT !.returning = FALSE, !.rejected = FALSE, !.recovery = FALSE,
                          !.state = "select"]
    IN /\ r.returning
       /\ r' = IF r.recovery
               THEN [FreshRobot EXCEPT !.state = "select", !.cooling = r.cooling]
               ELSE left
       /\ party' = [s \in Slot |-> IF party[s] = Me THEN 0 ELSE party[s]]
       /\ announced' = TRUE /\ applied' = FALSE
       /\ why' = IF r.recovery \/ \A s \in Slot : r.peers[s] = Nobody THEN "none" ELSE "kept"
       /\ mixed' = (mixed /\ ~r.recovery)
       /\ UNCHANGED <<port, changes, told, newer>>

ReturnRejected ==
    /\ r.returning
    /\ r' = [r EXCEPT !.returning = FALSE, !.rejected = TRUE, !.recovery = FALSE, !.cooling = TRUE]
    /\ Other /\ UNCHANGED why

\* ReturnToCharacterSelect, which the scheduler calls outside of parties.
ReturnToCharacterSelect ==
    /\ r.state = "run" /\ ~r.returning
    /\ \A s \in Slot : ~IdentityKnown(r.peers[s])
    /\ r' = [r EXCEPT !.returning = TRUE, !.rejected = FALSE, !.recovery = FALSE]
    /\ Other /\ UNCHANGED why

\* ReselectCharacter, and the attempts after a recovery (schedulePartyReselect).
Reselect ==
    /\ r.state = "select" /\ ~r.returning /\ ~r.rejected
    /\ r' = [r EXCEPT !.state = "login"]
    /\ Other /\ UNCHANGED why

LoginDone == r.state = "login" /\ r' = [r EXCEPT !.state = "run"] /\ Other /\ UNCHANGED why

CooldownEnds == r.cooling /\ r' = [r EXCEPT !.cooling = FALSE] /\ Other /\ UNCHANGED why

-----------------------------------------------------------------------------
(* The surroundings.                                                       *)

\* The party changes, once it was announced: members come, go and change
\* slots, or one has another endpoint.
Change ==
    /\ announced /\ changes < MaxChanges
    /\ \/ party' \in Rosters \ {party} /\ UNCHANGED port
       \/ /\ \E m \in Members : port' = [port EXCEPT ![m] = 3 - @]
          /\ UNCHANGED party
    /\ changes' = changes + 1
    /\ announced' = ~\E s \in Slot : party'[s] = Me
    /\ applied' = FALSE
    /\ UNCHANGED <<r, told, mixed, newer, why>>

\* A datagram of a member: by UDP it counts for the peer that is known in the
\* sender's slot, all having one address (partyPeerForUDPUnsafe), by the relay
\* for the peer that is known by the account (partyPeerForAccountUnsafe).
Hear(m) ==
    /\ r.state = "run" /\ InParty
    /\ \E s \in Slot :
       /\ IdentityKnown(r.peers[s])
       /\ (party[s] = m /\ r.peers[s].port # 0) \/ (m \in MemberIds /\ r.peers[s].a = m)
       /\ r' = [r EXCEPT !.heard[s] = @ \cup {<<m, port[m]>>}]
    /\ Other /\ UNCHANGED why

Next ==
    \/ (\E withId \in WithIds : Snapshot(withId)) \/ Realtime \/ Confirm \/ RecoverStale
    \/ ReturnAccepted \/ ReturnRejected \/ ReturnToCharacterSelect \/ Reselect \/ LoginDone
    \/ CooldownEnds \/ Change \/ \E m \in Members : Hear(m)

Spec == Init /\ [][Next]_vars

-----------------------------------------------------------------------------
(* Properties.                                                             *)

\* Once the robot has taken over a snapshot, and until the party changes, it
\* knows who is in each slot, whatever realtime rosters came before and after;
\* and the transport state of a slot stems from its present member at its
\* present endpoint alone.  Not covered: from the moment that a realtime roster
\* and a snapshot without unique ids, of different times, were joined and gave
\* a member the unique id of another (mixed), until a snapshot with unique ids
\* is taken over.  (A snapshot without humans that makes the robot leave is not
\* taken over, and a return to the selection that a party overtook keeps the
\* roster; nothing is said until the robot has left.)
AppliedIsTrue ==
    applied /\ ~mixed => \A s \in Slot :
        LET m == IF party[s] = Me THEN 0 ELSE party[s] IN
        /\ r.peers[s].a = m /\ r.peers[s].u \in {0, m}
        /\ r.heard[s] \subseteq IF m = 0 THEN {} ELSE {<<m, port[m]>>}

\* A robot leaves a party for being without humans only if the last roster
\* that counts, a snapshot or a confirmed realtime one, has no human.  Not
\* covered, as above: unique ids that were given to the wrong members.
OrphansOnly ==
    ~mixed' /\ ~r.recovery /\ r'.recovery /\ why' = "pure" => told' \cap Humans = {}
=============================================================================
