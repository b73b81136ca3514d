------------------------------ MODULE MCRobots ------------------------------
(***************************************************************************)
(* What robots do in the game, for TLC, in parts of which one is at work   *)
(* in a behaviour. "column", "far" and "late" are scenes of StorePoints:   *)
(* item and disjoint stores on three rows of one column, of which the      *)
(* outer two may be used together, and one of which an older cache holds   *)
(* as failed; two points that never collide, with ambiguous refusals;      *)
(* attempts of one try that may outlive the leases of their claims.        *)
(* "sockets" and "stale" are a party's relay with two sockets, and with    *)
(* one and goroutines of an earlier generation (PartyLinks); "acks",       *)
(* "stalls" and "routes" are two robots' transport on one route that       *)
(* loses, reorders and doubles, with recoveries, and on two routes that    *)
(* fail (PartyTransport); "roster" and "partial" are PartyRoster with the  *)
(* unique ids in every snapshot, and in some; "display", "refreshed"       *)
(* and "disjoint" are StoreDisplay with two openers, with one opener and   *)
(* two inventories, and with a disjoint store; "trade" and "panics" are    *)
(* TradeDesk with two peers, and with one and a panic of a loader.         *)
(***************************************************************************)
EXTENDS StorePoints, TLC

VARIABLES part, s1, s2, s3, s4, s5, s6, s7, s8, s9, s10, s11, s12

\* What the parts but "column" share; a part leaves what it does not need at 0.
shared == <<s1, s2, s3, s4, s5, s6, s7, s8, s9, s10, s11, s12>>
mcVars == <<vars, part, shared>>

Column == <<[area |-> 1, x |-> 240, y |-> 160],
            [area |-> 1, x |-> 240, y |-> 240],
            [area |-> 1, x |-> 240, y |-> 320]>>

Far == <<[area |-> 1, x |-> 240, y |-> 160], [area |-> 2, x |-> 240, y |-> 160]>>

InFar == INSTANCE StorePoints WITH
    Grid <- Far, OldFailed <- {}, Kinds <- {"item"}, Answers <- {"collision", "other"},
    claims <- s1, succ <- s2, hist <- s3, packed <- s4, evid <- s5, cool <- s6,
    cursor <- s7, job <- s8, stall <- s9, file <- s10, cache <- s11, said <- s12
InLate == INSTANCE StorePoints WITH
    Grid <- Far, OldFailed <- {}, TTL <- 1, Kinds <- {"item"}, Answers <- {"other"},
    MaxTries <- 1, AttemptsFit <- FALSE,
    claims <- s1, succ <- s2, hist <- s3, packed <- s4, evid <- s5, cool <- s6,
    cursor <- s7, job <- s8, stall <- s9, file <- s10, cache <- s11, said <- s12

Sockets == INSTANCE PartyLinks WITH
    Socket <- {1, 2}, None <- 0, QueueSize <- 1, MaxStale <- 0, Env <- {"relay"},
    r <- s1, reader <- s2, wpc <- s3
Stale == INSTANCE PartyLinks WITH
    Socket <- {1}, None <- 0, QueueSize <- 1, MaxStale <- 1, Env <- {"relay"},
    r <- s1, reader <- s2, wpc <- s3
Acks == INSTANCE PartyTransport WITH
    End <- {"a", "b"}, Sender <- {"a"}, Route <- {1}, Window <- 2, MaxRetries <- 1,
    MaxData <- 2, MaxNet <- 2, MaxSeq <- 2, MaxResets <- 1, Env <- {"dup"}, t <- s1,
    chosen <- s2, up <- s3, net <- s4, sent <- s5, resets <- s6, got <- s7,
    cleared <- s8, pure <- s9, heard <- s10
Stalls == INSTANCE PartyTransport WITH
    End <- {"a", "b"}, Sender <- {"a"}, Route <- {2}, Window <- 1, MaxRetries <- 0,
    MaxData <- 1, MaxNet <- 2, MaxSeq <- 2, MaxResets <- 2, Env <- {"stall"}, t <- s1,
    chosen <- s2, up <- s3, net <- s4, sent <- s5, resets <- s6, got <- s7,
    cleared <- s8, pure <- s9, heard <- s10
Routes == INSTANCE PartyTransport WITH
    End <- {"a", "b"}, Sender <- {}, Route <- {1, 2}, Window <- 1, MaxRetries <- 0,
    MaxData <- 0, MaxNet <- 1, MaxSeq <- 2, MaxResets <- 1, Env <- {"down", "roster"},
    t <- s1, chosen <- s2, up <- s3, net <- s4, sent <- s5, resets <- s6, got <- s7,
    cleared <- s8, pure <- s9, heard <- s10
Roster == INSTANCE PartyRoster WITH
    Me <- 1, Robots <- {1, 2}, Humans <- {3}, Slot <- {0, 1}, WithIds <- {TRUE},
    MaxChanges <- 2, r <- s1, party <- s2, port <- s3, changes <- s4, announced <- s5,
    applied <- s6, told <- s7, mixed <- s8, newer <- s9, why <- s10
Partial == INSTANCE PartyRoster WITH
    Me <- 1, Robots <- {1, 2}, Humans <- {3}, Slot <- {0, 1}, WithIds <- BOOLEAN,
    MaxChanges <- 1, r <- s1, party <- s2, port <- s3, changes <- s4, announced <- s5,
    applied <- s6, told <- s7, mixed <- s8, newer <- s9, why <- s10
Display == INSTANCE StoreDisplay WITH
    Opener <- {1, 2}, Items <- 2, MaxAttempts <- 2, MaxInventory <- 1, MaxWire <- 2,
    Env <- {"unready", "down"}, v <- s1, pc <- s2, snap <- s3, wire <- s4,
    attempts <- s5, inventories <- s6, disturbed <- s7
Refreshed == INSTANCE StoreDisplay WITH
    Opener <- {1}, Items <- 2, MaxAttempts <- 2, MaxInventory <- 2, MaxWire <- 2,
    Env <- {"unready", "down"}, v <- s1, pc <- s2, snap <- s3, wire <- s4,
    attempts <- s5, inventories <- s6, disturbed <- s7
Disjoint == INSTANCE StoreDisplay WITH
    Opener <- {1}, Items <- 2, MaxAttempts <- 1, MaxInventory <- 1, MaxWire <- 2,
    Env <- {"disjoint", "unready"}, v <- s1, pc <- s2, snap <- s3, wire <- s4,
    attempts <- s5, inventories <- s6, disturbed <- s7
Trade == INSTANCE TradeDesk WITH
    Peer <- {1, 2}, Loader <- {1, 2}, MaxTables <- 2, MaxPanics <- 0, Retries <- 1,
    Env <- {"busy"}, v <- s1, loader <- s2, snap <- s3, sleeping <- s4, tables <- s5,
    requests <- s6, panics <- s7, answered <- s8
Panics == INSTANCE TradeDesk WITH
    Peer <- {1}, Loader <- {1, 2}, MaxTables <- 2, MaxPanics <- 1, Retries <- 1,
    Env <- {"busy"}, v <- s1, loader <- s2, snap <- s3, sleeping <- s4, tables <- s5,
    requests <- s6, panics <- s7, answered <- s8

\* The variables from s<n> on.
from11 == <<s11, s12>>
from9 == <<s9, s10, s11, s12>>
from8 == <<s8, s9, s10, s11, s12>>
from4 == <<s4, s5, s6, s7, s8, s9, s10, s11, s12>>
Rest11 == s11 = 0 /\ s12 = 0
Rest9 == s9 = 0 /\ s10 = 0 /\ Rest11
Rest8 == s8 = 0 /\ Rest9
Rest4 == s4 = 0 /\ s5 = 0 /\ s6 = 0 /\ s7 = 0 /\ Rest8
Rest1 == s1 = 0 /\ s2 = 0 /\ s3 = 0 /\ Rest4

MCInit ==
    /\ Init
    /\ \/ part = "column" /\ Rest1
       \/ part = "far" /\ InFar!Init
       \/ part = "late" /\ InLate!Init
       \/ part = "sockets" /\ Sockets!Init /\ Rest4
       \/ part = "stale" /\ Stale!Init /\ Rest4
       \/ part = "acks" /\ Acks!Init /\ Rest11
       \/ part = "stalls" /\ Stalls!Init /\ Rest11
       \/ part = "routes" /\ Routes!Init /\ Rest11
       \/ part = "roster" /\ Roster!Init /\ Rest11
       \/ part = "partial" /\ Partial!Init /\ Rest11
       \/ part = "display" /\ Display!Init /\ Rest8
       \/ part = "refreshed" /\ Refreshed!Init /\ Rest8
       \/ part = "disjoint" /\ Disjoint!Init /\ Rest8
       \/ part = "trade" /\ Trade!Init /\ Rest9
       \/ part = "panics" /\ Panics!Init /\ Rest9

MCNext ==
    /\ UNCHANGED part
    /\ \/ part = "column" /\ Next /\ UNCHANGED shared
       \/ part = "far" /\ InFar!Next /\ UNCHANGED vars
       \/ part = "late" /\ InLate!Next /\ UNCHANGED vars
       \/ part = "sockets" /\ Sockets!Next /\ UNCHANGED <<vars, from4>>
       \/ part = "stale" /\ Stale!Next /\ UNCHANGED <<vars, from4>>
       \/ part = "acks" /\ Acks!Next /\ UNCHANGED <<vars, from11>>
       \/ part = "stalls" /\ Stalls!Next /\ UNCHANGED <<vars, from11>>
       \/ part = "routes" /\ Routes!Next /\ UNCHANGED <<vars, from11>>
       \/ part = "roster" /\ Roster!Next /\ UNCHANGED <<vars, from11>>
       \/ part = "partial" /\ Partial!Next /\ UNCHANGED <<vars, from11>>
       \/ part = "display" /\ Display!Next /\ UNCHANGED <<vars, from8>>
       \/ part = "refreshed" /\ Refreshed!Next /\ UNCHANGED <<vars, from8>>
       \/ part = "disjoint" /\ Disjoint!Next /\ UNCHANGED <<vars, from8>>
       \/ part = "trade" /\ Trade!Next /\ UNCHANGED <<vars, from9>>
       \/ part = "panics" /\ Panics!Next /\ UNCHANGED <<vars, from9>>

MCSpec == MCInit /\ [][MCNext]_mcVars

-----------------------------------------------------------------------------
(* Properties.                                                             *)

\* Where stores do not collide but are refused for reasons that may be the session's,
\* no exit of the attempt loops leaks a claim, and a point is put aside only while the
\* observations of enough robots stand; and a robot whose claim ran out cannot take
\* the point away from the robot that has it now.
ClaimsStand ==
    [][/\ part = "far" => InFar!NoLeakedClaim' /\ InFar!EvidenceStands'
       /\ part = "late" => InLate!Tick \/ InLate!Restart \/ InLate!Untouched]_mcVars

\* A party, whatever overlaps, fails or gets lost.  A flag that says that a goroutine
\* of its connections is at work is never left behind, no second one starts besides
\* it, and the attached relay socket is read and written; in an epoch that both ends
\* began clean an acknowledgement clears only what the peer took, and a route counts
\* as ready only when it was heard both ways; a robot that took over a snapshot
\* knows who is in each slot, whatever realtime rosters came before and after, except
\* while a member has the unique id of another, given to it by joining a realtime
\* roster with a snapshot of another time that had no unique ids.
PartySafe ==
    /\ part = "sockets" => Sockets!OneAtATime /\ Sockets!AttachedIsServed
    /\ part = "stale" => Stale!OneAtATime /\ Stale!AttachedIsServed
    /\ part = "acks" => Acks!ClearedWasTaken /\ Acks!ReadyBothWays
    /\ part = "stalls" => Stalls!ClearedWasTaken /\ Stalls!ReadyBothWays
    /\ part = "routes" => Routes!ReadyBothWays
    /\ part = "roster" => Roster!AppliedIsTrue
    /\ part = "partial" => Partial!AppliedIsTrue

\* What a session does with an answer or a value it read before.  It leaves a party
\* for being without humans only if the last roster that counts has none, with the
\* same exception; it displays slots of the inventory it has at that time, and the
\* last opener to end leaves a verdict the workflow will find; the money it offers is
\* for what lies on the table then, and it accepts the other reading of a request only
\* while the server has not reacted to the first.
SessionSafe ==
    [][/\ part = "roster" => Roster!OrphansOnly
       /\ part = "partial" => Partial!OrphansOnly
       /\ part = "display" => Display!DisplayFromCurrent /\ Display!EndsWithVerdict
       /\ part = "refreshed" => Refreshed!DisplayFromCurrent /\ Refreshed!EndsWithVerdict
       /\ part = "disjoint" => Disjoint!DisplayFromCurrent /\ Disjoint!EndsWithVerdict
       /\ part = "trade" => Trade!OfferFitsTable /\ Trade!FallbackUnanswered
       /\ part = "panics" => Panics!OfferFitsTable /\ Panics!FallbackUnanswered]_mcVars

\* Robots are interchangeable.
Symmetric == Permutations(Uids)
=============================================================================
