----------------------------- MODULE TradeDesk -----------------------------
(***************************************************************************)
(* How a robot answers the requests of other players: it accepts a trade   *)
(* or a party, offers money for what is laid on the table, and, where the  *)
(* body of a request could be read in two ways, accepts the other reading  *)
(* when the first leads nowhere (dnf.RobotVo, robot_trade.go,              *)
(* robot_packet_store_trade.go, robot_packet_party.go, party_state.go).    *)
(*                                                                         *)
(* Each step holds r.mu once.  Prices come from the database, read by a    *)
(* goroutine without the mutex; tradeQuoteVersion is only compared with    *)
(* the one a goroutine took, so a snapshot is current until it is raised.  *)
(* The n-th table is the number n, and so is the money offered for it.     *)
(***************************************************************************)
EXTENDS Naturals, FiniteSets

CONSTANTS Peer,       \* unique ids of other players, not 0
          Loader,     \* goroutines that refresh quotes
          MaxTables,  \* bound on the tables, and on the requests
          MaxPanics,  \* bound on panics while prices are read
          Retries,    \* how many panics in a row are retried
          Env         \* "busy": a goroutine cannot be started

VARIABLES v,        \* the RobotVo
          loader,   \* refreshTradeQuote
          snap,     \* its tradeQuoteSnapshot
          sleeping, \* retry goroutines after a panic
          tables, requests, panics,
          \* what happened, for the properties
          answered  \* how the server has reacted since a request was accepted

vars == <<v, loader, snap, sleeping, tables, requests, panics, answered>>

NoFallback == [type |-> "none", peer |-> 0, other |-> 0]

Init ==
    /\ v = [run |-> TRUE, state |-> FALSE, id |-> 0, table |-> 0, money |-> 0,
            pending |-> FALSE, loading |-> FALSE, failures |-> 0,
            fallback |-> NoFallback, invited |-> 0, member |-> FALSE]
    /\ loader = [l \in Loader |-> "none"]
    /\ snap = [l \in Loader |-> [table |-> 0, current |-> FALSE]]
    /\ sleeping = 0 /\ tables = 0 /\ requests = 0 /\ panics = 0
    /\ answered = {}

Bounded == UNCHANGED <<tables, requests, panics>>

-----------------------------------------------------------------------------
(* Quotes.                                                                 *)

\* Mutant: a refresh under way is left alone.
OutdatedIfIdle == IF v.loading THEN snap ELSE [l \in Loader |-> [snap[l] EXCEPT !.current = FALSE]]

\* tradeQuoteVersion is raised.
Outdated == [l \in Loader |-> [snap[l] EXCEPT !.current = FALSE]]

ClearTrade(w) == [w EXCEPT !.money = 0, !.state = FALSE, !.id = 0, !.table = 0]

Idle == {l \in Loader : loader[l] = "none"}

\* startRobotRoutine, which is refused when the service stops.
Start(w, snaps) ==
    \/ /\ \E l \in Idle : /\ loader' = [loader EXCEPT ![l] = "snapshot"]
                          /\ snap' = snaps
       /\ v' = [w EXCEPT !.loading = TRUE]
    \/ /\ "busy" \in Env
       /\ v' = [w EXCEPT !.loading = FALSE] /\ snap' = snaps /\ UNCHANGED loader

\* queueTradeQuoteRefreshUnsafe.
QueueRefresh(w) ==
    LET pending == [w EXCEPT !.pending = TRUE] IN
    \/ v.loading /\ v' = pending /\ snap' = Outdated /\ UNCHANGED loader
    \/ ~v.loading /\ Start(pending, Outdated)

\* Mutant: the alternative is left to its timer.
ClearConfirmedNot(w) == w

\* clearConfirmedTradeFallbackUnsafe.
ClearConfirmed(w) == IF w.fallback.type = "trade" THEN [w EXCEPT !.fallback = NoFallback] ELSE w

\* Type 15: something is laid on the table or taken away.
TableChanges ==
    /\ v.run /\ tables < MaxTables
    /\ tables' = tables + 1
    /\ QueueRefresh([ClearConfirmed(v) EXCEPT !.table = tables + 1])
    /\ answered' = answered \cup {"trade"}
    /\ UNCHANGED <<sleeping, requests, panics>>

\* Type 16: the trade is over.
TradeOver ==
    /\ v.run
    /\ v' = [ClearTrade(ClearConfirmed(v)) EXCEPT !.pending = FALSE]
    /\ snap' = Outdated
    /\ answered' = answered \cup {"trade"}
    /\ UNCHANGED <<loader, sleeping>> /\ Bounded

\* Type 17: the other side agrees; the robot does too, or calls it off.
Agrees ==
    /\ v.run /\ v' = ClearConfirmed(v)
    /\ answered' = answered \cup {"trade"}
    /\ UNCHANGED <<loader, snap, sleeping>> /\ Bounded

\* tradeQuoteSnapshotUnsafe, and then the prices are read.
TakeSnapshot(l) ==
    LET may == v.pending /\ v.run IN
    /\ loader[l] = "snapshot"
    /\ v' = IF may THEN [v EXCEPT !.pending = FALSE] ELSE [v EXCEPT !.loading = FALSE]
    /\ loader' = [loader EXCEPT ![l] = IF may THEN "query" ELSE "none"]
    /\ snap' = IF may THEN [snap EXCEPT ![l] = [table |-> v.table, current |-> TRUE]] ELSE snap
    /\ UNCHANGED <<sleeping, answered>> /\ Bounded

\* Mutant: a quote that is out of date ends the goroutine in any case.
OutOfDateEnds(l) ==
    /\ loader' = [loader EXCEPT ![l] = "none"]
    /\ v' = [v EXCEPT !.loading = FALSE]

\* The version has changed: once more, if something is to be quoted.
OutOfDate(l) ==
    /\ loader' = [loader EXCEPT ![l] = IF v.pending THEN "snapshot" ELSE "none"]
    /\ v' = [v EXCEPT !.loading = v.pending]

\* applyTradeQuoteUnsafe: the old offer is withdrawn, the new one made.  The
\* second packet is sent even where the first could not be.
Offer(w, money, withdrawn, made) ==
    LET x == IF withdrawn THEN w ELSE ClearTrade(w) IN
    IF made THEN [x EXCEPT !.money = money] ELSE ClearTrade(x)

\* The prices are there, or an error, which makes the quote 0.
Quoted(l) ==
    /\ loader[l] = "query"
    /\ \/ ~snap[l].current /\ OutOfDate(l)
       \/ /\ snap[l].current
          /\ loader' = [loader EXCEPT ![l] = "none"]
          /\ LET w == [v EXCEPT !.loading = FALSE, !.failures = 0] IN
             \/ ~v.run /\ v' = w
             \/ v.run /\ \E withdrawn, made \in BOOLEAN, money \in {0, snap[l].table} :
                            v' = Offer(w, money, withdrawn, made)
    /\ UNCHANGED <<snap, sleeping, answered>> /\ Bounded

\* Reading the prices panics: the recovery may start another goroutine later.
QuotePanics(l) ==
    LET retry == v.failures + 1 =< Retries /\ v.run IN
    /\ loader[l] = "query" /\ panics < MaxPanics
    /\ panics' = panics + 1
    /\ loader' = [loader EXCEPT ![l] = "none"]
    /\ v' = [v EXCEPT !.loading = FALSE, !.failures = @ + 1, !.pending = retry]
    /\ sleeping' = sleeping + IF retry THEN 1 ELSE 0
    /\ UNCHANGED <<snap, tables, requests, answered>>

RetryQuote ==
    /\ sleeping > 0 /\ sleeping' = sleeping - 1
    /\ \/ v.run /\ v.pending /\ ~v.loading /\ Start(v, snap)
       \/ ~(v.run /\ v.pending /\ ~v.loading) /\ UNCHANGED <<v, loader, snap>>
    /\ UNCHANGED answered /\ Bounded

-----------------------------------------------------------------------------
(* Requests.                                                               *)

\* Type 7, selectPeerResponsePackets and schedulePartyInviteFallbackUnsafe: a
\* request for a trade or a party, which may also be read as another player's
\* invitation to a party.  An accepted request ends an older alternative.
Request(type, p, other) ==
    LET free == type = "party" \/ (~v.state /\ v.id = 0)
        reading == IF other = 0 THEN NoFallback ELSE [type |-> type, peer |-> p, other |-> other]
        accepted == IF type = "trade" THEN [v EXCEPT !.id = p, !.state = TRUE, !.fallback = reading]
                    ELSE [v EXCEPT !.invited = p, !.fallback = reading]
        quiet(w) == IF type = "trade" THEN [w EXCEPT !.pending = FALSE, !.money = 0] ELSE w
    IN /\ v.run /\ requests < MaxTables
       /\ requests' = requests + 1
       /\ \/ free /\ v' = quiet(accepted) /\ answered' = {}
             /\ snap' = IF type = "trade" THEN Outdated ELSE snap
          \* Sending failed.
          \/ free /\ v' = quiet(v) /\ UNCHANGED answered
             /\ snap' = IF type = "trade" THEN Outdated ELSE snap
          \/ ~free /\ UNCHANGED <<v, snap, answered>>
       /\ UNCHANGED <<loader, sleeping, tables, panics>>

\* Whether the first reading of a request still stands unanswered.
Unanswered ==
    /\ v.run /\ ~v.member
    /\ v.fallback.type = "party" => v.invited = v.fallback.peer
    /\ v.fallback.type = "trade" => v.state /\ v.id = v.fallback.peer

\* flushPartyInviteFallbackUnsafe by the timer of the current epoch.  What a
\* timer of an older epoch does is nothing.
FallbackDue ==
    LET w == [v EXCEPT !.fallback = NoFallback]
        called == IF v.fallback.type = "trade" THEN [ClearTrade(w) EXCEPT !.pending = FALSE] ELSE w
    IN /\ v.fallback # NoFallback
       /\ \/ ~Unanswered /\ v' = w /\ UNCHANGED <<snap, answered>>
          \/ Unanswered /\ v' = w /\ UNCHANGED <<snap, answered>>    \* sending failed
          \/ /\ Unanswered
             /\ v' = [called EXCEPT !.invited = v.fallback.other]
             /\ snap' = IF v.fallback.type = "trade" THEN Outdated ELSE snap
             /\ answered' = {}
       /\ UNCHANGED <<loader, sleeping>> /\ Bounded

\* setPartyPeersUnsafe, type 11: the robot is in a party.
Joined(w) == [w EXCEPT !.member = TRUE, !.invited = 0, !.fallback = NoFallback]

PartyJoined ==
    /\ v.run /\ v' = Joined(v)
    /\ answered' = answered \cup {"party"}
    /\ UNCHANGED <<loader, snap, sleeping>> /\ Bounded

PartyLeft ==
    /\ v.member /\ v' = [v EXCEPT !.member = FALSE, !.invited = 0, !.fallback = NoFallback]
    /\ UNCHANGED <<loader, snap, sleeping, answered>> /\ Bounded

\* Type 9, news of a party: an alternative is dropped.
PartyNews ==
    /\ v.run /\ v' = [v EXCEPT !.fallback = NoFallback]
    /\ answered' = answered \cup {"party"}
    /\ UNCHANGED <<loader, snap, sleeping>> /\ Bounded

\* partyActiveUnsafe finds that the invitation has expired.
InvitationExpires ==
    /\ v.invited # 0 /\ ~v.member
    /\ v' = [v EXCEPT !.invited = 0, !.fallback = NoFallback]
    /\ UNCHANGED <<loader, snap, sleeping, answered>> /\ Bounded

\* The session ends or runs again; CopyFrom resets the trade.
SessionChanges ==
    /\ \/ v.run /\ v' = [v EXCEPT !.run = FALSE] /\ UNCHANGED snap
       \/ /\ ~v.run /\ snap' = Outdated
          /\ v' = [ClearTrade(v) EXCEPT !.run = TRUE, !.pending = FALSE, !.fallback = NoFallback,
                                        !.invited = 0, !.member = FALSE]
    /\ UNCHANGED <<loader, sleeping, answered>> /\ Bounded

Loading(l) == TakeSnapshot(l) \/ Quoted(l)

Next ==
    \/ TableChanges \/ TradeOver \/ Agrees \/ RetryQuote
    \/ \E l \in Loader : Loading(l) \/ QuotePanics(l)
    \/ \E type \in {"trade", "party"}, p \in Peer, o \in Peer \cup {0} : Request(type, p, o)
    \/ FallbackDue \/ PartyJoined \/ PartyLeft \/ PartyNews \/ InvitationExpires
    \/ SessionChanges

Spec == Init /\ [][Next]_vars

-----------------------------------------------------------------------------
(* Properties.                                                             *)

\* The money a robot offers is for what lies on the table when it offers, not
\* for what lay there when the prices were asked for; and at most one
\* goroutine makes offers.
OfferFitsTable ==
    /\ v'.money \notin {0, v.money} => v'.money = v.table
    /\ Cardinality({l \in Loader : loader[l] # "none"}) =< 1

\* A running trade has a table that is to be quoted.
Unquoted == v.pending /\ v.run

\* The other reading of a request is accepted only while the server has not
\* reacted to the first one.
FallbackUnanswered ==
    /\ v.fallback # NoFallback /\ v'.fallback = NoFallback /\ requests' = requests
    /\ v'.invited = v.fallback.other /\ v'.invited # v.invited
    => answered \cap {v.fallback.type, "party"} = {}
=============================================================================
