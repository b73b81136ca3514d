------------------------------- MODULE MCWaits -------------------------------
(***************************************************************************)
(* What somebody waits for, for TLC, in parts of which one is at work in a *)
(* behaviour: "hub", goroutines that wait for a uid's lock (RefHub);       *)
(* "relay" and "udp", the connections of a party (PartyLinks); "trade",    *)
(* the quotes of a trade (TradeDesk); "party" and "mailbox", the patches   *)
(* of the game's memory (GamePatches); "market", the market's processes    *)
(* (MarketServices).  All parts but the hub keep their state in s1..s10.   *)
(***************************************************************************)
EXTENDS RefHub

CONSTANTS Socket,     \* of a relay
          Loader,     \* goroutines that refresh quotes
          Samples     \* marketServiceStabilitySamples

ASSUME WaitsAssumption ==
    /\ IsFiniteSet(Socket) /\ None \notin Socket
    /\ IsFiniteSet(Loader) /\ Samples \in Nat \ {0}

VARIABLES part, s1, s2, s3, s4, s5, s6, s7, s8, s9, s10

shared == <<s1, s2, s3, s4, s5, s6, s7, s8, s9, s10>>
mcVars == <<vars, part, shared>>

\* What the parts use of them.
links == <<s1, s2, s3>>
trade == <<s1, s2, s3, s4, s5, s6, s7, s8>>
patch == shared
market == <<s1, s2, s3, s4, s5, s6, s7, s8, s9>>

Relay == INSTANCE PartyLinks WITH
    Env <- {"relay", "badframe"}, QueueSize <- 1, MaxStale <- 1, r <- s1, reader <- s2, wpc <- s3
UDP == INSTANCE PartyLinks WITH
    Env <- {"ports", "badframe", "panic"}, QueueSize <- 1, MaxStale <- 1,
    r <- s1, reader <- s2, wpc <- s3

Trade == INSTANCE TradeDesk WITH
    Peer <- {1}, MaxTables <- 2, MaxPanics <- 1, Retries <- 1, Env <- {},
    v <- s1, loader <- s2, snap <- s3, sleeping <- s4, tables <- s5, requests <- s6,
    panics <- s7, answered <- s8

Party == INSTANCE GamePatches WITH
    Patch <- "party", Ranges <- {1}, DisableAfter <- 1, MaxEdits <- 1, MaxFaults <- 1,
    MaxKills <- 1, MaxRestarts <- 1, game <- s1, mem <- s2, file <- s3, snap <- s4, web <- s5,
    got <- s6, op <- s7, fails <- s8, watch <- s9, left <- s10
Mailbox == INSTANCE GamePatches WITH
    Patch <- "mailbox", Ranges <- {1}, DisableAfter <- 1, MaxEdits <- 1, MaxFaults <- 1,
    MaxKills <- 1, MaxRestarts <- 1, game <- s1, mem <- s2, file <- s3, snap <- s4, web <- s5,
    got <- s6, op <- s7, fails <- s8, watch <- s9, left <- s10

Market == INSTANCE MarketServices WITH
    Service <- {"auction"}, MaxPvf <- 2, MaxSyncs <- 1, MaxRestarts <- 1, MaxFaults <- 1,
    MaxExits <- 1, pvf <- s1, file <- s2, procs <- s3, op <- s4, mu <- s5, st <- s6, up <- s7,
    cool <- s8, left <- s9

\* A hub at rest; the arguments of a goroutine that is outside do not matter.
HubRests ==
    /\ uid = [p \in Proc |-> CHOOSE u \in Uid : TRUE]
    /\ lock = [p \in Proc |-> CHOOSE l \in Lock : TRUE]

\* What the smaller parts do not use.
Spare == <<s4, s5, s6, s7, s8, s9, s10>>
SpareRests == s4 = 0 /\ s5 = 0 /\ s6 = 0 /\ s7 = 0 /\ s8 = 0 /\ s9 = 0 /\ s10 = 0

MCInit ==
    /\ \/ part = "hub" /\ s1 = 0 /\ s2 = 0 /\ s3 = 0 /\ SpareRests
       \/ part \in {"relay", "udp"} /\ Relay!Init /\ SpareRests
       \/ part = "trade" /\ Trade!Init /\ s9 = 0 /\ s10 = 0
       \/ part = "party" /\ Party!Init
       \/ part = "mailbox" /\ Mailbox!Init
       \/ part = "market" /\ Market!Init /\ s10 = 0
    /\ Init /\ (part # "hub" => HubRests)

MCNext ==
    /\ UNCHANGED part
    /\ \/ part = "hub" /\ Next /\ UNCHANGED shared
       \/ part = "relay" /\ Relay!Next /\ UNCHANGED <<vars, Spare>>
       \/ part = "udp" /\ UDP!Next /\ UNCHANGED <<vars, Spare>>
       \/ part = "trade" /\ Trade!Next /\ UNCHANGED <<vars, s9, s10>>
       \/ part = "party" /\ Party!Next /\ UNCHANGED vars
       \/ part = "mailbox" /\ Mailbox!Next /\ UNCHANGED vars
       \/ part = "market" /\ Market!Next /\ UNCHANGED <<vars, s10>>

-----------------------------------------------------------------------------
(* Fairness.  Each property that something happens has that of its part as *)
(* its hypothesis.                                                         *)

\* A goroutine that runs finishes its section; sync.Mutex hands the lock to a
\* waiter that was passed over too long (starvation mode), which is strong
\* fairness of LockMu, needed only for the waiter itself.
HubFairness == \A p \in Proc : WF_vars(UnlockMu(p)) /\ WF_vars(DropRef(p))

\* Loops look at their state, dials and reads end by their time-outs, timers
\* fire; each round of the supervisor dials when there is no relay and it may.
\* A dial that is repeated for ever succeeds at some time.
RelayFairness ==
    /\ WF_links(part = "relay" /\ Relay!RetryElapses)
    /\ WF_links(part = "relay" /\ Relay!Dials)
    /\ WF_links(part = "relay" /\ Relay!SupervisorEnds)
    /\ WF_links(part = "relay" /\ Relay!StaleSupervisorEnds)
    /\ WF_links(part = "relay" /\ Relay!UDPLoopStops)
    /\ WF_links(part = "relay" /\ Relay!StaleUDPLoopEnds)
    /\ WF_links(part = "relay" /\ Relay!DialEnds)
    /\ WF_links(part = "relay" /\ Relay!StaleDialEnds)
    /\ SF_links(part = "relay" /\ Relay!DialAttaches)
    /\ \A k \in Socket : /\ WF_links(part = "relay" /\ Relay!ReaderRuns(k))
                          /\ WF_links(part = "relay" /\ Relay!Writer(k))

\* Queries end by their time-out, goroutines run.
TradeFairness ==
    /\ \A d \in Loader : WF_trade(part = "trade" /\ Trade!Loading(d))
    /\ WF_trade(part = "trade" /\ Trade!RetryQuote)

\* Goroutines of a running web admin run, its timers fire, and it is restarted.
PartyFairness ==
    /\ WF_patch(part = "party" /\ Party!OpSteps)
    /\ WF_patch(part = "party" /\ Party!SupervisorBegins)
    /\ WF_patch(part = "party" /\ Party!Restarted)
    /\ WF_patch(part = "party" /\ Party!Poll)
    /\ WF_patch(part = "party" /\ Party!Reload)
    /\ SF_patch(part = "party" /\ Party!ResetFailures)
MailboxFairness ==
    /\ WF_patch(part = "mailbox" /\ Mailbox!OpSteps)
    /\ WF_patch(part = "mailbox" /\ Mailbox!GuardReads)
    /\ SF_patch(part = "mailbox" /\ Mailbox!GuardBegins)
    /\ WF_patch(part = "mailbox" /\ Mailbox!Restarted)
    /\ WF_patch(part = "mailbox" /\ Mailbox!Poll)
    /\ WF_patch(part = "mailbox" /\ Mailbox!Reload)
    /\ SF_patch(part = "mailbox" /\ Mailbox!ResetFailures)

\* Goroutines run, a mutex is not withheld from the loop for ever, the loop comes
\* round, and a process that is left alone opens its port.
MarketFairness ==
    /\ WF_market(part = "market" /\ Market!ensureMarketServices({"auction"}))
    /\ SF_market(part = "market" /\ Market!TakeServiceMu("ensure"))
    /\ \A c \in Market!Caller : WF_market(part = "market" /\ Market!GiveServiceMu(c))
    /\ WF_market(part = "market" /\ Market!Treat("auction"))
    /\ WF_market(part = "market" /\ Market!Listen("auction"))
    /\ WF_market(part = "market" /\ Market!syncItemInfoDATFrom("auction"))

MCSpec == MCInit /\ [][MCNext]_mcVars

-----------------------------------------------------------------------------
(* Properties.                                                             *)

\* No goroutine waits for a uid's lock for ever (RefHub.Acquire).
WaiterIsServed ==
    \A p \in Proc : HubFairness /\ SF_vars(LockMu(p)) => []<>(pc[p] # "wait")

\* A relay socket that is not attached is closed and left by its goroutines,
\* whoever detached it (partyRelayLoop, partyRelayWriteLoop); and while the party
\* goes on under its supervisor the relay connection comes back after every
\* failure, if the relay can be reached (maintainPartyRelay).
LinksSettle ==
    RelayFairness =>
      /\ \A k \in Socket : []<>(part = "relay" => ~Relay!LeftOver(k))
      /\ <>[](part = "relay" /\ Relay!Supervised) => []<>(part = "relay" => ~Relay!Unconnected)

\* A table that is to be quoted is quoted, unless the trade or the session ends
\* first: no change made while prices are read is forgotten (refreshTradeQuote).
TableIsQuoted == TradeFairness => []<>(part = "trade" => ~Trade!Unquoted)

\* Once nobody edits, nothing fails and nobody dies any more, the game's memory is
\* what the configuration asks for (the two supervisors of the web admin).
PatchesConverge ==
    /\ PartyFairness => <>[](part = "party" => Party!AsConfigured)
    /\ MailboxFairness => <>[](part = "mailbox" => Mailbox!AsConfigured)

\* A service with a newer file than its process is restarted in the end, also one
\* that was started while a sync wrote; unless a second copy of it runs
\* (marketServiceStaleItemInfoReason, in every round of the loop).
StaleIsReplaced == MarketFairness => <>[](part = "market" => Market!UpToDate("auction"))
=============================================================================
