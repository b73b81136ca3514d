---------------------------- MODULE MCMarketAuto ----------------------------
(***************************************************************************)
(* MarketAuto for TLC, in three scenes.  "switch": two connections at once *)
(* switch the loop, update and clear.  "rebuild": one command at a time,   *)
(* with rebuilds, ItemInfo releases, manual jobs and a shutdown.           *)
(* "reload": one command, an edit of the file and a shutdown.              *)
(***************************************************************************)
EXTENDS MarketAuto, TLC

VARIABLE scene
mcVars == <<vars, scene>>

InRebuild == INSTANCE MarketAuto WITH
                Ops <- {"rebuild", "sync", "manual", "clear", "shutdown"}
InReload == INSTANCE MarketAuto WITH
                Ops <- {"update", "shutdown"}, MaxCommands <- 1, MaxEdits <- 1

OneAtATime == Cardinality({c \in Client : cl[c].pc # "idle"}) <= 1

\* In "switch" the tables are prepared and something is listed at the start, in
\* "reload" nothing is.
MCInit ==
    /\ Init /\ scene \in {"switch", "rebuild", "reload"}
    /\ (scene = "switch" => stock /\ db.ok) /\ (scene = "reload" => ~stock)

MCNext ==
    /\ UNCHANGED scene
    /\ \/ scene = "switch" /\ Next
       \/ scene = "rebuild" /\ InRebuild!Next /\ OneAtATime'
       \/ scene = "reload" /\ InReload!Next /\ OneAtATime'

MCSpec == MCInit /\ [][MCNext]_mcVars

\* Connections are interchangeable.
ClientSymmetry == Permutations(Client)
=============================================================================
