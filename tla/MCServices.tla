----------------------------- MODULE MCServices -----------------------------
(***************************************************************************)
(* The services around the robots, for TLC, in parts of which one is at    *)
(* work in a behaviour. "files" and "rounds" are scenes of MarketQueue: in *)
(* one the catalogue and iteminfo.dat can become unreadable or the filters *)
(* change while rounds run; in the other all of them stay, and rows ask    *)
(* for one or two records, in full-gap and in limited rounds. "create",    *)
(* "broken" and "delete" are RobotData, "manager" and "shutdown"           *)
(* ManagerOps, "clients", "tokens" and "jobs" ApiServer, "both" and "one"  *)
(* MarketServices with two services, and with one that may also fail, die  *)
(* and be restarted, "scripts", "alone" and "together" MarketPatches with  *)
(* the files and with one and two patchers of the memory, "launch" Deploy, *)
(* "mail" MailNotify, "game" and "limit" GameControl, "party" GamePatches, *)
(* "log" LogFiles, "keys" KeyPair.                                         *)
(*                                                                         *)
(* A scene that gives all constants the values of the configuration is the *)
(* instance of Services or Hosts itself; the others are instances here     *)
(* that replace some of them.  What rests is 0.                            *)
(***************************************************************************)
EXTENDS MarketQueue, Services, Hosts

VARIABLES s1, s2, s3, s4, s5, s6, s7, s8, s9, s10, s11, s12

\* What RobotData, MarketServices and LogFiles use.
shared == <<s1, s2, s3, s4, s5, s6, s7, s8, s9, s10, s11, s12>>

\* What is one component's alone, what several have, and all of them.
manager == <<req, rw, mu, ops, nextId, flag, cflag,
             auto, act, sup, pend, press, err, lost>>
mails == <<mail, told, lapsed, poll>>
keys == <<stamp, cache, proc>>
party == <<game, snap, web, got, op, fails, watch>>
api == <<conn, srv, main, tokens, issued, job, bg, key, shown, deletes>>
control == <<script, cancel, last, up, cfg, wr, rd, limit, controlLeft>>
deploy == <<launch, new, robot, robotBaks, config,
            configBaks, moved, procs, next, deployLeft>>
memory == <<cur, bak, saves, fileJob, bytes, pid, pat, patchLeft>>
services == <<manager, mails, keys, party, api, down, file, mem, budget>>
hosts == <<control, deploy, memory>>
mcVars == <<vars, part, shared, services, hosts>>

ManagerRests ==
    /\ req = 0 /\ rw = 0 /\ mu = 0 /\ ops = 0 /\ nextId = 0 /\ flag = 0 /\ cflag = 0
    /\ auto = 0 /\ act = 0 /\ sup = 0 /\ pend = 0 /\ press = 0 /\ err = 0 /\ lost = 0
MailsRest ==
    /\ mail = 0 /\ told = 0 /\ lapsed = 0 /\ poll = 0
KeysRest ==
    /\ stamp = 0 /\ cache = 0 /\ proc = 0
PartyRests ==
    /\ game = 0 /\ snap = 0 /\ web = 0 /\ got = 0 /\ op = 0 /\ fails = 0 /\ watch = 0
ApiRests ==
    /\ conn = 0 /\ srv = 0 /\ main = 0 /\ tokens = 0 /\ issued = 0 /\ job = 0 /\ bg = 0
    /\ key = 0 /\ shown = 0 /\ deletes = 0
ControlRests ==
    /\ script = 0 /\ cancel = 0 /\ last = 0 /\ up = 0 /\ cfg = 0 /\ wr = 0 /\ rd = 0
    /\ limit = 0 /\ controlLeft = 0
DeployRests ==
    /\ launch = 0 /\ new = 0 /\ robot = 0 /\ robotBaks = 0 /\ config = 0
    /\ configBaks = 0 /\ moved = 0 /\ procs = 0 /\ next = 0 /\ deployLeft = 0
MemoryRests ==
    /\ cur = 0 /\ bak = 0 /\ saves = 0 /\ fileJob = 0 /\ bytes = 0 /\ pid = 0 /\ pat = 0
    /\ patchLeft = 0
SharedRest ==
    /\ s1 = 0 /\ s2 = 0 /\ s3 = 0 /\ s4 = 0 /\ s5 = 0 /\ s6 = 0 /\ s7 = 0 /\ s8 = 0
    /\ s9 = 0 /\ s10 = 0 /\ s11 = 0 /\ s12 = 0
CommonRests == down = 0 /\ file = 0 /\ mem = 0 /\ budget = 0
ServicesRest == ManagerRests /\ MailsRest /\ KeysRest /\ PartyRests /\ ApiRests /\ CommonRests
HostsRest == ControlRests /\ DeployRests /\ MemoryRests

One == {1}
Two == {2}
Sources == {"catalog", "iteminfo", "filter"}

Files == INSTANCE MarketQueue WITH Records <- One, Limits <- Two, Changes <- Sources

\* Queues at rest.
QueuesRest == Init /\ catalog

\* Kinds of operations on the rows, and numbers of characters.
Makes == {"create", "cleanup"}
Mends == {"create", "broken"}
Takes == {"create", "character", "uids"}
Numbers == {1, 2, 3}

Create == INSTANCE RobotData WITH
    Cid <- Numbers, MaxBatch <- 2, MaxOps <- 2, MaxPlayers <- 1, Kinds <- Makes,
    db <- s1, batch <- s2,
    admin <- s3, sup <- s4, pending <- s5, live <- s6, busy <- s7, tick <- s8,
    used <- s9, late <- s10, slipped <- s11, hurt <- s12
Broken == INSTANCE RobotData WITH
    Cid <- Numbers, MaxBatch <- 1, MaxOps <- 2, MaxPlayers <- 1, Kinds <- Mends,
    db <- s1, batch <- s2,
    admin <- s3, sup <- s4, pending <- s5, live <- s6, busy <- s7, tick <- s8,
    used <- s9, late <- s10, slipped <- s11, hurt <- s12
Delete == INSTANCE RobotData WITH
    Cid <- Numbers, MaxBatch <- 2, MaxOps <- 2, MaxPlayers <- 1, Kinds <- Takes,
    db <- s1, batch <- s2,
    admin <- s3, sup <- s4, pending <- s5, live <- s6, busy <- s7, tick <- s8,
    used <- s9, late <- s10, slipped <- s11, hurt <- s12
Shutdown == INSTANCE ManagerOps WITH
    Req <- {1}, Kinds <- {"online", "logout"}, Env <- {"auto", "stuck", "pressure"},
    left <- budget
Clients == INSTANCE ApiServer WITH
    MaxClients <- 1, MaxPending <- 2, Requests <- {"market", "sync"},
    Env <- {"reset"}
Tokens == INSTANCE ApiServer WITH MaxPending <- 2
Jobs == INSTANCE ApiServer WITH
    MaxPending <- 2, Requests <- {"online"}, Env <- {"key"}
Markets == {"auction", "point"}
Both == INSTANCE MarketServices WITH
    Service <- Markets, Samples <- 2, MaxPvf <- 2, MaxSyncs <- 1,
    MaxRestarts <- 0, MaxFaults <- 0, MaxExits <- 0, pvf <- s1, file <- s2,
    procs <- s3, op <- s4, mu <- s5, st <- s6, up <- s7, cool <- s8, left <- s9
Single == INSTANCE MarketServices WITH
    Service <- {"auction"}, Samples <- 2, MaxPvf <- 2, MaxSyncs <- 1,
    MaxRestarts <- 1, MaxFaults <- 1, MaxExits <- 1, pvf <- s1, file <- s2,
    procs <- s3, op <- s4, mu <- s5, st <- s6, up <- s7, cool <- s8, left <- s9
Scripts == INSTANCE MarketPatches WITH
    Patcher <- {}, Sites <- {1}, MaxRestarts <- 0,
    job <- fileJob, mem <- bytes, left <- patchLeft
Alone == INSTANCE MarketPatches WITH
    File <- {}, job <- fileJob, mem <- bytes, left <- patchLeft
Together == INSTANCE MarketPatches WITH
    File <- {}, Patcher <- {"loop", "command"}, MaxFaults <- 0,
    job <- fileJob, mem <- bytes, left <- patchLeft
Game == INSTANCE GameControl WITH
    File <- {1}, Writer <- {}, Value <- {1}, Reader <- {},
    cache <- limit, left <- controlLeft
Ceiling == INSTANCE GameControl WITH
    Service <- {1}, MaxScripts <- 0, File <- Channel, cache <- limit, left <- controlLeft
Log == INSTANCE LogFiles WITH
    Kind <- {"robot", "market", "sink"}, FileMax <- 2, Backups <- 3, Sizes <- {1, 2},
    MaxBytes <- 9, MaxFaults <- 1, MaxRestarts <- 1, kind <- s1, file <- s2, pc <- s3,
    at <- s4, size <- s5, want <- s6, buf <- s7, dead <- s8, written <- s9,
    settled <- s10, trimmed <- s11, left <- s12

\* The configuration's records and tuples.
Letters == [letter |-> 2, postal |-> 1]
Ips == <<1, 2, 3>>

\* The values of the configuration satisfy the hypotheses of the theorems.
ASSUME ConstantsFit ==
    /\ ManagerConstants /\ MailConstants /\ KeyConstants /\ PatchConstants /\ ApiConstants
    /\ ControlConstants /\ DeployConstants /\ MemoryConstants /\ BackupConstants

MCInit ==
    \/ /\ ServicesRest /\ HostsRest /\ SharedRest
       /\ \/ part = "files" /\ Files!Init
          \/ part = "rounds" /\ Init
    \/ /\ QueuesRest /\ ServicesRest /\ HostsRest
       /\ \/ part = "create" /\ Create!Init
          \/ part = "broken" /\ Broken!Init
          \/ part = "delete" /\ Delete!Init
          \/ part = "both" /\ Both!Init /\ s10 = 0 /\ s11 = 0 /\ s12 = 0
          \/ part = "one" /\ Single!Init /\ s10 = 0 /\ s11 = 0 /\ s12 = 0
          \/ part = "log" /\ Log!Init
    \/ /\ QueuesRest /\ SharedRest /\ HostsRest
       /\ \/ /\ \/ part = "manager" /\ Manager!Init
                \/ part = "shutdown" /\ Shutdown!Init
             /\ MailsRest /\ KeysRest /\ PartyRests /\ ApiRests /\ file = 0 /\ mem = 0
          \/ /\ \/ part = "clients" /\ Clients!Init
                \/ part = "tokens" /\ Tokens!Init
                \/ part = "jobs" /\ Jobs!Init
             /\ ManagerRests /\ MailsRest /\ KeysRest /\ PartyRests /\ CommonRests
          \/ /\ part = "mail" /\ Mail!Init
             /\ ManagerRests /\ KeysRest /\ PartyRests /\ ApiRests /\ mem = 0
          \/ /\ part = "keys" /\ Keys!Init
             /\ ManagerRests /\ MailsRest /\ PartyRests /\ ApiRests /\ down = 0
          \/ /\ part = "party" /\ Patches!Init
             /\ ManagerRests /\ MailsRest /\ KeysRest /\ ApiRests /\ down = 0
    \/ /\ QueuesRest /\ SharedRest /\ ServicesRest
       /\ \/ /\ \/ part = "scripts" /\ Scripts!Init
                \/ part = "alone" /\ Alone!Init
                \/ part = "together" /\ Together!Init
             /\ ControlRests /\ DeployRests
          \/ part = "launch" /\ Deployment!Init /\ ControlRests /\ MemoryRests
          \/ /\ \/ part = "game" /\ Game!Init
                \/ part = "limit" /\ Ceiling!Init
             /\ DeployRests /\ MemoryRests

MCNext ==
    /\ UNCHANGED part
    /\ \/ /\ \/ part = "files" /\ Files!Next
             \/ part = "rounds" /\ Next
          /\ UNCHANGED <<services, hosts, shared>>
       \/ /\ \/ part = "create" /\ Create!Next
             \/ part = "broken" /\ Broken!Next
             \/ part = "delete" /\ Delete!Next
             \/ part = "both" /\ Both!Next /\ UNCHANGED <<s10, s11, s12>>
             \/ part = "one" /\ Single!Next /\ UNCHANGED <<s10, s11, s12>>
             \/ part = "log" /\ Log!Next
          /\ UNCHANGED <<vars, services, hosts>>
       \/ /\ \/ part = "manager" /\ Manager!Next
             \/ part = "shutdown" /\ Shutdown!Next
          /\ UNCHANGED <<vars, shared, hosts, mails, keys, party, api, file, mem>>
       \/ /\ \/ part = "clients" /\ Clients!Next
             \/ part = "tokens" /\ Tokens!Next
             \/ part = "jobs" /\ Jobs!Next
          /\ UNCHANGED <<vars, shared, hosts, manager, mails, keys, party,
                        down, file, mem, budget>>
       \/ /\ part = "mail" /\ Mail!Next
          /\ UNCHANGED <<vars, shared, hosts, manager, keys, party, api, mem>>
       \/ /\ part = "keys" /\ Keys!Next
          /\ UNCHANGED <<vars, shared, hosts, manager, mails, party, api, down>>
       \/ /\ part = "party" /\ Patches!Next
          /\ UNCHANGED <<vars, shared, hosts, manager, mails, keys, api, down>>
       \/ /\ \/ part = "scripts" /\ Scripts!Next
             \/ part = "alone" /\ Alone!Next
             \/ part = "together" /\ Together!Next
          /\ UNCHANGED <<vars, shared, services, control, deploy>>
       \/ /\ part = "launch" /\ Deployment!Next
          /\ UNCHANGED <<vars, shared, services, control, memory>>
       \/ /\ \/ part = "game" /\ Game!Next
             \/ part = "limit" /\ Ceiling!Next
          /\ UNCHANGED <<vars, shared, services, deploy, memory>>

MCSpec == MCInit /\ [][MCNext]_mcVars

-----------------------------------------------------------------------------
(* Properties.                                                             *)

\* An item is in one of the queues only; and while the files stay readable, no
\* allowed item falls out of them: what a round skips, lists or has refused is
\* still in one of the three.
QueuesKeepAll ==
    /\ part \in {"files", "rounds"} => OnePlace
    /\ part = "rounds" => NoneLost

\* While the files stay readable, what the service refused is listed again only by
\* every RetryEvery-th round and within the rejected budget.
StableRetryRounds == [][part = "rounds" => RetryRound \/ ~PlanSelect]_mcVars

\* Every account of the segment has all the rows of a robot, or a batch that is
\* being created or rolled back lists it: crashes and failing statements leave no
\* half-made robot behind (repository_create_batch.go).
RobotsWhole ==
    /\ part = "create" => Create!WholeOrRunning
    /\ part = "broken" => Broken!WholeOrRunning
    /\ part = "delete" => Delete!WholeOrRunning

\* Creation, rollback and cleanup take nothing from a player, except by a number
\* that the player got after it had been chosen; and no store workflow writes rows
\* for a robot that was deleted at rest.
DeletesSafe ==
    [][/\ part = "create" => Create!PlayersUntouched /\ Create!GoneStaysGone
       /\ part = "broken" => Broken!PlayersUntouched /\ Broken!GoneStaysGone
       /\ part = "delete" => Delete!PlayersUntouched /\ Delete!GoneStaysGone]_mcVars

\* The numbered log files hold what was written last without a gap, whichever step
\* of a rotation fails, and stay within their bound; only the robot's own log, which
\* goes on writing after a rotation that failed, may outgrow it.
LogsWhole == part = "log" => Log!LogHasNoGap /\ Log!Bounded

\* A success that is reported is one: after a sync no process of a service that the
\* sync found running has an older iteminfo, whether it died, was restarted or came up
\* again meanwhile; after a deployment the program that answers is the new one.  (A
\* service that was down at the sync's look is not covered, see SyncedIsLoaded.)
SuccessIsTrue ==
    [][/\ part = "both" => Both!SyncedIsLoaded
       /\ part = "one" => Single!SyncedIsLoaded
       /\ part = "launch" => Deployment!SuccessMeansNew]_mcVars
=============================================================================
