-------------------------------- MODULE Hosts --------------------------------
(***************************************************************************)
(* What the programs change on the hosts: the game's scripts and the       *)
(* player limits of its channels (GameControl), the robot itself while the *)
(* launcher replaces it (Deploy), the market's files of the game and the   *)
(* memory of the auction service (MarketPatches).                          *)
(*                                                                         *)
(* They share no state: each is an instance with variables of its own.     *)
(***************************************************************************)
EXTENDS Parts, Integers, FiniteSets

CONSTANTS Service, MaxScripts, Channel, Writer, Value, Reader,
          Launcher, MaxVersions, Keep, Attempts, MaxOps, Ini,
          File, Count, MaxVendor, Odd, Patcher, Sites

VARIABLES script, cancel, last, up, cfg, wr, rd, limit, controlLeft,
          launch, new, robot, robotBaks, config, configBaks, moved, procs, next, deployLeft,
          cur, bak, saves, fileJob, bytes, pid, pat, patchLeft

Control == INSTANCE GameControl WITH File <- Channel, cache <- limit, left <- controlLeft
Deployment == INSTANCE Deploy WITH op <- launch, left <- deployLeft
Memory == INSTANCE MarketPatches WITH job <- fileJob, mem <- bytes, left <- patchLeft

-----------------------------------------------------------------------------
(* What the theorems about a component need of its constants.              *)

\* One request at a time changes the limit and one write at most fails: a failure
\* while the files are put back leaves them different.
ControlConstants ==
    /\ IsFiniteSet(Service) /\ Service # {} /\ Service = 1 .. Cardinality(Service)
    /\ Channel \subseteq Nat /\ 1 \in Channel /\ 0 \notin Value
    /\ MaxFaults \in {0, 1} /\ \A v, w \in Writer : v = w

\* One window deploys at a time.
DeployConstants == Keep \in Nat /\ \A l, m \in Launcher : l = m

\* Either no step fails, whoever patches; or one patcher meets one failure.
MemoryConstants ==
    /\ IsFiniteSet(Sites) /\ Sites # {} /\ Sites = 1 .. Cardinality(Sites)
    /\ MaxRestarts \in Nat /\ MaxFaults \in {0, 1}
    /\ MaxFaults = 1 => \A p, q \in Patcher : p = q

BackupConstants == Count \in Nat /\ Count >= 2 /\ MaxFaults \in Nat /\ MaxRestarts \in Nat

-----------------------------------------------------------------------------
(* Properties.                                                             *)

\* What was replaced can be got back: the market's files of the game from their
\* numbered copies, the robot and its configuration from the launcher's, whatever
\* step failed.
FilesRecoverable ==
    /\ part = "scripts" => Memory!CanGoBack
    /\ part = "launch" => Deployment!NothingTorn

\* Several writes count as one: the patches of the auction service's memory, and
\* the player limits of the channels, are all made or all undone; and after a stop
\* script was accepted no earlier start brings services up.
AllOrNothing ==
    /\ part \in {"alone", "together"} => Memory!AllBytesOrNone
    /\ part = "game" => Control!StopWins
    /\ part = "limit" => Control!LimitTogether
=============================================================================
