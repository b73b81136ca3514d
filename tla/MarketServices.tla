--------------------------- MODULE MarketServices ---------------------------
(***************************************************************************)
(* The market's services df_auction_r and df_point_r: the automatic loop   *)
(* and commands keep them running (ensureMarketServices), a job restarts   *)
(* one that misbehaves, SyncItemInfoDAT replaces the iteminfo.dat of both  *)
(* and restarts those that ran, a rebuild restarts the auction.  All of    *)
(* that happens under serviceMu, except that the files are written and     *)
(* "what runs" is read outside of it.                                      *)
(*                                                                         *)
(* A process reads its iteminfo when it starts.  Whether it is out of date *)
(* is told from the file's time, with a second of slack: a file that was   *)
(* written while the process was young does not count as newer.  The loop  *)
(* and jobMu are those of MarketAuto; here an operation just happens.      *)
(***************************************************************************)
EXTENDS Integers, Sequences, FiniteSets

CONSTANTS Service,      \* "auction", "point"
          Samples,      \* marketServiceStabilitySamples
          MaxPvf,       \* versions of the PVF
          MaxSyncs, MaxRestarts, MaxFaults, MaxExits

Caller == {"ensure", "job", "sync", "rebuild"}
MaxCopies == 2          \* processes of one service

VARIABLES pvf,      \* version of the PVF archive
          file,     \* service -> version of its iteminfo.dat
          procs,    \* service -> its processes: ver, young, late (the file is newer), port
          op,       \* caller -> pc, svc, todo, ver
          mu,       \* who holds serviceMu
          st, up,   \* service -> where the holder's goroutine is; good samples so far
          cool,     \* services restarted within marketServiceRestartCooldown
          left      \* what is left of the bounds

vars == <<pvf, file, procs, op, mu, st, up, cool, left>>

Quiet == [pc |-> "idle", svc |-> {}, todo |-> {}, ver |-> 0]

Init ==
    /\ pvf = 1 /\ file = [s \in Service |-> 1] /\ procs = [s \in Service |-> <<>>]
    /\ op = [c \in Caller |-> Quiet] /\ mu = "none"
    /\ st = [s \in Service |-> "none"] /\ up = [s \in Service |-> 0] /\ cool = {}
    /\ left = [sync |-> MaxSyncs, restart |-> MaxRestarts, fault |-> MaxFaults, exit |-> MaxExits]

Spend(what) == left[what] > 0 /\ left' = [left EXCEPT ![what] = @ - 1]
Fault(bad) == IF bad THEN Spend("fault") ELSE UNCHANGED left

Running(s) == procs[s] # <<>>
Listening(s) == \E n \in DOMAIN procs[s] : procs[s][n].port
marketServiceRunningStates == {s \in Service : Running(s)}

-----------------------------------------------------------------------------
\* The services themselves.

Fresh(s) == [ver |-> file[s], young |-> TRUE, late |-> FALSE, port |-> FALSE]

Listen(s) ==
    /\ ~Listening(s)
    /\ \E n \in DOMAIN procs[s] : procs' = [procs EXCEPT ![s][n].port = TRUE]
    /\ UNCHANGED <<pvf, file, op, mu, st, up, cool, left>>

Ages(s) ==
    /\ \E n \in DOMAIN procs[s] : procs[s][n].young
    /\ procs' = [procs EXCEPT ![s] = [n \in DOMAIN @ |-> [@[n] EXCEPT !.young = FALSE]]]
    /\ UNCHANGED <<pvf, file, op, mu, st, up, cool, left>>

Exits(s) ==
    /\ Running(s) /\ Spend("exit")
    /\ procs' = [procs EXCEPT ![s] = Tail(@)]
    /\ UNCHANGED <<pvf, file, op, mu, st, up, cool>>

\* Somebody starts it by hand.
StartedByHand(s) ==
    /\ ~Running(s) /\ Spend("exit")
    /\ procs' = [procs EXCEPT ![s] = Append(@, Fresh(s))]
    /\ UNCHANGED <<pvf, file, op, mu, st, up, cool>>

NewPvf == /\ pvf < MaxPvf /\ pvf' = pvf + 1
          /\ UNCHANGED <<file, procs, op, mu, st, up, cool, left>>

-----------------------------------------------------------------------------
\* The operations up to serviceMu.

Await(c, S) == op' = [op EXCEPT ![c] = [Quiet EXCEPT !.pc = "wait", !.svc = S]]

ensureMarketServices(S) ==
    /\ op["ensure"] = Quiet /\ Await("ensure", S)
    /\ UNCHANGED <<pvf, file, procs, mu, st, up, cool, left>>

\* allowMarketServiceRestart counts from the decision, not from the restart.
restartMarketService(s) ==
    /\ op["job"] = Quiet /\ Spend("restart")
    /\ s \notin cool /\ cool' = cool \cup {s}
    /\ Await("job", {s})
    /\ UNCHANGED <<pvf, file, procs, mu, st, up>>

CooledDown(s) == /\ s \in cool /\ op["job"] = Quiet /\ cool' = cool \ {s}
                 /\ UNCHANGED <<pvf, file, procs, op, mu, st, up, left>>

\* SyncItemInfoDAT: export, clear the stock, look what runs.
SyncItemInfoDAT ==
    /\ op["sync"] = Quiet /\ Spend("sync")
    /\ op' = [op EXCEPT !["sync"] = [pc |-> "write", svc |-> marketServiceRunningStates,
                                     todo |-> Service, ver |-> pvf]]
    /\ UNCHANGED <<pvf, file, procs, mu, st, up, cool>>

\* A file that is as wanted keeps its time.
Written(s, v) ==
    IF file[s] = v THEN UNCHANGED <<file, procs>>
    ELSE /\ file' = [file EXCEPT ![s] = v]
         /\ procs' = [procs EXCEPT ![s] =
                        [n \in DOMAIN @ |-> [@[n] EXCEPT !.late = ~procs[s][n].young]]]

\* syncItemInfoDATFrom, one target after the other; the first failure ends it.
syncItemInfoDATFrom(s) ==
    /\ op["sync"].pc = "write" /\ s \in op["sync"].todo
    /\ \E bad \in BOOLEAN :
         /\ Fault(bad)
         /\ IF bad THEN op' = [op EXCEPT !["sync"] = Quiet] /\ UNCHANGED <<file, procs>>
            ELSE /\ Written(s, op["sync"].ver)
                 /\ op' = [op EXCEPT !["sync"].todo = @ \ {s},
                                     !["sync"].pc = IF op["sync"].todo = {s} THEN "wait" ELSE @]
    /\ UNCHANGED <<pvf, mu, st, up, cool>>

\* ApplyListingConfigAndRebuild, which refuses while the auction is out of date.
auctionServiceLoadedItemInfo ==
    \A n \in DOMAIN procs["auction"] : ~procs["auction"][n].late

ApplyListingConfigAndRebuild ==
    /\ op["rebuild"] = Quiet /\ auctionServiceLoadedItemInfo /\ Spend("restart")
    /\ Await("rebuild", marketServiceRunningStates \cap {"auction"})
    /\ UNCHANGED <<pvf, file, procs, mu, st, up, cool>>

\* Mutant: the stale check of ensureMarketService is relied upon.
FirstTrusting(c) == "probe"

First(c) == IF c = "ensure" THEN "probe" ELSE "stop"

TakeServiceMu(c) ==
    /\ op[c].pc = "wait" /\ mu = "none"
    /\ mu' = c /\ op' = [op EXCEPT ![c].pc = "in"]
    /\ st' = [s \in Service |-> IF s \in op[c].svc THEN First(c) ELSE "none"]
    /\ UNCHANGED <<pvf, file, procs, up, cool, left>>

\* wg.Wait, the outcome, Unlock.
GiveServiceMu(c) ==
    /\ mu = c /\ \A s \in op[c].svc : st[s] \in {"ready", "failed"}
    /\ mu' = "none" /\ op' = [op EXCEPT ![c] = Quiet] /\ st' = [s \in Service |-> "none"]
    /\ UNCHANGED <<pvf, file, procs, up, cool, left>>

-----------------------------------------------------------------------------
\* One service, under serviceMu: ensureMarketService and stopMarketServiceForItemInfo.

To(s, pc) == st' = [st EXCEPT ![s] = pc]
holderRest == <<pvf, file, op, mu, cool>>

\* Mutant: a service that listens is taken as it is.
StaleNever(p) == FALSE

marketServiceStaleItemInfoReason(p) == p.late

\* Its pid is that of any of its processes; pidof may fail.
Probe(s) ==
    /\ st[s] = "probe"
    /\ \E bad \in BOOLEAN :
         /\ Fault(bad) /\ (bad => Listening(s))
         /\ IF ~Listening(s) THEN To(s, "launch")
            ELSE IF bad THEN To(s, "failed")
            ELSE \E n \in DOMAIN procs[s] :
                   To(s, IF marketServiceStaleItemInfoReason(procs[s][n]) THEN "stop" ELSE "ready")
    /\ UNCHANGED <<procs, up, holderRest>>

\* pkill -KILL -x takes all processes of that name.
Stop(s) ==
    /\ st[s] = "stop"
    /\ \E bad \in BOOLEAN :
         /\ Fault(bad)
         /\ procs' = IF bad THEN procs ELSE [procs EXCEPT ![s] = <<>>]
    /\ To(s, "stopping")
    /\ UNCHANGED <<up, holderRest>>

\* It is seen down, or three seconds are over.
Stopped(s) ==
    /\ st[s] = "stopping"
    /\ To(s, IF Running(s) THEN "failed" ELSE IF mu = "ensure" THEN "launch" ELSE "probe")
    /\ UNCHANGED <<procs, up, left, holderRest>>

\* Nobody looks whether a process without a port is there already.
Launch(s) ==
    /\ st[s] = "launch" /\ Len(procs[s]) < MaxCopies
    /\ \E bad \in BOOLEAN :
         /\ Fault(bad)
         /\ procs' = IF bad THEN procs ELSE [procs EXCEPT ![s] = Append(@, Fresh(s))]
         /\ To(s, IF bad THEN "failed" ELSE "await")
    /\ up' = [up EXCEPT ![s] = 0]
    /\ UNCHANGED holderRest

LaunchRefused(s) ==     \* beyond the bound
    /\ st[s] = "launch" /\ Len(procs[s]) = MaxCopies
    /\ To(s, "failed") /\ UNCHANGED <<procs, up, left, holderRest>>

\* Within 30 seconds, or not: also when it is gone again.
AwaitPort(s) ==
    /\ st[s] = "await"
    /\ \/ Listening(s) /\ To(s, "sample") /\ UNCHANGED left
       \/ ~Listening(s) /\ To(s, "failed") /\ Fault(Running(s))
    /\ UNCHANGED <<procs, up, holderRest>>

\* waitForMarketServiceStability.
Sample(s) ==
    /\ st[s] = "sample"
    /\ \/ /\ Listening(s)
          /\ IF up[s] + 1 >= Samples THEN To(s, "ready") /\ UNCHANGED up
             ELSE up' = [up EXCEPT ![s] = @ + 1] /\ UNCHANGED st
       \/ /\ ~Listening(s)
          /\ \/ To(s, "failed") /\ UNCHANGED up
             \/ Running(s) /\ up[s] # 0 /\ up' = [up EXCEPT ![s] = 0] /\ UNCHANGED st
    /\ UNCHANGED <<procs, left, holderRest>>

Treat(s) == Probe(s) \/ Stop(s) \/ Stopped(s) \/ Launch(s) \/ LaunchRefused(s)
            \/ AwaitPort(s) \/ Sample(s)

Next ==
    \/ \E S \in SUBSET Service \ {{}} : ensureMarketServices(S)
    \/ \E s \in Service : \/ restartMarketService(s) \/ CooledDown(s) \/ syncItemInfoDATFrom(s)
                          \/ Treat(s) \/ Listen(s) \/ Ages(s) \/ Exits(s) \/ StartedByHand(s)
    \/ \E c \in Caller : TakeServiceMu(c) \/ GiveServiceMu(c)
    \/ SyncItemInfoDAT \/ ApplyListingConfigAndRebuild \/ NewPvf

-----------------------------------------------------------------------------
\* Properties.

\* A sync that ends without an error leaves no process with an older iteminfo among
\* the services that it found running (marketServiceRunningStates), whichever of them
\* died or was started again meanwhile and however close the times are
\* (SyncItemInfoDAT, restartMarketServiceAfterItemInfo).  Not covered: a service that
\* was down at that look and is started before its file is written keeps the older
\* one, and the sync succeeds all the same.
SyncedIsLoaded ==
    mu = "sync" /\ mu' = "none" /\ (\A s \in op["sync"].svc : st[s] = "ready")
      => \A s \in op["sync"].svc : \A n \in DOMAIN procs[s] : procs[s][n].ver >= op["sync"].ver

\* The file of a service is not newer than its process, if it has a single one.
UpToDate(s) == Len(procs[s]) = 1 => ~procs[s][1].late
=============================================================================
