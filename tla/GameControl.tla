---------------------------- MODULE GameControl ----------------------------
(***************************************************************************)
(* The web administration's control of the game: the scripts that start    *)
(* and stop its services, and the player limit in the configuration files  *)
(* of its channels (webadmin/game_control.go).  Requests run concurrently. *)
(*                                                                         *)
(* A service that a script has started leaves the script's process group   *)
(* (external); until then the group's end ends it too.                     *)
(***************************************************************************)
EXTENDS Integers, Sequences, FiniteSets

CONSTANTS Service,    \* what /root/run starts, 1..n in this order
          MaxScripts, \* requests to run a script
          File,       \* cfg files with a max_user_num, 1..n
          Writer,     \* POST requests of the player limit
          Value,      \* player limits
          Reader,     \* GET requests of the game port
          MaxFaults   \* failing writes and launches, ends of the web administration

VARIABLES script,  \* the scripts launched: action, n (services done), alive
          cancel,  \* the script serverScriptCancel ends; 0: nil
          last,    \* the action whose launch was last reported as OK
          up,      \* services that run
          cfg,     \* file -> value
          wr,      \* writer -> pc, to, orig, done
          rd,      \* reader -> what it has read, holding gameMaxUserMu; 0: none
          cache,   \* gameMaxUser; 0: none
          left

vars == <<script, cancel, last, up, cfg, wr, rd, cache, left>>
scriptVars == <<script, cancel, last, up>>
limitVars == <<cfg, wr, rd, cache>>

Off == [pc |-> "idle", to |-> 0, orig |-> <<>>, done |-> <<>>]

Init ==
    /\ script = <<>> /\ cancel = 0 /\ last = "none" /\ up = {}
    /\ \E v \in Value : cfg = [f \in File |-> v]
    /\ wr = [w \in Writer |-> Off] /\ rd = [r \in Reader |-> 0] /\ cache = 0
    /\ left = [fault |-> MaxFaults]

Fault(bad) == IF bad THEN left.fault > 0 /\ left' = [left EXCEPT !.fault = @ - 1] ELSE UNCHANGED left

-----------------------------------------------------------------------------
\* Scripts.

\* The end of the command's context and of its process group; nothing happens to a
\* script that has ended.
Ended(s, i) == IF i = 0 THEN s ELSE [s EXCEPT ![i].alive = FALSE]

\* Mutant: an older dispatcher goes on.
NotCancelled(s) == s

\* "Cancel an older startup dispatcher before submitting another run or stop, so a
\* delayed /root/run cannot relaunch services after a stop request."
Cancelled(s) == Ended(s, cancel)

startServerScript(action) ==
    /\ Len(script) < MaxScripts
    /\ \E bad \in BOOLEAN :
         /\ Fault(bad)
         /\ IF bad THEN script' = Cancelled(script) /\ cancel' = 0 /\ UNCHANGED last
            ELSE /\ script' = Append(Cancelled(script), [action |-> action, n |-> 0, alive |-> TRUE])
                 /\ cancel' = Len(script) + 1 /\ last' = action
    /\ UNCHANGED <<up, limitVars>>

\* handleServerScript refuses other actions and scripts that are not there.
handleServerScript == \E action \in {"run", "stop"} : startServerScript(action)

\* stopServerScript, when the web administration ends.
stopServerScript ==
    /\ cancel # 0 /\ Fault(TRUE)
    /\ script' = Ended(script, cancel) /\ cancel' = 0 /\ last' = "none"
    /\ UNCHANGED <<up, limitVars>>

\* One more service, in the order of the script.
ScriptSteps(i) ==
    /\ script[i].alive
    /\ LET n == script[i].n + 1 IN
       /\ up' = IF script[i].action = "run" THEN up \cup {n} ELSE up \ {n}
       /\ script' = [script EXCEPT ![i] = [@ EXCEPT !.n = n, !.alive = n < Cardinality(Service)]]
    /\ UNCHANGED <<cancel, last, limitVars, left>>

-----------------------------------------------------------------------------
\* The player limit.

\* writeMaxUserNum reads the files and notes the ones that differ; none: unchanged.
writeMaxUserNum(w) ==
    /\ wr[w] = Off
    /\ \E v \in Value :
         /\ \E f \in File : cfg[f] # v
         /\ wr' = [wr EXCEPT ![w] = [pc |-> "write", to |-> v, orig |-> cfg, done |-> <<>>]]
    /\ UNCHANGED <<scriptVars, cfg, rd, cache, left>>

ToWrite(w) == {f \in File : wr[w].orig[f] # wr[w].to} \ {wr[w].done[i] : i \in DOMAIN wr[w].done}

\* Files in their order; the first failure starts the rollback.
WriteFile(w) ==
    /\ wr[w].pc = "write" /\ ToWrite(w) # {}
    /\ LET f == CHOOSE f \in ToWrite(w) : \A g \in ToWrite(w) : f <= g IN
       \E bad \in BOOLEAN :
         /\ Fault(bad)
         /\ cfg' = IF bad THEN cfg ELSE [cfg EXCEPT ![f] = wr[w].to]
         /\ wr' = IF bad THEN [wr EXCEPT ![w].pc = "undo"] ELSE [wr EXCEPT ![w].done = Append(@, f)]
    /\ UNCHANGED <<scriptVars, rd, cache>>

\* Mutant: the last file that was written stays.
UndoneBut(done) == IF Len(done) <= 1 THEN <<>> ELSE SubSeq(done, 1, Len(done) - 1)

Undone(done) == done

Rollback(w) ==
    /\ wr[w].pc = "undo"
    /\ LET d == Undone(wr[w].done) IN
       IF d = <<>> THEN wr' = [wr EXCEPT ![w] = Off] /\ UNCHANGED <<cfg, left>>
       ELSE \E bad \in BOOLEAN :
              /\ Fault(bad)
              /\ cfg' = IF bad THEN cfg ELSE [cfg EXCEPT ![d[Len(d)]] = wr[w].orig[d[Len(d)]]]
              /\ wr' = [wr EXCEPT ![w].done = SubSeq(d, 1, Len(d) - 1)]
    /\ UNCHANGED <<scriptVars, rd, cache>>

NobodyReads == \A r \in Reader : rd[r] = 0

\* invalidateGameMaxUserCache, after the last file, under the readers' mutex.
invalidateGameMaxUserCache(w) ==
    /\ wr[w].pc = "write" /\ ToWrite(w) = {} /\ NobodyReads
    /\ cache' = 0 /\ wr' = [wr EXCEPT ![w] = Off]
    /\ UNCHANGED <<scriptVars, cfg, rd, left>>

\* gameMaxUserNum reads the file of the channel on the game port ...
readGameMaxUserNum(r) ==
    /\ NobodyReads /\ cache = 0
    /\ rd' = [rd EXCEPT ![r] = cfg[1]]
    /\ UNCHANGED <<scriptVars, cfg, wr, cache, left>>

\* ... and remembers what it found,
gameMaxUserNum(r) ==
    /\ rd[r] # 0 /\ cache' = rd[r] /\ rd' = [rd EXCEPT ![r] = 0]
    /\ UNCHANGED <<scriptVars, cfg, wr, left>>

\* for gameMaxUserCacheTTL.
CacheExpires ==
    /\ cache # 0 /\ NobodyReads /\ cache' = 0
    /\ UNCHANGED <<scriptVars, cfg, wr, rd, left>>

Next ==
    \/ handleServerScript \/ stopServerScript \/ \E i \in DOMAIN script : ScriptSteps(i)
    \/ \E w \in Writer : writeMaxUserNum(w) \/ WriteFile(w) \/ Rollback(w) \/ invalidateGameMaxUserCache(w)
    \/ \E r \in Reader : readGameMaxUserNum(r) \/ gameMaxUserNum(r)
    \/ CacheExpires

Spec == Init /\ [][Next]_vars

-----------------------------------------------------------------------------
\* Properties.

\* A stop wins over every script before it: when the last request was a stop and its
\* script is through, no service runs (startServerScript).
StopWins ==
    last = "stop" /\ script[Len(script)].n = Cardinality(Service) => up = {}

\* One request at a time changes the player limit of all channels or of none, also
\* when a write fails halfway, and then no cached limit outlives the change
\* (writeMaxUserNum, invalidateGameMaxUserCache).
LimitTogether ==
    /\ (\A w \in Writer : wr[w] = Off) => \A f, g \in File : cfg[f] = cfg[g]
    /\ left.fault = MaxFaults /\ (\A w \in Writer : wr[w] = Off) => cache \in {0, cfg[1]}
=============================================================================
