---------------------------- MODULE MarketPatches ----------------------------
(***************************************************************************)
(* What the market changes outside of itself: two files of the game (the   *)
(* dp2 script gets the auction search guard, the PVF archive a compatible  *)
(* upgrade limit), each backed up by filebackup.Save before it is replaced *)
(* atomically, and bytes in the memory of the running df_auction_r.        *)
(*                                                                         *)
(* A file's content is its vendor version and whether it is patched.  The  *)
(* vendor does not replace a file within the few milliseconds between its  *)
(* reading and its replacement: such an update would be lost.              *)
(***************************************************************************)
EXTENDS Integers, Sequences, FiniteSets

CONSTANTS File,          \* "script", "pvf"
          Count,         \* copies kept: auctionSearchGuardBackupCount
          MaxVendor,     \* vendor versions of a file
          Odd,           \* those of them that the patches do not understand
          Patcher,       \* callers of patchAuctionMemory: the loop, a command
          Sites,         \* auctionMemoryPatchSpecs, 1..n
          MaxRestarts,   \* of df_auction_r
          MaxFaults      \* failing steps and crashes of the robot service

VARIABLES cur,     \* file -> ver, patched
          bak,     \* file -> copies, newest first; 0 where there is none
          saves,   \* file -> the versions that were backed up, newest first
          job,     \* what holds patchMu: file, pc, data, n
          mem,     \* site -> 0 original, 1 patched, 2 unknown
          pid,     \* of df_auction_r
          pat,     \* patcher -> pc, pid, n, before, wrote
          left

vars == <<cur, bak, saves, job, mem, pid, pat, left>>
fileVars == <<cur, bak, saves, job>>
memVars == <<mem, pid, pat>>

Free == [file |-> "none", pc |-> "idle", data |-> 0, n |-> 0]
Off == [pc |-> "idle", pid |-> 0, n |-> 0, before |-> <<>>, wrote |-> <<>>]

Init ==
    /\ cur = [f \in File |-> [ver |-> 1, patched |-> FALSE]]
    /\ bak = [f \in File |-> [i \in 0..(Count - 1) |-> 0]] /\ saves = [f \in File |-> <<>>]
    /\ job = Free /\ pid = 1 /\ pat = [p \in Patcher |-> Off]
    /\ \E unknown \in SUBSET Sites :
         Cardinality(unknown) <= 1 /\ mem = [s \in Sites |-> IF s \in unknown THEN 2 ELSE 0]
    /\ left = [fault |-> MaxFaults, restart |-> MaxRestarts]

Spend(what) == left[what] > 0 /\ left' = [left EXCEPT ![what] = @ - 1]
Fault(bad) == IF bad THEN Spend("fault") ELSE UNCHANGED left

-----------------------------------------------------------------------------
\* Files.

VendorUpdates(f) ==
    /\ cur[f].ver < MaxVendor /\ job.file # f
    /\ cur' = [cur EXCEPT ![f] = [ver |-> @.ver + 1, patched |-> FALSE]]
    /\ UNCHANGED <<bak, saves, job, memVars, left>>

At(pc, n) == job' = [job EXCEPT !.pc = pc, !.n = n]

Take(f) ==
    /\ job = Free
    /\ job' = [file |-> f, pc |-> "temp", data |-> cur[f].ver, n |-> 0]
    /\ UNCHANGED <<cur, bak, saves, memVars, left>>

\* A script without the search hook, or with more than one, is refused; a script that
\* has the guard is not changed.
upsertAuctionSearchGuard(c) == c.ver \notin Odd /\ ~c.patched

InstallAuctionSearchGuard == "script" \in File /\ upsertAuctionSearchGuard(cur["script"]) /\ Take("script")

\* The tree and the string table of the archive, the entry and the value's place in it.
readPVFPlainFile(c) == c.ver \notin Odd

findUpgradeSeparateValue(c) == IF c.patched THEN "within" ELSE "above"

PatchPVFUpgradeSeparate ==
    /\ "pvf" \in File /\ readPVFPlainFile(cur["pvf"])
    /\ findUpgradeSeparateValue(cur["pvf"]) = "above"
    /\ Take("pvf")

\* The outcome of a step of filebackup.Save or of the replacement: it goes on, it
\* returns an error, or the service dies: with either, the rest does not happen.
Step(next) == \E bad \in BOOLEAN : Fault(bad) /\ (IF bad THEN job' = Free ELSE next)

\* Save's temporary copy.
WriteTemp ==
    /\ job.pc = "temp" /\ Step(At("remove", 0))
    /\ UNCHANGED <<cur, bak, saves, memVars>>

\* The oldest copy goes first.
RemoveOldest ==
    /\ job.pc = "remove" /\ Step(At("shift", Count - 2))
    /\ bak' = IF job'.pc = "idle" THEN bak ELSE [bak EXCEPT ![job.file][Count - 1] = 0]
    /\ UNCHANGED <<cur, saves, memVars>>

\* Mutant: the copies are moved from the newest to the oldest.
FromNewest(k) == Count - 2 - k

From(k) == k

\* renameIfPresent(path.n, path.n+1), the oldest first.
Shift ==
    /\ job.pc = "shift"
    /\ LET b == bak[job.file]  n == From(job.n) IN
       /\ Step(IF job.n = 0 THEN At("publish", 0) ELSE At("shift", job.n - 1))
       /\ bak' = IF job'.pc = "idle" \/ b[n] = 0 THEN bak
                 ELSE [bak EXCEPT ![job.file] = [b EXCEPT ![n + 1] = b[n], ![n] = 0]]
    /\ UNCHANGED <<cur, saves, memVars>>

Publish ==
    /\ job.pc = "publish" /\ Step(At("replace", 0))
    /\ IF job'.pc = "idle" THEN UNCHANGED <<bak, saves>>
       ELSE /\ bak' = [bak EXCEPT ![job.file][0] = job.data]
            /\ saves' = [saves EXCEPT ![job.file] =
                           IF @ # <<>> /\ Head(@) = job.data THEN @ ELSE <<job.data>> \o @]
    /\ UNCHANGED <<cur, memVars>>

\* atomicfile.WriteFile, replaceFileAtomically: temporary file and rename.
Replace ==
    /\ job.pc = "replace"
    /\ \E bad \in BOOLEAN :
         /\ Fault(bad)
         /\ cur' = IF bad THEN cur ELSE [cur EXCEPT ![job.file] = [ver |-> job.data, patched |-> TRUE]]
    /\ job' = Free
    /\ UNCHANGED <<bak, saves, memVars>>

-----------------------------------------------------------------------------
\* The memory of df_auction_r; nothing locks it.

Restarts ==
    /\ Spend("restart") /\ pid' = pid + 1
    /\ mem' = [s \in Sites |-> IF mem[s] = 1 THEN 0 ELSE mem[s]]
    /\ UNCHANGED <<fileVars, pat>>

PatchBegins(p) ==
    /\ pat[p] = Off
    /\ pat' = [pat EXCEPT ![p] = [pc |-> "read", pid |-> pid, n |-> 1, before |-> <<>>, wrote |-> <<>>]]
    /\ UNCHANGED <<fileVars, mem, pid, left>>

Gone(p) == pat[p].pid # pid
Last(p) == pat[p].n = Cardinality(Sites)

\* isSupportedAuctionPatchOriginal, or patched already.
Supported(v) == v \in {0, 1}

\* The preflight: a site that is not found, cannot be read or is unknown means that
\* nothing is written.
Preflight(p) ==
    /\ pat[p].pc = "read"
    /\ LET v == mem[pat[p].n] IN
       \E bad \in BOOLEAN :
         /\ IF Gone(p) THEN bad /\ UNCHANGED left ELSE Fault(bad)
         /\ pat' = [pat EXCEPT ![p] =
              IF bad \/ ~Supported(v) THEN Off
              ELSE [pat[p] EXCEPT !.pc = IF Last(p) THEN "write" ELSE "read",
                                  !.n = IF Last(p) THEN 1 ELSE pat[p].n + 1,
                                  !.before = Append(pat[p].before, v)]]
    /\ UNCHANGED <<fileVars, mem, pid>>

Next1(p, r) == IF Last(p) THEN Off ELSE [r EXCEPT !.n = r.n + 1]

\* Mutant: the site that failed is not among those to restore.
AmongWrittenNot(w, n) == w

AmongWritten(w, n) == Append(w, n)

\* applyAuctionMemoryPatches: write and verify; the verification may fail after the
\* write worked.
ApplySite(p) ==
    /\ pat[p].pc = "write"
    /\ LET n == pat[p].n IN
       IF pat[p].before[n] = 1
       THEN pat' = [pat EXCEPT ![p] = Next1(p, pat[p])] /\ UNCHANGED <<mem, left>>
       ELSE \E done, bad \in BOOLEAN :
              /\ done \/ bad
              /\ IF Gone(p) THEN bad /\ ~done /\ UNCHANGED left ELSE Fault(bad)
              /\ mem' = IF done THEN [mem EXCEPT ![n] = 1] ELSE mem
              /\ pat' = [pat EXCEPT ![p] =
                   IF bad THEN [pat[p] EXCEPT !.pc = "undo", !.wrote = AmongWritten(pat[p].wrote, n)]
                   ELSE Next1(p, [pat[p] EXCEPT !.wrote = Append(pat[p].wrote, n)])]
    /\ UNCHANGED <<fileVars, pid>>

\* rollbackAuctionMemoryPatches, last one first, goes on after a failure.
RollbackSite(p) ==
    /\ pat[p].pc = "undo"
    /\ LET w == pat[p].wrote IN
       IF w = <<>> THEN pat' = [pat EXCEPT ![p] = Off] /\ UNCHANGED <<mem, left>>
       ELSE LET n == w[Len(w)] IN
            \E bad \in BOOLEAN :
              /\ IF Gone(p) THEN bad /\ UNCHANGED left ELSE Fault(bad)
              /\ mem' = IF bad THEN mem ELSE [mem EXCEPT ![n] = pat[p].before[n]]
              /\ pat' = [pat EXCEPT ![p].wrote = SubSeq(w, 1, Len(w) - 1)]
    /\ UNCHANGED <<fileVars, pid>>

Next ==
    \/ \E f \in File : VendorUpdates(f)
    \/ InstallAuctionSearchGuard \/ PatchPVFUpgradeSeparate
    \/ WriteTemp \/ RemoveOldest \/ Shift \/ Publish \/ Replace
    \/ Restarts
    \/ \E p \in Patcher : PatchBegins(p) \/ Preflight(p) \/ ApplySite(p) \/ RollbackSite(p)

Spec == Init /\ [][Next]_vars

-----------------------------------------------------------------------------
\* Properties.

\* What a patch replaced can be restored: a patched file's vendor version is among
\* the copies, and an interrupted Save that is repeated costs one copy and never the
\* newest: of the versions saved, all but the oldest one, and one more for each
\* interruption, are there (filebackup.go, marketapp_auction_guard.go,
\* pvf_upgrade_separate.go).
CanGoBack ==
    \A f \in File :
      LET copies == {bak[f][i] : i \in DOMAIN bak[f]}
          kept == Count - 1 - (MaxFaults - left.fault) IN
      /\ cur[f].patched => cur[f].ver \in copies
      /\ \A i \in DOMAIN saves[f] : i <= kept => saves[f][i] \in copies

\* While no call runs, df_auction_r has all bytes patched or none, whichever single
\* step failed, and when two calls overlap and no step fails
\* (applyAuctionMemoryPatches, rollbackAuctionMemoryPatches).
AllBytesOrNone ==
    (\A p \in DOMAIN pat : pat[p] = Off) => \A s, t \in Sites : mem[s] = 1 => mem[t] = 1
=============================================================================
