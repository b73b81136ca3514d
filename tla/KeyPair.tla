------------------------------- MODULE KeyPair -------------------------------
(***************************************************************************)
(* The RSA key pair of the game, its copy in the robot's configuration     *)
(* directory, the key the robot holds in memory, and the cached status     *)
(* that every tick of the supervisor and every robot command of the API    *)
(* looks at: capability/keypair.                                           *)
(***************************************************************************)
EXTENDS Integers

CONSTANTS Viewer,     \* callers of BuildKeypairStatus without the cache: diagnostics
          MaxLooks,   \* builds of the status by CurrentStatus and the viewers
          MaxReleases,
          MaxFaults,  \* failing writes, and files put there by hand
          Env         \* "operator": somebody puts a pair into the game's directory by hand

VARIABLES file,      \* the four files: "none", "d": default, "u": user, "bad": not a key
          stamp,     \* changes of size or modification time of the four, together
          mem,       \* the key in memory
          cache,     \* valid, stamp, loaded, status
          proc,      \* "current": CurrentStatus, alone under the cache's mutex;
                     \* "release": ReleaseDefault; and the viewers
          left       \* bounds, and history: a derived public key replaced another one

vars == <<file, stamp, mem, cache, proc, left>>

Files == {"gamePriv", "gamePub", "cfgPriv", "cfgPub"}
Proc == {"current", "release"} \cup Viewer
IsKey(k) == k \in {"d", "u"}
GameValid == IsKey(file["gamePriv"]) /\ file["gamePub"] = file["gamePriv"]

\* One call: whether it found no public key, the private key it read, whether the pair
\* is valid, what it copies, and whether it answers with an error.
Idle == [pc |-> "idle", derive |-> FALSE, priv |-> "none", valid |-> FALSE, copy |-> "none",
         err |-> FALSE]

\* initRSA has loaded the key of a valid pair, or nothing.
Init ==
    /\ file \in [Files -> {"none", "u", "bad"}]
    /\ file["cfgPriv"] = file["cfgPub"] /\ file["cfgPriv"] # "bad"
    /\ file["gamePriv"] \in {file["gamePub"], "u"}
    /\ mem = IF GameValid THEN file["gamePriv"] ELSE "none"
    /\ GameValid => file["cfgPriv"] = file["gamePriv"]
    /\ stamp = 1
    /\ cache = [valid |-> FALSE, stamp |-> 0, loaded |-> FALSE, status |-> FALSE]
    /\ proc = [p \in Proc |-> Idle]
    /\ left = [look |-> MaxLooks, release |-> MaxReleases, fault |-> MaxFaults, crossed |-> FALSE]

To(p, pc) == proc' = [proc EXCEPT ![p].pc = pc]
Put(f, k) == file' = [file EXCEPT ![f] = k] /\ stamp' = stamp + 1
Fault == left.fault > 0 /\ left' = [left EXCEPT !.fault = @ - 1]

-----------------------------------------------------------------------------
\* BuildKeypairStatus, as a step of whoever calls it.

\* ensureGameKeypair returns, without or with an error.
Returns(p, valid) ==
    proc' = [proc EXCEPT ![p] = [Idle EXCEPT !.pc = IF valid THEN "source" ELSE "built",
                                             !.valid = valid, !.err = proc[p].err]]

\* Which of the two files are there.  Files never go, so the two looks are one.
StatPair(p) ==
    /\ proc[p].pc = "stat"
    /\ IF file["gamePriv"] = "none" THEN Returns(p, FALSE)
       ELSE proc' = [proc EXCEPT ![p].pc = "priv", ![p].derive = (file["gamePub"] = "none")]
    /\ UNCHANGED <<file, stamp, mem, cache, left>>

ReadPrivate(p) ==
    /\ proc[p].pc = "priv"
    /\ IF IsKey(file["gamePriv"])
       THEN proc' = [proc EXCEPT ![p].pc = "pub", ![p].priv = file["gamePriv"]]
       ELSE Returns(p, FALSE)
    /\ UNCHANGED <<file, stamp, mem, cache, left>>

\* A public key that was missing is derived from the private key and written, whatever
\* is there by now.
DerivePublic(p) ==
    /\ proc[p].pc = "pub" /\ proc[p].derive
    /\ \/ /\ Returns(p, TRUE) /\ Put("gamePub", proc[p].priv)
          /\ left' = [left EXCEPT !.crossed = @ \/ file["gamePub"] \notin {"none", proc[p].priv}]
       \/ Fault /\ Returns(p, FALSE) /\ UNCHANGED <<file, stamp>>
    /\ UNCHANGED <<mem, cache>>

ReadPublic(p) ==
    /\ proc[p].pc = "pub" /\ ~proc[p].derive
    /\ Returns(p, file["gamePub"] = proc[p].priv)
    /\ UNCHANGED <<file, stamp, mem, cache, left>>

\* copyKeypairToConfig: each file is read again and written when the copy differs; an
\* error is noted and ends the copying.
ReadSource(p) ==
    /\ proc[p].pc \in {"source", "source2"}
    /\ proc' = [proc EXCEPT ![p].pc = IF @ = "source" THEN "copy" ELSE "copy2",
                            ![p].copy = file[IF proc[p].pc = "source" THEN "gamePriv" ELSE "gamePub"]]
    /\ UNCHANGED <<file, stamp, mem, cache, left>>

copyFileIfDifferent(p) ==
    /\ proc[p].pc \in {"copy", "copy2"}
    /\ LET dst == IF proc[p].pc = "copy" THEN "cfgPriv" ELSE "cfgPub"
           ends(pc) == proc' = [proc EXCEPT ![p].pc = pc, ![p].copy = "none"] IN
       \/ /\ ends(IF proc[p].pc = "copy" THEN "source2" ELSE "built") /\ UNCHANGED left
          /\ IF file[dst] = proc[p].copy THEN UNCHANGED <<file, stamp>> ELSE Put(dst, proc[p].copy)
       \/ ends("built") /\ Fault /\ UNCHANGED <<file, stamp>>
    /\ UNCHANGED <<mem, cache>>

BuildKeypairStatus(p) ==
    \/ StatPair(p) \/ ReadPrivate(p) \/ DerivePublic(p) \/ ReadPublic(p)
    \/ ReadSource(p) \/ copyFileIfDifferent(p)

-----------------------------------------------------------------------------
\* Who looks.

CacheHit == cache.valid /\ cache.stamp = stamp /\ cache.loaded = (mem # "none")

\* CurrentStatus without a hit, and the diagnostics of the web administration.
Look(p) ==
    /\ p # "release" /\ proc[p].pc = "idle" /\ left.look > 0
    /\ p = "current" => ~CacheHit
    /\ To(p, "stat") /\ left' = [left EXCEPT !.look = @ - 1]
    /\ UNCHANGED <<file, stamp, mem, cache>>

\* The entry's key is taken after the build, in the same call.
Store ==
    /\ proc["current"].pc = "built" /\ proc' = [proc EXCEPT !["current"] = Idle]
    /\ cache' = [valid |-> TRUE, stamp |-> stamp, loaded |-> mem # "none",
                 status |-> proc["current"].valid]
    /\ UNCHANGED <<file, stamp, mem, left>>

Viewed(v) ==
    /\ proc[v].pc = "built" /\ proc' = [proc EXCEPT ![v] = Idle]
    /\ UNCHANGED <<file, stamp, mem, cache, left>>

-----------------------------------------------------------------------------
\* ReleaseDefault.

\* invalidateStatusCache waits for a CurrentStatus that is under way.
CacheFree == proc["current"].pc = "idle"

\* Mutant: the stamps of the files are trusted.
InvalidateNot == CacheFree /\ UNCHANGED cache

Invalidate == CacheFree /\ cache' = [cache EXCEPT !.valid = FALSE]

ReleaseDefault ==
    /\ proc["release"].pc = "idle" /\ left.release > 0
    /\ left' = [left EXCEPT !.release = @ - 1]
    /\ Invalidate /\ To("release", "gamePriv")
    /\ UNCHANGED <<file, stamp, mem>>

After(f) == CASE f = "gamePriv" -> "gamePub" [] f = "gamePub" -> "cfgPriv"
              [] f = "cfgPriv" -> "cfgPub" [] f = "cfgPub" -> "init"

\* writeDefaultKeypairToGameAndConfig; an error is answered with a status, built anew.
WriteDefault ==
    /\ proc["release"].pc \in Files
    /\ LET f == proc["release"].pc IN
       \/ Put(f, "d") /\ To("release", After(f)) /\ UNCHANGED left
       \/ /\ Fault /\ UNCHANGED <<file, stamp>>
          /\ proc' = [proc EXCEPT !["release"].pc = "stat", !["release"].err = TRUE]
    /\ UNCHANGED <<mem, cache>>

\* InitPrivateKey from the copy, publishRuntimeKey; it invalidates as well.
InitPrivateKey ==
    /\ proc["release"].pc = "init" /\ Invalidate
    /\ mem' = IF IsKey(file["cfgPriv"]) THEN file["cfgPriv"] ELSE mem
    /\ To("release", "stat")
    /\ UNCHANGED <<file, stamp, left>>

\* After the build; the answer of an error leaves the cache alone.
Released ==
    /\ proc["release"].pc = "built" /\ proc' = [proc EXCEPT !["release"] = Idle]
    /\ IF proc["release"].err THEN UNCHANGED cache ELSE Invalidate
    /\ UNCHANGED <<file, stamp, mem, left>>

\* A file of the game's directory is replaced.
Operator(f) ==
    /\ "operator" \in Env /\ Fault /\ Put(f, "u")
    /\ UNCHANGED <<mem, cache, proc>>

Next ==
    \/ \E p \in Proc : BuildKeypairStatus(p) \/ Look(p)
    \/ Store \/ \E v \in Viewer : Viewed(v)
    \/ ReleaseDefault \/ WriteDefault \/ InitPrivateKey \/ Released
    \/ \E f \in {"gamePriv", "gamePub"} : Operator(f)

Spec == Init /\ [][Next]_vars

-----------------------------------------------------------------------------
\* Properties.

Quiet == \A p \in Proc : proc[p].pc = "idle"
Undisturbed == left.fault = MaxFaults /\ ~left.crossed

\* When nobody is at work, a status that the cache would answer with is that of the
\* files: a build that read the game's directory before ReleaseDefault and took the
\* stamps after it does not leave "invalid" behind for good, which would block every
\* robot command (CurrentStatus, ReleaseDefault).  The claim ends with the first write
\* that fails and the first file that is replaced by hand, which invalidate nothing,
\* and with the first derived public key that replaces another one: a build that found
\* no public key before ReleaseDefault and writes the old one after it.
StatusIsCurrent == Undisturbed /\ Quiet /\ CacheHit => cache.status = GameValid
=============================================================================
