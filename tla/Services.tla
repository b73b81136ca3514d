------------------------------ MODULE Services ------------------------------
(***************************************************************************)
(* The services of the robot program: the manager's operations and its     *)
(* shutdown (ManagerOps), the mail notification (MailNotify), the key pair *)
(* and its cached status (KeyPair), the patches of the running game        *)
(* (GamePatches), the TCP API (ApiServer).                                 *)
(*                                                                         *)
(* They share no state.  Each is an instance here whose constants and      *)
(* variables are the ones of that name below, so a name that two of them   *)
(* use (`budget', `file') stands for that of the part at work: what is     *)
(* said of one instance says nothing of another one.                       *)
(***************************************************************************)
EXTENDS Parts, Integers

CONSTANTS Uid, Req, Kinds, ListMax, MaxReqs, Env,
          Charac, MaxMails, Limit, MaxPending, MaxPerPoll,
          Viewer, MaxLooks, MaxReleases,
          Patch, Ranges, DisableAfter, MaxEdits, MaxKills,
          MaxConns, Addr, IpOf, Loopback, MaxClients, MaxPendingIP, MaxTokens, Requests

VARIABLES req, rw, mu, ops, nextId, flag, cflag, auto, act, sup, pend, press, down, err, lost, budget,
          mail, told, lapsed, file, poll,
          stamp, mem, cache, proc,
          game, snap, web, got, op, fails, watch,
          conn, srv, main, tokens, issued, job, bg, key, shown, deletes

Manager == INSTANCE ManagerOps WITH left <- budget
Mail == INSTANCE MailNotify WITH left <- budget
Keys == INSTANCE KeyPair WITH left <- budget
Patches == INSTANCE GamePatches WITH left <- budget
Api == INSTANCE ApiServer

-----------------------------------------------------------------------------
(* What the theorems about a component need of its constants.              *)

ManagerConstants == ListMax \in Nat /\ 0 \notin Req

\* A mail becomes visible in the order of its number.
MailConstants ==
    /\ Charac \subseteq Nat \ {0} /\ MaxMails \in [Mail!Table -> Nat] /\ Limit \in Nat
    /\ "late" \notin Env

KeyConstants ==
    /\ "release" \notin Viewer /\ MaxLooks \in Int /\ MaxReleases \in Int /\ MaxFaults \in Int

\* The patch of the party, one failing write.
PatchConstants ==
    /\ Patch = "party" /\ 0 \notin Ranges /\ MaxFaults \in {0, 1}
    /\ MaxRestarts \in Nat /\ MaxEdits \in Nat /\ MaxKills \in Nat

ApiConstants == MaxConns \in Nat /\ MaxClients \in Nat

-----------------------------------------------------------------------------
(* Properties.                                                             *)

\* A structural operation that has the manager's lock finds no other one running;
\* and a shutdown that reports no error has ended every actor and the pressure
\* worker before the position writer was closed, also those of a request that was
\* attaching when the supervisor began to drain.
ManagerSafe ==
    /\ part = "manager" => Manager!ManagerSafe
    /\ part = "shutdown" => Manager!ShutdownCleans

\* Connections give their slots back, to themselves only; nothing of the server
\* outlives a Close that returned; a token unlocks one delete.
ConnectionsAccounted == part \in {"clients", "tokens", "jobs"} => Api!ConnectionsAccounted

\* The cached status of the key pair is that of the files whenever the cache would
\* be used, if nobody else changed them and no public key that a build derived from
\* an older private key was written over a newer one.
StatusIsCurrent == part = "keys" => Keys!StatusIsCurrent

\* A mail that the cursor has passed was told, has lapsed or is kept as pending.
PassedIsKept == part = "mail" => Mail!PassedIsKept

\* The game never has a branch to a cave without a routine, whenever the web admin
\* dies and whichever single write fails.
BranchHasRoutine == part = "party" => Patches!BranchHasRoutine
=============================================================================
