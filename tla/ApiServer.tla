------------------------------ MODULE ApiServer ------------------------------
(***************************************************************************)
(* The robot service's TCP API: network.TCPServer (one request per         *)
(* connection, limits on waiting and on served clients), the handlers of   *)
(* tcpapi with their background jobs and delete tokens, and the order in   *)
(* which runMain starts and tears down what the handlers use.              *)
(*                                                                         *)
(* A remote address may come back while the handler of its previous        *)
(* connection still runs.  Time is reduced to tokens that expire.          *)
(***************************************************************************)
EXTENDS Integers, Sequences, FiniteSets

CONSTANTS MaxConns,       \* connections made
          Addr, IpOf,     \* remote addresses and their IPs
          Loopback,       \* the IPs that are loopback
          MaxClients, MaxPending, MaxPendingIP,
          MaxTokens,      \* maxDangerousDeleteTokens
          Requests,       \* what a client may ask: "sync", "market", a job's
                          \* name, "unlock" and "delete"
          Env             \* what else happens: "reset" of a peer, the "key" changes

Conn == 1..MaxConns
Ip == {IpOf[a] : a \in Addr}
Job == Requests \cap {"online", "delete"}

VARIABLES conn,     \* connection -> addr, st, request, open, peer, first, registered
          srv,      \* running, closed, clients, connCount, pending, byIP, wg, acceptor
          main,     \* where runMain is
          tokens,   \* unexpired or not yet pruned: {[id, ip, old, at]}, at: order of issue
          issued,   \* connections whose unlock was granted: their token's name
          job,      \* name -> 0, or the goroutine: "named", "running", "finished"
          bg,       \* shuttingDown, count of backgroundWG
          key,      \* KeypairStatus().GameValid
          shown,    \* tokens that were presented through loopback, with good or bad outcome
          deletes   \* the deletes that were granted: token, was it shown before

vars == <<conn, srv, main, tokens, issued, job, bg, key, shown, deletes>>

None == 0
Init ==
    /\ conn = [c \in Conn |-> [addr |-> None, st |-> "new", ask |-> "none", token |-> None,
                               open |-> FALSE, peer |-> TRUE, registered |-> FALSE]]
    /\ srv = [running |-> FALSE, listening |-> FALSE, clients |-> [a \in Addr |-> None],
              connCount |-> 0, pending |-> 0, byIP |-> [i \in Ip |-> 0],
              wg |-> 0, acceptor |-> <<"off", None>>]
    /\ main = "boot" /\ tokens = {} /\ issued = {} /\ shown = {} /\ deletes = <<>>
    /\ job = [n \in Job |-> "no"] /\ bg = [stopping |-> FALSE, count |-> 0]
    /\ key = TRUE

Ipc(c) == IpOf[conn[c].addr]
To(c, s) == conn' = [conn EXCEPT ![c].st = s]

-----------------------------------------------------------------------------
\* Clients.

\* The address is free for the peer once it has given up its last connection.
Connect(c, a) ==
    /\ srv.listening /\ conn[c].st = "new" /\ \A d \in Conn : d < c => conn[d].st # "new"
    /\ \A d \in Conn : conn[d].addr = a => ~conn[d].peer \/ ~conn[d].open
    /\ conn' = [conn EXCEPT ![c].addr = a, ![c].st = "backlog", ![c].open = TRUE]
    /\ UNCHANGED <<srv, main, tokens, issued, job, bg, key, shown, deletes>>

PeerGone(c) ==
    /\ "reset" \in Env /\ conn[c].open /\ conn[c].peer /\ conn[c].st \notin {"new", "backlog"}
    /\ conn' = [conn EXCEPT ![c].peer = FALSE]
    /\ UNCHANGED <<srv, main, tokens, issued, job, bg, key, shown, deletes>>

\* The key pair is released or becomes invalid.
KeyChanges == /\ "key" \in Env /\ main = "run" /\ key' = ~key
              /\ UNCHANGED <<conn, srv, main, tokens, issued, job, bg, shown, deletes>>

-----------------------------------------------------------------------------
\* acceptLoop.

Accept(c) ==
    /\ srv.acceptor = <<"accept", None>> /\ srv.listening
    /\ conn[c].st = "backlog" /\ \A d \in Conn : d < c => conn[d].st # "backlog"
    /\ To(c, "taken")
    /\ srv' = [srv EXCEPT !.acceptor = <<"taken", c>>]
    /\ UNCHANGED <<main, tokens, issued, job, bg, key, shown, deletes>>

\* Accept fails or the loop's condition does, after Close.
AcceptEnds ==
    /\ srv.acceptor = <<"accept", None>> /\ ~srv.running
    /\ srv' = [srv EXCEPT !.acceptor = <<"off", None>>, !.wg = @ - 1]
    /\ UNCHANGED <<conn, main, tokens, issued, job, bg, key, shown, deletes>>

pendingLimitReachedLocked(i) == srv.pending >= MaxPending \/ srv.byIP[i] >= MaxPendingIP

\* What is decided under clientsMu: `running' is looked at once more.
Admitted(c) == srv.running /\ ~pendingLimitReachedLocked(Ipc(c))

Admit(c) ==
    /\ srv.acceptor = <<"taken", c>>
    /\ IF Admitted(c)
       THEN /\ srv' = [srv EXCEPT !.acceptor = <<"spawn", c>>, !.clients[conn[c].addr] = c,
                                  !.pending = @ + 1, !.byIP[Ipc(c)] = @ + 1]
            /\ UNCHANGED conn
       ELSE /\ srv' = [srv EXCEPT !.acceptor = IF srv.running THEN <<"accept", None>>
                                               ELSE <<"off", None>>,
                                  !.wg = IF srv.running THEN @ ELSE @ - 1]
            /\ conn' = [conn EXCEPT ![c].st = "gone", ![c].open = FALSE]
    /\ UNCHANGED <<main, tokens, issued, job, bg, key, shown, deletes>>

Spawn(c) ==
    /\ srv.acceptor = <<"spawn", c>>
    /\ srv' = [srv EXCEPT !.acceptor = <<"accept", None>>, !.wg = @ + 1]
    /\ To(c, "read")
    /\ UNCHANGED <<main, tokens, issued, job, bg, key, shown, deletes>>

-----------------------------------------------------------------------------
\* handleClient.

Alive(c) == conn[c].open /\ conn[c].peer

\* removePendingLocked; the counters never go below zero.
WithoutPending(s, i) ==
    [s EXCEPT !.pending = IF @ > 0 THEN @ - 1 ELSE 0, !.byIP[i] = IF @ > 0 THEN @ - 1 ELSE 0]

\* A frame that ends where the bytes end is counted (registerFirstPacket) and
\* dispatched; everything else is refused before (ReadFails).
Read(c, q, t) ==
    /\ conn[c].st = "read" /\ Alive(c)
    /\ IF srv.connCount < MaxClients
       THEN /\ srv' = [WithoutPending(srv, Ipc(c)) EXCEPT !.connCount = @ + 1]
            /\ conn' = [conn EXCEPT ![c].st = "dispatch", ![c].registered = TRUE,
                                    ![c].ask = q, ![c].token = t]
       ELSE To(c, "leave") /\ UNCHANGED srv
    /\ UNCHANGED <<main, tokens, issued, job, bg, key, shown, deletes>>

\* The read fails: closed by either side, a deadline, junk, too much of it.
ReadFails(c) ==
    /\ conn[c].st = "read"
    /\ To(c, "leave")
    /\ UNCHANGED <<srv, main, tokens, issued, job, bg, key, shown, deletes>>

\* SendTo: whoever is registered under the address now gets the answer.
Reply(c) ==
    /\ conn[c].st = "reply"
    /\ To(c, "leave")
    /\ UNCHANGED <<srv, main, tokens, issued, job, bg, key, shown, deletes>>

\* Mutant: the entry is removed by address, whoever owns it by now.
OwnEntryOrNot(c) == TRUE

OwnEntry(c) == srv.clients[conn[c].addr] = c

\* The deferred releaseClientLocked, Close and wg.Done.
Leave(c) ==
    /\ conn[c].st = "leave"
    /\ LET s1 == IF OwnEntry(c) THEN [srv EXCEPT !.clients[conn[c].addr] = None] ELSE srv
           s2 == IF conn[c].registered THEN [s1 EXCEPT !.connCount = IF @ > 0 THEN @ - 1 ELSE 0]
                 ELSE WithoutPending(s1, Ipc(c))
       IN  srv' = [s2 EXCEPT !.wg = @ - 1]
    /\ conn' = [conn EXCEPT ![c].st = "gone", ![c].open = FALSE]
    /\ UNCHANGED <<main, tokens, issued, job, bg, key, shown, deletes>>

-----------------------------------------------------------------------------
\* HandlePacket.

\* RequiresValidKeypair of the modelled commands.
RequiresValidKeypair(q) == q \in {"online"}

Refuse(c) ==
    /\ conn[c].st = "dispatch" /\ RequiresValidKeypair(conn[c].ask) /\ ~key
    /\ To(c, "reply")
    /\ UNCHANGED <<srv, main, tokens, issued, job, bg, key, shown, deletes>>

\* validateRequestPacket or decodePayload does not understand it.
Malformed(c) ==
    /\ conn[c].st = "dispatch"
    /\ To(c, "reply")
    /\ UNCHANGED <<srv, main, tokens, issued, job, bg, key, shown, deletes>>

\* Commands that do their work before they answer (a panic answers too); they
\* use the manager and the database meanwhile.
handleRobotCommand(c) ==
    /\ conn[c].st = "dispatch" /\ conn[c].ask = "sync"
    /\ To(c, "reply")
    /\ UNCHANGED <<srv, main, tokens, issued, job, bg, key, shown, deletes>>

\* The market's commands; those without a market run on both, one after the other.
handleMarketCommand(c) ==
    /\ conn[c].st = "dispatch" /\ conn[c].ask = "market"
    /\ To(c, "reply")
    /\ UNCHANGED <<srv, main, tokens, issued, job, bg, key, shown, deletes>>

\* dangerousDeleteUnlock: prune, evict the oldest, issue.
Pruned == {t \in tokens : ~t.old}
Oldest == CHOOSE t \in Pruned : \A u \in Pruned : t.at <= u.at
Unlock(c) ==
    /\ conn[c].st = "dispatch" /\ conn[c].ask = "unlock"
    /\ IF Ipc(c) \in Loopback
       THEN /\ tokens' = (IF Cardinality(Pruned) >= MaxTokens THEN Pruned \ {Oldest} ELSE Pruned)
                         \cup {[id |-> c, ip |-> Ipc(c), old |-> FALSE, at |-> Cardinality(issued) + 1]}
            /\ issued' = issued \cup {c}
       ELSE UNCHANGED <<tokens, issued>>
    /\ To(c, "reply")
    /\ UNCHANGED <<srv, main, job, bg, key, shown, deletes>>

Expire == /\ \E t \in tokens :
               /\ ~t.old /\ \A u \in tokens : u.at < t.at => u.old
               /\ tokens' = (tokens \ {t}) \cup {[t EXCEPT !.old = TRUE]}
          /\ UNCHANGED <<conn, srv, main, issued, job, bg, key, shown, deletes>>

\* Mutant: a token that is refused stays.
KeptIfRefused(t, good) == IF good THEN tokens \ {t} ELSE tokens

\* consumeDangerousDeleteToken: the token is gone whether it is accepted or not.
Consumed(t, good) == tokens \ {t}

\* queueExclusiveAction and queueRobotAction, first half: one job per name.
Named(c, n) == IF job[n] = "no"
               THEN job' = [job EXCEPT ![n] = "named"] /\ To(c, n)
               ELSE job' = job /\ To(c, "reply")

\* A client that is not local is refused before its token is looked at.
Delete(c) ==
    /\ conn[c].st = "dispatch" /\ conn[c].ask = "delete"
    /\ LET mine == {t \in tokens : t.id = conn[c].token} IN
       IF Ipc(c) \notin Loopback \/ mine = {}
       THEN To(c, "reply") /\ UNCHANGED <<tokens, job, deletes>>
       ELSE \E t \in mine :
              LET good == t.ip = Ipc(c) /\ ~t.old IN
              /\ tokens' = Consumed(t, good)
              /\ IF good
                 THEN Named(c, "delete") /\ deletes' = Append(deletes, [id |-> t.id, again |-> t.id \in shown])
                 ELSE To(c, "reply") /\ UNCHANGED <<job, deletes>>
    /\ shown' = IF Ipc(c) \in Loopback THEN shown \cup ({conn[c].token} \ {None}) ELSE shown
    /\ UNCHANGED <<srv, main, issued, bg, key>>

Online(c) ==
    /\ conn[c].st = "dispatch" /\ conn[c].ask = "online" /\ key
    /\ Named(c, "online")
    /\ UNCHANGED <<srv, main, tokens, issued, bg, key, shown, deletes>>

\* Its answer, under backgroundMu.
BeginBackgroundWork == ~bg.stopping

\* The second half: BeginBackgroundWork, then the goroutine.
Launch(c, n) ==
    /\ conn[c].st = n /\ job[n] = "named"
    /\ IF BeginBackgroundWork
       THEN job' = [job EXCEPT ![n] = "running"] /\ bg' = [bg EXCEPT !.count = @ + 1]
       ELSE job' = [job EXCEPT ![n] = "no"] /\ UNCHANGED bg
    /\ To(c, "reply")
    /\ UNCHANGED <<srv, main, tokens, issued, key, shown, deletes>>

\* The job ends, by a panic too: finish(), then its name is free again.
JobFinishes(n) ==
    /\ job[n] = "running"
    /\ job' = [job EXCEPT ![n] = "finished"] /\ bg' = [bg EXCEPT !.count = @ - 1]
    /\ UNCHANGED <<conn, srv, main, tokens, issued, key, shown, deletes>>

JobForgotten(n) ==
    /\ job[n] = "finished"
    /\ job' = [job EXCEPT ![n] = "no"]
    /\ UNCHANGED <<conn, srv, main, tokens, issued, bg, key, shown, deletes>>

-----------------------------------------------------------------------------
\* runMain.

\* TCPServer.Start.
Listening == [srv EXCEPT !.running = TRUE, !.listening = TRUE, !.wg = 1,
                         !.acceptor = <<"accept", None>>]

\* When it cannot listen, only what was set up before is torn down.
Start ==
    /\ main = "boot"
    /\ \/ main' = "run" /\ srv' = Listening
       \/ main' = "closed" /\ UNCHANGED srv
    /\ UNCHANGED <<conn, tokens, issued, job, bg, key, shown, deletes>>

\* TCPServer.Close, as its steps: the flag, the listener, the clients, the wait.
CloseFlag ==
    /\ main = "run" /\ main' = "flag"
    /\ srv' = [srv EXCEPT !.running = FALSE]
    /\ UNCHANGED <<conn, tokens, issued, job, bg, key, shown, deletes>>

CloseListener ==
    /\ main = "flag" /\ main' = "listener"
    /\ srv' = [srv EXCEPT !.listening = FALSE]
    /\ conn' = [c \in Conn |-> IF conn[c].st = "backlog"
                               THEN [conn[c] EXCEPT !.st = "gone", !.open = FALSE] ELSE conn[c]]
    /\ UNCHANGED <<tokens, issued, job, bg, key, shown, deletes>>

CloseClients ==
    /\ main = "listener" /\ main' = "wait"
    /\ conn' = [c \in Conn |-> IF \E a \in Addr : srv.clients[a] = c
                               THEN [conn[c] EXCEPT !.open = FALSE] ELSE conn[c]]
    /\ srv' = [srv EXCEPT !.clients = [a \in Addr |-> None]]
    /\ UNCHANGED <<tokens, issued, job, bg, key, shown, deletes>>

\* Mutant: only the accept loop counts.
AcceptorDone == srv.acceptor = <<"off", None>>

AllDone == srv.wg = 0

CloseWait ==
    /\ main = "wait" /\ AllDone /\ main' = "closed"
    /\ UNCHANGED <<conn, srv, tokens, issued, job, bg, key, shown, deletes>>

MarketDown ==
    /\ main = "closed" /\ main' = "market"
    /\ UNCHANGED <<conn, srv, tokens, issued, job, bg, key, shown, deletes>>

\* RobotManager.Shutdown: stopAndWaitBackgroundWork, then the rest.
stopAndWaitBackgroundWork ==
    /\ main = "market" /\ main' = "background"
    /\ bg' = [bg EXCEPT !.stopping = TRUE]
    /\ UNCHANGED <<conn, srv, tokens, issued, job, key, shown, deletes>>

ManagerDown ==
    /\ main = "background" /\ bg.count = 0 /\ main' = "down"
    /\ UNCHANGED <<conn, srv, tokens, issued, job, bg, key, shown, deletes>>

Ended == main = "down" /\ (\A n \in Job : job[n] = "no") /\ UNCHANGED vars

Next ==
    \/ \E c \in Conn :
         \/ \E a \in Addr : Connect(c, a)
         \/ PeerGone(c) \/ Accept(c) \/ Admit(c) \/ Spawn(c)
         \/ \E q \in Requests, t \in {None} \cup issued :
              (q # "delete" => t = None) /\ Read(c, q, t)
         \/ ReadFails(c) \/ Reply(c) \/ Leave(c) \/ Refuse(c) \/ Malformed(c)
         \/ handleRobotCommand(c) \/ handleMarketCommand(c)
         \/ Unlock(c) \/ Delete(c) \/ Online(c)
         \/ \E n \in Job : Launch(c, n)
    \/ \E n \in Job : JobFinishes(n) \/ JobForgotten(n)
    \/ KeyChanges \/ AcceptEnds \/ Expire
    \/ Start \/ CloseFlag \/ CloseListener \/ CloseClients \/ CloseWait
    \/ MarketDown \/ stopAndWaitBackgroundWork \/ ManagerDown \/ Ended

Spec == Init /\ [][Next]_vars

-----------------------------------------------------------------------------
\* Properties.

Handled == {c \in Conn : conn[c].st \notin {"new", "backlog", "taken", "gone"}
                         \/ srv.acceptor = <<"spawn", c>>}

\* Every place a connection takes is given back once: the counters behind the
\* limits are the connections that wait and that are served, in total and per
\* IP, and until Close the address of a client that still waits leads to its own
\* connection, whatever handlers of earlier ones do (tcpserver.go: add-, removePendingLocked, registerFirstPacket,
\* releaseClientLocked).
SlotsGivenBack ==
    LET waiting == {c \in Handled : ~conn[c].registered} IN
    /\ srv.pending = Cardinality(waiting)
    /\ \A i \in DOMAIN srv.byIP : srv.byIP[i] = Cardinality({c \in waiting : Ipc(c) = i})
    /\ srv.connCount = Cardinality(Handled \ waiting) /\ srv.connCount <= MaxClients
    /\ main \in {"run", "flag", "listener"} =>
         \A c \in Handled : conn[c].peer => srv.clients[conn[c].addr] = c

\* Nothing runs on what is torn down: when Close has returned no connection is
\* open and no handler runs, so no market command outlives the market; when the
\* manager is down no job runs, so nothing uses the database that is closed next
\* (main.go's order of defers, TCPServer.Close, stopAndWaitBackgroundWork).
NothingOutlives ==
    /\ main \in {"closed", "market", "background", "down"} =>
         \A c \in Conn : ~conn[c].open /\ conn[c].st \in {"new", "gone"}
    /\ main = "down" => \A n \in DOMAIN job : job[n] # "running"

\* An unlock pays for one dangerous delete at most, and only if it was asked for
\* through loopback; a token that was shown once through loopback, by whomever and
\* whether it was accepted or not, is of no use again (dangerous_delete_commands.go).
OneDeletePerUnlock ==
    \A n \in DOMAIN deletes :
      /\ ~deletes[n].again /\ Ipc(deletes[n].id) \in Loopback
      /\ \A m \in DOMAIN deletes : deletes[m].id = deletes[n].id => m = n

\* The three together.
ConnectionsAccounted == SlotsGivenBack /\ NothingOutlives /\ OneDeletePerUnlock
=============================================================================
