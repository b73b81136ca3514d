----------------------------- MODULE MailNotify -----------------------------
(***************************************************************************)
(* The mail notifier: a poll that the supervisor starts reads the letters  *)
(* and parcels that arrived since the saved cursors, remembers whom to     *)
(* tell, tells the game server, and saves cursors and pending characters   *)
(* in one file.  The manager runs one poll at a time and cancels it at the *)
(* shutdown; the process may end at any moment.                            *)
(*                                                                         *)
(* A mail is its table and number, and the character it is for (0: sent by *)
(* a player, who is told by the game).  settleDelay is zero.               *)
(***************************************************************************)
EXTENDS Integers, FiniteSets

CONSTANTS Charac,       \* character numbers
          MaxMails,     \* table -> number of mails
          Limit,        \* defaultQueryLimit
          MaxPending,   \* maxPendingMails
          MaxPerPoll,   \* maxMailsPerPoll
          MaxFaults,    \* failing queries, saves and notifications, process ends
          Env           \* "late": a mail is committed after one with a higher number;
                        \* "aged": a pending mail waits longer than pendingMailTTL;
                        \* "broken": the file becomes unreadable

Table == {"letter", "postal"}

VARIABLES mail,   \* table -> number -> character, -1 while there is none
          told,   \* the mails of which the character was told
          lapsed, \* those that a baseline or their age took out
          file,   \* cursor, pending, old; or NoState
          poll,   \* pc, st, tried, changed, cancelled
          down,   \* "no", "waiting", "yes"
          left

vars == <<mail, told, lapsed, file, poll, down, left>>

NoState == [cursor |-> [t \in Table |-> 0], pending |-> {}, old |-> {}, ok |-> FALSE]
NoPoll == [pc |-> "idle", st |-> NoState, tried |-> {}, changed |-> FALSE, cancelled |-> FALSE]

Init ==
    /\ mail = [t \in Table |-> [i \in 1..MaxMails[t] |-> -1]]
    /\ told = {} /\ lapsed = {} /\ file = NoState /\ poll = NoPoll /\ down = "no"
    /\ left = [fault |-> MaxFaults]

Spend == left.fault > 0 /\ left' = [left EXCEPT !.fault = @ - 1]
Fault(bad) == IF bad THEN Spend ELSE UNCHANGED left

Numbers(t) == {i \in 1..MaxMails[t] : mail[t][i] # -1}
Newest(t) == IF Numbers(t) = {} THEN 0 ELSE CHOOSE i \in Numbers(t) : \A j \in Numbers(t) : j <= i
Rows == UNION {{<<t, i>> : i \in 1..MaxMails[t]} : t \in Table}
Mails(c) == {m \in Rows : mail[m[1]][m[2]] = c}

-----------------------------------------------------------------------------
\* The game.

Arrive(t, i) ==
    /\ mail[t][i] = -1
    /\ "late" \in Env \/ \A j \in 1..(i - 1) : mail[t][j] # -1
    /\ \E c \in Charac \cup {0} : mail' = [mail EXCEPT ![t][i] = c]
    /\ UNCHANGED <<told, lapsed, file, poll, down, left>>

\* What happens to the file while no poll uses it.
Disturb ==
    /\ poll.pc = "idle" /\ file.ok
    /\ \/ "aged" \in Env /\ \E c \in file.pending \ file.old :
            file' = [file EXCEPT !.old = @ \cup {c}] /\ UNCHANGED left
       \/ "broken" \in Env /\ Spend /\ file' = NoState
    /\ UNCHANGED <<mail, told, lapsed, poll, down>>

-----------------------------------------------------------------------------
\* scheduler/mail_notify.go

\* pollMailNotifications: not while one runs or when automatic actions are off.
pollMailNotifications ==
    /\ poll.pc = "idle" /\ down = "no"
    /\ poll' = [NoPoll EXCEPT !.pc = "load"]
    /\ UNCHANGED <<mail, told, lapsed, file, down, left>>

\* stopAutoActions, then waitMailNotifications cancels ...
Shutdown ==
    /\ down = "no" /\ down' = "waiting"
    /\ poll' = IF poll.pc = "idle" THEN poll ELSE [poll EXCEPT !.cancelled = TRUE]
    /\ UNCHANGED <<mail, told, lapsed, file, left>>

\* ... and waits for the poll or for mailNotifyShutdownTimeout.
waitMailNotifications ==
    /\ down = "waiting" /\ down' = "yes"
    /\ Fault(poll.pc # "idle")
    /\ UNCHANGED <<mail, told, lapsed, file, poll>>

\* The process ends, orderly or not, and starts again.
Restart ==
    /\ Fault(down # "yes")
    /\ poll' = NoPoll /\ down' = "no"
    /\ UNCHANGED <<mail, told, lapsed, file>>

Ends == poll' = NoPoll

-----------------------------------------------------------------------------
\* Notifier.PollOnce

\* loadState; a saved list is never longer than MaxPending, so trimPendingMails cuts
\* nothing.
loadState ==
    /\ poll.pc = "load"
    /\ poll' = IF file.ok
               THEN [poll EXCEPT !.pc = "prune", !.st = file] ELSE [poll EXCEPT !.pc = "base"]
    /\ UNCHANGED <<mail, told, lapsed, file, down, left>>

\* Without a state the mails of this moment are the baseline.
currentCursor ==
    /\ poll.pc = "base"
    /\ \E bad \in BOOLEAN :
         /\ Fault(bad)
         /\ IF bad THEN Ends /\ UNCHANGED <<file, lapsed>>
            ELSE /\ file' = [NoState EXCEPT !.cursor = [t \in Table |-> Newest(t)], !.ok = TRUE]
                 /\ lapsed' = lapsed \cup {m \in Rows : m[2] <= Newest(m[1])}
                 /\ Ends
    /\ UNCHANGED <<mail, told, down>>

prunePendingMails ==
    /\ poll.pc = "prune"
    /\ LET old == poll.st.old IN
       poll' = [poll EXCEPT !.pc = IF Cardinality(poll.st.pending \ old) < MaxPending THEN "collect" ELSE "tell",
                   !.st.pending = @ \ old, !.st.old = {}, !.changed = old # {}]
    /\ UNCHANGED <<mail, told, lapsed, file, down, left>>

\* queryEvents: the first Limit rows after the cursor.
queryEvents(t) ==
    LET after == {i \in Numbers(t) : i > poll.st.cursor[t]} IN
    {i \in after : Cardinality({j \in after : j <= i}) <= Limit}

\* Mutant: the cursors move although some characters found no place.
AckAnyway(new, kept) == TRUE

\* "Do not acknowledge either source cursor until every event returned by this query
\* is durably represented in Pending."
Ack(new, kept) == new \subseteq kept

collect ==
    /\ poll.pc = "collect"
    /\ LET rows(t) == queryEvents(t)
           found == {mail[m[1]][m[2]] : m \in {x \in Rows : x[2] \in rows(x[1])}} \ {0}
           top(t) == IF rows(t) = {} THEN poll.st.cursor[t]
                     ELSE CHOOSE i \in rows(t) : \A j \in rows(t) : j <= i
           room == MaxPending - Cardinality(poll.st.pending) IN
       \E bad \in BOOLEAN, kept \in SUBSET (found \ poll.st.pending) :
         /\ Fault(bad)
         /\ Cardinality(kept) <= room
         /\ kept = found \ poll.st.pending \/ Cardinality(kept) = room
         /\ LET all == poll.st.pending \cup kept
                next == [t \in Table |-> IF Ack(found, all) THEN top(t) ELSE poll.st.cursor[t]] IN
            IF bad THEN Ends
            ELSE poll' = [poll EXCEPT !.pc = "tell", !.st.pending = all, !.st.cursor = next,
                            !.changed = @ \/ kept # {} \/ next # poll.st.cursor]
    /\ UNCHANGED <<mail, told, lapsed, file, down>>

\* Mutant: a character that could not be told is forgotten.
ForgetAll(pending, c, bad) == pending \ {c}

Forget(pending, c, bad) == IF bad THEN pending ELSE pending \ {c}

\* NotifyNewMail, in any order; the character is told of all that has arrived.
NotifyNewMail(c) ==
    /\ poll.pc = "tell" /\ ~poll.cancelled
    /\ c \in poll.st.pending \ poll.tried /\ Cardinality(poll.tried) < MaxPerPoll
    /\ \E bad \in BOOLEAN :
         /\ Fault(bad)
         /\ told' = IF bad THEN told ELSE told \cup Mails(c)
         /\ poll' = [poll EXCEPT !.tried = @ \cup {c}, !.changed = @ \/ ~bad,
                       !.st.pending = Forget(@, c, bad)]
    /\ UNCHANGED <<mail, lapsed, file, down>>

AllTried == poll.st.pending \subseteq poll.tried \/ Cardinality(poll.tried) >= MaxPerPoll

\* saveState, atomically; what a cancelled poll has done so far is saved too.
saveState ==
    /\ poll.pc = "tell" /\ (poll.cancelled \/ AllTried)
    /\ \E bad \in BOOLEAN :
         /\ IF poll.changed THEN Fault(bad) ELSE UNCHANGED left
         /\ IF poll.changed /\ ~bad
            THEN /\ file' = poll.st
                 /\ lapsed' = lapsed \cup {m \in UNION {Mails(c) : c \in file.old} : m[2] <= file.cursor[m[1]]}
            ELSE UNCHANGED <<file, lapsed>>
    /\ Ends /\ UNCHANGED <<mail, told, down>>

Next ==
    \/ \E m \in Rows : Arrive(m[1], m[2])
    \/ Disturb \/ pollMailNotifications \/ Shutdown \/ waitMailNotifications \/ Restart
    \/ loadState \/ currentCursor \/ prunePendingMails \/ collect \/ saveState
    \/ \E c \in Charac : NotifyNewMail(c)

Spec == Init /\ [][Next]_vars

-----------------------------------------------------------------------------
\* Properties.

\* No mail is skipped: whatever the saved cursors have passed was told to its
\* character, or the character is among the saved pending ones, or a baseline or
\* pendingMailTTL took it out; through failing queries, saves and notifications, a
\* full pending list and a process that ends between any two steps (collect, poll).
PassedIsKept ==
    file.ok => \A m \in Rows :
                 LET c == mail[m[1]][m[2]] IN
                 m[2] <= file.cursor[m[1]] /\ c > 0 => m \in told \cup lapsed \/ c \in file.pending
=============================================================================
