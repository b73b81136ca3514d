------------------------------ MODULE LogFiles ------------------------------
(***************************************************************************)
(* The bounded, rotated log files: foundation/logfile and its three        *)
(* writers, each alone on its path.                                        *)
(*   "robot"  : dnf/log.go, a buffered writer flushed by a timer; a failed *)
(*              rotation is noted and the log goes on                      *)
(*   "market" : appendLog of the market, opened by the first event and     *)
(*              again after an error                                       *)
(*   "sink"   : the process that copies a robot's output, which ends with  *)
(*              the first error                                            *)
(* A byte is the number of its place in everything that reached the files. *)
(* A missing file and an empty one are the same here.                      *)
(***************************************************************************)
EXTENDS Integers, Sequences

LOCAL INSTANCE SequencesExt

CONSTANTS Kind,
          FileMax,    \* bytes of one file
          Backups,    \* numbered backups kept
          Sizes,      \* bytes of a record
          MaxBytes, MaxFaults, MaxRestarts

VARIABLES kind,
          file,     \* 0: the active file; i: path.i; Backups + 1: left by an older version
          pc,       \* "down", "closed", "prepare", "ready", "rotate", "open", "write", "put", "off"
          at,       \* file of the step
          size,     \* what the writer believes the active file holds
          want,     \* bytes of the record that are not written yet
          buf,      \* bytes in the robot's buffer
          dead,     \* its bufio.Writer has failed: it takes nothing more
          written,  \* bytes that reached the files
          settled,  \* a Prepare has ended
          trimmed,  \* a file was cut to its tail
          left

vars == <<kind, file, pc, at, size, want, buf, dead, written, settled, trimmed, left>>

Files == 0 .. Backups + 1
Bytes(a, n) == [i \in 1 .. n |-> a + i - 1]

\* An older version may have left a file that is too long, and more backups.
Init ==
    /\ kind \in Kind
    /\ \E old \in {0, 1, FileMax, FileMax + 1}, more \in BOOLEAN :
         /\ file = [i \in Files |-> IF i = 0 THEN Bytes(IF more THEN 2 ELSE 1, old)
                                    ELSE IF more /\ i = Backups + 1 THEN <<1>> ELSE <<>>]
         /\ written = old + (IF more THEN 1 ELSE 0)
    /\ pc = "down" /\ at = 0 /\ size = 0 /\ want = 0 /\ buf = 0 /\ dead = FALSE
    /\ settled = FALSE /\ trimmed = FALSE
    /\ left = [byte |-> MaxBytes, fault |-> MaxFaults, restart |-> MaxRestarts]

Goto(p, i) == pc' = p /\ at' = i
Fault == left.fault > 0 /\ left' = [left EXCEPT !.fault = @ - 1]

\* What the writer does with an error: the market closes its writer and drops the event,
\* the sink ends, the robot ends when LogInit fails and opens the file again when
\* Rotate fails.
Failed ==
    /\ want' = IF kind = "robot" /\ pc = "rotate" THEN want ELSE 0
    /\ IF kind = "market" THEN Goto("closed", 0)
       ELSE IF kind = "robot" /\ pc = "rotate" THEN Goto("open", 0) ELSE Goto("down", 0)

-----------------------------------------------------------------------------
\* Opening.

\* The robot and the sink prepare when they start, the market with its first event.
Start ==
    /\ pc = "down" /\ left.restart > 0 /\ left' = [left EXCEPT !.restart = @ - 1]
    /\ IF kind = "market" THEN Goto("closed", 0) ELSE Goto("prepare", 0)
    /\ UNCHANGED <<kind, file, size, want, buf, dead, written, settled, trimmed>>

\* trimToTail: the tail is copied beside the file and renamed over it.
trimToTail(f) == IF Len(f) <= FileMax THEN f ELSE SubSeq(f, Len(f) - FileMax + 1, Len(f))

\* Prepare and prepareBackups, one file at a time.
Prepare ==
    /\ pc = "prepare"
    /\ \/ /\ file' = [file EXCEPT ![at] = IF at > Backups THEN <<>> ELSE trimToTail(@)]
          /\ trimmed' = (trimmed \/ (at <= Backups /\ Len(file[at]) > FileMax))
          /\ IF at <= Backups THEN Goto("prepare", at + 1) ELSE Goto("open", 0)
          /\ settled' = (settled \/ at = Backups + 1)
          /\ UNCHANGED <<want, left>>
       \/ Fault /\ Failed /\ UNCHANGED <<file, settled, trimmed>>
    /\ UNCHANGED <<kind, size, buf, dead, written>>

\* Mutant: what the file already holds is not counted.
SizeZero == 0

SizeOfFile == Len(file[0])

\* open: O_APPEND, and the size from Stat; a robot that cannot open the file after a
\* rotation logs nothing more.
Open ==
    /\ pc = "open"
    /\ \/ size' = SizeOfFile /\ Goto(IF want = 0 THEN "ready" ELSE IF kind = "robot" THEN "put" ELSE "write", 0)
          /\ UNCHANGED <<want, left>>
       \/ /\ Fault /\ UNCHANGED size
          /\ IF kind = "robot" /\ want > 0 THEN Goto("off", 0) /\ want' = 0 ELSE Failed
    /\ buf' = 0 /\ dead' = FALSE
    /\ UNCHANGED <<kind, file, written, settled, trimmed>>

-----------------------------------------------------------------------------
\* A record.

Exceeds(n) == IF kind = "sink" THEN size >= FileMax ELSE size > 0 /\ size + n > FileMax

\* appendLog, logStringLocked, Write of the sink: rotate first when the record does not fit.
Record ==
    /\ \/ pc = "ready"
       \/ pc = "closed" /\ kind = "market"
    /\ \E n \in Sizes :
         /\ n <= left.byte /\ left' = [left EXCEPT !.byte = @ - n]
         /\ want' = n
         /\ IF pc = "closed" THEN Goto("prepare", 0) ELSE Goto("write", 0)
    /\ UNCHANGED <<kind, file, size, buf, dead, written, settled, trimmed>>

\* Whether and where a rotation begins; the robot flushes its buffer before it.
NeedsRotation ==
    /\ pc = "write" /\ want > 0 /\ Exceeds(want) /\ (buf = 0 \/ dead)
    /\ Goto("rotate", Backups)
    /\ UNCHANGED <<kind, file, size, want, buf, dead, written, settled, trimmed, left>>

\* Mutant: an error of one rename is passed over.
ShiftGoesOn == Goto("rotate", at - 1) /\ UNCHANGED want

ShiftFailed == Failed

\* Rotate: the oldest is removed, path.i becomes path.(i + 1), the active file path.1.
Rotate ==
    /\ pc = "rotate"
    /\ \/ /\ file' = IF at = Backups THEN [file EXCEPT ![Backups] = <<>>]
                     ELSE IF file[at] = <<>> THEN file
                     ELSE [file EXCEPT ![at + 1] = file[at], ![at] = <<>>]
          /\ IF at = 0 THEN Goto("open", 0) ELSE Goto("rotate", at - 1)
          /\ UNCHANGED <<want, left>>
       \/ Fault /\ (IF at > 0 /\ at < Backups THEN ShiftFailed ELSE Failed) /\ UNCHANGED file
    /\ UNCHANGED <<kind, size, buf, dead, written, settled, trimmed>>

Reach(n) ==
    /\ file' = [file EXCEPT ![0] = @ \o Bytes(written + 1, n)]
    /\ written' = written + n

\* Append and the chunk of the sink; an error may come after some of the bytes.
Write ==
    /\ pc = "write" /\ want > 0 /\ ~Exceeds(want) /\ kind # "robot"
    /\ LET n == IF kind = "sink" /\ want > FileMax - size THEN FileMax - size ELSE want IN
       \/ /\ Reach(n) /\ size' = size + n /\ want' = want - n
          /\ Goto(IF want = n THEN "ready" ELSE "write", 0) /\ UNCHANGED left
       \/ \E part \in 0 .. n - 1 : Fault /\ Failed /\ Reach(part) /\ size' = size + part
    /\ UNCHANGED <<kind, buf, dead, settled, trimmed>>

\* The robot's record goes to the buffer; after a rotation whatever its size.
WriteString ==
    /\ kind = "robot" /\ want > 0
    /\ pc = "put" \/ (pc = "write" /\ ~Exceeds(want))
    /\ buf' = (IF dead THEN buf ELSE buf + want) /\ size' = (IF dead THEN size ELSE size + want)
    /\ want' = 0 /\ Goto("ready", 0)
    /\ UNCHANGED <<kind, file, dead, written, settled, trimmed, left>>

\* flushLogLocked: by the timer, before a rotation, and by the writer itself when full.
Flush ==
    /\ kind = "robot" /\ pc \in {"ready", "write"} /\ buf > 0 /\ ~dead
    /\ \/ Reach(buf) /\ buf' = 0 /\ UNCHANGED <<dead, left>>
       \/ \E part \in 0 .. buf - 1 : Fault /\ Reach(part) /\ buf' = buf - part /\ dead' = TRUE
    /\ UNCHANGED <<kind, pc, at, size, want, settled, trimmed>>

\* The process ends in any step; LogClose flushes before it.
Exit ==
    /\ pc # "down" /\ left.restart > 0
    /\ Goto("down", 0) /\ want' = 0 /\ buf' = 0 /\ dead' = FALSE
    /\ UNCHANGED <<kind, file, size, written, settled, trimmed, left>>

Next == Start \/ Prepare \/ Open \/ Record \/ NeedsRotation \/ Rotate \/ Write \/ WriteString \/ Flush \/ Exit

-----------------------------------------------------------------------------
\* Properties.

\* Once Prepare has ended, no file is longer than FileMax and none lies beyond the last
\* backup, whatever fails and wherever the process ends; only the robot's log may grow
\* after a rotation failed, because it goes on writing (Append, rotatingWriter.Write,
\* rotateLogIfNeededLocked).
Bounded ==
    settled /\ (kind = "robot" => left.fault = MaxFaults) =>
        file[Backups + 1] = <<>> /\ \A i \in Files : Len(file[i]) <= FileMax

\* Read from the oldest backup to the active file, the log is everything that was
\* written last, in its order and without a gap, also after a rotation that failed half
\* way or was cut short and repeated (Rotate); only a file too long leaves one.
LogHasNoGap ==
    LET tail == FlattenSeq([i \in 1 .. Backups + 2 |-> file[Backups + 2 - i]]) IN
    /\ trimmed \/ \A i \in DOMAIN tail : tail[i] = written - Len(tail) + i
    /\ \A i \in 1 .. Len(tail) - 1 : tail[i] < tail[i + 1]
=============================================================================
