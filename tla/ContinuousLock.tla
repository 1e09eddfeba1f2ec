-------------------------- MODULE ContinuousLock --------------------------
(***************************************************************************)
(* The lock file of the continuous data pipeline                           *)
(* (scripts/run-continuous-data-pipeline.ts).  Several processes of one     *)
(* host start a loop over the same lock file.  acquireLock looks whether    *)
(* the file exists, reads it, removes it when it is stale and writes its    *)
(* own: separate file operations, between which other processes run.  A     *)
(* loop rewrites the file before every cycle and never looks whether the    *)
(* file is still its own.                                                   *)
(*                                                                         *)
(* A process may crash at any operation, be told to stop, or fail to write. *)
(* A pid is free again once its process is gone, and an unrelated process   *)
(* may take it.  Time passes in ticks, which age the file; a cycle or a     *)
(* sleep takes any number of them.                                          *)
(***************************************************************************)
EXTENDS Naturals

CONSTANTS
  Loop,      \* processes that start the script
  Once,      \* those started with --once
  Pid,       \* process ids
  StaleLock, \* staleLockMs in ticks
  Absent,    \* no lock file
  Unreadable \* a lock file whose text does not parse

\* The content of a lock file: updated_at is kept as the age of the record,
\* which stops counting once the record is too old.
LockRecord == [pid : Pid, age : 0..StaleLock + 1]

ASSUME OnceAssumption  == Once \subseteq Loop
ASSUME StaleAssumption == StaleLock \in Nat \ {0}
ASSUME FileAssumption  ==
  Absent # Unreadable /\ Absent \notin LockRecord /\ Unreadable \notin LockRecord

VARIABLES
  file,      \* the lock file: Absent, Unreadable or a lock record
  at,        \* the file operation each process is about to do
  pid,       \* its process id
  stopping,  \* it was sent SIGINT or SIGTERM
  calm       \* history: no two processes met at the file and no living
             \* loop's lock ever outlived StaleLock

lockVars == <<file, at, pid, stopping, calm>>

Acquiring == {"read", "remove", "create", "fill"}
Rewriting == {"refill", "abandon"}
Held      == {"renew", "cycle", "sleep", "release"} \cup Rewriting
Gone      == {"down", "exited"}
Step      == Gone \cup {"exists"} \cup Acquiring \cup Held

Live(l) == at[l] \notin Gone

MoveTo(l, step) == at' = [at EXCEPT ![l] = step]

\* What must not happen for the lock to be one.  While a process decides about
\* the file, no other decides about it and no loop is halfway through rewriting
\* it; and no loop lets its record grow too old.
Serial ==
  \A l, m \in Loop :
    l # m /\ at[l] \in Acquiring => at[m] \notin Acquiring \cup Rewriting

Timely ==
  (\E l \in Loop : at[l] \in Held) /\ file \in LockRecord => file.age <= StaleLock

Quiet == Serial /\ Timely

\* Part of every action: calm remembers whether every state was quiet.
Watch == calm' = (calm /\ Quiet')

LockInit ==
  /\ file = Absent
  /\ at = [l \in Loop |-> "down"]
  /\ pid \in [Loop -> Pid]
  /\ stopping = [l \in Loop |-> FALSE]
  /\ calm = TRUE

-----------------------------------------------------------------------------
(* acquireLock.                                                             *)

\* The process gets a pid no living loop has: often the one it had before its
\* restart.
Start(l) ==
  /\ ~Live(l)
  /\ \E p \in Pid :
       /\ \A m \in Loop : Live(m) => pid[m] # p
       /\ pid' = [pid EXCEPT ![l] = p]
  /\ stopping' = [stopping EXCEPT ![l] = FALSE]
  /\ MoveTo(l, "exists")
  /\ UNCHANGED file
  /\ Watch

Exists(l) ==
  /\ at[l] = "exists"
  /\ MoveTo(l, IF file = Absent THEN "create" ELSE "read")
  /\ UNCHANGED <<file, pid, stopping>>
  /\ Watch

\* process.kill(pid, 0) finds the pid of a living loop running; any other may be
\* free or belong to an unrelated process.
MayBeDead(p) == \A l \in Loop : Live(l) => pid[l] # p

\* Mutants of the two tests below: >= for >, and a running pid keeps its lock.
MayBeStaleAtLimit ==
  \/ file \in {Absent, Unreadable}
  \/ file \in LockRecord /\ (MayBeDead(file.pid) \/ file.age >= StaleLock)
MayBeFreshForever == file = Absent \/ file \in LockRecord

\* lockIsStale, over what the process reads.  A file that went away since
\* existsSync is either not found, hence not stale, or fails to be read, hence
\* stale.
MayBeStale ==
  \/ file \in {Absent, Unreadable}
  \/ file \in LockRecord /\ (MayBeDead(file.pid) \/ file.age > StaleLock)

MayBeFresh ==
  \/ file = Absent
  \/ file \in LockRecord /\ file.age <= StaleLock

\* Mutant of AfterRefusal: the refused starter passes through the finally block.
AfterRefusalFinally == "release"

\* A starter that is refused exits with code 2 and leaves the file alone.
AfterRefusal == "exited"

Read(l) ==
  /\ at[l] = "read"
  /\ \/ MayBeStale /\ MoveTo(l, "remove")
     \/ MayBeFresh /\ MoveTo(l, AfterRefusal)
  /\ UNCHANGED <<file, pid, stopping>>
  /\ Watch

\* rmSync with force: whatever lies there by now.
Remove(l) ==
  /\ at[l] = "remove"
  /\ file' = Absent
  /\ MoveTo(l, "create")
  /\ UNCHANGED <<pid, stopping>>
  /\ Watch

\* writeLock, first half: flag "w" creates the file or truncates the one that is
\* there, so that a reader in between, or after a crash in between, finds text
\* that does not parse.
Truncate(l) ==
  /\ \/ at[l] = "create" /\ MoveTo(l, "fill")
     \/ at[l] = "renew" /\ MoveTo(l, "refill")
  /\ file' = Unreadable
  /\ UNCHANGED <<pid, stopping>>
  /\ Watch

NewRecord(l) == [pid |-> pid[l], age |-> 0]

\* Second half.  A starter now enters the loop and rewrites the file for its
\* first cycle; a loop runs its cycle.
Fill(l) ==
  /\ \/ at[l] = "fill" /\ MoveTo(l, "renew")
     \/ at[l] = "refill" /\ MoveTo(l, "cycle")
  /\ file' = NewRecord(l)
  /\ UNCHANGED <<pid, stopping>>
  /\ Watch

-----------------------------------------------------------------------------
(* main.                                                                    *)

\* The child process of the cycle ended.  Writing the audit line may fail,
\* which leaves the loop as a failed writeLock does.
EndCycle(l) ==
  /\ at[l] = "cycle"
  /\ \/ l \notin Once /\ MoveTo(l, "sleep")
     \/ MoveTo(l, "release")
  /\ UNCHANGED <<file, pid, stopping>>
  /\ Watch

\* A stop request is looked at when the sleep is over, however long it is.
Wake(l) ==
  /\ at[l] = "sleep"
  /\ MoveTo(l, IF stopping[l] THEN "release" ELSE "renew")
  /\ UNCHANGED <<file, pid, stopping>>
  /\ Watch

\* releaseLock, in the finally block: whatever file lies there.
Release(l) ==
  /\ at[l] \in {"release", "abandon"}
  /\ file' = Absent
  /\ MoveTo(l, "exited")
  /\ UNCHANGED <<pid, stopping>>
  /\ Watch

\* The handlers run when main awaits.  A second signal, or one that comes before
\* they are installed, ends the process and counts as a crash.
Signal(l) ==
  /\ at[l] \in {"cycle", "sleep"}
  /\ stopping' = [stopping EXCEPT ![l] = TRUE]
  /\ UNCHANGED <<file, at, pid>>
  /\ Watch

\* A write that fails leaves the loop through its finally block; in acquireLock
\* it ends the process.
WriteFails(l) ==
  /\ \/ at[l] \in {"create", "fill"} /\ MoveTo(l, "down")
     \/ at[l] = "renew" /\ MoveTo(l, "release")
     \/ at[l] = "refill" /\ MoveTo(l, "abandon")
  /\ UNCHANGED <<file, pid, stopping>>
  /\ Watch

Die(l) ==
  /\ Live(l)
  /\ MoveTo(l, "down")
  /\ UNCHANGED <<file, pid, stopping>>
  /\ Watch

Tick ==
  /\ file \in LockRecord /\ file.age <= StaleLock
  /\ file' = [file EXCEPT !.age = @ + 1]
  /\ UNCHANGED <<at, pid, stopping>>
  /\ Watch

-----------------------------------------------------------------------------
Advance(l) ==
  \/ Exists(l) \/ Read(l) \/ Remove(l) \/ Truncate(l) \/ Fill(l)
  \/ EndCycle(l) \/ Wake(l) \/ Release(l)

LockNext ==
  \/ \E l \in Loop : Start(l) \/ Advance(l) \/ Signal(l) \/ WriteFails(l) \/ Die(l)
  \/ Tick

LockSpec == LockInit /\ [][LockNext]_lockVars

\* The scheduler starts a process that ended, every process goes on, and time
\* passes.
FairSpec ==
  /\ LockSpec
  /\ \A l \in Loop : WF_lockVars(Start(l)) /\ WF_lockVars(Advance(l))
  /\ WF_lockVars(Tick)

-----------------------------------------------------------------------------
TypeOK ==
  /\ file \in LockRecord \cup {Absent, Unreadable}
  /\ at \in [Loop -> Step]
  /\ pid \in [Loop -> Pid]
  /\ stopping \in [Loop -> BOOLEAN]
  /\ calm \in BOOLEAN

\* Without an exclusive create, an owner check or a heartbeat inside a cycle,
\* two loops still never run at once as long as no two processes meet at the
\* file and every cycle and sleep together stay within staleLockMs: crashes,
\* failed writes, half-written files and reused pids do no harm.
OneLoopWhileCalm ==
  calm => \A l, m \in Loop : at[l] \in Held /\ at[m] \in Held => l = m

\* And the file at the path is then the running loop's own, so that releaseLock,
\* which removes whatever it finds there, removes no other loop's lock.
HolderIsRecorded ==
  calm => \A l \in Loop :
    at[l] \in Held \ Rewriting => file \in LockRecord /\ file.pid = pid[l]

\* A lock left by a crash does not end the pipeline: however often starters are
\* refused, race or write half a file, and even if the dead loop's pid lives on
\* in another process, a loop runs again and again.
LoopResumes ==
  <>[][\A l \in Loop : ~Die(l) /\ ~WriteFails(l)]_lockVars =>
    []<>(\E l \in Loop : at[l] \in Held)
=============================================================================
