------------------------------ MODULE FileLock ------------------------------
(***************************************************************************)
(* The advisory lock file of utils/state.rs.  Every hook invocation is a   *)
(* process of its own; all of them serialise on one path by creating it    *)
(* with O_EXCL (FileLockGuard::acquire) and removing it on Drop.  A lock   *)
(* whose timestamp is older than LOCK_STALE_MS may be removed by anybody.  *)
(* Holders of the session-operation lock refresh the timestamp from a      *)
(* heartbeat thread; holders of an ordinary state-file lock do not.        *)
(*                                                                         *)
(* Time is counted in ticks and only as ages: the age of the timestamp in  *)
(* the file at the path, and the time each process has spent in its        *)
(* current phase.  Both saturate just above StaleAfter, the only threshold *)
(* the code compares an age with.                                          *)
(***************************************************************************)
EXTENDS Integers

CONSTANTS
    Proc,          \* the processes that use this lock path
    Beating,       \* those that acquire it with heartbeat = true
    Attempts,      \* LOCK_WAIT_ATTEMPTS
    StaleAfter,    \* LOCK_STALE_MS
    Period,        \* LOCK_HEARTBEAT_MS
    MaxHold,       \* how long an operation without a heartbeat may hold the lock
    Slack,         \* how long the scheduler may delay a step between two system calls
    MaxFaults,     \* bound: crashes, suspensions, failed heartbeats and failed removals
    NoLock,        \* no file at the path
    Blank          \* a file at the path with no token, or with that of a guard that is gone

\* The timing the lock relies on.  The last two facts about the numbers hold of
\* the source's constants (5 s and 30 s) whenever the scheduler delays no step
\* by more than 8 s and no plain operation takes more than 14 s.
ASSUME LockAssumption ==
    /\ Beating \subseteq Proc
    /\ NoLock \notin Proc /\ Blank \notin Proc /\ NoLock # Blank
    /\ Attempts \in Nat \ {0}
    /\ StaleAfter \in Nat /\ Period \in Nat /\ MaxHold \in Nat /\ Slack \in Nat
    /\ MaxFaults \in Nat
    /\ Period + 3 * Slack <= StaleAfter
    /\ MaxHold + 2 * Slack <= StaleAfter

VARIABLES
    pc,       \* pc[p]: where p is in acquire / the operation / drop
    tries,    \* tries[p]: iterations of the acquire loop that are left
    lock,     \* the file at the path: NoLock, Blank or the process whose token it holds
    age,      \* age of the timestamp in that file
    spent,    \* spent[p]: ticks p has spent in its current timed phase
    mute,     \* holders whose heartbeat thread has exited on a write error
    late,     \* processes that missed a timing assumption since their last start
    faults    \* faults so far

vars == <<pc, tries, lock, age, spent, mute, late, faults>>

Phase == {"idle", "create", "judge", "steal", "sleep", "write", "held",
          "verify", "unlink", "crashed"}

\* Phases whose duration matters: between a stale verdict and the removal it
\* causes, between creating the file and stamping it, the operation itself,
\* and the drop of the guard.
Timed == {"steal", "write", "held", "verify", "unlink"}

\* From the successful create_new to the last line of drop.
Inside(p) == pc[p] \in {"write", "held", "verify", "unlink"}

\* The guard is alive and its operation runs.
Holding(p) == pc[p] = "held"

Live(p) == pc[p] # "crashed" /\ p \notin late

\* Longest time between two refreshes of p's timestamp while p holds the lock.
Hold(p) == IF p \in Beating THEN Period + Slack ELSE MaxHold

Older(a) == IF a > StaleAfter THEN a ELSE a + 1

Init ==
    /\ pc = [p \in Proc |-> "idle"]
    /\ tries = [p \in Proc |-> 0]
    /\ lock = NoLock
    /\ age = 0
    /\ spent = [p \in Proc |-> 0]
    /\ mute = {}
    /\ late = {}
    /\ faults = 0

\* remove_file(lock_path) by p, whatever file is there; an absent file has no
\* age.  A failure to remove it is ignored: the file stays, and when it was p's
\* own its token is nobody's from now on.
RemoveFile(p) ==
    \/ lock' = NoLock /\ age' = 0 /\ UNCHANGED faults
    \/ /\ lock # NoLock /\ faults < MaxFaults
       /\ lock' = IF lock = p THEN Blank ELSE lock
       /\ faults' = faults + 1
       /\ UNCHANGED age

Goto(p, phase) ==
    /\ pc' = [pc EXCEPT ![p] = phase]
    /\ spent' = [spent EXCEPT ![p] = 0]

----------------------------------------------------------------------------
(* Faulty variants of definitions below.  Nothing uses them: each is put in *)
(* place of the definition it is named after, to see that a property        *)
(* notices the difference.                                                  *)

\* The acquire loop has lost its bound.
AlreadyExistsUnbounded(p) ==
    /\ pc[p] = "create"
    /\ lock # NoLock
    /\ Goto(p, "judge")
    /\ UNCHANGED <<tries, lock, age, mute, late, faults>>

\* >= LOCK_STALE_MS in place of >.
IsStaleEarly(delay) == lock # NoLock /\ age + delay >= StaleAfter

\* Without the modification time as a fallback for unreadable metadata.
IsStaleNoFallback(delay) == lock \in Proc /\ age + delay > StaleAfter

\* The wait between two attempts does not count as an attempt.
SleepUncounted(p) ==
    /\ pc[p] = "sleep"
    /\ Goto(p, "create")
    /\ UNCHANGED <<tries, lock, age, mute, late, faults>>

\* The heartbeat runs but does not write the new timestamp.
HeartbeatUnwritten(p) ==
    /\ p \in Beating /\ Holding(p) /\ p \notin mute
    /\ spent[p] >= Period
    /\ lock = p
    /\ spent' = [spent EXCEPT ![p] = 0]
    /\ UNCHANGED <<pc, tries, lock, age, mute, late, faults>>

\* Drop removes the path without comparing tokens.
StopHeartbeatUnverified(p) ==
    /\ Holding(p)
    /\ Goto(p, "unlink")
    /\ UNCHANGED <<tries, lock, age, mute, late, faults>>

\* The token comparison always succeeds.
TokenMatchesAny(p) ==
    /\ pc[p] = "verify"
    /\ Goto(p, "unlink")
    /\ UNCHANGED <<tries, lock, age, mute, late, faults>>

----------------------------------------------------------------------------
(* FileLockGuard::acquire *)

\* A caller enters the acquire loop.
Call(p) ==
    /\ pc[p] = "idle"
    /\ Goto(p, "create")
    /\ tries' = [tries EXCEPT ![p] = Attempts]
    /\ late' = late \ {p}
    /\ UNCHANGED <<lock, age, mute, faults>>

\* create_new succeeds: the file is there, without a token yet.
CreateNew(p) ==
    /\ pc[p] = "create" /\ tries[p] > 0
    /\ lock = NoLock
    /\ lock' = p
    /\ age' = 0
    /\ Goto(p, "write")
    /\ mute' = mute \ {p}
    /\ late' = late \ {p}
    /\ UNCHANGED <<tries, faults>>

\* create_new reports AlreadyExists.
AlreadyExists(p) ==
    /\ pc[p] = "create" /\ tries[p] > 0
    /\ lock # NoLock
    /\ Goto(p, "judge")
    /\ UNCHANGED <<tries, lock, age, mute, late, faults>>

\* create_new reports any other error: acquire returns it.
CreateFails(p) ==
    /\ pc[p] = "create" /\ tries[p] > 0
    /\ Goto(p, "idle")
    /\ UNCHANGED <<tries, lock, age, mute, late, faults>>

\* lock_is_stale: the token's timestamp, or the modification time when the
\* metadata cannot be read.  A file that has gone is not stale.  The clock is
\* read after the timestamp, and what passes in between adds to the age; it is
\* part of the Slack within which a removal follows the look at the file.
IsStale(delay) == lock # NoLock /\ age + delay > StaleAfter

JudgeStale(p) ==
    /\ pc[p] = "judge"
    /\ \E delay \in 0..Slack : IsStale(delay)
    /\ Goto(p, "steal")
    /\ UNCHANGED <<tries, lock, age, mute, late, faults>>

JudgeFresh(p) ==
    /\ pc[p] = "judge"
    /\ \E delay \in 0..Slack : ~IsStale(delay)
    /\ Goto(p, "sleep")
    /\ UNCHANGED <<tries, lock, age, mute, late, faults>>

\* The removal after a stale verdict takes whatever file is at the path by
\* then, and costs one attempt.
RemoveStale(p) ==
    /\ pc[p] = "steal"
    /\ RemoveFile(p)
    /\ Goto(p, "create")
    /\ tries' = [tries EXCEPT ![p] = @ - 1]
    /\ UNCHANGED <<mute, late>>

Sleep(p) ==
    /\ pc[p] = "sleep"
    /\ Goto(p, "create")
    /\ tries' = [tries EXCEPT ![p] = @ - 1]
    /\ UNCHANGED <<lock, age, mute, late, faults>>

\* "timed out waiting for file lock".
GiveUp(p) ==
    /\ pc[p] = "create" /\ tries[p] = 0
    /\ Goto(p, "idle")
    /\ UNCHANGED <<tries, lock, age, mute, late, faults>>

\* write_lock_metadata goes through the open handle: when the path names
\* another file by now, only the unlinked file is written.
WriteMetadata(p) ==
    /\ pc[p] = "write"
    /\ Goto(p, "held")
    /\ age' = IF lock = p THEN 0 ELSE age
    /\ UNCHANGED <<tries, lock, mute, late, faults>>

\* A failed write_lock_metadata removes the path without looking at it.
WriteFails(p) ==
    /\ pc[p] = "write"
    /\ RemoveFile(p)
    /\ Goto(p, "idle")
    /\ UNCHANGED <<tries, mute, late>>

----------------------------------------------------------------------------
(* The heartbeat thread *)

\* refresh_lock_if_owned every Period.  When the token does not match the
\* thread exits and p never owns the path again under this guard, so that
\* case is no step.
Heartbeat(p) ==
    /\ p \in Beating /\ Holding(p) /\ p \notin mute
    /\ spent[p] >= Period
    /\ lock = p
    /\ age' = 0
    /\ spent' = [spent EXCEPT ![p] = 0]
    /\ UNCHANGED <<pc, tries, lock, mute, late, faults>>

\* The refresh fails to write and the thread exits.  The file keeps its old
\* contents, or was truncated and is blank, which makes it young again.
HeartbeatFails(p) ==
    /\ p \in Beating /\ Holding(p) /\ p \notin mute
    /\ spent[p] >= Period
    /\ lock = p
    /\ faults < MaxFaults
    /\ mute' = mute \union {p}
    /\ late' = late \union {p}
    /\ faults' = faults + 1
    /\ \/ UNCHANGED <<lock, age>>
       \/ lock' = Blank /\ age' = 0
    /\ UNCHANGED <<pc, tries, spent>>

----------------------------------------------------------------------------
(* Drop for FileLockGuard *)

\* The heartbeat is stopped and joined and the handle closed.
StopHeartbeat(p) ==
    /\ Holding(p)
    /\ Goto(p, "verify")
    /\ UNCHANGED <<tries, lock, age, mute, late, faults>>

\* lock_token_matches: only a match leads to the removal.
TokenMatches(p) ==
    /\ pc[p] = "verify"
    /\ lock = p
    /\ pc' = [pc EXCEPT ![p] = "unlink"]
    /\ UNCHANGED <<tries, lock, age, spent, mute, late, faults>>

TokenDiffers(p) ==
    /\ pc[p] = "verify"
    /\ lock # p
    /\ Goto(p, "idle")
    /\ UNCHANGED <<tries, lock, age, mute, late, faults>>

\* The removal again takes whatever is at the path.
Unlink(p) ==
    /\ pc[p] = "unlink"
    /\ RemoveFile(p)
    /\ Goto(p, "idle")
    /\ UNCHANGED <<tries, mute, late>>

----------------------------------------------------------------------------
(* Faults and time *)

\* The hook process is killed (agent timeout, signal); its lock file stays.
Crash(p) ==
    /\ pc[p] \notin {"idle", "crashed"}
    /\ faults < MaxFaults
    /\ pc' = [pc EXCEPT ![p] = "crashed"]
    /\ faults' = faults + 1
    /\ UNCHANGED <<tries, lock, age, spent, mute, late>>

\* The process is suspended for longer than the scheduler's Slack and resumes.
Stall(p) ==
    /\ pc[p] \in Timed /\ p \notin late
    /\ faults < MaxFaults
    /\ late' = late \union {p}
    /\ faults' = faults + 1
    /\ UNCHANGED <<pc, tries, lock, age, spent, mute>>

\* The timing assumption: time does not pass beyond the point by which p must
\* have taken its next step.  A holder with a heartbeat may hold for ever, but
\* must refresh the file while the file is its own.
Overdue(p) ==
    /\ Live(p)
    /\ \/ pc[p] \in Timed \ {"held"} /\ spent[p] >= Slack
       \/ Holding(p) /\ spent[p] >= Hold(p) /\ (p \in Beating => lock = p)

Tick ==
    /\ \A p \in Proc : ~Overdue(p)
    /\ age' = IF lock = NoLock THEN age ELSE Older(age)
    /\ spent' = [p \in Proc |-> IF pc[p] \in Timed THEN Older(spent[p]) ELSE spent[p]]
    /\ UNCHANGED <<pc, tries, lock, mute, late, faults>>

Acquire(p) ==
    \/ CreateNew(p) \/ AlreadyExists(p) \/ CreateFails(p)
    \/ JudgeStale(p) \/ JudgeFresh(p) \/ RemoveStale(p) \/ Sleep(p) \/ GiveUp(p)
    \/ WriteMetadata(p) \/ WriteFails(p)

Beat(p) == Heartbeat(p) \/ HeartbeatFails(p)

Drop(p) == StopHeartbeat(p) \/ TokenMatches(p) \/ TokenDiffers(p) \/ Unlink(p)

Fault(p) == Crash(p) \/ Stall(p)

Next ==
    \/ \E p \in Proc : Call(p) \/ Acquire(p) \/ Beat(p) \/ Drop(p) \/ Fault(p)
    \/ Tick

Spec == Init /\ [][Next]_vars
----------------------------------------------------------------------------
(* Fairness: an operating system runs every live process, and time passes.  *)
(* Faults and the decision to call are not fair, and neither is any process *)
(* that has crashed.                                                        *)

LockFairness ==
    /\ \A p \in Proc : WF_vars(Acquire(p)) /\ WF_vars(Drop(p)) /\ WF_vars(Heartbeat(p))
    /\ WF_vars(Tick)

FairSpec == Spec /\ LockFairness

\* Hooks keep arriving: every agent event starts another process that asks for
\* the lock; and create_new does not fail for ever with an I/O error.
Arrivals == \A p \in Proc : WF_vars(Call(p)) /\ SF_vars(CreateNew(p) \/ AlreadyExists(p))
BusySpec == FairSpec /\ Arrivals

----------------------------------------------------------------------------
(* Properties *)

\* Types of the variables, with the phase a token at the path implies.
TypeOK ==
    /\ pc \in [Proc -> Phase]
    /\ tries \in [Proc -> 0..Attempts]
    /\ lock \in Proc \union {NoLock, Blank}
    /\ age \in 0..(StaleAfter + 1)
    /\ spent \in [Proc -> 0..(StaleAfter + 1)]
    /\ mute \subseteq Proc
    /\ late \subseteq Proc
    /\ faults \in 0..MaxFaults

\* While nothing has crashed, stalled or lost its heartbeat, the operations
\* passed to with_lock_path never overlap, however long a holder with a
\* heartbeat runs (hyphae session start has no deadline) and however many
\* processes compete.
MutualExclusion == \A p, q \in Proc : Holding(p) /\ Holding(q) => p = q
ExclusiveWithoutFaults == faults = 0 => MutualExclusion

\* Whatever else has failed, the lock of a live process that kept its timing
\* is never old enough to be called stale, however long a waiter takes between
\* reading its timestamp and reading the clock: heartbeat period, hold time and
\* scheduling delays together stay within LOCK_STALE_MS.
LiveLockNeverStale ==
    lock \in Proc /\ Live(lock) => \A delay \in 0..Slack : ~IsStale(delay)

\* Two waiters may both find a dead owner's lock stale and the second removes
\* the lock the first has just created; a guard dropped late may do the same.
\* That race is confined: a process that keeps its timing removes another
\* live owner's lock only while the timestamp in it is younger than Slack.
EvictionWindow ==
    [][\A p, q \in Proc :
          /\ p # q
          /\ lock = p /\ Live(p)
          /\ lock' # p
          /\ pc'[q] # pc[q] /\ q \notin late
          => age <= Slack]_vars

\* acquire returns: after at most LOCK_WAIT_ATTEMPTS rounds the caller has the
\* lock or an error, whoever else competes, crashes or steals.
AcquireReturns ==
    \A p \in Proc : pc[p] = "create" ~> pc[p] \in {"held", "idle", "crashed"}

\* A lock file left behind by a crashed process, blanked by a failed refresh or
\* not removed by its owner does not block the path for ever: while hooks keep
\* arriving some process removes it, if not every removal fails.
OrphanReclaimed ==
    /\ \A p \in Proc : (lock = p /\ pc[p] = "crashed") ~> lock # p
    /\ lock = Blank ~> lock # Blank

----------------------------------------------------------------------------
(* The inductive invariant behind the safety properties *)

\* An iteration of the acquire loop that has begun is one of the attempts.
AttemptInBounds ==
    \A p \in Proc : pc[p] \in {"judge", "steal", "sleep"} => tries[p] > 0

\* A token at the path belongs to a process between create and unlink, or to
\* one that died there.
TokenPhase == lock \in Proc => Inside(lock) \/ pc[lock] = "crashed"

\* Nothing is late, mute, blank or crashed before the first fault, nobody is
\* about to steal, and whoever is inside owns the file at the path.
FaultFree ==
    faults = 0 =>
        /\ late = {} /\ mute = {} /\ lock # Blank
        /\ \A p \in Proc : pc[p] \notin {"crashed", "steal"}
        /\ \A p \in Proc : Inside(p) => lock = p

\* Every live process is within the time its phase allows.
OnTime ==
    \A p \in Proc : Live(p) =>
        /\ pc[p] \in Timed \ {"held"} => spent[p] <= Slack
        /\ Holding(p) /\ (p \in Beating => lock = p) => spent[p] <= Hold(p)

\* The age of a live owner's timestamp, phase by phase.
OwnAge ==
    lock \in Proc /\ Live(lock) =>
        /\ pc[lock] \in {"write", "held"} => age <= spent[lock]
        /\ pc[lock] \in {"verify", "unlink"} => age <= Hold(lock) + spent[lock]

\* A process about to remove a file that is not its own decided so before that
\* file was created.
YoungVictim ==
    \A q \in Proc :
        /\ lock \in Proc /\ lock # q /\ Live(lock)
        /\ pc[q] \in {"steal", "write", "unlink"} /\ q \notin late
        => age <= spent[q]

LockInv ==
    /\ TypeOK
    /\ AttemptInBounds
    /\ TokenPhase
    /\ FaultFree
    /\ OnTime
    /\ OwnAge
    /\ YoungVictim
=============================================================================
