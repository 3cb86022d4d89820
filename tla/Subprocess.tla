----------------------------- MODULE Subprocess -----------------------------
(***************************************************************************)
(* Commands run with a deadline.  The calling thread spawns a child, hands *)
(* it to a worker thread that waits for it, and listens on a channel for a *)
(* limited time.  The source has three variants of this:                   *)
(*                                                                         *)
(*   plain   the worker owns the child (canopy_client.rs);                 *)
(*   take    the worker takes the child out of a shared Mutex<Option<..>>  *)
(*           and waits; on timeout the caller takes and kills what is left *)
(*           (session_scope.rs, state.rs, user_prompt_submit.rs);          *)
(*   hold    the same, but the worker keeps the mutex while it waits       *)
(*           (hooks/executor.rs, which runs several hooks in a row and     *)
(*           merges what they ask for).                                    *)
(*                                                                         *)
(* Of a hook's output only what adapters/mod.rs reads is kept: cancel and  *)
(* halt_turn.                                                              *)
(***************************************************************************)
EXTENDS Naturals

CONSTANTS
    Commands,     \* bound: commands run by one process, one after the other
    Kinds         \* the variants considered

ASSUME SubprocessAssumption ==
    /\ Commands \in Nat
    /\ Kinds \subseteq {"plain", "take", "hold"}

VARIABLES
    kind,       \* the variant
    cur,        \* the command that runs, Commands + 1 after the last
    main,       \* where the calling thread is
    worker,     \* worker[c]: where the thread that waits for c is
    handle,     \* handle[c]: who has the Child value: "shared" is the mutex
    mutex,      \* mutex[c]: the thread that holds it over more than one step
    child,      \* child[c]: the process itself
    asks,       \* asks[c]: what c's exit code and output ask for
    expired,    \* commands whose deadline has passed while the caller listens
    chan,       \* chan[c]: the message in the channel
    verdict,    \* verdict[c]: how the call ended
    merged      \* what the hooks so far ask for together

threads == <<main, worker, handle, mutex>>
answers == <<chan, verdict, merged>>
commandVars == <<kind, cur, threads, child, asks, expired, answers>>

Command == 1..Commands
Output == [cancel : BOOLEAN, halt : BOOLEAN]
DefaultOutput == [cancel |-> FALSE, halt |-> FALSE]

CommandInit ==
    /\ kind \in Kinds
    /\ cur = 1
    /\ main = "spawn"
    /\ worker = [c \in Command |-> "none"]
    /\ handle = [c \in Command |-> "none"]
    /\ mutex = [c \in Command |-> "free"]
    /\ child = [c \in Command |-> "none"]
    /\ asks \in [Command -> Output]
    /\ expired = {}
    /\ chan = [c \in Command |-> "empty"]
    /\ verdict = [c \in Command |-> "none"]
    /\ merged = DefaultOutput

\* The call returns; every ending but an answer is DefaultOutput, which merges
\* to nothing.
Return(how) ==
    /\ verdict' = [verdict EXCEPT ![cur] = how]
    /\ cur' = cur + 1
    /\ main' = "spawn"

----------------------------------------------------------------------------
(* Faulty variants, each to be put in place of the definition it names.     *)

\* A later hook's answer replaces the earlier ones.
MergeLast(out) == merged' = out

\* The worker waits for the child through the mutex without taking it out.
WorkerTakesCopy(c) ==
    /\ kind = "take" /\ worker[c] = "starting"
    /\ worker' = [worker EXCEPT ![c] = "waiting"]
    /\ UNCHANGED <<kind, cur, main, handle, mutex, child, asks, expired, answers>>

\* recv in place of recv_timeout.
NoTimeOut == FALSE

\* try_lock in place of lock.
TryLockAfterTimeout ==
    /\ main = "late"
    /\ IF mutex[cur] = "free" /\ handle[cur] = "shared"
       THEN /\ handle' = [handle EXCEPT ![cur] = "main"]
            /\ main' = "kill"
            /\ UNCHANGED <<cur, verdict>>
       ELSE /\ Return("timeout")
            /\ UNCHANGED handle
    /\ UNCHANGED <<kind, worker, mutex, child, asks, expired, chan, merged>>

\* The guard is dropped before the wait, as in the take variant.
WorkerLocksBriefly(c) ==
    /\ kind = "hold" /\ worker[c] = "starting" /\ handle[c] = "shared"
    /\ handle' = [handle EXCEPT ![c] = "worker"]
    /\ worker' = [worker EXCEPT ![c] = "waiting"]
    /\ UNCHANGED <<kind, cur, main, mutex, child, asks, expired, answers>>

----------------------------------------------------------------------------
(* The calling thread *)

Spawn ==
    /\ main = "spawn" /\ cur \in Command
    /\ child' = [child EXCEPT ![cur] = "running"]
    /\ handle' = [handle EXCEPT ![cur] = IF kind = "plain" THEN "worker" ELSE "shared"]
    /\ IF kind = "hold"
       THEN main' = "feed" /\ UNCHANGED worker
       ELSE main' = "wait" /\ worker' = [worker EXCEPT ![cur] = "starting"]
    /\ UNCHANGED <<kind, cur, mutex, asks, expired, answers>>

SpawnFails ==
    /\ main = "spawn" /\ cur \in Command
    /\ Return("error")
    /\ UNCHANGED <<kind, worker, handle, mutex, child, asks, expired, chan, merged>>

\* execute_hook writes the whole input to the child's stdin first.  That has
\* no deadline: a child that reads nothing blocks it once the pipe is full.
Feed ==
    /\ main = "feed"
    /\ main' = "wait"
    /\ worker' = [worker EXCEPT ![cur] = "starting"]
    /\ UNCHANGED <<kind, cur, handle, mutex, child, asks, expired, answers>>

\* The child has closed its stdin: nobody will wait for it.
FeedFails ==
    /\ main = "feed"
    /\ handle' = [handle EXCEPT ![cur] = "none"]
    /\ Return("error")
    /\ UNCHANGED <<kind, worker, mutex, child, asks, expired, chan, merged>>

\* merge_outputs
Merge(out) ==
    merged' = [cancel |-> merged.cancel \/ out.cancel, halt |-> merged.halt \/ out.halt]

\* The message arrives in time.  Only executor.rs interprets it here.
Receive ==
    /\ main = "wait" /\ chan[cur] = "output"
    /\ IF kind = "hold" THEN Merge(asks[cur]) ELSE UNCHANGED merged
    /\ Return("output")
    /\ UNCHANGED <<kind, worker, handle, mutex, child, asks, expired, chan>>

\* The worker reports that waiting has failed.
ReceiveError ==
    /\ main = "wait" /\ chan[cur] = "error"
    /\ Return("error")
    /\ UNCHANGED <<kind, worker, handle, mutex, child, asks, expired, chan, merged>>

Expire ==
    /\ main = "wait" /\ cur \notin expired
    /\ expired' = expired \union {cur}
    /\ UNCHANGED <<kind, cur, threads, child, asks, answers>>

\* recv_timeout returns Timeout.
TimeOut ==
    /\ main = "wait" /\ cur \in expired /\ chan[cur] = "empty"
    /\ IF kind = "plain"
       THEN Return("timeout")
       ELSE main' = "late" /\ UNCHANGED <<cur, verdict>>
    /\ UNCHANGED <<kind, worker, handle, mutex, child, asks, expired, chan, merged>>

\* child.lock(), then take(): there is something to kill only if the worker
\* has not got hold of it.
LockAfterTimeout ==
    /\ main = "late" /\ mutex[cur] = "free"
    /\ IF handle[cur] = "shared"
       THEN /\ handle' = [handle EXCEPT ![cur] = "main"]
            /\ main' = "kill"
            /\ UNCHANGED <<cur, verdict>>
       ELSE /\ Return("timeout")
            /\ UNCHANGED handle
    /\ UNCHANGED <<kind, worker, mutex, child, asks, expired, chan, merged>>

\* kill, and in executor.rs wait, all under the mutex; the worker finds None.
Kill ==
    /\ main = "kill"
    /\ child' = [child EXCEPT ![cur] = IF kind = "hold" THEN "reaped" ELSE "dead"]
    /\ handle' = [handle EXCEPT ![cur] = "none"]
    /\ Return("timeout")
    /\ UNCHANGED <<kind, worker, mutex, asks, expired, chan, merged>>

----------------------------------------------------------------------------
(* The worker thread of command c, and the child *)

\* Nobody else has the mutex for more than a moment but a caller that kills.
Free(c) == mutex[c] = "free" /\ ~(main = "kill" /\ cur = c)

WorkerStarts(c) ==
    /\ kind = "plain" /\ worker[c] = "starting"
    /\ worker' = [worker EXCEPT ![c] = "waiting"]
    /\ UNCHANGED <<kind, cur, main, handle, mutex, child, asks, expired, answers>>

\* The guard is gone again before wait_with_output begins.
WorkerTakes(c) ==
    /\ kind = "take" /\ worker[c] = "starting" /\ Free(c)
    /\ IF handle[c] = "shared"
       THEN /\ handle' = [handle EXCEPT ![c] = "worker"]
            /\ worker' = [worker EXCEPT ![c] = "waiting"]
            /\ UNCHANGED chan
       ELSE /\ chan' = [chan EXCEPT ![c] = "error"]
            /\ worker' = [worker EXCEPT ![c] = "done"]
            /\ UNCHANGED handle
    /\ UNCHANGED <<kind, cur, main, mutex, child, asks, expired, verdict, merged>>

\* The guard lives as long as the `if let` body: until the child has ended.
WorkerLocks(c) ==
    /\ kind = "hold" /\ worker[c] = "starting" /\ Free(c)
    /\ IF handle[c] = "shared"
       THEN /\ mutex' = [mutex EXCEPT ![c] = "worker"]
            /\ handle' = [handle EXCEPT ![c] = "worker"]
            /\ worker' = [worker EXCEPT ![c] = "waiting"]
       ELSE /\ worker' = [worker EXCEPT ![c] = "done"]
            /\ UNCHANGED <<handle, mutex>>
    /\ UNCHANGED <<kind, cur, main, child, asks, expired, answers>>

\* wait_with_output returns and its result is sent, listened to or not.
WorkerReaps(c) ==
    /\ worker[c] = "waiting" /\ child[c] = "dead"
    /\ child' = [child EXCEPT ![c] = "reaped"]
    /\ handle' = [handle EXCEPT ![c] = "none"]
    /\ mutex' = [mutex EXCEPT ![c] = "free"]
    /\ \E message \in {"output", "error"} : chan' = [chan EXCEPT ![c] = message]
    /\ worker' = [worker EXCEPT ![c] = "done"]
    /\ UNCHANGED <<kind, cur, main, asks, expired, verdict, merged>>

ChildExits(c) ==
    /\ child[c] = "running"
    /\ child' = [child EXCEPT ![c] = "dead"]
    /\ UNCHANGED <<kind, cur, threads, asks, expired, answers>>

Caller ==
    \/ Spawn \/ SpawnFails \/ Receive \/ ReceiveError
    \/ Expire \/ TimeOut \/ LockAfterTimeout \/ Kill

Worker(c) == WorkerStarts(c) \/ WorkerTakes(c) \/ WorkerLocks(c) \/ WorkerReaps(c)

CommandNext ==
    \/ Caller \/ Feed \/ FeedFails
    \/ \E c \in Command : Worker(c) \/ ChildExits(c)

\* Both threads run and time passes.  The child owes nothing: it may never
\* read its input and never exit.
CommandFairness ==
    /\ WF_commandVars(Caller)
    /\ \A c \in Command : WF_commandVars(Worker(c))

CommandSpec == CommandInit /\ [][CommandNext]_commandVars /\ CommandFairness

----------------------------------------------------------------------------
(* Properties *)

\* Types, and: whoever waits for a child or kills it has its handle.
SubprocessTypeOK ==
    /\ kind \in Kinds
    /\ cur \in 1..(Commands + 1)
    /\ main \in {"spawn", "feed", "wait", "late", "kill"}
    /\ worker \in [Command -> {"none", "starting", "waiting", "done"}]
    /\ handle \in [Command -> {"none", "shared", "worker", "main"}]
    /\ mutex \in [Command -> {"free", "worker"}]
    /\ child \in [Command -> {"none", "running", "dead", "reaped"}]
    /\ asks \in [Command -> Output]
    /\ expired \subseteq Command
    /\ chan \in [Command -> {"empty", "output", "error"}]
    /\ verdict \in [Command -> {"none", "output", "error", "timeout"}]
    /\ merged \in Output
    /\ main # "spawn" => cur \in Command
    /\ main = "kill" => handle[cur] = "main"
    /\ \A c \in Command : worker[c] = "waiting" => handle[c] = "worker"

\* "Exactly once": the caller never kills a child the worker waits for or has
\* reaped (its process id may belong to somebody else by then).
KillsOwnChild ==
    main = "kill" => worker[cur] # "waiting" /\ child[cur] # "reaped"

\* Fail open: hooks that time out, fail or cannot be run block nothing, and
\* no answer that came in time is lost in the merge.
FailOpen ==
    kind = "hold" =>
        LET Answered == {c \in Command : verdict[c] = "output"}
        IN  /\ merged.cancel <=> \E c \in Answered : asks[c].cancel
            /\ merged.halt <=> \E c \in Answered : asks[c].halt

\* Once execute_hook has returned, by timeout or not, the hook it has fed does
\* not run any more: the next one never overlaps with it.
NoStrayHook ==
    kind = "hold" =>
        \A c \in Command : verdict[c] \in {"output", "timeout"} => child[c] \notin {"none", "running"}

\* A child that never exits does not keep the process: with the plain and the
\* take variant every command is over after its deadline.
Returns == kind # "hold" ~> cur > Commands

\* session_scope.rs:24, state.rs:26, user_prompt_submit.rs:397: "on timeout the
\* child process is killed".
KilledOnTimeout ==
    \A c \in Command : verdict[c] = "timeout" => child[c] # "running"

\* executor.rs:28: "enforces a 30-second timeout per hook".
DeadlineKept == \A c \in Command : c \in expired ~> cur > c
----------------------------------------------------------------------------
(* The inductive invariant behind the safety properties *)

\* The commands run in turn, and a worker starts when its command has been fed.
InTurn ==
    /\ \A c \in Command :
          /\ c >= cur => verdict[c] = "none"
          /\ c > cur \/ (main = "spawn" /\ c = cur) =>
                /\ handle[c] = "none"
                /\ child[c] = "none"
                /\ chan[c] = "empty"
          /\ c > cur \/ (main \in {"spawn", "feed"} /\ c = cur) => worker[c] = "none"
    /\ main = "feed" => kind = "hold"
    /\ main \in {"late", "kill"} => kind # "plain"

\* A Child value stands for a process that has not been waited for.
HandleAlive ==
    \A c \in Command :
        /\ handle[c] # "none" => child[c] \in {"running", "dead"}
        /\ handle[c] = "main" => main = "kill" /\ cur = c
        /\ kind = "plain" /\ worker[c] = "starting" => handle[c] = "worker"
        /\ chan[c] = "output" => child[c] = "reaped"

\* While execute_hook listens the child is somebody's, or over; the worker has
\* it only together with the mutex.
WatchedHook ==
    kind = "hold" =>
        /\ \A c \in Command : handle[c] = "worker" => mutex[c] = "worker"
        /\ main \in {"feed", "wait", "late"} /\ handle[cur] = "none" => child[cur] = "reaped"

SubprocessInv ==
    /\ SubprocessTypeOK
    /\ InTurn
    /\ HandleAlive
    /\ WatchedHook
    /\ KillsOwnChild
    /\ FailOpen
    /\ NoStrayHook
=============================================================================
