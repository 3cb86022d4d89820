# Cortina: specifications and proofs

Cortina is a Rust command line program that a coding agent calls on every hook
event. Each call is a process of its own, lives for a few seconds at most, and
shares its state with the others through files: JSON documents in the temporary
directory under advisory lock files, and a SQLite store of sessions. It talks
to `hyphae`, `canopy`, `rhizome`, `mycelium` and `git` by running them as
subprocesses, and to hyphae also over a socket.

So the program is a concurrent system although no single hook looks like one:
an agent runs several tools at a time, the host kills hooks that take too long,
and subprocesses hang. This directory models it in TLA+, checks it with TLC on
small instances and proves every safety property that a run checks and that
holds, for all sizes, with TLAPS. Paths of Rust files below are relative to the crate's `src/`
directory.

## 1. The system

| Component | State it keeps | Operations | Module |
|---|---|---|---|
| advisory file lock, `utils/state.rs` | a lock file: pid, token, timestamp; a heartbeat thread | `FileLockGuard::acquire`, drop, stale takeover, refresh | `FileLock` |
| JSON state files, `utils/state.rs` | one document per concern and worktree | `load_json_file`, `update_json_file`, `remove_file_with_lock` | `StateFile`, `AtomicStore` |
| scoped session, `utils/session_scope.rs` | the session state file, the operation lock | ensure, end (synchronous or in a joined thread), feedback signals | `Session` |
| session store, `utils/session_store.rs` | rows active, orphaned, ended | `create`, `end_clean`, `end_orphaned` | `Session` |
| pending lists, `hooks/post_tool_use/pending.rs` | documents to ingest, files to export | track, take, hand on, requeue | `PendingQueue` |
| outcome log, `outcomes.rs` | the outcomes of a worktree, capped | `record_outcome`, `load_outcomes`, `clear_outcomes` | `Outcomes` |
| bash hook, `hooks/post_tool_use/bash.rs` | unresolved errors by command key | `handle_bash`: track, resolve, validate | `Outcomes`, `PendingQueue` |
| edit hook, `hooks/post_tool_use/edits.rs` | the edits of the last minutes | find the edit that is reworked, record, tell, track | `Corrections`, `PendingQueue` |
| stop hook, `hooks/stop.rs`, `hooks/stop/*.rs` | none of its own | parse the transcript, summarise, judge, end the session, clear, keep notes | `StopReport`, `Outcomes`, `ToolHooks`, `Handoffs` |
| pre-tool-use hook and gate guard, `hooks/pre_tool_use.rs`, `hooks/gate_guard.rs`, `rules.rs`, `hooks/node_context.rs` | advisory counters; a `GateMap` per process | deny, gate, recall, rewrite, enforce, advise | `ToolHooks` |
| tool call log, `tool_usage.rs` | the tools called and how often | record, report, clear | `ToolHooks` |
| user prompt hook, `hooks/user_prompt_submit.rs` | what has been captured; the marker it consumes | remember, recall, store | `Capture` |
| compaction hooks, `hooks/pre_compact.rs`, `hooks/post_compact.rs` | snapshots captured; the marker | count, snapshot, lift memories; write the marker | `Capture` |
| hyphae client, `utils/hyphae_client.rs` | none | send by a thread on a socket or by a child process | `Capture` |
| handoff checks, `handoff_audit.rs`, `handoff_lint.rs`, `handoff_paths.rs`, `hooks/pre_commit.rs` | none; they read a Markdown document | audit, lint, staleness, commit blockers | `Handoffs` |
| subprocesses with a deadline, four files | a channel, a mutex around the child | spawn, wait, time out, kill | `Subprocess` |
| hook executor, `hooks/executor.rs` | the merged answer | run hooks in turn, merge | `Subprocess` |
| dispatch and policy, `adapters/`, `env_gate.rs`, `policy.rs` | none; the environment | skip, dispatch, answer | `ToolHooks` (in part) |
| status report, other text processors, data types | none | printing, string functions, decoding | not modelled |

### How the parts interact

Every event starts one process, which calls one handler. Handlers never call
each other; they meet in the state files, each of which is changed only inside
`with_file_lock`, and some of which are read without it. A prompt, bash, edit or
stop hook asks the session component for the session of its worktree; that
component holds a second lock, with a heartbeat, over a whole `hyphae session
start`, `status` or `end`. What a hook then learns goes into the errors, outcomes,
edits, pending or captures file, or into the tool call log. The hook after a
compaction leaves a marker for the next prompt. The stop hook reads outcomes,
log and transcript, ends the session and removes what it has read from.

### What is hard about it

* **Interleaving.** Between any two system calls of a hook another hook may
  run. Removing a stale lock, dropping a guard, taking a batch, reading a summary
  and clearing what it was read from are each more than one step; so are checking
  and consuming a marker, or finding the edit that is reworked and recording it.
* **Time.** A lock is stale after 30 s and is refreshed every 5 s; subprocesses
  have deadlines; a duplicate is a duplicate for 30 s; rework is noticed for 5
  minutes. Outcomes and edits are stamped before their writer waits for a lock.
* **Failure.** Hooks are killed at any point, and their threads with them. Writes
  fail. Subprocesses hang, fail, or answer after nobody waits any more.
* **Three records of one fact.** The state file, the store's row and hyphae each
  have an opinion on whether a session is active; nothing makes them agree.
* **Process per call.** What is kept in memory, as the gate map, is gone with the
  next call.

### What makes each component correct

* Lock: no two operations at a time; a live, punctual holder is not evicted; a
  dead holder does not block the path; acquiring always comes back.
* State file: an update is applied to the latest document or not at all, unless
  it cannot read that document: then it starts from the default and replaces it.
* Session: the store never claims that a session ended which hyphae still runs;
  a running session is lost from the state file only to a process that asked
  hyphae about it and got no answer (in a release build none ever gets one); an
  operation returns, or waits for its own session start, whatever hyphae does.
* Pending lists: what was tracked is handed on, pending, or in a hook's hands.
* Outcomes: duplicates only outside the window, one recovery per failure, for
  every unresolved error its own outcome or the reason why it has none, and a
  session's summary has its outcomes.
* Edit hook: rework is noticed whatever other hooks throw away, and told once by
  the hooks of a session.
* Stop report: the summary is that of the lines read and of the session's own
  outcomes; the verdict is a failure only for a failure; only what the last
  message asks for is kept; stealth sends nothing.
* Tool hooks: a rule alone denies a call, never a timeout; advice is news and
  comes at its pace; every call of the log is accounted for.
* Captures: a prompt or snapshot is sent once; once the special recall has been
  granted, later prompts recall normally; what is remembered is with hyphae, on
  its way, or lost to a failure or to the end of a socket's thread.
* Handoffs: a reader of a half-written document finds the open items and markers
  that are there.
* Subprocesses: the caller is back at its deadline; only one's own child is
  killed; a hook that fails blocks nothing.

`PROJECT.json` lists the hazards behind these, each at the line where it bites,
with the properties that would notice.

## 2. The modules

**`FileLock`** (`utils/state.rs:290-469`). `lock` is the file at the path: nothing,
the process whose token it holds, or a file whose token cannot be read. `pc`
follows a process through the acquire loop (`create`, `judge`, `steal`, `sleep`,
`write`), the operation (`held`) and the drop (`verify`, `unlink`). Each system
call is an action. Time is only ages: `age` of the timestamp in the file,
`spent[p]` in the current phase, both saturating above `StaleAfter`. A process
that misses a deadline (suspended, or too slow) is put in `late`, a heartbeat
thread that has exited in `mute`; crashes, suspensions and failed refreshes are
counted by `faults`, and so are removals that fail, which the code ignores. The
look at a timestamp and at the clock are one step with a delay in between
(`JudgeStale`, `JudgeFresh`).

**`AtomicStore`**, the abstract specification: a document that changes by whole
mutations. An update applies to the latest version, or, if it has announced that
it could not read that one (`Misread`), to the default. The promise ends at the
first fault. **`StateFile`** extends `FileLock`: while a process holds the lock it
loads, mutates and saves in separate steps; a load that fails yields the default,
as `unwrap_or_default` does. The document is the number of mutations of each
process it contains, which is what tells a lost update from a kept one.
`StateFile` implements `AtomicStore` (`ImplementsAtomicStore`). The modules
further up take one `update_json_file` as one step on that ground; of them only
`Session` has documents that cannot be read.

**`Session`** (`utils/session_scope.rs:234-539`, `match_active_session`,
`utils/session_store.rs`). One action per file access, store update and command.
`file`, `row` and `hyphae` are the three records. The owner of the operation lock
is explicit, and the lock can be lost (`evict`), which `FileLock` shows possible
after a fault, so that operations overlap. `build` is `"test"` or `"release"`:
under `cfg(test)` the status command's output is captured, in a release build it
is not. `Mishaps` are the kinds of failure, `MaxMishaps` how many happen. `blind`
holds the processes that go on without an answer about the session before, `lost`
the sessions such processes have replaced.

**`PendingQueue`** (`hooks/post_tool_use/pending.rs`, the callers in `edits.rs`
and `bash.rs`). Both lists, chosen by `list`: documents are ingested one command
each, files exported in one. `batch` is what a hook has taken out of the file and
not handed on, `failed` what goes back. `dirty` and `dropped` are history.

**`Subsequences`** stands for `Vec::retain` and `Iterator::filter`. `Kept(s, S)`
is `SelectSeq` with a set in place of a test, given by the positions of the
elements that stay: its k-th element is that of the k-th such position. That is
what the proofs about filtered lists need; `MCReports` has TLC compare it with
`SelectSeq` (`KeptIsSelectSeq`).

**`Outcomes`** (`hooks/post_tool_use/bash.rs`, `outcomes.rs`, `hooks/stop.rs`,
`hooks/stop/summary.rs`). `errors` and `outcomes` are the two files, `current`
the session of the state file. A bash hook goes through `track`, `detect`,
`record`, `signal`, or `resolve`, `recover`, `record`, `signal`, `validate`,
`record`, `signal`; a stop hook through `load`, `end`, `clear`, or `load`,
`discard` in stealth mode. Failures are numbered, so that it can be said which one
an outcome is of (`about`, `of`); the code has no such number. `failures`,
`suppressed`, `dropped`, `exposed`, `trimmed` and `lost` are history. Ensuring a session is one step with any of its results: none, the
current one, a new one; this covers both builds.

**`Corrections`** (`hooks/post_tool_use/edits.rs`). A hook looks, without a lock,
for the edit that wrote what it replaces, records the correction, tells hyphae,
stamps its own edit and, in another step, tracks it and throws away the old ones.
Texts are names, and `Overlap` says which contain one another. `made` is every
edit ever tracked, so that `ReworkNoticed` can compare the list a hook saw with
the one it should have seen. Nothing relates the age at which edits are thrown
away to the window for rework, in the code or in the model.

**`StopReport`** (`hooks/stop.rs`, `hooks/stop/transcript.rs`,
`hooks/stop/summary.rs`, `hooks/trigger_word.rs`). The transcript grows while it
is folded line by line; the outcome list is read twice and the transcript too.
A text is what its lines ask to keep and whether it is blank or speaks of failure.
`failure` is the history the verdict should agree with. `Unresolved`, a fold in the
source, is stated by the last failure and the last recovery of the list; TLC
compares it with the fold (`UnresolvedIsFold`).

**`ToolHooks`** (`hooks/pre_tool_use.rs`, `hooks/gate_guard.rs`, `rules.rs`,
`hooks/node_context.rs`, `env_gate.rs`, `tool_usage.rs`, the dispatch of
`adapters/mod.rs`). Three events: before a call the phases `gate`, `recall`,
`command`, `rewrite`, `advise`, `count`; after it `record`; at a stop `end`,
`report`, `clear` or `discard`. A call is its tool, the extension of its file, and
the traits the source searches its text for. `setting` is one environment of all
hooks. The log holds a set of calls for each tool, where the code has a number.

**`Capture`** (`hooks/user_prompt_submit.rs`, `hooks/pre_compact.rs`,
`hooks/post_compact.rs`, `utils/hyphae_client.rs`). A prompt hook checks the marker,
consumes it, recalls, remembers the prompt and only then stores it; a compaction
hook counts, remembers, loads the prior outcomes, stores, and lifts memories out.
`flight` is what was sent and has not arrived: by a thread that ends with its hook
when hyphae announces a socket, by a child otherwise; `lost` is what was remembered
and will never arrive.

**`Handoffs`** (`handoff_audit.rs`, `handoff_lint.rs`, `handoff_paths.rs`,
`hooks/pre_commit.rs`, `hooks/stop.rs:368-569`). Pure functions of a document that
is written line by line; a line is its kind and the paths found in it. The one
pass over the lines that finds empty paste markers is the function `PasteAfter`.

**`Subprocess`** (`utils/canopy_client.rs:42-66`, `utils/session_scope.rs:24-60`,
`utils/state.rs:24-61`, `hooks/user_prompt_submit.rs`, `hooks/executor.rs`). The
caller, the worker thread and the child are separate; `handle[c]` says who has the
`Child` value, `mutex[c]` whether the worker keeps the mutex while it waits.
`kind` is the variant: `plain`, `take` or `hold`.

`MCOutcomes`, `MCCapture` and `MCToolHooks` hold symmetry sets and constants for
TLC. `MCWaits`, `MCHooks` and `MCReports` (`StateFile`, `Corrections` and
`StopReport`) check modules that share no state in one run: a variable `part`, chosen at the start, says whose
steps a behaviour takes while the other rests, so that neither multiplies the
other's states. The modules ending in `Proofs` hold the proofs. An operator whose
comment says how the code would be wrong (`IsStaleEarly`, `ResolveKept`, ...) is
not part of a specification: it stands before the definition it is a faulty
variant of, and substituting it is how each property was seen to fail.

## 3. The runs

| Run | Shows | Bounds |
|---|---|---|
| `waits` | lock: `ExclusiveWithoutFaults`; `LiveLockNeverStale`, whatever has failed; `EvictionWindow`, what remains of the removal race; `AcquireReturns`; `OrphanReclaimed`. Commands: `KillsOwnChild`, `FailOpen`, `NoStrayHook`, `Returns` | 2 processes, 1 with a heartbeat, 2 attempts, 1 fault, stale after 3 ticks; 2 commands in turn, 3 variants |
| `session` | `CleanMeansEnded`, `DefinedDuringWrite`, `ConfirmedOnce`, `EverySessionAccounted`, `NeverDisplaced`, and with a hung hyphae `OperationReturns` | 2 processes, 2 ids, both builds and modes, one crash, eviction, I/O error or failed status query |
| `session_reuse` | finding 1 | 2 processes, 2 ids, release build |
| `pending` | `NothingForgotten`, `Drains` | 2 hooks, 3 files, threshold 2 = cap 2, 1 fault |
| `outcomes` | `Spaced`, `RecoveredOnce`, `NoSilentError`, `ReportedUnlessOverlapping` | 2 at a time of 3 hooks, 2 commands with one key, 2 sessions, cap 2, window 1 of 2 ticks, 1 fault |
| `outcomes_lost` | finding 3 | as `outcomes`, no fault |
| `capture` | `StoredOnce`, `LaterPromptsRecallNormally`, `EveryCompactionAnswered`, `CaptureAccounted` | 2 at a time of 3 hooks, 2 prompts, caps of 1 and 2, 1 change by other hooks, 1 fault; with and without hyphae and its socket |
| `marker_twice` | finding 5 | 2 prompt hooks and a compaction, no fault |
| `hooks` | `DeniedByRuleAlone`, `AdvisoriesPaced`, `AdviceIsNews`, `CallsAccounted`, `HookReturns`; `HandoffsReadRight` | 2 at a time of 3 hooks, 7 calls, 6 settings, 1 fault; documents of up to 3 of 9 lines, 3 files |
| `gate_blocked` | finding 4 | 3 hooks one after the other, no fault |
| `reports` | `ImplementsAtomicStore`: no lost update but by an update that could not read; `CorrectionsTrue`: rework noticed, and told once in a session; `ReportTrue`: summary, verdict, notes and silence | 3 processes at one document, 1 fault, 1 update of each counted; 2 at a time of 3 edit hooks, 4 edits, 3 ticks, age 1 below the window of 2, cap 2, 1 crash; 1 stop hook, 2 lines of 8 kinds, 2 outcomes, 1 failure |
| `subprocess_kill` | finding 2 | 1 command, `take` |

Why the bounds are enough. The removal race of the lock needs a thief with an old
verdict and the owner of a new lock, who may be the one that reclaimed before; two
processes suffice for a violation, three are at one document in `reports`, and the proofs
cover any number. Two ticks of hold and one of slack against a limit of three are
the tightest numbers the timing assumption admits. A session race needs two
operations and two sessions, the one found and the one started meanwhile; every
single failure is tried at every point, pairs are left to the proofs. The pending
lists need one file more than the cap. A duplicate of an outcome needs two hooks
of one command and the recovery a third; with `MaxTime = 2` and `Window = 1` a pair
may be inside the window, on its edge and outside. Two hooks of one prompt and a
compaction reach every order of remembering, checking and consuming. A cadence of
two or three comes round in three hooks. A rework of a rework needs three edits;
the age of one tick is the hard case, since edits are then thrown away while the
window for their rework is open, and with three ticks an edit is looked for inside
its age, on the edge and after it. The proof covers every window and age. A step, an item and the next step
are three lines. Runs in which a bounded number of hooks starts stop when they are
over; that is why they do not check for deadlock.

Fairness. `LockFairness`: the operating system runs every live process, and time
passes. `Arrivals` adds that hooks keep arriving, which every agent event causes,
and that creating a file does not fail for ever with an I/O error; faults are
never fair. `LiveSpec` of `Session` and of `ToolHooks` is weak fairness of a hook's
own steps only: `hyphae` and `mycelium` are not fair, so `OperationReturns` and
`HookReturns` hold although they may hang. The steps of an ensure that wait for
`hyphae session start`, `hyphae protocol` or the fallback for `git`, none of which
has a deadline, are not fair either (`Start`): `OperationReturns` says that an
operation comes back or gets as far as its own session start, also while another
process hangs in one and keeps the lock. `PendingQueue` assumes that edits and
builds go on happening, which is the one thing that makes a list drain: no timer
does. `CommandFairness` is weak fairness of the caller and of each worker, none of
the children. `MCWaits` assumes the fairness of the part a behaviour belongs to.

## 4. The proofs

Everything below holds for every number of processes, sessions, hooks, commands,
files and lines, and for every value of the other constants that the assumptions
admit. Only the lock's assumption relates the numbers of the code to each other in
a way a proof uses.

* `WaitsProofs`, the lock: `Exclusion`, `NeverStale`, `Window`. They rest on
  `LockAssumption`: `Period + 3 * Slack <= StaleAfter` and
  `MaxHold + 2 * Slack <= StaleAfter`; one `Slack` is for the time between reading
  a timestamp and reading the clock. With the source's 5 s and 30 s they hold if no
  step is delayed by more than 8 s and no operation without a heartbeat takes more
  than 14 s. `LockInv` is inductive: mutual exclusion alone is not,
  since it says nothing of a process that decided to steal *before* the lock it
  will remove existed. `YoungVictim` bounds the age of that lock by the time the
  thief has been on its way, `OwnAge` and `OnTime` bound a live owner's timestamp
  phase by phase, and `FaultFree` says that without a fault nobody is on its way.
* `WaitsProofs`, the state files: `StoreImplementsAtomic`. Every step of the lock
  maps to a stutter, every save or removal to the abstract one. `StoreInv` adds to
  `LockInv` that a loaded copy is held under the lock and is the latest document,
  or the default for a process that could not read it; the step from one to the
  other is `Exclusion`.
* `WaitsProofs`, the subprocesses: `OwnChildOnly`, `FailsOpen`, `NoHookLeft`, by
  `SubprocessInv`: commands run in turn, a handle stands for a child that nobody
  has waited for, and in the `hold` variant the worker has it together with the
  mutex.
* `SessionProofs`: `StoreNeverLies`, `RowDefined`, `RowsStayEnded`,
  `NoSessionLeaks`, `ActiveNotDisplaced`, all of them for both builds. `SessionInv`
  is inductive. `Unpublished` (a session not yet in the state file is its starter's
  alone), `JudgedInactive` (who goes on to replace a session found it inactive or
  is blind, and hyphae revives none), `WhoIsBlind` (in the test build nobody is
  without a failure) and `EndsAlone` (no two processes end one session unless they
  overlap) carry it. What the two theorems allow, a running session replaced by a
  process that got no answer about it, is an accident in the test build and what
  every ensure of a running session does in the release build (finding 1).
  `SessionAssumption` only says what the constants are.
* `SubsequenceProofs`: the lemmas about lists that the next three rest on. A
  filtered list is read off the list at growing positions that are all of those
  kept (`KeptWitness`); lists without repetition stay so when they are filtered,
  cut, appended to or joined; the greatest position is found along such a reading
  (`MaxAlong`).
* `PendingQueueProofs`: `NoEditForgotten`, `QueueTypes`. `NothingForgotten` is
  inductive only together with `TakenOnce`: what a hook has taken it has only while
  it hands on or puts back. Otherwise a step that clears `batch` could drop files
  that nobody accounts for. `TakenOnce` also bounds batch and failures together by
  the cap, which is why a requeue never makes a list longer than it was allowed.
  The theorems do not rest on `ThresholdAssumption`, which only `Drains` needs.
* `OutcomesProofs`: `DuplicatesSuppressed`, `RecoveriesDistinct`, `ErrorsTold`,
  `OutcomesReported`, `OutcomesTypes`. `Spaced` needs nothing but itself, although
  outcomes are stamped before the lock is awaited: the new one is compared with all
  of the list. `RecoveredOnce` says that a failure is claimed once, by an entry, a
  hook or an outcome; a new one is claimed by nobody because `Numbered` counts the
  hooks that can still track one. `HooksKnow` says what a hook carries in each
  phase; without it a recorded outcome could claim anything. `Overlaps` carries
  `ReportedUnlessOverlapping`: between a stop hook's reading and its clearing the
  outcomes of its session are in its summary or were recorded meanwhile.
  `ErrorsTold` is about the failure of each entry, not just one like it: it has its
  own outcome, or a hook about to record it, or its outcome was suppressed, or its
  hook was killed or could not write. It may have been suppressed by the outcome of
  a failure that has been resolved since: fail, recover and fail again within the
  window, and nothing in the list tells of the second failure.
* `ReportsProofs`, rework: `ReworkToldOncePerSession`. The list of edits is related to
  the history of all edits by a growing reading (`EditsKept`) that lacks no edit
  which any hook can still take for young; a hook that tracks late, with an old
  stamp, throws away less than one that is punctual. So the last fitting edit of
  the list is that of the history, for every window and age. `CorrectionsSpaced`
  carries the second half: what hyphae was told, or is about to be, are different
  entries of the list, and like entries are a window apart. Entries of different
  sessions are not alike: hooks that work for two sessions both tell, and in a
  release build every hook starts a session.
* `ReportsProofs`, the stop report: `StopReportsTruth`. `ReadRight` is the loop
  invariant of the transcript fold, while lines are appended behind it;
  `JournalRight` is that of the outcome list as other hooks write it. `NotesKept`
  splits the last message's notes into stored and still to be stored, `SentInOrder`
  says when anything may have been sent.
* `HooksProofs`, the tool hooks: all their safety properties. `Invariant` adds to
  the types that calls are numbered by the hooks started and which calls each
  phase can have. `AdvisoriesAlwaysPaced` needs a lemma on remainders: what was
  held back since the last advice is the counter modulo the cadence.
  `CallsAlwaysAccounted` says where a call may be while a stop stands between its
  report and its clearing. Calls recorded in just that time are removed unread; the
  theorem names them and allows no other loss.
* `HooksProofs`, the handoffs: `HandoffsAlwaysReadRight`. Most of it is about
  functions of one document, of any length. The block the code cuts out around an
  item is the set of lines no heading parts from it (`BlockIsStep`), and the fences
  counted from the block's first line are those of the step (`FencesBefore`). For
  the paste markers the proof follows the pass line by line: `PasteKnown` is its
  loop invariant, `PasteStep` one line of it. The induction over the lines is by a
  least counterexample, a set of lines having a least element (`LinesOrdered`); the
  same argument shows first that the recursive function `PasteAfter` exists
  (`PasteUnfolds`). `Said` is the only part that needs the steps.
* `CaptureProofs`: all safety properties of the captures. For
  `CapturesStoredOnce` the inductive property is `Balanced`: what was sent and
  what hooks still carry to be sent is no more than one and what the list had to
  forget. `LaterRecallsAreNormal` follows the hooks between check and consumption by
  the number of the compaction they saw: once its marker has been consumed it is
  gone, and nobody comes to see it. `CapturesAccounted` names every capture that is
  lost and counts those a failure has lost; with a socket, threads that end with
  their hook lose more.

Each is laid out the same way: one lemma per part of the invariant, with a step
per action, a lemma that joins them, and the theorems that follow. The invariants of
`PendingQueue`, `Outcomes`, `Corrections` and `StopReport` stand in these modules
beside the properties; TLC found them to hold on the instances of section 3 before
they were proved. Proofs about modules that are checked in one run share a module
(`WaitsProofs`, `ReportsProofs`, `HooksProofs`); but for the state files, which rest
on the lock, no theorem of one is used for the other.

Model-checked only: what is about liveness (`AcquireReturns`, `OrphanReclaimed`,
`OperationReturns`, `Drains`, `Returns`, `HookReturns`), since liveness under fairness is
out of the prover's reach; that `Kept` is `SelectSeq` and `Unresolved` the fold, on
lists of up to four; and the five expected violations, each of which is a
behaviour, not a theorem.

## 5. Where the code and its documents disagree

1. **A release build never reuses a session** (`session_reuse`). `hyphae session
   status` runs through `run_with_timeout`, which captures no output outside the
   tests; the empty answer is taken for "no longer active" and every hook starts a
   new session. `utils/tests.rs` tests the reuse with the captured variant.
2. **A command that times out is not killed** (`subprocess_kill`). The worker has
   taken the handle by then. Three comments say it is killed.
3. **An outcome recorded while the stop hook works is lost** (`outcomes_lost`). The
   list is read before `session end`, which may take seconds, and removed after it.
4. **The gate stays shut** (`gate_blocked`). A destructive command is blocked for
   want of an investigation; the comment says the next call with one is allowed.
   But a key that is not in the map is blocked before the investigation is looked
   at, and the map of every process is empty.

5. **The post-compaction marker can be consumed twice** (`marker_twice`). Looking for
   it and removing it are two steps, and removing a file that is gone succeeds; two
   prompts at the same time both recall specially. The comment says "Consume once".

Seen while reading and not the subject of a run:

* The executor's 30 s limit does not hold: on timeout it waits for the mutex the
  worker keeps until the hook exits (`hooks/executor.rs:164`, `:179`). No directory
  is configured, so it runs no hook today.
* `canopy agent list` is run without capturing its output
  (`utils/canopy_client.rs:204`, `:247`), so evidence is never attached to a task.
* `has_unresolved_errors` (`hooks/stop/summary.rs:156`) folds the list of all
  sessions and keys. A failure, a recovery and the same failure again within the
  dedupe window end in the recovery, and so may a list that was cut: a success.
  `VerdictRight` excludes just these.
* An outcome without a session carries no project root, so the filter at
  `summary.rs:101` never takes it for a session, and the clearing removes it.
* `fallback_session_memory_on_end_failure` (`policy.rs:93`) is read by the status
  reports only, though the repository's README promises the fallback.
* `post_compact.rs:32` calls the marker keyed by session and worktree; its path is
  keyed by the worktree alone, so a prompt of another session may take it.
* `pre_tool_use.rs:146` says the recall runs after all gate and advisory
  decisions; enforcement, clarification and advisories come after it. An advisory
  goes to the debug log only, and its counters are never reset.
* `CORTINA_DISABLED_HOOKS` is read in two places with different names for the
  hooks. A `CORTINA_NODE_CONTEXT` that cannot be parsed restricts nothing.
* The workspace root is compared with canonical paths without being canonical
  itself, so with a link in it no path of a handoff is inside.
* Exit code 1 never counts as an error in a transcript. A trigger word at the
  start of a text block other than the first is not found, since the blocks are
  joined by spaces. Every stop stores the notes of the last message again.
* Nothing keeps `CORTINA_EDIT_CLEANUP_AGE_MS` above the correction window: with
  an age below it, rework is only noticed up to that age. Nothing keeps a pending
  threshold below the cap either; above it a list is never taken, and `Drains`
  needs `ThresholdAssumption`.

## 6. Bounds of the model

Contents are left out where no property looks at them: memory texts, command
output beyond success and failure, redaction, trace context, logging. The identity
of a worktree is fixed: one path, one scope hash. The clock does not run
backwards. Outcomes have their session's identity or none, so only that branch of
`filter_outcomes_for_session` is modelled. `Outcomes` has failures, recoveries and
passed checks, `Corrections` the corrections, `Capture` those of prompts and
compactions; the list they share is one of each module's own. Texts in
`Corrections` do not change when they are cut to 200 characters. Not modelled in
`StopReport`: the false-positive markers, which are only logged, the counts per
tool, and the wording of the summary. The adoption gaps of a stop appear in the
text of an event only, and are left out of `ToolHooks`.

A document that cannot be read, and so is replaced by one that starts from the
default, is modelled in `StateFile` and `Session` only; in the other modules an
update finds what the last one left, or fails and leaves it. `AdviceIsNews` speaks
of the tool call log as the hook has read it: a tool called since may be
recommended. `VerdictRight` excludes the second failure that the dedupe window
suppresses, which `NoSilentError` names.

Not modelled, and why:

* `status.rs` prints what is on disk and changes nothing.
* The volva adapter appends to a capped list of its own that nothing but the
  status report reads; the codex adapter sends one memory.
* `permissions/` has no caller, `risk.rs` only feeds a log line, and the pipeline
  runs logging handlers and the executor without directories.
* The text processors make one pass over one string; the event types are data.
* The canopy client returns before it changes anything, as said above.

## 7. Plan

1. Done: lock, state file, session, pending lists, subprocesses, outcomes;
   captures, tool hooks, handoffs; corrections and the stop report. Proofs of all
   safety properties that the passing runs check.
2. Next, in the modules that have proofs: that `Kept` is `SelectSeq` and
   `Unresolved` the fold, by the induction of `HooksProofs`, so that TLC's
   comparison on short lists is not needed; action properties from the invariants
   at hand, such as that a row of the session store is never revived.
3. The parts of `session_scope.rs` that only the wording of a signal depends on,
   and the identity of a worktree, if a property needs them.

Two hazards of `PROJECT.json` have no property. A crash between `session start` and
saving the state file (`session_scope.rs:290`) leaks an active session, and no code
repairs it; `EverySessionAccounted` is therefore stated for behaviours without
crashes. A threshold above the cap (`pending.rs:18`) is a configuration the code
accepts and the model excludes.
