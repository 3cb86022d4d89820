------------------------------ MODULE Session ------------------------------
(***************************************************************************)
(* The scoped hyphae session of utils/session_scope.rs.  One state file    *)
(* names the session of a worktree; ensure_hyphae_session_with_hash reuses *)
(* it or starts another, end_hyphae_session_with ends it.  Both run under  *)
(* the session-operation lock and take part in three records that nothing  *)
(* keeps together: the state file, the rows of the SQLite session store,   *)
(* and hyphae's own idea of which sessions are active.                     *)
(*                                                                         *)
(* One step under the state file's own lock is atomic here (StateFile      *)
(* shows why).  The operation lock may be lost to an eviction, which       *)
(* FileLock shows possible after a fault, so operations can overlap.       *)
(***************************************************************************)
EXTENDS Naturals, FiniteSets

CONSTANTS
    Proc,        \* hook processes
    Id,          \* session ids hyphae hands out
    None,        \* no session, no owner
    Builds,      \* "test" (cfg(test)) or "release"
    Modes,       \* "async" or "sync": the answer of async_session_end_enabled()
    Mishaps,     \* the kinds of failure considered, each at most once
    MaxMishaps   \* bound: failures in one behaviour

Kinds == {"crash", "evict", "io", "status"}

ASSUME SessionAssumption ==
    /\ None \notin Proc /\ None \notin Id
    /\ Builds \subseteq {"test", "release"} /\ Modes \subseteq {"async", "sync"}
    /\ Mishaps \subseteq Kinds /\ MaxMishaps \in Nat

VARIABLES
    build,       \* the build that runs
    mode,        \* async: `session end` runs in a thread that is joined for 5 s at most
    pc,          \* pc[p]: where p is
    owner,       \* the process whose operation lock is at the path
    file,        \* the session the state file names
    form,        \* the state file was written by the "current" or an "older" release
    seen,        \* seen[p]: the session p has read from the state file
    upgrade,     \* processes whose copy of the state is in the older form
    mine,        \* mine[p]: the session p has started
    blind,       \* processes that start a session not knowing about the one before
    lost,        \* the sessions that such processes have replaced in the state file
    cmd,         \* cmd[p]: the `session end` command p waits for
    detached,    \* sessions with an end command whose process no longer waits
    hyphae,      \* hyphae[s]: the session in hyphae
    row,         \* row[s]: its status in the session store
    mishaps      \* failures so far

disk == <<file, form, lost>>
locals == <<seen, upgrade, mine, blind>>
ends == <<cmd, detached>>
vars == <<build, mode, pc, owner, disk, locals, ends, hyphae, row, mishaps>>

EnsurePhases == {"load", "match", "refresh", "start", "record", "publish"}
EndPhases == {"remove", "mark", "run", "wait"}
Phase == EnsurePhases \union EndPhases \union
         {"idle", "ensure", "end", "endload", "leave", "done", "crashed"}

\* A state file may survive from an earlier boot of the agent, in the form of
\* this release or of an older one; its row may be missing.
Init ==
    /\ build \in Builds
    /\ mode \in Modes
    /\ pc = [p \in Proc |-> "idle"]
    /\ owner = None
    /\ file \in Id \union {None}
    /\ form \in {"current", "older"} /\ (file = None => form = "current")
    /\ seen = [p \in Proc |-> None]
    /\ upgrade = {}
    /\ mine = [p \in Proc |-> None]
    /\ blind = {} /\ lost = {}
    /\ cmd = [p \in Proc |-> "none"]
    /\ detached = {}
    /\ hyphae \in [Id -> {"none", "active", "ended"}]
    /\ row \in [Id -> {"none", "active"}]
    /\ \A s \in Id : IF s = file THEN hyphae[s] # "none"
                                 ELSE hyphae[s] = "none" /\ row[s] = "none"
    /\ mishaps = {}

Goto(p, phase) == pc' = [pc EXCEPT ![p] = phase]

Forget(p) ==
    /\ seen' = [seen EXCEPT ![p] = None]
    /\ upgrade' = upgrade \ {p}
    /\ mine' = [mine EXCEPT ![p] = None]
    /\ blind' = blind \ {p}

\* The operation returns; the guard is dropped next.
Return(p) ==
    /\ Goto(p, "leave")
    /\ Forget(p)

\* p's own session goes into the state file, over whatever it names.
Replace(p) ==
    /\ file' = mine[p] /\ form' = "current"
    /\ lost' = IF p \in blind /\ file # None THEN lost \union {file} ELSE lost

MishapsLeft == Cardinality(mishaps) < MaxMishaps

Mishap(kind) ==
    /\ MishapsLeft
    /\ kind \in Mishaps \ mishaps
    /\ mishaps' = mishaps \union {kind}

\* An UPDATE of the store touches only a row that exists.
SetRow(s, status) ==
    row' = IF row[s] = "none" THEN row ELSE [row EXCEPT ![s] = status]

----------------------------------------------------------------------------
(* with_session_operation_lock *)

Call(p) ==
    /\ pc[p] = "idle"
    /\ Goto(p, "ensure") \/ Goto(p, "end")
    /\ UNCHANGED <<build, mode, owner, disk, locals, ends, hyphae, row, mishaps>>

Enter(p) ==
    /\ pc[p] \in {"ensure", "end"}
    /\ owner = None
    /\ owner' = p
    /\ Goto(p, IF pc[p] = "ensure" THEN "load" ELSE "endload")
    /\ UNCHANGED <<build, mode, disk, locals, ends, hyphae, row, mishaps>>

\* "timed out waiting for file lock": the caller gets None.
LockTimesOut(p) ==
    /\ pc[p] \in {"ensure", "end"}
    /\ owner # None
    /\ Goto(p, "done")
    /\ UNCHANGED <<build, mode, owner, disk, locals, ends, hyphae, row, mishaps>>

\* The guard is dropped and removes the lock file if it is still its own.
Leave(p) ==
    /\ pc[p] = "leave"
    /\ owner' = IF owner = p THEN None ELSE owner
    /\ Goto(p, "done")
    /\ UNCHANGED <<build, mode, disk, locals, ends, hyphae, row, mishaps>>

\* The hook process ends, its threads with it.  A command it still waited for
\* runs on.
Abandon(p) ==
    /\ cmd' = [cmd EXCEPT ![p] = "none"]
    /\ detached' = IF cmd[p] = "running" THEN detached \union {seen[p]} ELSE detached

Exit(p) ==
    /\ pc[p] = "done"
    /\ Abandon(p)
    /\ Goto(p, "idle")
    /\ Forget(p)
    /\ UNCHANGED <<build, mode, owner, disk, hyphae, row, mishaps>>

----------------------------------------------------------------------------
(* Faulty variants, each to be put in place of the definition it names.     *)

\* The loser of a race overwrites the state that appeared meanwhile.
PublishUnchecked(p) ==
    /\ pc[p] = "publish"
    /\ Replace(p)
    /\ Return(p)
    /\ UNCHANGED <<build, mode, owner, ends, hyphae, row, mishaps>>

\* A missing state file is not noticed.
EndLoadUnchecked(p) ==
    /\ pc[p] = "endload"
    /\ seen' = [seen EXCEPT ![p] = file]
    /\ Goto(p, "remove")
    /\ UNCHANGED <<build, mode, owner, disk, upgrade, mine, blind, ends, hyphae, row, mishaps>>

\* The state file is left for the next session start to replace.
RemoveStateLater(p) ==
    /\ pc[p] = "remove"
    /\ Goto(p, IF mode = "async" THEN "mark" ELSE "run")
    /\ UNCHANGED <<build, mode, owner, disk, locals, ends, hyphae, row, mishaps>>

\* The row is left to the thread alone.
RemoveStateUnmarked(p) ==
    /\ pc[p] = "remove"
    /\ file' = None /\ form' = "current"
    /\ Goto(p, "run")
    /\ UNCHANGED <<build, mode, owner, lost, locals, ends, hyphae, row, mishaps>>

\* The exit status is not looked at.
ConfirmAnyExit(p) ==
    /\ cmd[p] \in {"ok", "failed"}
    /\ SetRow(seen[p], "ended")
    /\ cmd' = [cmd EXCEPT ![p] = "none"]
    /\ IF pc[p] = "wait" THEN Return(p) ELSE UNCHANGED pc /\ Forget(p)
    /\ UNCHANGED <<build, mode, owner, disk, detached, hyphae, mishaps>>

\* A plain handle.join().
JoinForEver(p) == FALSE

\* The error path returns without touching the store.
RunTimesOutUnrecorded(p) ==
    /\ mode = "sync" /\ pc[p] = "wait"
    /\ cmd[p] = "running"
    /\ Abandon(p)
    /\ Return(p)
    /\ UNCHANGED <<build, mode, owner, disk, hyphae, row, mishaps>>

----------------------------------------------------------------------------
(* ensure_hyphae_session_with_hash *)

LoadExisting(p) ==
    /\ pc[p] = "load"
    /\ seen' = [seen EXCEPT ![p] = file]
    /\ upgrade' = IF form = "older" THEN upgrade \union {p} ELSE upgrade
    /\ Goto(p, IF file = None THEN "start" ELSE "match")
    /\ UNCHANGED <<build, mode, owner, disk, mine, blind, ends, hyphae, row, mishaps>>

\* A state file that cannot be read or parsed counts as none.
LoadUnread(p) ==
    /\ pc[p] = "load" /\ file # None
    /\ Mishap("io")
    /\ blind' = blind \union {p}
    /\ Goto(p, "start")
    /\ UNCHANGED <<build, mode, owner, disk, seen, upgrade, mine, ends, hyphae, row>>

\* match_active_session.  It answers from the command's standard output, which
\* only the test build captures: the release build goes on as if the session were
\* over, without knowing.
Match(p) ==
    /\ pc[p] = "match"
    /\ build = "test" /\ hyphae[seen[p]] = "active"
    /\ Goto(p, "refresh")
    /\ UNCHANGED <<build, mode, owner, disk, locals, ends, hyphae, row, mishaps>>

NoMatch(p) ==
    /\ pc[p] = "match"
    /\ ~(build = "test" /\ hyphae[seen[p]] = "active")
    /\ blind' = IF build = "release" THEN blind \union {p} ELSE blind
    /\ Goto(p, "start")
    /\ UNCHANGED <<build, mode, owner, disk, seen, upgrade, mine, ends, hyphae, row, mishaps>>

\* A status command that fails or times out counts as "not active".
StatusFails(p) ==
    /\ pc[p] = "match"
    /\ Mishap("status")
    /\ blind' = blind \union {p}
    /\ Goto(p, "start")
    /\ UNCHANGED <<build, mode, owner, disk, seen, upgrade, mine, ends, hyphae, row>>

\* The matching state is brought into this release's form and saved if that
\* changed it.
Refresh(p) ==
    /\ pc[p] = "refresh"
    /\ IF p \in upgrade THEN file' = seen[p] /\ form' = "current" /\ UNCHANGED lost
                        ELSE UNCHANGED disk
    /\ Return(p)
    /\ UNCHANGED <<build, mode, owner, ends, hyphae, row, mishaps>>

\* start_hyphae_session: the command, then its row.
StartHyphae(p) ==
    /\ pc[p] = "start"
    /\ \E s \in Id :
          /\ hyphae[s] = "none"
          /\ hyphae' = [hyphae EXCEPT ![s] = "active"]
          /\ mine' = [mine EXCEPT ![p] = s]
    /\ Goto(p, "record")
    /\ UNCHANGED <<build, mode, owner, disk, seen, upgrade, blind, ends, row, mishaps>>

\* Non-zero exit, no output, or no binary: the error ends the operation.
StartFails(p) ==
    /\ pc[p] = "start"
    /\ Return(p)
    /\ UNCHANGED <<build, mode, owner, disk, ends, hyphae, row, mishaps>>

\* `hyphae protocol`, whose failure is ignored, and SessionStore::create, whose
\* failure is too.
CreateRow(p) ==
    /\ pc[p] = "record"
    /\ \/ row' = [row EXCEPT ![mine[p]] = "active"] /\ UNCHANGED mishaps
       \/ Mishap("io") /\ UNCHANGED row
    /\ Goto(p, "publish")
    /\ UNCHANGED <<build, mode, owner, disk, locals, ends, hyphae>>

\* Under the file lock: a state that appeared meanwhile wins, unless it is the
\* one found inactive.
Publish(p) ==
    /\ pc[p] = "publish"
    /\ IF file \in {None, seen[p]}
       THEN Replace(p)
       ELSE UNCHANGED disk
    /\ Return(p)
    /\ UNCHANGED <<build, mode, owner, ends, hyphae, row, mishaps>>

\* The state file cannot be read (still, or now): it counts as none.
PublishUnread(p) ==
    /\ pc[p] = "publish" /\ file # None
    /\ \/ p \in blind /\ seen[p] = None /\ UNCHANGED mishaps
       \/ Mishap("io")
    /\ Replace(p)
    /\ Return(p)
    /\ UNCHANGED <<build, mode, owner, ends, hyphae, row>>

----------------------------------------------------------------------------
(* end_hyphae_session_with *)

EndLoad(p) ==
    /\ pc[p] = "endload"
    /\ seen' = [seen EXCEPT ![p] = file]
    /\ Goto(p, IF file = None THEN "leave" ELSE "remove")
    /\ UNCHANGED <<build, mode, owner, disk, upgrade, mine, blind, ends, hyphae, row, mishaps>>

\* The state file goes before hyphae is told, if it still names the session.
\* A failure to remove it is ignored.
RemoveState(p) ==
    /\ pc[p] = "remove"
    /\ \/ /\ file = seen[p]
          /\ file' = None /\ form' = "current"
          /\ UNCHANGED <<lost, mishaps>>
       \/ file # seen[p] /\ UNCHANGED <<disk, mishaps>>
       \/ file = seen[p] /\ Mishap("io") /\ UNCHANGED disk
    /\ Goto(p, IF mode = "async" THEN "mark" ELSE "run")
    /\ UNCHANGED <<build, mode, owner, locals, ends, hyphae, row>>

\* Asynchronous mode records the session as orphaned before the command runs.
MarkOrphaned(p) ==
    /\ pc[p] = "mark"
    /\ \/ SetRow(seen[p], "orphaned") /\ UNCHANGED mishaps
       \/ Mishap("io") /\ UNCHANGED row
    /\ Goto(p, "run")
    /\ UNCHANGED <<build, mode, owner, disk, locals, ends, hyphae>>

\* `hyphae session end --id ..` is spawned, or fails to be.
SpawnEnd(p) ==
    /\ pc[p] = "run"
    /\ \E result \in {"running", "failed"} : cmd' = [cmd EXCEPT ![p] = result]
    /\ Goto(p, "wait")
    /\ UNCHANGED <<build, mode, owner, disk, locals, detached, hyphae, row, mishaps>>

\* The waiting thread learns how the command ended and updates the row; in
\* asynchronous mode it may do so after the operation has returned.
Confirm(p) ==
    /\ cmd[p] \in {"ok", "failed"}
    /\ \/ SetRow(seen[p], IF cmd[p] = "ok" THEN "ended" ELSE "orphaned") /\ UNCHANGED mishaps
       \/ Mishap("io") /\ UNCHANGED row
    /\ cmd' = [cmd EXCEPT ![p] = "none"]
    /\ IF pc[p] = "wait"
       THEN Return(p)
       ELSE UNCHANGED pc /\ Forget(p)
    /\ UNCHANGED <<build, mode, owner, disk, detached, hyphae>>

\* join_session_end_thread gives up after HYPHAE_WRITE_TIMEOUT; the operation
\* returns the session all the same.
JoinTimesOut(p) ==
    /\ mode = "async" /\ pc[p] = "wait"
    /\ cmd[p] = "running"
    /\ Goto(p, "leave")
    /\ UNCHANGED <<build, mode, owner, disk, locals, ends, hyphae, row, mishaps>>

\* run_with_timeout gives up in synchronous mode.  The worker thread owns the
\* child by then, so nothing kills it.
RunTimesOut(p) ==
    /\ mode = "sync" /\ pc[p] = "wait"
    /\ cmd[p] = "running"
    /\ Abandon(p)
    /\ SetRow(seen[p], "orphaned")
    /\ Return(p)
    /\ UNCHANGED <<build, mode, owner, disk, hyphae, mishaps>>

----------------------------------------------------------------------------
(* hyphae, and what can go wrong *)

\* The end command a process waits for succeeds or fails.
EndCommand(p) ==
    /\ cmd[p] = "running"
    /\ \/ /\ cmd' = [cmd EXCEPT ![p] = "ok"]
          /\ hyphae' = [hyphae EXCEPT ![seen[p]] = "ended"]
       \/ /\ cmd' = [cmd EXCEPT ![p] = "failed"]
          /\ UNCHANGED hyphae
    /\ UNCHANGED <<build, mode, pc, owner, disk, locals, detached, row, mishaps>>

DetachedCommand(s) ==
    /\ s \in detached
    /\ detached' = detached \ {s}
    /\ hyphae' = [hyphae EXCEPT ![s] = "ended"] \/ UNCHANGED hyphae
    /\ UNCHANGED <<build, mode, pc, owner, disk, locals, cmd, row, mishaps>>

\* Somebody else ends a session in hyphae.
Expire(s) ==
    /\ hyphae[s] = "active"
    /\ hyphae' = [hyphae EXCEPT ![s] = "ended"]
    /\ UNCHANGED <<build, mode, pc, owner, disk, locals, ends, row, mishaps>>

\* A step that needs the state file's lock does not get it or cannot save, a state
\* file to be removed cannot be read, or the hyphae binary is gone by the
\* time a session is to be ended.
FileFails(p) ==
    /\ pc[p] \in {"load", "refresh", "publish", "endload", "remove"}
    /\ Mishap("io")
    /\ Return(p)
    /\ UNCHANGED <<build, mode, owner, disk, ends, hyphae, row>>

Crash(p) ==
    /\ pc[p] \notin {"idle", "crashed"}
    /\ Mishap("crash")
    /\ Abandon(p)
    /\ Goto(p, "crashed")
    /\ Forget(p)
    /\ UNCHANGED <<build, mode, owner, disk, hyphae, row>>

\* A dead owner's lock is reclaimed; a live one's is lost to a stale verdict.
Evict ==
    /\ owner # None
    /\ IF pc[owner] = "crashed" THEN UNCHANGED mishaps ELSE Mishap("evict")
    /\ owner' = None
    /\ UNCHANGED <<build, mode, pc, disk, locals, ends, hyphae, row>>

\* The steps that wait for `hyphae session start` and `hyphae protocol`.
Start(p) == StartHyphae(p) \/ StartFails(p) \/ CreateRow(p)

Ensure(p) ==
    LoadExisting(p) \/ Match(p) \/ NoMatch(p) \/ Refresh(p) \/ Publish(p)

End(p) ==
    \/ EndLoad(p) \/ RemoveState(p) \/ MarkOrphaned(p) \/ SpawnEnd(p)
    \/ Confirm(p) \/ JoinTimesOut(p) \/ RunTimesOut(p)

Hook(p) == Enter(p) \/ LockTimesOut(p) \/ Ensure(p) \/ End(p) \/ Leave(p)

Failure(p) ==
    StatusFails(p) \/ LoadUnread(p) \/ PublishUnread(p) \/ FileFails(p) \/ Crash(p)

Next ==
    \/ \E p \in Proc :
          \/ Call(p) \/ Hook(p) \/ Start(p) \/ Exit(p) \/ EndCommand(p) \/ Failure(p)
    \/ \E s \in Id : DetachedCommand(s) \/ Expire(s)
    \/ Evict

Spec == Init /\ [][Next]_vars

\* A live hook process keeps running and its timeouts fire.  hyphae is not fair: a
\* command may hang for ever, and with it the steps of an ensure that wait for
\* one without a deadline.
LiveSpec == Spec /\ \A p \in Proc : WF_vars(Hook(p)) /\ WF_vars(Exit(p))

----------------------------------------------------------------------------
(* Properties *)

\* Types, and: an operation that ends a session has read one.
SessionTypeOK ==
    /\ build \in Builds /\ mode \in Modes /\ form \in {"current", "older"}
    /\ pc \in [Proc -> Phase]
    /\ owner \in Proc \union {None}
    /\ file \in Id \union {None}
    /\ seen \in [Proc -> Id \union {None}]
    /\ mine \in [Proc -> Id \union {None}]
    /\ upgrade \subseteq Proc /\ blind \subseteq Proc /\ lost \subseteq Id
    /\ cmd \in [Proc -> {"none", "running", "ok", "failed"}]
    /\ detached \subseteq Id
    /\ hyphae \in [Id -> {"none", "active", "ended"}]
    /\ row \in [Id -> {"none", "active", "orphaned", "ended"}]
    /\ mishaps \subseteq Mishaps
    /\ \A p \in Proc :
          /\ pc[p] \in EndPhases \union {"match", "refresh"} \/ cmd[p] # "none" => seen[p] \in Id
          /\ pc[p] \in {"record", "publish"} => mine[p] \in Id

\* The store says "ended" only of a session hyphae has confirmed to be over,
\* whatever crashes, times out, is lost or overlaps.
CleanMeansEnded == \A s \in Id : row[s] = "ended" => hyphae[s] = "ended"

\* "marked orphaned now so the record is in a defined state if the thread is
\* killed": while an asynchronous end command runs, the row no longer says
\* active.
DefinedDuringWrite ==
    mode = "async" /\ "io" \notin mishaps =>
        \A p \in Proc : cmd[p] # "none" => row[seen[p]] # "active"

\* A session is ended once: no second end takes back a confirmed row, as long
\* as operations do not overlap and the state file could be removed.
ConfirmedOnce ==
    [][{"evict", "io"} \intersect mishaps = {} =>
          \A s \in Id : row[s] = "ended" => row'[s] = "ended"]_vars

\* No session leaks unnoticed: whatever hyphae still runs is the one the state
\* file names, in the hands of the operation that holds the lock, known to be
\* orphaned (or its row is missing), or was replaced by a process that had no
\* answer about it.  The last happens in the test build only when a status query
\* fails; in the release build no query is answered, and every ensure of a
\* running session loses it.
EverySessionAccounted ==
    /\ mishaps \subseteq {"status"} =>
          \A s \in Id : hyphae[s] = "active" =>
            \/ file = s
            \/ row[s] \in {"orphaned", "none"}
            \/ \E p \in Proc :
                  /\ owner = p
                  /\ \/ pc[p] = "publish" /\ mine[p] = s
                     \/ pc[p] \in EndPhases /\ seen[p] = s
            \/ s \in lost
    /\ build = "test" /\ mishaps = {} => lost = {}

\* An active session is displaced from the state file only by a process that
\* had asked about this very session and got no answer, even when operations
\* overlap after an eviction or a crash: the re-check under the file lock never
\* replaces a session that another hook has put there meanwhile, in either
\* build.  (An upgrade of an older file writes without a re-check, and a file
\* that cannot be read cannot be re-checked: neither is covered.)
NeverDisplaced ==
    [][/\ file # None /\ file' \notin {None, file} /\ hyphae[file] = "active"
       /\ "io" \notin mishaps'
       /\ \A p \in Proc : pc[p] = "refresh" => pc'[p] = "refresh"
       => \E p \in blind : pc[p] = "publish" /\ pc'[p] = "leave" /\ seen[p] = file]_vars

\* tests.rs:475: an active session named by the state file is reused.
ReusesActive ==
    [][\A p \in Proc :
          pc[p] = "start" /\ pc'[p] = "record" /\ mishaps = {} =>
              seen[p] = None \/ hyphae[seen[p]] # "active"]_vars

\* join_session_end_thread: a hung hyphae does not stall the end of a session,
\* neither by its own command nor by the `session start` of another hook that
\* keeps the operation lock for ever.  Only an ensure may hang, and only in its
\* own start: it is turned away or gets there, and returns once hyphae has
\* answered.  (No operation comes to "start" from "end" or "publish" before it
\* has returned.)
OperationReturns ==
    \A p \in Proc :
        pc[p] \in {"ensure", "end", "publish"} ~> pc[p] \in {"start", "done", "crashed"}

----------------------------------------------------------------------------
(* The inductive invariant behind the safety properties *)

\* Every id in anybody's hands, and in the store, has been handed out by hyphae.
KnownIds ==
    /\ \A s \in Id : row[s] # "none" => hyphae[s] # "none"
    /\ file # None => hyphae[file] # "none"
    /\ \A p \in Proc :
          /\ seen[p] # None => hyphae[seen[p]] # "none"
          /\ mine[p] # None => hyphae[mine[p]] # "none"

\* A session that is not in the state file yet is its starter's alone.
Unpublished ==
    \A p \in Proc : mine[p] # None =>
        /\ row[mine[p]] \in {"none", "active"}
        /\ file # mine[p]
        /\ \A q \in Proc : seen[q] # mine[p] /\ (q # p => mine[q] # mine[p])

ConfirmedCommand == \A p \in Proc : cmd[p] = "ok" => hyphae[seen[p]] = "ended"

\* Whoever goes on to replace a session has found it inactive, or is blind, and
\* hyphae never revives one.
JudgedInactive ==
    \A p \in Proc \ blind :
        pc[p] \in {"start", "record", "publish"} /\ seen[p] # None =>
            hyphae[seen[p]] # "active"

\* Only the release build, or a failure, leaves a process without an answer; one
\* without an answer and with nothing read could not read the state file.
WhoIsBlind ==
    /\ \A p \in blind : pc[p] \in {"start", "record", "publish"}
    /\ build = "test" /\ mishaps = {} => blind = {}
    /\ "io" \notin mishaps => \A p \in blind : seen[p] # None

MarkedBeforeRun ==
    mode = "async" /\ "io" \notin mishaps =>
        \A p \in Proc : pc[p] = "run" => row[seen[p]] # "active"

\* Until an eviction, whoever is inside has the lock, and the state file, if it
\* could be read, still is as it was read.
Undisturbed ==
    "evict" \notin mishaps => \A p \in Proc :
        /\ pc[p] \notin {"idle", "ensure", "end", "done", "crashed"} => owner = p
        /\ "io" \notin mishaps /\ pc[p] \in (EnsurePhases \ {"load"}) \union {"remove"} =>
              file = seen[p]

\* p is ending the session seen[p], and its row is not final yet.
Ending(p) == pc[p] \in {"mark", "run", "wait"} \/ cmd[p] # "none"

\* Without overlap no two processes end one session, and the state file names
\* none that is being ended or has been.
EndsAlone ==
    {"evict", "io"} \intersect mishaps = {} =>
        /\ file # None => row[file] # "ended"
        /\ \A p \in Proc : Ending(p) =>
              /\ row[seen[p]] # "ended"
              /\ file # seen[p]
              /\ \A q \in Proc : q # p /\ Ending(q) => seen[q] # seen[p]

\* A command outlives the wait for it in asynchronous mode only.
WaitedFor ==
    \A p \in Proc : cmd[p] # "none" =>
        \/ pc[p] = "wait"
        \/ mode = "async" /\ pc[p] \in {"leave", "done"}

SessionInv ==
    /\ SessionTypeOK
    /\ KnownIds
    /\ Unpublished
    /\ ConfirmedCommand
    /\ CleanMeansEnded
    /\ JudgedInactive
    /\ WhoIsBlind
    /\ MarkedBeforeRun
    /\ DefinedDuringWrite
    /\ Undisturbed
    /\ WaitedFor
    /\ EndsAlone
    /\ EverySessionAccounted
=============================================================================
