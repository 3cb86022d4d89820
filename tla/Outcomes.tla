------------------------------ MODULE Outcomes ------------------------------
(***************************************************************************)
(* What the bash hook remembers of failed commands, and what the stop hook *)
(* makes of it.  handle_bash keeps two state files of a worktree: the      *)
(* errors that are not resolved yet, and the list of outcomes (failures,   *)
(* recoveries, passed checks).  The stop hook summarises the outcomes of   *)
(* its session, ends the session with that summary and clears the list.    *)
(*                                                                         *)
(* Both hooks take several steps, and other hook processes run between     *)
(* them.  One update_json_file is one step (StateFile shows why), and so   *)
(* is ensuring or ending the session (Session has the details): ensuring   *)
(* yields the session of the state file, a new one, or none.               *)
(*                                                                         *)
(* The other kinds of outcome (corrections, exports, ingests) are recorded *)
(* in the same way and read by no rule here; they are left out.  So is the *)
(* signal of success or failure, for which the list is read once more.  No *)
(* evidence is attached: `canopy agent list` is run without capturing its  *)
(* output, so there is never a task to attach it to.                       *)
(***************************************************************************)
EXTENDS Integers, SequencesExt

CONSTANTS
    Proc,          \* hook processes
    Command,       \* command lines
    KeyOf,         \* normalize_command: their first two words
    Checks,        \* the build and test commands among them
    Session,       \* session ids
    None,          \* no session, no entry, no event
    Window,        \* outcome_dedupe_window_ms
    MaxOutcomes,   \* max_outcome_events
    MaxTime,       \* bound: the clock
    MaxHooks,      \* bound: hooks started
    MaxFaults      \* bound: crashes and failed updates

ASSUME OutcomesAssumption ==
    /\ None \notin Session
    /\ Checks \subseteq Command
    /\ DOMAIN KeyOf = Command
    /\ Window \in Nat /\ MaxOutcomes \in Nat \ {0}
    /\ MaxTime \in Nat /\ MaxHooks \in Nat /\ MaxFaults \in Nat

VARIABLES
    now,         \* the clock
    errors,      \* errors[k]: the unresolved failure of a command with key k
    outcomes,    \* the list of outcomes
    current,     \* the session the state file names
    used,        \* sessions that have been started
    pc,          \* pc[p]: where hook p is
    cmd,         \* cmd[p]: the command p handles
    who,         \* who[p]: the session p works for
    about,       \* about[p]: the number of the failure p has tracked, or 0
    cause,       \* cause[p]: the failure p has taken out of errors
    event,       \* event[p]: the outcome p is about to record
    summary,     \* summary[p]: the outcomes p has read for its summary
    hooks, faults,
    failures,    \* history: failures tracked so far, which also numbers them
    exposed,     \* history: outcomes recorded while a stop hook was at work
    suppressed,  \* history: outcomes of failures that counted as duplicates
    dropped,     \* history: failures tracked by hooks that failed to record them
    trimmed,     \* history: the list has been cleared or has overflowed
    lost         \* history: what was cleared with a session, but not summarised

disk == <<errors, outcomes, current, used>>
locals == <<cmd, who, about, cause, event, summary>>
history == <<failures, suppressed, dropped, exposed, trimmed, lost>>
vars == <<now, disk, pc, locals, hooks, faults, history>>

Keys == {KeyOf[c] : c \in Command}
Sessions == Session \union {None}
Failure == [n : 1..MaxHooks, cmd : Command, at : 0..MaxTime, session : Sessions]
\* of, the number of a detected failure, is not in the code.
Outcome == [kind : {"detected", "resolved", "passed"}, cmd : Command, session : Sessions,
            at : 0..MaxTime, cause : Failure \union {None}, of : 0..MaxHooks]

StopPhases == {"load", "end", "clear", "discard"}
Phase == {"idle", "track", "detect", "resolve", "recover", "validate", "record", "signal"}
         \union StopPhases

Init ==
    /\ now = 0
    /\ errors = [k \in Keys |-> None]
    /\ outcomes = <<>>
    /\ current \in Sessions
    /\ used = {current} \ {None}
    /\ pc = [p \in Proc |-> "idle"]
    /\ cmd = [p \in Proc |-> None]
    /\ who = [p \in Proc |-> None]
    /\ about = [p \in Proc |-> 0]
    /\ cause = [p \in Proc |-> None]
    /\ event = [p \in Proc |-> None]
    /\ summary = [p \in Proc |-> {}]
    /\ hooks = 0 /\ faults = 0
    /\ failures = 0 /\ suppressed = {} /\ dropped = {}
    /\ exposed = {} /\ trimmed = FALSE /\ lost = {}

Goto(p, phase) == pc' = [pc EXCEPT ![p] = phase]

\* The hook is over; what it knew is gone.
Finish(p) ==
    /\ Goto(p, "idle")
    /\ cmd' = [cmd EXCEPT ![p] = None]
    /\ who' = [who EXCEPT ![p] = None]
    /\ about' = [about EXCEPT ![p] = 0]
    /\ cause' = [cause EXCEPT ![p] = None]
    /\ event' = [event EXCEPT ![p] = None]
    /\ summary' = [summary EXCEPT ![p] = {}]

\* ensure_scoped_hyphae_session returns s: none, the one it finds active (a
\* release build never does), or a new one.
EnsureSession(s) ==
    \/ /\ s = None
       /\ UNCHANGED <<current, used>>
    \/ /\ s = current /\ s # None
       /\ UNCHANGED <<current, used>>
    \/ /\ s \in Session \ used
       /\ current' = s
       /\ used' = used \union {s}

\* The outcome a hook makes at this moment, stamped before it waits for a lock.
NewEvent(p, kind, session, why) ==
    event' = [event EXCEPT ![p] =
        [kind |-> kind, cmd |-> cmd[p], session |-> session, at |-> now, cause |-> why,
         of |-> about[p]]]

\* saturating_sub
Since(a, b) == IF a > b THEN a - b ELSE 0

SameCause(a, b) ==
    \/ a = None /\ b = None
    \/ a # None /\ b # None /\ a.cmd = b.cmd /\ a.at = b.at /\ a.session = b.session

\* The session is not compared.
SameCommand(a, b) == a.kind = b.kind /\ a.cmd = b.cmd /\ SameCause(a.cause, b.cause)

\* semantically_matches: everything but the timestamp, and so not which failure
\* it was.
Same(a, b) ==
    /\ a.kind = b.kind /\ a.cmd = b.cmd /\ a.session = b.session
    /\ SameCause(a.cause, b.cause)

\* < in place of <=.
IsDuplicateStrict(e) ==
    \E i \in DOMAIN outcomes :
        Same(outcomes[i], e) /\ Since(e.at, outcomes[i].at) < Window

IsDuplicate(e) ==
    \E i \in DOMAIN outcomes :
        Same(outcomes[i], e) /\ Since(e.at, outcomes[i].at) <= Window

\* The cap is compared with the length before the push.
CappedLate(list) == IF Len(list) > MaxOutcomes + 1 THEN Tail(list) ELSE list

\* The oldest outcomes go first.
Capped(list) ==
    IF Len(list) > MaxOutcomes THEN SubSeq(list, Len(list) - MaxOutcomes + 1, Len(list)) ELSE list

\* && in place of ||: only an outcome with the session and without one.
ForSessionAnd(list, s) ==
    IF s = None THEN ToSet(list)
    ELSE {e \in ToSet(list) : e.session = s /\ e.session = None}

\* filter_outcomes_for_session.  An outcome without a session carries no
\* identity either, so only a stop without a session takes it.
ForSession(list, s) ==
    IF s = None THEN ToSet(list) ELSE {e \in ToSet(list) : e.session = s}

----------------------------------------------------------------------------
(* handle_bash *)

\* A hook of a command that failed starts and ensures a session.
Fails(p, c) ==
    /\ pc[p] = "idle" /\ hooks < MaxHooks
    /\ hooks' = hooks + 1
    /\ cmd' = [cmd EXCEPT ![p] = c]
    /\ \E s \in Sessions : EnsureSession(s) /\ who' = [who EXCEPT ![p] = s]
    /\ Goto(p, "track")
    /\ UNCHANGED <<now, errors, outcomes, about, cause, event, summary, faults, history>>

\* track_error replaces the entry of the key.
Track(p) ==
    /\ pc[p] = "track"
    /\ failures' = failures + 1
    /\ errors' = [errors EXCEPT ![KeyOf[cmd[p]]] =
           [n |-> failures + 1, cmd |-> cmd[p], at |-> now, session |-> who[p]]]
    /\ about' = [about EXCEPT ![p] = failures + 1]
    /\ Goto(p, "detect")
    /\ UNCHANGED <<now, outcomes, current, used, cmd, who, cause, event, summary, hooks, faults,
                   suppressed, dropped, exposed, trimmed, lost>>

\* Unless the entry is of the same command within the window, and its output
\* was the same.
TrackAgain(p) ==
    /\ pc[p] = "track"
    /\ LET old == errors[KeyOf[cmd[p]]]
       IN  old # None /\ old.cmd = cmd[p] /\ Since(now, old.at) <= Window
    /\ Finish(p)
    /\ UNCHANGED <<now, disk, hooks, faults, history>>

Detect(p) ==
    /\ pc[p] = "detect"
    /\ NewEvent(p, "detected", who[p], None)
    /\ Goto(p, "record")
    /\ UNCHANGED <<now, disk, cmd, who, about, cause, summary, hooks, faults, history>>

\* A hook of a command that succeeded starts; the session it ensures first is
\* not used.
Succeeds(p, c) ==
    /\ pc[p] = "idle" /\ hooks < MaxHooks
    /\ hooks' = hooks + 1
    /\ cmd' = [cmd EXCEPT ![p] = c]
    /\ \E s \in Sessions : EnsureSession(s)
    /\ Goto(p, "resolve")
    /\ UNCHANGED <<now, errors, outcomes, who, about, cause, event, summary, faults, history>>

\* get in place of remove.
ResolveKept(p) ==
    /\ pc[p] = "resolve"
    /\ cause' = [cause EXCEPT ![p] = errors[KeyOf[cmd[p]]]]
    /\ Goto(p, IF errors[KeyOf[cmd[p]]] = None THEN "validate" ELSE "recover")
    /\ UNCHANGED <<now, disk, cmd, who, about, event, summary, hooks, faults, history>>

\* resolve_error takes the entry of its key, whichever command left it.
Resolve(p) ==
    /\ pc[p] = "resolve"
    /\ LET k == KeyOf[cmd[p]]
       IN  /\ errors' = [errors EXCEPT ![k] = None]
           /\ cause' = [cause EXCEPT ![p] = errors[k]]
           /\ Goto(p, IF errors[k] = None THEN "validate" ELSE "recover")
    /\ UNCHANGED <<now, outcomes, current, used, cmd, who, about, event, summary, hooks, faults,
                   history>>

Recover(p) ==
    /\ pc[p] = "recover"
    /\ \E s \in Sessions : EnsureSession(s) /\ NewEvent(p, "resolved", s, cause[p])
    /\ cause' = [cause EXCEPT ![p] = None]
    /\ Goto(p, "record")
    /\ UNCHANGED <<now, errors, outcomes, cmd, who, about, summary, hooks, faults, history>>

\* log_validation_success
Validate(p) ==
    /\ pc[p] = "validate" /\ cmd[p] \in Checks
    /\ \E s \in Sessions : EnsureSession(s) /\ NewEvent(p, "passed", s, None)
    /\ Goto(p, "record")
    /\ UNCHANGED <<now, errors, outcomes, cmd, who, about, cause, summary, hooks, faults, history>>

\* It was no check, or its exit code is not known.
NothingToValidate(p) ==
    /\ pc[p] = "validate"
    /\ Finish(p)
    /\ UNCHANGED <<now, disk, hooks, faults, history>>

\* What follows the record of an outcome, inserted or not.
Continue(p) ==
    IF event[p].kind = "resolved"
    THEN /\ event' = [event EXCEPT ![p] = None]
         /\ Goto(p, "validate")
         /\ UNCHANGED <<cmd, who, about, cause, summary>>
    ELSE Finish(p)

\* record_outcome
Record(p) ==
    /\ pc[p] = "record"
    /\ IF IsDuplicate(event[p])
       THEN /\ suppressed' = IF event[p].kind = "detected"
                             THEN suppressed \union {event[p]} ELSE suppressed
            /\ Continue(p)
            /\ UNCHANGED <<outcomes, exposed, trimmed>>
       ELSE LET all == Append(outcomes, event[p])
            IN  /\ outcomes' = Capped(all)
                /\ trimmed' = (trimmed \/ Len(all) > MaxOutcomes)
                /\ exposed' = IF \E q \in Proc : pc[q] \in StopPhases
                              THEN exposed \union {event[p]} ELSE exposed
                /\ Goto(p, "signal")
                /\ UNCHANGED <<locals, suppressed>>
    /\ UNCHANGED <<now, errors, current, used, hooks, faults, failures, dropped, lost>>

\* log_scoped_hyphae_feedback_signal starts a session only if the state file
\* names none.
Signal(p) ==
    /\ pc[p] = "signal"
    /\ IF current = None THEN \E s \in Sessions : EnsureSession(s)
                         ELSE UNCHANGED <<current, used>>
    /\ Continue(p)
    /\ UNCHANGED <<now, errors, outcomes, hooks, faults, history>>

----------------------------------------------------------------------------
(* stop::handle *)

\* load_session_state
Stops(p) ==
    /\ pc[p] = "idle" /\ hooks < MaxHooks
    /\ hooks' = hooks + 1
    /\ who' = [who EXCEPT ![p] = current]
    /\ Goto(p, "load")
    /\ UNCHANGED <<now, disk, cmd, about, cause, event, summary, faults, history>>

\* load_session_summary.  In stealth mode, a setting of the process, nothing is
\* sent.
Summarise(p) ==
    /\ pc[p] = "load"
    /\ summary' = [summary EXCEPT ![p] = ForSession(outcomes, who[p])]
    /\ Goto(p, "end") \/ Goto(p, "discard")
    /\ UNCHANGED <<now, disk, cmd, who, about, cause, event, hooks, faults, history>>

\* end_scoped_hyphae_session ends the session the state file names by now.
EndSession(p) ==
    /\ pc[p] = "end" /\ current # None
    /\ current' = None
    /\ who' = [who EXCEPT ![p] = current]
    /\ Goto(p, "clear")
    /\ UNCHANGED <<now, errors, outcomes, used, cmd, about, cause, event, summary, hooks, faults,
                   history>>

\* It returns None: no session, no lock, or a failed command in synchronous
\* mode, which has removed the state file.  The outcomes stay.
EndsNothing(p) ==
    /\ pc[p] = "end"
    /\ UNCHANGED current \/ current' = None
    /\ Finish(p)
    /\ UNCHANGED <<now, errors, outcomes, used, hooks, faults, history>>

\* clear_outcomes, whatever the list contains by now.
Clear(p) ==
    /\ pc[p] = "clear"
    /\ outcomes' = <<>>
    /\ trimmed' = TRUE
    /\ lost' = lost \union {e \in ToSet(outcomes) \ summary[p] : e.session = who[p]}
    /\ Finish(p)
    /\ UNCHANGED <<now, errors, current, used, hooks, faults, failures, suppressed, dropped, exposed>>

\* clear_outcomes in stealth mode; the session goes on.
Discard(p) ==
    /\ pc[p] = "discard"
    /\ outcomes' = <<>>
    /\ trimmed' = TRUE
    /\ Finish(p)
    /\ UNCHANGED <<now, errors, current, used, hooks, faults, failures, suppressed, dropped,
                   exposed, lost>>

----------------------------------------------------------------------------
(* Time and failures *)

Tick ==
    /\ now < MaxTime
    /\ now' = now + 1
    /\ UNCHANGED <<disk, pc, locals, hooks, faults, history>>

\* The failure p has tracked and not recorded yet.
Unrecorded(p) == IF pc[p] \in {"detect", "record"} THEN {about[p]} \ {0} ELSE {}

\* The hook is killed.
Crash(p) ==
    /\ pc[p] # "idle" /\ faults < MaxFaults
    /\ faults' = faults + 1
    /\ dropped' = dropped \union Unrecorded(p)
    /\ Finish(p)
    /\ UNCHANGED <<now, disk, hooks, failures, suppressed, exposed, trimmed, lost>>

\* update_json_file fails: nothing tracked, nothing to resolve, not recorded,
\* not cleared.
UpdateFails(p) ==
    /\ faults < MaxFaults
    /\ faults' = faults + 1
    /\ \/ pc[p] \in {"track", "clear", "discard"} /\ Finish(p)
       \/ pc[p] = "resolve" /\ Goto(p, "validate") /\ UNCHANGED locals
       \/ pc[p] = "record" /\ Continue(p)
    /\ dropped' = dropped \union Unrecorded(p)
    /\ UNCHANGED <<now, disk, hooks, failures, suppressed, exposed, trimmed, lost>>

Bash(p) ==
    \/ Track(p) \/ TrackAgain(p) \/ Detect(p) \/ Resolve(p) \/ Recover(p)
    \/ Validate(p) \/ NothingToValidate(p) \/ Record(p) \/ Signal(p)

Stop(p) == Summarise(p) \/ EndSession(p) \/ EndsNothing(p) \/ Clear(p) \/ Discard(p)

Next ==
    \/ \E p \in Proc :
          \/ \E c \in Command : Fails(p, c) \/ Succeeds(p, c)
          \/ Stops(p) \/ Bash(p) \/ Stop(p) \/ Crash(p) \/ UpdateFails(p)
    \/ Tick

Spec == Init /\ [][Next]_vars

----------------------------------------------------------------------------
(* Properties *)

\* Types; the list never exceeds its cap.
OutcomesTypeOK ==
    /\ now \in 0..MaxTime
    /\ errors \in [Keys -> Failure \union {None}]
    /\ outcomes \in Seq(Outcome) /\ Len(outcomes) <= MaxOutcomes
    /\ current \in used \union {None} /\ used \subseteq Session
    /\ pc \in [Proc -> Phase]
    /\ cmd \in [Proc -> Command \union {None}]
    /\ who \in [Proc -> used \union {None}]
    /\ about \in [Proc -> 0..failures]
    /\ cause \in [Proc -> Failure \union {None}]
    /\ event \in [Proc -> Outcome \union {None}]
    /\ summary \in [Proc -> SUBSET Outcome]
    /\ hooks \in 0..MaxHooks /\ faults \in 0..MaxFaults /\ failures \in 0..hooks
    /\ suppressed \subseteq Outcome /\ dropped \subseteq 1..failures
    /\ exposed \subseteq Outcome /\ lost \subseteq Outcome
    /\ trimmed \in BOOLEAN

\* Duplicates are suppressed however long the hooks waited for the lock: equal
\* outcomes in the list were made more than a window apart, in list order.
Spaced ==
    \A i, j \in DOMAIN outcomes :
        i < j /\ Same(outcomes[i], outcomes[j]) => outcomes[j].at > outcomes[i].at + Window

\* Where failure n is: in the entry of a key, in the hands of a hook that has
\* resolved it, in an outcome about to be recorded, or in one of the list.
Claims(n) ==
    {<<"entry", k>> : k \in {x \in Keys : errors[x] # None /\ errors[x].n = n}}
    \union {<<"taken", p>> : p \in {x \in Proc : cause[x] # None /\ cause[x].n = n}}
    \union {<<"event", p>> : p \in {x \in Proc :
               pc[x] = "record" /\ event[x].cause # None /\ event[x].cause.n = n}}
    \union {<<"outcome", i>> : i \in {x \in DOMAIN outcomes :
               outcomes[x].cause # None /\ outcomes[x].cause.n = n}}

\* Every recovery has a failure of its own: two hooks never resolve the same
\* entry.
RecoveredOnce == \A n \in 1..failures : \A a, b \in Claims(n) : a = b

\* e is the outcome of the unresolved failure with key k.
Tells(e, k) ==
    /\ e.kind = "detected" /\ e.of = errors[k].n
    /\ e.cmd = errors[k].cmd /\ e.session = errors[k].session

Told(k) == \E i \in DOMAIN outcomes : Tells(outcomes[i], k)

\* p is about to tell of it.
Telling(p, k) ==
    \/ /\ pc[p] = "detect" /\ about[p] = errors[k].n
       /\ cmd[p] = errors[k].cmd /\ who[p] = errors[k].session
    \/ pc[p] = "record" /\ about[p] = errors[k].n /\ Tells(event[p], k)

\* Its outcome was suppressed: the list tells of a failure of the same command in
\* the same session that was noticed no more than a window earlier.
Suppressed(k) ==
    \E e \in suppressed : Tells(e, k) /\ \E i \in DOMAIN outcomes :
        /\ outcomes[i].kind = "detected"
        /\ outcomes[i].cmd = e.cmd /\ outcomes[i].session = e.session
        /\ Since(e.at, outcomes[i].at) <= Window

\* The two files agree: until the list is trimmed it tells of the failure of
\* every unresolved entry, or a hook is about to put it there, or the failure was
\* suppressed.  That earlier failure may have been resolved since: fail, recover
\* and fail again within the window, and nothing tells of the second failure.  A
\* crash or a failed update of the list leaves one entry untold.
NoSilentError ==
    /\ ~trimmed =>
          \A k \in Keys : errors[k] # None =>
              \/ Told(k) \/ (\E p \in Proc : Telling(p, k)) \/ Suppressed(k)
              \/ errors[k].n \in dropped
    /\ Cardinality(dropped) <= faults

\* A session's outcomes are in the summary it ends with, unless they were
\* recorded while a stop hook was at work.
ReportedUnlessOverlapping == lost \subseteq exposed

\* What a hook knows in each phase: the command; the outcome it records, which
\* is of that command, and has a cause only if it tells of a recovery; the
\* failure it has resolved, between resolving and making that outcome.
HooksKnow ==
    \A p \in Proc :
        /\ pc[p] \notin StopPhases \union {"idle"} => cmd[p] \in Command
        /\ pc[p] \in {"record", "signal"} =>
              /\ event[p] \in Outcome
              /\ event[p].session \in used \union {None}
              /\ event[p].kind # "resolved" => event[p].cause = None
        /\ cause[p] # None => pc[p] = "recover"

\* Failures are numbered as they are tracked, at most one for every hook.
Numbered ==
    LET Tracking == {p \in Proc : pc[p] = "track"}
    IN  /\ IsFiniteSet(Tracking) /\ failures + Cardinality(Tracking) <= hooks
        /\ \A n \in 1..MaxHooks : n > failures => Claims(n) = {}

\* What ReportedUnlessOverlapping rests on.  The list names only sessions that
\* were started.  While a stop hook is at work, the outcomes of the session it
\* ends are in its summary or were recorded meanwhile; and if the state file
\* names another session by now, that one was started meanwhile.
Overlaps ==
    /\ \A e \in ToSet(outcomes) : e.session \in used \union {None}
    /\ \A p \in Proc : \A e \in ToSet(outcomes) \ exposed :
          /\ pc[p] \in {"end", "clear"} /\ e.session = who[p] => e \in summary[p]
          /\ pc[p] \in {"load", "end"} /\ e.session = current => current \in {who[p], None}

\* The inductive invariant.
OutcomesInv ==
    /\ OutcomesTypeOK /\ HooksKnow /\ Numbered
    /\ Spaced /\ RecoveredOnce /\ NoSilentError /\ Overlaps /\ ReportedUnlessOverlapping

\* outcomes.rs:167, CHANGELOG.md:169: the outcomes that hooks record at the same
\* time are preserved; the list is durable.
OwnOutcomesReported == lost = {}
=============================================================================
