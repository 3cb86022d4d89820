------------------------------ MODULE Capture ------------------------------
(***************************************************************************)
(* What the prompt hook and the two compaction hooks capture, and how it   *)
(* gets to hyphae.  Every prompt and every snapshot is remembered in a     *)
(* capped list of the worktree before it is sent, so that no hook sends it *)
(* twice.  The hook after a compaction leaves a marker; the next prompt    *)
(* takes it and recalls with --post-compaction.                            *)
(*                                                                         *)
(* Hooks are short-lived processes that run side by side.  One             *)
(* update_json_file is one step (StateFile shows why); a hook's steps are  *)
(* separated by sessions being ensured (Session) and commands with a       *)
(* deadline (Subprocess), during which the others go on.  The task and the *)
(* agent that canopy could name are left out: `canopy agent list` runs     *)
(* without its output being captured, so the answer is always none.        *)
(*                                                                         *)
(* Something sent is in flight until hyphae has it.  With a hyphae socket  *)
(* it is in flight in a thread of the hook, which ends with the hook's     *)
(* process; otherwise in a child process, which does not.  Captures and    *)
(* memories are followed on their way; the reports of errors and recalls   *)
(* and the compaction artifact are sent in the same way and change nothing *)
(* here.                                                                   *)
(***************************************************************************)
EXTENDS Integers, FiniteSets, SequencesExt

CONSTANTS
    Proc,          \* hook processes
    Session,       \* sessions of the agent
    Prompt,        \* texts of prompts that are not blank
    Referring,     \* those that name files of the project
    Councils,      \* those about a council
    Unsearchable,  \* those that begin with 200 blanks: no recall query
    Work,          \* what the error and pending files of other hooks may hold
    None,          \* no event, no marker, nobody
    Cap,           \* Cap[k]: how many captures of kind k are remembered
    MaxOutcomes,   \* max_outcome_events
    MaxMemories,   \* MAX_EXTRACTED_MEMORIES
    MaxHooks,      \* bound: hooks started
    MaxWork,       \* bound: changes by other hooks
    MaxFaults      \* bound: crashes, failed updates and failed sends

Kinds == {"prompt", "council", "snapshot"}

ASSUME CaptureAssumption ==
    /\ IsFiniteSet(Proc)
    /\ None \notin Proc \union Session \union [n : Nat, session : Session]
    /\ Referring \union Councils \union Unsearchable \subseteq Prompt
    /\ DOMAIN Cap = Kinds /\ \A k \in Kinds : Cap[k] \in Nat \ {0}
    /\ MaxOutcomes \in Nat \ {0} /\ MaxMemories \in Nat
    /\ MaxHooks \in Nat /\ MaxWork \in Nat /\ MaxFaults \in Nat

VARIABLES
    installed,   \* hyphae is there
    socket,      \* and announces a socket
    captures,    \* captures[k]: what is remembered of kind k, oldest first
    outcomes,    \* the list of outcomes
    work,        \* the contents of the error and pending files
    marker,      \* the post-compaction marker
    pc,          \* pc[p]: where hook p is
    event,       \* event[p]: the session and, of a prompt hook, the prompt
    post,        \* processes whose recall is a post-compaction recall
    saw,         \* saw[p]: the compaction whose marker p has seen
    content,     \* content[p]: the snapshot p takes
    prior,       \* prior[p]: the outcomes p has loaded before it adds its own
    flight,      \* what is on its way to hyphae, and in whose thread
    memory,      \* what hyphae has stored
    lost,        \* history: captures that were remembered and then lost
    hooks, changes, faults,
    compactions, \* history: markers written so far, which also numbers them
    answered,    \* history: the compactions followed by a post-compaction recall
    consumed,    \* history: compactions a hook has been granted such a recall for
    sends,       \* history: how often each capture was sent
    forgotten    \* history: how often each was dropped from its list

setting == <<installed, socket>>
disk == <<captures, outcomes, work, marker>>
locals == <<event, post, saw, content, prior>>
wire == <<flight, memory, lost>>
counters == <<hooks, changes, faults>>
markers == <<compactions, answered, consumed>>
counts == <<sends, forgotten>>
vars == <<setting, disk, pc, locals, wire, counters, markers, counts>>

OutcomeKind == {"prompt", "marker", "passed", "failed"}
Phase == {"idle", "check", "consume", "recall", "remember",
          "store", "council", "storecouncil", "outcome", "gather", "tally", "snapshot",
          "prior", "storesnapshot", "mark", "extract", "over", "compacted"}

Init ==
    /\ installed \in BOOLEAN
    /\ socket \in BOOLEAN /\ (socket => installed)
    /\ captures = [k \in Kinds |-> <<>>]
    /\ outcomes = <<>>
    /\ work \in Work
    /\ marker = None
    /\ pc = [p \in Proc |-> "idle"]
    /\ event = [p \in Proc |-> None]
    /\ post = {}
    /\ saw = [p \in Proc |-> 0]
    /\ content = [p \in Proc |-> None]
    /\ prior = [p \in Proc |-> <<>>]
    /\ flight = {} /\ memory = {} /\ lost = {}
    /\ hooks = 0 /\ changes = 0 /\ faults = 0
    /\ compactions = 0 /\ answered = 0 /\ consumed = {}
    /\ sends = EmptyBag /\ forgotten = EmptyBag

Goto(p, phase) == pc' = [pc EXCEPT ![p] = phase]

Fault == faults < MaxFaults /\ faults' = faults + 1

\* What a hook still had to say when its process ends.
Released(p) ==
    /\ Goto(p, "idle")
    /\ event' = [event EXCEPT ![p] = None]
    /\ post' = post \ {p}
    /\ saw' = [saw EXCEPT ![p] = 0]
    /\ content' = [content EXCEPT ![p] = None]
    /\ prior' = [prior EXCEPT ![p] = <<>>]

\* Of messages that are lost, the captures: their lists still remember them.
Lose(messages) == lost' = lost \union {m \in messages : m.kind \in Kinds}

\* What the threads of p have not delivered.
InThreads(p) == {f.message : f \in {g \in flight : g.by = p}}

\* Nothing outlives the hook, children included.
ExitAll(p) ==
    /\ Released(p)
    /\ flight' = {}
    /\ Lose(InThreads(p))

\* The process ends, and its threads with it; unsent is what it did not even send.
Ends(p, unsent) ==
    /\ Released(p)
    /\ flight' = {f \in flight : f.by # p}
    /\ Lose(InThreads(p) \union unsent)

Exit(p) == Ends(p, {})

\* Nothing is ever known: the list is not asked.
RememberedNever(kind, c) == FALSE

Remembered(kind, c) == c \in ToSet(captures[kind])

\* The cap is compared with the length before the push.
PushLate(kind, c) ==
    /\ captures' = [captures EXCEPT ![kind] =
           Append(IF Len(@) > Cap[kind] THEN Tail(@) ELSE @, c)]
    /\ UNCHANGED forgotten

\* remember_prompt_capture, remember_council_capture, remember_snapshot_capture:
\* the oldest capture is dropped at the cap.
Push(kind, c) ==
    LET all == Append(captures[kind], c)
        over == Len(all) > Cap[kind]
    IN  /\ captures' = [captures EXCEPT ![kind] = IF over THEN Tail(all) ELSE all]
        /\ forgotten' = IF over
                        THEN forgotten (+) SetToBag({[kind |-> kind, what |-> Head(all)]})
                        ELSE forgotten

CappedOutcomes(list) ==
    IF Len(list) > MaxOutcomes THEN SubSeq(list, Len(list) - MaxOutcomes + 1, Len(list)) ELSE list

\* record_outcome; an equal one within the window is a duplicate (Outcomes has
\* the details).
RecordOutcome(kind) ==
    \/ outcomes' = CappedOutcomes(Append(outcomes, kind))
    \/ kind \in ToSet(outcomes) /\ UNCHANGED outcomes

\* store_in_hyphae, store_compact_summary_artifact: a thread if there is a
\* socket, else a child each, and some cannot be spawned.
SendAll(p, messages) ==
    \E sent \in SUBSET messages :
        /\ flight' = flight \union
               {[message |-> m, by |-> IF socket THEN p ELSE None] : m \in sent}
        /\ Lose(messages \ sent)
        /\ IF sent = messages THEN UNCHANGED faults ELSE ~socket /\ Fault

\* A capture that was new is sent; hyphae's session is ensured first.
SendCapture(p, kind, what) ==
    /\ SendAll(p, {[kind |-> kind, what |-> what]})
    /\ sends' = sends (+) SetToBag({[kind |-> kind, what |-> what]})

----------------------------------------------------------------------------
(* user_prompt_submit::capture_prompt_submit *)

\* Lines that look like errors are reported at once; the project's files that
\* the prompt names are tracked (extract_file_refs, is_safe_path).
Submit(p, s, t) ==
    /\ pc[p] = "idle" /\ hooks < MaxHooks
    /\ hooks' = hooks + 1
    /\ event' = [event EXCEPT ![p] = [session |-> s, prompt |-> t]]
    /\ IF t \in Referring THEN work' \in Work ELSE UNCHANGED work
    /\ Goto(p, "check")
    /\ UNCHANGED <<setting, captures, outcomes, marker, post, saw, content, prior, wire,
                   changes, faults, markers, counts>>

\* The marker is taken, but nothing is asked.
NoRecallConsumed(p) ==
    /\ pc[p] = "check"
    /\ ~installed \/ event[p].prompt \in Unsearchable
    /\ marker' = None
    /\ Goto(p, "remember")
    /\ UNCHANGED <<setting, captures, outcomes, work, locals, wire, counters, markers, counts>>

\* inject_recall without hyphae, or without a query.
NoRecall(p) ==
    /\ pc[p] = "check"
    /\ ~installed \/ event[p].prompt \in Unsearchable
    /\ Goto(p, "remember")
    /\ UNCHANGED <<setting, disk, locals, wire, counters, markers, counts>>

\* consume_post_compact_marker looks first and removes later.
CheckMarker(p) ==
    /\ pc[p] = "check"
    /\ installed /\ event[p].prompt \notin Unsearchable
    /\ saw' = [saw EXCEPT ![p] = IF marker = None THEN 0 ELSE marker.n]
    /\ Goto(p, IF marker = None THEN "recall" ELSE "consume")
    /\ UNCHANGED <<setting, disk, event, post, content, prior, wire, counters, markers, counts>>

\* A marker that another hook has removed by now counts as removed.
Consume(p) ==
    /\ pc[p] = "consume"
    /\ marker' = None
    /\ post' = post \union {p}
    /\ consumed' = consumed \union {saw[p]}
    /\ Goto(p, "recall")
    /\ UNCHANGED <<setting, captures, outcomes, work, event, saw, content, prior, wire,
                   counters, compactions, answered, counts>>

\* A marker that cannot be removed is honoured all the same.
ConsumeFailsOpen(p) ==
    /\ pc[p] = "consume" /\ Fault
    /\ post' = post \union {p}
    /\ consumed' = consumed \union {saw[p]}
    /\ Goto(p, "recall")
    /\ UNCHANGED <<setting, disk, event, saw, content, prior, wire, hooks, changes,
                   compactions, answered, counts>>

ConsumeFails(p) ==
    /\ pc[p] = "consume" /\ Fault
    /\ Goto(p, "recall")
    /\ UNCHANGED <<setting, disk, locals, wire, hooks, changes, markers, counts>>

\* `hyphae auto-recall`, with --post-compaction if the marker was taken; what
\* comes within two seconds is shown to the agent and reported.
Recall(p) ==
    /\ pc[p] = "recall"
    /\ answered' = IF p \in post THEN compactions ELSE answered
    /\ Goto(p, "remember")
    /\ UNCHANGED <<setting, disk, locals, wire, counters, compactions, consumed, counts>>

RecallFails(p) ==
    /\ pc[p] = "recall" /\ Fault
    /\ Goto(p, "remember")
    /\ UNCHANGED <<setting, disk, locals, wire, hooks, changes, markers, counts>>

RememberPrompt(p) ==
    /\ pc[p] = "remember"
    /\ IF Remembered("prompt", event[p])
       THEN Exit(p) /\ UNCHANGED <<captures, forgotten>>
       ELSE /\ Push("prompt", event[p])
            /\ Goto(p, IF installed THEN "store" ELSE "outcome")
            /\ UNCHANGED <<locals, flight, lost>>
    /\ UNCHANGED <<setting, outcomes, work, marker, memory, counters, markers, sends>>

StorePrompt(p) ==
    /\ pc[p] = "store"
    /\ SendCapture(p, "prompt", event[p])
    /\ Goto(p, IF event[p].prompt \in Councils THEN "council" ELSE "outcome")
    /\ UNCHANGED <<setting, disk, locals, memory, hooks, changes, markers, forgotten>>

RememberCouncil(p) ==
    /\ pc[p] = "council"
    /\ IF Remembered("council", event[p])
       THEN Goto(p, "outcome") /\ UNCHANGED <<captures, forgotten>>
       ELSE Push("council", event[p]) /\ Goto(p, "storecouncil")
    /\ UNCHANGED <<setting, outcomes, work, marker, locals, wire, counters, markers, sends>>

StoreCouncil(p) ==
    /\ pc[p] = "storecouncil"
    /\ SendCapture(p, "council", event[p])
    /\ Goto(p, "outcome")
    /\ UNCHANGED <<setting, disk, locals, memory, hooks, changes, markers, forgotten>>

\* The last step of the prompt hook.
RecordPrompt(p) ==
    /\ pc[p] = "outcome"
    /\ RecordOutcome("prompt")
    /\ Exit(p)
    /\ UNCHANGED <<setting, captures, work, marker, memory, counters, markers, counts>>

----------------------------------------------------------------------------
(* pre_compact::capture_pre_compact *)

Compact(p, s) ==
    /\ pc[p] = "idle" /\ hooks < MaxHooks
    /\ hooks' = hooks + 1
    /\ event' = [event EXCEPT ![p] = [session |-> s]]
    /\ Goto(p, "gather") \/ Goto(p, "compacted")
    /\ UNCHANGED <<setting, disk, post, saw, content, prior, wire, changes, faults,
                   markers, counts>>

\* load_active_errors, collect_modified_files
Gather(p) ==
    /\ pc[p] = "gather"
    /\ content' = [content EXCEPT ![p] = [session |-> event[p].session, work |-> work]]
    /\ Goto(p, "tally")
    /\ UNCHANGED <<setting, disk, event, post, saw, prior, wire, counters, markers, counts>>

Count(kinds) == Len(SelectSeq(outcomes, LAMBDA k : k \in kinds))

\* build_signal_summary, once canopy has answered.  Prompts and the snapshot's
\* own marker both count as exported knowledge.
Tally(p) ==
    /\ pc[p] = "tally"
    /\ content' = [content EXCEPT ![p] =
           [session |-> @.session, work |-> @.work, exported |-> Count({"prompt", "marker"}),
            passed |-> Count({"passed"}), failed |-> Count({"failed"})]]
    /\ Goto(p, "snapshot")
    /\ UNCHANGED <<setting, disk, event, post, saw, prior, wire, counters, markers, counts>>

RememberSnapshot(p) ==
    /\ pc[p] = "snapshot"
    /\ IF Remembered("snapshot", content[p])
       THEN Exit(p) /\ UNCHANGED <<captures, forgotten>>
       ELSE /\ Push("snapshot", content[p])
            /\ IF installed THEN Goto(p, "prior") /\ UNCHANGED <<locals, flight, lost>> ELSE Exit(p)
    /\ UNCHANGED <<setting, outcomes, work, marker, memory, counters, markers, sends>>

LoadPrior(p) ==
    /\ pc[p] = "prior"
    /\ prior' = [prior EXCEPT ![p] = outcomes]
    /\ Goto(p, "storesnapshot")
    /\ UNCHANGED <<setting, disk, event, post, saw, content, wire, counters, markers, counts>>

StoreSnapshot(p) ==
    /\ pc[p] = "storesnapshot"
    /\ SendCapture(p, "snapshot", content[p])
    /\ Goto(p, "mark")
    /\ UNCHANGED <<setting, disk, locals, memory, hooks, changes, markers, forgotten>>

RecordMarker(p) ==
    /\ pc[p] = "mark"
    /\ RecordOutcome("marker")
    /\ Goto(p, "extract")
    /\ UNCHANGED <<setting, captures, work, marker, locals, wire, counters, markers, counts>>

\* pre_compact_memory_entries: the latest outcomes worth keeping, but no
\* snapshot's own.
Lifted(list) ==
    LET kept == SelectSeq(list, LAMBDA k : k \in {"prompt", "passed"})
    IN  SubSeq(kept, IF Len(kept) > MaxMemories THEN Len(kept) - MaxMemories + 1 ELSE 1, Len(kept))

\* Before it, the snapshot's artifact is sent.
Extract(p) ==
    /\ pc[p] = "extract"
    /\ SendAll(p, {[kind |-> "memory", what |-> k] : k \in ToSet(Lifted(prior[p]))})
    /\ Goto(p, "over")
    /\ UNCHANGED <<setting, disk, locals, memory, hooks, changes, markers, counts>>

Return(p) ==
    /\ pc[p] = "over"
    /\ Exit(p)
    /\ UNCHANGED <<setting, disk, memory, counters, markers, counts>>

----------------------------------------------------------------------------
(* post_compact::capture_post_compact *)

WriteMarker(p) ==
    /\ pc[p] = "compacted"
    /\ compactions' = compactions + 1
    /\ marker' = [n |-> compactions + 1, session |-> event[p].session]
    /\ Exit(p)
    /\ UNCHANGED <<setting, captures, outcomes, work, memory, counters, answered, consumed,
                   counts>>

----------------------------------------------------------------------------
(* Everybody else, and failures *)

\* Other hooks record outcomes, and errors and pending files come and go.
OtherHook ==
    /\ changes < MaxWork
    /\ changes' = changes + 1
    /\ \E k \in {"passed", "failed"} : RecordOutcome(k) \/ UNCHANGED outcomes
    /\ work' \in Work
    /\ UNCHANGED <<setting, captures, marker, pc, locals, wire, hooks, faults, markers, counts>>

Deliver ==
    /\ \E f \in flight :
          /\ flight' = flight \ {f}
          /\ memory' = memory \union {f.message}
    /\ UNCHANGED <<setting, disk, pc, locals, lost, counters, markers, counts>>

\* The command or the call fails, and nobody hears of it.
Refuse ==
    /\ Fault
    /\ \E f \in flight : flight' = flight \ {f} /\ Lose({f.message})
    /\ UNCHANGED <<setting, disk, pc, locals, memory, hooks, changes, markers, counts>>

\* What p has remembered and not sent yet.
InHand(p) ==
    CASE pc[p] = "store" -> {[kind |-> "prompt", what |-> event[p]]}
      [] pc[p] = "storecouncil" -> {[kind |-> "council", what |-> event[p]]}
      [] pc[p] \in {"prior", "storesnapshot"} -> {[kind |-> "snapshot", what |-> content[p]]}
      [] OTHER -> {}

Crash(p) ==
    /\ pc[p] # "idle" /\ Fault
    /\ Ends(p, InHand(p))
    /\ UNCHANGED <<setting, disk, memory, hooks, changes, markers, counts>>

\* update_json_file fails: nothing remembered means nothing sent, and no marker
\* means no special recall.
UpdateFails(p) ==
    /\ Fault
    /\ \/ pc[p] \in {"remember", "outcome", "snapshot", "compacted"} /\ Exit(p)
       \/ pc[p] = "council" /\ Goto(p, "outcome") /\ UNCHANGED <<locals, flight, lost>>
       \/ pc[p] = "mark" /\ Goto(p, "extract") /\ UNCHANGED <<locals, flight, lost>>
    /\ UNCHANGED <<setting, disk, memory, hooks, changes, markers, counts>>

PromptHook(p) ==
    \/ NoRecall(p) \/ CheckMarker(p) \/ Consume(p)
    \/ Recall(p) \/ RememberPrompt(p) \/ StorePrompt(p)
    \/ RememberCouncil(p) \/ StoreCouncil(p) \/ RecordPrompt(p)

CompactHook(p) ==
    \/ Gather(p) \/ Tally(p) \/ RememberSnapshot(p) \/ LoadPrior(p) \/ StoreSnapshot(p)
    \/ RecordMarker(p) \/ Extract(p) \/ Return(p)
    \/ WriteMarker(p)

Hook(p) == PromptHook(p) \/ CompactHook(p)

Next ==
    \/ \E p \in Proc :
          \/ \E s \in Session : Compact(p, s) \/ \E t \in Prompt : Submit(p, s, t)
          \/ Hook(p) \/ ConsumeFails(p) \/ RecallFails(p) \/ UpdateFails(p) \/ Crash(p)
    \/ OtherHook \/ Deliver \/ Refuse

Spec == Init /\ [][Next]_vars

----------------------------------------------------------------------------
(* Properties *)

\* Types; no list exceeds its cap, and whoever is about to recall specially has
\* seen a marker.
CaptureTypeOK ==
    /\ \A k \in Kinds : Len(captures[k]) <= Cap[k]
    /\ Len(outcomes) <= MaxOutcomes /\ ToSet(outcomes) \subseteq OutcomeKind
    /\ work \in Work
    /\ marker # None => marker.n = compactions /\ marker.session \in Session
    /\ pc \in [Proc -> Phase]
    /\ \A p \in Proc : saw[p] \in 0..compactions /\ (pc[p] = "consume" => saw[p] > 0)
    /\ post \subseteq {p \in Proc : saw[p] > 0}
    /\ answered \in 0..compactions /\ consumed \subseteq 1..compactions
    /\ \A f \in flight : f.by = None \/ (socket /\ pc[f.by] # "idle")
    /\ hooks \in 0..MaxHooks /\ faults \in 0..MaxFaults /\ changes \in 0..MaxWork

Copies(m, bag) == IF m \in BagToSet(bag) THEN bag[m] ELSE 0

\* No capture is sent twice, by however many hooks at once, unless the list had
\* to drop it in between.
StoredOnce ==
    \A m \in BagToSet(sends) : Copies(m, sends) <= 1 + Copies(m, forgotten)

\* user_prompt_submit.rs:465: "Consume once: remove so later prompts in this
\* session recall normally".  A hook that looks for the marker of a compaction
\* after a special recall was granted for it does not find it, also if it could
\* not be removed at first.  Prompts whose hooks had seen it before are all
\* granted such a recall (ConsumedOnce).
LaterPromptsRecallNormally ==
    [][\A p \in Proc : saw'[p] \in consumed => saw'[p] = saw[p]]_vars

\* "Consume once": one special recall is granted for a compaction.
ConsumedOnce == [][\A p \in post' \ post : saw[p] \notin consumed]_vars

\* No compaction goes without a special recall after it: until one has been
\* started the marker is there or in the hands of the hook that starts it.
EveryCompactionAnswered ==
    faults = 0 /\ answered < compactions =>
        marker # None \/ \E p \in post : pc[p] = "recall"

\* What the list remembers, and so will never be sent again, is with hyphae, on
\* its way, in the hands of the hook that will send it, or lost.  A failure loses
\* one capture: the hook crashes before it sends it, the child cannot be spawned
\* or the command fails.  With a socket more is lost without any failure: the
\* thread that has a capture ends with the hook.
CaptureAccounted ==
    installed =>
        /\ \A k \in Kinds : \A c \in ToSet(captures[k]) :
              LET capture == [kind |-> k, what |-> c]
              IN  \/ capture \in memory \union lost
                  \/ \E f \in flight : f.message = capture
                  \/ \E p \in Proc : capture \in InHand(p)
        /\ ~socket => Cardinality(lost) <= faults
=============================================================================
