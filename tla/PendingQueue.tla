---------------------------- MODULE PendingQueue ----------------------------
(***************************************************************************)
(* The pending lists of hooks/post_tool_use/pending.rs.  Every edit hook   *)
(* adds its file; once the list has reached a threshold a hook takes the   *)
(* whole of it and hands it on, and puts back what could not be handed on. *)
(* Take, hand on and put back are separate steps: other hooks add files in *)
(* between.                                                                *)
(*                                                                         *)
(* There are two such lists.  Documents are ingested one command each, by  *)
(* the edit hook that finds the list long enough.  Files are exported all  *)
(* in one command, by the hook of a successful build.                      *)
(*                                                                         *)
(* One update_json_file is one step (StateFile shows why).  The outcome    *)
(* recorded after a hand-over is left out.                                 *)
(***************************************************************************)
EXTENDS Integers, SequencesExt, Subsequences

CONSTANTS
    Proc,          \* hook processes
    Path,          \* the files being edited
    Threshold,     \* ingest_threshold, export_threshold
    Cap,           \* MAX_PENDING_ENTRIES
    MaxFaults      \* bound: crashes and failed updates

ASSUME QueueAssumption ==
    /\ Path # {}
    /\ Threshold \in Nat \ {0}
    /\ Cap \in Nat \ {0}
    /\ MaxFaults \in Nat

\* The policy does not relate the two numbers: with a threshold above the cap
\* the list would never be taken.  Only Drains needs that.
ASSUME ThresholdAssumption == Threshold <= Cap

VARIABLES
    list,       \* which list: "documents" or "files"
    queue,      \* the list on disk
    pc,         \* pc[p]: where hook p is
    arg,        \* arg[p]: the edited file p handles
    batch,      \* batch[p]: what p has taken and not handed on yet
    failed,     \* failed[p]: what p could not hand on
    dirty,      \* files edited since they were last handed on
    dropped,    \* of those, the ones given up: cap, crash, failed update
    faults

hookVars == <<pc, arg, batch, failed>>
vars == <<list, queue, hookVars, dirty, dropped, faults>>

Init ==
    /\ list \in {"documents", "files"}
    /\ queue = <<>>
    /\ pc = [p \in Proc |-> "idle"]
    /\ arg \in [Proc -> {CHOOSE d \in Path : TRUE}]
    /\ batch = [p \in Proc |-> <<>>]
    /\ failed = [p \in Proc |-> <<>>]
    /\ dirty = {}
    /\ dropped = {}
    /\ faults = 0

Goto(p, phase) == pc' = [pc EXCEPT ![p] = phase]

\* What p still has to put into the list or to hand on.
Hands(p) ==
    ToSet(batch[p]) \union ToSet(failed[p]) \union
    (IF pc[p] = "track" THEN {arg[p]} ELSE {})

\* Faulty variant of Push: entries are not looked for first.
PushBlindly(q, entries) == q \o entries

\* entries that are not in q yet are pushed ..
Push(q, entries) == q \o Kept(entries, Path \ ToSet(q))

\* .. and then the oldest ones are dropped down to the cap.
Capped(q) == IF Len(q) > Cap THEN SubSeq(q, Len(q) - Cap + 1, Len(q)) ELSE q

PushCapped(entries) ==
    LET all == Push(queue, entries)
    IN  /\ queue' = Capped(all)
        /\ dropped' = (dropped \union ToSet(all)) \ ToSet(Capped(all))

----------------------------------------------------------------------------
(* Faulty variants, each to be put in place of the definition it names.     *)

\* The batch that comes back replaces what other hooks have added.
RequeueOver(p) ==
    /\ pc[p] = "requeue"
    /\ queue' = failed[p]
    /\ failed' = [failed EXCEPT ![p] = <<>>]
    /\ Goto(p, "idle")
    /\ UNCHANGED <<list, arg, batch, dirty, dropped, faults>>

\* > threshold in place of >=.
LongEnoughLate == Len(queue) > Threshold

----------------------------------------------------------------------------
(* handle_file_edits *)

\* A file is edited and the hook of the edit starts.
Edit(p, d) ==
    /\ pc[p] = "idle"
    /\ Goto(p, "track")
    /\ arg' = [arg EXCEPT ![p] = d]
    /\ dirty' = dirty \union {d}
    /\ UNCHANGED <<list, queue, batch, failed, dropped, faults>>

\* track_pending_document, track_pending_file
Track(p) ==
    /\ pc[p] = "track"
    /\ PushCapped(<<arg[p]>>)
    /\ Goto(p, IF list = "documents" THEN "take" ELSE "idle")
    /\ UNCHANGED <<list, arg, batch, failed, dirty, faults>>

\* The edit of a file that is no document adds nothing, but looks at the list.
EditOther(p) ==
    /\ pc[p] = "idle" /\ list = "documents"
    /\ Goto(p, "take")
    /\ UNCHANGED <<list, queue, arg, batch, failed, dirty, dropped, faults>>

\* handle_bash after a successful build: check_and_trigger_exports.
Build(p) ==
    /\ pc[p] = "idle" /\ list = "files"
    /\ Goto(p, "take")
    /\ UNCHANGED <<list, queue, arg, batch, failed, dirty, dropped, faults>>

LongEnough == Len(queue) >= Threshold

\* take_pending_batch
Take(p) ==
    /\ pc[p] = "take"
    /\ IF LongEnough
       THEN /\ batch' = [batch EXCEPT ![p] = queue]
            /\ queue' = <<>>
            /\ Goto(p, "spawn")
       ELSE /\ UNCHANGED <<queue, batch>>
            /\ Goto(p, "idle")
    /\ UNCHANGED <<list, arg, failed, dirty, dropped, faults>>

\* trigger_hyphae_ingest: one command per document; spawning may fail.
SpawnIngest(p) ==
    /\ pc[p] = "spawn" /\ list = "documents"
    /\ batch[p] # <<>>
    /\ batch' = [batch EXCEPT ![p] = Tail(@)]
    /\ \/ /\ dirty' = dirty \ {Head(batch[p])}
          /\ UNCHANGED failed
       \/ /\ failed' = [failed EXCEPT ![p] = Append(@, Head(batch[p]))]
          /\ UNCHANGED dirty
    /\ UNCHANGED <<list, queue, pc, arg, dropped, faults>>

IngestDone(p) ==
    /\ pc[p] = "spawn" /\ list = "documents"
    /\ batch[p] = <<>>
    /\ Goto(p, IF failed[p] = <<>> THEN "idle" ELSE "requeue")
    /\ UNCHANGED <<list, queue, arg, batch, failed, dirty, dropped, faults>>

\* `rhizome export` covers the whole batch.
SpawnExport(p) ==
    /\ pc[p] = "spawn" /\ list = "files"
    /\ batch' = [batch EXCEPT ![p] = <<>>]
    /\ \/ /\ dirty' = dirty \ ToSet(batch[p])
          /\ Goto(p, "idle")
          /\ UNCHANGED failed
       \/ /\ failed' = [failed EXCEPT ![p] = batch[p]]
          /\ Goto(p, "requeue")
          /\ UNCHANGED dirty
    /\ UNCHANGED <<list, queue, arg, dropped, faults>>

\* requeue_pending_batch
Requeue(p) ==
    /\ pc[p] = "requeue"
    /\ PushCapped(failed[p])
    /\ failed' = [failed EXCEPT ![p] = <<>>]
    /\ Goto(p, "idle")
    /\ UNCHANGED <<list, arg, batch, dirty, faults>>

----------------------------------------------------------------------------
(* Failures: what p has in hand is given up. *)

GiveUp(p) ==
    /\ faults < MaxFaults
    /\ faults' = faults + 1
    /\ dropped' = dropped \union (Hands(p) \ ToSet(queue))
    /\ batch' = [batch EXCEPT ![p] = <<>>]
    /\ failed' = [failed EXCEPT ![p] = <<>>]
    /\ UNCHANGED <<list, queue, arg, dirty>>

\* The hook process is killed.
Crash(p) ==
    /\ pc[p] # "idle"
    /\ Goto(p, "idle")
    /\ GiveUp(p)

\* update_json_file fails and its error is ignored; a failed take is an empty
\* batch.
UpdateFails(p) ==
    /\ pc[p] \in {"track", "take", "requeue"}
    /\ Goto(p, IF pc[p] = "track" /\ list = "documents" THEN "take" ELSE "idle")
    /\ GiveUp(p)

Hook(p) ==
    Track(p) \/ Take(p) \/ SpawnIngest(p) \/ IngestDone(p) \/ SpawnExport(p) \/ Requeue(p)

Next ==
    \E p \in Proc :
        \/ \E d \in Path : Edit(p, d)
        \/ EditOther(p) \/ Build(p) \/ Hook(p) \/ Crash(p) \/ UpdateFails(p)

\* Hooks that have started run on; the agent keeps editing, and builds succeed
\* now and then.
Spec ==
    /\ Init /\ [][Next]_vars
    /\ \A p \in Proc : WF_vars(Hook(p))
    /\ SF_vars(\E p \in Proc, d \in Path : Edit(p, d))
    /\ SF_vars(\E p \in Proc : Build(p))

----------------------------------------------------------------------------
(* Properties *)

Once(q) == Len(q) <= Cap /\ IsInjective(q)

\* Types; the list is never longer than the cap and names no file twice.
QueueTypeOK ==
    /\ list \in {"documents", "files"}
    /\ pc \in [Proc -> {"idle", "track", "take", "spawn", "requeue"}]
    /\ arg \in [Proc -> Path]
    /\ queue \in Seq(Path) /\ Once(queue)
    /\ batch \in [Proc -> Seq(Path)] /\ failed \in [Proc -> Seq(Path)]
    /\ \A p \in Proc : Once(batch[p]) /\ Once(failed[p])
    /\ dirty \subseteq Path /\ dropped \subseteq Path
    /\ faults \in 0..MaxFaults

\* No edit is forgotten: a file that was edited and not handed on since is in
\* the list or in the hands of a hook, unless the cap or a fault has dropped
\* it, however the steps of several hooks interleave.
NothingForgotten ==
    \A d \in dirty : d \in ToSet(queue) \union dropped \/ \E p \in Proc : d \in Hands(p)

\* What a hook has taken: only a hook that is handing files on has some, each
\* of them once and never more than the list can hold.
TakenOnce ==
    \A p \in Proc :
        /\ batch[p] # <<>> => pc[p] = "spawn"
        /\ failed[p] # <<>> => pc[p] = "requeue" \/ (pc[p] = "spawn" /\ list = "documents")
        /\ Len(batch[p]) + Len(failed[p]) <= Cap
        /\ ToSet(batch[p]) \intersect ToSet(failed[p]) = {}

\* The inductive invariant.
QueueInv == QueueTypeOK /\ TakenOnce /\ NothingForgotten

\* A list that has reached the threshold does not stay so, even after a batch
\* that could not be handed on was put back: a later hook takes it.
Drains ==
    Len(queue) >= Threshold /\ faults = 0 ~> Len(queue) < Threshold \/ faults > 0
=============================================================================
