----------------------------- MODULE StopReport -----------------------------
(***************************************************************************)
(* What the stop hook says of a session: the summary it ends the session   *)
(* with, the verdict it signals, and the memories the agent asked it to    *)
(* keep.  It reads the transcript line by line for the summary and, after  *)
(* the session has ended, once more as a whole for the memories; it reads  *)
(* the list of outcomes once for the summary and once more for the         *)
(* verdict.  The agent writes on and other hooks record outcomes meanwhile.*)
(*                                                                         *)
(* A line of the transcript is abstracted to its kind and what is taken    *)
(* from it, a text to the notes its lines ask to keep and to whether it is *)
(* blank or speaks of failure.  How often each tool was used is counted by *)
(* the same pass, but nothing depends on it.  Ending the session is one    *)
(* step (Session), and so is recording an outcome (Outcomes); handoffs     *)
(* (Handoffs) and tool calls (ToolHooks) have modules of their own.        *)
(***************************************************************************)
EXTENDS Integers, SequencesExt, Subsequences

CONSTANTS
    Text,         \* the texts that may be written, see TextOK
    TLine,        \* the lines that may be written, see LineOf
    OutcomeKinds, \* the outcomes that may be recorded, see JournalEntry
    WorkCompleted,\* the outcome of an empty summary, a text
    Structural,   \* the files that say how to build the project
    MaxTranscript,\* bound: lines of the transcript
    MaxJournal,   \* max_outcome_events
    MaxRecords,   \* bound: outcomes recorded
    MaxStops,     \* bound: stop hooks
    MaxTrouble    \* bound: files that cannot be read, commands that fail

\* A blank text is empty.  first: the note on its first line, if any; later:
\* those on its other lines.
TextOK(t) ==
    /\ DOMAIN t = {"blank", "failing", "first", "later"}
    /\ {t.blank, t.failing} \subseteq BOOLEAN /\ Cardinality(t.first) <= 1 /\ IsFiniteSet(t.later)

\* blocks: the text blocks of a message; files: what Write and Edit are used
\* on; failed: what transcript_tool_result_has_error makes of a result.
LineOf == {"human", "assistant", "tool_use", "tool_result", "other"}

ASSUME StopReportAssumption ==
    /\ \A t \in Text : TextOK(t)
    /\ WorkCompleted \in Text /\ ~WorkCompleted.blank
    /\ \A l \in TLine :
          /\ DOMAIN l = {"kind", "blocks", "files", "result"} /\ l.kind \in LineOf
          /\ l.blocks \in Seq(Text) /\ IsFiniteSet(l.files)
          /\ DOMAIN l.result = {"code", "words", "marks"}
          /\ l.result.code \in {"none", "zero", "one", "other"}
    /\ \A k \in OutcomeKinds : DOMAIN k = {"kind", "text", "files"} /\ k.text \in Text
    /\ MaxTranscript \in Nat /\ MaxJournal \in Nat \ {0} /\ MaxRecords \in Nat
    /\ MaxStops \in Nat /\ MaxTrouble \in Nat

VARIABLES
    transcript,  \* the lines written so far
    journal,     \* the list of outcomes
    active,      \* a number for the session the state file names, or 0
    stealth,     \* stealth_mode
    at,          \* where the stop hook is
    mine,        \* the session it read first
    own,         \* the outcomes it read for the summary
    read,        \* how many lines it has read
    report,      \* the summary
    verdict,     \* the verdict, "none" before
    notes,       \* the notes it has still to store
    stops, recorded, trouble,
    sent,        \* history: what this stop hook sent to hyphae
    length,      \* history: the lines there were when it started
    whole,       \* history: the transcript when it was read as a whole
    due,         \* history: when the verdict was made, failure and blurred
    failure,     \* history: the last failure is not recovered, by the records made
    blurred      \* history: a record was suppressed or cut

reportVars == <<transcript, journal, active, stealth, at, mine, own, read, report, verdict, notes,
                stops, recorded, trouble, sent, length, whole, due, failure, blurred>>
world == <<transcript, journal, active, recorded, failure, blurred>>
hook == <<mine, own, read, report, verdict, notes, sent, length, whole, due>>

\* TranscriptSummary::default
EmptyReport == [task |-> <<>>, files |-> {}, errors |-> 0, outcome |-> WorkCompleted]

NotDue == [failure |-> FALSE, blurred |-> FALSE]

StopReportInit ==
    /\ transcript = <<>> /\ journal = <<>> /\ active = 1 /\ stealth \in BOOLEAN
    /\ at = "idle" /\ mine = 0 /\ own = <<>> /\ read = 0 /\ report = EmptyReport
    /\ verdict = "none" /\ notes = {} /\ sent = {} /\ length = 0 /\ whole = <<>>
    /\ due = NotDue /\ stops = 0 /\ recorded = 0 /\ trouble = 0 /\ failure = FALSE /\ blurred = FALSE

----------------------------------------------------------------------------
(* The agent and the other hooks *)

WriteTranscript(l) ==
    /\ Len(transcript) < MaxTranscript
    /\ transcript' = Append(transcript, l)
    /\ UNCHANGED <<journal, active, recorded, failure, blurred, stealth, at, hook, stops, trouble>>

Suppressed(e) == \E i \in DOMAIN journal : journal[i] = e

\* An outcome of the active session, of one that ends, or of none.  The hook that records it may
\* find an equal one in its window, and have to cut the list.
JournalEntry(k, s) ==
    /\ recorded < MaxRecords
    /\ recorded' = recorded + 1
    /\ LET e   == [kind |-> k.kind, text |-> k.text, files |-> k.files, session |-> s]
           all == Append(journal, e)
       IN  \/ /\ Suppressed(e)
              /\ blurred' = TRUE
              /\ UNCHANGED <<journal, failure>>
           \/ /\ journal' = IF Len(all) > MaxJournal THEN Tail(all) ELSE all
              /\ blurred' = (blurred \/ Len(all) > MaxJournal)
              /\ failure' = CASE k.kind = "detected" -> TRUE
                              [] k.kind = "resolved" -> FALSE
                              [] OTHER -> failure
    /\ UNCHANGED <<transcript, active, stealth, at, hook, stops, trouble>>

\* Another hook starts a session after one has ended.
StartsSession ==
    /\ active = 0
    /\ active' = 1 + stops
    /\ UNCHANGED <<transcript, journal, recorded, failure, blurred, stealth, at, hook, stops, trouble>>

----------------------------------------------------------------------------
(* Reading the transcript *)

\* has_error, or without an exit code a search for some words.  Exit code 1 is
\* never an error here.
Failed(result) ==
    \/ result.code = "other"
    \/ result.code = "zero" /\ result.words
    \/ result.code = "none" /\ result.marks

\* The first message of the human that begins with a text.
TaskOf(task, l) ==
    IF task = <<>> /\ l.kind = "human" /\ l.blocks # <<>> THEN <<Head(l.blocks)>> ELSE task

\* The first text of the last message that has one.
OutcomeOf(outcome, l) ==
    IF l.kind = "assistant" /\ l.blocks # <<>> THEN Head(l.blocks) ELSE outcome

FirstOutcome(outcome, l) ==
    IF outcome = WorkCompleted /\ l.kind = "assistant" /\ l.blocks # <<>>
    THEN Head(l.blocks) ELSE outcome

\* The variant that keeps the first outcome.
AddLineFirst(r, l) ==
    [r EXCEPT !.task    = TaskOf(@, l),
              !.files   = IF l.kind = "tool_use" THEN @ \union l.files ELSE @,
              !.errors  = IF l.kind = "tool_result" /\ Failed(l.result) THEN @ + 1 ELSE @,
              !.outcome = FirstOutcome(@, l)]

\* One line of parse_jsonl_transcript_streaming.
AddLine(r, l) ==
    [task    |-> TaskOf(r.task, l),
     files   |-> IF l.kind = "tool_use" THEN r.files \union l.files ELSE r.files,
     errors  |-> IF l.kind = "tool_result" /\ Failed(l.result) THEN r.errors + 1 ELSE r.errors,
     outcome |-> OutcomeOf(r.outcome, l)]

Detected(list) == {i \in DOMAIN list : list[i].kind = "detected"}

\* merge_structured_outcomes
Merge(r, list) ==
    IF list = <<>> THEN r
    ELSE [r EXCEPT
            !.files   = @ \union UNION {list[i].files : i \in DOMAIN list},
            !.errors  = Max({@, Cardinality(Detected(list))}),
            !.outcome = IF @.blank \/ @ = WorkCompleted THEN Last(list).text ELSE @]

\* has_unresolved_errors, a fold: the last detection or resolution counts.
Unresolved(list) ==
    LET counted == {i \in DOMAIN list : list[i].kind \in {"detected", "resolved"}}
    IN  counted # {} /\ list[Max(counted)].kind = "detected"

\* session_outcome_feedback
VerdictOf(r, list) == IF r.outcome.failing \/ Unresolved(list) THEN "failure" ELSE "success"

\* extract_final_message and scan.  The texts of a message are joined into one
\* line, so of every text but the first the first line is not looked at.
NotesIn(blocks) ==
    IF blocks = <<>> THEN {}
    ELSE Head(blocks).first \union UNION {blocks[i].later : i \in DOMAIN blocks}

\* Two empty texts, joined with a space, are a message.
HasMessage(l) ==
    l.kind = "assistant" /\ l.blocks # <<>> /\ (Len(l.blocks) > 1 \/ ~Head(l.blocks).blank)

FinalNotes(lines) ==
    LET said == {i \in DOMAIN lines : HasMessage(lines[i])}
    IN  IF said = {} THEN {} ELSE NotesIn(lines[Max(said)].blocks)

----------------------------------------------------------------------------
(* stop::handle *)

At(next) == at' = next

\* The envelope is valid and hyphae is there; the session and the outcomes are
\* read.
StopBegins ==
    /\ at = "idle" /\ stops < MaxStops
    /\ stops' = stops + 1
    /\ mine' = active
    /\ own' = IF active = 0 THEN journal
              ELSE Kept(journal, {e \in ToSet(journal) : e.session = active})
    /\ read' = 0 /\ report' = EmptyReport /\ verdict' = "none" /\ notes' = {}
    /\ sent' = {} /\ length' = Len(transcript) /\ whole' = <<>> /\ due' = NotDue
    /\ At("parse")
    /\ UNCHANGED <<world, stealth, trouble>>

ParseLine ==
    /\ at = "parse" /\ read < Len(transcript)
    /\ read' = read + 1
    /\ report' = AddLine(report, transcript[read + 1])
    /\ UNCHANGED <<world, stealth, at, mine, own, verdict, notes, stops, trouble, sent, length, whole, due>>

\* The end of the file.
ParseEnds ==
    /\ at = "parse" /\ read = Len(transcript)
    /\ report' = Merge(report, own)
    /\ At(IF stealth THEN "discard" ELSE "judge")
    /\ UNCHANGED <<world, stealth, mine, own, read, verdict, notes, stops, trouble, sent, length, whole, due>>

\* The file cannot be opened, or not be read any further.
ParseFails ==
    /\ at = "parse" /\ trouble < MaxTrouble
    /\ trouble' = trouble + 1
    /\ length' = 0
    /\ report' = Merge(report, own)
    /\ At(IF stealth THEN "discard" ELSE "judge")
    /\ UNCHANGED <<world, stealth, mine, own, read, verdict, notes, stops, sent, whole, due>>

\* The list is read again, outcomes of other sessions included.
Judge ==
    /\ at = "judge"
    /\ verdict' = VerdictOf(report, journal)
    /\ due' = [failure |-> failure, blurred |-> blurred]
    /\ At("end")
    /\ UNCHANGED <<world, stealth, mine, own, read, report, notes, stops, trouble, sent, length, whole>>

\* end_scoped_hyphae_session ends the session the state file names by now.
EndsWithReport ==
    /\ at = "end" /\ active # 0
    /\ active' = 0
    /\ sent' = sent \union {<<"end", report>>}
    /\ At("signal")
    /\ UNCHANGED <<transcript, journal, recorded, failure, blurred, stealth, mine, own, read, report,
                   verdict, notes, stops, trouble, length, whole, due>>

\* It ends none: there is none, or it could not be ended.
EndsWithout ==
    /\ at = "end"
    /\ active = 0 \/ trouble < MaxTrouble
    /\ trouble' = IF active = 0 THEN trouble ELSE trouble + 1
    /\ At("reread")
    /\ UNCHANGED <<world, stealth, hook, stops>>

\* log_hyphae_feedback_signal_for_session
SignalVerdict ==
    /\ at = "signal"
    /\ sent' = sent \union {<<"feedback", verdict>>}
    /\ At("clear")
    /\ UNCHANGED <<world, stealth, mine, own, read, report, verdict, notes, stops, trouble, length,
                   whole, due>>

Emptied == journal' = <<>> /\ failure' = FALSE /\ blurred' = FALSE

\* clear_outcomes, then the lifecycle event.
ClearsOutcomes ==
    /\ at = "clear"
    /\ Emptied
    /\ sent' = sent \union {<<"lifecycle", "session_end">>}
    /\ At("reread")
    /\ UNCHANGED <<transcript, active, recorded, stealth, mine, own, read, report, verdict, notes, stops,
                   trouble, length, whole, due>>

\* In stealth mode nothing is sent; the hook is over.
DiscardsOutcomes ==
    /\ at = "discard"
    /\ Emptied
    /\ At("idle")
    /\ UNCHANGED <<transcript, active, recorded, stealth, hook, stops, trouble>>

\* run_post_processing: the transcript is read again, or it cannot be read.
Reread ==
    /\ at = "reread"
    /\ \/ whole' = transcript /\ UNCHANGED trouble
       \/ trouble < MaxTrouble /\ trouble' = trouble + 1 /\ whole' = <<>>
    /\ notes' = FinalNotes(whole')
    /\ At("store")
    /\ UNCHANGED <<world, stealth, mine, own, read, report, verdict, stops, sent, length, due>>

\* `hyphae store` is waited for; it may fail or take too long.
StoreNote(n) ==
    /\ at = "store" /\ n \in notes
    /\ notes' = notes \ {n}
    /\ \/ sent' = sent \union {<<"note", n>>} /\ UNCHANGED trouble
       \/ trouble < MaxTrouble /\ trouble' = trouble + 1 /\ UNCHANGED sent
    /\ UNCHANGED <<world, stealth, at, mine, own, read, report, verdict, stops, length, whole, due>>

\* trigger_compile_env_invalidation_if_needed
StopEnds ==
    /\ at = "store" /\ notes = {}
    /\ sent' = IF report.files \intersect Structural = {} THEN sent
               ELSE sent \union {<<"invalidate", "compile-env">>}
    /\ At("idle")
    /\ UNCHANGED <<world, stealth, mine, own, read, report, verdict, notes, stops, trouble, length, whole,
                   due>>

StopHook ==
    \/ StopBegins \/ ParseLine \/ ParseEnds \/ ParseFails \/ Judge \/ EndsWithReport \/ EndsWithout
    \/ SignalVerdict \/ ClearsOutcomes \/ DiscardsOutcomes \/ Reread \/ StopEnds
    \/ \E n \in notes : StoreNote(n)

StopReportNext ==
    \/ StopHook \/ StartsSession
    \/ \E l \in TLine : WriteTranscript(l)
    \/ \E k \in OutcomeKinds, s \in {0, active, mine} : JournalEntry(k, s)

StopReportSpec == StopReportInit /\ [][StopReportNext]_reportVars

----------------------------------------------------------------------------
(* Properties *)

\* What the first n lines say.
Of(kind, n) == {i \in 1..n : transcript[i].kind = kind}
Asked(n) == {i \in Of("human", n) : transcript[i].blocks # <<>>}
Spoken(n) == {i \in Of("assistant", n) : transcript[i].blocks # <<>>}
Broken(n) == {i \in Of("tool_result", n) : Failed(transcript[i].result)}
Written(n) == UNION {transcript[i].files : i \in Of("tool_use", n)}
Task(n) == IF Asked(n) = {} THEN <<>> ELSE <<transcript[Min(Asked(n))].blocks[1]>>
Saying(n) == IF Spoken(n) = {} THEN WorkCompleted ELSE transcript[Max(Spoken(n))].blocks[1]

\* The summary, merged: said by no more than the lines read, and by the
\* session's own outcomes, and by all lines there were when the hook started.
SummaryRight ==
    at \notin {"idle", "parse"} =>
        /\ read >= length
        /\ report.task = Task(read)
        /\ report.files = Written(read) \union (UNION {own[i].files : i \in DOMAIN own})
        /\ report.errors = Max({Cardinality(Broken(read)), Cardinality(Detected(own))})
        /\ report.outcome = IF own # <<>> /\ (Saying(read).blank \/ Saying(read) = WorkCompleted)
                            THEN own[Len(own)].text ELSE Saying(read)

\* A session is a success only if its last failure was recovered, as long as no
\* record was suppressed as a duplicate or cut from the list.
VerdictRight ==
    verdict # "none" /\ ~due.blurred => (verdict = "failure" <=> report.outcome.failing \/ due.failure)

\* What is kept was asked for in the last message, and what the first text of
\* it asks for is kept.
NotesRight ==
    LET kept   == {n \in UNION {t.first \union t.later : t \in Text} : <<"note", n>> \in sent}
        spoken == {i \in DOMAIN whole : HasMessage(whole[i])}
        final  == IF spoken = {} THEN <<>> ELSE whole[Max(spoken)].blocks
    IN  /\ kept \subseteq UNION {final[i].first \union final[i].later : i \in DOMAIN final}
        /\ at = "store" /\ notes = {} /\ trouble = 0 /\ final # <<>> =>
              final[1].first \union final[1].later \subseteq kept

\* In stealth mode the stop hook sends nothing, and a verdict only follows the
\* report it was made from.
SentRight ==
    /\ stealth => sent = {}
    /\ \A v \in {"failure", "success"} : <<"feedback", v>> \in sent => <<"end", report>> \in sent

\* What the stop hook says (transcript.rs:39, summary.rs:28 and 156, stop.rs:53
\* and 204) is true although the transcript and the list change while it works.
ReportTrue == SummaryRight /\ VerdictRight /\ NotesRight /\ SentRight

\* Types, and how far the hook can have read.
Journaled ==
    [kind : {k.kind : k \in OutcomeKinds}, text : {k.text : k \in OutcomeKinds},
     files : {k.files : k \in OutcomeKinds}, session : Nat]
Steps == {"idle", "parse", "judge", "end", "signal", "clear", "discard", "reread", "store"}
StopReportTypeOK ==
    /\ transcript \in Seq(TLine) /\ whole \in Seq(TLine)
    /\ journal \in Seq(Journaled) /\ own \in Seq(Journaled)
    /\ active \in Nat /\ mine \in Nat /\ read \in Nat /\ length \in Nat
    /\ stops \in Nat /\ trouble \in Nat
    /\ stealth \in BOOLEAN /\ at \in Steps
    /\ read <= Len(transcript) /\ length <= Len(transcript)

\* What SummaryRight rests on: up to the line that was read the summary is what
\* the lines say.
ReadRight ==
    at = "parse" => report = [task |-> Task(read), files |-> Written(read),
                              errors |-> Cardinality(Broken(read)), outcome |-> Saying(read)]

\* What VerdictRight rests on: a whole list ends as the records did, and there is
\* no verdict before the list is read.
JournalRight ==
    /\ ~blurred => (failure <=> Unresolved(journal))
    /\ at \in {"parse", "judge"} => verdict = "none"

\* What NotesRight rests on: every note of the last message is stored or still to
\* be stored, and no other.
NotesKept ==
    LET kept(n) == <<"note", n>> \in sent
    IN  /\ at \notin {"store", "idle"} => \A m \in sent : m[1] # "note"
        /\ \A n \in notes : at = "store" => n \in FinalNotes(whole)
        /\ \A m \in sent : m[1] = "note" => m[2] \in FinalNotes(whole)
        /\ at = "store" /\ trouble = 0 => \A n \in FinalNotes(whole) : n \in notes \/ kept(n)

\* What SentRight rests on: nothing is sent before the session has ended, and in
\* stealth mode the hook is over before it could.
SentInOrder ==
    /\ stealth => at \in {"idle", "parse", "discard"}
    /\ at \in {"parse", "judge", "end", "discard"} => sent = {}
    /\ at = "signal" => <<"end", report>> \in sent

\* The inductive invariant.
StopReportInv ==
    /\ StopReportTypeOK /\ ReadRight /\ JournalRight /\ NotesKept /\ SentInOrder
    /\ SummaryRight /\ VerdictRight /\ SentRight
=============================================================================
