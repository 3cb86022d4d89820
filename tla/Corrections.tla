---------------------------- MODULE Corrections ----------------------------
(***************************************************************************)
(* How the edit hook notices that an edit reworks an earlier one           *)
(* (hooks/post_tool_use/edits.rs).  A hook first looks the text it         *)
(* replaces up among the edits tracked so far, records a self-correction   *)
(* when an earlier edit wrote it, tells hyphae, and only then tracks its   *)
(* own edit.  The list is read without a lock; edits are stamped before    *)
(* the lock is awaited; every hook that tracks throws old edits away.      *)
(*                                                                         *)
(* One update_json_file is one step (StateFile), and so is ensuring or     *)
(* ending the session (Session).  A text is abstracted to its name; what   *)
(* is kept of it in the list, its first 200 characters, has a name of its  *)
(* own.  The pending lists the hook fills afterwards are in PendingQueue,  *)
(* the other outcomes of the list in Outcomes.                             *)
(***************************************************************************)
EXTENDS Integers, SequencesExt, Subsequences

CONSTANTS
    Editor,            \* edit hooks
    Rework,            \* the edits: the file, and the text replaced by a text
    Overlap,           \* pairs of a written and a replaced text, one within the other
    EditSession,       \* session ids
    CorrectionWindow,  \* correction_window_ms
    CleanupAge,        \* edit_cleanup_age_ms
    DedupeWindow,      \* outcome_dedupe_window_ms
    MaxCorrections,    \* max_outcome_events
    MaxEdits,          \* bound: hooks started
    MaxClock,          \* bound: the clock
    MaxMisses          \* bound: crashes and failed updates

\* The policy reads the two ages separately, and nothing relates them.
ASSUME CorrectionsAssumption ==
    /\ \A e \in Rework : DOMAIN e = {"file", "old", "new"}
    /\ CorrectionWindow \in Nat /\ CleanupAge \in Nat /\ DedupeWindow \in Nat
    /\ MaxCorrections \in Nat \ {0}
    /\ MaxEdits \in Nat /\ MaxClock \in Nat /\ MaxMisses \in Nat

VARIABLES
    clock,        \* the time
    edits,        \* the list of tracked edits
    corrections,  \* the list of outcomes, of which only corrections are looked at
    live,         \* the session the state file names, or "none"
    place,        \* place[p]: where hook p is
    work,         \* work[p]: the edit, the session and the latest stamp of p
    found,        \* found[p]: the edit p has found, as a set of at most one
    begun, misses,
    made,         \* history: every edit that was tracked, in that order
    looked,       \* looked[p]: how many those were when p looked, and when
    told,         \* history: the corrections hyphae was told
    cut       \* history: the list of outcomes was cut or cleared

correctionVars == <<clock, edits, corrections, live, place, work, found, begun, misses,
                    made, looked, told, cut>>
bounds == <<begun, misses>>
traces == <<made, looked, told, cut>>

\* An edit without a file is ignored by the hook.
NoWork == [edit |-> [file |-> "", old |-> "", new |-> ""], session |-> "none", at |-> 0]
NotLooked == [upto |-> 0, at |-> 0]

CorrectionsInit ==
    /\ clock = 1
    /\ edits = <<>> /\ corrections = <<>>
    /\ live \in EditSession \union {"none"}
    /\ place = [p \in Editor |-> "idle"]
    /\ work = [p \in Editor |-> NoWork]
    /\ found = [p \in Editor |-> {}]
    /\ begun = 0 /\ misses = 0
    /\ made = <<>> /\ looked = [p \in Editor |-> NotLooked]
    /\ told = <<>> /\ cut = FALSE

Enter(p, next) == place' = [place EXCEPT ![p] = next]

\* saturating_sub
Before(t, age) == IF t > age THEN t - age ELSE 0

Younger(list, t, age) == Kept(list, {e \in ToSet(list) : e.at > Before(t, age)})

\* The condition of find_correction.
Reworked(e, edit, t) ==
    /\ e.file = edit.file /\ e.at > Before(t, CorrectionWindow)
    /\ e.new # "" /\ <<e.new, edit.old>> \in Overlap

Fitting(list, edit, t) == {i \in DOMAIN list : Reworked(list[i], edit, t)}

\* The list is searched from its front.
FindFirst(list, edit, t) ==
    LET fits == Fitting(list, edit, t)
    IN  IF fits = {} THEN {} ELSE {list[Min(fits)]}

\* find_correction: the last one that was tracked.
Find(list, edit, t) ==
    LET young == Younger(list, t, CleanupAge)
        fits  == Fitting(young, edit, t)
    IN  IF fits = {} THEN {} ELSE {young[Max(fits)]}

\* semantically_matches: all corrections of a file have the same text.
Alike(a, b) == a.file = b.file /\ a.cause = b.cause /\ a.session = b.session

\* record_outcome
Recorded(c) ==
    \E i \in DOMAIN corrections :
        Alike(corrections[i], c) /\ c.at <= corrections[i].at + DedupeWindow

Correction(p) ==
    [file |-> work[p].edit.file, cause |-> found[p], session |-> work[p].session, at |-> work[p].at]

----------------------------------------------------------------------------
(* handle_file_edits *)

\* ensure_scoped_hyphae_session yields none, the one of the state file, or a
\* new one.
StartEdit(p, edit) ==
    /\ place[p] = "idle" /\ begun < MaxEdits
    /\ \E s \in EditSession \union {"none"} :
          /\ work' = [work EXCEPT ![p] = [edit |-> edit, session |-> s, at |-> 0]]
          /\ live' = IF s = "none" THEN live ELSE s
    /\ begun' = begun + 1
    /\ Enter(p, IF edit.old = "" THEN "stamp" ELSE "look")
    /\ UNCHANGED <<clock, edits, corrections, found, misses, traces>>

\* The outcome is stamped when it is made.
Look(p) ==
    /\ place[p] = "look"
    /\ found' = [found EXCEPT ![p] = Find(edits, work[p].edit, clock)]
    /\ work' = [work EXCEPT ![p].at = clock]
    /\ looked' = [looked EXCEPT ![p] = [upto |-> Len(made), at |-> clock]]
    /\ Enter(p, IF found'[p] = {} THEN "stamp" ELSE "record")
    /\ UNCHANGED <<clock, edits, corrections, live, bounds, made, told, cut>>

RecordCorrection(p) ==
    /\ place[p] = "record"
    /\ IF Recorded(Correction(p))
       THEN Enter(p, "stamp") /\ UNCHANGED <<corrections, cut>>
       ELSE LET all == Append(corrections, Correction(p))
                over == Len(all) > MaxCorrections
            IN  /\ corrections' = IF over THEN Tail(all) ELSE all
                /\ cut' = (cut \/ over)
                /\ Enter(p, "tell")
    /\ UNCHANGED <<clock, edits, live, work, found, bounds, made, looked, told>>

\* store_correction_in_hyphae; the signal it ends with needs a session, and
\* starts one if there is none.
Tell(p) ==
    /\ place[p] = "tell"
    /\ told' = Append(told, Correction(p))
    /\ live' \in IF live = "none" THEN EditSession \union {"none"} ELSE {live}
    /\ Enter(p, "stamp")
    /\ UNCHANGED <<clock, edits, corrections, work, found, bounds, made, looked, cut>>

Stamp(p) ==
    /\ place[p] = "stamp"
    /\ work' = [work EXCEPT ![p].at = clock]
    /\ Enter(p, "track")
    /\ UNCHANGED <<clock, edits, corrections, live, found, bounds, traces>>

Done(p) ==
    /\ Enter(p, "idle")
    /\ work' = [work EXCEPT ![p] = NoWork]
    /\ found' = [found EXCEPT ![p] = {}]
    /\ looked' = [looked EXCEPT ![p] = NotLooked]

\* track_edit
TrackEdit(p) ==
    /\ place[p] = "track"
    /\ LET w     == work[p]
           entry == [file |-> w.edit.file, old |-> w.edit.old, new |-> w.edit.new, at |-> w.at,
                     session |-> w.session]
       IN  /\ edits' = Append(Younger(edits, w.at, CleanupAge), entry)
           /\ made' = Append(made, entry)
    /\ Done(p)
    /\ UNCHANGED <<clock, corrections, live, bounds, told, cut>>

----------------------------------------------------------------------------
(* The stop hook, time and failures *)

\* The stop hook ends the session and removes the outcomes; the edits stay.
SessionEnds ==
    /\ live # "none"
    /\ live' = "none"
    /\ corrections' = <<>> /\ cut' = TRUE
    /\ UNCHANGED <<clock, edits, place, work, found, bounds, made, looked, told>>

TimePasses ==
    /\ clock < MaxClock
    /\ clock' = clock + 1
    /\ UNCHANGED <<edits, corrections, live, place, work, found, bounds, traces>>

\* The hook is killed, or its edit cannot be tracked.
EditorStops(p) ==
    /\ place[p] # "idle" /\ misses < MaxMisses
    /\ misses' = misses + 1
    /\ Done(p)
    /\ UNCHANGED <<clock, edits, corrections, live, begun, made, told, cut>>

\* record_outcome answers false when it cannot write.
CorrectionFails(p) ==
    /\ place[p] = "record" /\ misses < MaxMisses
    /\ misses' = misses + 1
    /\ Enter(p, "stamp")
    /\ UNCHANGED <<clock, edits, corrections, live, work, found, begun, traces>>

EditHook(p) == Look(p) \/ RecordCorrection(p) \/ Tell(p) \/ Stamp(p) \/ TrackEdit(p)

CorrectionsNext ==
    \/ \E p \in Editor :
          \/ \E edit \in Rework : StartEdit(p, edit)
          \/ EditHook(p) \/ EditorStops(p) \/ CorrectionFails(p)
    \/ SessionEnds \/ TimePasses

CorrectionsSpec == CorrectionsInit /\ [][CorrectionsNext]_correctionVars

----------------------------------------------------------------------------
(* Properties *)

\* A hook finds the edit it reworks although the other hooks throw edits away
\* while it works: of all edits that had been tracked when it looked, also in
\* earlier sessions, the last one that fits and is young enough for both ages.
ReworkNoticed ==
    \A p \in Editor : looked[p] # NotLooked =>
        LET fits == {i \in 1..looked[p].upto :
                       /\ made[i].at > Before(looked[p].at, CleanupAge)
                       /\ Reworked(made[i], work[p].edit, looked[p].at)}
        IN  found[p] = IF fits = {} THEN {} ELSE {made[Max(fits)]}

\* Hooks of one session tell hyphae of the rework of one edit once in a dedupe
\* window, however many notice it at the same time, as long as the list is not
\* cut.  It is not once for all of them: whoever tells it again within the window
\* works for another session, and in a release build every hook does, for each
\* starts one (Session).
ToldOncePerSession ==
    ~cut => \A i, j \in DOMAIN told :
        /\ i # j
        /\ told[i].file = told[j].file /\ told[i].cause = told[j].cause
        /\ told[i].at <= told[j].at + DedupeWindow
        /\ told[j].at <= told[i].at + DedupeWindow
        => told[i].session # told[j].session

\* What the edit hooks make of rework (edits.rs:150, outcomes.rs:24).
CorrectionsTrue == ReworkNoticed /\ ToldOncePerSession

\* Types; a hook stamps nothing with a time to come, and one that is idle has
\* looked nothing up.
AnyEdit == Rework \union {NoWork.edit}
AnySession == EditSession \union {"none"}
EditEntry ==
    [file : {e.file : e \in AnyEdit}, old : {e.old : e \in AnyEdit}, new : {e.new : e \in AnyEdit},
     at : Nat, session : AnySession]
CorrectionEntry ==
    [file : {e.file : e \in AnyEdit}, cause : SUBSET EditEntry, session : AnySession, at : Nat]
CorrectionsTypeOK ==
    /\ clock \in Nat /\ cut \in BOOLEAN
    /\ edits \in Seq(EditEntry) /\ made \in Seq(EditEntry)
    /\ corrections \in Seq(CorrectionEntry) /\ told \in Seq(CorrectionEntry)
    /\ place \in [Editor -> {"idle", "look", "record", "tell", "stamp", "track"}]
    /\ work \in [Editor -> [edit : AnyEdit, session : AnySession, at : Nat]]
    /\ found \in [Editor -> SUBSET EditEntry]
    /\ looked \in [Editor -> [upto : Nat, at : Nat]]
    /\ \A p \in Editor :
          /\ work[p].at <= clock /\ looked[p].upto <= Len(made)
          /\ place[p] = "idle" => looked[p] = NotLooked

\* What ReworkNoticed rests on: the list holds edits that were made, in their
\* order, and lacks none that any hook can still take for young.
EditsKept ==
    \E from \in [DOMAIN edits -> DOMAIN made] :
        /\ \A k \in DOMAIN edits : edits[k] = made[from[k]]
        /\ \A k, l \in DOMAIN edits : k < l => from[k] < from[l]
        /\ \A i \in DOMAIN made : made[i].at > Before(clock, CleanupAge) =>
               \E k \in DOMAIN edits : from[k] = i

\* What ToldOncePerSession rests on: as long as the list is whole, every correction that
\* hyphae was told, or is about to be told, is an entry of it, each one another,
\* and like entries are more than a window apart.
CorrectionsSpaced ==
    ~cut =>
        /\ \A i, j \in DOMAIN corrections :
              i < j /\ Alike(corrections[i], corrections[j]) =>
                  corrections[j].at > corrections[i].at + DedupeWindow
        /\ ToSet(told) \subseteq ToSet(corrections) /\ IsInjective(told)
        /\ \A p \in Editor : place[p] = "tell" =>
              /\ Correction(p) \in ToSet(corrections) \ ToSet(told)
              /\ \A q \in Editor \ {p} : place[q] = "tell" => Correction(q) # Correction(p)

\* The inductive invariant.
CorrectionsInv == CorrectionsTypeOK /\ EditsKept /\ ReworkNoticed /\ CorrectionsSpaced
=============================================================================
