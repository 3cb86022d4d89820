------------------------------ MODULE Handoffs ------------------------------
(***************************************************************************)
(* What the hooks find in a handoff, a document of .handoffs with steps    *)
(* and checklists that the sessions of an agent work on: the warnings and  *)
(* blockers before a commit, the warnings at a stop that items seem done   *)
(* or that the document is not finished, and the audit on the command      *)
(* line.  The document is written line by line while the agent changes the *)
(* files it names.  A line is abstracted to its kind and to the paths that *)
(* are found in it.                                                        *)
(***************************************************************************)
EXTENDS Integers, FiniteSets, Sequences

CONSTANTS
    File,       \* paths as handoffs name them
    Outside,    \* those that lead out of the workspace
    TestFile,   \* those whose name says they are tests
    TestsOf,    \* TestsOf[f]: where the tests of f would be
    Alike,      \* pairs of paths of which one ends with the other
    Changing,   \* bound: the files the agent changes
    Line,       \* the lines that may be written, see LineType
    MaxLines    \* bound: lines of the document

LineKind == {"step", "open", "done", "start", "end", "unclear", "fence", "text", "blank"}

\* paths are found as words of the line; quoted, only between backticks.
LineType == [kind : LineKind, paths : SUBSET File, quoted : SUBSET File]

ASSUME HandoffsAssumption ==
    /\ IsFiniteSet(File) /\ Outside \subseteq File /\ TestFile \subseteq File
    /\ Changing \subseteq File
    /\ TestsOf \in [File -> SUBSET File]
    /\ Alike \subseteq File \X File /\ \A f \in File : <<f, f>> \in Alike
    /\ Line \subseteq LineType
    /\ MaxLines \in Nat

VARIABLES
    doc,       \* the document
    ready,     \* the index lists it as ready
    edited,    \* the list of edits has it
    touched,   \* the transcript of the session shows it as modified
    modified,  \* the other files the transcript of the session shows as modified
    present,   \* the files of the repository
    holding,   \* those that hold the terms of the items
    linked,    \* the workspace root is given by a path with a link in it
    said       \* what the last hook or command said

handoffVars == <<doc, ready, edited, touched, modified, present, holding, linked, said>>

Silence == [of |-> "none", stale |-> {}, open |-> {}, empty |-> {}, denied |-> FALSE]

HandoffsInit ==
    /\ doc = <<>>
    /\ ready \in BOOLEAN
    /\ edited = FALSE /\ touched = FALSE
    /\ modified = {}
    /\ present \in SUBSET File
    /\ holding = {}
    /\ linked \in BOOLEAN
    /\ said = Silence

----------------------------------------------------------------------------
(* Reading a document *)

\* parse_checklist_item
OpenItems == {i \in DOMAIN doc : doc[i].kind = "open"}

\* An open marker at the end of the document.
PasteAtEnd(state) ==
    IF state.start # 0 /\ ~state.content THEN state.found \union {state.start} ELSE state.found

\* One line of find_empty_paste_markers.
PasteLine(state, i) ==
    CASE doc[i].kind = "start" -> [state EXCEPT !.start = i, !.content = FALSE]
      [] doc[i].kind = "end" -> [start |-> 0, content |-> FALSE, found |-> PasteAtEnd(state)]
      [] doc[i].kind = "blank" -> state
      [] OTHER -> [state EXCEPT !.content = state.content \/ state.start # 0]

\* What is known after so many lines.
PasteAfter[i \in 0..Len(doc)] ==
    IF i = 0 THEN [start |-> 0, content |-> FALSE, found |-> {}] ELSE PasteLine(PasteAfter[i - 1], i)

\* find_empty_paste_markers: one pass over the lines.
EmptyPasteMarkers == PasteAtEnd(PasteAfter[Len(doc)])

\* find_clarification_markers
ClarificationMarkers == {i \in DOMAIN doc : doc[i].kind = "unclear"}

\* canonicalize_and_gate: a path of the workspace is kept.  The root is compared
\* as it is given, so behind a link only paths that do not exist yet are kept.
Gated(f) == f \notin Outside /\ ~(linked /\ f \in present)

\* extract_paths_from_text on the lines i to j: the words of every line but the
\* fences, and what is between backticks outside of fences.
PathsIn(i, j) ==
    LET fenced(k) == Cardinality({l \in i..k : doc[l].kind = "fence"}) % 2 = 1
        found(k) == IF doc[k].kind = "fence" THEN {}
                    ELSE doc[k].paths \union IF fenced(k) THEN {} ELSE doc[k].quoted
    IN  {f \in UNION {found(k) : k \in i..j} : Gated(f)}

\* The step begins with the item.
BlockStartHere(i) == i

\* step_block_for_line: from the last heading at or before the line
BlockStart(i) ==
    LET headings == {k \in 1..i : doc[k].kind = "step"}
    IN  IF headings = {} THEN 1 ELSE CHOOSE k \in headings : \A l \in headings : l <= k

\* to before the next one.
BlockEnd(i) ==
    LET headings == {k \in i + 1..Len(doc) : doc[k].kind = "step"}
    IN  IF headings = {} THEN Len(doc) ELSE (CHOOSE k \in headings : \A l \in headings : k <= l) - 1

\* referenced_paths_for_item: of the item's step, and of the item alone.
ItemPaths(i) == PathsIn(BlockStart(i), BlockEnd(i)) \union PathsIn(i, i)

----------------------------------------------------------------------------
(* Hooks *)

\* resolve_modified_handoff_path and session_handoff_files: the handoff was edited
\* in this worktree.
SessionHandoff == edited

\* handoff_pre_commit_warnings before a git commit; blockers only deny it where
\* clarification_gate_block is set.
CommitLint(block) ==
    /\ said' = IF SessionHandoff
               THEN [of |-> "commit", stale |-> {}, open |-> OpenItems, empty |-> EmptyPasteMarkers,
                     denied |-> block /\ ClarificationMarkers # {}]
               ELSE [Silence EXCEPT !.of = "commit"]
    /\ UNCHANGED <<doc, ready, edited, touched, modified, present, holding, linked>>

\* check_handoff_staleness: open items whose step names a modified file.
StaleItems ==
    {i \in OpenItems : \E f \in ItemPaths(i), m \in modified : <<m, f>> \in Alike}

\* run_handoff_checks at a stop.  The transcript says what was modified; another
\* session begins with a transcript of its own, the list of edits stays.
StopChecks ==
    /\ said' = [of |-> "stop", stale |-> IF ready THEN StaleItems ELSE {},
                open |-> IF touched THEN OpenItems ELSE {},
                empty |-> IF touched THEN EmptyPasteMarkers ELSE {}, denied |-> FALSE]
    /\ modified' = {} /\ touched' = FALSE
    /\ UNCHANGED <<doc, ready, edited, present, holding, linked>>

\* symbol_found_in_paths, tests_found_for_item, classify_confidence
ExplicitMatch(i) ==
    LET paths == ItemPaths(i)
        found == paths \intersect present
        tests == ((found \intersect TestFile) \union UNION {TestsOf[f] : f \in paths}) \intersect present
    IN  found # {} /\ ((found \ TestFile) \union tests) \intersect holding # {}

LikelyImplemented == {i \in OpenItems : ExplicitMatch(i)}

\* is_stale_signal
IsStale == 2 * Cardinality(LikelyImplemented) > Cardinality(OpenItems)

\* cortina audit-handoff
AuditHandoff ==
    /\ said' = [of |-> "audit", stale |-> LikelyImplemented, open |-> {}, empty |-> {}, denied |-> IsStale]
    /\ UNCHANGED <<doc, ready, edited, touched, modified, present, holding, linked>>

----------------------------------------------------------------------------
(* What the agent does *)

WriteLine(line) ==
    /\ Len(doc) < MaxLines
    /\ doc' = Append(doc, line)
    /\ edited' = TRUE /\ touched' = TRUE
    /\ said' = Silence
    /\ UNCHANGED <<ready, modified, present, holding, linked>>

CheckItem(i) ==
    /\ i \in OpenItems
    /\ doc' = [doc EXCEPT ![i].kind = "done"]
    /\ edited' = TRUE /\ touched' = TRUE
    /\ said' = Silence
    /\ UNCHANGED <<ready, modified, present, holding, linked>>

ChangeFile(f) ==
    /\ modified' = modified \union {f}
    /\ present' = present \union {f}
    /\ holding' \in {holding \union {f}, holding \ {f}}
    /\ said' = Silence
    /\ UNCHANGED <<doc, ready, edited, touched, linked>>

HandoffsNext ==
    \/ \E line \in Line : WriteLine(line)
    \/ \E i \in DOMAIN doc : CheckItem(i)
    \/ \E f \in Changing : ChangeFile(f)
    \/ \E block \in BOOLEAN : CommitLint(block)
    \/ StopChecks
    \/ AuditHandoff

HandoffsSpec == HandoffsInit /\ [][HandoffsNext]_handoffVars

----------------------------------------------------------------------------
(* Properties *)

Between(i, j) == {k \in DOMAIN doc : (i < k /\ k <= j) \/ (j < k /\ k <= i)}

\* Two lines are in one step when no heading parts them.
SameStep(i, j) == \A k \in Between(i, j) : doc[k].kind # "step"

\* Line j of the step of i names f: in a word of it or, where an even number of
\* fences of the step come before it, between backticks.
NamesPath(i, j, f) ==
    /\ SameStep(i, j) /\ doc[j].kind # "fence"
    /\ \/ f \in doc[j].paths
       \/ /\ f \in doc[j].quoted
          /\ \/ i = j
             \/ Cardinality({l \in DOMAIN doc :
                    l < j /\ SameStep(l, j) /\ doc[l].kind = "fence"}) % 2 = 0

Marker(k) == doc[k].kind \in {"start", "end"}

\* What the hooks tell of a handoff is so: an open item is called stale exactly
\* when its step names a path of the workspace like one of a file modified in
\* the session; a paste marker is called empty exactly when nothing but blanks
\* stands between it and the end marker, or the end of the document, that is the
\* next marker after it; the audit flags a document only if a file of the
\* repository bears it out; and a commit is denied only for a handoff that has
\* been edited.
HandoffsReadRight ==
    /\ StaleItems = {i \in OpenItems : \E j \in DOMAIN doc, f \in File, m \in modified :
                        NamesPath(i, j, f) /\ Gated(f) /\ <<m, f>> \in Alike}
    /\ \A i \in DOMAIN doc : i \in EmptyPasteMarkers <=>
          /\ doc[i].kind = "start"
          /\ \A k \in i + 1..Len(doc) :
                (\A l \in i + 1..k - 1 : ~Marker(l)) => doc[k].kind \in {"blank", "end"}
    /\ said.of = "audit" /\ said.denied => holding \intersect present # {}
    /\ said.of = "commit" /\ said.denied =>
          edited /\ \E i \in DOMAIN doc : doc[i].kind = "unclear"
=============================================================================
