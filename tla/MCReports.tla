----------------------------- MODULE MCReports ------------------------------
(***************************************************************************)
(* What hooks write for those that come after them, in one run: a document *)
(* of the state directory under its lock (StateFile), the rework an edit   *)
(* hook reports (Corrections) and the summary of a whole session           *)
(* (StopReport).  The three share no state, so a behaviour takes the steps *)
(* of one of them.                                                         *)
(***************************************************************************)
EXTENDS StateFile, Corrections, StopReport, TLC

R(name, old, new) == [file |-> name, old |-> old, new |-> new]

\* A text is written, reworked twice, and a like text is replaced elsewhere.
MCRework == {R("f", "", "a"), R("f", "a", "b"), R("f", "b", "c"), R("g", "a", "")}

MCOverlap == {<<x, x>> : x \in {"a", "b", "c"}} \union {<<"a", "b">>}

Worked == [blank |-> FALSE, failing |-> FALSE, first |-> {}, later |-> {}]
Empty == [Worked EXCEPT !.blank = TRUE]
Fail == [Worked EXCEPT !.failing = TRUE, !.later = {"n"}]
Ask == [Worked EXCEPT !.first = {"m"}]
MCText == {Worked, Empty, Fail, Ask}

L(kind, blocks) == [kind |-> kind, blocks |-> blocks, files |-> {},
                    result |-> [code |-> "none", words |-> FALSE, marks |-> FALSE]]

MCTLine ==
    {L("human", <<Ask>>), L("assistant", <<Ask, Fail>>), L("assistant", <<Worked>>),
     L("assistant", <<Empty>>), L("assistant", <<Empty, Ask>>),
     [L("tool_use", <<>>) EXCEPT !.files = {"f", "Cargo.toml"}],
     [L("tool_result", <<>>) EXCEPT !.result.marks = TRUE],
     [L("tool_result", <<>>) EXCEPT !.result = [code |-> "one", words |-> TRUE, marks |-> TRUE]]}

K(kind, text, files) == [kind |-> kind, text |-> text, files |-> files]

MCKinds == {K("detected", Fail, {}), K("resolved", Ask, {}), K("corrected", Empty, {"g"})}

\* The processes, and the editors, differ in name only.
MCSymmetry == Permutations(Proc) \union Permutations(Editor)

\* Kept is SelectSeq, and Unresolved the fold of has_unresolved_errors, on short
\* lists.
ShortLists(S) == UNION {[1..n -> S] : n \in 0..4}

ASSUME KeptIsSelectSeq ==
    \A s \in ShortLists(1..3), S \in SUBSET (1..3) :
        LET In(x) == x \in S IN Kept(s, S) = SelectSeq(s, In)

ASSUME UnresolvedIsFold ==
    \A s \in ShortLists({"detected", "resolved", "corrected"}) :
        LET counts(unresolved, kind) ==
                kind = "detected" \/ (kind # "resolved" /\ unresolved)
        IN  Unresolved([i \in DOMAIN s |-> [kind |-> s[i]]]) <=> FoldLeft(counts, FALSE, s)

VARIABLE part

all == <<storeVars, correctionVars, reportVars, part>>

MCInit ==
    /\ StoreInit /\ CorrectionsInit /\ StopReportInit
    /\ \/ part = "store" /\ live = "none" /\ ~stealth
       \/ part = "corrections" /\ ~stealth
       \/ part = "report" /\ live = "none"

MCNext ==
    \/ part = "store" /\ StoreNext /\ UNCHANGED <<correctionVars, reportVars, part>>
    \/ part = "corrections" /\ CorrectionsNext /\ UNCHANGED <<storeVars, reportVars, part>>
    \/ part = "report" /\ StopReportNext /\ UNCHANGED <<storeVars, correctionVars, part>>

MCSpec == MCInit /\ [][MCNext]_all
=============================================================================
