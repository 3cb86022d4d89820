------------------------------ MODULE MCHooks ------------------------------
(***************************************************************************)
(* The hooks around tool calls and the reading of handoffs in one run.     *)
(* They share no state, so a behaviour takes the steps of one of them and  *)
(* the other rests.                                                        *)
(***************************************************************************)
EXTENDS MCToolHooks, Handoffs

L(kind, paths, quoted) == [kind |-> kind, paths |-> paths, quoted |-> quoted]

MCLine ==
    {L("step", {}, {}), L("open", {}, {}), L("open", {}, {"f"}), L("text", {"o"}, {"f"}), L("fence", {"f"}, {}),
     L("start", {}, {}), L("blank", {}, {}), L("end", {}, {}), L("unclear", {}, {})}

MCTestsOf == [x \in {"f", "t", "o"} |-> IF x = "f" THEN {"t"} ELSE {}]

MCAlike == {<<x, x>> : x \in {"f", "t", "o"}} \union {<<"f", "o">>}

VARIABLE part

MCInit == Init /\ HandoffsInit /\ part \in {"calls", "handoffs"} /\
    \/ part = "calls" /\ present = {} /\ ~ready /\ ~linked
    \/ part = "handoffs" /\ setting = Plain /\ present \subseteq {"t"}

MCNext ==
    \/ part = "calls" /\ Next /\ UNCHANGED <<handoffVars, part>>
    \/ part = "handoffs" /\ HandoffsNext /\ UNCHANGED <<vars, part>>

MCSpec ==
    /\ MCInit /\ [][MCNext]_<<vars, handoffVars, part>>
    /\ \A p \in Proc : WF_vars(part = "calls" /\ Step(p) /\ UNCHANGED <<handoffVars, part>>)
=============================================================================
