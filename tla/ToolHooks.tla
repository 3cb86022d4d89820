----------------------------- MODULE ToolHooks -----------------------------
(***************************************************************************)
(* The hooks around a tool call, from their dispatch to their answer.      *)
(* Before a call, the node context, the gate guard, the rhizome rules and  *)
(* the clarification gate may deny it; hyphae is asked what it recalls and *)
(* mycelium how it would rewrite the command, each with a deadline; and    *)
(* once in a while an advisory is given.  After a call, its tool is put in *)
(* the log of the worktree.  At a stop, the log is reported and cleared.   *)
(*                                                                         *)
(* Every hook is a process of its own: what lasts from one to the next is  *)
(* the log and the counters of the advisories, two JSON files.  An         *)
(* update_json_file is one step (StateFile shows why).  Texts are          *)
(* abstracted to what the hooks find in them, the traits of a call.        *)
(***************************************************************************)
EXTENDS Naturals, FiniteSets, SequencesExt

CONSTANTS
    Proc,      \* hook processes
    Setting,   \* the environments to consider, one of which is in force
    Call,      \* tool calls, see CallType
    MaxHooks,  \* bound: hooks started
    MaxFaults  \* bound: hooks killed and updates that fail

Tool == {"Bash", "Edit", "MultiEdit", "Write", "Read", "Grep", "Glob", "symbols", "references"}

Trait == {"empty", "destructive", "readonly", "search", "heredoc", "commit",
          "symbol", "large", "stated", "unparsed"}

\* A call as the hooks see it: the tool, the extension of the file (of a Grep,
\* the kind of symbol it looks for), and what its texts are found to be.
CallType == [tool : Tool, file : {"rs", "ts", "md"}, traits : SUBSET Trait]

Event == {"PreToolUse", "PostToolUse", "Stop"}

SettingType ==
    [minimal : BOOLEAN, disabled : SUBSET Event, present : SUBSET {"hyphae", "mycelium", "rhizome"},
     denied : SUBSET Tool, allowed : SUBSET Tool, enforce : BOOLEAN, suggest : BOOLEAN,
     every : Nat, clarify : BOOLEAN, unclear : BOOLEAN, stealth : BOOLEAN]

ASSUME ToolHooksAssumption ==
    /\ Setting \subseteq SettingType /\ Setting # {}
    /\ Call \subseteq CallType
    /\ IsFiniteSet(Proc) /\ MaxHooks \in Nat /\ MaxFaults \in Nat

VARIABLES
    setting,   \* the environment, the same for all hooks of the session
    log,       \* the tools called, in the order of their first call, each with its calls
    counters,  \* counters[k]: advisories of key k that came up
    pc,        \* pc[p]: where hook p is
    event,     \* event[p]: what it handles
    call,      \* call[p]: the tool call it is about
    answer,    \* answer[p]: what it has printed for the agent
    hooks, faults,
    warned,    \* history: commands the gate guard has blocked
    retries,   \* history: hooks of such a command that find an investigation in the log
    known,     \* history: known[p]: tools in the log from the start of p on
    shown,     \* history: the keys of advisories given so far
    held,      \* history: held[k]: advisories held back since the last one given
    gaps,      \* history: gaps[k]: how many were held back between two that were given
    recorded,  \* history: calls put in the log, by number
    reported,  \* history: how often each call was reported
    late,      \* history: calls put in the log after a stop read it and before it cleared it
    discarded, \* history: calls cleared by a stop that had nothing to report to
    unsettled  \* history: a log was reported and not cleared before the next report

disk == <<log, counters>>
locals == <<pc, event, call, answer>>
bounds == <<hooks, faults>>
advice == <<shown, held, gaps>>
accounts == <<recorded, reported, late, discarded, unsettled>>
gates == <<warned, retries>>
vars == <<setting, disk, locals, bounds, gates, known, advice, accounts>>

NoCall == [tool |-> "none", file |-> "none", traits |-> {}]

Ext == {"rs", "ts", "md"}
Key == {"read", "grep", "Edit", "MultiEdit", "Write"} \X Ext

Init ==
    /\ setting \in Setting
    /\ log = <<>>
    /\ counters = [k \in Key |-> 0]
    /\ pc = [p \in Proc |-> "idle"]
    /\ event = [p \in Proc |-> "none"]
    /\ call = [p \in Proc |-> NoCall]
    /\ answer = [p \in Proc |-> "none"]
    /\ hooks = 0 /\ faults = 0
    /\ warned = {} /\ retries = {}
    /\ known = [p \in Proc |-> {}]
    /\ shown = {} /\ held = [k \in Key |-> 0] /\ gaps = [k \in Key |-> {}]
    /\ recorded = {} /\ reported = [n \in 1..MaxHooks |-> 0]
    /\ late = {} /\ discarded = {} /\ unsettled = FALSE

Goto(p, phase) == pc' = [pc EXCEPT ![p] = phase]

Fault == faults < MaxFaults /\ faults' = faults + 1

\* What p prints, with which its hook is over.
Answer(p, verdict) ==
    /\ Goto(p, "done")
    /\ answer' = [answer EXCEPT ![p] = verdict]

Names == {log[i].tool : i \in DOMAIN log}

\* should_skip_event and disabled_hooks: Stop alone is left in the minimal profile.
Skipped(e) == e \in setting.disabled \/ (setting.minimal /\ e # "Stop")

\* A call that cannot be parsed is answered {}, which allows it.
Begin(p, e, c) ==
    /\ pc[p] = "idle"
    /\ hooks < MaxHooks
    /\ hooks' = hooks + 1
    /\ event' = [event EXCEPT ![p] = e]
    /\ call' = [call EXCEPT ![p] = c]
    /\ known' = [known EXCEPT ![p] = Names]
    /\ CASE Skipped(e) -> Answer(p, "none")
         [] ~Skipped(e) /\ e = "Stop" -> Goto(p, "end") /\ UNCHANGED answer
         [] ~Skipped(e) /\ e # "Stop" /\ "unparsed" \in c.traits
              -> Answer(p, IF e = "PreToolUse" THEN "allow" ELSE "none")
         [] OTHER -> Goto(p, IF e = "PreToolUse" THEN "gate" ELSE "record") /\ UNCHANGED answer
    /\ UNCHANGED <<setting, disk, faults, gates, advice, accounts>>

----------------------------------------------------------------------------
(* PreToolUse *)

\* is_denied and is_not_allowed
NodeDenies(c) ==
    \/ c.tool \in setting.denied
    \/ setting.allowed # {} /\ c.tool \notin setting.allowed

\* detect_investigation_content: the log, or the text of the call itself.
Investigated(c) ==
    \/ Names \intersect {"Read", "Grep", "Glob", "symbols", "references"} # {}
    \/ "stated" \in c.traits

\* evaluate_gate: the decision on a gate in this state.  The map of gates is
\* the process's own, so every gate is in the state "none".
EvaluateGate(state, seen, mode) ==
    CASE mode = "advisory" -> "allow"
      [] mode = "blocking" /\ state = "none" -> "block"
      [] mode = "blocking" /\ state \in {"blocked", "investigating"} -> IF seen THEN "allow" ELSE "block"
      [] mode = "blocking" /\ state = "allowed" -> "allow"

\* is_readonly_git comes first; only destructive commands are gated in
\* blocking mode.
GateBlocks(c) ==
    /\ c.tool = "Bash" /\ "readonly" \notin c.traits
    /\ EvaluateGate("none", Investigated(c),
                    IF "destructive" \in c.traits THEN "blocking" ELSE "advisory") = "block"

\* tool_recall_query: reads are not worth a recall.
WantsRecall(c) == "hyphae" \in setting.present /\ c.tool \notin {"Read", "Grep", "Glob"}

AfterRecall(c) == IF c.tool = "Bash" THEN "command" ELSE "advise"

\* The node context, then the gate guard.
Gate(p) ==
    /\ pc[p] = "gate"
    /\ warned' = IF GateBlocks(call[p]) THEN warned \union {call[p]} ELSE warned
    /\ retries' = IF call[p] \in warned /\ Investigated(call[p]) THEN retries \union {p} ELSE retries
    /\ IF NodeDenies(call[p]) \/ GateBlocks(call[p])
       THEN Answer(p, "block")
       ELSE /\ Goto(p, IF WantsRecall(call[p]) THEN "recall" ELSE AfterRecall(call[p]))
            /\ UNCHANGED answer
    /\ UNCHANGED <<setting, disk, event, call, bounds, known, advice, accounts>>

\* inject_recall_for_tool: hyphae answers or fails, and the hook goes on.
RecallReturns(p) ==
    /\ pc[p] = "recall"
    /\ Goto(p, AfterRecall(call[p]))
    /\ UNCHANGED <<setting, disk, event, call, answer, bounds, gates, known, advice, accounts>>

\* The answer is waited for without a deadline.
RecallWaits(p) == pc[p] = "recall" /\ UNCHANGED vars

\* It goes on after two seconds as well.
RecallTimesOut(p) ==
    /\ pc[p] = "recall"
    /\ Goto(p, AfterRecall(call[p]))
    /\ UNCHANGED <<setting, disk, event, call, answer, bounds, gates, known, advice, accounts>>

\* is_bash_code_search: a command that searches the code.
CodeSearch(c) == c.tool = "Bash" /\ "search" \in c.traits

\* symbol_like_grep_kind: a Grep for what looks like a symbol.
SymbolSearch(c) == c.tool = "Grep" /\ "symbol" \in c.traits

\* Rhizome is there and to be used instead.
Enforced(c) ==
    /\ setting.enforce /\ "rhizome" \in setting.present
    /\ CodeSearch(c) \/ SymbolSearch(c)

\* handoff_pre_commit_warnings: a handoff this session edited has markers left.
\* It only warns unless the gate is set to block.
ClarificationBlocks(c) == setting.clarify /\ setting.unclear /\ "commit" \in c.traits

\* What a Bash command has to pass before mycelium may rewrite it.
CheckCommand(p) ==
    LET c == call[p]
    IN  /\ pc[p] = "command"
        /\ CASE "empty" \in c.traits -> Answer(p, "none")
             [] "empty" \notin c.traits /\ (Enforced(c) \/ ClarificationBlocks(c)) -> Answer(p, "block")
             [] OTHER -> IF "heredoc" \in c.traits \/ "mycelium" \notin setting.present
                         THEN Answer(p, "none")
                         ELSE Goto(p, "rewrite") /\ UNCHANGED answer
        /\ UNCHANGED <<setting, disk, event, call, bounds, gates, known, advice, accounts>>

\* mycelium rewrite ends in time: with another command, with the same or none,
\* or in failure.
RewriteReturns(p) ==
    /\ pc[p] = "rewrite"
    /\ Answer(p, "rewrite") \/ Answer(p, "none")
    /\ UNCHANGED <<setting, disk, event, call, bounds, gates, known, advice, accounts>>

\* A command mycelium does not answer for is denied.
RewriteTimesOutClosed(p) ==
    /\ pc[p] = "rewrite"
    /\ Answer(p, "block")
    /\ UNCHANGED <<setting, disk, event, call, bounds, gates, known, advice, accounts>>

RewriteTimesOut(p) ==
    /\ pc[p] = "rewrite"
    /\ Answer(p, "none")
    /\ UNCHANGED <<setting, disk, event, call, bounds, gates, known, advice, accounts>>

\* DEFAULT_RULES: what ought to have been called before a file is changed.
RelevanceRule ==
    [operation : {"Write", "Edit", "MultiEdit"}, file : {"rs"},
     recommended : {{"symbols", "references"}}] \union
    [operation : {"Write", "Edit", "MultiEdit"}, file : {"ts"}, recommended : {{"symbols"}}]

\* matching_rules
MatchingRules(operation, file) == {r \in RelevanceRule : r.operation = operation /\ r.file = file}

\* Every tool a rule recommends is asked for.
AllRecommendedCalled(rule, names) == rule.recommended \subseteq names

AnyRecommendedCalled(rule, names) == rule.recommended \intersect names # {}

\* write_advisory: nothing is said before the first call of a session.
WriteAdvisory(c) ==
    /\ log # <<>>
    /\ \E r \in MatchingRules(c.tool, c.file) : ~AnyRecommendedCalled(r, Names)

\* tool_suggestion_message: whether there is something to say of the call.
Suggestion(c) ==
    /\ setting.suggest /\ "rhizome" \in setting.present
    /\ \/ c.tool = "Read" /\ c.file \in {"rs", "ts"} /\ "large" \in c.traits
       \/ SymbolSearch(c)
       \/ c.tool \in {"Write", "Edit", "MultiEdit"} /\ WriteAdvisory(c)

\* rate_limit_key
KeyOf(c) == <<CASE c.tool = "Read" -> "read" [] c.tool = "Grep" -> "grep" [] OTHER -> c.tool, c.file>>

\* The rest of the hook for a call that is not a command.
Advise(p) ==
    LET c == call[p]
    IN  /\ pc[p] = "advise"
        /\ CASE Enforced(c) -> Answer(p, "block")
             [] ~Enforced(c) /\ Suggestion(c) -> Goto(p, "count") /\ UNCHANGED answer
             [] OTHER -> Answer(p, "none")
        /\ UNCHANGED <<setting, disk, event, call, bounds, gates, known, advice, accounts>>

\* cadence.max(1)
Cadence == IF setting.every = 0 THEN 1 ELSE setting.every

\* Only what is held back is counted.
CountHeld(k) == counters' = [counters EXCEPT ![k] = IF @ % Cadence = 0 THEN @ ELSE @ + 1]

CountCall(k) == counters' = [counters EXCEPT ![k] = @ + 1]

\* advisory_allowed, in one update_json_file.
AdvisoryAllowed(p) ==
    LET k == KeyOf(call[p])
        emit == counters[k] % Cadence = 0
    IN  /\ pc[p] = "count"
        /\ CountCall(k)
        /\ Answer(p, IF emit THEN "advice" ELSE "none")
        /\ held' = [held EXCEPT ![k] = IF emit THEN 0 ELSE @ + 1]
        /\ shown' = IF emit THEN shown \union {k} ELSE shown
        /\ gaps' = IF emit /\ k \in shown THEN [gaps EXCEPT ![k] = @ \union {held[k]}] ELSE gaps
        /\ UNCHANGED <<setting, log, event, call, bounds, gates, known, accounts>>

\* The counters cannot be written: nothing is said.
AdvisoryFails(p) ==
    /\ pc[p] = "count"
    /\ Fault
    /\ Answer(p, "none")
    /\ UNCHANGED <<setting, disk, event, call, hooks, gates, known, advice, accounts>>

----------------------------------------------------------------------------
(* PostToolUse *)

Calls == UNION {log[i].calls : i \in DOMAIN log}

\* A tool called before gets a second entry.
PutAgain(tool, n) == log' = Append(log, [tool |-> tool, calls |-> {n}])

Put(tool, n) ==
    log' = IF tool \in Names
           THEN [i \in DOMAIN log |-> IF log[i].tool = tool
                                      THEN [log[i] EXCEPT !.calls = @ \union {n}]
                                      ELSE log[i]]
           ELSE Append(log, [tool |-> tool, calls |-> {n}])

Reporting == {p \in Proc : pc[p] = "clear"}

\* record_tool_call; a call is known by the number of log updates before it.
RecordToolCall(p) ==
    LET n == Cardinality(recorded) + 1
    IN  /\ pc[p] = "record"
        /\ Put(call[p].tool, n)
        /\ recorded' = recorded \union {n}
        /\ late' = IF Reporting # {} THEN late \union {n} ELSE late
        /\ Answer(p, "none")
        /\ UNCHANGED <<setting, counters, event, call, bounds, gates, known, advice,
                       reported, discarded, unsettled>>

\* The log cannot be written: the call is not in it.
RecordFails(p) ==
    /\ pc[p] = "record"
    /\ Fault
    /\ Answer(p, "none")
    /\ UNCHANGED <<setting, disk, event, call, hooks, gates, known, advice, accounts>>

----------------------------------------------------------------------------
(* Stop *)

\* Without hyphae a stop leaves everything as it is; in stealth mode it ends no
\* session; otherwise the session may or may not be ended.
EndSession(p) ==
    /\ pc[p] = "end"
    /\ IF "hyphae" \notin setting.present
       THEN Answer(p, "none")
       ELSE /\ \/ ~setting.stealth /\ Goto(p, "report")
               \/ Goto(p, "discard")
            /\ UNCHANGED answer
    /\ UNCHANGED <<setting, disk, event, call, bounds, gates, known, advice, accounts>>

\* emit_tool_usage_signals reads the log and reports what it finds.
Report(p) ==
    /\ pc[p] = "report"
    /\ reported' = [n \in DOMAIN reported |-> IF n \in Calls THEN reported[n] + 1 ELSE reported[n]]
    /\ unsettled' = (unsettled \/ Reporting # {})
    /\ Goto(p, "clear")
    /\ UNCHANGED <<setting, disk, event, call, answer, bounds, gates, known, advice,
                   recorded, late, discarded>>

\* The report is made and the log stays.
LogKept == UNCHANGED <<log, known>>

\* Nothing is known any more of what was called before.
LogCleared ==
    /\ log' = <<>>
    /\ known' = [q \in Proc |-> {}]

\* clear_tool_calls after a report.
Clear(p) ==
    /\ pc[p] = "clear"
    /\ LogCleared
    /\ Answer(p, "none")
    /\ UNCHANGED <<setting, counters, event, call, bounds, gates, advice, accounts>>

\* clear_tool_calls of a stop that ended no session.
Discard(p) ==
    /\ pc[p] = "discard"
    /\ LogCleared
    /\ discarded' = discarded \union Calls
    /\ Answer(p, "none")
    /\ UNCHANGED <<setting, counters, event, call, bounds, gates, advice,
                   recorded, reported, late, unsettled>>

\* The file stays: it cannot be locked or removed.
ClearFails(p) ==
    /\ pc[p] \in {"clear", "discard"}
    /\ Fault
    /\ unsettled' = (unsettled \/ pc[p] = "clear")
    /\ Answer(p, "none")
    /\ UNCHANGED <<setting, disk, event, call, hooks, gates, known, advice,
                   recorded, reported, late, discarded>>

----------------------------------------------------------------------------

\* The process exits and the agent has its answer.
Exit(p) ==
    /\ pc[p] = "done"
    /\ Goto(p, "idle")
    /\ event' = [event EXCEPT ![p] = "none"]
    /\ call' = [call EXCEPT ![p] = NoCall]
    /\ answer' = [answer EXCEPT ![p] = "none"]
    /\ retries' = retries \ {p}
    /\ known' = [known EXCEPT ![p] = {}]
    /\ UNCHANGED <<setting, disk, bounds, warned, advice, accounts>>

\* The hook is killed before its end; for the agent that allows the call.
Killed(p) ==
    /\ pc[p] \notin {"idle", "done"}
    /\ Fault
    /\ unsettled' = (unsettled \/ pc[p] = "clear")
    /\ Goto(p, "idle")
    /\ event' = [event EXCEPT ![p] = "none"]
    /\ call' = [call EXCEPT ![p] = NoCall]
    /\ answer' = [answer EXCEPT ![p] = "none"]
    /\ retries' = retries \ {p}
    /\ known' = [known EXCEPT ![p] = {}]
    /\ UNCHANGED <<setting, disk, hooks, warned, advice, recorded, reported, late, discarded>>

PreToolUse(p) ==
    \/ Gate(p) \/ RecallTimesOut(p) \/ CheckCommand(p) \/ RewriteTimesOut(p)
    \/ Advise(p) \/ AdvisoryAllowed(p) \/ AdvisoryFails(p)

PostToolUse(p) == RecordToolCall(p) \/ RecordFails(p)

Stop(p) == EndSession(p) \/ Report(p) \/ Clear(p) \/ Discard(p) \/ ClearFails(p)

\* What the hook does by itself.
Step(p) == PreToolUse(p) \/ PostToolUse(p) \/ Stop(p) \/ Exit(p)

\* What its helpers do.
Helper(p) == RecallReturns(p) \/ RewriteReturns(p)

Next ==
    \E p \in Proc :
        \/ \E c \in Call : Begin(p, "PreToolUse", c) \/ Begin(p, "PostToolUse", c)
        \/ Begin(p, "Stop", NoCall)
        \/ Step(p) \/ Helper(p)
        \/ Killed(p)

Spec == Init /\ [][Next]_vars

\* The operating system runs every hook, and every wait has a deadline; no helper
\* need ever answer.
LiveSpec == Spec /\ \A p \in Proc : WF_vars(Step(p))

----------------------------------------------------------------------------
(* Properties *)

\* Every variable has its type, a hook that is idle has no event and no answer,
\* and no tool has two entries in the log, though hooks for the same tool run
\* side by side.
ToolHooksTypeOK ==
    /\ setting \in Setting
    /\ log \in Seq([tool : Tool, calls : SUBSET (1..MaxHooks)])
    /\ \A i, j \in DOMAIN log : log[i].tool = log[j].tool => i = j
    /\ counters \in [Key -> 0..MaxHooks]
    /\ pc \in [Proc -> {"idle", "gate", "recall", "command", "rewrite", "advise", "count",
                        "record", "end", "report", "clear", "discard", "done"}]
    /\ event \in [Proc -> Event \union {"none"}]
    /\ call \in [Proc -> Call \union {NoCall}]
    /\ answer \in [Proc -> {"none", "allow", "block", "rewrite", "advice"}]
    /\ \A p \in Proc : pc[p] = "idle" => event[p] = "none" /\ answer[p] = "none"
    /\ hooks \in 0..MaxHooks /\ faults \in 0..MaxFaults
    /\ warned \subseteq Call /\ retries \subseteq Proc
    /\ known \in [Proc -> SUBSET Tool]
    /\ shown \subseteq Key /\ held \in [Key -> 0..MaxHooks] /\ gaps \in [Key -> SUBSET (0..MaxHooks)]
    /\ recorded \subseteq 1..MaxHooks /\ reported \in [1..MaxHooks -> Nat]
    /\ late \subseteq recorded /\ discarded \subseteq recorded
    /\ unsettled \in BOOLEAN

\* What the source says may not be run, in the words of its messages.
Forbidden(c) ==
    \/ NodeDenies(c)
    \/ c.tool = "Bash" /\ "destructive" \in c.traits /\ "readonly" \notin c.traits
    \/ Enforced(c) /\ (c.tool = "Bash" => "empty" \notin c.traits)
    \/ c.tool = "Bash" /\ ClarificationBlocks(c) /\ "empty" \notin c.traits

\* A hook that runs to its end denies a call exactly when a rule forbids it: what
\* is installed, what the helpers answer or fail to, and what other hooks write
\* meanwhile, allow nothing forbidden and forbid nothing else.
DeniedByRuleAlone ==
    \A p \in Proc :
        pc[p] = "done" /\ event[p] = "PreToolUse" /\ ~Skipped("PreToolUse") =>
            (answer[p] = "block" <=> "unparsed" \notin call[p].traits /\ Forbidden(call[p]))

\* Advisories of one key come at the pace of the setting, over all hooks that
\* ever ran in the worktree: between two of them exactly one less is held back.
AdvisoriesPaced ==
    \A k \in Key : held[k] < Cadence /\ gaps[k] \subseteq {Cadence - 1}

\* An agent is not told to call a tool it has called: when a change is advised
\* against, nothing the advice names was in the log when the hook began and has
\* stayed there since.
AdviceIsNews ==
    \A p \in Proc :
        pc[p] = "count" /\ call[p].tool \in {"Write", "Edit", "MultiEdit"} =>
            \E r \in MatchingRules(call[p].tool, call[p].file) : r.recommended \intersect known[p] = {}

\* Every call put in the log is still there, was reported, was cleared by a stop
\* without a session, or came while a stop was about to clear; and no call is
\* reported twice unless the log it was in outlived its report.
CallsAccounted ==
    /\ \A n \in recorded : n \in Calls \union late \union discarded \/ reported[n] > 0
    /\ unsettled \/ \A n \in DOMAIN reported : reported[n] < 2

\* Every hook comes to its end, whatever its helpers do.
HookReturns == \A p \in Proc : pc[p] # "idle" ~> pc[p] = "idle"

\* pre_tool_use.rs: a destructive command is blocked first, and allowed when it
\* is called again after an investigation that the log shows.
InvestigationOpensGate ==
    \A p \in Proc :
        pc[p] = "done" /\ p \in retries /\ ~NodeDenies(call[p])
            /\ ~Enforced(call[p]) /\ ~ClarificationBlocks(call[p])
        => answer[p] # "block"
=============================================================================
