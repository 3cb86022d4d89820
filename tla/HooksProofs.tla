----------------------------- MODULE HooksProofs -----------------------------
(***************************************************************************)
(* Proofs about the hooks around tool calls (ToolHooks), for any number of *)
(* hook processes, any calls and any setting, and about the reading of     *)
(* handoffs (Handoffs), for documents of any length and any files.         *)
(***************************************************************************)
EXTENDS ToolHooks, Handoffs, Integers, SubsequenceProofs, FiniteSetTheorems, TLAPS

----------------------------------------------------------------------------
(* The tool hooks *)

BeforeUpdate == {"gate", "recall", "command", "rewrite", "advise", "count", "record"}

\* Hooks that may still put a call in the log or count an advisory.
Updating == {p \in Proc : pc[p] \in BeforeUpdate}

\* The calls in the log are numbered without a gap, and every update of a file
\* is that of a hook of its own.
Numbered ==
    /\ recorded = 1..Cardinality(recorded)
    /\ Cardinality(recorded) \in Nat
    /\ Calls \subseteq recorded
    /\ Cardinality(recorded) + Cardinality(Updating) <= hooks
    /\ \A k \in Key : held[k] <= counters[k] /\ counters[k] + Cardinality(Updating) <= hooks

\* Which event a phase belongs to, and what has been found by then.
Phases ==
    \A p \in Proc :
        /\ pc[p] \in BeforeUpdate => call[p] \in Call /\ "unparsed" \notin call[p].traits
        /\ pc[p] \in BeforeUpdate \ {"record"} => event[p] = "PreToolUse"
        /\ pc[p] = "count" => call[p].tool \in {"Read", "Grep", "Edit", "MultiEdit", "Write"}
        /\ pc[p] = "record" => event[p] = "PostToolUse"
        /\ pc[p] \in {"end", "report", "clear", "discard"} => event[p] = "Stop"
        /\ pc[p] \notin {"idle", "done"} => answer[p] = "none"

\* The types of what a hook has in hand.
State ==
    /\ pc \in [Proc -> {"idle", "gate", "recall", "command", "rewrite", "advise", "count",
                        "record", "end", "report", "clear", "discard", "done"}]
    /\ event \in [Proc -> Event \union {"none"}]
    /\ call \in [Proc -> Call \union {NoCall}]
    /\ answer \in [Proc -> {"none", "allow", "block", "rewrite", "advice"}]
    /\ \A p \in Proc : pc[p] = "idle" => event[p] = "none" /\ answer[p] = "none"

Invariant == ToolHooksTypeOK /\ Numbered /\ Phases

----------------------------------------------------------------------------
(* The log *)

Entry == [tool : Tool, calls : SUBSET (1..MaxHooks)]
LogType == Seq(Entry)

\* Whether its tool is new or not, a call put in the log is in it, with all the
\* others, and no tool gets a second entry.
LEMMA PutLog ==
    ASSUME log \in LogType,
           \A i, j \in DOMAIN log : log[i].tool = log[j].tool => i = j,
           NEW tool \in Tool, NEW n \in 1..MaxHooks, Put(tool, n)
    PROVE  /\ log' \in LogType
           /\ \A i, j \in DOMAIN log' : log'[i].tool = log'[j].tool => i = j
           /\ Names' = Names \union {tool}
           /\ Calls' = Calls \union {n}
  <1>1. CASE tool \in Names
    <2>1. log' = [i \in DOMAIN log |-> IF log[i].tool = tool
                                       THEN [log[i] EXCEPT !.calls = @ \union {n}] ELSE log[i]]
      BY <1>1 DEF Put
    <2>2. DOMAIN log' = DOMAIN log /\ \A i \in DOMAIN log : log'[i].tool = log[i].tool
      BY <2>1 DEF LogType
    <2>3. \A i \in DOMAIN log : log'[i].calls = IF log[i].tool = tool
                                                THEN log[i].calls \union {n} ELSE log[i].calls
      <3> SUFFICES ASSUME NEW i \in DOMAIN log
                   PROVE  log'[i].calls = IF log[i].tool = tool
                                          THEN log[i].calls \union {n} ELSE log[i].calls
        OBVIOUS
      <3>1. log[i] \in Entry
        BY DEF LogType
      <3>2. log'[i] = IF log[i].tool = tool THEN [log[i] EXCEPT !.calls = @ \union {n}] ELSE log[i]
        BY <2>1
      <3> QED BY <3>1, <3>2 DEF Entry
    <2>4. \A i \in DOMAIN log : log'[i] \in Entry
      <3> SUFFICES ASSUME NEW i \in DOMAIN log
                   PROVE  log'[i] \in Entry
        OBVIOUS
      <3>1. log[i] \in Entry
        BY DEF LogType
      <3>2. log'[i] = IF log[i].tool = tool THEN [log[i] EXCEPT !.calls = @ \union {n}] ELSE log[i]
        BY <2>1
      <3>3. log[i].calls \union {n} \in SUBSET (1..MaxHooks)
        BY <3>1 DEF Entry
      <3>4. [log[i] EXCEPT !.calls = @ \union {n}] \in Entry
        BY <3>1, <3>3 DEF Entry
      <3> QED BY <3>1, <3>2, <3>4
    <2>5. log' \in LogType
      <3>1. DOMAIN log = 1..Len(log) /\ Len(log) \in Nat
        BY DEF LogType
      <3> QED BY <2>1, <2>4, <3>1 DEF LogType
    <2>6. Names' = Names \union {tool}
      BY <2>2, <1>1 DEF Names
    <2>7. Calls' = Calls \union {n}
      <3>1. PICK j \in DOMAIN log : log[j].tool = tool
        BY <1>1 DEF Names
      <3>2. \A m : m \in Calls' <=> \E i \in DOMAIN log : m \in log'[i].calls
        BY <2>2 DEF Calls
      <3>3. \A m : m \in Calls <=> \E i \in DOMAIN log : m \in log[i].calls
        BY DEF Calls
      <3>4. \A m : m \in Calls' => m \in Calls \/ m = n
        <4> SUFFICES ASSUME NEW m, m \in Calls', m # n PROVE m \in Calls
          OBVIOUS
        <4>1. PICK i \in DOMAIN log : m \in log'[i].calls
          BY <3>2
        <4>2. m \in log[i].calls
          BY <4>1, <2>3
        <4> QED BY <4>2, <3>3
      <3>5. \A m : m \in Calls => m \in Calls'
        BY <3>2, <3>3, <2>3
      <3>6. n \in Calls'
        BY <3>1, <3>2, <2>3
      <3> QED BY <3>4, <3>5, <3>6
    <2> QED BY <2>2, <2>5, <2>6, <2>7
  <1>2. CASE tool \notin Names
    <2> DEFINE new == [tool |-> tool, calls |-> {n}]
    <2>1. log' = Append(log, new) /\ new \in Entry
      BY <1>2 DEF Put, Entry
    <2>2. log' \in LogType /\ Len(log) \in Nat /\ DOMAIN log = 1..Len(log)
          /\ DOMAIN log' = 1..Len(log) + 1
      BY <2>1 DEF LogType
    <2>3. (\A i \in DOMAIN log : log'[i] = log[i]) /\ log'[Len(log) + 1] = new
      BY <2>1, <2>2 DEF LogType
    <2>4. DOMAIN log' = DOMAIN log \union {Len(log) + 1}
      BY <2>2
    <2>5. Names' = Names \union {tool}
      BY <2>3, <2>4 DEF Names
    <2>6. Calls' = Calls \union {n}
      BY <2>3, <2>4 DEF Calls
    <2>7. \A i, j \in DOMAIN log' : log'[i].tool = log'[j].tool => i = j
      BY <2>3, <2>4, <1>2 DEF Names
    <2> QED BY <2>2, <2>5, <2>6, <2>7
  <1> QED BY <1>1, <1>2

----------------------------------------------------------------------------
(* Types *)

LEMMA CadencePositive == ToolHooksTypeOK => Cadence \in Nat \ {0}
  BY ToolHooksAssumption DEF Cadence, ToolHooksTypeOK, SettingType

LEMMA UpdatingFinite == IsFiniteSet(Updating) /\ Cardinality(Updating) \in Nat
  <1>1. Updating \subseteq Proc
    BY DEF Updating
  <1> QED BY <1>1, ToolHooksAssumption, FS_Subset, FS_CardinalityType

LEMMA InitInvariant == Init => Invariant
  <1> SUFFICES ASSUME Init PROVE Invariant
    OBVIOUS
  <1>1. ToolHooksTypeOK
    <2>1. log \in Seq([tool : Tool, calls : SUBSET (1..MaxHooks)])
          /\ \A i, j \in DOMAIN log : log[i].tool = log[j].tool => i = j
      BY DEF Init
    <2>2. counters \in [Key -> 0..MaxHooks] /\ held \in [Key -> 0..MaxHooks]
          /\ gaps \in [Key -> SUBSET (0..MaxHooks)] /\ reported \in [1..MaxHooks -> Nat]
      BY ToolHooksAssumption DEF Init
    <2>3. hooks \in 0..MaxHooks /\ faults \in 0..MaxFaults
      BY ToolHooksAssumption DEF Init
    <2> QED BY <2>1, <2>2, <2>3 DEF Init, ToolHooksTypeOK
  <1>2. Numbered
    <2>1. Updating = {}
      BY DEF Init, Updating, BeforeUpdate
    <2>2. Cardinality({}) = 0
      BY FS_EmptySet
    <2> QED BY <2>1, <2>2 DEF Init, Numbered, Calls
  <1>3. Phases
    BY DEF Init, Phases, BeforeUpdate
  <1> QED BY <1>1, <1>2, <1>3 DEF Invariant

\* A step with which no hook comes to an update and none is made.
LEMMA NoUpdate ==
    ASSUME Numbered, hooks \in Nat, hooks' \in Nat, hooks <= hooks',
           Updating' \subseteq Updating, UNCHANGED <<recorded, counters, held>>,
           counters \in [Key -> Nat], Calls' \subseteq Calls
    PROVE  Numbered'
  <1>1. Cardinality(Updating') <= Cardinality(Updating) /\ Cardinality(Updating') \in Nat
    BY UpdatingFinite, FS_Subset, FS_CardinalityType
  <1> QED BY <1>1, UpdatingFinite DEF Numbered

\* A hook begins that may make one.
LEMMA OneMore ==
    ASSUME Numbered, hooks \in Nat, hooks' = hooks + 1, NEW p \in Proc,
           Updating' \subseteq Updating \union {p}, UNCHANGED <<recorded, counters, held>>,
           counters \in [Key -> Nat], Calls' \subseteq Calls
    PROVE  Numbered'
  <1> DEFINE more == Updating \union {p}
  <1>0. IsFiniteSet(more)
        /\ Cardinality(more) = IF p \in Updating THEN Cardinality(Updating) ELSE Cardinality(Updating) + 1
    BY UpdatingFinite, FS_AddElement
  <1>1. Cardinality(more) <= Cardinality(Updating) + 1 /\ Cardinality(more) \in Nat
    BY <1>0, UpdatingFinite
  <1>2. Cardinality(Updating') <= Cardinality(Updating) + 1 /\ Cardinality(Updating') \in Nat
    <2>1. Updating' \in SUBSET more
      OBVIOUS
    <2>2. Cardinality(Updating') <= Cardinality(more) /\ IsFiniteSet(Updating')
      BY <1>0, <2>1, FS_Subset
    <2>3. Cardinality(Updating') \in Nat
      BY <2>2, FS_CardinalityType
    <2> QED BY <1>1, <2>2, <2>3, UpdatingFinite
  <1> QED BY <1>2, UpdatingFinite DEF Numbered

\* The hook that makes one has left the set.
LEMMA OneLess ==
    ASSUME NEW p \in Updating, Updating' \subseteq Updating \ {p}
    PROVE  Cardinality(Updating') + 1 <= Cardinality(Updating) /\ Cardinality(Updating') \in Nat
  <1>1. IsFiniteSet(Updating \ {p}) /\ Cardinality(Updating \ {p}) = Cardinality(Updating) - 1
        /\ Cardinality(Updating \ {p}) \in Nat
    BY UpdatingFinite, FS_RemoveElement, FS_CardinalityType
  <1>2. Cardinality(Updating') <= Cardinality(Updating \ {p}) /\ Cardinality(Updating') \in Nat
    BY <1>1, FS_Subset, FS_CardinalityType
  <1> QED BY <1>1, <1>2, UpdatingFinite

\* The steps that leave the log, the counters and the accounts alone.
Quiet(p) ==
    \/ Gate(p) \/ RecallReturns(p) \/ RecallTimesOut(p) \/ CheckCommand(p)
    \/ RewriteReturns(p) \/ RewriteTimesOut(p) \/ Advise(p) \/ EndSession(p) \/ Exit(p)

LEMMA QuietStep ==
    ASSUME Invariant, NEW p \in Proc, Quiet(p)
    PROVE  Invariant'
  <1> USE DEF Goto, Answer, AfterRecall
  <1>1. /\ UNCHANGED <<setting, log, counters, hooks, faults, shown, held, gaps,
                       recorded, reported, late, discarded, unsettled>>
        /\ warned' \subseteq Call /\ retries' \subseteq Proc
        /\ known' \in [Proc -> SUBSET Tool]
    <2>1. CASE Gate(p)
      BY <2>1 DEF Gate, Invariant, ToolHooksTypeOK, Phases, BeforeUpdate, disk, bounds, advice, accounts
    <2>2. CASE Exit(p)
      BY <2>2 DEF Exit, Invariant, ToolHooksTypeOK, disk, bounds, advice, accounts
    <2>3. CASE EndSession(p)
      BY <2>3 DEF EndSession, Invariant, ToolHooksTypeOK, disk, bounds, gates, advice, accounts
    <2>4. CASE CheckCommand(p) \/ Advise(p)
      BY <2>4 DEF CheckCommand, Advise, Invariant, ToolHooksTypeOK, disk, bounds, gates, advice, accounts
    <2> QED BY <2>1, <2>2, <2>3, <2>4 DEF Quiet, RecallReturns, RecallTimesOut, RewriteReturns,
            RewriteTimesOut, Invariant, ToolHooksTypeOK, disk, bounds, gates, advice, accounts
  <1>0. State
    BY DEF Invariant, ToolHooksTypeOK, State
  <1>2. State' /\ Phases' /\ Updating' \subseteq Updating
    <2> USE <1>0 DEF Invariant, State, Phases, BeforeUpdate, Updating
    <2>1. CASE Gate(p)
      BY <2>1 DEF Gate
    <2>2. CASE RecallReturns(p)
      BY <2>2 DEF RecallReturns
    <2>3. CASE RecallTimesOut(p)
      BY <2>3 DEF RecallTimesOut
    <2>4. CASE CheckCommand(p)
      BY <2>4 DEF CheckCommand
    <2>5. CASE RewriteReturns(p)
      BY <2>5 DEF RewriteReturns
    <2>6. CASE RewriteTimesOut(p)
      BY <2>6 DEF RewriteTimesOut
    <2>7. CASE Advise(p)
      BY <2>7 DEF Advise, Suggestion, SymbolSearch
    <2>8. CASE EndSession(p)
      BY <2>8 DEF EndSession
    <2>9. CASE Exit(p)
      BY <2>9 DEF Exit
    <2> QED BY <2>1, <2>2, <2>3, <2>4, <2>5, <2>6, <2>7, <2>8, <2>9 DEF Quiet
  <1>3. ToolHooksTypeOK'
    BY <1>1, <1>2 DEF Invariant, ToolHooksTypeOK, State
  <1>4. Numbered'
    <2>1. counters \in [Key -> Nat] /\ hooks \in Nat
      BY DEF Invariant, ToolHooksTypeOK
    <2>2. Calls' = Calls
      BY <1>1 DEF Calls
    <2> QED BY <1>1, <1>2, <2>1, <2>2, NoUpdate DEF Invariant
  <1> QED BY <1>2, <1>3, <1>4 DEF Invariant

\* A hook begins, is killed, fails to update a file, or is a stop.
Other(p) ==
    \/ \E e \in Event, c \in Call \union {NoCall} : (e # "Stop" => c \in Call) /\ Begin(p, e, c)
    \/ AdvisoryFails(p) \/ RecordFails(p) \/ ClearFails(p) \/ Killed(p)
    \/ Report(p) \/ Clear(p) \/ Discard(p)

LEMMA OtherStep ==
    ASSUME Invariant, NEW p \in Proc, Other(p)
    PROVE  Invariant'
  <1> USE DEF Goto, Answer, Fault, LogCleared
  <1>0. State /\ hooks \in Nat /\ hooks <= MaxHooks /\ faults \in Nat /\ faults <= MaxFaults
        /\ MaxHooks \in Nat /\ MaxFaults \in Nat /\ counters \in [Key -> Nat]
    BY ToolHooksAssumption DEF Invariant, ToolHooksTypeOK, State
  <1>1. CASE \E e \in Event, c \in Call \union {NoCall} : (e # "Stop" => c \in Call) /\ Begin(p, e, c)
    <2>0. PICK e \in Event, c \in Call \union {NoCall} : (e # "Stop" => c \in Call) /\ Begin(p, e, c)
      BY <1>1
    <2>1. State' /\ Phases' /\ Updating' \subseteq Updating \union {p}
      BY <1>0, <2>0 DEF Begin, Invariant, State, Phases, BeforeUpdate, Updating, Event
    <2>2. hooks' = hooks + 1 /\ hooks' \in 0..MaxHooks
          /\ UNCHANGED <<setting, log, counters, faults, warned, retries, shown, held, gaps,
                         recorded, reported, late, discarded, unsettled>>
          /\ known' = [known EXCEPT ![p] = Names]
      BY <1>0, <2>0 DEF Begin, disk, gates, advice, accounts
    <2>3. Names \subseteq Tool
      <3>1. log \in LogType
        BY DEF Invariant, ToolHooksTypeOK, LogType, Entry
      <3>2. \A i \in DOMAIN log : log[i] \in Entry
        BY <3>1 DEF LogType
      <3> QED BY <3>2 DEF Names, Entry
    <2>4. ToolHooksTypeOK'
      BY <2>1, <2>2, <2>3 DEF Invariant, ToolHooksTypeOK, State
    <2>5. Numbered'
      <3>1. Calls' = Calls
        BY <2>2 DEF Calls
      <3> QED BY <1>0, <2>1, <2>2, <3>1, OneMore DEF Invariant
    <2> QED BY <2>1, <2>4, <2>5 DEF Invariant
  <1>2. CASE AdvisoryFails(p) \/ RecordFails(p) \/ ClearFails(p) \/ Killed(p) \/ Report(p)
             \/ Clear(p) \/ Discard(p)
    <2>1. State' /\ Phases' /\ Updating' \subseteq Updating
      BY <1>0, <1>2 DEF AdvisoryFails, RecordFails, ClearFails, Killed, Report, Clear, Discard,
         Invariant, State, Phases, BeforeUpdate, Updating
    <2>2. /\ UNCHANGED <<setting, counters, hooks, warned, shown, held, gaps, recorded, late>>
          /\ faults' \in 0..MaxFaults /\ retries' \subseteq Proc
          /\ known' \in [Proc -> SUBSET Tool]
          /\ unsettled' \in BOOLEAN
          /\ (log' = log \/ log' = <<>>)
          /\ reported' \in [1..MaxHooks -> Nat]
          /\ discarded' \subseteq discarded \union Calls
      <3> USE <1>0 DEF Invariant, ToolHooksTypeOK
      <3>1. CASE AdvisoryFails(p)
        BY <3>1 DEF AdvisoryFails, disk, bounds, gates, advice, accounts
      <3>2. CASE RecordFails(p)
        BY <3>2 DEF RecordFails, disk, bounds, gates, advice, accounts
      <3>3. CASE ClearFails(p)
        BY <3>3 DEF ClearFails, disk, bounds, gates, advice, accounts
      <3>4. CASE Killed(p)
        BY <3>4 DEF Killed, disk, bounds, gates, advice, accounts
      <3>5. CASE Report(p)
        BY <3>5 DEF Report, disk, bounds, gates, advice, accounts
      <3>6. CASE Clear(p)
        BY <3>6 DEF Clear, disk, bounds, gates, advice, accounts
      <3>7. CASE Discard(p)
        BY <3>7 DEF Discard, disk, bounds, gates, advice, accounts
      <3> QED BY <1>2, <3>1, <3>2, <3>3, <3>4, <3>5, <3>6, <3>7
    <2>4. log' \in Seq([tool : Tool, calls : SUBSET (1..MaxHooks)])
          /\ \A i, j \in DOMAIN log' : log'[i].tool = log'[j].tool => i = j
      <3>1. CASE log' = log
        BY <3>1 DEF Invariant, ToolHooksTypeOK
      <3>2. CASE log' = <<>>
        <4>1. <<>> \in Seq([tool : Tool, calls : SUBSET (1..MaxHooks)]) /\ DOMAIN <<>> = {}
          OBVIOUS
        <4> QED BY <3>2, <4>1
      <3> QED BY <3>1, <3>2, <2>2
    <2>5. Calls' \subseteq Calls
      <3>1. CASE log' = log
        BY <3>1 DEF Calls
      <3>2. CASE log' = <<>>
        BY <3>2 DEF Calls
      <3> QED BY <3>1, <3>2, <2>2
    <2>6. discarded' \subseteq recorded'
      BY <2>2 DEF Invariant, Numbered, ToolHooksTypeOK
    <2>7. ToolHooksTypeOK'
      BY <2>1, <2>2, <2>4, <2>6 DEF Invariant, ToolHooksTypeOK, State
    <2>8. Numbered'
      BY <1>0, <2>1, <2>2, <2>5, NoUpdate DEF Invariant
    <2> QED BY <2>1, <2>7, <2>8 DEF Invariant
  <1> QED BY <1>1, <1>2 DEF Other

\* A call is put in the log: its number is new.
LEMMA RecordStep ==
    ASSUME Invariant, NEW p \in Proc, RecordToolCall(p)
    PROVE  /\ Invariant'
           /\ Calls' = Calls \union {Cardinality(recorded) + 1}
           /\ Names' = Names \union {call[p].tool}
           /\ Cardinality(recorded) + 1 \notin recorded
           /\ Cardinality(recorded) + 1 \in 1..MaxHooks
           /\ recorded' = recorded \union {Cardinality(recorded) + 1}
           /\ UNCHANGED <<counters, held, shown, gaps, known, reported, discarded, unsettled, setting>>
  <1> DEFINE n == Cardinality(recorded) + 1
  <1> USE DEF Goto, Answer
  <1>0. State /\ hooks \in Nat /\ hooks <= MaxHooks /\ MaxHooks \in Nat /\ counters \in [Key -> Nat]
        /\ held \in [Key -> Nat] /\ recorded = 1..Cardinality(recorded) /\ Cardinality(recorded) \in Nat
    BY ToolHooksAssumption DEF Invariant, ToolHooksTypeOK, State, Numbered
  <1>1. State' /\ Phases' /\ Updating' \subseteq Updating \ {p} /\ p \in Updating
    BY <1>0 DEF RecordToolCall, Invariant, State, Phases, BeforeUpdate, Updating
  <1>2. Cardinality(Updating') + 1 <= Cardinality(Updating) /\ Cardinality(Updating') \in Nat
        /\ Cardinality(Updating) \in Nat
    BY <1>1, OneLess, UpdatingFinite
  <1>3. n \in 1..MaxHooks /\ n \notin recorded /\ n \in Nat
    BY <1>0, <1>2 DEF Invariant, Numbered
  <1>4. call[p].tool \in Tool
    BY ToolHooksAssumption DEF RecordToolCall, Invariant, Phases, BeforeUpdate, CallType
  <1>5. log \in LogType /\ \A i, j \in DOMAIN log : log[i].tool = log[j].tool => i = j
    BY DEF Invariant, ToolHooksTypeOK, LogType, Entry
  <1>6. Put(call[p].tool, n)
    BY DEF RecordToolCall
  <1>7. /\ log' \in LogType
        /\ \A i, j \in DOMAIN log' : log'[i].tool = log'[j].tool => i = j
        /\ Names' = Names \union {call[p].tool}
        /\ Calls' = Calls \union {n}
    <2> HIDE DEF n
    <2> QED BY <1>3, <1>4, <1>5, <1>6, PutLog
  <1>8. recorded' = recorded \union {n} /\ late' \subseteq late \union {n}
        /\ UNCHANGED <<setting, counters, hooks, faults, warned, retries, known, shown, held, gaps,
                       reported, discarded, unsettled>>
    BY DEF RecordToolCall, bounds, gates, advice
  <1>9. recorded' = 1..n /\ Cardinality(recorded') = n
    <2>1. recorded' = 1..n
      BY <1>0, <1>8
    <2>2. Cardinality(1..n) = n
      BY <1>3, FS_Interval
    <2> QED BY <2>1, <2>2
  <1>10. ToolHooksTypeOK'
    BY <1>1, <1>3, <1>7, <1>8 DEF Invariant, ToolHooksTypeOK, State, LogType, Entry
  <1>11. Numbered'
    <2>1. n + Cardinality(Updating') <= hooks
      BY <1>0, <1>2 DEF Invariant, Numbered
    <2>2. \A k \in Key : held'[k] <= counters'[k] /\ counters'[k] + Cardinality(Updating') <= hooks'
      BY <1>0, <1>2, <1>8 DEF Invariant, Numbered
    <2>3. Calls' \subseteq recorded'
      BY <1>7, <1>8 DEF Invariant, Numbered
    <2> HIDE DEF n
    <2> QED BY <1>3, <1>8, <1>9, <2>1, <2>2, <2>3 DEF Numbered
  <1> QED BY <1>1, <1>3, <1>7, <1>8, <1>10, <1>11 DEF Invariant

\* An advisory is counted.
LEMMA CountStep ==
    ASSUME Invariant, NEW p \in Proc, AdvisoryAllowed(p)
    PROVE  Invariant'
  <1> USE DEF Goto, Answer
  <1> DEFINE k == KeyOf(call[p])
  <1>0. State /\ hooks \in Nat /\ hooks <= MaxHooks /\ MaxHooks \in Nat
        /\ counters \in [Key -> 0..MaxHooks] /\ held \in [Key -> 0..MaxHooks]
    BY ToolHooksAssumption DEF Invariant, ToolHooksTypeOK, State
  <1>1. State' /\ Phases' /\ Updating' \subseteq Updating \ {p} /\ p \in Updating
    BY <1>0 DEF AdvisoryAllowed, Invariant, State, Phases, BeforeUpdate, Updating
  <1>2. Cardinality(Updating') + 1 <= Cardinality(Updating) /\ Cardinality(Updating') \in Nat
        /\ Cardinality(Updating) \in Nat
    BY <1>1, OneLess, UpdatingFinite
  <1>3. UNCHANGED <<setting, log, hooks, faults, warned, retries, known, recorded, reported, late,
                    discarded, unsettled>>
    BY DEF AdvisoryAllowed, bounds, gates, accounts
  <1>4. /\ counters' = [counters EXCEPT ![k] = @ + 1]
        /\ (held' = [held EXCEPT ![k] = 0] \/ held' = [held EXCEPT ![k] = @ + 1])
        /\ (shown' = shown \union {k} \/ shown' = shown)
        /\ (gaps' = gaps \/ gaps' = [gaps EXCEPT ![k] = @ \union {held[k]}])
    BY DEF AdvisoryAllowed, CountCall
  <1>5. \A l \in Key : /\ held'[l] <= counters'[l] /\ counters'[l] + Cardinality(Updating') <= hooks
                       /\ counters'[l] \in 0..MaxHooks /\ held'[l] \in 0..MaxHooks
    <2> HIDE DEF k
    <2>1. SUFFICES ASSUME NEW l \in Key
                   PROVE  /\ held'[l] <= counters'[l] /\ counters'[l] + Cardinality(Updating') <= hooks
                          /\ counters'[l] \in 0..MaxHooks /\ held'[l] \in 0..MaxHooks
      OBVIOUS
    <2>2. counters[l] \in Nat /\ held[l] \in Nat /\ held[l] <= counters[l]
          /\ counters[l] + Cardinality(Updating) <= hooks
      BY <1>0 DEF Invariant, Numbered
    <2>3. counters'[l] \in {counters[l], counters[l] + 1}
          /\ held'[l] \in {held[l], 0, held[l] + 1}
          /\ (held'[l] = held[l] + 1 => counters'[l] = counters[l] + 1)
      BY <1>0, <1>4
    <2> QED BY <1>0, <1>2, <2>2, <2>3
  <1>6. k \in Key
    <2>1. call[p] \in Call /\ call[p].tool \in {"Read", "Grep", "Edit", "MultiEdit", "Write"}
      BY DEF AdvisoryAllowed, Invariant, Phases, BeforeUpdate
    <2>2. call[p].file \in Ext
      BY <2>1, ToolHooksAssumption DEF CallType, Ext
    <2> QED BY <2>1, <2>2 DEF KeyOf, Key
  <1>7. counters' \in [Key -> 0..MaxHooks] /\ held' \in [Key -> 0..MaxHooks]
        /\ gaps' \in [Key -> SUBSET (0..MaxHooks)] /\ shown' \subseteq Key
    <2> HIDE DEF k
    <2>1. counters' \in [Key -> 0..MaxHooks]
      BY <1>0, <1>4, <1>5
    <2>2. held' \in [Key -> 0..MaxHooks]
      BY <1>0, <1>4, <1>5
    <2>3. gaps' \in [Key -> SUBSET (0..MaxHooks)]
      <3>1. gaps \in [Key -> SUBSET (0..MaxHooks)]
        BY DEF Invariant, ToolHooksTypeOK
      <3>2. gaps[k] \union {held[k]} \in SUBSET (0..MaxHooks)
        BY <1>0, <1>6, <3>1
      <3>3. [gaps EXCEPT ![k] = @ \union {held[k]}] \in [Key -> SUBSET (0..MaxHooks)]
        BY <3>1, <3>2, <1>6
      <3> QED BY <1>4, <3>1, <3>3
    <2> QED BY <2>1, <2>2, <2>3, <1>4, <1>6 DEF Invariant, ToolHooksTypeOK
  <1>8. ToolHooksTypeOK'
    BY <1>1, <1>3, <1>7 DEF Invariant, ToolHooksTypeOK, State
  <1>9. Numbered'
    <2>1. Calls' = Calls
      BY <1>3 DEF Calls
    <2>2. Cardinality(recorded) + Cardinality(Updating') <= hooks
      BY <1>0, <1>2 DEF Invariant, Numbered
    <2> HIDE DEF k
    <2> QED BY <1>3, <1>5, <2>1, <2>2 DEF Invariant, Numbered
  <1> QED BY <1>1, <1>8, <1>9 DEF Invariant

\* The disjuncts of Next by what their steps do.
LEMMA StepCases ==
    ASSUME Next
    PROVE  \E p \in Proc : Quiet(p) \/ Other(p) \/ RecordToolCall(p) \/ AdvisoryAllowed(p)
  <1> USE DEF Quiet, Other, Event
  <1>1. PICK p \in Proc :
           \/ \E c \in Call : Begin(p, "PreToolUse", c) \/ Begin(p, "PostToolUse", c)
           \/ Begin(p, "Stop", NoCall) \/ Step(p) \/ Helper(p) \/ Killed(p)
    BY DEF Next
  <1>2. CASE \E c \in Call : Begin(p, "PreToolUse", c) \/ Begin(p, "PostToolUse", c)
    BY <1>2
  <1>3. CASE Begin(p, "Stop", NoCall)
    BY <1>3
  <1>4. CASE Step(p)
    BY <1>4 DEF Step, PreToolUse, PostToolUse, Stop
  <1>5. CASE Helper(p)
    BY <1>5 DEF Helper
  <1>6. CASE Killed(p)
    BY <1>6
  <1> QED BY <1>1, <1>2, <1>3, <1>4, <1>5, <1>6

LEMMA NextInvariant == Invariant /\ [Next]_vars => Invariant'
  <1> SUFFICES ASSUME Invariant, [Next]_vars PROVE Invariant'
    OBVIOUS
  <1>1. CASE Next
    BY <1>1, StepCases, QuietStep, OtherStep, RecordStep, CountStep
  <1>2. CASE UNCHANGED vars
    <2> USE <1>2 DEF vars, disk, locals, bounds, gates, advice, accounts
    <2>1. ToolHooksTypeOK'
      BY DEF Invariant, ToolHooksTypeOK
    <2>2. Calls' = Calls /\ Updating' = Updating
      BY DEF Calls, Updating
    <2>3. Numbered'
      BY <2>2 DEF Invariant, Numbered
    <2>4. Phases'
      BY DEF Invariant, Phases
    <2> QED BY <2>1, <2>3, <2>4 DEF Invariant
  <1> QED BY <1>1, <1>2

\* What a hook has in hand fits its place in the code, every file holds what it
\* should, and no tool has two entries in the log.
THEOREM ToolHooksInvariant == Spec => []Invariant
  BY InitInvariant, NextInvariant, PTL DEF Spec

THEOREM ToolHooksType == Spec => []ToolHooksTypeOK
  BY ToolHooksInvariant, PTL DEF Invariant

----------------------------------------------------------------------------
(* Denials *)

\* What has been decided about a call when its hook is at a given place.
Decided ==
    \A p \in Proc :
        LET c == call[p]
        IN  /\ pc[p] \in BeforeUpdate \ {"record"} => ~Skipped("PreToolUse")
            /\ pc[p] \in BeforeUpdate \ {"record", "gate"} =>
                  /\ ~NodeDenies(c)
                  /\ ~(c.tool = "Bash" /\ "destructive" \in c.traits /\ "readonly" \notin c.traits)
            /\ pc[p] \in {"command", "rewrite"} => c.tool = "Bash"
            /\ pc[p] \in {"advise", "count"} => c.tool # "Bash"
            /\ pc[p] \in {"rewrite", "count"} => ~Forbidden(c)

\* The facts a gate asks for never open it: the map of gates is new in every
\* process.
LEMMA GateIsFirst ==
    ASSUME NEW c
    PROVE  GateBlocks(c) <=> c.tool = "Bash" /\ "destructive" \in c.traits /\ "readonly" \notin c.traits
  BY DEF GateBlocks, EvaluateGate

LEMMA InitDecided == Init => Decided /\ DeniedByRuleAlone
  BY DEF Init, Decided, DeniedByRuleAlone, BeforeUpdate

LEMMA NextDecided ==
    ASSUME Invariant, Decided, DeniedByRuleAlone, [Next]_vars
    PROVE  Decided' /\ DeniedByRuleAlone'
  <1> USE DEF Goto, Answer, AfterRecall, BeforeUpdate
  <1>0. State /\ Phases
    BY DEF Invariant, ToolHooksTypeOK, State
  <1>1. setting' = setting
    <2>1. CASE Next
      <3>1. PICK p \in Proc : Quiet(p) \/ Other(p) \/ RecordToolCall(p) \/ AdvisoryAllowed(p)
        BY <2>1, StepCases
      <3> QED BY <3>1 DEF Quiet, Other, RecordToolCall, AdvisoryAllowed, Gate, RecallReturns,
           RecallTimesOut, CheckCommand, RewriteReturns, RewriteTimesOut, Advise, EndSession, Exit,
           Begin, AdvisoryFails, RecordFails, ClearFails, Killed, Report, Clear, Discard
    <2>2. CASE UNCHANGED vars
      BY <2>2 DEF vars
    <2> QED BY <2>1, <2>2
  <1>2. \A c : /\ NodeDenies(c)' <=> NodeDenies(c)
               /\ Forbidden(c)' <=> Forbidden(c)
    BY <1>1 DEF NodeDenies, Forbidden, Enforced, ClarificationBlocks
  <1>3. \A e : Skipped(e)' <=> Skipped(e)
    BY <1>1 DEF Skipped
  <1>4. CASE Next
    <2>1. PICK p \in Proc : Quiet(p) \/ Other(p) \/ RecordToolCall(p) \/ AdvisoryAllowed(p)
      BY <1>4, StepCases
    <2> USE <1>0, <1>2, <1>3 DEF State, Phases, Decided, DeniedByRuleAlone
    <2>2. CASE Gate(p)
      BY <2>2, GateIsFirst DEF Gate, Forbidden
    <2>3. CASE RecallReturns(p)
      BY <2>3 DEF RecallReturns
    <2>4. CASE RecallTimesOut(p)
      BY <2>4 DEF RecallTimesOut
    <2>5. CASE CheckCommand(p)
      BY <2>5 DEF CheckCommand, Forbidden
    <2>6. CASE RewriteReturns(p)
      BY <2>6 DEF RewriteReturns
    <2>7. CASE RewriteTimesOut(p)
      BY <2>7 DEF RewriteTimesOut
    <2>8. CASE Advise(p)
      BY <2>8 DEF Advise, Forbidden
    <2>9. CASE EndSession(p)
      BY <2>9 DEF EndSession
    <2>10. CASE Exit(p)
      BY <2>10 DEF Exit
    <2>11. CASE \E e \in Event, c \in Call \union {NoCall} : (e # "Stop" => c \in Call) /\ Begin(p, e, c)
      BY <2>11 DEF Begin, Forbidden, Event
    <2>12. CASE AdvisoryFails(p)
      BY <2>12 DEF AdvisoryFails
    <2>13. CASE RecordFails(p)
      BY <2>13 DEF RecordFails
    <2>14. CASE ClearFails(p)
      BY <2>14 DEF ClearFails
    <2>15. CASE Killed(p)
      BY <2>15 DEF Killed
    <2>16. CASE Report(p)
      BY <2>16 DEF Report
    <2>17. CASE Clear(p)
      BY <2>17 DEF Clear
    <2>18. CASE Discard(p)
      BY <2>18 DEF Discard
    <2>19. CASE RecordToolCall(p)
      BY <2>19 DEF RecordToolCall
    <2>20. CASE AdvisoryAllowed(p)
      BY <2>20 DEF AdvisoryAllowed
    <2> QED BY <2>1, <2>2, <2>3, <2>4, <2>5, <2>6, <2>7, <2>8, <2>9, <2>10, <2>11, <2>12, <2>13, <2>14, <2>15, <2>16, <2>17, <2>18, <2>19, <2>20 DEF Quiet, Other
  <1>5. CASE UNCHANGED vars
    BY <1>2, <1>3, <1>5 DEF vars, locals, Decided, DeniedByRuleAlone
  <1> QED BY <1>4, <1>5

\* Whatever hyphae and mycelium answer, fail to answer or answer too late, and
\* whatever is installed, a call is denied when a rule forbids it and only then.
THEOREM CallsDeniedByRuleAlone == Spec => []DeniedByRuleAlone
  <1>1. Init => Decided /\ DeniedByRuleAlone
    BY InitDecided
  <1>2. Invariant /\ (Decided /\ DeniedByRuleAlone) /\ [Next]_vars => (Decided /\ DeniedByRuleAlone)'
    BY NextDecided
  <1> QED BY <1>1, <1>2, ToolHooksInvariant, PTL DEF Spec

----------------------------------------------------------------------------
(* Advice *)

\* What a hook has known from its start on is still in the log.
Known == \A p \in Proc : known[p] \subseteq Names

LEMMA NextNews ==
    ASSUME Invariant, Known, AdviceIsNews, [Next]_vars
    PROVE  Known' /\ AdviceIsNews'
  <1> USE DEF Goto, Answer, AfterRecall
  <1>0. State /\ Phases /\ known \in [Proc -> SUBSET Tool]
    BY DEF Invariant, ToolHooksTypeOK, State
  <1>1. CASE Next
    <2>1. PICK p \in Proc : Quiet(p) \/ Other(p) \/ RecordToolCall(p) \/ AdvisoryAllowed(p)
      BY <1>1, StepCases
    <2> USE <1>0 DEF State, Known, AdviceIsNews
    <2>2. CASE Gate(p) \/ RecallReturns(p) \/ RecallTimesOut(p) \/ CheckCommand(p)
               \/ RewriteReturns(p) \/ RewriteTimesOut(p) \/ EndSession(p) \/ Exit(p)
               \/ AdvisoryFails(p) \/ RecordFails(p) \/ ClearFails(p) \/ Killed(p) \/ Report(p)
               \/ AdvisoryAllowed(p)
      <3>1. log' = log /\ \A q \in Proc : known'[q] \in {known[q], {}}
        BY <2>2 DEF Gate, RecallReturns, RecallTimesOut, CheckCommand, RewriteReturns, RewriteTimesOut,
           EndSession, Exit, AdvisoryFails, RecordFails, ClearFails, Killed, Report, AdvisoryAllowed, disk
      <3>2. \A q \in Proc : pc'[q] = "count" => pc[q] = "count" /\ call'[q] = call[q]
        BY <2>2 DEF Gate, RecallReturns, RecallTimesOut, CheckCommand, RewriteReturns, RewriteTimesOut,
           EndSession, Exit, AdvisoryFails, RecordFails, ClearFails, Killed, Report, AdvisoryAllowed
      <3>3. Names' = Names
        BY <3>1 DEF Names
      <3> QED BY <3>1, <3>2, <3>3
    <2>3. CASE Clear(p) \/ Discard(p)
      <3>1. \A q \in Proc : known'[q] = {}
        BY <2>3 DEF Clear, Discard, LogCleared
      <3>2. \A q \in Proc : pc'[q] = "count" => pc[q] = "count" /\ call'[q] = call[q]
        BY <2>3 DEF Clear, Discard
      <3> QED BY <3>1, <3>2
    <2>4. CASE \E e \in Event, c \in Call \union {NoCall} : (e # "Stop" => c \in Call) /\ Begin(p, e, c)
      <3>1. PICK e \in Event, c \in Call \union {NoCall} : Begin(p, e, c)
        BY <2>4
      <3>2. log' = log /\ known' = [known EXCEPT ![p] = Names]
        BY <3>1 DEF Begin, disk
      <3>3. Names' = Names
        BY <3>2 DEF Names
      <3>4. \A q \in Proc : pc'[q] = "count" => q # p /\ pc[q] = "count" /\ call'[q] = call[q]
        BY <3>1 DEF Begin, Event
      <3> QED BY <3>2, <3>3, <3>4
    <2>5. CASE Advise(p)
      <3>1. log' = log /\ known' = known /\ call' = call
        BY <2>5 DEF Advise, disk
      <3>2. Names' = Names
        BY <3>1 DEF Names
      <3>3. CASE Suggestion(call[p])
        <4>1. call[p].tool \in {"Write", "Edit", "MultiEdit"} =>
                 \E r \in MatchingRules(call[p].tool, call[p].file) : r.recommended \intersect known[p] = {}
          BY <3>3 DEF Suggestion, SymbolSearch, WriteAdvisory, AnyRecommendedCalled
        <4> QED BY <2>5, <3>1, <3>2, <4>1 DEF Advise
      <3>4. CASE ~Suggestion(call[p])
        BY <2>5, <3>1, <3>2, <3>4 DEF Advise
      <3> QED BY <3>3, <3>4
    <2>6. CASE RecordToolCall(p)
      <3>1. Names \subseteq Names' /\ known' = known
        BY <2>6, RecordStep
      <3>2. \A q \in Proc : pc'[q] = "count" => pc[q] = "count" /\ call'[q] = call[q]
        BY <2>6 DEF RecordToolCall
      <3> QED BY <3>1, <3>2
    <2> QED BY <2>1, <2>2, <2>3, <2>4, <2>5, <2>6 DEF Quiet, Other
  <1>2. CASE UNCHANGED vars
    <2>1. Names' = Names
      BY <1>2 DEF vars, disk, Names
    <2> QED BY <1>2, <2>1 DEF vars, locals, Known, AdviceIsNews
  <1> QED BY <1>1, <1>2

\* A hook never advises a call that was in the log when it began and is there
\* still, though the log is read, written and cleared by others meanwhile.
THEOREM AdviceAlwaysNews == Spec => []AdviceIsNews
  <1>1. Init => Known /\ AdviceIsNews
    BY DEF Init, Known, AdviceIsNews
  <1>2. Invariant /\ (Known /\ AdviceIsNews) /\ [Next]_vars => (Known /\ AdviceIsNews)'
    BY NextNews
  <1> QED BY <1>1, <1>2, ToolHooksInvariant, PTL DEF Spec

----------------------------------------------------------------------------
(* The pace of the advisories *)

\* The advisories of a key that came up since the last one given are the ones
\* held back, and the first is given at once.
InStep ==
    \A k \in Key :
        IF counters[k] = 0 THEN held[k] = 0 /\ k \notin shown
                           ELSE held[k] = (counters[k] - 1) % Cadence

LEMMA Times ==
    ASSUME NEW d \in Int, NEW c \in Nat \ {0}, d >= 1
    PROVE  d * c >= c
  <1>1. d * c = (d - 1) * c + c
    OBVIOUS
  <1>2. (d - 1) * c >= 0
    OBVIOUS
  <1> QED BY <1>1, <1>2

\* Quotient and remainder are unique.
LEMMA Unique ==
    ASSUME NEW c \in Nat \ {0}, NEW q \in Int, NEW r \in 0..c - 1, NEW s \in Int, NEW t \in 0..c - 1,
           q * c + r = s * c + t
    PROVE  q = s /\ r = t
  <1>1. (q - s) * c = t - r
    OBVIOUS
  <1>2. ~(q - s >= 1)
    BY <1>1, Times
  <1>3. ~(s - q >= 1)
    <2>1. (s - q) * c = r - t
      OBVIOUS
    <2> QED BY <2>1, Times
  <1> QED BY <1>2, <1>3

LEMMA Euclid ==
    ASSUME NEW c \in Nat \ {0}, NEW n \in Int
    PROVE  n % c \in 0..c - 1 /\ n = (n \div c) * c + (n % c) /\ n \div c \in Int
  OBVIOUS

\* The remainders of two successive numbers.
LEMMA Modulus ==
    ASSUME NEW c \in Nat \ {0}, NEW n \in Nat \ {0}
    PROVE  /\ (n - 1) % c \in 0..c - 1
           /\ n % c = 0 => (n - 1) % c = c - 1
           /\ n % c # 0 => ((n - 1) % c) + 1 = n % c
  <1> DEFINE q == n \div c
             r == n % c
             s == (n - 1) \div c
             t == (n - 1) % c
  <1>1. q \in Int /\ r \in 0..c - 1 /\ n = q * c + r
    BY Euclid
  <1>2. s \in Int /\ t \in 0..c - 1 /\ n - 1 = s * c + t
    BY Euclid
  <1> HIDE DEF q, r, s, t
  <1>3. CASE r = 0
    <2> DEFINE u == q - 1
               v == c - 1
    <2>1. u * c + v = s * c + t
      BY <1>1, <1>2, <1>3
    <2>2. u \in Int /\ v \in 0..c - 1
      BY <1>1
    <2> HIDE DEF u, v
    <2>3. t = v
      BY <1>2, <2>1, <2>2, Unique
    <2> QED BY <1>2, <1>3, <2>3 DEF r, t, v
  <1>4. CASE r # 0
    <2>1. q * c + (r - 1) = s * c + t /\ r - 1 \in 0..c - 1
      BY <1>1, <1>2, <1>4
    <2>2. t = r - 1
      BY <1>1, <1>2, <2>1, Unique
    <2> QED BY <1>1, <1>2, <1>4, <2>2 DEF r, t
  <1> QED BY <1>3, <1>4

LEMMA NextPaced ==
    ASSUME Invariant, InStep, AdvisoriesPaced, [Next]_vars
    PROVE  InStep' /\ AdvisoriesPaced'
  <1>0. /\ counters \in [Key -> Nat] /\ held \in [Key -> Nat] /\ gaps \in [Key -> SUBSET Nat]
        /\ Cadence \in Nat \ {0}
    BY CadencePositive, ToolHooksAssumption DEF Invariant, ToolHooksTypeOK
  <1>1. CASE UNCHANGED <<setting, counters, held, shown, gaps>>
    BY <1>1 DEF InStep, AdvisoriesPaced, Cadence
  <1>2. ASSUME NEW p \in Proc, AdvisoryAllowed(p)
        PROVE  InStep' /\ AdvisoriesPaced'
    <2> DEFINE k == KeyOf(call[p])
               emit == counters[k] % Cadence = 0
    <2>1. /\ counters' = [counters EXCEPT ![k] = @ + 1]
          /\ held' = [held EXCEPT ![k] = IF emit THEN 0 ELSE @ + 1]
          /\ shown' = IF emit THEN shown \union {k} ELSE shown
          /\ gaps' = IF emit /\ k \in shown THEN [gaps EXCEPT ![k] = @ \union {held[k]}] ELSE gaps
          /\ setting' = setting
      BY <1>2 DEF AdvisoryAllowed, CountCall
    <2>2. Cadence' = Cadence
      BY <2>1 DEF Cadence
    <2> HIDE DEF k
    <2>3. SUFFICES ASSUME NEW l \in Key
                   PROVE  /\ IF counters'[l] = 0 THEN held'[l] = 0 /\ l \notin shown'
                                                ELSE held'[l] = (counters'[l] - 1) % Cadence
                          /\ held'[l] < Cadence /\ gaps'[l] \subseteq {Cadence - 1}
      BY <2>2 DEF InStep, AdvisoriesPaced
    <2>4. counters[l] \in Nat /\ held[l] \in Nat /\ held[l] < Cadence /\ gaps[l] \subseteq {Cadence - 1}
      BY <1>0 DEF AdvisoriesPaced
    <2>5. IF counters[l] = 0 THEN held[l] = 0 /\ l \notin shown
                             ELSE held[l] = (counters[l] - 1) % Cadence
      BY DEF InStep
    <2>6. CASE l # k
      BY <1>0, <2>1, <2>4, <2>5, <2>6
    <2>7. CASE l = k
      <3>1. counters'[l] = counters[l] + 1 /\ held'[l] = IF emit THEN 0 ELSE held[l] + 1
        BY <1>0, <2>1, <2>7
      <3>2. CASE counters[l] = 0
        <4>1. 0 % Cadence = 0 /\ counters'[l] - 1 = 0 /\ counters'[l] # 0
          BY <1>0, <3>1, <3>2
        <4>2. emit
          BY <2>7, <3>2, <4>1
        <4> QED BY <1>0, <2>1, <2>4, <2>5, <2>7, <3>1, <3>2, <4>1, <4>2
      <3>3. CASE counters[l] # 0
        <4>1. counters[l] \in Nat \ {0} /\ held[l] = (counters[l] - 1) % Cadence
              /\ counters'[l] - 1 = counters[l] /\ counters'[l] # 0
          BY <2>4, <2>5, <3>1, <3>3
        <4>2. /\ counters[l] % Cadence = 0 => held[l] = Cadence - 1
              /\ counters[l] % Cadence # 0 => held[l] + 1 = counters[l] % Cadence
          BY <1>0, <4>1, Modulus
        <4>3. counters[l] % Cadence \in 0..Cadence - 1
          <5>1. \A c \in Nat \ {0}, n \in Int : n % c \in 0..c - 1
            BY Euclid
          <5> QED BY <1>0, <4>1, <5>1
        <4>4. CASE emit
          <5>1. held'[l] = 0 /\ counters[l] % Cadence = 0
            BY <2>7, <3>1, <4>4
          <5>2. gaps'[l] \subseteq {Cadence - 1}
            BY <1>0, <2>1, <2>4, <2>7, <4>2, <4>4, <5>1
          <5> QED BY <1>0, <4>1, <5>1, <5>2
        <4>5. CASE ~emit
          <5>1. held'[l] = held[l] + 1 /\ counters[l] % Cadence # 0 /\ gaps' = gaps
            BY <2>1, <2>7, <3>1, <4>5
          <5>2. held'[l] = counters[l] % Cadence
            BY <4>2, <5>1
          <5> HIDE DEF emit
          <5> QED BY <1>0, <2>4, <4>1, <4>3, <5>1, <5>2
        <4> QED BY <4>4, <4>5
      <3> QED BY <3>2, <3>3
    <2> QED BY <2>6, <2>7
  <1>3. CASE Next
    <2>1. PICK p \in Proc : Quiet(p) \/ Other(p) \/ RecordToolCall(p) \/ AdvisoryAllowed(p)
      BY <1>3, StepCases
    <2>2. CASE ~AdvisoryAllowed(p)
      BY <1>1, <2>1, <2>2 DEF Quiet, Other, RecordToolCall, Gate, RecallReturns,
           RecallTimesOut, CheckCommand, RewriteReturns, RewriteTimesOut, Advise, EndSession, Exit,
           Begin, AdvisoryFails, RecordFails, ClearFails, Killed, Report, Clear, Discard, disk, advice
    <2> QED BY <1>2, <2>2
  <1>4. CASE UNCHANGED vars
    BY <1>1, <1>4 DEF vars, disk, advice
  <1> QED BY <1>3, <1>4

\* Advisories of one key are evenly spaced, whatever hooks count them and in
\* whatever order, for every cadence.
THEOREM AdvisoriesAlwaysPaced == Spec => []AdvisoriesPaced
  <1>1. Init => InStep /\ AdvisoriesPaced
    <2> SUFFICES ASSUME Init PROVE InStep /\ AdvisoriesPaced
      OBVIOUS
    <2>1. Cadence \in Nat \ {0}
      BY InitInvariant, CadencePositive DEF Invariant
    <2> QED BY <2>1 DEF Init, InStep, AdvisoriesPaced
  <1>2. Invariant /\ (InStep /\ AdvisoriesPaced) /\ [Next]_vars => (InStep /\ AdvisoriesPaced)'
    BY NextPaced
  <1> QED BY <1>1, <1>2, ToolHooksInvariant, PTL DEF Spec

----------------------------------------------------------------------------
(* Every call is accounted for *)

\* Before a report, no call of the log has been reported, unless a log outlived
\* its report; between a report and its clearing, those that have not been came
\* after it.
Accounts ==
    /\ \A n \in DOMAIN reported : reported[n] > 0 => n \in recorded
    /\ ~unsettled /\ Reporting = {} => \A n \in Calls : reported[n] = 0
    /\ Reporting # {} => \A n \in Calls : n \in late \/ reported[n] > 0

Ledger == Accounts /\ CallsAccounted

LEMMA InitLedger == Init => Ledger
  BY ToolHooksAssumption DEF Init, Ledger, Accounts, CallsAccounted, Calls, Reporting

\* Steps that change neither the log nor the accounts and take no hook from the
\* reporting ones, or settle nothing when they do.
LEMMA Untouched ==
    ASSUME Invariant, Ledger, UNCHANGED <<recorded, reported, late, discarded>>, Calls' = Calls,
           \/ Reporting' = Reporting /\ unsettled' = unsettled
           \/ Reporting' \subseteq Reporting /\ unsettled'
    PROVE  Ledger'
  BY DEF Ledger, Accounts, CallsAccounted

LEMMA Cleared ==
    ASSUME Invariant, Ledger, UNCHANGED <<recorded, reported, late, unsettled>>, Calls' = {},
           \/ Reporting # {} /\ discarded' = discarded
           \/ discarded' = discarded \union Calls
    PROVE  Ledger'
  BY DEF Ledger, Accounts, CallsAccounted

LEMMA NextLedger ==
    ASSUME Invariant, Ledger, [Next]_vars
    PROVE  Ledger'
  <1> USE DEF Goto, Answer, State
  <1>0. /\ State /\ reported \in [1..MaxHooks -> Nat] /\ unsettled \in BOOLEAN
        /\ Calls \subseteq recorded /\ recorded \subseteq 1..MaxHooks
    BY DEF Invariant, ToolHooksTypeOK, Numbered, State
  <1>1. CASE Next
    <2>1. PICK p \in Proc : Quiet(p) \/ Other(p) \/ RecordToolCall(p) \/ AdvisoryAllowed(p)
      BY <1>1, StepCases
    <2>2. CASE Quiet(p) \/ AdvisoryAllowed(p) \/ AdvisoryFails(p) \/ RecordFails(p)
               \/ \E e \in Event, c \in Call \union {NoCall} : (e # "Stop" => c \in Call) /\ Begin(p, e, c)
      <3>1. UNCHANGED <<recorded, reported, late, discarded, unsettled, log>>
        BY <2>2 DEF Quiet, AdvisoryAllowed, AdvisoryFails, RecordFails, Begin, Gate, RecallReturns,
           RecallTimesOut, CheckCommand, RewriteReturns, RewriteTimesOut, Advise, EndSession, Exit,
           disk, accounts
      <3>2. Reporting' = Reporting
        BY <1>0, <2>2 DEF Quiet, AdvisoryAllowed, AdvisoryFails, RecordFails, Begin, Gate, RecallReturns,
           RecallTimesOut, CheckCommand, RewriteReturns, RewriteTimesOut, Advise, EndSession, Exit,
           Reporting, AfterRecall, Event
      <3>3. Calls' = Calls
        BY <3>1 DEF Calls
      <3> QED BY <3>1, <3>2, <3>3, Untouched
    <2>3. CASE ClearFails(p) \/ Killed(p)
      <3>1. UNCHANGED <<recorded, reported, late, discarded, log>> /\ unsettled' = (unsettled \/ pc[p] = "clear")
        BY <2>3 DEF ClearFails, Killed, disk
      <3>2. Reporting' = Reporting \ {p}
        BY <1>0, <2>3 DEF ClearFails, Killed, Reporting
      <3>3. Calls' = Calls
        BY <3>1 DEF Calls
      <3>4. CASE pc[p] = "clear"
        BY <3>1, <3>2, <3>3, <3>4, Untouched
      <3>5. CASE pc[p] # "clear"
        <4>1. Reporting' = Reporting
          BY <3>2, <3>5 DEF Reporting
        <4> QED BY <1>0, <3>1, <3>3, <3>5, <4>1, Untouched
      <3> QED BY <3>4, <3>5
    <2>4. CASE Clear(p)
      <3>1. UNCHANGED <<recorded, reported, late, discarded, unsettled>> /\ log' = <<>> /\ p \in Reporting
        BY <2>4 DEF Clear, LogCleared, accounts, Reporting
      <3>2. Calls' = {}
        BY <3>1 DEF Calls
      <3> QED BY <3>1, <3>2, Cleared
    <2>5. CASE Discard(p)
      <3>1. UNCHANGED <<recorded, reported, late, unsettled>> /\ log' = <<>>
            /\ discarded' = discarded \union Calls
        BY <2>5 DEF Discard, LogCleared
      <3>2. Calls' = {}
        BY <3>1 DEF Calls
      <3> QED BY <3>1, <3>2, Cleared
    <2>6. CASE Report(p)
      <3>1. /\ UNCHANGED <<recorded, late, discarded, log>>
            /\ unsettled' = (unsettled \/ Reporting # {})
            /\ reported' = [n \in DOMAIN reported |-> IF n \in Calls THEN reported[n] + 1 ELSE reported[n]]
        BY <2>6 DEF Report, disk
      <3>2. p \in Reporting'
        BY <1>0, <2>6 DEF Report, Reporting
      <3>3. Calls' = Calls
        BY <3>1 DEF Calls
      <3>4. \A n \in DOMAIN reported : reported[n] \in Nat
            /\ reported'[n] = IF n \in Calls THEN reported[n] + 1 ELSE reported[n]
        BY <1>0, <3>1
      <3>5. DOMAIN reported' = DOMAIN reported /\ DOMAIN reported = 1..MaxHooks
        BY <1>0, <3>1
      <3>6. Accounts'
        BY <1>0, <3>1, <3>2, <3>3, <3>4, <3>5 DEF Ledger, Accounts
      <3>7. \A n \in recorded' : n \in Calls' \union late' \union discarded' \/ reported'[n] > 0
        BY <1>0, <3>1, <3>3, <3>4, <3>5 DEF Ledger, CallsAccounted
      <3>8. unsettled' \/ \A n \in DOMAIN reported' : reported'[n] < 2
        <4>1. CASE ~unsettled /\ Reporting = {}
          <5>1. \A n \in DOMAIN reported : reported[n] < 2 /\ (n \in Calls => reported[n] = 0)
            BY <4>1, <1>0, <3>5 DEF Ledger, Accounts, CallsAccounted
          <5>2. \A n \in DOMAIN reported : reported'[n] < 2
            BY <5>1, <3>4
          <5> QED BY <5>2, <3>5
        <4>2. CASE unsettled \/ Reporting # {}
          BY <4>2, <3>1
        <4> QED BY <4>1, <4>2, <1>0
      <3> QED BY <3>6, <3>7, <3>8 DEF Ledger, CallsAccounted
    <2>7. CASE RecordToolCall(p)
      <3> DEFINE n == Cardinality(recorded) + 1
      <3>1. /\ Calls' = Calls \union {n} /\ n \notin recorded /\ n \in 1..MaxHooks
            /\ recorded' = recorded \union {n} /\ UNCHANGED <<reported, discarded, unsettled>>
        BY <2>7, RecordStep
      <3>2. late' = IF Reporting # {} THEN late \union {n} ELSE late
        BY <2>7 DEF RecordToolCall
      <3>3. Reporting' = Reporting
        BY <1>0, <2>7 DEF RecordToolCall, Reporting
      <3> HIDE DEF n
      <3>4. reported[n] = 0
        BY <1>0, <3>1 DEF Ledger, Accounts
      <3>5. Accounts'
        BY <3>1, <3>2, <3>3, <3>4 DEF Ledger, Accounts
      <3>6. CallsAccounted'
        BY <3>1, <3>2, <3>3, <3>4 DEF Ledger, CallsAccounted
      <3> QED BY <3>5, <3>6 DEF Ledger
    <2> QED BY <2>1, <2>2, <2>3, <2>4, <2>5, <2>6, <2>7 DEF Other
  <1>2. CASE UNCHANGED vars
    <2>1. Calls' = Calls /\ Reporting' = Reporting
      BY <1>2 DEF vars, disk, locals, Calls, Reporting
    <2> QED BY <1>2, <2>1, Untouched DEF vars, accounts
  <1> QED BY <1>1, <1>2

\* No recorded call is lost to two stops and a late hook, and none is reported
\* twice unless a log outlived its report.
THEOREM CallsAlwaysAccounted == Spec => []CallsAccounted
  <1>1. Invariant /\ Ledger /\ [Next]_vars => Ledger'
    BY NextLedger
  <1> QED BY <1>1, InitLedger, ToolHooksInvariant, PTL DEF Spec, Ledger

----------------------------------------------------------------------------
(* Handoffs *)

\* A document is a list of lines, and no file but those of the repository is
\* modified.
HandoffsTypeOK == doc \in Seq(LineType) /\ modified \subseteq File

\* Bounded sets of lines have a first and a last element.
LEMMA LinesOrdered ==
    ASSUME NEW n \in Nat, NEW P \in SUBSET (0..n), P # {}
    PROVE  (\E m \in P : \A k \in P : k <= m) /\ (\E m \in P : \A k \in P : m <= k)
<1>1. P \in SUBSET Int
  OBVIOUS
<1>2. IsFiniteSet(0..n)
  BY FS_Interval
<1>3. IsFiniteSet(P)
  BY <1>2, FS_Subset
<1> QED
  BY <1>1, <1>3, MaxOf, MinOf

\* The block of a line reaches from the last heading before it to the next.
LEMMA BlockBounds ==
    ASSUME HandoffsTypeOK, NEW i \in DOMAIN doc
    PROVE  /\ i \in 1..Len(doc) /\ Len(doc) \in Nat
           /\ BlockStart(i) \in 1..i /\ BlockEnd(i) \in i..Len(doc)
           /\ \A k \in BlockStart(i) + 1..BlockEnd(i) : doc[k].kind = "step" => k = i
           /\ doc[i].kind = "step" => BlockStart(i) = i
           /\ BlockStart(i) = 1 \/ doc[BlockStart(i)].kind = "step"
           /\ BlockEnd(i) = Len(doc) \/ doc[BlockEnd(i) + 1].kind = "step"
<1> DEFINE before == {k \in 1..i : doc[k].kind = "step"}
           after == {k \in i + 1..Len(doc) : doc[k].kind = "step"}
           n == Len(doc)
<1>1. i \in 1..n /\ n \in Nat
  BY DEF HandoffsTypeOK
<1>2. BlockStart(i) = IF before = {} THEN 1 ELSE CHOOSE k \in before : \A l \in before : l <= k
  BY DEF BlockStart
<1>3. BlockEnd(i) = IF after = {} THEN n ELSE (CHOOSE k \in after : \A l \in after : k <= l) - 1
  BY DEF BlockEnd
<1>4. /\ BlockStart(i) \in 1..i
      /\ \A k \in BlockStart(i) + 1..i : doc[k].kind # "step"
      /\ BlockStart(i) = 1 \/ doc[BlockStart(i)].kind = "step"
      /\ doc[i].kind = "step" => BlockStart(i) = i
  <2>1. CASE before = {}
    BY <2>1, <1>1, <1>2
  <2>2. CASE before # {}
    <3>1. \E m \in before : \A k \in before : k <= m
      <4>1. before \in SUBSET (0..i) /\ i \in Nat
        BY <1>1
      <4> QED
        BY <4>1, <2>2, LinesOrdered
    <3>2. BlockStart(i) \in before /\ \A l \in before : l <= BlockStart(i)
      BY <3>1, <2>2, <1>2
    <3> QED
      BY <3>2, <1>1
  <2> QED
    BY <2>1, <2>2
<1>5. /\ BlockEnd(i) \in i..n
      /\ \A k \in i + 1..BlockEnd(i) : doc[k].kind # "step"
      /\ BlockEnd(i) = n \/ doc[BlockEnd(i) + 1].kind = "step"
  <2>1. CASE after = {}
    BY <2>1, <1>1, <1>3
  <2>2. CASE after # {}
    <3>1. \E m \in after : \A k \in after : m <= k
      <4>1. after \in SUBSET (0..n)
        BY <1>1
      <4> QED
        BY <4>1, <1>1, <2>2, LinesOrdered
    <3>2. PICK m \in after : m = (CHOOSE k \in after : \A l \in after : k <= l) /\ \A l \in after : m <= l
      BY <3>1
    <3>3. BlockEnd(i) = m - 1
      BY <3>2, <2>2, <1>3
    <3>4. m \in i + 1..n /\ doc[m].kind = "step" /\ \A l \in i + 1..n : doc[l].kind = "step" => m <= l
      BY <3>2
    <3>5. BlockEnd(i) + 1 = m /\ BlockEnd(i) \in i..n
      BY <3>3, <3>4, <1>1
    <3> QED
      BY <3>4, <3>5, <1>1
  <2> QED
    BY <2>1, <2>2
<1> QED
  BY <1>1, <1>4, <1>5

\* A line is in the block of an item exactly when no heading parts the two.
LEMMA BlockIsStep ==
    ASSUME HandoffsTypeOK, NEW i \in DOMAIN doc, doc[i].kind # "step", NEW j \in DOMAIN doc
    PROVE  j \in BlockStart(i)..BlockEnd(i) <=> SameStep(i, j)
<1>1. i \in 1..Len(doc) /\ j \in 1..Len(doc) /\ Len(doc) \in Nat
  BY BlockBounds
<1>2. DOMAIN doc = 1..Len(doc)
  BY DEF HandoffsTypeOK
<1> QED
  BY <1>1, <1>2, BlockBounds DEF SameStep, Between

\* The fences before a line in the block of an item are those of its step.
LEMMA FencesBefore ==
    ASSUME HandoffsTypeOK, NEW i \in DOMAIN doc, doc[i].kind # "step",
           NEW k \in BlockStart(i)..BlockEnd(i), doc[k].kind # "fence"
    PROVE  /\ {l \in BlockStart(i)..k : doc[l].kind = "fence"} =
                 {l \in DOMAIN doc : l < k /\ SameStep(l, k) /\ doc[l].kind = "fence"}
           /\ Cardinality({l \in BlockStart(i)..k : doc[l].kind = "fence"}) \in Nat
<1> DEFINE n == Len(doc)
<1>1. /\ i \in 1..n /\ n \in Nat /\ DOMAIN doc = 1..n
      /\ BlockStart(i) \in 1..i /\ BlockEnd(i) \in i..n
  BY BlockBounds DEF HandoffsTypeOK
<1>2. k \in 1..n
  BY <1>1
<1>3. ASSUME NEW l \in 1..n, l < k
      PROVE  l >= BlockStart(i) <=> SameStep(l, k)
  BY <1>1, <1>2, <1>3, BlockBounds DEF SameStep, Between
<1>4. IsFiniteSet({l \in BlockStart(i)..k : doc[l].kind = "fence"})
  <2>1. IsFiniteSet(BlockStart(i)..k)
    BY <1>1, <1>2, FS_Interval
  <2> QED
    BY <2>1, FS_Subset
<1>5. Cardinality({l \in BlockStart(i)..k : doc[l].kind = "fence"}) \in Nat
  BY <1>4, FS_CardinalityType
<1>6. ASSUME NEW l
      PROVE  l \in BlockStart(i)..k /\ doc[l].kind = "fence" <=>
                 l \in DOMAIN doc /\ l < k /\ SameStep(l, k) /\ doc[l].kind = "fence"
  BY <1>1, <1>2, <1>3
<1> QED
  BY <1>5, <1>6

\* The paths found on some lines, without the definitions of PathsIn.
LEMMA PathsOfLines ==
    ASSUME NEW i, NEW j, NEW f
    PROVE  f \in PathsIn(i, j) <=>
             /\ Gated(f)
             /\ \E k \in i..j :
                   /\ doc[k].kind # "fence"
                   /\ \/ f \in doc[k].paths
                      \/ /\ Cardinality({l \in i..k : doc[l].kind = "fence"}) % 2 # 1
                         /\ f \in doc[k].quoted
<1> DEFINE fenced(k) == Cardinality({l \in i..k : doc[l].kind = "fence"}) % 2 = 1
           found(k) == IF doc[k].kind = "fence" THEN {}
                       ELSE doc[k].paths \union IF fenced(k) THEN {} ELSE doc[k].quoted
<1>1. PathsIn(i, j) = {g \in UNION {found(k) : k \in i..j} : Gated(g)}
  BY DEF PathsIn
<1>2. f \in UNION {found(k) : k \in i..j} <=> \E k \in i..j : f \in found(k)
  <2> HIDE DEF found
  <2> QED
    OBVIOUS
<1>3. f \in PathsIn(i, j) <=> Gated(f) /\ \E k \in i..j : f \in found(k)
  <2> HIDE DEF found
  <2> QED
    BY <1>1, <1>2
<1>4. ASSUME NEW k
      PROVE  f \in found(k) <=>
               /\ doc[k].kind # "fence"
               /\ f \in doc[k].paths \/ (~fenced(k) /\ f \in doc[k].quoted)
  OBVIOUS
<1>5. \A k : fenced(k) <=> Cardinality({l \in i..k : doc[l].kind = "fence"}) % 2 = 1
  OBVIOUS
<1> HIDE DEF found, fenced
<1> QED
  BY <1>3, <1>4, <1>5

\* What is found for an item are the paths its step names, and its own.
LEMMA PathsOfItem ==
    ASSUME HandoffsTypeOK, NEW i \in OpenItems, NEW f
    PROVE  f \in ItemPaths(i) <=> Gated(f) /\ \E j \in DOMAIN doc : NamesPath(i, j, f)
<1> DEFINE first == BlockStart(i)  last == BlockEnd(i)
           fences(k) == {l \in first..k : doc[l].kind = "fence"}
           named(k) == /\ doc[k].kind # "fence"
                       /\ f \in doc[k].paths \/ (Cardinality(fences(k)) % 2 # 1 /\ f \in doc[k].quoted)
<1>1. i \in DOMAIN doc /\ doc[i].kind = "open"
  BY DEF OpenItems
<1>2. /\ i \in 1..Len(doc) /\ Len(doc) \in Nat /\ DOMAIN doc = 1..Len(doc)
      /\ first \in 1..i /\ last \in i..Len(doc)
  BY <1>1, BlockBounds DEF HandoffsTypeOK
<1>3. f \in PathsIn(first, last) <=> Gated(f) /\ \E k \in first..last : named(k)
  BY PathsOfLines
<1>4. f \in PathsIn(i, i) <=> Gated(f) /\ (f \in doc[i].paths \/ f \in doc[i].quoted)
  <2>1. {l \in i..i : doc[l].kind = "fence"} = {}
    BY <1>1, <1>2
  <2>2. Cardinality({l \in i..i : doc[l].kind = "fence"}) % 2 # 1
    BY <2>1, FS_EmptySet
  <2>3. i..i = {i}
    BY <1>2
  <2> QED
    BY <2>2, <2>3, <1>1, PathsOfLines
<1>5. ASSUME NEW j \in DOMAIN doc
      PROVE  NamesPath(i, j, f) <=>
               \/ j \in first..last /\ named(j)
               \/ j = i /\ (f \in doc[i].paths \/ f \in doc[i].quoted)
  <2>1. j \in first..last <=> SameStep(i, j)
    BY <1>1, BlockIsStep
  <2>2. i \in first..last
    BY <1>2
  <2>3. ASSUME j \in first..last, doc[j].kind # "fence"
        PROVE  /\ fences(j) = {l \in DOMAIN doc : l < j /\ SameStep(l, j) /\ doc[l].kind = "fence"}
               /\ Cardinality(fences(j)) \in Nat
    BY <2>3, <1>1, FencesBefore
  <2>4. \A c \in Nat : c % 2 # 1 <=> c % 2 = 0
    OBVIOUS
  <2>5. ASSUME j \in first..last, doc[j].kind # "fence"
        PROVE  NamesPath(i, j, f) <=>
                 \/ f \in doc[j].paths
                 \/ f \in doc[j].quoted /\ (i = j \/ Cardinality(fences(j)) % 2 # 1)
    BY <2>1, <2>3, <2>4, <2>5 DEF NamesPath
  <2>6. NamesPath(i, j, f) => j \in first..last /\ doc[j].kind # "fence"
    BY <2>1 DEF NamesPath
  <2> QED
    BY <2>2, <2>5, <2>6, <1>1
<1>6. f \in ItemPaths(i) <=>
        Gated(f) /\ (\/ \E k \in first..last : named(k)
                     \/ f \in doc[i].paths \/ f \in doc[i].quoted)
  BY <1>3, <1>4 DEF ItemPaths
<1>7. first..last \subseteq DOMAIN doc
  BY <1>2
<1> HIDE DEF named, first, last
<1> QED
  BY <1>1, <1>5, <1>6, <1>7

\* check_handoff_staleness warns of exactly the items whose step names a file
\* like one that was modified.
LEMMA StaleItemsRight ==
    ASSUME HandoffsTypeOK
    PROVE  StaleItems = {i \in OpenItems : \E j \in DOMAIN doc, f \in File, m \in modified :
                            NamesPath(i, j, f) /\ Gated(f) /\ <<m, f>> \in Alike}
<1>1. Alike \subseteq File \X File
  BY HandoffsAssumption
<1>2. ASSUME NEW i \in OpenItems
      PROVE  (\E f \in ItemPaths(i), m \in modified : <<m, f>> \in Alike) <=>
             \E j \in DOMAIN doc, f \in File, m \in modified :
                NamesPath(i, j, f) /\ Gated(f) /\ <<m, f>> \in Alike
  BY <1>1, PathsOfItem
<1> QED
  BY <1>2 DEF StaleItems

NoPaste == [start |-> 0, content |-> FALSE, found |-> {}]

\* PasteAfter is what its definition says.  A function that agrees with it on the
\* first lines of the document exists for every number of lines: were there a
\* least number without one, the function for one line less could be extended.
LEMMA PasteUnfolds ==
    ASSUME HandoffsTypeOK
    PROVE  PasteAfter = [i \in 0..Len(doc) |->
                            IF i = 0 THEN NoPaste ELSE PasteLine(PasteAfter[i - 1], i)]
<1> DEFINE n == Len(doc)
           Upto(g, m) == g = [i \in 0..m |-> IF i = 0 THEN NoPaste ELSE PasteLine(g[i - 1], i)]
           bad == {m \in 0..n : ~\E g : Upto(g, m)}
<1>1. n \in Nat
  BY DEF HandoffsTypeOK
<1>2. bad = {}
  <2>1. SUFFICES ASSUME bad # {}
                 PROVE  FALSE
    OBVIOUS
  <2>2. PICK b \in bad : \A k \in bad : b <= k
    <3>1. bad \in SUBSET (0..n)
      OBVIOUS
    <3> HIDE DEF bad
    <3> QED
      BY <2>1, <3>1, <1>1, LinesOrdered
  <2>3. b \in 0..n /\ ~\E g : Upto(g, b)
    OBVIOUS
  <2>4. b # 0
    <3>1. Upto([i \in 0..0 |-> NoPaste], 0)
      BY DEF NoPaste
    <3> QED
      BY <2>3, <3>1
  <2>5. b - 1 \in 0..n /\ b - 1 \notin bad
    BY <2>2, <2>3, <2>4, <1>1
  <2>6. PICK g : Upto(g, b - 1)
    BY <2>5
  <2> DEFINE h == [i \in 0..b |-> IF i = b THEN PasteLine(g[b - 1], b) ELSE g[i]]
  <2>7. h = [i \in 0..b |-> IF i = 0 THEN NoPaste ELSE PasteLine(h[i - 1], i)]
    <3>1. ASSUME NEW i \in 0..b
          PROVE  h[i] = IF i = 0 THEN NoPaste ELSE PasteLine(h[i - 1], i)
      <4>1. CASE i = b
        BY <4>1, <2>3, <2>4
      <4>2. CASE i # b
        <5>1. i \in 0..b - 1 /\ h[i] = g[i]
          BY <4>2, <2>3, <2>4
        <5>2. g[i] = IF i = 0 THEN NoPaste ELSE PasteLine(g[i - 1], i)
          BY <5>1, <2>6
        <5>3. i # 0 => h[i - 1] = g[i - 1]
          BY <4>2, <2>3
        <5> QED
          BY <5>1, <5>2, <5>3
      <4> QED
        BY <4>1, <4>2
    <3>2. h = [i \in 0..b |-> h[i]]
      OBVIOUS
    <3> HIDE DEF h
    <3> QED
      BY <3>1, <3>2
  <2> QED
    BY <2>3, <2>7
<1>3. \E g : Upto(g, n)
  BY <1>1, <1>2
<1> QED
  BY <1>3 DEF PasteAfter, NoPaste

\* Among the first i lines, the start marker k has its end marker, with blanks
\* between the two.
ClosedEmpty(k, i) ==
    /\ k \in 1..i /\ doc[k].kind = "start"
    /\ \E e \in k + 1..i : doc[e].kind = "end" /\ \A l \in k + 1..e - 1 : doc[l].kind = "blank"

\* What the pass over the lines knows after i of them: the start marker that no
\* marker follows yet, whether anything follows it, and the empty ones.
PasteKnown(s, i) ==
    /\ s \in [start : 0..i, content : BOOLEAN, found : SUBSET Nat]
    /\ s.start = 0 => \A k \in 1..i : doc[k].kind = "start" => \E l \in k + 1..i : Marker(l)
    /\ s.start # 0 => doc[s.start].kind = "start" /\ \A l \in s.start + 1..i : ~Marker(l)
    /\ s.content <=> s.start # 0 /\ \E l \in s.start + 1..i : doc[l].kind # "blank"
    /\ \A k : k \in s.found <=> ClosedEmpty(k, i)

\* One more line: only an end marker closes another one.
LEMMA ClosedByNext ==
    ASSUME HandoffsTypeOK, NEW i \in 1..Len(doc), NEW k
    PROVE  ClosedEmpty(k, i) <=>
             \/ ClosedEmpty(k, i - 1)
             \/ /\ doc[i].kind = "end" /\ k \in 1..i - 1 /\ doc[k].kind = "start"
                /\ \A l \in k + 1..i - 1 : doc[l].kind = "blank"
<1>1. i \in Nat /\ i >= 1
  BY DEF HandoffsTypeOK
<1> QED
  BY <1>1 DEF ClosedEmpty

LEMMA PasteStep ==
    ASSUME HandoffsTypeOK, NEW i \in 1..Len(doc), NEW s, PasteKnown(s, i - 1)
    PROVE  PasteKnown(PasteLine(s, i), i)
<1> DEFINE t == PasteLine(s, i)
<1>1. i \in Nat /\ i >= 1 /\ i - 1 \in Nat
  BY DEF HandoffsTypeOK
<1>2. /\ s \in [start : 0..i - 1, content : BOOLEAN, found : SUBSET Nat]
      /\ s.start = 0 => \A k \in 1..i - 1 : doc[k].kind = "start" => \E l \in k + 1..i - 1 : Marker(l)
      /\ s.start # 0 => doc[s.start].kind = "start" /\ \A l \in s.start + 1..i - 1 : ~Marker(l)
      /\ s.content <=> s.start # 0 /\ \E l \in s.start + 1..i - 1 : doc[l].kind # "blank"
      /\ \A k : k \in s.found <=> ClosedEmpty(k, i - 1)
  BY DEF PasteKnown
<1>3. CASE doc[i].kind = "start"
  <2>1. t = [s EXCEPT !.start = i, !.content = FALSE]
    BY <1>3 DEF PasteLine
  <2>2. t = [start |-> i, content |-> FALSE, found |-> s.found]
    BY <2>1, <1>2
  <2>3. t \in [start : 0..i, content : BOOLEAN, found : SUBSET Nat]
    BY <2>2, <1>1, <1>2
  <2>4. \A k : k \in t.found <=> ClosedEmpty(k, i)
    BY <2>2, <1>2, <1>3, ClosedByNext
  <2>5. i + 1..i = {}
    BY <1>1
  <2> QED
    BY <2>2, <2>3, <2>4, <2>5, <1>1, <1>3 DEF PasteKnown
<1>4. CASE doc[i].kind = "end"
  <2>1. t = [start |-> 0, content |-> FALSE, found |-> PasteAtEnd(s)]
    BY <1>4 DEF PasteLine
  <2>2. PasteAtEnd(s) \in SUBSET Nat
    BY <1>1, <1>2 DEF PasteAtEnd
  <2>3. t \in [start : 0..i, content : BOOLEAN, found : SUBSET Nat]
    BY <2>1, <2>2, <1>1
  <2>4. \A k \in 1..i : doc[k].kind = "start" => \E l \in k + 1..i : Marker(l)
    <3>1. TAKE k \in 1..i
    <3>2. HAVE doc[k].kind = "start"
    <3>3. k # i /\ i \in k + 1..i /\ Marker(i)
      BY <3>2, <1>1, <1>4 DEF Marker
    <3> QED
      BY <3>3
  <2>5. ASSUME NEW k
        PROVE  k \in PasteAtEnd(s) <=> ClosedEmpty(k, i)
    <3>1. ClosedEmpty(k, i) <=>
             \/ ClosedEmpty(k, i - 1)
             \/ /\ k \in 1..i - 1 /\ doc[k].kind = "start"
                /\ \A l \in k + 1..i - 1 : doc[l].kind = "blank"
      BY <1>4, ClosedByNext
    <3>2. ASSUME k \in 1..i - 1, doc[k].kind = "start", \A l \in k + 1..i - 1 : doc[l].kind = "blank"
          PROVE  k = s.start /\ ~s.content
      <4>1. \A l \in k + 1..i - 1 : ~Marker(l)
        BY <3>2 DEF Marker
      <4>2. s.start # 0 /\ s.start \in 1..i - 1
        BY <4>1, <3>2, <1>1, <1>2
      <4>3. ~(s.start < k) /\ ~(k < s.start)
        BY <4>1, <4>2, <3>2, <1>1, <1>2 DEF Marker
      <4>4. k = s.start
        BY <4>2, <4>3, <3>2, <1>1
      <4> QED
        BY <4>4, <3>2, <1>2
    <3>3. ASSUME k = s.start, s.start # 0, ~s.content
          PROVE  k \in 1..i - 1 /\ doc[k].kind = "start" /\ \A l \in k + 1..i - 1 : doc[l].kind = "blank"
      BY <3>3, <1>1, <1>2
    <3>4. k \in PasteAtEnd(s) <=> k \in s.found \/ (k = s.start /\ s.start # 0 /\ ~s.content)
      BY DEF PasteAtEnd
    <3>5. s.start = 0 => s.start \notin 1..i - 1
      BY <1>1
    <3> QED
      BY <3>1, <3>2, <3>3, <3>4, <3>5, <1>2
  <2> QED
    BY <2>1, <2>3, <2>4, <2>5 DEF PasteKnown
<1>5. CASE doc[i].kind = "blank"
  <2>1. t = s
    BY <1>5 DEF PasteLine
  <2>2. s \in [start : 0..i, content : BOOLEAN, found : SUBSET Nat]
    BY <1>1, <1>2
  <2>3. \A k : k \in s.found <=> ClosedEmpty(k, i)
    BY <1>2, <1>5, ClosedByNext
  <2>4. s.start = 0 => \A k \in 1..i : doc[k].kind = "start" => \E l \in k + 1..i : Marker(l)
    BY <1>1, <1>2, <1>5
  <2>5. s.start # 0 => doc[s.start].kind = "start" /\ \A l \in s.start + 1..i : ~Marker(l)
    BY <1>1, <1>2, <1>5 DEF Marker
  <2>6. s.content <=> s.start # 0 /\ \E l \in s.start + 1..i : doc[l].kind # "blank"
    BY <1>1, <1>2, <1>5
  <2> QED
    BY <2>1, <2>2, <2>3, <2>4, <2>5, <2>6 DEF PasteKnown
<1>6. CASE doc[i].kind \notin {"start", "end", "blank"}
  <2>1. t = [s EXCEPT !.content = s.content \/ s.start # 0]
    BY <1>6 DEF PasteLine
  <2>2. PICK c \in BOOLEAN : c = (s.content \/ s.start # 0)
    OBVIOUS
  <2>3. t = [start |-> s.start, content |-> c, found |-> s.found]
    BY <2>1, <2>2, <1>2
  <2>4. /\ t \in [start : 0..i, content : BOOLEAN, found : SUBSET Nat]
        /\ t.start = s.start /\ t.found = s.found /\ t.content = c
    BY <2>3, <1>1, <1>2
  <2>5. \A k : k \in t.found <=> ClosedEmpty(k, i)
    BY <2>4, <1>2, <1>6, ClosedByNext
  <2>6. t.start = 0 => \A k \in 1..i : doc[k].kind = "start" => \E l \in k + 1..i : Marker(l)
    BY <2>4, <1>1, <1>2, <1>6
  <2>7. t.start # 0 => doc[t.start].kind = "start" /\ \A l \in t.start + 1..i : ~Marker(l)
    BY <2>4, <1>1, <1>2, <1>6 DEF Marker
  <2>8. c <=> s.start # 0 /\ \E l \in s.start + 1..i : doc[l].kind # "blank"
    <3>1. s.start # 0 => i \in s.start + 1..i
      BY <1>1, <1>2
    <3>2. s.content => s.start # 0
      BY <1>2
    <3>3. c <=> s.start # 0
      BY <3>2, <2>2
    <3> QED
      BY <3>1, <3>3, <1>6
  <2>9. t.content <=> t.start # 0 /\ \E l \in t.start + 1..i : doc[l].kind # "blank"
    BY <2>4, <2>8, Zenon
  <2>10. t \in [start : 0..i, content : BOOLEAN, found : SUBSET Nat]
    BY <2>4
  <2>11. PasteKnown(t, i)
    <3> HIDE DEF t
    <3> QED
      BY <2>5, <2>6, <2>7, <2>9, <2>10 DEF PasteKnown
  <2> QED
    BY <2>11
<1> QED
  BY <1>3, <1>4, <1>5, <1>6

\* After every line the pass knows what PasteKnown says: the first line after
\* which it did not would contradict PasteStep.
LEMMA PasteKnownAfter ==
    ASSUME HandoffsTypeOK
    PROVE  \A i \in 0..Len(doc) : PasteKnown(PasteAfter[i], i)
<1> DEFINE n == Len(doc)
           bad == {i \in 0..n : ~PasteKnown(PasteAfter[i], i)}
<1>1. n \in Nat
  BY DEF HandoffsTypeOK
<1>2. /\ PasteAfter[0] = NoPaste
      /\ \A i \in 1..n : PasteAfter[i] = PasteLine(PasteAfter[i - 1], i)
  <2> DEFINE next(i) == IF i = 0 THEN NoPaste ELSE PasteLine(PasteAfter[i - 1], i)
  <2>1. PasteAfter = [i \in 0..n |-> next(i)]
    BY PasteUnfolds
  <2> HIDE DEF next
  <2>2. \A i \in 0..n : PasteAfter[i] = next(i)
    BY <2>1
  <2> USE DEF next
  <2> QED
    BY <2>2, <1>1
<1>3. SUFFICES ASSUME bad # {}
               PROVE  FALSE
  OBVIOUS
<1>4. PICK b \in bad : \A k \in bad : b <= k
  <2>1. bad \in SUBSET (0..n)
    OBVIOUS
  <2> HIDE DEF bad
  <2> QED
    BY <1>3, <2>1, <1>1, LinesOrdered
<1>5. b \in 0..n /\ ~PasteKnown(PasteAfter[b], b)
  OBVIOUS
<1>6. b # 0
  <2>1. PasteKnown(NoPaste, 0)
    BY DEF PasteKnown, NoPaste, ClosedEmpty
  <2> QED
    BY <2>1, <1>2, <1>5
<1>7. b \in 1..n /\ b - 1 \in 0..n /\ b - 1 \notin bad
  BY <1>1, <1>4, <1>5, <1>6
<1>8. PasteKnown(PasteAfter[b - 1], b - 1)
  BY <1>7
<1> QED
  BY <1>2, <1>5, <1>7, <1>8, PasteStep

\* find_empty_paste_markers reports exactly the start markers that only blanks part
\* from their end marker or from the end of the document.
LEMMA EmptyMarkersRight ==
    ASSUME HandoffsTypeOK, NEW i \in DOMAIN doc
    PROVE  i \in EmptyPasteMarkers <=>
             /\ doc[i].kind = "start"
             /\ \A k \in i + 1..Len(doc) :
                   (\A l \in i + 1..k - 1 : ~Marker(l)) => doc[k].kind \in {"blank", "end"}
<1> DEFINE n == Len(doc)
           s == PasteAfter[n]
           right == \A k \in i + 1..n : (\A l \in i + 1..k - 1 : ~Marker(l)) => doc[k].kind \in {"blank", "end"}
<1>1. n \in Nat /\ i \in 1..n
  BY DEF HandoffsTypeOK
<1>2. PasteKnown(s, n)
  BY <1>1, PasteKnownAfter
<1> HIDE DEF s
<1>3. /\ s.start \in 0..n
      /\ s.start = 0 => \A k \in 1..n : doc[k].kind = "start" => \E l \in k + 1..n : Marker(l)
      /\ s.start # 0 => doc[s.start].kind = "start" /\ \A l \in s.start + 1..n : ~Marker(l)
      /\ s.content <=> s.start # 0 /\ \E l \in s.start + 1..n : doc[l].kind # "blank"
      /\ \A k : k \in s.found <=> ClosedEmpty(k, n)
  BY <1>2 DEF PasteKnown
<1>4. i \in EmptyPasteMarkers <=> i \in s.found \/ (i = s.start /\ s.start # 0 /\ ~s.content)
  BY DEF EmptyPasteMarkers, PasteAtEnd, s
<1>5. i \in EmptyPasteMarkers => doc[i].kind = "start"
  BY <1>1, <1>3, <1>4 DEF ClosedEmpty
<1>6. ASSUME doc[i].kind = "start", \A l \in i + 1..n : ~Marker(l)
      PROVE  i \in EmptyPasteMarkers <=> right
  <2>1. i = s.start /\ s.start # 0
    BY <1>1, <1>3, <1>6 DEF Marker
  <2>2. i \notin s.found
    BY <1>3, <1>6 DEF ClosedEmpty, Marker
  <2>3. right <=> \A l \in i + 1..n : doc[l].kind = "blank"
    BY <1>1, <1>6 DEF Marker
  <2>4. s.content <=> \E l \in i + 1..n : doc[l].kind # "blank"
    BY <2>1, <1>3
  <2> HIDE DEF right
  <2> QED
    BY <2>1, <2>2, <2>3, <2>4, <1>4
<1>7. ASSUME doc[i].kind = "start", \E l \in i + 1..n : Marker(l)
      PROVE  i \in EmptyPasteMarkers <=> right
  <2> DEFINE marks == {l \in i + 1..n : Marker(l)}
  <2>1. PICK e \in marks : \A l \in marks : e <= l
    <3>1. marks \in SUBSET (0..n) /\ marks # {}
      BY <1>1, <1>7
    <3> HIDE DEF marks
    <3> QED
      BY <3>1, <1>1, LinesOrdered
  <2>2. e \in i + 1..n /\ Marker(e) /\ \A l \in i + 1..e - 1 : ~Marker(l)
    BY <2>1, <1>1
  <2>3. i # s.start
    BY <1>3, <1>7, <1>1
  <2>4. ClosedEmpty(i, n) <=> doc[e].kind = "end" /\ \A l \in i + 1..e - 1 : doc[l].kind = "blank"
    <3>1. ASSUME NEW d \in i + 1..n, doc[d].kind = "end", \A l \in i + 1..d - 1 : doc[l].kind = "blank"
          PROVE  d = e
      <4>1. ~(e < d)
        BY <3>1, <2>2, <1>1 DEF Marker
      <4>2. ~(d < e)
        BY <3>1, <2>2, <1>1 DEF Marker
      <4> QED
        BY <4>1, <4>2, <3>1, <2>2, <1>1
    <3> QED
      BY <3>1, <2>2, <1>1, <1>7 DEF ClosedEmpty
  <2>5. right => doc[e].kind = "end" /\ \A l \in i + 1..e - 1 : doc[l].kind = "blank"
    <3>1. SUFFICES ASSUME right
                   PROVE  doc[e].kind = "end" /\ \A l \in i + 1..e - 1 : doc[l].kind = "blank"
      OBVIOUS
    <3>2. doc[e].kind \in {"blank", "end"}
      BY <3>1, <2>2
    <3>3. ASSUME NEW l \in i + 1..e - 1
          PROVE  doc[l].kind = "blank"
      <4>1. l \in i + 1..n /\ \A m \in i + 1..l - 1 : ~Marker(m)
        BY <2>2, <1>1
      <4>2. doc[l].kind \in {"blank", "end"} /\ ~Marker(l)
        BY <4>1, <3>1, <2>2
      <4> QED
        BY <4>2 DEF Marker
    <3> QED
      BY <3>2, <3>3, <2>2 DEF Marker
  <2>6. ASSUME doc[e].kind = "end", \A l \in i + 1..e - 1 : doc[l].kind = "blank"
        PROVE  right
    <3>1. SUFFICES ASSUME NEW k \in i + 1..n, \A l \in i + 1..k - 1 : ~Marker(l)
                   PROVE  doc[k].kind \in {"blank", "end"}
      OBVIOUS
    <3>2. k <= e
      BY <3>1, <2>2, <1>1
    <3> QED
      BY <3>1, <3>2, <2>2, <2>6, <1>1
  <2> HIDE DEF right
  <2> QED
    BY <2>3, <2>4, <2>5, <2>6, <1>3, <1>4
<1> HIDE DEF right
<1>8. i \in EmptyPasteMarkers <=> doc[i].kind = "start" /\ right
  BY <1>5, <1>6, <1>7
<1> QED
  BY <1>8 DEF right

\* What the last hook said was so when it said it, and still is: whoever changes
\* what it rests on begins anew.
Said ==
    /\ said.of = "audit" /\ said.denied => holding \intersect present # {}
    /\ said.of = "commit" /\ said.denied =>
          edited /\ \E i \in DOMAIN doc : doc[i].kind = "unclear"

HandoffsInv == HandoffsTypeOK /\ Said

LEMMA HandoffsInitInv ==
    ASSUME HandoffsInit
    PROVE  HandoffsInv
  BY DEF HandoffsInit, HandoffsInv, HandoffsTypeOK, Said, Silence

\* The agent extends the document, checks items and changes files.
LEMMA HandoffsTypeStep ==
    ASSUME HandoffsTypeOK, [HandoffsNext]_handoffVars
    PROVE  HandoffsTypeOK'
<1>1. ASSUME NEW line \in Line, WriteLine(line)
      PROVE  HandoffsTypeOK'
  BY <1>1, HandoffsAssumption DEF WriteLine, HandoffsTypeOK
<1>2. ASSUME NEW i \in DOMAIN doc, CheckItem(i)
      PROVE  HandoffsTypeOK'
  <2>1. i \in 1..Len(doc) /\ doc[i] \in LineType
    BY DEF HandoffsTypeOK
  <2>2. [doc[i] EXCEPT !.kind = "done"] \in LineType
    BY <2>1 DEF LineType, LineKind
  <2>3. doc' = [doc EXCEPT ![i] = [doc[i] EXCEPT !.kind = "done"]]
    BY <1>2 DEF CheckItem
  <2> QED
    BY <2>1, <2>2, <2>3, <1>2 DEF CheckItem, HandoffsTypeOK
<1>3. ASSUME NEW f \in Changing, ChangeFile(f)
      PROVE  HandoffsTypeOK'
  BY <1>3, HandoffsAssumption DEF ChangeFile, HandoffsTypeOK
<1>4. ASSUME NEW block \in BOOLEAN, CommitLint(block)
      PROVE  HandoffsTypeOK'
  BY <1>4 DEF CommitLint, HandoffsTypeOK
<1>5. CASE StopChecks
  BY <1>5 DEF StopChecks, HandoffsTypeOK
<1>6. CASE AuditHandoff
  BY <1>6 DEF AuditHandoff, HandoffsTypeOK
<1>7. CASE UNCHANGED handoffVars
  BY <1>7 DEF handoffVars, HandoffsTypeOK
<1> QED
  BY <1>1, <1>2, <1>3, <1>4, <1>5, <1>6, <1>7 DEF HandoffsNext

\* An audit that flags the document has found terms of an item in a file.
LEMMA AuditBorneOut ==
    ASSUME HandoffsTypeOK, IsStale
    PROVE  holding \intersect present # {}
<1>1. LikelyImplemented # {}
  <2>1. SUFFICES ASSUME LikelyImplemented = {}
                 PROVE  FALSE
    OBVIOUS
  <2>2. Cardinality(LikelyImplemented) = 0
    BY <2>1, FS_EmptySet
  <2>3. Len(doc) \in Nat /\ OpenItems \subseteq 1..Len(doc)
    BY DEF HandoffsTypeOK, OpenItems
  <2>4. IsFiniteSet(1..Len(doc))
    BY <2>3, FS_Interval
  <2>5. IsFiniteSet(OpenItems)
    BY <2>3, <2>4, FS_Subset
  <2>6. Cardinality(OpenItems) \in Nat
    BY <2>5, FS_CardinalityType
  <2> QED
    BY <2>2, <2>6 DEF IsStale
<1>2. PICK i \in OpenItems : ExplicitMatch(i)
  BY <1>1 DEF LikelyImplemented
<1> QED
  BY <1>2 DEF ExplicitMatch

\* Every step says something new, or changes nothing.
LEMMA SaidStep ==
    ASSUME HandoffsInv, [HandoffsNext]_handoffVars
    PROVE  Said'
<1>1. Silence.of = "none"
  BY DEF Silence
<1>2. ASSUME NEW line \in Line, WriteLine(line)
      PROVE  Said'
  BY <1>1, <1>2 DEF WriteLine, Said
<1>3. ASSUME NEW i \in DOMAIN doc, CheckItem(i)
      PROVE  Said'
  BY <1>1, <1>3 DEF CheckItem, Said
<1>4. ASSUME NEW f \in Changing, ChangeFile(f)
      PROVE  Said'
  BY <1>1, <1>4 DEF ChangeFile, Said
<1>5. ASSUME NEW block \in BOOLEAN, CommitLint(block)
      PROVE  Said'
  <2>1. CASE ~edited
    <3>1. said' = [of |-> "commit", stale |-> {}, open |-> {}, empty |-> {}, denied |-> FALSE]
      BY <2>1, <1>5 DEF CommitLint, SessionHandoff, Silence
    <3> QED
      BY <3>1 DEF Said
  <2>2. CASE edited
    <3>1. said'.of = "commit" /\ said'.denied = (block /\ ClarificationMarkers # {})
      BY <2>2, <1>5 DEF CommitLint, SessionHandoff
    <3>2. doc' = doc /\ edited'
      BY <2>2, <1>5 DEF CommitLint
    <3> QED
      BY <3>1, <3>2 DEF Said, ClarificationMarkers
  <2> QED
    BY <2>1, <2>2
<1>6. CASE StopChecks
  <2>1. said'.of = "stop"
    BY <1>6 DEF StopChecks
  <2> QED
    BY <2>1 DEF Said
<1>7. CASE AuditHandoff
  <2>1. said'.of = "audit" /\ said'.denied = IsStale /\ holding' = holding /\ present' = present
    BY <1>7 DEF AuditHandoff
  <2>2. IsStale => holding \intersect present # {}
    BY AuditBorneOut DEF HandoffsInv
  <2> QED
    BY <2>1, <2>2 DEF Said
<1>8. CASE UNCHANGED handoffVars
  BY <1>8 DEF handoffVars, HandoffsInv, Said
<1> QED
  BY <1>2, <1>3, <1>4, <1>5, <1>6, <1>7, <1>8 DEF HandoffsNext

\* HandoffsInv holds of every handoff, whatever lines are written into it.
THEOREM HandoffsInvariant == HandoffsSpec => []HandoffsInv
<1>1. HandoffsInit => HandoffsInv
  BY HandoffsInitInv
<1>2. HandoffsInv /\ [HandoffsNext]_handoffVars => HandoffsInv'
  BY HandoffsTypeStep, SaidStep DEF HandoffsInv
<1> QED
  BY <1>1, <1>2, PTL DEF HandoffsSpec

\* What the hooks tell of a handoff is so (handoff_lint.rs:71, stop.rs:368,
\* handoff_audit.rs:75, pre_commit.rs:14), for documents of any length.
THEOREM HandoffsAlwaysReadRight == HandoffsSpec => []HandoffsReadRight
<1>1. HandoffsInv => HandoffsReadRight
  <2>1. SUFFICES ASSUME HandoffsInv
                 PROVE  HandoffsReadRight
    OBVIOUS
  <2>2. HandoffsTypeOK /\ Said
    BY <2>1 DEF HandoffsInv
  <2>3. StaleItems = {i \in OpenItems : \E j \in DOMAIN doc, f \in File, m \in modified :
                        NamesPath(i, j, f) /\ Gated(f) /\ <<m, f>> \in Alike}
    BY <2>2, StaleItemsRight
  <2>4. \A i \in DOMAIN doc : i \in EmptyPasteMarkers <=>
          /\ doc[i].kind = "start"
          /\ \A k \in i + 1..Len(doc) :
                (\A l \in i + 1..k - 1 : ~Marker(l)) => doc[k].kind \in {"blank", "end"}
    BY <2>2, EmptyMarkersRight
  <2> QED
    BY <2>2, <2>3, <2>4 DEF HandoffsReadRight, Said
<1> QED
  BY <1>1, HandoffsInvariant, PTL
=============================================================================
