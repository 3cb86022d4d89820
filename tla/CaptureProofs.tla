---------------------------- MODULE CaptureProofs ----------------------------
(***************************************************************************)
(* Proofs about Capture, for any number of hook processes, any prompts and *)
(* any caps.                                                               *)
(***************************************************************************)
EXTENDS Capture, FiniteSetTheorems, TLAPS

\* What the properties leave open of the types.
Types ==
    /\ \E S : captures \in [Kinds -> Seq(S)]
    /\ outcomes \in Seq(OutcomeKind)
    /\ event = [p \in Proc |-> event[p]]
    /\ content = [p \in Proc |-> content[p]]
    /\ prior \in [Proc -> Seq(OutcomeKind)]
    /\ saw \in [Proc -> Nat]
    /\ marker # None => compactions > 0
    /\ compactions \in Nat
    /\ \A f \in flight : f.by \in Proc \union {None}
    /\ \A p \in Proc : pc[p] = "compacted" => event[p].session \in Session
    /\ \A p \in post : pc[p] \notin {"idle", "check"}

Invariant == Types /\ CaptureTypeOK

LEMMA InitInvariant == Init => Invariant
  <1> SUFFICES ASSUME Init PROVE Invariant
    OBVIOUS
  <1>1. Types
    <2>1. captures \in [Kinds -> Seq({})]
      BY DEF Init
    <2>2. outcomes \in Seq(OutcomeKind) /\ prior \in [Proc -> Seq(OutcomeKind)]
      BY DEF Init
    <2>3. event \in [Proc -> {None}] /\ content \in [Proc -> {None}] /\ saw \in [Proc -> Nat]
      BY DEF Init
    <2> QED BY <2>1, <2>2, <2>3 DEF Init, Types
  <1>2. CaptureTypeOK
    <2>1. \A k \in Kinds : Len(captures[k]) = 0
      BY DEF Init
    <2>2. Len(outcomes) = 0 /\ ToSet(outcomes) = {}
      BY DEF Init, ToSet
    <2>3. pc \in [Proc -> Phase] /\ \A p \in Proc : saw[p] = 0 /\ pc[p] = "idle"
      BY DEF Init, Phase
    <2> QED BY <2>1, <2>2, <2>3, CaptureAssumption DEF Init, CaptureTypeOK, Kinds
  <1> QED BY <1>1, <1>2 DEF Invariant

----------------------------------------------------------------------------
(* What the helpers do to the lists *)

LEMMA PushType ==
    ASSUME NEW kind \in Kinds, NEW c, Push(kind, c),
           \E S : captures \in [Kinds -> Seq(S)],
           \A k \in Kinds : Len(captures[k]) <= Cap[k]
    PROVE  /\ \E S : captures' \in [Kinds -> Seq(S)]
           /\ \A k \in Kinds : Len(captures'[k]) <= Cap[k]
           /\ \A k \in Kinds \ {kind} : captures'[k] = captures[k]
           /\ ToSet(captures'[kind]) \subseteq ToSet(captures[kind]) \union {c}
  <1> DEFINE all == Append(captures[kind], c)
  <1>1. PICK S : captures \in [Kinds -> Seq(S)]
    OBVIOUS
  <1>2. all \in Seq(S \union {c}) /\ Len(all) = Len(captures[kind]) + 1 /\ Len(captures[kind]) \in Nat
    BY <1>1
  <1>3. Tail(all) \in Seq(S \union {c}) /\ Len(Tail(all)) = Len(all) - 1
    BY <1>2
  <1>4. captures' = [captures EXCEPT ![kind] = IF Len(all) > Cap[kind] THEN Tail(all) ELSE all]
    BY DEF Push
  <1>5. Cap[kind] \in Nat \ {0}
    BY CaptureAssumption
  <1>6. captures' \in [Kinds -> Seq(S \union {c})]
    <2>1. \A k \in Kinds : captures[k] \in Seq(S \union {c})
      BY <1>1
    <2> HIDE DEF all
    <2> QED BY <1>1, <1>2, <1>3, <1>4, <2>1
  <1>7. captures'[kind] = IF Len(all) > Cap[kind] THEN Tail(all) ELSE all
    BY <1>1, <1>4
  <1>8. \A k \in Kinds \ {kind} : captures'[k] = captures[k]
    BY <1>1, <1>4
  <1>9. \A k \in Kinds : Len(captures'[k]) <= Cap[k]
    <2>1. Len(captures'[kind]) <= Cap[kind]
      <3> HIDE DEF all
      <3> QED BY <1>2, <1>3, <1>5, <1>7
    <2> QED BY <1>8, <2>1
  <1>10. ToSet(all) = ToSet(captures[kind]) \union {c}
    <2>1. DOMAIN all = DOMAIN captures[kind] \union {Len(captures[kind]) + 1}
      BY <1>1, <1>2
    <2>2. \A i \in DOMAIN captures[kind] : all[i] = captures[kind][i]
      BY <1>1
    <2>3. all[Len(captures[kind]) + 1] = c
      BY <1>1
    <2> HIDE DEF all
    <2> QED BY <2>1, <2>2, <2>3 DEF ToSet
  <1>11. ToSet(Tail(all)) \subseteq ToSet(all)
    <2>1. \A i \in DOMAIN Tail(all) : i + 1 \in DOMAIN all /\ Tail(all)[i] = all[i + 1]
      BY <1>2, <1>3
    <2> HIDE DEF all
    <2> QED BY <2>1 DEF ToSet
  <1> QED BY <1>6, <1>7, <1>8, <1>9, <1>10, <1>11

LEMMA OutcomesType ==
    ASSUME NEW kind \in OutcomeKind, RecordOutcome(kind), outcomes \in Seq(OutcomeKind),
           Len(outcomes) <= MaxOutcomes
    PROVE  outcomes' \in Seq(OutcomeKind) /\ Len(outcomes') <= MaxOutcomes
  <1> DEFINE all == Append(outcomes, kind)
  <1>1. CASE outcomes' = outcomes
    BY <1>1
  <1>2. CASE outcomes' = CappedOutcomes(all)
    <2>1. all \in Seq(OutcomeKind) /\ Len(all) \in Nat
      OBVIOUS
    <2>2. CASE Len(all) > MaxOutcomes
      <3>1. outcomes' = SubSeq(all, Len(all) - MaxOutcomes + 1, Len(all))
        BY <1>2, <2>2 DEF CappedOutcomes
      <3>2. Len(all) - MaxOutcomes + 1 \in 1..Len(all) + 1
        BY <2>1, <2>2, CaptureAssumption
      <3> HIDE DEF all
      <3>3. \A m \in 1..Len(all) + 1 : SubSeq(all, m, Len(all)) \in Seq(OutcomeKind)
                                       /\ Len(SubSeq(all, m, Len(all))) = Len(all) - m + 1
        BY <2>1
      <3> QED BY <2>1, <3>1, <3>2, <3>3, CaptureAssumption
    <2>3. CASE ~(Len(all) > MaxOutcomes)
      <3>1. outcomes' = all
        BY <1>2, <2>3 DEF CappedOutcomes
      <3> HIDE DEF all
      <3> QED BY <2>1, <2>3, <3>1, CaptureAssumption
    <2> QED BY <2>2, <2>3
  <1> QED BY <1>1, <1>2 DEF RecordOutcome

LEMMA OutcomesKnown == ASSUME outcomes \in Seq(OutcomeKind) PROVE ToSet(outcomes) \subseteq OutcomeKind
  BY DEF ToSet

----------------------------------------------------------------------------
(* Types *)

\* What a step does to the lists of captures and of outcomes, kind by kind.
Pushes ==
    \/ UNCHANGED captures
    \/ \E kind \in Kinds, c \in {event[p] : p \in Proc} \union {content[p] : p \in Proc} : Push(kind, c)

Records == UNCHANGED outcomes \/ \E kind \in OutcomeKind : RecordOutcome(kind)

Begins(p) ==
    (\E s \in Session : Compact(p, s)) \/ (\E s \in Session, t \in Prompt : Submit(p, s, t))

Fails(p) == ConsumeFails(p) \/ RecallFails(p) \/ UpdateFails(p) \/ Crash(p)

Others == OtherHook \/ Deliver \/ Refuse

\* What every step keeps to.
LEMMA ListsStep ==
    ASSUME Invariant, [Next]_vars
    PROVE  /\ \E S : captures' \in [Kinds -> Seq(S)]
           /\ \A k \in Kinds : Len(captures'[k]) <= Cap[k]
           /\ outcomes' \in Seq(OutcomeKind) /\ Len(outcomes') <= MaxOutcomes
           /\ ToSet(outcomes') \subseteq OutcomeKind
  <1>1. Pushes
    <2>1. CASE UNCHANGED vars
      BY <2>1 DEF vars, disk, Pushes
    <2>2. CASE Others
      BY <2>2 DEF Others, OtherHook, Deliver, Refuse, disk, Pushes
    <2>3. ASSUME NEW p \in Proc, Begins(p) \/ Hook(p) \/ Fails(p) PROVE Pushes
      <3>1. CASE RememberPrompt(p) \/ RememberCouncil(p) \/ RememberSnapshot(p)
        BY <3>1 DEF RememberPrompt, RememberCouncil, RememberSnapshot, Pushes, Kinds
      <3>2. CASE ~(RememberPrompt(p) \/ RememberCouncil(p) \/ RememberSnapshot(p))
        BY <2>3, <3>2 DEF Pushes, Begins, Fails, Hook, PromptHook, CompactHook, Submit, Compact, disk,
           NoRecall, CheckMarker, Consume, Recall, StorePrompt, StoreCouncil, RecordPrompt, Gather,
           Tally, LoadPrior, StoreSnapshot, RecordMarker, Extract, Return, WriteMarker, ConsumeFails,
           RecallFails, UpdateFails, Crash
      <3> QED BY <3>1, <3>2
    <2> QED BY <2>1, <2>2, <2>3 DEF Next, Others, Begins, Fails
  <1>2. Records
    <2>1. CASE UNCHANGED vars
      BY <2>1 DEF vars, disk, Records
    <2>2. CASE Others
      BY <2>2 DEF Others, OtherHook, Deliver, Refuse, disk, Records, OutcomeKind
    <2>3. ASSUME NEW p \in Proc, Begins(p) \/ Hook(p) \/ Fails(p) PROVE Records
      <3>1. CASE RecordPrompt(p) \/ RecordMarker(p)
        BY <3>1 DEF RecordPrompt, RecordMarker, Records, OutcomeKind
      <3>2. CASE ~(RecordPrompt(p) \/ RecordMarker(p))
        BY <2>3, <3>2 DEF Records, Begins, Fails, Hook, PromptHook, CompactHook, Submit, Compact, disk,
           NoRecall, CheckMarker, Consume, Recall, RememberPrompt, StorePrompt, RememberCouncil,
           StoreCouncil, Gather, Tally, RememberSnapshot, LoadPrior, StoreSnapshot, Extract, Return,
           WriteMarker, ConsumeFails, RecallFails, UpdateFails, Crash
      <3> QED BY <3>1, <3>2
    <2> QED BY <2>1, <2>2, <2>3 DEF Next, Others, Begins, Fails
  <1>3. (\E S : captures' \in [Kinds -> Seq(S)]) /\ \A k \in Kinds : Len(captures'[k]) <= Cap[k]
    <2>1. CASE UNCHANGED captures
      BY <2>1 DEF Invariant, Types, CaptureTypeOK
    <2>2. CASE ~UNCHANGED captures
      <3>1. PICK kind \in Kinds, c \in {event[p] : p \in Proc} \union {content[p] : p \in Proc} : Push(kind, c)
        BY <1>1, <2>2 DEF Pushes
      <3>2. (\E S : captures \in [Kinds -> Seq(S)]) /\ \A k \in Kinds : Len(captures[k]) <= Cap[k]
        BY DEF Invariant, Types, CaptureTypeOK
      <3> QED BY <3>1, <3>2, PushType
    <2> QED BY <2>1, <2>2
  <1>4. outcomes' \in Seq(OutcomeKind) /\ Len(outcomes') <= MaxOutcomes
    BY <1>2, OutcomesType DEF Records, Invariant, Types, CaptureTypeOK
  <1>5. ToSet(outcomes') \subseteq OutcomeKind
    BY <1>4 DEF ToSet
  <1> QED BY <1>3, <1>4, <1>5

\* The types of everything else.
Rest ==
    /\ event = [p \in Proc |-> event[p]]
    /\ content = [p \in Proc |-> content[p]]
    /\ prior \in [Proc -> Seq(OutcomeKind)]
    /\ saw \in [Proc -> Nat]
    /\ compactions \in Nat
    /\ \A f \in flight : f.by \in Proc \union {None}
    /\ \A p \in Proc : pc[p] = "compacted" => event[p].session \in Session
    /\ \A p \in post : pc[p] \notin {"idle", "check"}
    /\ work \in Work
    /\ marker # None => compactions > 0 /\ marker.n = compactions /\ marker.session \in Session
    /\ pc \in [Proc -> Phase]
    /\ \A p \in Proc : saw[p] \in 0..compactions /\ (pc[p] = "consume" => saw[p] > 0)
    /\ post \subseteq {p \in Proc : saw[p] > 0}
    /\ answered \in 0..compactions /\ consumed \subseteq 1..compactions
    /\ \A f \in flight : f.by = None \/ (socket /\ pc[f.by] # "idle")
    /\ hooks \in 0..MaxHooks /\ faults \in 0..MaxFaults /\ changes \in 0..MaxWork

\* The hook of p is over.
LEMMA ExitRest ==
    ASSUME Rest, NEW p \in Proc, NEW unsent, Ends(p, unsent), UNCHANGED socket
    PROVE  /\ event' = [q \in Proc |-> event'[q]]
           /\ content' = [q \in Proc |-> content'[q]]
           /\ prior' \in [Proc -> Seq(OutcomeKind)]
           /\ saw' \in [Proc -> Nat]
           /\ pc' \in [Proc -> Phase]
           /\ \A q \in Proc : pc'[q] = "compacted" => event'[q].session \in Session
           /\ \A q \in post' : pc'[q] \notin {"idle", "check"}
           /\ \A q \in Proc : saw'[q] \in 0..compactions /\ (pc'[q] = "consume" => saw'[q] > 0)
           /\ post' \subseteq {q \in Proc : saw'[q] > 0}
           /\ \A f \in flight' : f.by \in Proc \union {None}
           /\ \A f \in flight' : f.by = None \/ (socket' /\ pc'[f.by] # "idle")
  <1> USE DEF Rest, Ends, Released, Goto
  <1>1. /\ event' = [q \in Proc |-> event'[q]] /\ content' = [q \in Proc |-> content'[q]]
        /\ prior' \in [Proc -> Seq(OutcomeKind)] /\ saw' \in [Proc -> Nat]
    <2>1. <<>> \in Seq(OutcomeKind)
      OBVIOUS
    <2> QED BY <2>1
  <1>2. pc' \in [Proc -> Phase]
    BY DEF Phase
  <1>3. \A q \in Proc : q # p => pc'[q] = pc[q] /\ event'[q] = event[q] /\ saw'[q] = saw[q]
    OBVIOUS
  <1>4. pc'[p] = "idle" /\ saw'[p] = 0
    OBVIOUS
  <1>5. \A q \in Proc : pc'[q] = "compacted" => event'[q].session \in Session
    BY <1>3, <1>4
  <1>6. \A q \in Proc : saw'[q] \in 0..compactions /\ (pc'[q] = "consume" => saw'[q] > 0)
    BY <1>3, <1>4
  <1>7. post' \subseteq {q \in Proc : saw'[q] > 0} /\ \A q \in post' : pc'[q] \notin {"idle", "check"}
    BY <1>3, <1>4
  <1>8. \A f \in flight' : f \in flight /\ f.by # p /\ f.by \in Proc \union {None}
    OBVIOUS
  <1>9. \A f \in flight' : f.by = None \/ (socket' /\ pc'[f.by] # "idle")
    BY <1>3, <1>8
  <1> QED BY <1>1, <1>2, <1>5, <1>6, <1>7, <1>8, <1>9

LEMMA ExitStep ==
    ASSUME Rest, NEW p \in Proc, NEW unsent, Ends(p, unsent), UNCHANGED <<socket, work, marker, markers, hooks, changes>>,
           faults' \in 0..MaxFaults
    PROVE  Rest'
  <1>1. UNCHANGED <<compactions, answered, consumed>>
    BY DEF markers
  <1>2. /\ compactions' \in Nat /\ work' \in Work
        /\ marker' # None => compactions' > 0 /\ marker'.n = compactions' /\ marker'.session \in Session
        /\ answered' \in 0..compactions' /\ consumed' \subseteq 1..compactions'
        /\ hooks' \in 0..MaxHooks /\ changes' \in 0..MaxWork
    BY <1>1 DEF Rest
  <1> QED BY <1>1, <1>2, ExitRest DEF Rest

\* p goes on to another phase with what it has.
LEMMA GoStep ==
    ASSUME Rest, NEW p \in Proc, NEW phase \in Phase \ {"idle", "check", "consume", "compacted"}, Goto(p, phase),
           UNCHANGED <<socket, work, marker, markers, hooks, changes, event, post, saw, flight>>,
           content' = [q \in Proc |-> content'[q]], prior' \in [Proc -> Seq(OutcomeKind)],
           faults' \in 0..MaxFaults
    PROVE  Rest'
  <1>1. /\ pc' \in [Proc -> Phase] /\ pc'[p] = phase /\ \A q \in Proc \ {p} : pc'[q] = pc[q]
    BY DEF Rest, Goto
  <1> QED BY <1>1 DEF Rest, markers

LEMMA RestStep ==
    ASSUME Rest, outcomes \in Seq(OutcomeKind), [Next]_vars
    PROVE  Rest'
  <1> USE CaptureAssumption DEF Rest, Phase, Goto, Fault, SendAll, SendCapture
  <1>1. CASE UNCHANGED vars
    BY <1>1 DEF vars, setting, disk, locals, wire, counters, markers
  <1>2. CASE Others
    <2> USE DEF setting, disk, locals, wire, counters, markers
    <2>1. CASE OtherHook
      BY <2>1 DEF OtherHook
    <2>2. CASE Deliver
      BY <2>2 DEF Deliver
    <2>3. CASE Refuse
      <3>1. flight' \subseteq flight /\ faults' \in 0..MaxFaults
        BY <2>3 DEF Refuse
      <3>2. UNCHANGED <<socket, work, marker, compactions, answered, consumed, hooks, changes,
                        event, post, saw, content, prior, pc>>
        BY <2>3 DEF Refuse
      <3> QED BY <3>1, <3>2
    <2> QED BY <1>2, <2>1, <2>2, <2>3 DEF Others
  <1>3. ASSUME NEW p \in Proc, Begins(p) \/ Hook(p) \/ Fails(p)
        PROVE  Rest'
    <2> USE DEF setting, disk, locals, wire, counters, markers
    <2>1. ASSUME NEW s \in Session, Compact(p, s) PROVE Rest'
      <3>1. event' = [event EXCEPT ![p] = [session |-> s]] /\ hooks' \in 0..MaxHooks
        BY <2>1 DEF Compact
      <3>2. work' \in Work /\ pc[p] = "idle"
            /\ UNCHANGED <<socket, marker, compactions, answered, consumed, post, saw, content, prior,
                           flight, changes, faults>>
        BY <2>1 DEF Compact
      <3>3. pc' \in [Proc -> Phase] /\ pc'[p] \in {"check", "gather", "compacted"}
            /\ \A q \in Proc \ {p} : pc'[q] = pc[q]
        BY <2>1 DEF Compact
      <3>4. /\ event' = [q \in Proc |-> event'[q]] /\ event'[p].session \in Session
            /\ \A q \in Proc \ {p} : event'[q] = event[q]
        BY <3>1
      <3>5. \A q \in Proc : pc'[q] = "compacted" => event'[q].session \in Session
        BY <3>3, <3>4
      <3>6. \A q \in post' : pc'[q] \notin {"idle", "check"}
        BY <3>2, <3>3
      <3>7. \A f \in flight' : f.by = None \/ (socket' /\ pc'[f.by] # "idle")
        BY <3>2, <3>3
      <3>8. \A q \in Proc : saw'[q] \in 0..compactions' /\ (pc'[q] = "consume" => saw'[q] > 0)
        BY <3>2, <3>3
      <3> QED BY <3>1, <3>2, <3>3, <3>4, <3>5, <3>6, <3>7, <3>8
    <2>2. ASSUME NEW s \in Session, NEW x \in Prompt, Submit(p, s, x) PROVE Rest'
      <3>1. event' = [event EXCEPT ![p] = [session |-> s, prompt |-> x]] /\ hooks' \in 0..MaxHooks
        BY <2>2 DEF Submit
      <3>2. work' \in Work /\ pc[p] = "idle"
            /\ UNCHANGED <<socket, marker, compactions, answered, consumed, post, saw, content, prior,
                           flight, changes, faults>>
        BY <2>2 DEF Submit
      <3>3. pc' \in [Proc -> Phase] /\ pc'[p] \in {"check", "gather", "compacted"}
            /\ \A q \in Proc \ {p} : pc'[q] = pc[q]
        BY <2>2 DEF Submit
      <3>4. /\ event' = [q \in Proc |-> event'[q]] /\ event'[p].session \in Session
            /\ \A q \in Proc \ {p} : event'[q] = event[q]
        BY <3>1
      <3>5. \A q \in Proc : pc'[q] = "compacted" => event'[q].session \in Session
        BY <3>3, <3>4
      <3>6. \A q \in post' : pc'[q] \notin {"idle", "check"}
        BY <3>2, <3>3
      <3>7. \A f \in flight' : f.by = None \/ (socket' /\ pc'[f.by] # "idle")
        BY <3>2, <3>3
      <3>8. \A q \in Proc : saw'[q] \in 0..compactions' /\ (pc'[q] = "consume" => saw'[q] > 0)
        BY <3>2, <3>3
      <3> QED BY <3>1, <3>2, <3>3, <3>4, <3>5, <3>6, <3>7, <3>8
    <2>3. CASE NoRecall(p)
      BY <2>3 DEF NoRecall
    <2>4. CASE CheckMarker(p)
      <3>1. /\ saw' = [saw EXCEPT ![p] = IF marker = None THEN 0 ELSE marker.n]
            /\ pc' = [pc EXCEPT ![p] = IF marker = None THEN "recall" ELSE "consume"]
            /\ pc[p] = "check"
            /\ UNCHANGED <<socket, work, marker, markers, hooks, changes, faults, event, post, content,
                           prior, flight>>
        BY <2>4 DEF CheckMarker
      <3>2. saw'[p] \in 0..compactions /\ (pc'[p] = "consume" => saw'[p] > 0)
        BY <3>1
      <3>3. p \in post => saw'[p] > 0
        BY <3>1
      <3>4. \A q \in Proc \ {p} : saw'[q] = saw[q] /\ pc'[q] = pc[q]
        BY <3>1
      <3>5. saw' \in [Proc -> Nat] /\ pc' \in [Proc -> Phase]
        BY <3>1
      <3> QED BY <3>1, <3>2, <3>3, <3>4, <3>5
    <2>5. CASE Consume(p)
      BY <2>5 DEF Consume
    <2>6. CASE Recall(p)
      BY <2>6 DEF Recall
    <2>7. CASE RememberPrompt(p)
      <3>1. UNCHANGED <<socket, work, marker, markers, hooks, changes>> /\ faults' \in 0..MaxFaults
        BY <2>7 DEF RememberPrompt
      <3>2. CASE Exit(p)
        BY <3>1, <3>2, ExitStep DEF Exit
      <3>3. CASE UNCHANGED <<locals, flight, lost>> /\ (Goto(p, "store") \/ Goto(p, "outcome"))
        <4>1. {"store", "outcome", "prior", "extract"} \subseteq Phase \ {"idle", "check", "consume", "compacted"}
          OBVIOUS
        <4> HIDE DEF Goto, Phase
        <4> QED BY <3>1, <3>3, <4>1, GoStep
      <3> QED BY <2>7, <3>2, <3>3 DEF RememberPrompt
    <2>8. CASE StorePrompt(p)
      <3>1. pc[p] = "store" /\ (pc' = [pc EXCEPT ![p] = IF event[p].prompt \in Councils THEN "council" ELSE "outcome"])
            /\ UNCHANGED <<socket, work, marker, compactions, answered, consumed, hooks, changes,
                           event, post, saw, content, prior>>
        BY <2>8 DEF StorePrompt
      <3>2. faults' \in 0..MaxFaults
            /\ \A f \in flight' : f \in flight \/ f.by = None \/ (socket /\ f.by = p)
        BY <2>8 DEF StorePrompt
      <3> QED BY <3>1, <3>2
    <2>9. CASE RememberCouncil(p)
      BY <2>9 DEF RememberCouncil
    <2>10. CASE StoreCouncil(p)
      <3>1. pc[p] = "storecouncil" /\ (pc' = [pc EXCEPT ![p] = "outcome"])
            /\ UNCHANGED <<socket, work, marker, compactions, answered, consumed, hooks, changes,
                           event, post, saw, content, prior>>
        BY <2>10 DEF StoreCouncil
      <3>2. faults' \in 0..MaxFaults
            /\ \A f \in flight' : f \in flight \/ f.by = None \/ (socket /\ f.by = p)
        BY <2>10 DEF StoreCouncil
      <3> QED BY <3>1, <3>2
    <2>11. CASE RecordPrompt(p)
      <3>1. UNCHANGED <<socket, work, marker, markers, hooks, changes>> /\ faults' \in 0..MaxFaults
        BY <2>11 DEF RecordPrompt
      <3>2. Exit(p)
        BY <2>11 DEF RecordPrompt
      <3> QED BY <3>1, <3>2, ExitStep DEF Exit
    <2>12. CASE Gather(p)
      BY <2>12 DEF Gather
    <2>13. CASE Tally(p)
      BY <2>13 DEF Tally
    <2>14. CASE RememberSnapshot(p)
      <3>1. UNCHANGED <<socket, work, marker, markers, hooks, changes>> /\ faults' \in 0..MaxFaults
        BY <2>14 DEF RememberSnapshot
      <3>2. CASE Exit(p)
        BY <3>1, <3>2, ExitStep DEF Exit
      <3>3. CASE UNCHANGED <<locals, flight, lost>> /\ (Goto(p, "prior"))
        <4>1. {"store", "outcome", "prior", "extract"} \subseteq Phase \ {"idle", "check", "consume", "compacted"}
          OBVIOUS
        <4> HIDE DEF Goto, Phase
        <4> QED BY <3>1, <3>3, <4>1, GoStep
      <3> QED BY <2>14, <3>2, <3>3 DEF RememberSnapshot
    <2>15. CASE LoadPrior(p)
      BY <2>15 DEF LoadPrior
    <2>16. CASE StoreSnapshot(p)
      BY <2>16 DEF StoreSnapshot
    <2>17. CASE RecordMarker(p)
      BY <2>17 DEF RecordMarker
    <2>18. CASE Extract(p)
      BY <2>18 DEF Extract
    <2>19. CASE Return(p)
      <3>1. UNCHANGED <<socket, work, marker, markers, hooks, changes>> /\ faults' \in 0..MaxFaults
        BY <2>19 DEF Return
      <3>2. Exit(p)
        BY <2>19 DEF Return
      <3> QED BY <3>1, <3>2, ExitStep DEF Exit
    <2>20. CASE WriteMarker(p)
      <3>1. /\ Ends(p, {}) /\ compactions' = compactions + 1 /\ event[p].session \in Session
            /\ marker' = [n |-> compactions + 1, session |-> event[p].session]
            /\ UNCHANGED <<socket, work, hooks, changes, faults, answered, consumed>>
        BY <2>20 DEF WriteMarker, Exit
      <3>2. \A q \in Proc : saw'[q] \in 0..compactions /\ (pc'[q] = "consume" => saw'[q] > 0)
        <4> HIDE DEF Rest
        <4> QED BY <3>1, ExitRest
      <3>3. compactions \in Nat /\ answered \in 0..compactions /\ consumed \subseteq 1..compactions
        OBVIOUS
      <3>4. \A q \in Proc : saw'[q] \in 0..compactions' /\ (pc'[q] = "consume" => saw'[q] > 0)
        BY <3>1, <3>2, <3>3
      <3>5. /\ marker' # None => compactions' > 0 /\ marker'.n = compactions' /\ marker'.session \in Session
            /\ answered' \in 0..compactions' /\ consumed' \subseteq 1..compactions' /\ compactions' \in Nat
        BY <3>1, <3>3
      <3>6. work' \in Work /\ hooks' \in 0..MaxHooks /\ faults' \in 0..MaxFaults /\ changes' \in 0..MaxWork
        BY <3>1
      <3> QED BY <3>1, <3>4, <3>5, <3>6, ExitRest
    <2>21. CASE ConsumeFails(p)
      BY <2>21 DEF ConsumeFails
    <2>22. CASE RecallFails(p)
      BY <2>22 DEF RecallFails
    <2>23. CASE UpdateFails(p)
      <3>1. UNCHANGED <<socket, work, marker, markers, hooks, changes>> /\ faults' \in 0..MaxFaults
        BY <2>23 DEF UpdateFails
      <3>2. CASE Exit(p)
        BY <3>1, <3>2, ExitStep DEF Exit
      <3>3. CASE UNCHANGED <<locals, flight, lost>> /\ (Goto(p, "outcome") \/ Goto(p, "extract"))
        <4>1. {"store", "outcome", "prior", "extract"} \subseteq Phase \ {"idle", "check", "consume", "compacted"}
          OBVIOUS
        <4> HIDE DEF Goto, Phase
        <4> QED BY <3>1, <3>3, <4>1, GoStep
      <3> QED BY <2>23, <3>2, <3>3 DEF UpdateFails
    <2>24. CASE Crash(p)
      <3>1. UNCHANGED <<socket, work, marker, markers, hooks, changes>> /\ faults' \in 0..MaxFaults
        BY <2>24 DEF Crash
      <3>2. Ends(p, InHand(p))
        BY <2>24 DEF Crash
      <3> QED BY <3>1, <3>2, ExitStep DEF Exit
    <2> QED BY <1>3, <2>1, <2>2, <2>3, <2>4, <2>5, <2>6, <2>7, <2>8, <2>9, <2>10, <2>11, <2>12, <2>13, <2>14, <2>15, <2>16, <2>17, <2>18, <2>19, <2>20, <2>21, <2>22, <2>23, <2>24
        DEF Begins, Hook, PromptHook, CompactHook, Fails
  <1> QED BY <1>1, <1>2, <1>3 DEF Next, Others, Begins, Fails

LEMMA NextInvariant == Invariant /\ [Next]_vars => Invariant'
  <1> SUFFICES ASSUME Invariant, [Next]_vars PROVE Invariant'
    OBVIOUS
  <1>1. Rest /\ outcomes \in Seq(OutcomeKind)
    BY DEF Invariant, Types, CaptureTypeOK, Rest
  <1>2. Rest'
    BY <1>1, RestStep
  <1> QED BY <1>2, ListsStep DEF Invariant, Types, CaptureTypeOK, Rest

\* Every list keeps to its cap, and a hook that recalls specially has seen a
\* marker.
THEOREM CaptureType == Spec => []CaptureTypeOK
  <1>1. Invariant => CaptureTypeOK
    BY DEF Invariant
  <1> QED BY <1>1, InitInvariant, NextInvariant, PTL DEF Spec

THEOREM CaptureInvariant == Spec => []Invariant
  BY InitInvariant, NextInvariant, PTL DEF Spec

----------------------------------------------------------------------------
(* The marker *)

Quiet(p) == Begins(p) \/ Hook(p) \/ Fails(p)

LEMMA Cases == ASSUME [Next]_vars PROVE UNCHANGED vars \/ Others \/ \E p \in Proc : Quiet(p)
  BY DEF Next, Quiet, Others, Begins, Fails

\* Which steps touch the marker and what is granted for it.
LEMMA MarkerSteps ==
    ASSUME [Next]_vars
    PROVE  \/ UNCHANGED <<marker, consumed, compactions>>
           \/ \E p \in Proc : Consume(p) \/ WriteMarker(p)
  <1>1. CASE UNCHANGED vars \/ Others
    BY <1>1 DEF vars, Others, OtherHook, Deliver, Refuse, disk, markers
  <1>2. ASSUME NEW p \in Proc, Quiet(p), ~(Consume(p) \/ WriteMarker(p))
        PROVE  UNCHANGED <<marker, consumed, compactions>>
    BY <1>2 DEF Quiet, Begins, Hook, PromptHook, CompactHook, Fails, Submit, Compact, disk, markers,
       NoRecall, CheckMarker, Recall, RememberPrompt, StorePrompt, RememberCouncil,
       StoreCouncil, RecordPrompt, Gather, Tally, RememberSnapshot, LoadPrior, StoreSnapshot,
       RecordMarker, Extract, Return, ConsumeFails, RecallFails, UpdateFails, Crash
  <1> QED BY <1>1, <1>2, Cases

\* The marker of a compaction that a special recall was granted for is gone.
GrantedMeansGone == marker # None => marker.n \notin consumed

LEMMA MarkerGone == Spec => []GrantedMeansGone
  <1>1. Init => GrantedMeansGone
    BY DEF Init, GrantedMeansGone
  <1>2. ASSUME Invariant, GrantedMeansGone, [Next]_vars
        PROVE  GrantedMeansGone'
    <2>1. CASE UNCHANGED <<marker, consumed, compactions>>
      BY <1>2, <2>1 DEF GrantedMeansGone
    <2>2. ASSUME NEW p \in Proc, Consume(p)
          PROVE  GrantedMeansGone'
      BY <2>2 DEF Consume, GrantedMeansGone
    <2>3. ASSUME NEW p \in Proc, WriteMarker(p)
          PROVE  GrantedMeansGone'
      BY <1>2, <2>3 DEF WriteMarker, Invariant, Types, CaptureTypeOK, GrantedMeansGone
    <2> QED BY <1>2, <2>1, <2>2, <2>3, MarkerSteps
  <1> QED BY <1>1, <1>2, CaptureInvariant, PTL DEF Spec

\* After a special recall was granted for a compaction, a prompt whose hook has
\* yet to look for the marker recalls normally; several prompts are granted one
\* only if their hooks all found the marker before it was removed.
THEOREM LaterRecallsAreNormal == Spec => LaterPromptsRecallNormally
  <1>1. ASSUME Invariant, GrantedMeansGone, [Next]_vars
        PROVE  [\A p \in Proc : saw'[p] \in consumed => saw'[p] = saw[p]]_vars
    <2>1. SUFFICES ASSUME NEW q \in Proc, saw'[q] \in consumed PROVE saw'[q] = saw[q]
      OBVIOUS
    <2>2. saw \in [Proc -> Nat] /\ 0 \notin consumed
      BY <1>1 DEF Invariant, Types, CaptureTypeOK
    <2>3. CASE UNCHANGED vars \/ Others
      BY <2>3 DEF vars, Others, OtherHook, Deliver, Refuse, locals
    <2>4. ASSUME NEW p \in Proc, CheckMarker(p) PROVE saw'[q] = saw[q]
      <3>1. saw' = [saw EXCEPT ![p] = IF marker = None THEN 0 ELSE marker.n]
        BY <2>4 DEF CheckMarker
      <3>2. saw'[p] \notin consumed
        BY <1>1, <2>2, <3>1 DEF GrantedMeansGone
      <3> QED BY <2>1, <2>2, <3>1, <3>2
    <2>5. ASSUME NEW p \in Proc, Quiet(p), ~CheckMarker(p) PROVE saw'[q] = saw[q]
      <3>1. saw' = saw \/ saw' = [saw EXCEPT ![p] = 0]
        BY <2>5 DEF Quiet, Begins, Hook, PromptHook, CompactHook, Fails, Submit, Compact, locals, Exit, Ends,
           Released, NoRecall, Consume, Recall, RememberPrompt, StorePrompt, RememberCouncil,
           StoreCouncil, RecordPrompt, Gather, Tally, RememberSnapshot, LoadPrior, StoreSnapshot,
           RecordMarker, Extract, Return, WriteMarker, ConsumeFails, RecallFails, UpdateFails, Crash
      <3> QED BY <2>1, <2>2, <3>1
    <2> QED BY <1>1, <2>3, <2>4, <2>5, Cases
  <1> QED BY <1>1, CaptureInvariant, MarkerGone, PTL DEF Spec, LaterPromptsRecallNormally

\* Without a fault, a compaction that was not followed by a special recall yet
\* has its marker in place or a hook that is about to recall.
THEOREM CompactionsAnswered == Spec => []EveryCompactionAnswered
  <1>1. Init => EveryCompactionAnswered
    BY DEF Init, EveryCompactionAnswered
  <1>2. ASSUME Invariant, EveryCompactionAnswered, [Next]_vars
        PROVE  EveryCompactionAnswered'
    <2> USE <1>2 DEF EveryCompactionAnswered, Goto
    <2>0. pc \in [Proc -> Phase] /\ post \subseteq Proc /\ compactions \in Nat /\ answered \in Nat
          /\ faults \in Nat /\ answered <= compactions
      BY CaptureAssumption DEF Invariant, Types, CaptureTypeOK
    <2>1. CASE UNCHANGED vars \/ Others
      BY <2>0, <2>1 DEF vars, Others, OtherHook, Deliver, Refuse, Fault, setting, disk, locals, markers, counters
    <2>2. ASSUME NEW p \in Proc, Fails(p) PROVE EveryCompactionAnswered'
      BY <2>0, <2>2 DEF Fails, ConsumeFails, RecallFails, UpdateFails, Crash, Fault
    <2>3. ASSUME NEW p \in Proc, WriteMarker(p) PROVE EveryCompactionAnswered'
      <3>1. marker' \in [n : Nat, session : Session]
        BY <2>0, <2>3 DEF WriteMarker, Invariant, Types
      <3> QED BY <3>1, CaptureAssumption
    <2>4. ASSUME NEW p \in Proc, Consume(p) PROVE EveryCompactionAnswered'
      BY <2>0, <2>4 DEF Consume
    <2>5. ASSUME NEW p \in Proc, Recall(p) PROVE EveryCompactionAnswered'
      BY <2>0, <2>5 DEF Recall, disk, locals, counters
    <2>6. ASSUME NEW p \in Proc, Quiet(p), ~(Fails(p) \/ WriteMarker(p) \/ Consume(p) \/ Recall(p))
          PROVE  EveryCompactionAnswered'
      <3>1. UNCHANGED <<marker, compactions, answered>>
        BY <2>6 DEF Quiet, Begins, Hook, PromptHook, CompactHook, Submit, Compact, disk, markers,
           NoRecall, CheckMarker, RememberPrompt, StorePrompt, RememberCouncil, StoreCouncil,
           RecordPrompt, Gather, Tally, RememberSnapshot, LoadPrior, StoreSnapshot,
           RecordMarker, Extract, Return
      <3>2. \A q \in Proc : q \in post /\ pc[q] = "recall" => q \in post' /\ pc'[q] = "recall"
        BY <2>0, <2>6 DEF Quiet, Begins, Hook, PromptHook, CompactHook, Submit, Compact, locals, Exit, Ends, Released,
           NoRecall, CheckMarker, RememberPrompt, StorePrompt, RememberCouncil, StoreCouncil,
           RecordPrompt, Gather, Tally, RememberSnapshot, LoadPrior, StoreSnapshot,
           RecordMarker, Extract, Return
      <3>3. faults' = 0 => faults = 0
        <4>1. \A messages : SendAll(p, messages) => faults' = faults \/ faults' = faults + 1
          BY DEF SendAll, Fault
        <4>2. faults' = faults \/ faults' = faults + 1
          BY <2>6, <4>1 DEF Quiet, Begins, Hook, PromptHook, CompactHook, Submit, Compact, counters,
             SendCapture, NoRecall, CheckMarker, RememberPrompt, StorePrompt, RememberCouncil,
             StoreCouncil, RecordPrompt, Gather, Tally, RememberSnapshot, LoadPrior, StoreSnapshot,
             RecordMarker, Extract, Return
        <4> QED BY <2>0, <4>2
      <3> QED BY <2>0, <3>1, <3>2, <3>3
    <2> QED BY <2>1, <2>2, <2>3, <2>4, <2>5, <2>6, Cases DEF Quiet
  <1> QED BY <1>1, <1>2, CaptureInvariant, PTL DEF Spec

----------------------------------------------------------------------------
(* What is remembered is on its way *)

\* p is about to send capture c of kind k.
Carries(p, k, c) ==
    \/ k = "prompt" /\ pc[p] = "store" /\ event[p] = c
    \/ k = "council" /\ pc[p] = "storecouncil" /\ event[p] = c
    \/ k = "snapshot" /\ pc[p] \in {"prior", "storesnapshot"} /\ content[p] = c

Remembers(p) == RememberPrompt(p) \/ RememberCouncil(p) \/ RememberSnapshot(p)
Stores(p) == StorePrompt(p) \/ StoreCouncil(p) \/ StoreSnapshot(p)

Entry(k, c) == [kind |-> k, what |-> c]

LEMMA CarriedInHand ==
    ASSUME NEW p, NEW k, NEW c, Carries(p, k, c)
    PROVE  InHand(p) = {Entry(k, c)}
  BY DEF Carries, InHand, Entry

\* What a hook carries it carries on until it sends it or crashes.
LEMMA CarriedOn ==
    ASSUME Invariant, NEW p \in Proc, Quiet(p), ~Crash(p), ~Stores(p),
           NEW q \in Proc, NEW k, NEW c, Carries(q, k, c)
    PROVE  Carries(q, k, c)'
  <1>0. pc \in [Proc -> Phase] /\ event = [x \in Proc |-> event[x]] /\ content = [x \in Proc |-> content[x]]
    BY DEF Invariant, Types, CaptureTypeOK
  <1>1. CASE q # p
    <2>1. pc'[q] = pc[q] /\ event'[q] = event[q] /\ content'[q] = content[q]
      BY <1>0, <1>1 DEF Quiet, Stores, Begins, Hook, PromptHook, CompactHook, Submit, Compact, locals, Exit,
         Ends, Released, Goto, RememberPrompt, RememberCouncil, RememberSnapshot, NoRecall, CheckMarker,
         Consume, Recall, RecordPrompt, Gather, Tally, LoadPrior, RecordMarker, Extract, Return,
         WriteMarker, Fails, ConsumeFails, RecallFails, UpdateFails
    <2> QED BY <2>1 DEF Carries
  <1>2. CASE q = p
    <2>1. pc[p] \in {"store", "storecouncil", "prior", "storesnapshot"}
      BY <1>2 DEF Carries
    <2>2. LoadPrior(p)
      BY <2>1 DEF Quiet, Stores, Begins, Hook, PromptHook, CompactHook, Submit, Compact,
         RememberPrompt, RememberCouncil, RememberSnapshot, NoRecall, CheckMarker, Consume,
         Recall, RecordPrompt, Gather, Tally, LoadPrior, RecordMarker, Extract, Return,
         WriteMarker, Fails, ConsumeFails, RecallFails, UpdateFails
    <2> QED BY <1>0, <1>2, <2>2 DEF LoadPrior, Goto, Carries
  <1> QED BY <1>1, <1>2

\* The hook that sends a capture is the only one that stops carrying one.
LEMMA SentOff ==
    ASSUME Invariant, NEW p \in Proc, Stores(p), NEW q \in Proc, NEW k \in Kinds, NEW c, Carries(q, k, c)
    PROVE  /\ q # p => Carries(q, k, c)'
           /\ q = p => Entry(k, c) \in lost' \/ \E f \in flight' : f.message = Entry(k, c)
  <1>0. pc \in [Proc -> Phase] /\ event = [x \in Proc |-> event[x]] /\ content = [x \in Proc |-> content[x]]
    BY DEF Invariant, Types, CaptureTypeOK
  <1>1. CASE q # p
    BY <1>0, <1>1 DEF Stores, StorePrompt, StoreCouncil, StoreSnapshot, Goto, locals, Carries
  <1>2. CASE q = p
    <2>1. SendAll(p, {Entry(k, c)})
      BY <1>2 DEF Stores, StorePrompt, StoreCouncil, StoreSnapshot, Carries, SendCapture, Entry
    <2>2. PICK sent \in SUBSET {Entry(k, c)} :
              /\ flight' = flight \union {[message |-> m, by |-> IF socket THEN p ELSE None] : m \in sent}
              /\ Lose({Entry(k, c)} \ sent)
      BY <2>1 DEF SendAll
    <2>3. CASE Entry(k, c) \in sent
      <3>1. [message |-> Entry(k, c), by |-> IF socket THEN p ELSE None] \in flight'
        BY <2>2, <2>3
      <3> QED BY <1>2, <3>1
    <2>4. CASE Entry(k, c) \notin sent
      <3>1. Entry(k, c).kind \in Kinds
        BY DEF Entry
      <3> QED BY <1>2, <2>2, <2>4, <3>1 DEF Lose
    <2> QED BY <2>3, <2>4
  <1> QED BY <1>1, <1>2

\* A step of a hook takes nothing off the wire unless the hook ends with it.
LEMMA WireStep ==
    ASSUME NEW p \in Proc, Quiet(p)
    PROVE  /\ memory' = memory /\ lost \subseteq lost'
           /\ flight \subseteq flight' \/ \E unsent : Ends(p, unsent)
  BY DEF Quiet, Begins, Hook, PromptHook, CompactHook, Submit, Compact, Fails, wire,
       SendCapture, SendAll, Lose, Exit, Ends,
       NoRecall, CheckMarker, Consume, Recall, RememberPrompt, StorePrompt, RememberCouncil,
       StoreCouncil, RecordPrompt, Gather, Tally, RememberSnapshot, LoadPrior, StoreSnapshot,
       RecordMarker, Extract, Return, WriteMarker, ConsumeFails, RecallFails, UpdateFails,
       Crash

\* What is on its way stays so, arrives or is lost.
LEMMA WireKept ==
    ASSUME [Next]_vars, NEW m, m.kind \in Kinds,
           m \in memory \union lost \/ \E f \in flight : f.message = m
    PROVE  m \in memory' \union lost' \/ \E f \in flight' : f.message = m
  <1>1. CASE UNCHANGED vars \/ Others
    BY <1>1 DEF vars, Others, OtherHook, Deliver, Refuse, Lose, wire
  <1>2. ASSUME NEW p \in Proc, Quiet(p)
        PROVE  m \in memory' \union lost' \/ \E f \in flight' : f.message = m
    <2>1. memory' = memory /\ lost \subseteq lost' /\ (flight \subseteq flight' \/ \E unsent : Ends(p, unsent))
      BY <1>2, WireStep
    <2>2. CASE m \in memory \union lost \/ flight \subseteq flight'
      BY <2>1, <2>2
    <2>3. ASSUME NEW unsent, Ends(p, unsent), NEW f \in flight, f.message = m
          PROVE  m \in lost' \/ f \in flight'
      BY <2>3 DEF Ends, Lose, InThreads
    <2> QED BY <2>1, <2>2, <2>3
  <1> QED BY <1>1, <1>2, Cases

\* A capture that is new to its list is carried by the hook that put it there.
LEMMA NewlyRemembered ==
    ASSUME Invariant, [Next]_vars, installed, NEW k \in Kinds, NEW c \in ToSet(captures'[k]), c \notin ToSet(captures[k])
    PROVE  \E p \in Proc : Carries(p, k, c)'
  <1>0. pc \in [Proc -> Phase] /\ event = [x \in Proc |-> event[x]] /\ content = [x \in Proc |-> content[x]]
        /\ (\E S : captures \in [Kinds -> Seq(S)]) /\ \A l \in Kinds : Len(captures[l]) <= Cap[l]
    BY DEF Invariant, Types, CaptureTypeOK
  <1>1. captures' # captures
    OBVIOUS
  <1>2. PICK p \in Proc : Remembers(p)
    <2>1. CASE UNCHANGED vars \/ Others
      BY <1>1, <2>1 DEF vars, Others, OtherHook, Deliver, Refuse, disk
    <2>2. ASSUME NEW p \in Proc, Quiet(p), ~Remembers(p) PROVE captures' = captures
      BY <2>2 DEF Quiet, Begins, Hook, PromptHook, CompactHook, Submit, Compact, Fails, Remembers, disk,
         StorePrompt, StoreCouncil, StoreSnapshot, NoRecall, CheckMarker, Consume, Recall,
         RecordPrompt, Gather, Tally, LoadPrior, RecordMarker, Extract, Return, WriteMarker,
         ConsumeFails, RecallFails, UpdateFails, Crash
    <2> QED BY <1>1, <2>1, <2>2, Cases
  <1>3. CASE RememberPrompt(p)
    <2>1. Push("prompt", event[p]) /\ pc' = [pc EXCEPT ![p] = "store"] /\ event' = event
      BY <1>1, <1>3 DEF RememberPrompt, Goto, locals
    <2>2. k = "prompt" /\ c = event[p]
      BY <1>0, <2>1, PushType DEF Kinds
    <2> QED BY <1>0, <2>1, <2>2 DEF Carries
  <1>4. CASE RememberCouncil(p)
    <2>1. Push("council", event[p]) /\ pc' = [pc EXCEPT ![p] = "storecouncil"] /\ event' = event
      BY <1>1, <1>4 DEF RememberCouncil, Goto, locals
    <2>2. k = "council" /\ c = event[p]
      BY <1>0, <2>1, PushType DEF Kinds
    <2> QED BY <1>0, <2>1, <2>2 DEF Carries
  <1>5. CASE RememberSnapshot(p)
    <2>1. Push("snapshot", content[p]) /\ pc' = [pc EXCEPT ![p] = "prior"] /\ content' = content
      BY <1>1, <1>5 DEF RememberSnapshot, Goto, locals
    <2>2. k = "snapshot" /\ c = content[p]
      BY <1>0, <2>1, PushType DEF Kinds
    <2> QED BY <1>0, <2>1, <2>2 DEF Carries
  <1> QED BY <1>2, <1>3, <1>4, <1>5 DEF Remembers

\* The first half of CaptureAccounted, in terms of what the hooks carry.
OnItsWay ==
    installed =>
        \A k \in Kinds : \A c \in ToSet(captures[k]) :
            \/ Entry(k, c) \in memory \union lost \/ \E f \in flight : f.message = Entry(k, c)
            \/ \E p \in Proc : Carries(p, k, c)

\* The second half.
FewLost == ~socket => IsFiniteSet(lost) /\ Cardinality(lost) <= faults

LEMMA OnItsWayAccounted == OnItsWay /\ FewLost => CaptureAccounted
  <1> SUFFICES ASSUME OnItsWay, installed, NEW k \in Kinds, NEW c \in ToSet(captures[k])
               PROVE  \/ Entry(k, c) \in memory \union lost
                      \/ \E f \in flight : f.message = Entry(k, c)
                      \/ \E p \in Proc : Entry(k, c) \in InHand(p)
    BY DEF CaptureAccounted, FewLost, Entry
  <1> QED BY CarriedInHand DEF OnItsWay

LEMMA NextOnItsWay ==
    ASSUME Invariant, OnItsWay, [Next]_vars
    PROVE  OnItsWay'
  <1>1. UNCHANGED installed
    <2>1. CASE UNCHANGED vars \/ Others
      BY <2>1 DEF vars, Others, OtherHook, Deliver, Refuse, setting
    <2>2. ASSUME NEW p \in Proc, Quiet(p) PROVE UNCHANGED installed
      BY <2>2 DEF Quiet, Begins, Hook, PromptHook, CompactHook, Submit, Compact, Fails, setting,
         NoRecall, CheckMarker, Consume, Recall, RememberPrompt, StorePrompt,
         RememberCouncil, StoreCouncil, RecordPrompt, Gather, Tally, RememberSnapshot,
         LoadPrior, StoreSnapshot, RecordMarker, Extract, Return, WriteMarker, ConsumeFails,
         RecallFails, UpdateFails, Crash
    <2> QED BY <2>1, <2>2, Cases
  <1> DEFINE Safe(k, c) == Entry(k, c) \in memory \union lost \/ \E f \in flight : f.message = Entry(k, c)
  <1>2. SUFFICES ASSUME installed, NEW k \in Kinds, NEW c \in ToSet(captures'[k])
                 PROVE  Safe(k, c)' \/ \E p \in Proc : Carries(p, k, c)'
    BY <1>1 DEF OnItsWay
  <1>3. CASE c \notin ToSet(captures[k])
    BY <1>2, <1>3, NewlyRemembered
  <1>4. CASE c \in ToSet(captures[k])
    <2>0. Entry(k, c).kind \in Kinds
      BY DEF Entry
    <2>1. Safe(k, c) \/ \E q \in Proc : Carries(q, k, c)
      BY <1>2, <1>4 DEF OnItsWay
    <2>2. CASE Safe(k, c)
      <3> DEFINE m == Entry(k, c)
      <3>1. m \in memory \union lost \/ \E f \in flight : f.message = m
        BY <2>2
      <3>2. m.kind \in Kinds
        BY <2>0
      <3> HIDE DEF m
      <3>3. m \in memory' \union lost' \/ \E f \in flight' : f.message = m
        BY <3>1, <3>2, WireKept
      <3> QED BY <3>3 DEF m, Entry
    <2>3. ASSUME NEW q \in Proc, Carries(q, k, c)
          PROVE  Carries(q, k, c)' \/ Safe(k, c)'
      <3>1. CASE UNCHANGED vars \/ Others
        BY <2>3, <3>1 DEF vars, Others, OtherHook, Deliver, Refuse, locals, Carries
      <3>2. ASSUME NEW p \in Proc, Crash(p)
            PROVE  Carries(q, k, c)' \/ Safe(k, c)'
        <4>1. CASE q = p
          <5>1. Entry(k, c) \in lost'
            BY <2>0, <2>3, <3>2, <4>1, CarriedInHand DEF Crash, Ends, Lose
          <5> QED BY <5>1 DEF Entry
        <4>2. CASE q # p
          <5>1. pc'[q] = pc[q] /\ event'[q] = event[q] /\ content'[q] = content[q]
            BY <3>2, <4>2 DEF Crash, Ends, Released, Goto, Invariant, Types, CaptureTypeOK
          <5> QED BY <2>3, <5>1 DEF Carries
        <4> QED BY <4>1, <4>2
      <3>3. ASSUME NEW p \in Proc, Stores(p)
            PROVE  Carries(q, k, c)' \/ Safe(k, c)'
        <4>1. CASE q # p
          BY <2>3, <3>3, <4>1, SentOff
        <4>2. CASE q = p
          <5>1. Entry(k, c) \in lost' \/ \E f \in flight' : f.message = Entry(k, c)
            BY <2>3, <3>3, <4>2, SentOff
          <5> QED BY <5>1 DEF Entry
        <4> QED BY <4>1, <4>2
      <3>4. ASSUME NEW p \in Proc, Quiet(p), ~Crash(p), ~Stores(p)
            PROVE  Carries(q, k, c)'
        BY <2>3, <3>4, CarriedOn
      <3> QED BY <3>1, <3>2, <3>3, <3>4, Cases
    <2> QED BY <2>1, <2>2, <2>3
  <1> QED BY <1>3, <1>4

\* Without a socket a step loses one capture at most, and that by a failure.
LEMMA LostByFault ==
    ASSUME Invariant, [Next]_vars, ~socket
    PROVE  \/ lost' = lost /\ faults' >= faults
           \/ faults' = faults + 1 /\ \E m : lost' \subseteq lost \union {m}
  <1>0. faults \in Nat /\ None \notin Proc /\ \A f \in flight : f.by = None
    BY CaptureAssumption DEF Invariant, CaptureTypeOK
  <1>1. CASE UNCHANGED vars \/ OtherHook \/ Deliver
    BY <1>0, <1>1 DEF vars, OtherHook, Deliver, wire, counters
  <1>2. CASE Refuse
    <2>1. PICK f \in flight : Lose({f.message})
      BY <1>2 DEF Refuse
    <2>2. lost' \subseteq lost \union {f.message}
      BY <2>1 DEF Lose
    <2> QED BY <1>2, <2>2 DEF Refuse, Fault
  <1>3. ASSUME NEW p \in Proc, NEW messages, Ends(p, messages)
        PROVE  lost' = lost \union {m \in messages : m.kind \in Kinds}
    <2>1. InThreads(p) = {}
      BY <1>0 DEF InThreads
    <2> QED BY <1>3, <2>1 DEF Ends, Lose
  <1>4. ASSUME NEW p \in Proc, Exit(p) PROVE lost' = lost
    <2>1. lost' = lost \union {m \in {} : m.kind \in Kinds}
      <3>1. Ends(p, {})
        BY <1>4 DEF Exit
      <3> HIDE DEF Ends
      <3> QED BY <1>3, <3>1
    <2> QED BY <2>1
  <1>5. ASSUME NEW p \in Proc, Crash(p)
        PROVE  faults' = faults + 1 /\ \E m : lost' \subseteq lost \union {m}
    <2>1. \E m : InHand(p) \subseteq {m}
      BY DEF InHand
    <2>2. lost' = lost \union {m \in InHand(p) : m.kind \in Kinds}
      BY <1>3, <1>5 DEF Crash
    <2> QED BY <1>5, <2>1, <2>2 DEF Crash, Fault
  <1>6. ASSUME NEW p \in Proc, NEW messages, SendAll(p, messages)
        PROVE  \/ lost' = lost /\ faults' = faults
               \/ faults' = faults + 1 /\ lost' \subseteq lost \union {m \in messages : m.kind \in Kinds}
    BY <1>6 DEF SendAll, Lose, Fault
  <1>7. ASSUME NEW p \in Proc, Stores(p)
        PROVE  \/ lost' = lost /\ faults' = faults
               \/ faults' = faults + 1 /\ \E m : lost' \subseteq lost \union {m}
    <2>1. \E m : SendAll(p, {m})
      BY <1>7 DEF Stores, StorePrompt, StoreCouncil, StoreSnapshot, SendCapture
    <2>2. PICK m : SendAll(p, {m})
      BY <2>1
    <2>3. \/ lost' = lost /\ faults' = faults
          \/ faults' = faults + 1 /\ lost' \subseteq lost \union {x \in {m} : x.kind \in Kinds}
      BY <1>6, <2>2
    <2> QED BY <2>3
  <1>8. ASSUME NEW p \in Proc, Extract(p) PROVE lost' = lost /\ faults' >= faults
    <2> DEFINE messages == {[kind |-> "memory", what |-> k] : k \in ToSet(Lifted(prior[p]))}
    <2>1. SendAll(p, messages)
      BY <1>8 DEF Extract
    <2>2. {m \in messages : m.kind \in Kinds} = {}
      BY DEF Kinds
    <2>3. lost \subseteq lost'
      BY <2>1 DEF SendAll, Lose
    <2> HIDE DEF messages
    <2> QED BY <1>0, <1>6, <2>1, <2>2, <2>3
  <1>9. ASSUME NEW p \in Proc, Quiet(p), ~Crash(p), ~Stores(p), ~Extract(p)
        PROVE  lost' = lost /\ faults' >= faults
    <2>1. (UNCHANGED lost \/ Exit(p)) /\ (UNCHANGED faults \/ Fault)
      BY <1>9 DEF Quiet, Begins, Hook, PromptHook, CompactHook, Submit, Compact, Fails, Stores, wire, counters,
         NoRecall, CheckMarker, Consume, Recall, RememberPrompt, RememberCouncil, RecordPrompt,
         Gather, Tally, RememberSnapshot, LoadPrior, RecordMarker, Return, WriteMarker,
         ConsumeFails, RecallFails, UpdateFails
    <2> QED BY <1>0, <1>4, <2>1 DEF Fault
  <1> QED BY <1>0, <1>1, <1>2, <1>5, <1>7, <1>8, <1>9, Cases DEF Others

LEMMA NextFewLost ==
    ASSUME Invariant, FewLost, [Next]_vars
    PROVE  FewLost'
  <1>0. faults \in Nat /\ faults' \in Nat
    BY NextInvariant, CaptureAssumption DEF Invariant, CaptureTypeOK
  <1>1. UNCHANGED socket
    <2>1. CASE UNCHANGED vars \/ Others
      BY <2>1 DEF vars, Others, OtherHook, Deliver, Refuse, setting
    <2>2. ASSUME NEW p \in Proc, Quiet(p) PROVE UNCHANGED socket
      BY <2>2 DEF Quiet, Begins, Hook, PromptHook, CompactHook, Submit, Compact, Fails, setting,
         NoRecall, CheckMarker, Consume, Recall, RememberPrompt, StorePrompt,
         RememberCouncil, StoreCouncil, RecordPrompt, Gather, Tally, RememberSnapshot,
         LoadPrior, StoreSnapshot, RecordMarker, Extract, Return, WriteMarker, ConsumeFails,
         RecallFails, UpdateFails, Crash
    <2> QED BY <2>1, <2>2, Cases
  <1>2. SUFFICES ASSUME ~socket, IsFiniteSet(lost), Cardinality(lost) <= faults
                 PROVE  IsFiniteSet(lost') /\ Cardinality(lost') <= faults'
    BY <1>1 DEF FewLost
  <1>3. Cardinality(lost) \in Nat
    BY <1>2, FS_CardinalityType
  <1>4. CASE lost' = lost /\ faults' >= faults
    BY <1>0, <1>2, <1>3, <1>4
  <1>5. ASSUME NEW m, faults' = faults + 1, lost' \subseteq lost \union {m}
        PROVE  IsFiniteSet(lost') /\ Cardinality(lost') <= faults'
    <2>1. /\ IsFiniteSet(lost \union {m})
          /\ Cardinality(lost \union {m}) \in {Cardinality(lost), Cardinality(lost) + 1}
      BY <1>2, FS_AddElement
    <2>2. IsFiniteSet(lost') /\ Cardinality(lost') <= Cardinality(lost \union {m})
      BY <1>5, <2>1, FS_Subset
    <2>3. Cardinality(lost') \in Nat
      BY <2>2, FS_CardinalityType
    <2> QED BY <1>0, <1>2, <1>3, <1>5, <2>1, <2>2, <2>3
  <1> QED BY <1>2, <1>4, <1>5, LostByFault

\* With hyphae on the command line, what the lists of captures suppress from now
\* on has reached hyphae, is on its way there or was lost, and without a socket no
\* more captures are lost than crashes and failed sends happen.
THEOREM CapturesAccounted == Spec => []CaptureAccounted
  <1>1. Init => OnItsWay /\ FewLost
    <2> SUFFICES ASSUME Init PROVE OnItsWay /\ FewLost
      OBVIOUS
    <2>1. \A k \in Kinds : ToSet(captures[k]) = {}
      BY DEF Init, ToSet
    <2>2. FewLost
      BY FS_EmptySet DEF Init, FewLost
    <2> QED BY <2>1, <2>2 DEF OnItsWay
  <1>2. Invariant /\ OnItsWay /\ FewLost /\ [Next]_vars => OnItsWay' /\ FewLost'
    BY NextOnItsWay, NextFewLost
  <1> QED BY <1>1, <1>2, OnItsWayAccounted, CaptureInvariant, PTL DEF Spec

----------------------------------------------------------------------------
(* Nothing is sent twice *)

\* Adding an element to a bag.
LEMMA OneMore ==
    ASSUME NEW bag, IsABag(bag), NEW x
    PROVE  /\ IsABag(bag (+) SetToBag({x}))
           /\ \A m : Copies(m, bag (+) SetToBag({x})) = Copies(m, bag) + (IF m = x THEN 1 ELSE 0)
  <1> DEFINE more == bag (+) SetToBag({x})
  <1>1. DOMAIN more = DOMAIN bag \union {x}
    BY DEF (+), SetToBag
  <1>2. \A e \in DOMAIN more : more[e] = (IF e \in DOMAIN bag THEN bag[e] ELSE 0) + (IF e = x THEN 1 ELSE 0)
    BY DEF (+), SetToBag
  <1>3. \A e \in DOMAIN bag : bag[e] \in {n \in Nat : n > 0}
    BY DEF IsABag
  <1>4. more = [e \in DOMAIN more |-> more[e]]
    BY DEF (+)
  <1> HIDE DEF more
  <1>5. \A e \in DOMAIN more : more[e] \in {n \in Nat : n > 0}
    BY <1>1, <1>2, <1>3
  <1>6. IsABag(more)
    BY <1>4, <1>5 DEF IsABag
  <1>7. \A m : Copies(m, more) = Copies(m, bag) + (IF m = x THEN 1 ELSE 0)
    BY <1>1, <1>2, <1>3 DEF Copies, BagToSet
  <1> QED BY <1>6, <1>7 DEF more

LEMMA CopiesType == ASSUME NEW bag, IsABag(bag), NEW m PROVE Copies(m, bag) \in Nat
  BY DEF IsABag, Copies, BagToSet

\* The hooks that are about to send capture c of kind k.
Due(k, c) == {p \in Proc : Carries(p, k, c)}

\* Each capture was sent, or is about to be, at most as often as it entered its
\* list.
Balanced ==
    /\ IsABag(sends) /\ IsABag(forgotten)
    /\ \A k \in Kinds : \A c :
          Copies(Entry(k, c), sends) + Cardinality(Due(k, c))
              <= Copies(Entry(k, c), forgotten) + (IF c \in ToSet(captures[k]) THEN 1 ELSE 0)
    /\ \A m \in BagToSet(sends) : \E k \in Kinds : \E c : m = Entry(k, c)

LEMMA DueFinite ==
    /\ \A k, c : IsFiniteSet(Due(k, c)) /\ Cardinality(Due(k, c)) \in Nat
    /\ \A k, c : IsFiniteSet(Due(k, c)') /\ Cardinality(Due(k, c)') \in Nat
  <1>1. ASSUME NEW S, S \subseteq Proc PROVE IsFiniteSet(S) /\ Cardinality(S) \in Nat
    BY <1>1, CaptureAssumption, FS_Subset, FS_CardinalityType
  <1>2. \A k, c : Due(k, c) \subseteq Proc /\ Due(k, c)' \subseteq Proc
    BY DEF Due
  <1> QED BY <1>1, <1>2

\* Push, for one who counts.
LEMMA PushCounted ==
    ASSUME NEW kind \in Kinds, NEW c, Push(kind, c),
           \E S : captures \in [Kinds -> Seq(S)]
    PROVE  /\ c \in ToSet(captures'[kind])
           /\ \A k \in Kinds \ {kind} : captures'[k] = captures[k]
           /\ \/ forgotten' = forgotten /\ ToSet(captures[kind]) \subseteq ToSet(captures'[kind])
              \/ \E x : /\ forgotten' = forgotten (+) SetToBag({Entry(kind, x)})
                       /\ ToSet(captures[kind]) \ {x} \subseteq ToSet(captures'[kind])
  <1> DEFINE all == Append(captures[kind], c)
             n == Len(captures[kind])
  <1>1. PICK S : captures \in [Kinds -> Seq(S)]
    OBVIOUS
  <1>2. /\ all \in Seq(S \union {c}) /\ Len(all) = n + 1 /\ n \in Nat
        /\ DOMAIN all = 1..n + 1 /\ all[n + 1] = c
        /\ DOMAIN captures[kind] = 1..n /\ \A i \in 1..n : all[i] = captures[kind][i]
    BY <1>1
  <1>3. /\ captures' = [captures EXCEPT ![kind] = IF Len(all) > Cap[kind] THEN Tail(all) ELSE all]
        /\ forgotten' = IF Len(all) > Cap[kind] THEN forgotten (+) SetToBag({Entry(kind, Head(all))}) ELSE forgotten
    BY DEF Push, Entry
  <1>4. Cap[kind] \in Nat \ {0}
    BY CaptureAssumption
  <1>5. DOMAIN Tail(all) = 1..n /\ (\A i \in 1..n : Tail(all)[i] = all[i + 1]) /\ Head(all) = all[1]
    BY <1>2
  <1>6. \A k \in Kinds \ {kind} : captures'[k] = captures[k]
    BY <1>1, <1>3
  <1> HIDE DEF all, n
  <1>7. CASE Len(all) > Cap[kind]
    <2>1. captures'[kind] = Tail(all) /\ n \in Nat \ {0}
      BY <1>1, <1>2, <1>3, <1>4, <1>7
    <2>0. /\ \A x : x \in ToSet(captures'[kind]) <=> \E i \in 1..n : Tail(all)[i] = x
          /\ \A x : x \in ToSet(captures[kind]) <=> \E i \in 1..n : captures[kind][i] = x
      BY <1>2, <1>5, <2>1 DEF ToSet
    <2>2. c \in ToSet(captures'[kind])
      <3>1. n \in 1..n /\ Tail(all)[n] = c
        BY <1>2, <1>5, <2>1
      <3> QED BY <2>0, <3>1
    <2>3. ToSet(captures[kind]) \ {Head(all)} \subseteq ToSet(captures'[kind])
      <3> SUFFICES ASSUME NEW i \in 1..n, captures[kind][i] # Head(all)
                   PROVE  \E j \in 1..n : Tail(all)[j] = captures[kind][i]
        BY <2>0
      <3>1. i # 1
        BY <1>2, <1>5
      <3>2. i - 1 \in 1..n /\ Tail(all)[i - 1] = all[i]
        BY <1>2, <1>5, <3>1
      <3> QED BY <1>2, <3>2
    <2> QED BY <1>3, <1>6, <1>7, <2>2, <2>3
  <1>8. CASE ~(Len(all) > Cap[kind])
    <2>1. captures'[kind] = all /\ forgotten' = forgotten
      BY <1>1, <1>3, <1>8
    <2>2. c \in ToSet(all) /\ ToSet(captures[kind]) \subseteq ToSet(all)
      BY <1>2 DEF ToSet
    <2> QED BY <1>6, <2>1, <2>2
  <1> QED BY <1>7, <1>8

\* A step that neither sends nor remembers.
LEMMA NothingNew ==
    ASSUME Balanced, UNCHANGED <<sends, forgotten, captures>>,
           \A q \in Proc : \A k, c : Carries(q, k, c)' => Carries(q, k, c)
    PROVE  Balanced'
  <1>1. SUFFICES ASSUME NEW k \in Kinds, NEW c
                 PROVE  Cardinality(Due(k, c)') <= Cardinality(Due(k, c))
    <2>1. \A k \in Kinds : \A c : /\ Copies(Entry(k, c), sends) \in Nat /\ Copies(Entry(k, c), forgotten) \in Nat
                              /\ Cardinality(Due(k, c)) \in Nat /\ Cardinality(Due(k, c)') \in Nat
      BY CopiesType, DueFinite DEF Balanced
    <2> QED BY <1>1, <2>1 DEF Balanced
  <1>2. Due(k, c)' \subseteq Due(k, c)
    BY DEF Due
  <1> QED BY <1>2, DueFinite, FS_Subset

\* Capture what of kind, which is not in its list, is pushed, and p is to send it.
LEMMA Remembered1 ==
    ASSUME Balanced, \E S : captures \in [Kinds -> Seq(S)],
           NEW p \in Proc, NEW kind \in Kinds, NEW what, what \notin ToSet(captures[kind]),
           Push(kind, what), UNCHANGED sends,
           \A q \in Proc : \A k, c : Carries(q, k, c)' => Carries(q, k, c) \/ (q = p /\ k = kind /\ c = what)
    PROVE  Balanced'
  <1>1. /\ what \in ToSet(captures'[kind])
        /\ \A k \in Kinds \ {kind} : captures'[k] = captures[k]
        /\ \/ forgotten' = forgotten /\ ToSet(captures[kind]) \subseteq ToSet(captures'[kind])
           \/ \E x : /\ forgotten' = forgotten (+) SetToBag({Entry(kind, x)})
                    /\ ToSet(captures[kind]) \ {x} \subseteq ToSet(captures'[kind])
    BY PushCounted
  <1>0. IsABag(forgotten) /\ IsABag(sends)
    BY DEF Balanced
  <1>2. IsABag(forgotten')
    <2>1. ASSUME NEW x PROVE IsABag(forgotten (+) SetToBag({Entry(kind, x)}))
      BY <1>0, OneMore
    <2> QED BY <1>0, <1>1, <2>1
  <1>3. SUFFICES ASSUME NEW k \in Kinds, NEW c
                 PROVE  Copies(Entry(k, c), sends) + Cardinality(Due(k, c)')
                            <= Copies(Entry(k, c), forgotten') + (IF c \in ToSet(captures'[k]) THEN 1 ELSE 0)
    BY <1>2 DEF Balanced
  <1>4. /\ Copies(Entry(k, c), sends) \in Nat /\ Copies(Entry(k, c), forgotten) \in Nat
        /\ Cardinality(Due(k, c)) \in Nat /\ Cardinality(Due(k, c)') \in Nat
        /\ Copies(Entry(k, c), sends) + Cardinality(Due(k, c))
              <= Copies(Entry(k, c), forgotten) + (IF c \in ToSet(captures[k]) THEN 1 ELSE 0)
    BY CopiesType, DueFinite DEF Balanced
  <1>5. Cardinality(Due(k, c)') <= Cardinality(Due(k, c)) + (IF k = kind /\ c = what THEN 1 ELSE 0)
    <2>1. CASE k = kind /\ c = what
      <3>1. Due(k, c)' \subseteq Due(k, c) \union {p}
        BY DEF Due
      <3>2. IsFiniteSet(Due(k, c) \union {p}) /\ Cardinality(Due(k, c) \union {p}) <= Cardinality(Due(k, c)) + 1
            /\ Cardinality(Due(k, c) \union {p}) \in Nat
        <4>1. /\ IsFiniteSet(Due(k, c) \union {p})
              /\ Cardinality(Due(k, c) \union {p}) =
                    IF p \in Due(k, c) THEN Cardinality(Due(k, c)) ELSE Cardinality(Due(k, c)) + 1
          BY DueFinite, FS_AddElement
        <4> QED BY <4>1, <1>4
      <3>3. Cardinality(Due(k, c)') <= Cardinality(Due(k, c) \union {p})
        BY <3>1, <3>2, FS_Subset
      <3> QED BY <1>4, <2>1, <3>2, <3>3
    <2>2. CASE ~(k = kind /\ c = what)
      <3>1. Due(k, c)' \subseteq Due(k, c)
        BY <2>2 DEF Due
      <3>2. Cardinality(Due(k, c)') <= Cardinality(Due(k, c))
        BY <3>1, DueFinite, FS_Subset
      <3> QED BY <1>4, <2>2, <3>2
    <2> QED BY <2>1, <2>2
  <1>6. /\ Copies(Entry(k, c), forgotten') \in Nat
        /\ Copies(Entry(k, c), forgotten') + (IF c \in ToSet(captures'[k]) THEN 1 ELSE 0)
              >= Copies(Entry(k, c), forgotten) + (IF c \in ToSet(captures[k]) THEN 1 ELSE 0)
                 + (IF k = kind /\ c = what THEN 1 ELSE 0)
    <2>1. Copies(Entry(k, c), forgotten') \in Nat
      BY <1>2, CopiesType
    <2>2. CASE k # kind
      <3>1. captures'[k] = captures[k]
        BY <1>1, <2>2
      <3>2. Copies(Entry(k, c), forgotten') >= Copies(Entry(k, c), forgotten)
        <4>1. CASE forgotten' = forgotten
          BY <4>1, <1>4
        <4>2. ASSUME NEW x, forgotten' = forgotten (+) SetToBag({Entry(kind, x)})
              PROVE  Copies(Entry(k, c), forgotten') >= Copies(Entry(k, c), forgotten)
          <5>1. \A m : Copies(m, forgotten (+) SetToBag({Entry(kind, x)}))
                         = Copies(m, forgotten) + (IF m = Entry(kind, x) THEN 1 ELSE 0)
            BY <1>0, OneMore
          <5>2. Copies(Entry(k, c), forgotten') = Copies(Entry(k, c), forgotten)
                  + (IF Entry(k, c) = Entry(kind, x) THEN 1 ELSE 0)
            BY <4>2, <5>1
          <5> QED BY <1>4, <5>2
        <4> QED BY <1>1, <4>1, <4>2
      <3> QED BY <1>4, <2>1, <2>2, <3>1, <3>2
    <2>3. CASE k = kind /\ forgotten' = forgotten /\ ToSet(captures[kind]) \subseteq ToSet(captures'[kind])
      BY <1>1, <1>4, <2>1, <2>3
    <2>4. ASSUME NEW x, k = kind, forgotten' = forgotten (+) SetToBag({Entry(kind, x)}),
                 ToSet(captures[kind]) \ {x} \subseteq ToSet(captures'[kind])
          PROVE  Copies(Entry(k, c), forgotten') + (IF c \in ToSet(captures'[k]) THEN 1 ELSE 0)
                    >= Copies(Entry(k, c), forgotten) + (IF c \in ToSet(captures[k]) THEN 1 ELSE 0)
                       + (IF k = kind /\ c = what THEN 1 ELSE 0)
      <3>1. Copies(Entry(k, c), forgotten') =
               Copies(Entry(k, c), forgotten) + (IF Entry(k, c) = Entry(kind, x) THEN 1 ELSE 0)
        BY <2>4, OneMore DEF Balanced
      <3>2. Entry(k, c) = Entry(kind, x) <=> c = x
        BY <2>4 DEF Entry
      <3>3. CASE c = what
        BY <1>1, <1>4, <2>4, <3>1, <3>3
      <3>4. CASE c # what
        BY <1>1, <1>4, <2>4, <3>1, <3>2, <3>4
      <3> QED BY <3>3, <3>4
    <2> QED BY <1>1, <2>1, <2>2, <2>3, <2>4
  <1> QED BY <1>4, <1>5, <1>6

\* p sends what it carries.
LEMMA Sent1 ==
    ASSUME Balanced, NEW p \in Proc, NEW kind \in Kinds, NEW what, Carries(p, kind, what),
           sends' = sends (+) SetToBag({Entry(kind, what)}), UNCHANGED <<captures, forgotten>>,
           \A q \in Proc : \A k, c : Carries(q, k, c)' => Carries(q, k, c) /\ q # p
    PROVE  Balanced'
  <1>1. IsABag(sends') /\ \A m : Copies(m, sends') = Copies(m, sends) + (IF m = Entry(kind, what) THEN 1 ELSE 0)
    BY OneMore DEF Balanced
  <1>2. DOMAIN sends' = DOMAIN sends \union {Entry(kind, what)}
    BY DEF (+), SetToBag
  <1>3. \A m \in BagToSet(sends') : \E k \in Kinds : \E c : m = Entry(k, c)
    BY <1>2 DEF Balanced, BagToSet
  <1>4. ASSUME NEW k \in Kinds, NEW c
        PROVE  Copies(Entry(k, c), sends') + Cardinality(Due(k, c)')
                   <= Copies(Entry(k, c), forgotten) + (IF c \in ToSet(captures[k]) THEN 1 ELSE 0)
    <2>0. /\ Copies(Entry(k, c), sends) \in Nat /\ Copies(Entry(k, c), forgotten) \in Nat
          /\ Cardinality(Due(k, c)) \in Nat /\ Cardinality(Due(k, c)') \in Nat
          /\ Copies(Entry(k, c), sends) + Cardinality(Due(k, c))
                <= Copies(Entry(k, c), forgotten) + (IF c \in ToSet(captures[k]) THEN 1 ELSE 0)
      BY CopiesType, DueFinite DEF Balanced
    <2>1. Copies(Entry(k, c), sends') =
             Copies(Entry(k, c), sends) + (IF Entry(k, c) = Entry(kind, what) THEN 1 ELSE 0)
      BY <1>1
    <2>2. CASE k = kind /\ c = what
      <3>1. Due(k, c)' \subseteq Due(k, c) \ {p} /\ p \in Due(k, c)
        BY <2>2 DEF Due
      <3>2. IsFiniteSet(Due(k, c) \ {p}) /\ Cardinality(Due(k, c) \ {p}) = Cardinality(Due(k, c)) - 1
        BY <3>1, DueFinite, FS_RemoveElement
      <3>3. Cardinality(Due(k, c)') <= Cardinality(Due(k, c) \ {p})
        BY <3>1, <3>2, FS_Subset
      <3> QED BY <2>0, <2>1, <2>2, <3>2, <3>3
    <2>3. CASE ~(k = kind /\ c = what)
      <3>1. Due(k, c)' \subseteq Due(k, c)
        BY DEF Due
      <3>2. Cardinality(Due(k, c)') <= Cardinality(Due(k, c))
        BY <3>1, DueFinite, FS_Subset
      <3>3. Entry(k, c) # Entry(kind, what)
        BY <2>3 DEF Entry
      <3> QED BY <2>0, <2>1, <3>2, <3>3
    <2> QED BY <2>2, <2>3
  <1> QED BY <1>1, <1>3, <1>4 DEF Balanced

\* Whoever is to send a capture was so before, or has just remembered it.
LEMMA NewlyCarried ==
    ASSUME Invariant, NEW p \in Proc, Quiet(p), ~Remembers(p),
           NEW q \in Proc, NEW k, NEW c, Carries(q, k, c)'
    PROVE  Carries(q, k, c)
  <1>0. pc \in [Proc -> Phase] /\ event = [x \in Proc |-> event[x]] /\ content = [x \in Proc |-> content[x]]
    BY DEF Invariant, Types, CaptureTypeOK
  <1>1. CASE q # p
    <2>1. pc'[q] = pc[q] /\ event'[q] = event[q] /\ content'[q] = content[q]
      BY <1>0, <1>1 DEF Quiet, Begins, Hook, PromptHook, CompactHook, Fails, Submit, Compact, locals, Exit, Ends,
         Released, Goto, Remembers, NoRecall, CheckMarker, Consume, Recall, StorePrompt, StoreCouncil,
         RecordPrompt, Gather, Tally, LoadPrior, StoreSnapshot, RecordMarker, Extract, Return,
         WriteMarker, ConsumeFails, RecallFails, UpdateFails, Crash
    <2> QED BY <2>1 DEF Carries
  <1>2. CASE q = p
    <2>1. pc'[p] \in {"store", "storecouncil", "prior", "storesnapshot"}
      BY <1>2 DEF Carries
    <2>2. LoadPrior(p)
      BY <1>0, <2>1 DEF Quiet, Begins, Hook, PromptHook, CompactHook, Fails, Submit, Compact, Exit, Ends,
         Released, Goto, Remembers, NoRecall, CheckMarker, Consume, Recall, StorePrompt, StoreCouncil,
         RecordPrompt, Gather, Tally, LoadPrior, StoreSnapshot, RecordMarker, Extract, Return,
         WriteMarker, ConsumeFails, RecallFails, UpdateFails, Crash
    <2> QED BY <1>0, <1>2, <2>2 DEF LoadPrior, Goto, Carries
  <1> QED BY <1>1, <1>2

\* The same of a hook that remembers.
LEMMA CarriedWhenRemembered ==
    ASSUME Invariant, NEW p \in Proc, Remembers(p)
    PROVE  \/ /\ UNCHANGED <<sends, forgotten, captures>>
              /\ \A q \in Proc : \A k, c : Carries(q, k, c)' => Carries(q, k, c)
           \/ \E kind \in Kinds : \E what :
                 /\ what \notin ToSet(captures[kind]) /\ Push(kind, what) /\ UNCHANGED sends
                 /\ \A q \in Proc : \A k, c :
                       Carries(q, k, c)' => Carries(q, k, c) \/ (q = p /\ k = kind /\ c = what)
  <1>0. pc \in [Proc -> Phase] /\ event = [x \in Proc |-> event[x]] /\ content = [x \in Proc |-> content[x]]
    BY DEF Invariant, Types, CaptureTypeOK
  <1>1. CASE RememberPrompt(p)
    <2>1. CASE Remembered("prompt", event[p])
      BY <1>0, <1>1, <2>1 DEF RememberPrompt, Exit, Ends, Released, Goto, Carries
    <2>2. CASE ~Remembered("prompt", event[p])
      <3>1. \A q \in Proc : \A k, c : Carries(q, k, c)' => Carries(q, k, c) \/ (q = p /\ k = "prompt" /\ c = event[p])
        BY <1>0, <1>1, <2>2 DEF RememberPrompt, Goto, locals, Carries
      <3>2. /\ event[p] \notin ToSet(captures["prompt"]) /\ Push("prompt", event[p])
            /\ UNCHANGED sends /\ "prompt" \in Kinds
        BY <1>1, <2>2 DEF RememberPrompt, Remembered, Kinds
      <3> QED BY <3>1, <3>2
    <2> QED BY <2>1, <2>2
  <1>2. CASE RememberCouncil(p)
    <2>1. CASE Remembered("council", event[p])
      BY <1>0, <1>2, <2>1 DEF RememberCouncil, locals, Goto, Carries
    <2>2. CASE ~Remembered("council", event[p])
      <3>1. \A q \in Proc : \A k, c : Carries(q, k, c)' => Carries(q, k, c) \/ (q = p /\ k = "council" /\ c = event[p])
        BY <1>0, <1>2, <2>2 DEF RememberCouncil, Goto, locals, Carries
      <3>2. /\ event[p] \notin ToSet(captures["council"]) /\ Push("council", event[p])
            /\ UNCHANGED sends /\ "council" \in Kinds
        BY <1>2, <2>2 DEF RememberCouncil, Remembered, Kinds
      <3> QED BY <3>1, <3>2
    <2> QED BY <2>1, <2>2
  <1>3. CASE RememberSnapshot(p)
    <2>1. CASE Remembered("snapshot", content[p])
      BY <1>0, <1>3, <2>1 DEF RememberSnapshot, Exit, Ends, Released, Goto, Carries
    <2>2. CASE ~Remembered("snapshot", content[p])
      <3>1. \A q \in Proc : \A k, c :
                Carries(q, k, c)' => Carries(q, k, c) \/ (q = p /\ k = "snapshot" /\ c = content[p])
        BY <1>0, <1>3, <2>2 DEF RememberSnapshot, Exit, Ends, Released, Goto, locals, Carries
      <3>2. /\ content[p] \notin ToSet(captures["snapshot"]) /\ Push("snapshot", content[p])
            /\ UNCHANGED sends /\ "snapshot" \in Kinds
        BY <1>3, <2>2 DEF RememberSnapshot, Remembered, Kinds
      <3> QED BY <3>1, <3>2
    <2> QED BY <2>1, <2>2
  <1> QED BY <1>1, <1>2, <1>3 DEF Remembers

\* And of a hook that sends.
LEMMA CarriedWhenStored ==
    ASSUME Invariant, NEW p \in Proc, Stores(p)
    PROVE  /\ UNCHANGED <<captures, forgotten>>
           /\ \E kind \in Kinds : \E what :
                 Carries(p, kind, what) /\ sends' = sends (+) SetToBag({Entry(kind, what)})
           /\ \A q \in Proc : \A k, c : Carries(q, k, c)' => Carries(q, k, c) /\ q # p
  <1>0. pc \in [Proc -> Phase] /\ event = [x \in Proc |-> event[x]] /\ content = [x \in Proc |-> content[x]]
    BY DEF Invariant, Types, CaptureTypeOK
  <1>1. \A q \in Proc : \A k, c : Carries(q, k, c)' => Carries(q, k, c) /\ q # p
    BY <1>0 DEF Stores, StorePrompt, StoreCouncil, StoreSnapshot, Goto, locals, Carries
  <1>2. \E kind \in Kinds : \E what : Carries(p, kind, what) /\ sends' = sends (+) SetToBag({Entry(kind, what)})
    BY DEF Stores, StorePrompt, StoreCouncil, StoreSnapshot, SendCapture, Carries, Kinds, Entry
  <1> QED BY <1>1, <1>2 DEF Stores, StorePrompt, StoreCouncil, StoreSnapshot, disk

LEMMA NextBalanced == Invariant /\ Balanced /\ [Next]_vars => Balanced'
  <1> SUFFICES ASSUME Invariant, Balanced, [Next]_vars PROVE Balanced'
    OBVIOUS
  <1>0. \E S : captures \in [Kinds -> Seq(S)]
    BY DEF Invariant, Types
  <1>1. CASE UNCHANGED vars \/ Others
    <2>1. UNCHANGED <<sends, forgotten, captures, pc, event, content>>
      BY <1>1 DEF vars, Others, OtherHook, Deliver, Refuse, disk, locals, counts
    <2>2. \A q \in Proc : \A k, c : Carries(q, k, c)' => Carries(q, k, c)
      BY <2>1 DEF Carries
    <2> QED BY <2>1, <2>2, NothingNew
  <1>2. ASSUME NEW p \in Proc, Quiet(p), ~Remembers(p), ~Stores(p) PROVE Balanced'
    <2>1. UNCHANGED <<sends, forgotten, captures>>
      BY <1>2 DEF Quiet, Begins, Hook, PromptHook, CompactHook, Fails, Submit, Compact, disk, counts,
         Remembers, Stores, NoRecall, CheckMarker, Consume, Recall, RecordPrompt, Gather, Tally,
         LoadPrior, RecordMarker, Extract, Return, WriteMarker, ConsumeFails, RecallFails,
         UpdateFails, Crash
    <2> QED BY <1>2, <2>1, NewlyCarried, NothingNew
  <1>3. ASSUME NEW p \in Proc, Remembers(p) PROVE Balanced'
    <2>1. CASE /\ UNCHANGED <<sends, forgotten, captures>>
               /\ \A q \in Proc : \A k, c : Carries(q, k, c)' => Carries(q, k, c)
      BY <2>1, NothingNew
    <2>2. ASSUME NEW kind \in Kinds, NEW what,
                 what \notin ToSet(captures[kind]), Push(kind, what), UNCHANGED sends,
                 \A q \in Proc : \A k, c :
                    Carries(q, k, c)' => Carries(q, k, c) \/ (q = p /\ k = kind /\ c = what)
          PROVE  Balanced'
      BY <1>0, <2>2, Remembered1
    <2> QED BY <1>3, <2>1, <2>2, CarriedWhenRemembered
  <1>4. ASSUME NEW p \in Proc, Stores(p) PROVE Balanced'
    <2>1. /\ UNCHANGED <<captures, forgotten>>
          /\ \A q \in Proc : \A k, c : Carries(q, k, c)' => Carries(q, k, c) /\ q # p
      BY <1>4, CarriedWhenStored
    <2>2. PICK kind \in Kinds :
              \E what : Carries(p, kind, what) /\ sends' = sends (+) SetToBag({Entry(kind, what)})
      BY <1>4, CarriedWhenStored
    <2>3. PICK what : Carries(p, kind, what) /\ sends' = sends (+) SetToBag({Entry(kind, what)})
      BY <2>2
    <2> QED BY <2>1, <2>3, Sent1
  <1> QED BY <1>1, <1>2, <1>3, <1>4, Cases

\* However many hooks handle the same prompt or take the same snapshot at once,
\* it is sent no more often than it was put into its list.
THEOREM CapturesStoredOnce == Spec => []StoredOnce
  <1>1. Init => Balanced
    <2> SUFFICES ASSUME Init PROVE Balanced
      OBVIOUS
    <2>1. IsABag(EmptyBag) /\ BagToSet(EmptyBag) = {} /\ \A m : Copies(m, EmptyBag) = 0
      BY DEF IsABag, EmptyBag, SetToBag, BagToSet, Copies
    <2>2. \A k, c : Due(k, c) = {}
      BY DEF Init, Due, Carries
    <2>3. Cardinality({}) = 0
      BY FS_EmptySet
    <2>4. \A k \in Kinds : \A c : Copies(Entry(k, c), sends) + Cardinality(Due(k, c)) = 0
                             /\ Copies(Entry(k, c), forgotten) = 0
      <3> TAKE k \in Kinds
      <3> TAKE c
      <3>1. Cardinality(Due(k, c)) = 0
        BY <2>2, <2>3
      <3>2. sends = EmptyBag /\ forgotten = EmptyBag
        BY DEF Init
      <3>3. Copies(Entry(k, c), sends) = 0 /\ Copies(Entry(k, c), forgotten) = 0
        BY <2>1, <3>2
      <3> QED BY <3>1, <3>3
    <2> QED BY <2>1, <2>4 DEF Init, Balanced
  <1>2. Balanced => StoredOnce
    <2> SUFFICES ASSUME Balanced, NEW k \in Kinds, NEW c
                 PROVE  Copies(Entry(k, c), sends) <= 1 + Copies(Entry(k, c), forgotten)
      BY DEF Balanced, StoredOnce
    <2>1. /\ Copies(Entry(k, c), sends) \in Nat /\ Copies(Entry(k, c), forgotten) \in Nat
          /\ Cardinality(Due(k, c)) \in Nat
      BY CopiesType, DueFinite DEF Balanced
    <2> QED BY <2>1 DEF Balanced
  <1> QED BY <1>1, <1>2, NextBalanced, CaptureInvariant, PTL DEF Spec
=============================================================================
