---------------------------- MODULE OutcomesProofs ----------------------------
(***************************************************************************)
(* Proofs about Outcomes, for every set of hook processes, commands, keys  *)
(* and sessions, every window, every cap and every bound.                  *)
(***************************************************************************)
EXTENDS Outcomes, FiniteSetTheorems, SequenceTheorems, TLAPS

\* No hook but p moves.
OthersStay(p) ==
    \A q \in Proc \ {p} :
        /\ pc'[q] = pc[q] /\ cmd'[q] = cmd[q] /\ who'[q] = who[q] /\ about'[q] = about[q]
        /\ cause'[q] = cause[q] /\ event'[q] = event[q] /\ summary'[q] = summary[q]

\* The steps, one by one.
LEMMA StepCases ==
    ASSUME [Next]_vars
    PROVE  \/ \E p \in Proc : \/ \E c \in Command : Fails(p, c) \/ Succeeds(p, c)
                              \/ Stops(p)
           \/ \E p \in Proc : Track(p) \/ TrackAgain(p) \/ Detect(p) \/ Resolve(p) \/ Recover(p)
           \/ \E p \in Proc : Validate(p) \/ NothingToValidate(p) \/ Record(p) \/ Signal(p)
           \/ \E p \in Proc : Summarise(p) \/ EndSession(p) \/ EndsNothing(p)
           \/ \E p \in Proc : Clear(p) \/ Discard(p) \/ Crash(p) \/ UpdateFails(p)
           \/ Tick \/ UNCHANGED vars
  BY DEF Next, Bash, Stop

\* The session a hook works with was started, and none is forgotten.
LEMMA SessionEnsured ==
    ASSUME OutcomesTypeOK, NEW s \in Sessions, EnsureSession(s)
    PROVE  /\ used \subseteq used' /\ used' \subseteq Session /\ s \in used' \union {None}
           /\ current' \in used' \union {None}
           /\ current' = current \/ current' \in Session \ used
  BY DEF OutcomesTypeOK, EnsureSession, Sessions

\* What a hook does about its event.
LEMMA EventMade ==
    ASSUME OutcomesTypeOK, NEW p \in Proc, NEW kind \in {"detected", "resolved", "passed"},
           NEW s \in Sessions, NEW why \in Failure \union {None}, cmd[p] \in Command,
           NewEvent(p, kind, s, why)
    PROVE  /\ event' \in [Proc -> Outcome \union {None}] /\ event'[p] \in Outcome
           /\ event'[p].kind = kind /\ event'[p].session = s /\ event'[p].cmd = cmd[p]
           /\ event'[p].cause = why /\ event'[p].of = about[p]
           /\ \A q \in Proc \ {p} : event'[q] = event[q]
  <1>1. PICK e : e = [kind |-> kind, cmd |-> cmd[p], session |-> s, at |-> now, cause |-> why,
                      of |-> about[p]]
    OBVIOUS
  <1>2. e \in Outcome
    <2>1. about[p] \in 0..MaxHooks
      BY OutcomesAssumption DEF OutcomesTypeOK
    <2>2. QED
      BY <1>1, <2>1 DEF Outcome, OutcomesTypeOK
  <1>3. event' = [event EXCEPT ![p] = e]
    BY <1>1 DEF NewEvent
  <1>4. event \in [Proc -> Outcome \union {None}]
    BY DEF OutcomesTypeOK
  <1>5. event'[p] = e
    BY <1>3, <1>4
  <1>6. QED
    BY <1>1, <1>2, <1>3, <1>4, <1>5

\* The hook that is over.
LEMMA Finished ==
    ASSUME OutcomesTypeOK, NEW p \in Proc, Finish(p)
    PROVE  /\ pc' \in [Proc -> Phase] /\ pc'[p] = "idle"
           /\ cmd' \in [Proc -> Command \union {None}]
           /\ who' \in [Proc -> used \union {None}]
           /\ about' \in [Proc -> 0..failures]
           /\ cause' \in [Proc -> Failure \union {None}] /\ cause'[p] = None
           /\ event' \in [Proc -> Outcome \union {None}]
           /\ summary' \in [Proc -> SUBSET Outcome]
           /\ OthersStay(p)
  BY OutcomesAssumption DEF OutcomesTypeOK, Finish, Goto, Phase, OthersStay

\* After its record a hook goes on with nothing to resolve or record, or is over.
LEMMA Continued ==
    ASSUME OutcomesTypeOK, NEW p \in Proc, Continue(p)
    PROVE  /\ pc' \in [Proc -> Phase] /\ pc'[p] \in {"idle", "validate"}
           /\ pc'[p] = "validate" => cmd'[p] = cmd[p] /\ cause'[p] = cause[p]
           /\ pc'[p] = "idle" => cause'[p] = None
           /\ cmd' \in [Proc -> Command \union {None}]
           /\ who' \in [Proc -> used \union {None}]
           /\ about' \in [Proc -> 0..failures]
           /\ cause' \in [Proc -> Failure \union {None}]
           /\ event' \in [Proc -> Outcome \union {None}]
           /\ summary' \in [Proc -> SUBSET Outcome]
           /\ OthersStay(p)
  <1>1. CASE event[p].kind = "resolved"
    BY <1>1 DEF OutcomesTypeOK, Continue, Goto, Phase, OthersStay
  <1>2. CASE event[p].kind # "resolved"
    <2>1. Finish(p)
      BY <1>2 DEF Continue
    <2>2. QED
      BY <2>1, Finished
  <1>3. QED
    BY <1>1, <1>2

\* Recording appends the event and drops no more than the oldest outcomes.
LEMMA Pushed ==
    ASSUME OutcomesTypeOK, NEW p \in Proc, event[p] \in Outcome,
           Record(p), ~IsDuplicate(event[p])
    PROVE  /\ outcomes' \in Seq(Outcome) /\ Len(outcomes') <= MaxOutcomes
           /\ \E d \in 0..Len(outcomes) :
                 /\ Len(outcomes') = Len(outcomes) + 1 - d
                 /\ ~trimmed' => d = 0 /\ ~trimmed
                 /\ \A i \in 1..Len(outcomes') :
                       \/ i + d \in 1..Len(outcomes) /\ outcomes'[i] = outcomes[i + d]
                       \/ i + d = Len(outcomes) + 1 /\ outcomes'[i] = event[p]
  <1>1. PICK all : all = Append(outcomes, event[p])
    OBVIOUS
  <1>2. /\ outcomes \in Seq(Outcome) /\ Len(outcomes) \in Nat /\ Len(outcomes) <= MaxOutcomes
        /\ MaxOutcomes \in Nat \ {0}
    BY LenProperties, OutcomesAssumption DEF OutcomesTypeOK
  <1>3. /\ all \in Seq(Outcome) /\ Len(all) = Len(outcomes) + 1
        /\ \A i \in 1..Len(outcomes) : all[i] = outcomes[i]
        /\ all[Len(outcomes) + 1] = event[p]
    BY <1>1, <1>2, AppendProperties
  <1>4. outcomes' = Capped(all) /\ trimmed' = (trimmed \/ Len(all) > MaxOutcomes)
    BY <1>1 DEF Record
  <1>5. CASE Len(all) > MaxOutcomes
    <2>1. Len(outcomes) = MaxOutcomes
      BY <1>2, <1>3, <1>5
    <2>2. outcomes' = SubSeq(all, 2, Len(all))
      <3>1. Len(all) - MaxOutcomes + 1 = 2
        BY <1>2, <1>3, <2>1
      <3>2. outcomes' = SubSeq(all, Len(all) - MaxOutcomes + 1, Len(all))
        BY <1>4, <1>5 DEF Capped
      <3>3. QED
        BY <3>1, <3>2
    <2>3. /\ outcomes' \in Seq(Outcome) /\ Len(outcomes') = Len(outcomes)
          /\ \A i \in 1..Len(outcomes') : outcomes'[i] = all[i + 1]
      <3>1. PICK n \in Nat : n = Len(all)
        BY <1>2, <1>3
      <3>2. \A i \in 2..n : all[i] \in Outcome
        BY <1>3, <3>1
      <3>3. /\ SubSeq(all, 2, n) \in Seq(Outcome)
            /\ Len(SubSeq(all, 2, n)) = IF 2 <= n THEN n - 2 + 1 ELSE 0
            /\ \A i \in 1..(n - 2 + 1) : SubSeq(all, 2, n)[i] = all[2 + i - 1]
        BY <3>2, SubSeqProperties
      <3>4. n = Len(outcomes) + 1 /\ n >= 2
        BY <1>2, <1>3, <2>1, <3>1
      <3>5. outcomes' = SubSeq(all, 2, n)
        BY <2>2, <3>1
      <3>6. outcomes' \in Seq(Outcome) /\ Len(outcomes') = n - 1
        BY <3>3, <3>4, <3>5
      <3>7. \A i \in 1..(n - 1) : outcomes'[i] = all[i + 1]
        BY <3>3, <3>5
      <3>8. QED
        BY <1>2, <3>4, <3>6, <3>7
    <2>4. \A i \in 1..Len(outcomes') :
             \/ i + 1 \in 1..Len(outcomes) /\ outcomes'[i] = outcomes[i + 1]
             \/ i + 1 = Len(outcomes) + 1 /\ outcomes'[i] = event[p]
      BY <1>2, <1>3, <2>3
    <2>5. 1 \in 0..Len(outcomes) /\ Len(outcomes') = Len(outcomes) + 1 - 1
      BY <1>2, <2>1, <2>3
    <2>6. trimmed'
      BY <1>4, <1>5
    <2>7. QED
      BY <1>2, <2>1, <2>3, <2>4, <2>5, <2>6
  <1>6. CASE ~(Len(all) > MaxOutcomes)
    <2>1. outcomes' = all /\ Len(all) <= MaxOutcomes
      BY <1>2, <1>3, <1>4, <1>6 DEF Capped
    <2>2. \A i \in 1..Len(outcomes') :
             \/ i + 0 \in 1..Len(outcomes) /\ outcomes'[i] = outcomes[i + 0]
             \/ i + 0 = Len(outcomes) + 1 /\ outcomes'[i] = event[p]
      BY <1>2, <1>3, <2>1
    <2>3. 0 \in 0..Len(outcomes) /\ Len(outcomes') = Len(outcomes) + 1 - 0
      BY <1>2, <1>3, <2>1
    <2>4. ~trimmed' => ~trimmed
      BY <1>4
    <2>5. QED
      BY <1>3, <2>1, <2>2, <2>3, <2>4
  <1>7. QED
    BY <1>5, <1>6

\* The empty list.
LEMMA NothingListed ==
    /\ <<>> \in Seq(Outcome) /\ Len(<<>>) = 0 /\ Len(<<>>) <= MaxOutcomes
    /\ DOMAIN <<>> = {} /\ ToSet(<<>>) = {}
  <1>1. <<>> \in Seq(Outcome) /\ Len(<<>>) = 0
    OBVIOUS
  <1>2. DOMAIN <<>> = {}
    OBVIOUS
  <1>3. ToSet(<<>>) = {}
    BY <1>2 DEF ToSet
  <1>4. QED
    BY <1>1, <1>2, <1>3, OutcomesAssumption

----------------------------------------------------------------------------
(* Types *)

LEMMA InitInv == Init => OutcomesInv
  <1> SUFFICES ASSUME Init PROVE OutcomesInv
    OBVIOUS
  <1> USE OutcomesAssumption
  <1>1. OutcomesTypeOK
    <2>1. outcomes \in Seq(Outcome) /\ Len(outcomes) <= MaxOutcomes
      BY NothingListed DEF Init
    <2>2. /\ hooks \in 0..MaxHooks /\ faults \in 0..MaxFaults /\ failures \in 0..hooks
          /\ now \in 0..MaxTime
      BY DEF Init
    <2>3. /\ current \in used \union {None} /\ used \subseteq Session
          /\ who \in [Proc -> used \union {None}]
      BY DEF Init, Sessions
    <2>4. /\ errors \in [Keys -> Failure \union {None}] /\ pc \in [Proc -> Phase]
          /\ cmd \in [Proc -> Command \union {None}]
          /\ cause \in [Proc -> Failure \union {None}]
          /\ event \in [Proc -> Outcome \union {None}]
          /\ summary \in [Proc -> SUBSET Outcome]
          /\ about \in [Proc -> 0..failures]
      BY DEF Init, Phase
    <2>5. /\ suppressed \subseteq Outcome /\ dropped \subseteq 1..failures
          /\ exposed \subseteq Outcome /\ lost \subseteq Outcome /\ trimmed \in BOOLEAN
      BY DEF Init
    <2>6. QED
      BY <2>1, <2>2, <2>3, <2>4, <2>5 DEF OutcomesTypeOK
  <1>2. \A n \in 1..MaxHooks : Claims(n) = {}
    BY DEF Init, Claims
  <1>3. Numbered
    <2>1. {p \in Proc : pc[p] = "track"} = {}
      BY DEF Init
    <2>2. IsFiniteSet({}) /\ Cardinality({}) = 0
      BY FS_EmptySet
    <2>3. failures + 0 <= hooks
      BY DEF Init
    <2>4. PICK T : T = {p \in Proc : pc[p] = "track"}
      OBVIOUS
    <2>5. IsFiniteSet(T) /\ failures + Cardinality(T) <= hooks
      BY <2>1, <2>2, <2>3, <2>4
    <2>6. QED
      BY <1>2, <2>4, <2>5 DEF Numbered
  <1>4. HooksKnow /\ Spaced /\ NoSilentError /\ ReportedUnlessOverlapping /\ RecoveredOnce
    <2>1. Cardinality(dropped) = 0 /\ faults = 0
      BY FS_EmptySet DEF Init
    <2>2. QED
      BY <2>1 DEF Init, HooksKnow, Spaced, NoSilentError, ReportedUnlessOverlapping, RecoveredOnce
  <1>5. Overlaps
    BY DEF Init, Overlaps, ToSet
  <1>6. QED
    BY <1>1, <1>3, <1>4, <1>5 DEF OutcomesInv

\* A hook that tracks an error has a number for it.
LEMMA NumberLeft ==
    ASSUME OutcomesTypeOK, Numbered, NEW p \in Proc, pc[p] = "track"
    PROVE  failures + 1 <= hooks /\ failures + 1 \in 1..MaxHooks
  <1>1. PICK T : T = {q \in Proc : pc[q] = "track"}
    OBVIOUS
  <1>2. IsFiniteSet(T) /\ p \in T /\ failures + Cardinality(T) <= hooks
    BY <1>1 DEF Numbered
  <1>3. Cardinality(T) \in Nat /\ Cardinality(T) # 0
    BY <1>2, FS_CardinalityType, FS_EmptySet
  <1>4. failures \in Nat /\ hooks \in Nat /\ hooks <= MaxHooks /\ MaxHooks \in Nat
    BY OutcomesAssumption DEF OutcomesTypeOK
  <1>5. QED
    BY <1>2, <1>3, <1>4

\* What a hook has not recorded yet is one of the failures.
LEMMA UnrecordedTyped ==
    ASSUME OutcomesTypeOK, NEW p \in Proc
    PROVE  Unrecorded(p) \subseteq 1..failures
  <1>1. about[p] \in 0..failures /\ failures \in Nat
    BY OutcomesAssumption DEF OutcomesTypeOK
  <1>2. \A n \in 0..failures : n # 0 => n \in 1..failures
    BY <1>1
  <1>3. \A n \in Unrecorded(p) : n = about[p] /\ n # 0
    BY DEF Unrecorded
  <1>4. QED
    BY <1>1, <1>2, <1>3

LEMMA TypePreserved ==
    ASSUME OutcomesTypeOK, HooksKnow, Numbered, [Next]_vars
    PROVE  OutcomesTypeOK'
  <1> USE OutcomesAssumption
  <1>1. ASSUME NEW p \in Proc, NEW c \in Command, Fails(p, c)
        PROVE  OutcomesTypeOK'
    <2>1. PICK s \in Sessions : EnsureSession(s) /\ who' = [who EXCEPT ![p] = s]
      BY <1>1 DEF Fails
    <2>2. who' \in [Proc -> used' \union {None}]
      BY <2>1, SessionEnsured DEF OutcomesTypeOK
    <2>3. QED
      BY <1>1, <2>1, <2>2, SessionEnsured DEF OutcomesTypeOK, Fails, Goto, Phase, history
  <1>2. ASSUME NEW p \in Proc, NEW c \in Command, Succeeds(p, c)
        PROVE  OutcomesTypeOK'
    <2>1. PICK s \in Sessions : EnsureSession(s)
      BY <1>2 DEF Succeeds
    <2>2. who' \in [Proc -> used' \union {None}]
      BY <1>2, <2>1, SessionEnsured DEF OutcomesTypeOK, Succeeds
    <2>3. QED
      BY <1>2, <2>1, <2>2, SessionEnsured DEF OutcomesTypeOK, Succeeds, Goto, Phase, history
  <1>3. ASSUME NEW p \in Proc, Stops(p)
        PROVE  OutcomesTypeOK'
    BY <1>3 DEF OutcomesTypeOK, Stops, Goto, Phase, StopPhases, disk, history
  <1>4. ASSUME NEW p \in Proc, Track(p)
        PROVE  OutcomesTypeOK'
    <2>1. cmd[p] \in Command /\ KeyOf[cmd[p]] \in Keys
      BY <1>4 DEF Track, HooksKnow, StopPhases, Keys
    <2>2. failures + 1 <= hooks /\ failures + 1 \in 1..MaxHooks
      BY <1>4, NumberLeft DEF Track
    <2>3. PICK f : f = [n |-> failures + 1, cmd |-> cmd[p], at |-> now, session |-> who[p]]
      OBVIOUS
    <2>4. f \in Failure
      BY <2>1, <2>2, <2>3 DEF Failure, OutcomesTypeOK, Sessions
    <2>5. errors' = [errors EXCEPT ![KeyOf[cmd[p]]] = f]
      BY <1>4, <2>3 DEF Track
    <2>6. errors' \in [Keys -> Failure \union {None}]
      BY <2>1, <2>4, <2>5 DEF OutcomesTypeOK
    <2>7. failures' \in 0..hooks'
      BY <1>4, <2>2 DEF Track, OutcomesTypeOK
    <2>8. about' \in [Proc -> 0..failures'] /\ dropped' \subseteq 1..failures'
      BY <1>4 DEF Track, OutcomesTypeOK
    <2>9. QED
      BY <1>4, <2>6, <2>7, <2>8 DEF Track, OutcomesTypeOK, locals, Goto, Phase
  <1>5. ASSUME NEW p \in Proc,
               TrackAgain(p) \/ NothingToValidate(p)
        PROVE  OutcomesTypeOK'
    BY <1>5, Finished DEF TrackAgain, NothingToValidate, OutcomesTypeOK, disk, history
  <1>6. ASSUME NEW p \in Proc, Detect(p)
        PROVE  OutcomesTypeOK'
    <2>1. cmd[p] \in Command /\ who[p] \in Sessions
      BY <1>6 DEF Detect, HooksKnow, OutcomesTypeOK, StopPhases, Sessions
    <2>2. event' \in [Proc -> Outcome \union {None}]
      BY <1>6, <2>1, EventMade DEF Detect
    <2>3. QED
      BY <1>6, <2>2 DEF Detect, OutcomesTypeOK, Goto, Phase, disk, history
  <1>7. ASSUME NEW p \in Proc, Resolve(p)
        PROVE  OutcomesTypeOK'
    <2>1. cmd[p] \in Command /\ KeyOf[cmd[p]] \in Keys
      BY <1>7 DEF Resolve, HooksKnow, StopPhases, Keys
    <2>2. QED
      BY <1>7, <2>1 DEF Resolve, OutcomesTypeOK, Goto, Phase, history
  <1>8. ASSUME NEW p \in Proc, Recover(p)
        PROVE  OutcomesTypeOK'
    <2>1. cmd[p] \in Command /\ cause[p] \in Failure \union {None}
      BY <1>8 DEF Recover, HooksKnow, OutcomesTypeOK, StopPhases
    <2>2. PICK s \in Sessions : EnsureSession(s) /\ NewEvent(p, "resolved", s, cause[p])
      BY <1>8 DEF Recover
    <2>3. event' \in [Proc -> Outcome \union {None}]
      BY <2>1, <2>2, EventMade
    <2>4. who' \in [Proc -> used' \union {None}]
      BY <1>8, <2>2, SessionEnsured DEF OutcomesTypeOK, Recover
    <2>5. QED
      BY <1>8, <2>2, <2>3, <2>4, SessionEnsured
         DEF Recover, OutcomesTypeOK, Goto, Phase, history
  <1>9. ASSUME NEW p \in Proc, Validate(p)
        PROVE  OutcomesTypeOK'
    <2>1. cmd[p] \in Command
      BY <1>9 DEF Validate
    <2>2. PICK s \in Sessions : EnsureSession(s) /\ NewEvent(p, "passed", s, None)
      BY <1>9 DEF Validate
    <2>3. event' \in [Proc -> Outcome \union {None}]
      BY <2>1, <2>2, EventMade
    <2>4. who' \in [Proc -> used' \union {None}]
      BY <1>9, <2>2, SessionEnsured DEF OutcomesTypeOK, Validate
    <2>5. QED
      BY <1>9, <2>2, <2>3, <2>4, SessionEnsured
         DEF Validate, OutcomesTypeOK, Goto, Phase, history
  <1>10. ASSUME NEW p \in Proc, Record(p)
         PROVE  OutcomesTypeOK'
    <2>1. event[p] \in Outcome
      BY <1>10 DEF Record, HooksKnow
    <2>2. CASE IsDuplicate(event[p])
      <3>1. Continue(p) /\ UNCHANGED <<outcomes, exposed, trimmed>>
        BY <1>10, <2>2 DEF Record
      <3>2. suppressed' \subseteq Outcome
        BY <1>10, <2>1, <2>2 DEF Record, OutcomesTypeOK
      <3>3. QED
        BY <1>10, <3>1, <3>2, Continued DEF Record, OutcomesTypeOK
    <2>3. CASE ~IsDuplicate(event[p])
      <3>1. outcomes' \in Seq(Outcome) /\ Len(outcomes') <= MaxOutcomes
        BY <1>10, <2>1, <2>3, Pushed
      <3>2. trimmed' \in BOOLEAN /\ exposed' \subseteq Outcome
        <4>1. trimmed' = (trimmed \/ Len(Append(outcomes, event[p])) > MaxOutcomes)
          BY <1>10, <2>3 DEF Record
        <4>2. exposed' = exposed \union {event[p]} \/ exposed' = exposed
          BY <1>10, <2>3 DEF Record
        <4>3. QED
          BY <2>1, <4>1, <4>2 DEF OutcomesTypeOK
      <3>3. Goto(p, "signal") /\ UNCHANGED <<locals, suppressed>>
        BY <1>10, <2>3 DEF Record
      <3>4. QED
        BY <1>10, <3>1, <3>2, <3>3 DEF Record, OutcomesTypeOK, Goto, Phase, locals
    <2>4. QED
      BY <2>2, <2>3
  <1>11. ASSUME NEW p \in Proc, Signal(p)
         PROVE  OutcomesTypeOK'
    <2>1. /\ used \subseteq used' /\ used' \subseteq Session
          /\ current' \in used' \union {None}
      BY <1>11, SessionEnsured DEF Signal, OutcomesTypeOK
    <2>2. who' \in [Proc -> used' \union {None}]
      BY <1>11, <2>1, Continued DEF Signal
    <2>3. QED
      BY <1>11, <2>1, <2>2, Continued DEF Signal, OutcomesTypeOK, history
  <1>12. ASSUME NEW p \in Proc, Summarise(p)
         PROVE  OutcomesTypeOK'
    <2>1. ForSession(outcomes, who[p]) \subseteq Outcome
      BY DEF ForSession, OutcomesTypeOK, ToSet
    <2>2. summary' \in [Proc -> SUBSET Outcome]
      BY <1>12, <2>1 DEF Summarise, OutcomesTypeOK
    <2>3. QED
      BY <1>12, <2>2 DEF Summarise, OutcomesTypeOK, Goto, Phase, StopPhases, disk, history
  <1>13. ASSUME NEW p \in Proc, EndSession(p)
         PROVE  OutcomesTypeOK'
    BY <1>13 DEF EndSession, OutcomesTypeOK, Goto, Phase, StopPhases, history
  <1>14. ASSUME NEW p \in Proc, EndsNothing(p)
         PROVE  OutcomesTypeOK'
    BY <1>14, Finished DEF EndsNothing, OutcomesTypeOK, history
  <1>15. ASSUME NEW p \in Proc, Clear(p) \/ Discard(p)
         PROVE  OutcomesTypeOK'
    <2>1. outcomes' \in Seq(Outcome) /\ Len(outcomes') <= MaxOutcomes
      BY <1>15, NothingListed DEF Clear, Discard
    <2>2. lost' \subseteq Outcome
      BY <1>15 DEF Clear, Discard, OutcomesTypeOK, ToSet
    <2>3. QED
      BY <1>15, <2>1, <2>2, Finished DEF Clear, Discard, OutcomesTypeOK
  <1>16. ASSUME NEW p \in Proc, Crash(p)
         PROVE  OutcomesTypeOK'
    <2>1. dropped' \subseteq 1..failures
      BY <1>16, UnrecordedTyped DEF Crash, OutcomesTypeOK
    <2>2. QED
      BY <1>16, <2>1, Finished DEF Crash, OutcomesTypeOK, disk, history
  <1>17. ASSUME NEW p \in Proc, UpdateFails(p)
         PROVE  OutcomesTypeOK'
    <2>1. /\ pc' \in [Proc -> Phase]
          /\ cmd' \in [Proc -> Command \union {None}]
          /\ who' \in [Proc -> used \union {None}]
          /\ cause' \in [Proc -> Failure \union {None}]
          /\ event' \in [Proc -> Outcome \union {None}]
          /\ summary' \in [Proc -> SUBSET Outcome]
          /\ about' \in [Proc -> 0..failures]
      BY <1>17, Finished, Continued DEF UpdateFails, OutcomesTypeOK, Goto, Phase, locals
    <2>2. dropped' \subseteq 1..failures
      BY <1>17, UnrecordedTyped DEF UpdateFails, OutcomesTypeOK
    <2>3. QED
      BY <1>17, <2>1, <2>2 DEF UpdateFails, OutcomesTypeOK, disk, history
  <1>18. CASE Tick
    BY <1>18 DEF Tick, OutcomesTypeOK, disk, locals, history
  <1>19. CASE UNCHANGED vars
    BY <1>19 DEF OutcomesTypeOK, vars, disk, locals, history
  <1>20. QED
    BY <1>1, <1>2, <1>3, <1>4, <1>5, <1>6, <1>7, <1>8, <1>9, <1>10, <1>11, <1>12,
       <1>13, <1>14, <1>15, <1>16, <1>17, <1>18, <1>19, StepCases

----------------------------------------------------------------------------
(* What one hook does, and the others do not *)

\* A step of p.
Step(p) ==
    \/ \E c \in Command : Fails(p, c) \/ Succeeds(p, c)
    \/ Stops(p) \/ Bash(p) \/ Stop(p) \/ Crash(p) \/ UpdateFails(p)

\* It leaves the other hooks where they are, and forgets no session.
LEMMA OneMoves ==
    ASSUME OutcomesTypeOK, NEW p \in Proc, Step(p)
    PROVE  OthersStay(p) /\ used \subseteq used' /\ used' \subseteq Session
  <1> USE DEF OutcomesTypeOK
  <1>1. CASE \E c \in Command : Fails(p, c) \/ Succeeds(p, c)
    BY <1>1, SessionEnsured DEF Fails, Succeeds, Goto, OthersStay
  <1>2. CASE Stops(p)
    BY <1>2 DEF Stops, Goto, OthersStay, disk
  <1>3. CASE Track(p) \/ Resolve(p)
    BY <1>3 DEF Track, Resolve, Goto, OthersStay, locals
  <1>4. CASE TrackAgain(p) \/ NothingToValidate(p)
    BY <1>4, Finished DEF TrackAgain, NothingToValidate, disk
  <1>5. CASE Detect(p)
    BY <1>5 DEF Detect, NewEvent, Goto, OthersStay, disk
  <1>6. CASE Recover(p)
    BY <1>6, SessionEnsured DEF Recover, NewEvent, Goto, OthersStay
  <1>7. CASE Validate(p)
    BY <1>7, SessionEnsured DEF Validate, NewEvent, Goto, OthersStay
  <1>8. CASE Record(p)
    <2>1. Continue(p) \/ (Goto(p, "signal") /\ UNCHANGED locals)
      BY <1>8 DEF Record
    <2>2. UNCHANGED used
      BY <1>8 DEF Record
    <2>3. OthersStay(p)
      BY <2>1, Continued DEF Goto, OthersStay, locals
    <2>4. QED
      BY <2>2, <2>3
  <1>9. CASE Signal(p)
    <2>1. OthersStay(p)
      BY <1>9, Continued DEF Signal
    <2>2. used \subseteq used' /\ used' \subseteq Session
      BY <1>9, SessionEnsured DEF Signal
    <2>3. QED
      BY <2>1, <2>2
  <1>10. CASE Summarise(p)
    BY <1>10 DEF Summarise, Goto, OthersStay, disk
  <1>11. CASE EndSession(p)
    BY <1>11 DEF EndSession, Goto, OthersStay
  <1>12. CASE EndsNothing(p) \/ Clear(p) \/ Discard(p)
    BY <1>12, Finished DEF EndsNothing, Clear, Discard
  <1>13. CASE Crash(p)
    BY <1>13, Finished DEF Crash, disk
  <1>14. CASE UpdateFails(p)
    <2>1. UNCHANGED used
      BY <1>14 DEF UpdateFails, disk
    <2>2. Finish(p) \/ Continue(p) \/ (Goto(p, "validate") /\ UNCHANGED locals)
      BY <1>14 DEF UpdateFails
    <2>3. OthersStay(p)
      BY <2>2, Finished, Continued DEF Goto, OthersStay, locals
    <2>4. QED
      BY <2>1, <2>3
  <1>15. QED
    BY <1>1, <1>2, <1>3, <1>4, <1>5, <1>6, <1>7, <1>8, <1>9, <1>10, <1>11, <1>12, <1>13, <1>14
       DEF Step, Bash, Stop

\* If p knows what its phase calls for, all hooks do.
LEMMA OthersKnow ==
    ASSUME HooksKnow, NEW p \in Proc, OthersStay(p), used \subseteq used',
           pc'[p] \notin StopPhases \union {"idle"} => cmd'[p] \in Command,
           pc'[p] \in {"record", "signal"} =>
               /\ event'[p] \in Outcome
               /\ event'[p].session \in used' \union {None}
               /\ event'[p].kind # "resolved" => event'[p].cause = None,
           cause'[p] # None => pc'[p] = "recover"
    PROVE  HooksKnow'
  <1>1. ASSUME NEW q \in Proc \ {p}
        PROVE  /\ pc'[q] \notin StopPhases \union {"idle"} => cmd'[q] \in Command
               /\ pc'[q] \in {"record", "signal"} =>
                     /\ event'[q] \in Outcome
                     /\ event'[q].session \in used' \union {None}
                     /\ event'[q].kind # "resolved" => event'[q].cause = None
               /\ cause'[q] # None => pc'[q] = "recover"
    BY DEF HooksKnow, OthersStay
  <1>2. QED
    BY <1>1 DEF HooksKnow

LEMMA KnowledgePreserved ==
    ASSUME OutcomesTypeOK, HooksKnow, [Next]_vars
    PROVE  HooksKnow'
  <1> USE DEF StopPhases
  <1>1. ASSUME NEW p \in Proc, Step(p)
        PROVE  HooksKnow'
    <2>1. OthersStay(p) /\ used \subseteq used'
      BY <1>1, OneMoves
    <2>2. CASE \E c \in Command : Fails(p, c) \/ Succeeds(p, c)
      <3>1. cmd'[p] \in Command /\ cause' = cause /\ pc[p] = "idle" /\ pc'[p] \in {"track", "resolve"}
        BY <2>2 DEF Fails, Succeeds, Goto, OutcomesTypeOK
      <3>2. cause'[p] = None
        BY <3>1 DEF HooksKnow
      <3>3. QED
        BY <2>1, <3>1, <3>2, OthersKnow
    <2>3. CASE Stops(p) \/ Summarise(p) \/ EndSession(p)
      <3>1. cause'[p] = cause[p] /\ pc[p] # "recover" /\ pc'[p] \in StopPhases
        BY <2>3 DEF Stops, Summarise, EndSession, Goto, OutcomesTypeOK
      <3>2. cause'[p] = None
        BY <3>1 DEF HooksKnow
      <3>3. QED
        BY <2>1, <3>1, <3>2, OthersKnow
    <2>4. CASE Track(p)
      <3>1. /\ pc[p] = "track" /\ pc'[p] = "detect"
            /\ cmd'[p] = cmd[p] /\ cause'[p] = cause[p]
        BY <2>4 DEF Track, Goto, OutcomesTypeOK, locals
      <3>2. cmd'[p] \in Command /\ cause'[p] = None
        BY <3>1 DEF HooksKnow
      <3>3. QED
        BY <2>1, <3>1, <3>2, OthersKnow
    <2>5. CASE Resolve(p)
      <3>1. /\ pc[p] = "resolve" /\ pc'[p] \in {"validate", "recover"} /\ cmd'[p] = cmd[p]
            /\ cause'[p] # None => pc'[p] = "recover"
        BY <2>5 DEF Resolve, Goto, OutcomesTypeOK
      <3>2. cmd'[p] \in Command
        BY <3>1 DEF HooksKnow
      <3>3. QED
        BY <2>1, <3>1, <3>2, OthersKnow
    <2>6. CASE Detect(p) \/ Recover(p) \/ Validate(p)
      <3>1. /\ pc[p] \in {"detect", "recover", "validate"} /\ pc'[p] = "record"
            /\ cmd'[p] = cmd[p]
        BY <2>6 DEF Detect, Recover, Validate, Goto, OutcomesTypeOK
      <3>2. cmd[p] \in Command
        BY <3>1 DEF HooksKnow
      <3>3. cause'[p] = None
        BY <2>6 DEF Detect, Recover, Validate, OutcomesTypeOK, HooksKnow
      <3>4. \E kind \in {"detected", "resolved", "passed"}, s \in Sessions,
               why \in Failure \union {None} :
               /\ NewEvent(p, kind, s, why) /\ s \in used' \union {None}
               /\ kind # "resolved" => why = None
        <4>1. CASE Detect(p)
          <5>1. who[p] \in Sessions /\ who[p] \in used' \union {None}
            BY <2>1 DEF OutcomesTypeOK, Sessions
          <5>2. NewEvent(p, "detected", who[p], None)
            BY <4>1 DEF Detect
          <5>3. QED
            BY <5>1, <5>2
        <4>2. CASE Recover(p)
          <5>1. PICK s \in Sessions : EnsureSession(s) /\ NewEvent(p, "resolved", s, cause[p])
            BY <4>2 DEF Recover
          <5>2. s \in used' \union {None} /\ cause[p] \in Failure \union {None}
            BY <5>1, SessionEnsured DEF OutcomesTypeOK
          <5>3. QED
            BY <5>1, <5>2
        <4>3. CASE Validate(p)
          <5>1. PICK s \in Sessions : EnsureSession(s) /\ NewEvent(p, "passed", s, None)
            BY <4>3 DEF Validate
          <5>2. s \in used' \union {None}
            BY <5>1, SessionEnsured
          <5>3. QED
            BY <5>1, <5>2
        <4>4. QED
          BY <2>6, <4>1, <4>2, <4>3
      <3>5. /\ event'[p] \in Outcome /\ event'[p].session \in used' \union {None}
            /\ event'[p].kind # "resolved" => event'[p].cause = None
        BY <3>2, <3>4, EventMade
      <3>6. QED
        BY <2>1, <3>1, <3>2, <3>3, <3>5, OthersKnow
    <2>7. CASE Finish(p)
      <3>1. pc'[p] = "idle" /\ cause'[p] = None
        BY <2>7, Finished
      <3>2. QED
        BY <2>1, <3>1, OthersKnow
    <2>8. CASE pc[p] \in {"record", "signal"} /\ Continue(p)
      <3>1. /\ pc'[p] \in {"idle", "validate"}
            /\ pc'[p] = "validate" => cmd'[p] = cmd[p] /\ cause'[p] = cause[p]
            /\ pc'[p] = "idle" => cause'[p] = None
        BY <2>8, Continued
      <3>2. cmd[p] \in Command /\ cause[p] = None
        BY <2>8 DEF HooksKnow
      <3>3. QED
        BY <2>1, <3>1, <3>2, OthersKnow
    <2>9. CASE pc[p] = "record" /\ Goto(p, "signal") /\ UNCHANGED locals
      <3>1. /\ pc'[p] = "signal" /\ cmd'[p] = cmd[p] /\ event'[p] = event[p]
            /\ cause'[p] = cause[p]
        BY <2>9 DEF Goto, locals, OutcomesTypeOK
      <3>2. /\ cmd[p] \in Command /\ cause[p] = None /\ event[p] \in Outcome
            /\ event[p].session \in used' \union {None}
            /\ event[p].kind # "resolved" => event[p].cause = None
        BY <2>1, <2>9 DEF HooksKnow
      <3>3. QED
        BY <2>1, <3>1, <3>2, OthersKnow
    <2>10. CASE pc[p] = "resolve" /\ Goto(p, "validate") /\ UNCHANGED locals
      <3>1. pc'[p] = "validate" /\ cmd'[p] = cmd[p] /\ cause'[p] = cause[p]
        BY <2>10 DEF Goto, locals, OutcomesTypeOK
      <3>2. cmd[p] \in Command /\ cause[p] = None
        BY <2>10 DEF HooksKnow
      <3>3. QED
        BY <2>1, <3>1, <3>2, OthersKnow
    <2>11. CASE Record(p) \/ Signal(p)
      BY <2>8, <2>9, <2>11 DEF Record, Signal
    <2>12. CASE UpdateFails(p)
      BY <2>7, <2>8, <2>10, <2>12 DEF UpdateFails
    <2>13. QED
      BY <1>1, <2>2, <2>3, <2>4, <2>5, <2>6, <2>7, <2>11, <2>12
         DEF Step, Bash, Stop, TrackAgain, NothingToValidate, EndsNothing, Clear, Discard, Crash
  <1>2. CASE Tick \/ UNCHANGED vars
    BY <1>2 DEF Tick, vars, disk, locals, HooksKnow
  <1>3. QED
    BY <1>1, <1>2 DEF Next, Step

----------------------------------------------------------------------------
(* Where the failures are *)

\* If failure n was nowhere, or in one place only, it still is.
NoSpread(n) ==
    /\ Claims(n) = {} => Claims(n)' = {}
    /\ (\A a, b \in Claims(n) : a = b) => \A a, b \in Claims(n)' : a = b

\* A hook that takes no failure over, makes no recovery and records nothing
\* moves no failure.
LEMMA ClaimsKept ==
    ASSUME NEW n \in 1..MaxHooks, NEW p \in Proc, OthersStay(p),
           UNCHANGED errors, UNCHANGED outcomes \/ outcomes' = <<>>,
           cause'[p] \in {None, cause[p]},
           pc'[p] = "record" => event'[p].cause = None
    PROVE  Claims(n)' \subseteq Claims(n)
  <1>1. DOMAIN outcomes' \subseteq DOMAIN outcomes /\ \A i \in DOMAIN outcomes' : outcomes'[i] = outcomes[i]
    BY NothingListed
  <1>2. \A q \in Proc : cause'[q] # None => cause'[q] = cause[q]
    BY DEF OthersStay
  <1>3. \A q \in Proc :
           pc'[q] = "record" /\ event'[q].cause # None => pc[q] = "record" /\ event'[q] = event[q]
    BY DEF OthersStay
  <1>4. QED
    BY <1>1, <1>2, <1>3 DEF Claims

\* Tracking a failure claims its number, and no other.
LEMMA ClaimsTracked ==
    ASSUME OutcomesTypeOK, HooksKnow, NEW p \in Proc, Track(p), NEW n \in 1..MaxHooks
    PROVE  /\ n # failures + 1 => Claims(n)' \subseteq Claims(n)
           /\ n = failures + 1 =>
                 Claims(n)' \subseteq Claims(n) \union {<<"entry", KeyOf[cmd[p]]>>}
  <1>1. PICK k : k = KeyOf[cmd[p]]
    OBVIOUS
  <1>2. k \in Keys /\ errors \in [Keys -> Failure \union {None}]
    BY <1>1 DEF Track, HooksKnow, StopPhases, Keys, OutcomesTypeOK
  <1>3. /\ \A x \in Keys \ {k} : errors'[x] = errors[x]
        /\ errors'[k].n = failures + 1
    BY <1>1, <1>2 DEF Track
  <1>4. UNCHANGED <<outcomes, cause, event>> /\ \A q \in Proc : pc'[q] = "record" => pc[q] = "record"
    BY DEF Track, locals, Goto, OutcomesTypeOK
  <1>5. QED
    BY <1>1, <1>3, <1>4 DEF Claims

\* Of a failure that moves from a place to another, there are no more.
LEMMA MovedOnce ==
    ASSUME NEW n, NEW a \in Claims(n), NEW b, Claims(n)' \subseteq (Claims(n) \ {a}) \union {b}
    PROVE  NoSpread(n)
  BY DEF NoSpread

LEMMA ResolveMoves ==
    ASSUME OutcomesTypeOK, HooksKnow, NEW p \in Proc, Resolve(p), NEW n \in 1..MaxHooks
    PROVE  NoSpread(n)
  <1>1. PICK k : k = KeyOf[cmd[p]]
    OBVIOUS
  <1>2. k \in Keys /\ errors \in [Keys -> Failure \union {None}]
    BY <1>1 DEF Resolve, HooksKnow, StopPhases, Keys, OutcomesTypeOK
  <1>3. /\ \A x \in Keys \ {k} : errors'[x] = errors[x]
        /\ errors'[k] = None
        /\ cause'[p] = errors[k]
        /\ \A q \in Proc \ {p} : cause'[q] = cause[q]
    BY <1>1, <1>2 DEF Resolve, OutcomesTypeOK
  <1>4. UNCHANGED <<outcomes, event>> /\ \A q \in Proc : pc'[q] = "record" => pc[q] = "record"
    BY DEF Resolve, Goto, OutcomesTypeOK
  <1>5. CASE errors[k] # None /\ errors[k].n = n
    <2>1. <<"entry", k>> \in Claims(n)
      BY <1>2, <1>5 DEF Claims
    <2>2. <<"entry", k>> \notin Claims(n)'
      BY <1>3 DEF Claims
    <2>3. Claims(n)' \subseteq Claims(n) \union {<<"taken", p>>}
      BY <1>3, <1>4 DEF Claims
    <2>4. QED
      BY <2>1, <2>2, <2>3, MovedOnce
  <1>6. CASE ~(errors[k] # None /\ errors[k].n = n)
    <2>1. Claims(n)' \subseteq Claims(n)
      BY <1>3, <1>4, <1>6 DEF Claims
    <2>2. QED
      BY <2>1 DEF NoSpread
  <1>7. QED
    BY <1>5, <1>6

LEMMA RecoverMoves ==
    ASSUME OutcomesTypeOK, HooksKnow, NEW p \in Proc, Recover(p), NEW n \in 1..MaxHooks
    PROVE  NoSpread(n)
  <1>1. cmd[p] \in Command /\ cause[p] \in Failure \union {None}
    BY DEF Recover, HooksKnow, StopPhases, OutcomesTypeOK
  <1>2. PICK s \in Sessions : NewEvent(p, "resolved", s, cause[p])
    BY DEF Recover
  <1>3. event'[p].cause = cause[p] /\ \A q \in Proc \ {p} : event'[q] = event[q]
    BY <1>1, <1>2, EventMade
  <1>4. /\ UNCHANGED <<errors, outcomes>> /\ cause'[p] = None
        /\ \A q \in Proc \ {p} : cause'[q] = cause[q] /\ pc'[q] = pc[q]
    BY DEF Recover, Goto, OutcomesTypeOK
  <1>5. CASE cause[p] # None /\ cause[p].n = n
    <2>1. <<"taken", p>> \in Claims(n)
      BY <1>5 DEF Claims
    <2>2. <<"taken", p>> \notin Claims(n)'
      BY <1>4 DEF Claims
    <2>3. Claims(n)' \subseteq Claims(n) \union {<<"event", p>>}
      BY <1>3, <1>4 DEF Claims
    <2>4. QED
      BY <2>1, <2>2, <2>3, MovedOnce
  <1>6. CASE ~(cause[p] # None /\ cause[p].n = n)
    <2>1. Claims(n)' \subseteq Claims(n)
      BY <1>3, <1>4, <1>6 DEF Claims
    <2>2. QED
      BY <2>1 DEF NoSpread
  <1>7. QED
    BY <1>5, <1>6

\* The list only shifts, and its new outcome was the event of p.
LEMMA RecordMoves ==
    ASSUME OutcomesTypeOK, HooksKnow, NEW p \in Proc, Record(p), ~IsDuplicate(event[p]),
           NEW n \in 1..MaxHooks
    PROVE  NoSpread(n)
  <1>1. event[p] \in Outcome /\ pc[p] = "record"
    BY DEF Record, HooksKnow
  <1>2. PICK d \in 0..Len(outcomes) :
           \A i \in 1..Len(outcomes') :
               \/ i + d \in 1..Len(outcomes) /\ outcomes'[i] = outcomes[i + d]
               \/ i + d = Len(outcomes) + 1 /\ outcomes'[i] = event[p]
    BY <1>1, Pushed
  <1>3. /\ outcomes \in Seq(Outcome) /\ outcomes' \in Seq(Outcome) /\ Len(outcomes) \in Nat
    BY <1>1, Pushed, LenProperties DEF OutcomesTypeOK
  <1>4. DOMAIN outcomes = 1..Len(outcomes) /\ DOMAIN outcomes' = 1..Len(outcomes')
    BY <1>3
  <1>5. /\ UNCHANGED <<errors, cause, event>> /\ pc'[p] = "signal"
        /\ \A q \in Proc \ {p} : pc'[q] = pc[q]
    BY DEF Record, locals, Goto, OutcomesTypeOK
  <1>6. ASSUME NEW a \in Claims(n)'
        PROVE  \/ a \in Claims(n) /\ a # <<"event", p>> /\ \A i : a # <<"outcome", i>>
               \/ \E i \in 1..Len(outcomes') :
                     /\ a = <<"outcome", i>>
                     /\ \/ <<"outcome", i + d>> \in Claims(n)
                        \/ i + d = Len(outcomes) + 1 /\ <<"event", p>> \in Claims(n)
    <2>1. CASE \E i \in DOMAIN outcomes' :
                  a = <<"outcome", i>> /\ outcomes'[i].cause # None /\ outcomes'[i].cause.n = n
      <3>1. PICK i \in 1..Len(outcomes') :
                  a = <<"outcome", i>> /\ outcomes'[i].cause # None /\ outcomes'[i].cause.n = n
        BY <1>4, <2>1
      <3>2. CASE i + d \in 1..Len(outcomes) /\ outcomes'[i] = outcomes[i + d]
        <4>1. <<"outcome", i + d>> \in Claims(n)
          BY <1>4, <3>1, <3>2 DEF Claims
        <4>2. QED
          BY <3>1, <4>1
      <3>3. CASE i + d = Len(outcomes) + 1 /\ outcomes'[i] = event[p]
        <4>1. <<"event", p>> \in Claims(n)
          BY <1>1, <3>1, <3>3 DEF Claims
        <4>2. QED
          BY <3>1, <3>3, <4>1
      <3>4. QED
        BY <1>2, <3>2, <3>3
    <2>2. CASE \/ \E k \in Keys : a = <<"entry", k>> /\ errors'[k] # None /\ errors'[k].n = n
               \/ \E q \in Proc : a = <<"taken", q>> /\ cause'[q] # None /\ cause'[q].n = n
               \/ \E q \in Proc : /\ a = <<"event", q>> /\ pc'[q] = "record"
                                  /\ event'[q].cause # None /\ event'[q].cause.n = n
      <3>1. a \in Claims(n)
        BY <1>5, <2>2 DEF Claims
      <3>2. a # <<"event", p>> /\ \A i : a # <<"outcome", i>>
        BY <1>5, <2>2
      <3>3. QED
        BY <3>1, <3>2
    <2>3. QED
      BY <2>1, <2>2 DEF Claims
  <1>7. ASSUME \A a, b \in Claims(n) : a = b
        PROVE  \A a, b \in Claims(n)' : a = b
    <2> SUFFICES ASSUME NEW a \in Claims(n)', NEW b \in Claims(n)'
                 PROVE  a = b
      OBVIOUS
    <2>1. \A i, j \in 1..Len(outcomes') :
             <<"outcome", i + d>> \in Claims(n) /\ <<"outcome", j + d>> \in Claims(n) => i = j
      BY <1>7, <1>3
    <2>2. \A i : <<"outcome", i>> \in Claims(n) => <<"event", p>> \notin Claims(n)
      BY <1>7
    <2>3. CASE a \in Claims(n) /\ a # <<"event", p>> /\ \A i : a # <<"outcome", i>>
      BY <1>6, <1>7, <2>3
    <2>4. CASE b \in Claims(n) /\ b # <<"event", p>> /\ \A i : b # <<"outcome", i>>
      BY <1>6, <1>7, <2>4
    <2>5. CASE /\ \E i \in 1..Len(outcomes') :
                     /\ a = <<"outcome", i>>
                     /\ \/ <<"outcome", i + d>> \in Claims(n)
                        \/ i + d = Len(outcomes) + 1 /\ <<"event", p>> \in Claims(n)
               /\ \E i \in 1..Len(outcomes') :
                     /\ b = <<"outcome", i>>
                     /\ \/ <<"outcome", i + d>> \in Claims(n)
                        \/ i + d = Len(outcomes) + 1 /\ <<"event", p>> \in Claims(n)
      BY <1>3, <2>1, <2>2, <2>5
    <2>6. QED
      BY <1>6, <2>3, <2>4, <2>5
  <1>8. QED
    BY <1>6, <1>7 DEF NoSpread

\* No step spreads a failure; only tracking gives out a number.
LEMMA NoStepSpreads ==
    ASSUME OutcomesTypeOK, HooksKnow, NEW p \in Proc, Step(p), ~Track(p), NEW n \in 1..MaxHooks
    PROVE  NoSpread(n)
  <1>1. OthersStay(p)
    BY OneMoves
  <1>2. ASSUME UNCHANGED errors, UNCHANGED outcomes \/ outcomes' = <<>>,
               cause'[p] \in {None, cause[p]},
               pc'[p] = "record" => event'[p].cause = None
        PROVE  NoSpread(n)
    <2>1. Claims(n)' \subseteq Claims(n)
      BY <1>1, <1>2, ClaimsKept
    <2>2. QED
      BY <2>1 DEF NoSpread
  <1>3. CASE \E c \in Command : Fails(p, c) \/ Succeeds(p, c)
    BY <1>2, <1>3 DEF Fails, Succeeds, Goto, OutcomesTypeOK
  <1>4. CASE Stops(p) \/ Summarise(p) \/ EndSession(p)
    BY <1>2, <1>4 DEF Stops, Summarise, EndSession, Goto, OutcomesTypeOK, disk
  <1>5. CASE Detect(p) \/ Validate(p)
    <2>1. cmd[p] \in Command /\ who[p] \in Sessions
      BY <1>5 DEF Detect, Validate, HooksKnow, StopPhases, OutcomesTypeOK, Sessions
    <2>2. \E kind \in {"detected", "passed"}, s \in Sessions : NewEvent(p, kind, s, None)
      BY <1>5, <2>1 DEF Detect, Validate
    <2>3. event'[p].cause = None
      BY <2>1, <2>2, EventMade
    <2>4. UNCHANGED <<errors, outcomes, cause>>
      BY <1>5 DEF Detect, Validate, disk
    <2>5. QED
      BY <1>2, <2>3, <2>4
  <1>6. CASE Finish(p) /\ UNCHANGED errors /\ (UNCHANGED outcomes \/ outcomes' = <<>>)
    <2>1. pc'[p] = "idle" /\ cause'[p] = None
      BY <1>6, Finished
    <2>2. QED
      BY <1>2, <1>6, <2>1
  <1>7. CASE Continue(p) /\ UNCHANGED <<errors, outcomes>>
    <2>1. pc'[p] # "record" /\ cause'[p] \in {None, cause[p]}
      BY <1>7, Continued
    <2>2. QED
      BY <1>2, <1>7, <2>1
  <1>8. CASE TrackAgain(p) \/ NothingToValidate(p) \/ EndsNothing(p) \/ Crash(p)
    BY <1>6, <1>8 DEF TrackAgain, NothingToValidate, EndsNothing, Crash, disk
  <1>9. CASE Clear(p) \/ Discard(p)
    BY <1>6, <1>9 DEF Clear, Discard
  <1>10. CASE Signal(p)
    BY <1>7, <1>10 DEF Signal
  <1>11. CASE UpdateFails(p)
    <2>1. UNCHANGED <<errors, outcomes>>
      BY <1>11 DEF UpdateFails, disk
    <2>2. CASE Goto(p, "validate") /\ UNCHANGED locals
      BY <1>2, <2>1, <2>2 DEF Goto, locals, OutcomesTypeOK
    <2>3. QED
      BY <1>6, <1>7, <1>11, <2>1, <2>2 DEF UpdateFails
  <1>12. CASE Record(p)
    <2>1. CASE IsDuplicate(event[p])
      BY <1>7, <1>12, <2>1 DEF Record
    <2>2. CASE ~IsDuplicate(event[p])
      BY <1>12, <2>2, RecordMoves
    <2>3. QED
      BY <2>1, <2>2
  <1>13. QED
    BY <1>3, <1>4, <1>5, <1>8, <1>9, <1>10, <1>11, <1>12, ResolveMoves, RecoverMoves
       DEF Step, Bash, Stop

\* Only Track counts a failure, and only the start of a hook counts a hook.
LEMMA Counters ==
    ASSUME NEW p \in Proc, Step(p), ~Track(p)
    PROVE  /\ UNCHANGED failures
           /\ (\E c \in Command : Fails(p, c)) => hooks' = hooks + 1
           /\ hooks' = hooks \/ hooks' = hooks + 1
  BY DEF Step, Bash, Stop, Fails, Succeeds, Stops, TrackAgain, Detect, Resolve, Recover, Validate,
         NothingToValidate, Record, Signal, Summarise, EndSession, EndsNothing, Clear, Discard,
         Crash, UpdateFails, history

\* Only the hook of a command that fails starts to track.
LEMMA StartsTracking ==
    ASSUME OutcomesTypeOK, NEW p \in Proc, Step(p), pc'[p] = "track"
    PROVE  \E c \in Command : Fails(p, c)
  <1> USE DEF OutcomesTypeOK, Goto
  <1>1. ~Finish(p) /\ ~Continue(p)
    BY Finished, Continued
  <1>2. pc \in [Proc -> Phase]
    OBVIOUS
  <1>3. ~\E phase : phase # "track" /\ Goto(p, phase)
    BY <1>2
  <1>4. ~(\E c \in Command : Succeeds(p, c)) /\ ~Stops(p)
    BY <1>3 DEF Succeeds, Stops
  <1>5. ~Track(p) /\ ~TrackAgain(p) /\ ~Detect(p) /\ ~Resolve(p) /\ ~Recover(p)
    BY <1>1, <1>3 DEF Track, TrackAgain, Detect, Resolve, Recover
  <1>6. ~Validate(p) /\ ~NothingToValidate(p) /\ ~Record(p) /\ ~Signal(p)
    BY <1>1, <1>3 DEF Validate, NothingToValidate, Record, Signal
  <1>7. ~Stop(p)
    BY <1>1, <1>3 DEF Stop, Summarise, EndSession, EndsNothing, Clear, Discard
  <1>8. ~Crash(p) /\ ~UpdateFails(p)
    BY <1>1, <1>3 DEF Crash, UpdateFails
  <1>9. QED
    BY <1>4, <1>5, <1>6, <1>7, <1>8 DEF Step, Bash

\* A hook that starts to track has one more hook to pay for it, and a failure is
\* counted when its hook stops tracking.
LEMMA TrackersCounted ==
    ASSUME OutcomesTypeOK, Numbered, NEW p \in Proc, Step(p)
    PROVE  LET Tracking == {q \in Proc : pc[q] = "track"}
           IN  (IsFiniteSet(Tracking) /\ failures + Cardinality(Tracking) <= hooks)'
  <1>1. PICK T : T = {q \in Proc : pc[q] = "track"}
    OBVIOUS
  <1>2. PICK U : U = {q \in Proc : pc'[q] = "track"}
    OBVIOUS
  <1>3. IsFiniteSet(T) /\ failures + Cardinality(T) <= hooks /\ Cardinality(T) \in Nat
    BY <1>1, FS_CardinalityType DEF Numbered
  <1>4. failures \in Nat /\ hooks \in Nat
    BY OutcomesAssumption DEF OutcomesTypeOK
  <1>5. \A q \in Proc \ {p} : q \in U <=> q \in T
    BY <1>1, <1>2, OneMoves DEF OthersStay
  <1>6. U \subseteq Proc /\ T \subseteq Proc /\ p \in Proc
    BY <1>1, <1>2
  <1>7. IsFiniteSet(U) /\ failures' + Cardinality(U) <= hooks'
    <2>1. CASE Track(p)
      <3>1. p \in T /\ p \notin U /\ failures' = failures + 1 /\ hooks' = hooks
        BY <1>1, <1>2, <2>1 DEF Track, Goto, OutcomesTypeOK
      <3>2. U = T \ {p}
        BY <1>5, <1>6, <3>1
      <3>3. IsFiniteSet(U) /\ Cardinality(U) = Cardinality(T) - 1
        BY <1>3, <3>1, <3>2, FS_RemoveElement
      <3>4. QED
        BY <1>3, <1>4, <3>1, <3>3
    <2>2. CASE ~Track(p) /\ p \in U
      <3>1. PICK c \in Command : Fails(p, c)
        BY <1>2, <2>2, StartsTracking
      <3>2. p \notin T /\ failures' = failures /\ hooks' = hooks + 1
        BY <1>1, <2>2, <3>1, Counters DEF Fails
      <3>3. U = T \union {p}
        BY <1>5, <1>6, <2>2
      <3>4. IsFiniteSet(U) /\ Cardinality(U) = Cardinality(T) + 1
        BY <1>3, <3>2, <3>3, FS_AddElement
      <3>5. QED
        BY <1>3, <1>4, <3>2, <3>4
    <2>3. CASE ~Track(p) /\ p \notin U
      <3>1. failures' = failures /\ hooks <= hooks'
        BY <1>4, <2>3, Counters
      <3>2. U \subseteq T
        BY <1>5, <1>6, <2>3
      <3>3. IsFiniteSet(U) /\ Cardinality(U) <= Cardinality(T) /\ Cardinality(U) \in Nat
        BY <1>3, <3>2, FS_Subset, FS_CardinalityType
      <3>4. hooks' \in Nat
        BY <1>4, <2>3, Counters
      <3>5. QED
        BY <1>3, <1>4, <3>1, <3>3, <3>4
    <2>4. QED
      BY <2>1, <2>2, <2>3
  <1>8. QED
    BY <1>2, <1>7

LEMMA NumberedPreserved ==
    ASSUME OutcomesTypeOK, HooksKnow, Numbered, [Next]_vars
    PROVE  Numbered'
  <1>1. ASSUME NEW p \in Proc, Step(p)
        PROVE  Numbered'
    <2>1. failures \in Nat
      BY OutcomesAssumption DEF OutcomesTypeOK
    <2>2. ASSUME NEW n \in 1..MaxHooks, n > failures'
          PROVE  Claims(n)' = {}
      <3>1. CASE Track(p)
        <4>1. failures' = failures + 1
          BY <3>1 DEF Track
        <4>2. n # failures + 1 /\ n > failures
          BY <2>1, <2>2, <4>1
        <4>3. QED
          BY <3>1, <4>2, ClaimsTracked DEF Numbered
      <3>2. CASE ~Track(p)
        <4>1. n > failures
          BY <1>1, <2>2, <3>2, Counters
        <4>2. QED
          BY <1>1, <3>2, <4>1, NoStepSpreads DEF Numbered, NoSpread
      <3>3. QED
        BY <3>1, <3>2
    <2>3. QED
      BY <1>1, <2>2, TrackersCounted DEF Numbered
  <1>2. CASE Tick \/ UNCHANGED vars
    BY <1>2 DEF Tick, vars, disk, locals, history, Numbered, Claims
  <1>3. QED
    BY <1>1, <1>2 DEF Next, Step

LEMMA RecoveredOncePreserved ==
    ASSUME OutcomesTypeOK, HooksKnow, Numbered, RecoveredOnce, [Next]_vars
    PROVE  RecoveredOnce'
  <1>1. ASSUME NEW p \in Proc, Step(p)
        PROVE  RecoveredOnce'
    <2> SUFFICES ASSUME NEW n \in 1..failures'
                 PROVE  \A a, b \in Claims(n)' : a = b
      BY DEF RecoveredOnce
    <2>1. failures \in Nat /\ failures <= MaxHooks /\ MaxHooks \in Nat
      BY OutcomesAssumption DEF OutcomesTypeOK
    <2>2. CASE Track(p)
      <3>1. failures' = failures + 1 /\ failures + 1 \in 1..MaxHooks
        BY <2>2, NumberLeft DEF Track
      <3>2. n \in 1..MaxHooks
        BY <2>1, <3>1
      <3>3. CASE n = failures + 1
        <4>1. Claims(n) = {}
          BY <2>1, <3>2, <3>3 DEF Numbered
        <4>2. QED
          BY <2>2, <3>2, <3>3, <4>1, ClaimsTracked
      <3>4. CASE n # failures + 1
        <4>1. n \in 1..failures
          BY <2>1, <3>1, <3>4
        <4>2. QED
          BY <2>2, <3>2, <3>4, <4>1, ClaimsTracked DEF RecoveredOnce
      <3>5. QED
        BY <3>3, <3>4
    <2>3. CASE ~Track(p)
      <3>1. n \in 1..failures /\ n \in 1..MaxHooks
        BY <1>1, <2>1, <2>3, Counters
      <3>2. QED
        BY <1>1, <2>3, <3>1, NoStepSpreads DEF RecoveredOnce, NoSpread
    <2>4. QED
      BY <2>2, <2>3
  <1>2. CASE Tick \/ UNCHANGED vars
    BY <1>2 DEF Tick, vars, disk, locals, history, RecoveredOnce, Claims
  <1>3. QED
    BY <1>1, <1>2 DEF Next, Step

----------------------------------------------------------------------------
(* The list of outcomes *)

\* Who writes the list: a hook that records, or a stop hook, which empties it.
LEMMA ListSteps ==
    ASSUME [Next]_vars
    PROVE  \/ UNCHANGED outcomes
           \/ \E p \in Proc : Record(p) /\ ~IsDuplicate(event[p])
           \/ \E p \in Proc : (Clear(p) \/ Discard(p)) /\ outcomes' = <<>>
  <1>1. ASSUME NEW p \in Proc, Step(p)
        PROVE  \/ UNCHANGED outcomes
               \/ Record(p) /\ ~IsDuplicate(event[p])
               \/ (Clear(p) \/ Discard(p)) /\ outcomes' = <<>>
    <2>1. CASE (\E c \in Command : Fails(p, c) \/ Succeeds(p, c)) \/ Stops(p)
      BY <2>1 DEF Fails, Succeeds, Stops, disk
    <2>2. CASE Track(p) \/ TrackAgain(p) \/ Detect(p) \/ Resolve(p) \/ Recover(p)
      BY <2>2 DEF Track, TrackAgain, Detect, Resolve, Recover, disk
    <2>3. CASE Validate(p) \/ NothingToValidate(p) \/ Signal(p)
      BY <2>3 DEF Validate, NothingToValidate, Signal, disk
    <2>4. CASE Record(p)
      BY <2>4 DEF Record
    <2>5. CASE Stop(p)
      BY <2>5 DEF Stop, Summarise, EndSession, EndsNothing, Clear, Discard, disk
    <2>6. CASE Crash(p) \/ UpdateFails(p)
      BY <2>6 DEF Crash, UpdateFails, disk
    <2>7. QED
      BY <1>1, <2>1, <2>2, <2>3, <2>4, <2>5, <2>6 DEF Step, Bash
  <1>2. CASE Tick \/ UNCHANGED vars
    BY <1>2 DEF Tick, vars, disk
  <1>3. QED
    BY <1>1, <1>2 DEF Next, Step

\* What is recorded is no duplicate of anything in the list.
LEMMA SpacedPreserved ==
    ASSUME OutcomesTypeOK, HooksKnow, Spaced, [Next]_vars
    PROVE  Spaced'
  <1>1. CASE UNCHANGED outcomes
    BY <1>1 DEF Spaced
  <1>2. CASE outcomes' = <<>>
    BY <1>2, NothingListed DEF Spaced
  <1>3. ASSUME NEW p \in Proc, Record(p), ~IsDuplicate(event[p])
        PROVE  Spaced'
    <2>1. event[p] \in Outcome
      BY <1>3 DEF Record, HooksKnow
    <2>2. PICK d \in 0..Len(outcomes) :
             /\ Len(outcomes') = Len(outcomes) + 1 - d
             /\ \A i \in 1..Len(outcomes') :
                   \/ i + d \in 1..Len(outcomes) /\ outcomes'[i] = outcomes[i + d]
                   \/ i + d = Len(outcomes) + 1 /\ outcomes'[i] = event[p]
      BY <1>3, <2>1, Pushed
    <2>3. /\ outcomes \in Seq(Outcome) /\ outcomes' \in Seq(Outcome) /\ Len(outcomes) \in Nat
      BY <1>3, <2>1, Pushed, LenProperties DEF OutcomesTypeOK
    <2>4. DOMAIN outcomes = 1..Len(outcomes) /\ DOMAIN outcomes' = 1..Len(outcomes')
      BY <2>3
    <2>5. ASSUME NEW i \in 1..Len(outcomes), Same(outcomes[i], event[p])
          PROVE  event[p].at > outcomes[i].at + Window
      <3>1. ~(Since(event[p].at, outcomes[i].at) <= Window)
        BY <1>3, <2>4, <2>5 DEF IsDuplicate
      <3>2. event[p].at \in Int /\ outcomes[i].at \in Int /\ Window \in Nat
        <4>1. outcomes[i] \in Outcome
          BY <2>3
        <4>2. \A o \in Outcome : o.at \in Int
          BY OutcomesAssumption DEF Outcome
        <4>3. QED
          BY <2>1, <4>1, <4>2, OutcomesAssumption
      <3>3. QED
        BY <3>1, <3>2 DEF Since
    <2> SUFFICES ASSUME NEW i \in 1..Len(outcomes'), NEW j \in 1..Len(outcomes'), i < j,
                        Same(outcomes'[i], outcomes'[j])
                 PROVE  outcomes'[j].at > outcomes'[i].at + Window
      BY <2>4 DEF Spaced, Same, SameCause
    <2>6. i + d \in 1..Len(outcomes) /\ outcomes'[i] = outcomes[i + d]
      BY <2>2, <2>3
    <2>7. CASE j + d \in 1..Len(outcomes) /\ outcomes'[j] = outcomes[j + d]
      <3>1. i + d < j + d
        BY <2>3
      <3>2. Same(outcomes[i + d], outcomes[j + d])
        BY <2>6, <2>7
      <3>3. outcomes[j + d].at > outcomes[i + d].at + Window
        BY <2>4, <2>6, <2>7, <3>1, <3>2 DEF Spaced
      <3>4. QED
        BY <2>6, <2>7, <3>3
    <2>8. CASE outcomes'[j] = event[p]
      BY <2>5, <2>6, <2>8
    <2>9. QED
      BY <2>2, <2>7, <2>8
  <1>4. QED
    BY <1>1, <1>2, <1>3, ListSteps

\* Every failure that is dropped costs a fault.
LEMMA DroppedCounted ==
    ASSUME OutcomesTypeOK, Cardinality(dropped) <= faults, [Next]_vars
    PROVE  Cardinality(dropped') <= faults'
  <1>1. IsFiniteSet(dropped) /\ Cardinality(dropped) \in Nat /\ faults \in Nat
    <2>1. failures \in Nat /\ faults \in Nat /\ dropped \subseteq 1..failures
      BY OutcomesAssumption DEF OutcomesTypeOK
    <2>2. IsFiniteSet(1..failures)
      BY <2>1, FS_Interval
    <2>3. QED
      BY <2>1, <2>2, FS_Subset, FS_CardinalityType
  <1>2. ASSUME NEW p \in Proc, Crash(p) \/ UpdateFails(p)
        PROVE  Cardinality(dropped') <= faults'
    <2>1. faults' = faults + 1 /\ dropped' = dropped \union Unrecorded(p)
      BY <1>2 DEF Crash, UpdateFails
    <2>2. dropped' \subseteq dropped \union {about[p]}
      BY <2>1 DEF Unrecorded
    <2>3. /\ IsFiniteSet(dropped \union {about[p]})
          /\ Cardinality(dropped \union {about[p]}) <= Cardinality(dropped) + 1
          /\ Cardinality(dropped \union {about[p]}) \in Nat
      <3>1. PICK n : n = about[p]
        OBVIOUS
      <3>2. /\ IsFiniteSet(dropped \union {n})
            /\ \/ Cardinality(dropped \union {n}) = Cardinality(dropped)
               \/ Cardinality(dropped \union {n}) = Cardinality(dropped) + 1
        BY <1>1, FS_AddElement
      <3>3. QED
        BY <1>1, <3>1, <3>2
    <2>4. Cardinality(dropped') <= Cardinality(dropped \union {about[p]}) /\ Cardinality(dropped') \in Nat
      BY <2>2, <2>3, FS_Subset, FS_CardinalityType
    <2>5. QED
      BY <1>1, <2>1, <2>3, <2>4
  <1>3. ASSUME NEW p \in Proc, Step(p), ~Crash(p), ~UpdateFails(p)
        PROVE  UNCHANGED <<dropped, faults>>
    BY <1>3 DEF Step, Bash, Stop, Fails, Succeeds, Stops, Track, TrackAgain, Detect, Resolve, Recover,
         Validate, NothingToValidate, Record, Signal, Summarise, EndSession, EndsNothing, Clear,
         Discard, history
  <1>4. CASE Tick \/ UNCHANGED vars
    BY <1>4 DEF Tick, vars, history
  <1>5. QED
    BY <1>1, <1>2, <1>3, <1>4 DEF Next, Step

\* What has become of the failure of an entry.
Known(k) ==
    Told(k) \/ (\E q \in Proc : Telling(q, k)) \/ Suppressed(k) \/ errors[k].n \in dropped

\* A failure that is not resolved is told of, as long as the list is whole: its
\* hook goes on to record it, and what is recorded stays or is suppressed by what
\* is there; a hook that fails to leaves a trace in dropped.
LEMMA NoSilentErrorPreserved ==
    ASSUME OutcomesTypeOK, HooksKnow, NoSilentError, [Next]_vars
    PROVE  NoSilentError'
  <1> SUFFICES ASSUME ~trimmed', NEW k \in Keys, errors'[k] # None
               PROVE  Known(k)'
    BY DroppedCounted DEF NoSilentError, Known
  <1>1. ASSUME NEW p \in Proc, Step(p)
        PROVE  Known(k)'
    <2>1. OthersStay(p)
      BY <1>1, OneMoves
    <2>2. ASSUME errors'[k] = errors[k], ~trimmed
          PROVE  /\ Known(k)
                 /\ \A q \in Proc \ {p} : Telling(q, k) => Telling(q, k)'
                 /\ UNCHANGED outcomes => (Told(k) => Told(k)')
                 /\ UNCHANGED outcomes /\ suppressed \subseteq suppressed'
                       => (Suppressed(k) => Suppressed(k)')
                 /\ dropped \subseteq dropped' => (errors[k].n \in dropped => errors'[k].n \in dropped')
      <3>1. Known(k)
        BY <2>2 DEF NoSilentError, Known
      <3>2. \A q \in Proc \ {p} : Telling(q, k) => Telling(q, k)'
        BY <2>1, <2>2 DEF Telling, OthersStay, Tells
      <3>3. UNCHANGED outcomes => (Told(k) => Told(k)')
        BY <2>2 DEF Told, Tells
      <3>4. UNCHANGED outcomes /\ suppressed \subseteq suppressed' => (Suppressed(k) => Suppressed(k)')
        BY <2>2 DEF Suppressed, Tells
      <3>5. QED
        BY <2>2, <3>1, <3>2, <3>3, <3>4
    <2>3. ASSUME errors'[k] = errors[k], ~trimmed, UNCHANGED <<outcomes, suppressed>>,
                 dropped \subseteq dropped', Telling(p, k) => errors[k].n \in dropped'
          PROVE  Known(k)'
      BY <2>2, <2>3 DEF Known
    <2>4. pc[p] \notin {"record", "detect"} => ~Telling(p, k)
      BY DEF Telling
    <2>5. CASE (\E c \in Command : Fails(p, c) \/ Succeeds(p, c)) \/ Stops(p) \/ Summarise(p)
      BY <2>3, <2>4, <2>5 DEF Fails, Succeeds, Stops, Summarise, history, disk
    <2>6. CASE TrackAgain(p) \/ Recover(p) \/ Validate(p) \/ NothingToValidate(p) \/ Signal(p)
      BY <2>3, <2>4, <2>6 DEF TrackAgain, Recover, Validate, NothingToValidate, Signal, history, disk
    <2>7. CASE EndSession(p) \/ EndsNothing(p)
      BY <2>3, <2>4, <2>7 DEF EndSession, EndsNothing, history
    <2>8. CASE Clear(p) \/ Discard(p)
      BY <2>8 DEF Clear, Discard
    <2>9. CASE Crash(p) \/ UpdateFails(p)
      <3>1. /\ UNCHANGED <<errors, trimmed, outcomes, suppressed>>
            /\ dropped' = dropped \union Unrecorded(p)
        BY <2>9 DEF Crash, UpdateFails, disk
      <3>2. errors[k].n \in 1..MaxHooks
        BY <3>1 DEF OutcomesTypeOK, Failure
      <3>3. Telling(p, k) => errors[k].n \in Unrecorded(p)
        BY <3>2 DEF Telling, Unrecorded
      <3>4. QED
        BY <2>3, <3>1, <3>3
    <2>10. CASE Track(p)
      <3>1. PICK x : x = KeyOf[cmd[p]]
        OBVIOUS
      <3>2. x \in Keys /\ errors \in [Keys -> Failure \union {None}]
        BY <2>10, <3>1 DEF Track, HooksKnow, StopPhases, Keys, OutcomesTypeOK
      <3>3. errors' = [errors EXCEPT ![x] =
                [n |-> failures + 1, cmd |-> cmd[p], at |-> now, session |-> who[p]]]
        BY <2>10, <3>1 DEF Track
      <3>4. CASE x = k
        <4>1. /\ errors'[k].cmd = cmd[p] /\ errors'[k].session = who[p]
              /\ errors'[k].n = failures + 1
          BY <3>2, <3>3, <3>4
        <4>2. /\ pc'[p] = "detect" /\ cmd'[p] = cmd[p] /\ who'[p] = who[p]
              /\ about'[p] = failures + 1
          BY <2>10 DEF Track, Goto, OutcomesTypeOK
        <4>3. QED
          BY <4>1, <4>2 DEF Telling, Known
      <3>5. CASE x # k
        <4>1. errors'[k] = errors[k]
          BY <3>2, <3>3, <3>5
        <4>2. ~trimmed /\ UNCHANGED <<outcomes, suppressed, dropped>> /\ pc[p] = "track"
          BY <2>10 DEF Track
        <4>3. QED
          BY <2>3, <2>4, <4>1, <4>2
      <3>6. QED
        BY <3>4, <3>5
    <2>11. CASE Resolve(p)
      <3>1. PICK x : x = KeyOf[cmd[p]]
        OBVIOUS
      <3>2. x \in Keys /\ errors \in [Keys -> Failure \union {None}]
        BY <2>11, <3>1 DEF Resolve, HooksKnow, StopPhases, Keys, OutcomesTypeOK
      <3>3. errors' = [errors EXCEPT ![x] = None]
        BY <2>11, <3>1 DEF Resolve
      <3>4. errors'[k] = errors[k]
        BY <3>2, <3>3
      <3>5. ~trimmed /\ UNCHANGED <<outcomes, suppressed, dropped>> /\ pc[p] = "resolve"
        BY <2>11 DEF Resolve, history
      <3>6. QED
        BY <2>3, <2>4, <3>4, <3>5
    <2>12. CASE Detect(p)
      <3>1. /\ errors' = errors /\ ~trimmed /\ UNCHANGED <<outcomes, suppressed, dropped>>
            /\ pc[p] = "detect"
        BY <2>12 DEF Detect, disk, history
      <3>2. cmd[p] \in Command /\ who[p] \in Sessions
        BY <3>1 DEF HooksKnow, StopPhases, OutcomesTypeOK, Sessions
      <3>3. /\ event'[p].kind = "detected" /\ event'[p].cmd = cmd[p]
            /\ event'[p].session = who[p] /\ event'[p].of = about[p]
        BY <2>12, <3>2, EventMade DEF Detect
      <3>4. pc'[p] = "record" /\ about' = about
        BY <2>12 DEF Detect, Goto, OutcomesTypeOK
      <3>5. Telling(p, k) => Telling(p, k)'
        BY <3>1, <3>3, <3>4 DEF Telling, Tells
      <3>6. QED
        BY <2>2, <3>1, <3>5 DEF Known
    <2>13. CASE Record(p)
      <3>1. /\ errors' = errors /\ pc[p] = "record" /\ event[p] \in Outcome
            /\ suppressed \subseteq suppressed' /\ dropped' = dropped
        BY <2>13 DEF Record, HooksKnow
      <3>2. outcomes \in Seq(Outcome) /\ DOMAIN outcomes = 1..Len(outcomes) /\ Len(outcomes) \in Nat
        BY LenProperties DEF OutcomesTypeOK
      <3>3. CASE IsDuplicate(event[p])
        <4>1. /\ ~trimmed /\ UNCHANGED outcomes
              /\ event[p].kind = "detected" => event[p] \in suppressed'
          BY <2>13, <3>3 DEF Record
        <4>2. PICK i \in DOMAIN outcomes :
                 Same(outcomes[i], event[p]) /\ Since(event[p].at, outcomes[i].at) <= Window
          BY <3>3 DEF IsDuplicate
        <4>3. Telling(p, k) => Tells(event[p], k) /\ event[p].kind = "detected"
          BY <3>1 DEF Telling, Tells
        <4>4. Telling(p, k) => Suppressed(k)'
          <5>1. SUFFICES ASSUME Telling(p, k)
                         PROVE  Suppressed(k)'
            OBVIOUS
          <5>2. event[p] \in suppressed' /\ event[p].kind = "detected"
            BY <4>1, <4>3, <5>1
          <5>3. /\ event[p].of = errors'[k].n /\ event[p].cmd = errors'[k].cmd
                /\ event[p].session = errors'[k].session
            BY <3>1, <4>3, <5>1 DEF Tells
          <5>4. /\ i \in DOMAIN outcomes' /\ outcomes'[i].kind = "detected"
                /\ outcomes'[i].cmd = event[p].cmd /\ outcomes'[i].session = event[p].session
                /\ Since(event[p].at, outcomes'[i].at) <= Window
            BY <4>1, <4>2, <5>2 DEF Same
          <5>5. QED
            BY <5>2, <5>3, <5>4 DEF Suppressed, Tells
        <4>5. QED
          BY <2>2, <3>1, <4>1, <4>4 DEF Known
      <3>4. CASE ~IsDuplicate(event[p])
        <4>1. /\ ~trimmed /\ Len(outcomes') = Len(outcomes) + 1
              /\ \A i \in 1..Len(outcomes') :
                    \/ i \in 1..Len(outcomes) /\ outcomes'[i] = outcomes[i]
                    \/ i = Len(outcomes) + 1 /\ outcomes'[i] = event[p]
              /\ outcomes' \in Seq(Outcome)
          <5>1. PICK d \in 0..Len(outcomes) :
                   /\ Len(outcomes') = Len(outcomes) + 1 - d
                   /\ ~trimmed' => d = 0 /\ ~trimmed
                   /\ \A i \in 1..Len(outcomes') :
                         \/ i + d \in 1..Len(outcomes) /\ outcomes'[i] = outcomes[i + d]
                         \/ i + d = Len(outcomes) + 1 /\ outcomes'[i] = event[p]
            BY <2>13, <3>1, <3>4, Pushed
          <5>2. d = 0 /\ ~trimmed /\ outcomes' \in Seq(Outcome)
            BY <2>13, <3>1, <3>4, <5>1, Pushed
          <5>3. QED
            BY <3>2, <5>1, <5>2
        <4>2. DOMAIN outcomes' = 1..Len(outcomes')
          BY <4>1
        <4>3. outcomes'[Len(outcomes) + 1] = event[p] /\ Len(outcomes) + 1 \in DOMAIN outcomes'
          BY <3>2, <4>1, <4>2
        <4>4. Telling(p, k) => Told(k)'
          BY <3>1, <4>3 DEF Telling, Told, Tells
        <4>5. \A i \in DOMAIN outcomes : i \in DOMAIN outcomes' /\ outcomes'[i] = outcomes[i]
          BY <3>2, <4>1, <4>2
        <4>6. Told(k) => Told(k)'
          BY <3>1, <4>5 DEF Told, Tells
        <4>7. Suppressed(k) => Suppressed(k)'
          <5>1. SUFFICES ASSUME Suppressed(k)
                         PROVE  Suppressed(k)'
            OBVIOUS
          <5>2. PICK e \in suppressed, i \in DOMAIN outcomes :
                   /\ Tells(e, k) /\ outcomes[i].kind = "detected"
                   /\ outcomes[i].cmd = e.cmd /\ outcomes[i].session = e.session
                   /\ Since(e.at, outcomes[i].at) <= Window
            BY <5>1 DEF Suppressed
          <5>3. e \in suppressed' /\ i \in DOMAIN outcomes' /\ outcomes'[i] = outcomes[i]
            BY <3>1, <4>5, <5>2
          <5>4. QED
            BY <3>1, <5>2, <5>3 DEF Suppressed, Tells
        <4>8. QED
          BY <2>2, <3>1, <4>1, <4>4, <4>6, <4>7 DEF Known
      <3>5. QED
        BY <3>3, <3>4
    <2>14. QED
      BY <1>1, <2>5, <2>6, <2>7, <2>8, <2>9, <2>10, <2>11, <2>12, <2>13 DEF Step, Bash, Stop
  <1>2. CASE Tick \/ UNCHANGED vars
    BY <1>2 DEF Tick, vars, disk, locals, history, NoSilentError, Tells, Told, Telling, Suppressed,
       Known
  <1>3. QED
    BY <1>1, <1>2 DEF Next, Step

----------------------------------------------------------------------------
(* The summary of a session *)

\* The state file never returns to a session: it names the same one, none, or one
\* that was never started before.
LEMMA SessionsGoForward ==
    ASSUME NEW p \in Proc, Step(p)
    PROVE  current' = current \/ current' = None \/ current' \in Session \ used
  <1>1. CASE \E c \in Command : Fails(p, c) \/ Succeeds(p, c)
    BY <1>1 DEF Fails, Succeeds, EnsureSession
  <1>2. CASE Recover(p) \/ Validate(p) \/ Signal(p)
    BY <1>2 DEF Recover, Validate, Signal, EnsureSession
  <1>3. CASE Stops(p) \/ Track(p) \/ TrackAgain(p) \/ Detect(p) \/ Resolve(p)
    BY <1>3 DEF Stops, Track, TrackAgain, Detect, Resolve, disk
  <1>4. CASE NothingToValidate(p) \/ Record(p) \/ Crash(p) \/ UpdateFails(p)
    BY <1>4 DEF NothingToValidate, Record, Crash, UpdateFails, disk
  <1>5. CASE Stop(p)
    BY <1>5 DEF Stop, Summarise, EndSession, EndsNothing, Clear, Discard, disk
  <1>6. QED
    BY <1>1, <1>2, <1>3, <1>4, <1>5 DEF Step, Bash

\* Only Stops, Summarise and EndSession take a stop hook to the phases in which
\* it has outcomes to answer for.
LEMMA StopHookSteps ==
    ASSUME OutcomesTypeOK, NEW p \in Proc, Step(p), pc'[p] \in {"load", "end", "clear"}
    PROVE  Stops(p) \/ Summarise(p) \/ EndSession(p)
  <1>1. ~Finish(p) /\ ~Continue(p)
    BY Finished, Continued
  <1>2. pc \in [Proc -> Phase]
    BY DEF OutcomesTypeOK
  <1>3. ~\E phase : phase \notin {"load", "end", "clear"} /\ Goto(p, phase)
    BY <1>2 DEF Goto
  <1>4. ~(\E c \in Command : Fails(p, c) \/ Succeeds(p, c))
    BY <1>3 DEF Fails, Succeeds
  <1>5. ~Track(p) /\ ~TrackAgain(p) /\ ~Detect(p) /\ ~Resolve(p) /\ ~Recover(p)
    BY <1>1, <1>3 DEF Track, TrackAgain, Detect, Resolve, Recover
  <1>6. ~Validate(p) /\ ~NothingToValidate(p) /\ ~Record(p) /\ ~Signal(p)
    BY <1>1, <1>3 DEF Validate, NothingToValidate, Record, Signal
  <1>7. ~EndsNothing(p) /\ ~Clear(p) /\ ~Discard(p)
    BY <1>1 DEF EndsNothing, Clear, Discard
  <1>8. ~Crash(p) /\ ~UpdateFails(p)
    BY <1>1, <1>3 DEF Crash, UpdateFails
  <1>9. QED
    BY <1>4, <1>5, <1>6, <1>7, <1>8 DEF Step, Bash, Stop

\* The history only grows.
LEMMA ExposedGrows ==
    ASSUME NEW p \in Proc, Step(p)
    PROVE  exposed \subseteq exposed' /\ (~Clear(p) => UNCHANGED lost)
  BY DEF Step, Bash, Stop, Fails, Succeeds, Stops, Track, TrackAgain, Detect, Resolve, Recover,
         Validate, NothingToValidate, Record, Signal, Summarise, EndSession, EndsNothing, Clear,
         Discard, Crash, UpdateFails, history

\* What is new in the list is the event that was recorded, and it is exposed if a
\* stop hook was at work.
LEMMA NewOutcomes ==
    ASSUME OutcomesTypeOK, HooksKnow, NEW p \in Proc, Step(p), NEW e \in ToSet(outcomes')
    PROVE  \/ e \in ToSet(outcomes)
           \/ /\ e = event[p] /\ pc[p] = "record"
              /\ (\E q \in Proc : pc[q] \in StopPhases) => e \in exposed'
  <1>1. CASE UNCHANGED outcomes
    BY <1>1
  <1>2. CASE outcomes' = <<>>
    BY <1>2, NothingListed
  <1>3. CASE Record(p) /\ ~IsDuplicate(event[p])
    <2>1. event[p] \in Outcome /\ pc[p] = "record"
      BY <1>3 DEF Record, HooksKnow
    <2>2. PICK d \in 0..Len(outcomes) :
             \A i \in 1..Len(outcomes') :
                 \/ i + d \in 1..Len(outcomes) /\ outcomes'[i] = outcomes[i + d]
                 \/ i + d = Len(outcomes) + 1 /\ outcomes'[i] = event[p]
      BY <1>3, <2>1, Pushed
    <2>3. outcomes \in Seq(Outcome) /\ outcomes' \in Seq(Outcome)
      BY <1>3, <2>1, Pushed DEF OutcomesTypeOK
    <2>4. PICK i \in 1..Len(outcomes') : e = outcomes'[i]
      BY <2>3 DEF ToSet
    <2>5. e \in ToSet(outcomes) \/ e = event[p]
      BY <2>2, <2>3, <2>4 DEF ToSet
    <2>6. (\E q \in Proc : pc[q] \in StopPhases) => event[p] \in exposed'
      BY <1>3 DEF Record
    <2>7. QED
      BY <2>1, <2>5, <2>6
  <1>4. UNCHANGED outcomes \/ outcomes' = <<>> \/ (Record(p) /\ ~IsDuplicate(event[p]))
    BY DEF Step, Bash, Stop, Fails, Succeeds, Stops, Track, TrackAgain, Detect, Resolve, Recover,
           Validate, NothingToValidate, Record, Signal, Summarise, EndSession, EndsNothing, Clear,
           Discard, Crash, UpdateFails, disk
  <1>5. QED
    BY <1>1, <1>2, <1>3, <1>4

LEMMA OverlapsPreserved ==
    ASSUME OutcomesTypeOK, HooksKnow, Overlaps, [Next]_vars
    PROVE  Overlaps'
  <1>1. ASSUME NEW p \in Proc, Step(p)
        PROVE  Overlaps'
    <2>1. OthersStay(p) /\ used \subseteq used'
      BY <1>1, OneMoves
    <2>2. ASSUME NEW e \in ToSet(outcomes')
          PROVE  e.session \in used' \union {None}
      <3>1. CASE e \in ToSet(outcomes)
        BY <2>1, <3>1 DEF Overlaps
      <3>2. CASE e = event[p] /\ pc[p] = "record"
        BY <2>1, <3>2 DEF HooksKnow
      <3>3. QED
        BY <1>1, <3>1, <3>2, NewOutcomes
    <2>3. ASSUME NEW q \in Proc, NEW e \in ToSet(outcomes') \ exposed'
          PROVE  /\ pc'[q] \in {"end", "clear"} /\ e.session = who'[q] => e \in summary'[q]
                 /\ pc'[q] \in {"load", "end"} /\ e.session = current' => current' \in {who'[q], None}
      <3>1. CASE /\ e = event[p] /\ pc[p] = "record"
                 /\ (\E x \in Proc : pc[x] \in StopPhases) => e \in exposed'
        <4>1. CASE \E x \in Proc : pc[x] \in StopPhases
          BY <2>3, <3>1, <4>1
        <4>2. CASE ~\E x \in Proc : pc[x] \in StopPhases
          <5>1. CASE q = p
            BY <1>1, <3>1, <5>1, StopHookSteps DEF Stops, Summarise, EndSession
          <5>2. CASE q # p
            BY <2>1, <4>2, <5>2 DEF OthersStay, StopPhases
          <5>3. QED
            BY <5>1, <5>2
        <4>3. QED
          BY <4>1, <4>2
      <3>2. CASE e \in ToSet(outcomes)
        <4>1. e \in ToSet(outcomes) \ exposed
          BY <1>1, <2>3, <3>2, ExposedGrows
        <4>2. current' = current \/ current' = None \/ e.session # current'
          BY <1>1, <3>2, SessionsGoForward, OutcomesAssumption DEF Overlaps
        <4>3. CASE q # p
          BY <2>1, <4>1, <4>2, <4>3 DEF Overlaps, OthersStay
        <4>4. CASE q = p
          <5>1. CASE Stops(p)
            BY <4>4, <5>1 DEF Stops, Goto, OutcomesTypeOK, disk
          <5>2. CASE Summarise(p)
            <6>1. /\ pc[p] = "load" /\ summary'[p] = ForSession(outcomes, who[p])
                  /\ who'[p] = who[p] /\ current' = current
              BY <5>2 DEF Summarise, OutcomesTypeOK, disk
            <6>2. e.session = who[p] => e \in summary'[p]
              BY <3>2, <6>1 DEF ForSession
            <6>3. QED
              BY <4>1, <4>4, <6>1, <6>2 DEF Overlaps
          <5>3. CASE EndSession(p)
            <6>1. /\ pc[p] = "end" /\ current # None /\ who'[p] = current
                  /\ summary'[p] = summary[p] /\ current' = None
              BY <5>3 DEF EndSession, OutcomesTypeOK
            <6>2. e.session = current => e \in summary[p]
              BY <4>1, <6>1 DEF Overlaps
            <6>3. QED
              BY <4>4, <6>1, <6>2
          <5>4. CASE pc'[p] \notin {"load", "end", "clear"}
            BY <4>4, <5>4
          <5>5. QED
            BY <1>1, <5>1, <5>2, <5>3, <5>4, StopHookSteps
        <4>5. QED
          BY <4>3, <4>4
      <3>3. QED
        BY <1>1, <3>1, <3>2, NewOutcomes
    <2>4. QED
      BY <2>2, <2>3 DEF Overlaps
  <1>2. CASE Tick \/ UNCHANGED vars
    BY <1>2 DEF Tick, vars, disk, locals, history, Overlaps
  <1>3. QED
    BY <1>1, <1>2 DEF Next, Step

LEMMA ReportedPreserved ==
    ASSUME Overlaps, ReportedUnlessOverlapping, [Next]_vars
    PROVE  ReportedUnlessOverlapping'
  <1>1. ASSUME NEW p \in Proc, Step(p), ~Clear(p)
        PROVE  ReportedUnlessOverlapping'
    BY <1>1, ExposedGrows DEF ReportedUnlessOverlapping
  <1>2. ASSUME NEW p \in Proc, Clear(p)
        PROVE  ReportedUnlessOverlapping'
    <2>1. \A e \in ToSet(outcomes) \ summary[p] : e.session = who[p] => e \in exposed
      BY <1>2 DEF Clear, Overlaps
    <2>2. QED
      BY <1>2, <2>1 DEF Clear, ReportedUnlessOverlapping
  <1>3. CASE Tick \/ UNCHANGED vars
    BY <1>3 DEF Tick, vars, history, ReportedUnlessOverlapping
  <1>4. QED
    BY <1>1, <1>2, <1>3 DEF Next, Step, Stop

----------------------------------------------------------------------------
(* The theorems *)

\* The inductive invariant of the outcome log.
THEOREM OutcomesInvariant == Spec => []OutcomesInv
  <1>1. Init => OutcomesInv
    BY InitInv
  <1>2. OutcomesInv /\ [Next]_vars => OutcomesInv'
    BY TypePreserved, KnowledgePreserved, NumberedPreserved, SpacedPreserved,
       RecoveredOncePreserved, NoSilentErrorPreserved, OverlapsPreserved, ReportedPreserved
       DEF OutcomesInv
  <1>3. QED
    BY <1>1, <1>2, PTL DEF Spec

\* The two state files and the hooks stay well typed, and the list within its cap.
THEOREM OutcomesTypes == Spec => []OutcomesTypeOK
  <1>1. OutcomesInv => OutcomesTypeOK
    BY DEF OutcomesInv
  <1>2. QED
    BY <1>1, OutcomesInvariant, PTL

\* record_outcome suppresses duplicates within the window, however long hooks
\* wait between making an outcome and recording it.
THEOREM DuplicatesSuppressed == Spec => []Spaced
  <1>1. OutcomesInv => Spaced
    BY DEF OutcomesInv
  <1>2. QED
    BY <1>1, OutcomesInvariant, PTL

\* resolve_error gives a failure to one hook only, and at most one recovery of it
\* is ever in the list.
THEOREM RecoveriesDistinct == Spec => []RecoveredOnce
  <1>1. OutcomesInv => RecoveredOnce
    BY DEF OutcomesInv
  <1>2. QED
    BY <1>1, OutcomesInvariant, PTL

\* Until the list is trimmed, every unresolved error has its own failure in the
\* list, or a hook that is about to record it, or one that was killed or failed
\* before it could (no more of them than faults), or record_outcome has suppressed
\* that failure because an equal one, resolved or not, was noticed within the window.
THEOREM ErrorsTold == Spec => []NoSilentError
  <1>1. OutcomesInv => NoSilentError
    BY DEF OutcomesInv
  <1>2. QED
    BY <1>1, OutcomesInvariant, PTL

\* clear_outcomes removes no outcome of the session that has ended which its
\* summary lacks, unless it was recorded while a stop hook was at work.
THEOREM OutcomesReported == Spec => []ReportedUnlessOverlapping
  <1>1. OutcomesInv => ReportedUnlessOverlapping
    BY DEF OutcomesInv
  <1>2. QED
    BY <1>1, OutcomesInvariant, PTL
=============================================================================
