----------------------------- MODULE ReportsProofs -----------------------------
(***************************************************************************)
(* Proofs about Corrections and StopReport, for every set of edit hooks,   *)
(* of edits, of texts, of transcript lines and of outcomes, every age and  *)
(* window, every cap and every bound.                                      *)
(***************************************************************************)
EXTENDS Corrections, StopReport, SubsequenceProofs

----------------------------------------------------------------------------
(* The edits *)

LEMMA EditorStepCases ==
    ASSUME [CorrectionsNext]_correctionVars
    PROVE  \/ \E p \in Editor : \E edit \in Rework : StartEdit(p, edit)
           \/ \E p \in Editor : Look(p) \/ RecordCorrection(p) \/ Tell(p) \/ Stamp(p) \/ TrackEdit(p)
           \/ \E p \in Editor : EditorStops(p) \/ CorrectionFails(p)
           \/ SessionEnds \/ TimePasses \/ UNCHANGED correctionVars
  BY DEF CorrectionsNext, EditHook

\* The young edits of a list, by their positions.
LEMMA YoungerPositions ==
    ASSUME NEW list \in Seq(EditEntry), NEW t \in Nat, NEW age \in Nat
    PROVE  \E P \in SUBSET Int, young \in Seq(EditEntry) :
              /\ young = Younger(list, t, age)
              /\ P = {i \in 1..Len(list) : list[i].at > Before(t, age)}
              /\ \A k \in 1..Len(young) : Nth(P, k) \in P /\ young[k] = list[Nth(P, k)]
              /\ \A k, l \in 1..Len(young) : k < l => Nth(P, k) < Nth(P, l)
              /\ \A i \in P : \E k \in 1..Len(young) : Nth(P, k) = i
  <1>1. PICK S : S = {e \in ToSet(list) : e.at > Before(t, age)}
    OBVIOUS
  <1>2. PICK P : P = Positions(list, S)
    OBVIOUS
  <1>3. P = {i \in 1..Len(list) : list[i].at > Before(t, age)}
    BY <1>1, <1>2 DEF Positions, ToSet
  <1>4. P \in SUBSET Int
    BY <1>2, PositionsFinite
  <1>5. Younger(list, t, age) = Kept(list, S)
    BY <1>1 DEF Younger
  <1>6. /\ Kept(list, S) \in Seq(EditEntry)
        /\ \A k \in 1..Len(Kept(list, S)) :
              Nth(P, k) \in P /\ Kept(list, S)[k] = list[Nth(P, k)]
        /\ \A k, l \in 1..Len(Kept(list, S)) : k < l => Nth(P, k) < Nth(P, l)
        /\ \A i \in P : \E k \in 1..Len(Kept(list, S)) : Nth(P, k) = i
    BY <1>2, KeptWitness
  <1>7. QED
    BY <1>3, <1>4, <1>5, <1>6

\* What is found in the list is what is found among all edits that were made.
LEMMA FindsLast ==
    ASSUME CorrectionsTypeOK, EditsKept, NEW edit
    PROVE  LET fits == {i \in 1..Len(made) : /\ made[i].at > Before(clock, CleanupAge)
                                             /\ Reworked(made[i], edit, clock)}
           IN  Find(edits, edit, clock) = IF fits = {} THEN {} ELSE {made[Max(fits)]}
  <1>1. /\ edits \in Seq(EditEntry) /\ made \in Seq(EditEntry) /\ clock \in Nat
        /\ CleanupAge \in Nat
    BY CorrectionsAssumption DEF CorrectionsTypeOK
  <1>2. PICK P \in SUBSET Int, young \in Seq(EditEntry) :
           /\ young = Younger(edits, clock, CleanupAge)
           /\ P = {i \in 1..Len(edits) : edits[i].at > Before(clock, CleanupAge)}
           /\ \A k \in 1..Len(young) : Nth(P, k) \in P /\ young[k] = edits[Nth(P, k)]
           /\ \A k, l \in 1..Len(young) : k < l => Nth(P, k) < Nth(P, l)
           /\ \A i \in P : \E k \in 1..Len(young) : Nth(P, k) = i
    BY <1>1, YoungerPositions
  <1>3. /\ \A k \in 1..Len(young) : Nth(P, k) \in P /\ young[k] = edits[Nth(P, k)]
        /\ \A k, l \in 1..Len(young) : k < l => Nth(P, k) < Nth(P, l)
        /\ \A i \in P : \E k \in 1..Len(young) : Nth(P, k) = i
        /\ P = {i \in 1..Len(edits) : edits[i].at > Before(clock, CleanupAge)}
    BY <1>2
  <1>4. PICK from \in [DOMAIN edits -> DOMAIN made] :
           /\ \A k \in DOMAIN edits : edits[k] = made[from[k]]
           /\ \A k, l \in DOMAIN edits : k < l => from[k] < from[l]
           /\ \A i \in DOMAIN made : made[i].at > Before(clock, CleanupAge) =>
                  \E k \in DOMAIN edits : from[k] = i
    BY DEF EditsKept
  <1>5. /\ DOMAIN edits = 1..Len(edits) /\ DOMAIN made = 1..Len(made)
        /\ DOMAIN young = 1..Len(young)
        /\ Len(edits) \in Nat /\ Len(made) \in Nat /\ Len(young) \in Nat
    BY <1>1, <1>3
  <1>6. PICK fits : fits = {i \in 1..Len(made) : /\ made[i].at > Before(clock, CleanupAge)
                                                 /\ Reworked(made[i], edit, clock)}
    OBVIOUS
  <1>7. PICK F : F = Fitting(young, edit, clock)
    OBVIOUS
  <1>8. F = {k \in 1..Len(young) : Reworked(young[k], edit, clock)}
    BY <1>5, <1>7 DEF Fitting
  <1>9. PICK f : f = [k \in 1..Len(young) |-> from[Nth(P, k)]]
    OBVIOUS
  <1>10. \A k \in 1..Len(young) :
            /\ f[k] = from[Nth(P, k)] /\ Nth(P, k) \in 1..Len(edits) /\ f[k] \in 1..Len(made)
            /\ young[k] = made[f[k]] /\ made[f[k]].at > Before(clock, CleanupAge)
    BY <1>3, <1>4, <1>5, <1>9
  <1>11. \A k \in F : f[k] \in fits /\ young[k] = made[f[k]]
    BY <1>6, <1>8, <1>10
  <1>12. \A k, l \in F : k < l => f[k] < f[l]
    <2> SUFFICES ASSUME NEW k \in 1..Len(young), NEW l \in 1..Len(young), k < l
                 PROVE  f[k] < f[l]
      BY <1>8
    <2>1. Nth(P, k) < Nth(P, l)
      BY <1>3
    <2>2. QED
      BY <1>4, <1>5, <1>10, <2>1
  <1>13. \A i \in fits : \E k \in F : f[k] = i
    <2> SUFFICES ASSUME NEW i \in fits PROVE \E k \in F : f[k] = i
      OBVIOUS
    <2>1. PICK j \in 1..Len(edits) : from[j] = i
      BY <1>4, <1>5, <1>6
    <2>2. edits[j] = made[i] /\ j \in P
      BY <1>3, <1>4, <1>5, <1>6, <2>1
    <2>3. PICK k \in 1..Len(young) : Nth(P, k) = j
      BY <1>3, <2>2
    <2>4. young[k] = made[i] /\ f[k] = i
      BY <1>3, <1>10, <2>1, <2>2, <2>3
    <2>5. k \in F
      BY <1>6, <1>8, <2>4
    <2>6. QED
      BY <2>4, <2>5
  <1>14. F \in SUBSET Int /\ IsFiniteSet(F) /\ fits \in SUBSET Int /\ IsFiniteSet(fits)
    <2>1. IsFiniteSet(1..Len(young)) /\ IsFiniteSet(1..Len(made))
      BY <1>5, FS_Interval
    <2>2. F \subseteq 1..Len(young) /\ fits \subseteq 1..Len(made)
      BY <1>6, <1>8
    <2>3. IsFiniteSet(F) /\ IsFiniteSet(fits)
      BY <2>1, <2>2, FS_Subset
    <2>4. F \in SUBSET Int /\ fits \in SUBSET Int
      BY <1>5, <2>2
    <2>5. QED
      BY <2>3, <2>4
  <1>15. Find(edits, edit, clock) = IF F = {} THEN {} ELSE {young[Max(F)]}
    BY <1>2, <1>7 DEF Find
  <1>16. CASE F = {}
    BY <1>6, <1>13, <1>15, <1>16
  <1>17. CASE F # {}
    <2>1. fits # {} /\ Max(fits) = f[Max(F)]
      BY <1>11, <1>12, <1>13, <1>14, <1>17, MaxAlong
    <2>2. Max(F) \in F
      BY <1>14, <1>17, MaxOf
    <2>3. young[Max(F)] = made[Max(fits)]
      BY <1>11, <2>1, <2>2
    <2>4. QED
      BY <1>6, <1>15, <1>17, <2>1, <2>3
  <1>18. QED
    BY <1>16, <1>17

\* Initially nothing has been written, tracked or told.
LEMMA CorrectionsStart ==
    ASSUME CorrectionsInit
    PROVE  CorrectionsInv
  <1>1. CorrectionsTypeOK
    <2>1. NoWork \in [edit : AnyEdit, session : AnySession, at : Nat]
      BY DEF NoWork, AnyEdit, AnySession
    <2>2. NotLooked \in [upto : Nat, at : Nat] /\ NotLooked.upto = 0 /\ NoWork.at = 0
      BY DEF NotLooked, NoWork
    <2>3. \A p \in Editor : /\ work[p] = NoWork /\ looked[p] = NotLooked
                            /\ found[p] = {} /\ place[p] = "idle"
      BY DEF CorrectionsInit
    <2>4. /\ clock = 1 /\ cut = FALSE /\ Len(made) = 0
          /\ edits = <<>> /\ made = <<>> /\ corrections = <<>> /\ told = <<>>
      BY DEF CorrectionsInit
    <2>5. \A p \in Editor : /\ work[p].at <= clock /\ looked[p].upto <= Len(made)
                            /\ place[p] = "idle" => looked[p] = NotLooked
      BY <2>2, <2>3, <2>4
    <2>6. /\ place \in [Editor -> {"idle", "look", "record", "tell", "stamp", "track"}]
          /\ work \in [Editor -> [edit : AnyEdit, session : AnySession, at : Nat]]
          /\ found \in [Editor -> SUBSET EditEntry]
          /\ looked \in [Editor -> [upto : Nat, at : Nat]]
      BY <2>1, <2>2 DEF CorrectionsInit
    <2>7. /\ clock \in Nat /\ cut \in BOOLEAN
          /\ edits \in Seq(EditEntry) /\ made \in Seq(EditEntry)
          /\ corrections \in Seq(CorrectionEntry) /\ told \in Seq(CorrectionEntry)
      <3>1. <<>> \in Seq(EditEntry) /\ <<>> \in Seq(CorrectionEntry)
        OBVIOUS
      <3>2. clock \in Nat /\ cut \in BOOLEAN
        BY <2>4
      <3>3. QED
        BY <2>4, <3>1, <3>2
    <2>8. QED
      BY <2>5, <2>6, <2>7 DEF CorrectionsTypeOK
  <1>2. EditsKept
    <2>1. DOMAIN edits = {} /\ DOMAIN made = {}
      BY DEF CorrectionsInit
    <2>2. PICK f : f = [k \in DOMAIN edits |-> 1]
      OBVIOUS
    <2>3. f \in [DOMAIN edits -> DOMAIN made]
      BY <2>1, <2>2
    <2>4. QED
      BY <2>1, <2>3 DEF EditsKept
  <1>3. ReworkNoticed
    BY DEF CorrectionsInit, ReworkNoticed
  <1>4. CorrectionsSpaced
    BY DEF CorrectionsInit, CorrectionsSpaced, ToSet, IsInjective
  <1>5. QED
    BY <1>1, <1>2, <1>3, <1>4 DEF CorrectionsInv

\* What a hook tracks and what it tells have the types of the lists.
LEMMA EntryTypes ==
    ASSUME CorrectionsTypeOK, NEW p \in Editor
    PROVE  /\ [file |-> work[p].edit.file, old |-> work[p].edit.old, new |-> work[p].edit.new,
               at |-> work[p].at, session |-> work[p].session] \in EditEntry
           /\ Correction(p) \in CorrectionEntry
           /\ work[p].at \in Nat
  <1>1. /\ work[p] \in [edit : AnyEdit, session : AnySession, at : Nat]
        /\ found[p] \in SUBSET EditEntry
    BY DEF CorrectionsTypeOK
  <1>2. work[p].edit \in AnyEdit /\ work[p].session \in AnySession /\ work[p].at \in Nat
    BY <1>1
  <1>3. QED
    BY <1>1, <1>2 DEF EditEntry, CorrectionEntry, Correction

\* What is found is an edit of the list.
LEMMA FoundTypes ==
    ASSUME CorrectionsTypeOK, NEW edit
    PROVE  Find(edits, edit, clock) \in SUBSET EditEntry
  <1>1. edits \in Seq(EditEntry) /\ clock \in Nat /\ CleanupAge \in Nat
    BY CorrectionsAssumption DEF CorrectionsTypeOK
  <1>2. PICK young \in Seq(EditEntry) : young = Younger(edits, clock, CleanupAge)
    BY <1>1, YoungerPositions
  <1>3. PICK F : F = Fitting(young, edit, clock)
    OBVIOUS
  <1>4. Find(edits, edit, clock) = IF F = {} THEN {} ELSE {young[Max(F)]}
    BY <1>2, <1>3 DEF Find
  <1>5. ASSUME F # {} PROVE young[Max(F)] \in EditEntry
    <2>1. DOMAIN young = 1..Len(young) /\ Len(young) \in Nat
      BY <1>2
    <2>2. F \subseteq 1..Len(young)
      BY <1>3, <2>1 DEF Fitting
    <2>3. IsFiniteSet(1..Len(young))
      BY <2>1, FS_Interval
    <2>4. IsFiniteSet(F)
      BY <2>2, <2>3, FS_Subset
    <2>5. F \in SUBSET Int
      BY <2>1, <2>2
    <2>6. Max(F) \in F
      BY <1>5, <2>4, <2>5, MaxOf
    <2>7. Max(F) \in 1..Len(young)
      BY <2>2, <2>6
    <2>8. QED
      BY <1>2, <2>7, ElementOfSeq
  <1>6. QED
    BY <1>4, <1>5

\* A hook that stamps its work stamps it with the time.
LEMMA StampTypes ==
    ASSUME CorrectionsTypeOK, NEW p \in Editor,
           work' = [work EXCEPT ![p] = [@ EXCEPT !.at = clock]]
    PROVE  /\ work' \in [Editor -> [edit : AnyEdit, session : AnySession, at : Nat]]
           /\ \A q \in Editor : work'[q].at <= clock /\ work'[q].edit = work[q].edit
           /\ \A q \in Editor : q # p => work'[q] = work[q]
  <1>1. /\ clock \in Nat
        /\ work \in [Editor -> [edit : AnyEdit, session : AnySession, at : Nat]]
    BY DEF CorrectionsTypeOK
  <1>2. PICK r : r = [work[p] EXCEPT !.at = clock]
    OBVIOUS
  <1>3. work[p] \in [edit : AnyEdit, session : AnySession, at : Nat]
    BY <1>1
  <1>4. r.at = clock /\ r.edit = work[p].edit
    BY <1>2, <1>3
  <1>5. r \in [edit : AnyEdit, session : AnySession, at : Nat]
    BY <1>1, <1>2, <1>3
  <1>6. work' = [work EXCEPT ![p] = r]
    BY <1>2
  <1>7. work'[p] = r /\ \A q \in Editor : q # p => work'[q] = work[q]
    BY <1>1, <1>6
  <1>8. r.at <= clock
    BY <1>1, <1>4
  <1>9. \A q \in Editor : work[q].at <= clock
    BY DEF CorrectionsTypeOK
  <1>10. \A q \in Editor : work'[q].at <= clock /\ work'[q].edit = work[q].edit
    BY <1>4, <1>7, <1>8, <1>9
  <1>11. work' \in [Editor -> [edit : AnyEdit, session : AnySession, at : Nat]]
    BY <1>1, <1>5, <1>6
  <1>12. QED
    BY <1>7, <1>10, <1>11

\* Every step keeps the types.
LEMMA CorrectionTypesStep ==
    ASSUME CorrectionsInv, [CorrectionsNext]_correctionVars
    PROVE  CorrectionsTypeOK'
  <1> USE CorrectionsInv DEF CorrectionsInv
  <1>1. ASSUME NEW p \in Editor, NEW edit \in Rework, StartEdit(p, edit)
        PROVE  CorrectionsTypeOK'
    <2>1. PICK s \in EditSession \union {"none"} :
             work' = [work EXCEPT ![p] = [edit |-> edit, session |-> s, at |-> 0]]
      BY <1>1 DEF StartEdit
    <2>2. [edit |-> edit, session |-> s, at |-> 0] \in [edit : AnyEdit, session : AnySession, at : Nat]
      BY DEF AnyEdit, AnySession
    <2>3. \A q \in Editor : work'[q] = work[q] \/ work'[q].at = 0
      BY <2>1 DEF CorrectionsTypeOK
    <2>4. \A q \in Editor : work'[q].at <= clock
      <3>1. clock \in Nat /\ (\A q \in Editor : work[q].at <= clock)
        BY DEF CorrectionsTypeOK
      <3>2. 0 <= clock
        BY <3>1
      <3>3. QED
        BY <2>3, <3>1, <3>2
    <2>5. place' \in [Editor -> {"idle", "look", "record", "tell", "stamp", "track"}]
          /\ \A q \in Editor : place'[q] = "idle" => place[q] = "idle"
      BY <1>1 DEF StartEdit, Enter, CorrectionsTypeOK
    <2>6. work' \in [Editor -> [edit : AnyEdit, session : AnySession, at : Nat]]
      BY <2>1, <2>2 DEF CorrectionsTypeOK
    <2>7. UNCHANGED <<clock, edits, corrections, found, made, looked, told, cut>>
      BY <1>1 DEF StartEdit, traces
    <2>8. QED
      BY <2>4, <2>5, <2>6, <2>7 DEF CorrectionsTypeOK
  <1>2. ASSUME NEW p \in Editor, Look(p)
        PROVE  CorrectionsTypeOK'
    <2>1. Find(edits, work[p].edit, clock) \in SUBSET EditEntry
      BY FoundTypes
    <2>2. made \in Seq(EditEntry) /\ Len(made) \in Nat
      BY DEF CorrectionsTypeOK
    <2>3. work' = [work EXCEPT ![p] = [@ EXCEPT !.at = clock]]
      BY <1>2 DEF Look
    <2>4. /\ work' \in [Editor -> [edit : AnyEdit, session : AnySession, at : Nat]]
          /\ \A q \in Editor : work'[q].at <= clock
      BY <2>3, StampTypes
    <2>5. /\ looked' \in [Editor -> [upto : Nat, at : Nat]]
          /\ \A q \in Editor : looked'[q] = looked[q] \/ looked'[q].upto = Len(made)
          /\ \A q \in Editor : q # p => looked'[q] = looked[q]
      BY <1>2, <2>2 DEF Look, CorrectionsTypeOK
    <2>6. \A q \in Editor : looked'[q].upto <= Len(made)
      BY <2>2, <2>5 DEF CorrectionsTypeOK
    <2>7. /\ place' \in [Editor -> {"idle", "look", "record", "tell", "stamp", "track"}]
          /\ \A q \in Editor : place'[q] = "idle" => q # p /\ place[q] = "idle"
      BY <1>2 DEF Look, Enter, CorrectionsTypeOK
    <2>8. found' \in [Editor -> SUBSET EditEntry]
      BY <1>2, <2>1 DEF Look, CorrectionsTypeOK
    <2>9. UNCHANGED <<clock, edits, corrections, made, told, cut>>
      BY <1>2 DEF Look
    <2>10. QED
      BY <2>4, <2>5, <2>6, <2>7, <2>8, <2>9 DEF CorrectionsTypeOK
  <1>3. ASSUME NEW p \in Editor, RecordCorrection(p)
        PROVE  CorrectionsTypeOK'
    <2>1. Correction(p) \in CorrectionEntry /\ corrections \in Seq(CorrectionEntry)
      BY EntryTypes DEF CorrectionsTypeOK
    <2>2. PICK all : all = Append(corrections, Correction(p))
      OBVIOUS
    <2>3. all \in Seq(CorrectionEntry) /\ all # <<>> /\ Tail(all) \in Seq(CorrectionEntry)
      <3>1. all \in Seq(CorrectionEntry) /\ Len(all) = Len(corrections) + 1 /\ Len(corrections) \in Nat
        BY <2>1, <2>2
      <3>2. all # <<>>
        BY <3>1
      <3>3. QED
        BY <3>1, <3>2
    <2>4. (Len(all) > MaxCorrections) \in BOOLEAN
      OBVIOUS
    <2>5. corrections' \in {corrections, all, Tail(all)} /\ cut' \in BOOLEAN
      BY <1>3, <2>2, <2>4 DEF RecordCorrection, CorrectionsTypeOK
    <2>6. corrections' \in Seq(CorrectionEntry)
      BY <2>1, <2>2, <2>3, <2>5
    <2>7. place' \in [Editor -> {"idle", "look", "record", "tell", "stamp", "track"}]
          /\ \A q \in Editor : place'[q] = "idle" => place[q] = "idle"
      <3>1. \E next \in {"stamp", "tell"} : place' = [place EXCEPT ![p] = next]
        BY <1>3 DEF RecordCorrection, Enter
      <3>2. QED
        BY <3>1 DEF CorrectionsTypeOK
    <2>8. QED
      BY <1>3, <2>5, <2>6, <2>7 DEF RecordCorrection, bounds, CorrectionsTypeOK
  <1>4. ASSUME NEW p \in Editor, Tell(p)
        PROVE  CorrectionsTypeOK'
    <2>1. Correction(p) \in CorrectionEntry
      BY EntryTypes
    <2>2. QED
      BY <1>4, <2>1 DEF Tell, Enter, bounds, CorrectionsTypeOK
  <1>5. ASSUME NEW p \in Editor, Stamp(p)
        PROVE  CorrectionsTypeOK'
    <2>1. work' = [work EXCEPT ![p] = [@ EXCEPT !.at = clock]]
      BY <1>5 DEF Stamp
    <2>2. /\ work' \in [Editor -> [edit : AnyEdit, session : AnySession, at : Nat]]
          /\ \A q \in Editor : work'[q].at <= clock
      BY <2>1, StampTypes
    <2>3. QED
      BY <1>5, <2>2 DEF Stamp, Enter, bounds, traces, CorrectionsTypeOK
  <1>6. /\ NoWork \in [edit : AnyEdit, session : AnySession, at : Nat] /\ NoWork.at = 0
        /\ NotLooked \in [upto : Nat, at : Nat] /\ NotLooked.upto = 0
    BY DEF NoWork, NotLooked, AnyEdit, AnySession
  <1>7. ASSUME NEW p \in Editor, Done(p), made \in Seq(EditEntry), made' \in Seq(EditEntry),
               Len(made) <= Len(made'), clock' = clock
        PROVE  /\ place' \in [Editor -> {"idle", "look", "record", "tell", "stamp", "track"}]
               /\ work' \in [Editor -> [edit : AnyEdit, session : AnySession, at : Nat]]
               /\ found' \in [Editor -> SUBSET EditEntry]
               /\ looked' \in [Editor -> [upto : Nat, at : Nat]]
               /\ \A q \in Editor :
                     /\ work'[q].at <= clock' /\ looked'[q].upto <= Len(made')
                     /\ place'[q] = "idle" => looked'[q] = NotLooked
    <2>1. Len(made) \in Nat /\ Len(made') \in Nat
      BY <1>7
    <2>2. /\ place' \in [Editor -> {"idle", "look", "record", "tell", "stamp", "track"}]
          /\ work' \in [Editor -> [edit : AnyEdit, session : AnySession, at : Nat]]
          /\ found' \in [Editor -> SUBSET EditEntry]
          /\ looked' \in [Editor -> [upto : Nat, at : Nat]]
      BY <1>6, <1>7 DEF Done, Enter, CorrectionsTypeOK
    <2>3. ASSUME NEW q \in Editor
          PROVE  /\ work'[q].at <= clock' /\ looked'[q].upto <= Len(made')
                 /\ place'[q] = "idle" => looked'[q] = NotLooked
      <3>1. CASE q = p
        <4>1. work'[q] = NoWork /\ looked'[q] = NotLooked
          BY <1>7, <3>1 DEF Done, CorrectionsTypeOK
        <4>2. clock \in Nat
          BY DEF CorrectionsTypeOK
        <4>3. QED
          BY <1>6, <1>7, <2>1, <4>1, <4>2
      <3>2. CASE q # p
        <4>1. work'[q] = work[q] /\ looked'[q] = looked[q] /\ place'[q] = place[q]
          BY <1>7, <3>2 DEF Done, Enter, CorrectionsTypeOK
        <4>2. /\ work[q].at <= clock /\ looked[q].upto <= Len(made) /\ looked[q].upto \in Nat
              /\ place[q] = "idle" => looked[q] = NotLooked
          BY DEF CorrectionsTypeOK
        <4>3. QED
          BY <1>7, <2>1, <4>1, <4>2
      <3>3. QED
        BY <3>1, <3>2
    <2>4. QED
      BY <2>2, <2>3
  <1>8. ASSUME NEW p \in Editor, TrackEdit(p)
        PROVE  CorrectionsTypeOK'
    <2>1. PICK entry : entry = [file |-> work[p].edit.file, old |-> work[p].edit.old,
                                new |-> work[p].edit.new, at |-> work[p].at,
                                session |-> work[p].session]
      OBVIOUS
    <2>2. entry \in EditEntry /\ work[p].at \in Nat
      BY <2>1, EntryTypes
    <2>3. edits' = Append(Younger(edits, work[p].at, CleanupAge), entry) /\ made' = Append(made, entry)
      BY <1>8, <2>1 DEF TrackEdit
    <2>4. edits \in Seq(EditEntry) /\ made \in Seq(EditEntry) /\ CleanupAge \in Nat
      BY CorrectionsAssumption DEF CorrectionsTypeOK
    <2>5. Younger(edits, work[p].at, CleanupAge) \in Seq(EditEntry)
      BY <2>2, <2>4, YoungerPositions
    <2>6. edits' \in Seq(EditEntry) /\ made' \in Seq(EditEntry) /\ Len(made) <= Len(made')
      BY <2>2, <2>3, <2>4, <2>5
    <2>7. Done(p) /\ clock' = clock /\ corrections' = corrections /\ told' = told /\ cut' = cut
      BY <1>8 DEF TrackEdit
    <2>8. QED
      BY <1>7, <2>4, <2>6, <2>7 DEF CorrectionsTypeOK
  <1>9. ASSUME NEW p \in Editor, EditorStops(p)
        PROVE  CorrectionsTypeOK'
    <2>1. Done(p) /\ UNCHANGED <<clock, edits, corrections, made, told, cut>>
      BY <1>9 DEF EditorStops
    <2>2. made \in Seq(EditEntry) /\ Len(made) <= Len(made)
      BY DEF CorrectionsTypeOK
    <2>3. QED
      BY <1>7, <2>1, <2>2 DEF CorrectionsTypeOK
  <1>10. ASSUME NEW p \in Editor, CorrectionFails(p)
         PROVE  CorrectionsTypeOK'
    BY <1>10 DEF CorrectionFails, Enter, traces, CorrectionsTypeOK
  <1>11. CASE SessionEnds
    BY <1>11 DEF SessionEnds, bounds, CorrectionsTypeOK
  <1>12. CASE TimePasses
    <2>1. clock \in Nat /\ clock' = clock + 1
      BY <1>12 DEF TimePasses, CorrectionsTypeOK
    <2>2. \A q \in Editor : work[q].at \in Nat /\ work[q].at <= clock
      BY EntryTypes DEF CorrectionsTypeOK
    <2>3. \A q \in Editor : work[q].at <= clock'
      BY <2>1, <2>2
    <2>4. QED
      BY <1>12, <2>1, <2>3 DEF TimePasses, bounds, traces, CorrectionsTypeOK
  <1>13. CASE UNCHANGED correctionVars
    BY <1>13 DEF correctionVars, CorrectionsTypeOK
  <1>14. QED
    BY <1>1, <1>2, <1>3, <1>4, <1>5, <1>8, <1>9, <1>10, <1>11, <1>12, <1>13, EditorStepCases

\* Every step keeps what is said of the list of edits: a hook that tracks an
\* edit throws none away that a later hook can take for young.
LEMMA EditsKeptStep ==
    ASSUME CorrectionsInv, [CorrectionsNext]_correctionVars
    PROVE  EditsKept'
  <1>1. /\ edits \in Seq(EditEntry) /\ made \in Seq(EditEntry) /\ clock \in Nat
        /\ CleanupAge \in Nat /\ CorrectionsTypeOK /\ EditsKept
    BY CorrectionsAssumption DEF CorrectionsInv, CorrectionsTypeOK
  <1>2. /\ DOMAIN edits = 1..Len(edits) /\ Len(edits) \in Nat
        /\ DOMAIN made = 1..Len(made) /\ Len(made) \in Nat
        /\ \A i \in DOMAIN made : made[i].at \in Nat
    <2>1. /\ DOMAIN edits = 1..Len(edits) /\ Len(edits) \in Nat
          /\ DOMAIN made = 1..Len(made) /\ Len(made) \in Nat
      BY <1>1
    <2>2. \A i \in 1..Len(made) : made[i] \in EditEntry
      BY <1>1, ElementOfSeq
    <2>3. \A e \in EditEntry : e.at \in Nat
      BY DEF EditEntry
    <2>4. QED
      BY <2>1, <2>2, <2>3
  <1>3. PICK from \in [DOMAIN edits -> DOMAIN made] :
           /\ \A k \in DOMAIN edits : edits[k] = made[from[k]]
           /\ \A k, l \in DOMAIN edits : k < l => from[k] < from[l]
           /\ \A i \in DOMAIN made : made[i].at > Before(clock, CleanupAge) =>
                  \E k \in DOMAIN edits : from[k] = i
    BY <1>1 DEF EditsKept
  <1>4. ASSUME UNCHANGED <<edits, made, clock>> PROVE EditsKept'
    BY <1>1, <1>4 DEF EditsKept, Before
  <1>5. CASE TimePasses
    <2>1. clock' = clock + 1 /\ edits' = edits /\ made' = made
      BY <1>5 DEF TimePasses, traces
    <2>2. PICK u \in Nat : u = clock' /\ clock <= u
      BY <1>1, <2>1
    <2>3. /\ Before(clock, CleanupAge) \in Nat /\ Before(u, CleanupAge) \in Nat
          /\ Before(clock, CleanupAge) <= Before(u, CleanupAge)
      <3>1. clock \in Nat /\ CleanupAge \in Nat /\ u \in Nat /\ clock <= u
        BY <1>1, <2>2
      <3>2. QED
        BY <3>1 DEF Before
    <2>4. \A i \in DOMAIN made : made[i].at > Before(u, CleanupAge) =>
                                 made[i].at > Before(clock, CleanupAge)
      BY <1>2, <2>3
    <2>5. PICK b : b = Before(u, CleanupAge)
      OBVIOUS
    <2>6. /\ from \in [DOMAIN edits' -> DOMAIN made']
          /\ \A k \in DOMAIN edits' : edits'[k] = made'[from[k]]
          /\ \A k, l \in DOMAIN edits' : k < l => from[k] < from[l]
          /\ \A i \in DOMAIN made' : made'[i].at > b => \E k \in DOMAIN edits' : from[k] = i
      BY <1>3, <2>1, <2>4, <2>5
    <2>7. b = Before(clock, CleanupAge)'
      BY <2>5, <2>2 DEF Before
    <2>8. QED
      BY <2>6, <2>7 DEF EditsKept
  <1>6. ASSUME NEW p \in Editor, TrackEdit(p) PROVE EditsKept'
    <2>1. PICK entry : entry = [file |-> work[p].edit.file, old |-> work[p].edit.old,
                                new |-> work[p].edit.new, at |-> work[p].at,
                                session |-> work[p].session]
      OBVIOUS
    <2> DEFINE t == work[p].at
    <2>2. entry \in EditEntry /\ entry.at = t /\ t \in Nat
      BY <1>1, <2>1, EntryTypes
    <2>3. t <= clock
      BY <1>1 DEF CorrectionsTypeOK
    <2>4. /\ edits' = Append(Younger(edits, t, CleanupAge), entry)
           /\ made' = Append(made, entry) /\ clock' = clock
      BY <1>6, <2>1 DEF TrackEdit
    <2> HIDE DEF t
    <2>5. PICK P \in SUBSET Int, young \in Seq(EditEntry) :
             /\ young = Younger(edits, t, CleanupAge)
             /\ P = {i \in 1..Len(edits) : edits[i].at > Before(t, CleanupAge)}
             /\ \A k \in 1..Len(young) : Nth(P, k) \in P /\ young[k] = edits[Nth(P, k)]
             /\ \A k, l \in 1..Len(young) : k < l => Nth(P, k) < Nth(P, l)
             /\ \A i \in P : \E k \in 1..Len(young) : Nth(P, k) = i
      <3>1. edits \in Seq(EditEntry) /\ t \in Nat /\ CleanupAge \in Nat
        BY <1>1, <2>2
      <3>2. QED
        BY <3>1, YoungerPositions
    <2>6. PICK n \in Nat : n = Len(young)
      BY <2>5
    <2>7. PICK m \in Nat : m = Len(made)
      BY <1>2
    <2>8. /\ edits' = Append(young, entry) /\ DOMAIN edits' = 1..(n + 1)
          /\ (\A k \in 1..n : edits'[k] = young[k]) /\ edits'[n + 1] = entry
      BY <2>5, <2>6, <2>2, <2>4
    <2>9. /\ DOMAIN made' = 1..(m + 1)
          /\ (\A i \in 1..m : made'[i] = made[i]) /\ made'[m + 1] = entry
      BY <1>1, <2>7, <2>2, <2>4
    <2>10. PICK g : g = [k \in 1..(n + 1) |-> IF k = n + 1 THEN m + 1 ELSE from[Nth(P, k)]]
      OBVIOUS
    <2>11. \A k \in 1..n : /\ g[k] = from[Nth(P, k)] /\ Nth(P, k) \in 1..Len(edits)
                          /\ g[k] \in 1..m /\ young[k] = made[g[k]]
      <3> SUFFICES ASSUME NEW k \in 1..n
                   PROVE  /\ g[k] = from[Nth(P, k)] /\ Nth(P, k) \in 1..Len(edits)
                          /\ g[k] \in 1..m /\ young[k] = made[g[k]]
        OBVIOUS
      <3>1. k \in 1..(n + 1) /\ k # n + 1
        BY <2>6
      <3>2. g[k] = from[Nth(P, k)]
        BY <2>10, <3>1
      <3>3. Nth(P, k) \in P /\ young[k] = edits[Nth(P, k)] /\ Nth(P, k) \in 1..Len(edits)
        BY <2>5, <2>6
      <3>4. QED
        BY <1>2, <1>3, <2>7, <3>2, <3>3
    <2>12. g[n + 1] = m + 1
      BY <2>6, <2>10
    <2>13. \A k \in 1..(n + 1) : k \in 1..n \/ k = n + 1
      BY <2>6
    <2>14. g \in [DOMAIN edits' -> DOMAIN made']
      <3>1. \A k \in 1..(n + 1) : g[k] \in 1..(m + 1)
        <4> SUFFICES ASSUME NEW k \in 1..(n + 1) PROVE g[k] \in 1..(m + 1)
          OBVIOUS
        <4>1. CASE k \in 1..n
          <5>1. g[k] \in 1..m
            BY <2>11, <4>1
          <5>2. QED
            BY <2>7, <5>1
        <4>2. CASE k = n + 1
          BY <2>7, <2>12, <4>2
        <4>3. QED
          BY <2>13, <4>1, <4>2
      <3>2. QED
        BY <2>8, <2>9, <2>10, <3>1
    <2>15. \A k \in DOMAIN edits' : edits'[k] = made'[g[k]]
      BY <2>8, <2>9, <2>11, <2>12, <2>13
    <2>16. \A k, l \in DOMAIN edits' : k < l => g[k] < g[l]
      <3> SUFFICES ASSUME NEW k \in 1..(n + 1), NEW l \in 1..(n + 1), k < l PROVE g[k] < g[l]
        BY <2>8
      <3>1. k \in 1..n
        BY <2>6
      <3>2. CASE l = n + 1
        BY <2>7, <2>11, <2>12, <3>1, <3>2
      <3>3. CASE l \in 1..n
        <4>1. Nth(P, k) < Nth(P, l)
          BY <2>5, <2>6, <3>1, <3>3
        <4>2. QED
          BY <1>2, <1>3, <2>11, <3>1, <3>3, <4>1
      <3>4. QED
        BY <2>13, <3>2, <3>3
    <2>17. /\ Before(t, CleanupAge) \in Nat /\ Before(clock, CleanupAge) \in Nat
           /\ Before(t, CleanupAge) <= Before(clock, CleanupAge)
      <3>1. t \in Nat /\ clock \in Nat /\ CleanupAge \in Nat /\ t <= clock
        BY <1>1, <2>2, <2>3
      <3>2. QED
        BY <3>1 DEF Before
    <2>18. \A i \in DOMAIN made' : made'[i].at > Before(clock, CleanupAge) =>
               \E k \in DOMAIN edits' : g[k] = i
      <3> SUFFICES ASSUME NEW i \in 1..(m + 1), made'[i].at > Before(clock, CleanupAge)
                   PROVE  \E k \in 1..(n + 1) : g[k] = i
        BY <2>8, <2>9
      <3>1. CASE i = m + 1
        BY <2>6, <2>12, <3>1
      <3>2. CASE i \in 1..m
        <4>1. made[i].at > Before(clock, CleanupAge) /\ made[i].at \in Nat
          BY <1>2, <2>7, <2>9, <3>2
        <4>2. PICK j \in 1..Len(edits) : from[j] = i
          BY <1>2, <1>3, <2>7, <3>2, <4>1
        <4>3. edits[j].at > Before(t, CleanupAge)
          BY <1>2, <1>3, <2>17, <4>1, <4>2
        <4>4. j \in P
          BY <2>5, <4>3
        <4>5. PICK k \in 1..n : Nth(P, k) = j
          BY <2>5, <2>6, <4>4
        <4>6. g[k] = i /\ k \in 1..(n + 1)
          BY <2>6, <2>11, <4>2, <4>5
        <4>7. QED
          BY <4>6
      <3>3. QED
        BY <2>7, <3>1, <3>2
    <2>19. clock' = clock
      BY <2>4
    <2>20. QED
      BY <2>14, <2>15, <2>16, <2>18, <2>19 DEF EditsKept, Before
  <1>7. QED
    BY <1>4, <1>5, <1>6, EditorStepCases
       DEF StartEdit, Look, RecordCorrection, Tell, Stamp, EditorStops, CorrectionFails,
           SessionEnds, correctionVars, traces

\* The edits that were made when p looked, and fit what it does.
FitsFor(p) == {i \in 1..looked[p].upto : /\ made[i].at > Before(looked[p].at, CleanupAge)
                                         /\ Reworked(made[i], work[p].edit, looked[p].at)}
Noticed(p) ==
    looked[p] # NotLooked => found[p] = IF FitsFor(p) = {} THEN {} ELSE {made[Max(FitsFor(p))]}

LEMMA NoticedEach == ReworkNoticed <=> \A p \in Editor : Noticed(p)
  BY DEF ReworkNoticed, Noticed, FitsFor

\* What a hook has found stays right while the others make edits.
LEMMA NoticedStays ==
    ASSUME CorrectionsTypeOK, ReworkNoticed, NEW p \in Editor,
           looked'[p] = looked[p], found'[p] = found[p],
           looked[p] # NotLooked => work'[p].edit = work[p].edit,
           \A i \in 1..Len(made) : made'[i] = made[i]
    PROVE  Noticed(p)'
  <1> SUFFICES ASSUME looked[p] # NotLooked PROVE Noticed(p)'
    BY DEF Noticed
  <1>1. looked[p].upto \in Nat /\ looked[p].upto <= Len(made) /\ Len(made) \in Nat
    BY DEF CorrectionsTypeOK
  <1>2. \A i \in 1..looked[p].upto : made'[i] = made[i]
    BY <1>1
  <1>3. FitsFor(p)' = {i \in 1..looked[p].upto :
                         /\ made'[i].at > Before(looked[p].at, CleanupAge)
                         /\ Reworked(made'[i], work[p].edit, looked[p].at)}
    BY DEF FitsFor, Before, Reworked
  <1>4. FitsFor(p)' = FitsFor(p) /\ FitsFor(p) \subseteq 1..looked[p].upto
    BY <1>2, <1>3 DEF FitsFor
  <1>5. FitsFor(p) # {} => Max(FitsFor(p)) \in FitsFor(p)
    <2>1. PICK n \in Nat : n = looked[p].upto
      BY <1>1
    <2>2. FitsFor(p) \in SUBSET (1..n)
      BY <1>4, <2>1
    <2>3. QED
      BY <2>2, NextPosition
  <1>6. FitsFor(p) # {} => made'[Max(FitsFor(p))] = made[Max(FitsFor(p))]
    BY <1>2, <1>4, <1>5
  <1>7. Noticed(p)
    BY NoticedEach
  <1>8. PICK F : F = FitsFor(p)
    OBVIOUS
  <1>9. found'[p] = IF F = {} THEN {} ELSE {made'[Max(F)]}
    BY <1>6, <1>7, <1>8 DEF Noticed
  <1>10. FitsFor(p)' = F
    BY <1>4, <1>8
  <1>11. QED
    BY <1>9, <1>10 DEF Noticed

\* Every step keeps that rework is noticed.
LEMMA NoticedStep ==
    ASSUME CorrectionsInv, [CorrectionsNext]_correctionVars
    PROVE  ReworkNoticed'
  <1>1. CorrectionsTypeOK /\ EditsKept /\ ReworkNoticed
    BY DEF CorrectionsInv
  <1>2. SUFFICES ASSUME NEW q \in Editor PROVE Noticed(q)'
    BY NoticedEach DEF ReworkNoticed, Noticed, FitsFor
  <1>3. made \in Seq(EditEntry) /\ \A i \in 1..Len(made) : made[i] = made[i]
    BY <1>1 DEF CorrectionsTypeOK
  <1>4. ASSUME NEW p \in Editor, NEW edit \in Rework, StartEdit(p, edit) PROVE Noticed(q)'
    <2>1. UNCHANGED <<looked, found, made>>
      BY <1>4 DEF StartEdit, traces
    <2>2. looked[q] # NotLooked => q # p
      BY <1>1, <1>4 DEF StartEdit, CorrectionsTypeOK
    <2>3. q # p => work'[q] = work[q]
      BY <1>1, <1>4 DEF StartEdit, CorrectionsTypeOK
    <2>4. QED
      BY <1>1, <2>1, <2>2, <2>3, NoticedStays
  <1>5. ASSUME NEW p \in Editor, Look(p) PROVE Noticed(q)'
    <2>1. made' = made /\ work' = [work EXCEPT ![p] = [@ EXCEPT !.at = clock]]
      BY <1>5 DEF Look
    <2>2. work'[q].edit = work[q].edit
      BY <1>1, <2>1, StampTypes
    <2>3. CASE q # p
      <3>1. looked'[q] = looked[q] /\ found'[q] = found[q]
        BY <1>1, <1>5, <2>3 DEF Look, CorrectionsTypeOK
      <3>2. QED
        BY <1>1, <2>1, <2>2, <3>1, NoticedStays
    <2>4. CASE q = p
      <3>1. /\ looked'[q] = [upto |-> Len(made), at |-> clock]
            /\ found'[q] = Find(edits, work[q].edit, clock)
        BY <1>1, <1>5, <2>4 DEF Look, CorrectionsTypeOK
      <3>2. PICK F : F = {i \in 1..Len(made) : /\ made[i].at > Before(clock, CleanupAge)
                                               /\ Reworked(made[i], work[q].edit, clock)}
        OBVIOUS
      <3>3. found'[q] = IF F = {} THEN {} ELSE {made[Max(F)]}
        BY <1>1, <3>1, <3>2, FindsLast
      <3>4. looked'[q].upto = Len(made) /\ looked'[q].at = clock
        BY <3>1
      <3>5. FitsFor(q)' = F
        BY <2>1, <2>2, <3>2, <3>4 DEF FitsFor, Before, Reworked
      <3>6. QED
        BY <2>1, <3>3, <3>5 DEF Noticed
    <2>5. QED
      BY <2>3, <2>4
  <1>6. ASSUME NEW p \in Editor, Stamp(p) PROVE Noticed(q)'
    <2>1. UNCHANGED <<looked, found, made>> /\ work' = [work EXCEPT ![p] = [@ EXCEPT !.at = clock]]
      BY <1>6 DEF Stamp, traces
    <2>2. work'[q].edit = work[q].edit
      BY <1>1, <2>1, StampTypes
    <2>3. QED
      BY <1>1, <2>1, <2>2, NoticedStays
  <1>7. ASSUME NEW p \in Editor, Done(p), \A i \in 1..Len(made) : made'[i] = made[i]
        PROVE  Noticed(q)'
    <2>1. CASE q # p
      <3>1. looked'[q] = looked[q] /\ found'[q] = found[q] /\ work'[q] = work[q]
        BY <1>1, <1>7, <2>1 DEF Done, CorrectionsTypeOK
      <3>2. QED
        BY <1>1, <1>7, <3>1, NoticedStays
    <2>2. CASE q = p
      <3>1. looked'[q] = NotLooked
        BY <1>1, <1>7, <2>2 DEF Done, CorrectionsTypeOK
      <3>2. QED
        BY <3>1 DEF Noticed, NotLooked
    <2>3. QED
      BY <2>1, <2>2
  <1>8. ASSUME NEW p \in Editor, TrackEdit(p) PROVE Noticed(q)'
    <2>1. PICK entry : made' = Append(made, entry)
      BY <1>8 DEF TrackEdit
    <2>2. \A i \in 1..Len(made) : made'[i] = made[i]
      BY <1>3, <2>1
    <2>3. Done(p)
      BY <1>8 DEF TrackEdit
    <2>4. QED
      BY <1>7, <2>2, <2>3
  <1>9. ASSUME NEW p \in Editor, EditorStops(p) PROVE Noticed(q)'
    BY <1>7, <1>9 DEF EditorStops
  <1>10. ASSUME UNCHANGED <<looked, found, work, made>> PROVE Noticed(q)'
    BY <1>1, <1>10, NoticedStays
  <1>11. QED
    BY <1>4, <1>5, <1>6, <1>8, <1>9, <1>10, EditorStepCases
       DEF RecordCorrection, Tell, CorrectionFails, SessionEnds, TimePasses, correctionVars, traces

\* A step in which no hook comes to tell keeps what is said of the corrections.
LEMMA SpacedStays ==
    ASSUME CorrectionsSpaced, UNCHANGED <<corrections, told, cut>>,
           \A q \in Editor : place'[q] = "tell" =>
               place[q] = "tell" /\ work'[q] = work[q] /\ found'[q] = found[q]
    PROVE  CorrectionsSpaced'
  <1>1. \A q \in Editor : place'[q] = "tell" => Correction(q)' = Correction(q)
    BY DEF Correction
  <1>2. CASE cut
    BY <1>2 DEF CorrectionsSpaced
  <1>3. CASE ~cut
    <2>1. /\ \A i, j \in DOMAIN corrections :
                i < j /\ Alike(corrections[i], corrections[j]) =>
                    corrections[j].at > corrections[i].at + DedupeWindow
          /\ ToSet(told) \subseteq ToSet(corrections) /\ IsInjective(told)
      BY <1>3 DEF CorrectionsSpaced
    <2>2. \A p \in Editor : place'[p] = "tell" =>
              Correction(p)' \in ToSet(corrections) \ ToSet(told)
      BY <1>1, <1>3 DEF CorrectionsSpaced
    <2>3. \A p \in Editor : \A q \in Editor \ {p} :
              place'[p] = "tell" /\ place'[q] = "tell" => Correction(q)' # Correction(p)'
      BY <1>1, <1>3 DEF CorrectionsSpaced
    <2>4. QED
      BY <2>1, <2>2, <2>3 DEF CorrectionsSpaced, Alike
  <1>4. QED
    BY <1>2, <1>3

\* A correction that is recorded comes a window after all that are like it.
LEMMA SpacedRecord ==
    ASSUME CorrectionsTypeOK, CorrectionsSpaced, NEW p \in Editor, RecordCorrection(p)
    PROVE  CorrectionsSpaced'
  <1>1. PICK c \in CorrectionEntry : c = Correction(p) /\ c.at \in Nat
    <2>1. Correction(p) \in CorrectionEntry /\ work[p].at \in Nat
      BY EntryTypes
    <2>2. Correction(p).at = work[p].at
      BY DEF Correction
    <2>3. QED
      BY <2>1, <2>2
  <1>2. /\ corrections \in Seq(CorrectionEntry) /\ told \in Seq(CorrectionEntry)
        /\ DedupeWindow \in Nat
    BY CorrectionsAssumption DEF CorrectionsTypeOK
  <1>3. UNCHANGED <<work, found, told>>
    BY DEF RecordCorrection
  <1>4. \A q \in Editor : Correction(q)' = Correction(q)
    BY <1>3 DEF Correction
  <1>5. \A q \in Editor : q # p => place'[q] = place[q]
    BY DEF RecordCorrection, Enter, CorrectionsTypeOK
  <1>6. CASE Recorded(Correction(p))
    <2>1. UNCHANGED <<corrections, cut>> /\ place'[p] = "stamp"
      BY <1>6 DEF RecordCorrection, Enter, CorrectionsTypeOK
    <2>2. QED
      BY <1>3, <1>5, <2>1, SpacedStays
  <1>7. CASE ~Recorded(Correction(p)) /\ ~cut'
    <2>1. PICK n \in Nat : n = Len(corrections)
      BY <1>2
    <2>2. corrections' = Append(corrections, c) /\ ~cut
      <3>1. PICK all : all = Append(corrections, c)
        OBVIOUS
      <3>2. /\ corrections' = IF Len(all) > MaxCorrections THEN Tail(all) ELSE all
            /\ cut' = (cut \/ Len(all) > MaxCorrections)
        BY <1>1, <1>7, <3>1 DEF RecordCorrection
      <3>3. QED
        BY <1>7, <3>1, <3>2
    <2>3. /\ DOMAIN corrections' = 1..(n + 1) /\ corrections'[n + 1] = c
          /\ \A i \in 1..n : corrections'[i] = corrections[i]
      BY <1>2, <2>1, <2>2
    <2>4. DOMAIN corrections = 1..n
      BY <1>2, <2>1
    <2>5. \A i \in 1..n : corrections[i].at \in Nat
      <3>1. \A i \in 1..n : corrections[i] \in CorrectionEntry
        BY <1>2, <2>1, ElementOfSeq
      <3>2. \A e \in CorrectionEntry : e.at \in Nat
        BY DEF CorrectionEntry
      <3>3. QED
        BY <3>1, <3>2
    <2>6. \A i \in 1..n : Alike(corrections[i], c) => c.at > corrections[i].at + DedupeWindow
      <3>1. \A i \in 1..n : Alike(corrections[i], c) => ~(c.at <= corrections[i].at + DedupeWindow)
        BY <1>1, <1>7, <2>4 DEF Recorded
      <3>2. QED
        BY <1>1, <1>2, <2>5, <3>1
    <2>7. \A i, j \in 1..n : i < j /\ Alike(corrections[i], corrections[j]) =>
              corrections[j].at > corrections[i].at + DedupeWindow
      BY <2>2, <2>4 DEF CorrectionsSpaced
    <2>8. \A i, j \in DOMAIN corrections' : i < j /\ Alike(corrections'[i], corrections'[j]) =>
              corrections'[j].at > corrections'[i].at + DedupeWindow
      <3> SUFFICES ASSUME NEW i \in 1..(n + 1), NEW j \in 1..(n + 1), i < j,
                          Alike(corrections'[i], corrections'[j])
                   PROVE  corrections'[j].at > corrections'[i].at + DedupeWindow
        BY <2>3
      <3>1. i \in 1..n
        BY <2>1
      <3>2. CASE j = n + 1
        BY <2>3, <2>6, <3>1, <3>2
      <3>3. CASE j \in 1..n
        BY <2>3, <2>7, <3>1, <3>3
      <3>4. QED
        BY <2>1, <3>2, <3>3
    <2>9. c \notin ToSet(corrections)
      <3>1. SUFFICES ASSUME NEW i \in 1..n, corrections[i] = c PROVE FALSE
        BY <2>4 DEF ToSet
      <3>2. Alike(c, c)
        BY DEF Alike
      <3>3. c.at > c.at + DedupeWindow
        BY <2>6, <3>1, <3>2
      <3>4. QED
        BY <1>1, <1>2, <3>3
    <2>10. ToSet(corrections') = ToSet(corrections) \union {c}
      BY <2>1, <2>3, <2>4 DEF ToSet
    <2>11. /\ ToSet(told) \subseteq ToSet(corrections) /\ IsInjective(told)
           /\ \A q \in Editor : place[q] = "tell" =>
                 /\ Correction(q) \in ToSet(corrections) \ ToSet(told)
                 /\ \A r \in Editor \ {q} : place[r] = "tell" => Correction(r) # Correction(q)
      BY <2>2 DEF CorrectionsSpaced
    <2>12. \A q \in Editor : place'[q] = "tell" =>
              Correction(q)' \in ToSet(corrections') \ ToSet(told')
      BY <1>1, <1>3, <1>4, <1>5, <2>9, <2>10, <2>11
    <2>13. \A q \in Editor : \A r \in Editor \ {q} :
              place'[q] = "tell" /\ place'[r] = "tell" => Correction(r)' # Correction(q)'
      <3> SUFFICES ASSUME NEW q \in Editor, NEW r \in Editor \ {q},
                          place'[q] = "tell", place'[r] = "tell"
                   PROVE  Correction(r) # Correction(q)
        BY <1>4
      <3>1. q # p => Correction(q) \in ToSet(corrections) /\ place[q] = "tell"
        BY <1>5, <2>11
      <3>2. r # p => Correction(r) \in ToSet(corrections) /\ place[r] = "tell"
        BY <1>5, <2>11
      <3>3. QED
        BY <1>1, <2>9, <2>11, <3>1, <3>2
    <2>14. ToSet(told') \subseteq ToSet(corrections') /\ IsInjective(told')
      BY <1>3, <2>10, <2>11
    <2>15. QED
      BY <2>8, <2>12, <2>13, <2>14 DEF CorrectionsSpaced, Alike
  <1>8. CASE cut'
    BY <1>8 DEF CorrectionsSpaced
  <1>9. QED
    BY <1>6, <1>7, <1>8

\* Every step keeps what is said of the corrections.
LEMMA SpacedStep ==
    ASSUME CorrectionsInv, [CorrectionsNext]_correctionVars
    PROVE  CorrectionsSpaced'
  <1>1. CorrectionsTypeOK /\ CorrectionsSpaced
    BY DEF CorrectionsInv
  <1>2. ASSUME NEW p \in Editor, UNCHANGED <<corrections, told, cut>>, place'[p] # "tell",
               \A q \in Editor \ {p} : place'[q] = place[q] /\ work'[q] = work[q] /\ found'[q] = found[q]
        PROVE  CorrectionsSpaced'
    BY <1>1, <1>2, SpacedStays
  <1>3. ASSUME NEW p \in Editor, NEW edit \in Rework, StartEdit(p, edit) PROVE CorrectionsSpaced'
    <2>1. PICK w : work' = [work EXCEPT ![p] = w]
      BY <1>3 DEF StartEdit
    <2>2. PICK next \in {"stamp", "look"} : place' = [place EXCEPT ![p] = next]
      BY <1>3 DEF StartEdit, Enter
    <2>3. place'[p] # "tell" /\ \A q \in Editor \ {p} : place'[q] = place[q] /\ work'[q] = work[q]
      BY <1>1, <2>1, <2>2 DEF CorrectionsTypeOK
    <2>4. UNCHANGED <<corrections, told, cut, found>>
      BY <1>3 DEF StartEdit, traces
    <2>5. QED
      BY <1>2, <2>3, <2>4
  <1>4. ASSUME NEW p \in Editor, Look(p) PROVE CorrectionsSpaced'
    <2>1. PICK next \in {"stamp", "record"} : place' = [place EXCEPT ![p] = next]
      BY <1>4 DEF Look, Enter
    <2>2. PICK f : found' = [found EXCEPT ![p] = f]
      BY <1>4 DEF Look
    <2>3. work' = [work EXCEPT ![p] = [@ EXCEPT !.at = clock]]
      BY <1>4 DEF Look
    <2>4. place'[p] # "tell" /\ \A q \in Editor \ {p} :
              place'[q] = place[q] /\ work'[q] = work[q] /\ found'[q] = found[q]
      BY <1>1, <2>1, <2>2, <2>3 DEF CorrectionsTypeOK
    <2>5. UNCHANGED <<corrections, told, cut>>
      BY <1>4 DEF Look
    <2>6. QED
      BY <1>2, <2>4, <2>5
  <1>5. ASSUME NEW p \in Editor, Tell(p) PROVE CorrectionsSpaced'
    <2>1. UNCHANGED <<corrections, cut, work, found>> /\ told' = Append(told, Correction(p))
      BY <1>5 DEF Tell
    <2>2. place'[p] = "stamp" /\ \A q \in Editor : q # p => place'[q] = place[q]
      BY <1>1, <1>5 DEF Tell, Enter, CorrectionsTypeOK
    <2>3. \A q \in Editor : Correction(q)' = Correction(q)
      BY <2>1 DEF Correction
    <2>4. CASE cut
      BY <2>1, <2>4 DEF CorrectionsSpaced
    <2>5. CASE ~cut
      <3>1. /\ \A i, j \in DOMAIN corrections :
                  i < j /\ Alike(corrections[i], corrections[j]) =>
                      corrections[j].at > corrections[i].at + DedupeWindow
            /\ ToSet(told) \subseteq ToSet(corrections) /\ IsInjective(told)
            /\ \A q \in Editor : place[q] = "tell" =>
                  /\ Correction(q) \in ToSet(corrections) \ ToSet(told)
                  /\ \A r \in Editor \ {q} : place[r] = "tell" => Correction(r) # Correction(q)
        BY <1>1, <2>5 DEF CorrectionsSpaced
      <3>2. PICK c : c = Correction(p)
        OBVIOUS
      <3>3. place[p] = "tell" /\ c \in ToSet(corrections) \ ToSet(told)
        BY <1>5, <3>1, <3>2 DEF Tell
      <3>4. told' = Append(told, c) /\ told \in Seq(CorrectionEntry)
        BY <1>1, <2>1, <3>2 DEF CorrectionsTypeOK
      <3>5. ToSet(told') = ToSet(told) \union {c} /\ IsInjective(told')
        <4>1. PICK n \in Nat : n = Len(told)
          BY <3>4
        <4>2. /\ DOMAIN told = 1..n /\ DOMAIN told' = 1..(n + 1) /\ told'[n + 1] = c
              /\ \A i \in 1..n : told'[i] = told[i]
          BY <3>4, <4>1
        <4>3. \A i \in 1..(n + 1) : i \in 1..n \/ i = n + 1
          BY <4>1
        <4>4. \A i \in 1..n : told[i] # c
          BY <3>3, <4>2 DEF ToSet
        <4>5. \A i, j \in 1..(n + 1) : told'[i] = told'[j] => i = j
          BY <3>1, <4>2, <4>3, <4>4 DEF IsInjective
        <4>6. ToSet(told') = ToSet(told) \union {c}
          BY <4>1, <4>2, <4>3 DEF ToSet
        <4>7. QED
          BY <4>2, <4>5, <4>6 DEF IsInjective
      <3>6. \A q \in Editor : place'[q] = "tell" =>
                /\ Correction(q)' \in ToSet(corrections') \ ToSet(told')
                /\ \A r \in Editor \ {q} : place'[r] = "tell" => Correction(r)' # Correction(q)'
        <4> SUFFICES ASSUME NEW q \in Editor, place'[q] = "tell"
                     PROVE  /\ Correction(q) \in ToSet(corrections') \ ToSet(told')
                            /\ \A r \in Editor \ {q} : place'[r] = "tell" =>
                                  Correction(r) # Correction(q)
          BY <2>3
        <4>1. q # p /\ place[q] = "tell"
          BY <2>2
        <4>2. Correction(q) # c
          BY <3>1, <3>2, <3>3, <4>1
        <4>3. Correction(q) \in ToSet(corrections) \ ToSet(told)
          BY <3>1, <4>1
        <4>4. \A r \in Editor \ {q} : place'[r] = "tell" => place[r] = "tell"
          BY <2>2
        <4>5. QED
          BY <2>1, <3>1, <3>5, <4>1, <4>2, <4>3, <4>4
      <3>7. ToSet(told') \subseteq ToSet(corrections')
        BY <2>1, <3>1, <3>3, <3>5
      <3>8. QED
        BY <2>1, <3>1, <3>5, <3>6, <3>7 DEF CorrectionsSpaced, Alike
    <2>6. QED
      BY <2>4, <2>5
  <1>6. ASSUME NEW p \in Editor, Stamp(p) PROVE CorrectionsSpaced'
    <2>1. work' = [work EXCEPT ![p] = [@ EXCEPT !.at = clock]]
      BY <1>6 DEF Stamp
    <2>2. place'[p] # "tell" /\ \A q \in Editor \ {p} : place'[q] = place[q] /\ work'[q] = work[q]
      BY <1>1, <1>6, <2>1 DEF Stamp, Enter, CorrectionsTypeOK
    <2>3. UNCHANGED <<corrections, told, cut, found>>
      BY <1>6 DEF Stamp, traces
    <2>4. QED
      BY <1>2, <2>2, <2>3
  <1>7. ASSUME NEW p \in Editor, Done(p), UNCHANGED <<corrections, told, cut>>
        PROVE  CorrectionsSpaced'
    <2>1. place'[p] # "tell" /\ \A q \in Editor \ {p} :
              place'[q] = place[q] /\ work'[q] = work[q] /\ found'[q] = found[q]
      BY <1>1, <1>7 DEF Done, Enter, CorrectionsTypeOK
    <2>2. QED
      BY <1>2, <1>7, <2>1
  <1>8. ASSUME NEW p \in Editor, TrackEdit(p) \/ EditorStops(p) PROVE CorrectionsSpaced'
    BY <1>7, <1>8 DEF TrackEdit, EditorStops
  <1>9. ASSUME NEW p \in Editor, CorrectionFails(p) PROVE CorrectionsSpaced'
    <2>1. place'[p] # "tell" /\ \A q \in Editor \ {p} : place'[q] = place[q]
      BY <1>1, <1>9 DEF CorrectionFails, Enter, CorrectionsTypeOK
    <2>2. UNCHANGED <<corrections, told, cut, work, found>>
      BY <1>9 DEF CorrectionFails, traces
    <2>3. QED
      BY <1>2, <2>1, <2>2
  <1>10. CASE SessionEnds
    BY <1>10 DEF SessionEnds, CorrectionsSpaced
  <1>11. ASSUME UNCHANGED <<corrections, told, cut, place, work, found>> PROVE CorrectionsSpaced'
    BY <1>1, <1>11, SpacedStays
  <1>12. QED
    BY <1>1, <1>3, <1>4, <1>5, <1>6, <1>8, <1>9, <1>10, <1>11, SpacedRecord, EditorStepCases
       DEF TimePasses, correctionVars, traces

\* The invariant of the edit hooks: the list of tracked edits lacks none that
\* still counts, and the list of outcomes holds every correction told of
\* (edits.rs: track_edit; outcomes.rs: record_outcome).
THEOREM CorrectionsInvariant == CorrectionsSpec => []CorrectionsInv
  <1>1. CorrectionsInit => CorrectionsInv
    BY CorrectionsStart
  <1>2. CorrectionsInv /\ [CorrectionsNext]_correctionVars => CorrectionsInv'
    BY CorrectionTypesStep, EditsKeptStep, NoticedStep, SpacedStep DEF CorrectionsInv
  <1>3. QED
    BY <1>1, <1>2, PTL DEF CorrectionsSpec

\* What is told again within a window is told by a hook of another session.
LEMMA SpacedMeansOnce ==
    ASSUME CorrectionsTypeOK, CorrectionsSpaced
    PROVE  ToldOncePerSession
  <1> SUFFICES ASSUME ~cut, NEW i \in DOMAIN told, NEW j \in DOMAIN told, i # j,
                      Alike(told[i], told[j])
               PROVE  \/ told[i].at > told[j].at + DedupeWindow
                      \/ told[j].at > told[i].at + DedupeWindow
    <2>1. told \in Seq(CorrectionEntry) /\ DedupeWindow \in Nat
      BY CorrectionsAssumption DEF CorrectionsTypeOK
    <2>2. \A k \in DOMAIN told : told[k].at \in Nat
      <3>1. \A k \in DOMAIN told : told[k] \in CorrectionEntry
        BY <2>1
      <3>2. \A c \in CorrectionEntry : c.at \in Nat
        BY DEF CorrectionEntry
      <3> QED BY <3>1, <3>2
    <2>3. SUFFICES ASSUME ~cut, NEW k \in DOMAIN told, NEW l \in DOMAIN told, k # l,
                          told[k].file = told[l].file /\ told[k].cause = told[l].cause,
                          told[k].session = told[l].session,
                          told[k].at <= told[l].at + DedupeWindow,
                          told[l].at <= told[k].at + DedupeWindow
                   PROVE  FALSE
      BY DEF ToldOncePerSession
    <2>4. \/ told[k].at > told[l].at + DedupeWindow
          \/ told[l].at > told[k].at + DedupeWindow
      BY <2>3 DEF Alike
    <2> QED BY <2>1, <2>2, <2>3, <2>4
  <1>1. /\ \A x, y \in DOMAIN corrections :
              x < y /\ Alike(corrections[x], corrections[y]) =>
                  corrections[y].at > corrections[x].at + DedupeWindow
        /\ ToSet(told) \subseteq ToSet(corrections) /\ IsInjective(told)
    BY DEF CorrectionsSpaced
  <1>2. corrections \in Seq(CorrectionEntry)
    BY DEF CorrectionsTypeOK
  <1>3. told[i] # told[j]
    BY <1>1 DEF IsInjective
  <1>4. PICK x \in DOMAIN corrections : corrections[x] = told[i]
    BY <1>1 DEF ToSet
  <1>5. PICK y \in DOMAIN corrections : corrections[y] = told[j]
    BY <1>1 DEF ToSet
  <1>6. x < y \/ y < x
    BY <1>2, <1>3, <1>4, <1>5
  <1>7. Alike(told[j], told[i])
    BY DEF Alike
  <1>8. QED
    BY <1>1, <1>4, <1>5, <1>6, <1>7

\* Rework is noticed, for every pair of ages, however the edit hooks interleave;
\* and of the hooks that tell hyphae of one rework within a window, no two work
\* for the same session.
THEOREM ReworkToldOncePerSession == CorrectionsSpec => []CorrectionsTrue
  <1>1. CorrectionsInv => CorrectionsTrue
    BY SpacedMeansOnce DEF CorrectionsInv, CorrectionsTrue
  <1>2. QED
    BY <1>1, CorrectionsInvariant, PTL

----------------------------------------------------------------------------
(* The stop hook *)

LEMMA StopStepCases ==
    ASSUME [StopReportNext]_reportVars
    PROVE  \/ \E l \in TLine : WriteTranscript(l)
           \/ \E k \in OutcomeKinds, s \in {0, active, mine} : JournalEntry(k, s)
           \/ StopBegins \/ ParseLine \/ ParseEnds \/ ParseFails \/ Judge
           \/ EndsWithReport \/ EndsWithout \/ SignalVerdict \/ ClearsOutcomes \/ DiscardsOutcomes
           \/ Reread \/ StopEnds \/ (\E n \in notes : StoreNote(n))
           \/ StartsSession \/ UNCHANGED reportVars
  BY DEF StopReportNext, StopHook

\* Every step keeps the types.
LEMMA StopTypesStep ==
    ASSUME StopReportTypeOK, [StopReportNext]_reportVars
    PROVE  StopReportTypeOK'
  <1>1. /\ transcript \in Seq(TLine) /\ whole \in Seq(TLine)
        /\ journal \in Seq(Journaled) /\ own \in Seq(Journaled)
        /\ active \in Nat /\ mine \in Nat /\ read \in Nat /\ length \in Nat
        /\ stops \in Nat /\ trouble \in Nat
        /\ stealth \in BOOLEAN /\ at \in Steps
        /\ read <= Len(transcript) /\ length <= Len(transcript) /\ Len(transcript) \in Nat
    BY DEF StopReportTypeOK
  <1>2. ASSUME NEW l \in TLine, WriteTranscript(l) PROVE StopReportTypeOK'
    <2>1. transcript' \in Seq(TLine) /\ Len(transcript') = Len(transcript) + 1
      BY <1>1, <1>2 DEF WriteTranscript
    <2>2. read <= Len(transcript') /\ length <= Len(transcript')
      BY <1>1, <2>1
    <2>3. UNCHANGED <<journal, active, stealth, at, mine, own, read, length, whole, stops, trouble>>
      BY <1>2 DEF WriteTranscript, hook
    <2>4. QED
      BY <1>1, <2>1, <2>2, <2>3 DEF StopReportTypeOK
  <1>3. ASSUME NEW k \in OutcomeKinds, NEW s \in {0, active, mine}, JournalEntry(k, s)
        PROVE  StopReportTypeOK'
    <2>1. PICK e : e = [kind |-> k.kind, text |-> k.text, files |-> k.files, session |-> s]
      OBVIOUS
    <2>2. e \in Journaled
      BY <1>1, <2>1 DEF Journaled
    <2>3. PICK all : all = Append(journal, e)
      OBVIOUS
    <2>4. all \in Seq(Journaled) /\ all # <<>>
      BY <1>1, <2>2, <2>3
    <2>5. Tail(all) \in Seq(Journaled)
      BY <2>4
    <2>6. journal' \in {journal, all, Tail(all)}
      BY <1>3, <2>1, <2>3 DEF JournalEntry
    <2>7. journal' \in Seq(Journaled)
      BY <1>1, <2>4, <2>5, <2>6
    <2>8. UNCHANGED <<transcript, active, stealth, at, mine, own, read, length, whole, stops, trouble>>
      BY <1>3 DEF JournalEntry, hook
    <2>9. QED
      BY <1>1, <2>7, <2>8 DEF StopReportTypeOK
  <1>4. CASE StopBegins
    <2>1. PICK S : own' = IF active = 0 THEN journal ELSE Kept(journal, S)
      BY <1>4 DEF StopBegins
    <2>2. Kept(journal, S) \in Seq(Journaled)
      BY <1>1, KeptElements
    <2>3. own' \in Seq(Journaled)
      BY <1>1, <2>1, <2>2
    <2>4. /\ whole' = <<>> /\ read' = 0 /\ length' = Len(transcript) /\ mine' = active
          /\ stops' = stops + 1 /\ at' = "parse"
          /\ UNCHANGED <<transcript, journal, active, stealth, trouble>>
      BY <1>4 DEF StopBegins, At, world
    <2>5. whole' \in Seq(TLine)
      BY <2>4
    <2>6. read' <= Len(transcript) /\ length' <= Len(transcript) /\ stops' \in Nat
      BY <1>1, <2>4
    <2>7. QED
      BY <1>1, <2>3, <2>4, <2>5, <2>6 DEF StopReportTypeOK, Steps
  <1>5. CASE ParseLine
    <2>1. /\ read' = read + 1 /\ read < Len(transcript)
          /\ UNCHANGED <<transcript, journal, active, stealth, at, mine, own, length, whole, stops, trouble>>
      BY <1>5 DEF ParseLine, world
    <2>2. read' \in Nat /\ read' <= Len(transcript)
      BY <1>1, <2>1
    <2>3. QED
      BY <1>1, <2>1, <2>2 DEF StopReportTypeOK
  <1>6. CASE ParseFails
    <2>1. /\ trouble' = trouble + 1 /\ length' = 0 /\ at' \in Steps
          /\ UNCHANGED <<transcript, journal, active, stealth, mine, own, read, whole, stops>>
      BY <1>6 DEF ParseFails, world, At, Steps
    <2>2. trouble' \in Nat /\ length' <= Len(transcript)
      BY <1>1, <2>1
    <2>3. QED
      BY <1>1, <2>1, <2>2 DEF StopReportTypeOK
  <1>7. CASE ParseEnds \/ Judge \/ SignalVerdict \/ StopEnds
    <2>1. at' \in Steps /\ UNCHANGED <<transcript, journal, active, stealth, mine, own, read, length, whole,
                                       stops, trouble>>
      BY <1>7 DEF ParseEnds, Judge, SignalVerdict, StopEnds, world, At, Steps
    <2>2. QED
      BY <1>1, <2>1 DEF StopReportTypeOK
  <1>8. CASE EndsWithReport \/ EndsWithout
    <2>1. /\ at' \in Steps /\ active' \in {0, active} /\ trouble' \in {trouble, trouble + 1}
          /\ UNCHANGED <<transcript, journal, stealth, mine, own, read, length, whole, stops>>
      BY <1>8 DEF EndsWithReport, EndsWithout, world, hook, At, Steps
    <2>2. active' \in Nat /\ trouble' \in Nat
      BY <1>1, <2>1
    <2>3. QED
      BY <1>1, <2>1, <2>2 DEF StopReportTypeOK
  <1>9. CASE ClearsOutcomes \/ DiscardsOutcomes
    <2>1. /\ at' \in Steps /\ journal' = <<>>
          /\ UNCHANGED <<transcript, active, stealth, mine, own, read, length, whole, stops, trouble>>
      BY <1>9 DEF ClearsOutcomes, DiscardsOutcomes, Emptied, hook, At, Steps
    <2>2. journal' \in Seq(Journaled)
      BY <2>1
    <2>3. QED
      BY <1>1, <2>1, <2>2 DEF StopReportTypeOK
  <1>10. CASE Reread
    <2>1. /\ at' \in Steps /\ whole' \in {transcript, <<>>} /\ trouble' \in {trouble, trouble + 1}
          /\ UNCHANGED <<transcript, journal, active, stealth, mine, own, read, length, stops>>
      BY <1>10 DEF Reread, world, At, Steps
    <2>2. whole' \in Seq(TLine)
      <3>1. <<>> \in Seq(TLine)
        OBVIOUS
      <3>2. QED
        BY <1>1, <2>1, <3>1
    <2>3. trouble' \in Nat
      BY <1>1, <2>1
    <2>4. QED
      BY <1>1, <2>1, <2>2, <2>3 DEF StopReportTypeOK
  <1>11. ASSUME NEW n \in notes, StoreNote(n) PROVE StopReportTypeOK'
    <2>1. /\ trouble' \in {trouble, trouble + 1}
          /\ UNCHANGED <<transcript, journal, active, stealth, at, mine, own, read, length, whole, stops>>
      BY <1>11 DEF StoreNote, world
    <2>2. trouble' \in Nat
      BY <1>1, <2>1
    <2>3. QED
      BY <1>1, <2>1, <2>2 DEF StopReportTypeOK
  <1>12. CASE StartsSession
    <2>1. /\ active' = 1 + stops
          /\ UNCHANGED <<transcript, journal, stealth, at, mine, own, read, length, whole, stops, trouble>>
      BY <1>12 DEF StartsSession, hook
    <2>2. active' \in Nat
      BY <1>1, <2>1
    <2>3. QED
      BY <1>1, <2>1, <2>2 DEF StopReportTypeOK
  <1>13. CASE UNCHANGED reportVars
    <2>1. UNCHANGED <<transcript, journal, active, stealth, at, mine, own, read, length, whole, stops, trouble>>
      BY <1>13 DEF reportVars
    <2>2. QED
      BY <1>1, <2>1 DEF StopReportTypeOK
  <1>14. QED
    BY <1>2, <1>3, <1>4, <1>5, <1>6, <1>7, <1>8, <1>9, <1>10, <1>11, <1>12, <1>13, StopStepCases

\* Which lines say what, when the next line is read ..
LEMMA NextLine ==
    ASSUME StopReportTypeOK, NEW n \in Nat, n < Len(transcript), NEW l, l = transcript[n + 1]
    PROVE  /\ l \in TLine
           /\ Of("tool_use", n) \in SUBSET (1..n)
           /\ Of("tool_use", n + 1) = IF l.kind = "tool_use" THEN Of("tool_use", n) \union {n + 1}
                                     ELSE Of("tool_use", n)
           /\ Asked(n) \in SUBSET (1..n) /\ Spoken(n) \in SUBSET (1..n) /\ Broken(n) \in SUBSET (1..n)
           /\ Asked(n + 1) = IF l.kind = "human" /\ l.blocks # <<>>
                             THEN Asked(n) \union {n + 1} ELSE Asked(n)
           /\ Spoken(n + 1) = IF l.kind = "assistant" /\ l.blocks # <<>>
                              THEN Spoken(n) \union {n + 1} ELSE Spoken(n)
           /\ Broken(n + 1) = IF l.kind = "tool_result" /\ Failed(l.result)
                              THEN Broken(n) \union {n + 1} ELSE Broken(n)
  <1>1. transcript \in Seq(TLine) /\ Len(transcript) \in Nat
    BY DEF StopReportTypeOK
  <1>2. l \in TLine
    BY <1>1, ElementOfSeq
  <1>3. \A i : i \in 1..(n + 1) <=> i \in 1..n \/ i = n + 1
    OBVIOUS
  <1>4. \A kind : Of(kind, n) = {i \in 1..n : transcript[i].kind = kind}
    BY DEF Of
  <1>5. \A kind : Of(kind, n + 1) = IF l.kind = kind THEN Of(kind, n) \union {n + 1} ELSE Of(kind, n)
    <2> TAKE kind
    <2>1. Of(kind, n + 1) = {i \in 1..(n + 1) : transcript[i].kind = kind}
      BY DEF Of
    <2>2. \A i : i \in Of(kind, n + 1) <=> i \in Of(kind, n) \/ (i = n + 1 /\ l.kind = kind)
      BY <1>3, <1>4, <2>1
    <2>3. QED
      BY <2>2
  <1>6. Asked(n + 1) = IF l.kind = "human" /\ l.blocks # <<>>
                       THEN Asked(n) \union {n + 1} ELSE Asked(n)
    <2>1. \A i : i \in Asked(n + 1) <=>
                     i \in Asked(n) \/ (i = n + 1 /\ l.kind = "human" /\ l.blocks # <<>>)
      BY <1>3, <1>4, <1>5 DEF Asked
    <2>2. QED
      BY <2>1
  <1>7. Spoken(n + 1) = IF l.kind = "assistant" /\ l.blocks # <<>>
                        THEN Spoken(n) \union {n + 1} ELSE Spoken(n)
    <2>1. \A i : i \in Spoken(n + 1) <=>
                     i \in Spoken(n) \/ (i = n + 1 /\ l.kind = "assistant" /\ l.blocks # <<>>)
      BY <1>3, <1>4, <1>5 DEF Spoken
    <2>2. QED
      BY <2>1
  <1>8. Broken(n + 1) = IF l.kind = "tool_result" /\ Failed(l.result)
                        THEN Broken(n) \union {n + 1} ELSE Broken(n)
    <2>1. \A i : i \in Broken(n + 1) <=>
                     i \in Broken(n) \/ (i = n + 1 /\ l.kind = "tool_result" /\ Failed(l.result))
      BY <1>3, <1>4, <1>5 DEF Broken
    <2>2. QED
      BY <2>1
  <1>9. /\ \A kind : Of(kind, n) \in SUBSET (1..n)
        /\ Asked(n) \in SUBSET (1..n) /\ Spoken(n) \in SUBSET (1..n) /\ Broken(n) \in SUBSET (1..n)
    BY <1>4 DEF Asked, Spoken, Broken
  <1>10. QED
    BY <1>2, <1>5, <1>6, <1>7, <1>8, <1>9

\* .. and what they say: what AddLine makes of it.
LEMMA NextSummary ==
    ASSUME StopReportTypeOK, NEW n \in Nat, n < Len(transcript)
    PROVE  LET l == transcript[n + 1]
           IN  /\ Task(n + 1) = TaskOf(Task(n), l)
               /\ Written(n + 1) = IF l.kind = "tool_use" THEN Written(n) \union l.files ELSE Written(n)
               /\ Cardinality(Broken(n + 1)) = IF l.kind = "tool_result" /\ Failed(l.result)
                                               THEN Cardinality(Broken(n)) + 1 ELSE Cardinality(Broken(n))
               /\ Saying(n + 1) = OutcomeOf(Saying(n), l)
  <1>1. PICK l : l = transcript[n + 1]
    OBVIOUS
  <1>2. /\ l \in TLine
        /\ Of("tool_use", n) \in SUBSET (1..n)
        /\ Of("tool_use", n + 1) = IF l.kind = "tool_use" THEN Of("tool_use", n) \union {n + 1}
                                  ELSE Of("tool_use", n)
        /\ Asked(n) \in SUBSET (1..n) /\ Spoken(n) \in SUBSET (1..n) /\ Broken(n) \in SUBSET (1..n)
        /\ Asked(n + 1) = IF l.kind = "human" /\ l.blocks # <<>>
                          THEN Asked(n) \union {n + 1} ELSE Asked(n)
        /\ Spoken(n + 1) = IF l.kind = "assistant" /\ l.blocks # <<>>
                           THEN Spoken(n) \union {n + 1} ELSE Spoken(n)
        /\ Broken(n + 1) = IF l.kind = "tool_result" /\ Failed(l.result)
                           THEN Broken(n) \union {n + 1} ELSE Broken(n)
    BY <1>1, NextLine
  <1>3. l.blocks \in Seq(Text)
    BY <1>2, StopReportAssumption
  <1>4. l.blocks # <<>> => Head(l.blocks) = l.blocks[1]
    BY <1>3
  <1>5. Task(n + 1) = TaskOf(Task(n), l)
    <2>1. PICK A : A = Asked(n)
      OBVIOUS
    <2>2. A \in SUBSET (1..n)
      BY <1>2, <2>1
    <2>3. CASE l.kind = "human" /\ l.blocks # <<>>
      <3>1. Asked(n + 1) = A \union {n + 1} /\ A \union {n + 1} # {}
        BY <1>2, <2>1, <2>3
      <3>2. Min(A \union {n + 1}) = IF A = {} THEN n + 1 ELSE Min(A)
        BY <2>2, NextPosition
      <3>3. Task(n + 1) = <<transcript[IF A = {} THEN n + 1 ELSE Min(A)].blocks[1]>>
        BY <3>1, <3>2 DEF Task
      <3>4. CASE A = {}
        <4>1. Task(n + 1) = <<l.blocks[1]>> /\ Task(n) = <<>>
          BY <1>1, <2>1, <3>3, <3>4 DEF Task
        <4>2. QED
          BY <1>4, <2>3, <4>1 DEF TaskOf
      <3>5. CASE A # {}
        <4>1. Task(n + 1) = Task(n) /\ Task(n) = <<transcript[Min(A)].blocks[1]>>
          BY <2>1, <3>3, <3>5 DEF Task
        <4>2. Task(n) # <<>>
          BY <4>1
        <4>3. QED
          BY <4>1, <4>2 DEF TaskOf
      <3>6. QED
        BY <3>4, <3>5
    <2>4. CASE ~(l.kind = "human" /\ l.blocks # <<>>)
      <3>1. Asked(n + 1) = Asked(n)
        BY <1>2, <2>4
      <3>2. QED
        BY <2>4, <3>1 DEF Task, TaskOf
    <2>5. QED
      BY <2>3, <2>4
  <1>6. Written(n + 1) = IF l.kind = "tool_use" THEN Written(n) \union l.files ELSE Written(n)
    <2>1. CASE l.kind = "tool_use"
      <3>1. Of("tool_use", n + 1) = Of("tool_use", n) \union {n + 1}
        BY <1>2, <2>1
      <3>2. QED
        BY <1>1, <2>1, <3>1 DEF Written
    <2>2. CASE l.kind # "tool_use"
      BY <1>2, <2>2 DEF Written
    <2>3. QED
      BY <2>1, <2>2
  <1>7. Cardinality(Broken(n + 1)) = IF l.kind = "tool_result" /\ Failed(l.result)
                                     THEN Cardinality(Broken(n)) + 1 ELSE Cardinality(Broken(n))
    <2>1. PICK B \in SUBSET (1..n) : B = Broken(n)
      BY <1>2
    <2>2. Cardinality(B \union {n + 1}) = Cardinality(B) + 1
      BY NextPosition
    <2>3. QED
      BY <1>2, <2>1, <2>2
  <1>8. Saying(n + 1) = OutcomeOf(Saying(n), l)
    <2>1. CASE l.kind = "assistant" /\ l.blocks # <<>>
      <3>1. Spoken(n + 1) = Spoken(n) \union {n + 1} /\ Spoken(n + 1) # {}
        BY <1>2, <2>1
      <3>2. Max(Spoken(n) \union {n + 1}) = n + 1
        BY <1>2, NextPosition
      <3>3. Saying(n + 1) = l.blocks[1]
        BY <1>1, <3>1, <3>2 DEF Saying
      <3>4. QED
        BY <1>4, <2>1, <3>3 DEF OutcomeOf
    <2>2. CASE ~(l.kind = "assistant" /\ l.blocks # <<>>)
      <3>1. Spoken(n + 1) = Spoken(n)
        BY <1>2, <2>2
      <3>2. QED
        BY <2>2, <3>1 DEF Saying, OutcomeOf
    <2>3. QED
      BY <2>1, <2>2
  <1>9. QED
    BY <1>1, <1>5, <1>6, <1>7, <1>8

\* The lines read say the same when lines are added.
LEMMA SameSummary ==
    ASSUME StopReportTypeOK, read' = read,
           \A i \in 1..Len(transcript) : transcript'[i] = transcript[i]
    PROVE  /\ Task(read)' = Task(read) /\ Written(read)' = Written(read)
           /\ Broken(read)' = Broken(read) /\ Saying(read)' = Saying(read)
  <1>1. PICK n \in Nat : n = read /\ n <= Len(transcript) /\ Len(transcript) \in Nat
    BY DEF StopReportTypeOK
  <1>2. \A i \in 1..n : transcript'[i] = transcript[i]
    BY <1>1
  <1>3. /\ Asked(n) = {i \in 1..n : transcript[i].kind = "human" /\ transcript[i].blocks # <<>>}
        /\ Spoken(n) = {i \in 1..n : transcript[i].kind = "assistant" /\ transcript[i].blocks # <<>>}
        /\ Broken(n) = {i \in 1..n : transcript[i].kind = "tool_result" /\ Failed(transcript[i].result)}
    BY DEF Asked, Spoken, Broken, Of
  <1>4. Asked(read)' = Asked(n)
    <2>1. Asked(read)' = {i \in 1..n : transcript'[i].kind = "human" /\ transcript'[i].blocks # <<>>}
      BY <1>1 DEF Asked, Of
    <2>2. QED
      BY <1>2, <1>3, <2>1
  <1>5. Spoken(read)' = Spoken(n)
    <2>1. Spoken(read)' = {i \in 1..n : transcript'[i].kind = "assistant" /\ transcript'[i].blocks # <<>>}
      BY <1>1 DEF Spoken, Of
    <2>2. QED
      BY <1>2, <1>3, <2>1
  <1>6. Broken(read)' = Broken(n)
    <2>1. Broken(read)' = {i \in 1..n : /\ transcript'[i].kind = "tool_result"
                                        /\ Failed(transcript'[i].result)}
      BY <1>1 DEF Broken, Of, Failed
    <2>2. QED
      BY <1>2, <1>3, <2>1
  <1>7. Written(read)' = Written(n)
    <2>1. Written(read)' = UNION {transcript'[i].files : i \in {j \in 1..n : transcript'[j].kind = "tool_use"}}
      BY <1>1 DEF Written, Of
    <2>2. Written(n) = UNION {transcript[i].files : i \in {j \in 1..n : transcript[j].kind = "tool_use"}}
      BY DEF Written, Of
    <2>3. {j \in 1..n : transcript'[j].kind = "tool_use"} = {j \in 1..n : transcript[j].kind = "tool_use"}
      BY <1>2
    <2>4. QED
      BY <1>2, <2>1, <2>2, <2>3
  <1>8. Task(read)' = Task(n)
    <2>1. PICK A \in SUBSET (1..n) : A = Asked(n)
      BY <1>3
    <2>2. Task(read)' = IF A = {} THEN <<>> ELSE <<transcript'[Min(A)].blocks[1]>>
      BY <1>4, <2>1 DEF Task
    <2>3. A # {} => Min(A) \in 1..n
      BY NextPosition
    <2>4. QED
      BY <1>2, <2>1, <2>2, <2>3 DEF Task
  <1>9. Saying(read)' = Saying(n)
    <2>1. PICK A \in SUBSET (1..n) : A = Spoken(n)
      BY <1>3
    <2>2. Saying(read)' = IF A = {} THEN WorkCompleted ELSE transcript'[Max(A)].blocks[1]
      BY <1>5, <2>1 DEF Saying
    <2>3. A # {} => Max(A) \in 1..n
      BY NextPosition
    <2>4. QED
      BY <1>2, <2>1, <2>2, <2>3 DEF Saying
  <1>10. QED
    BY <1>1, <1>6, <1>7, <1>8, <1>9

\* Besides the steps that read, none changes what was read, and none goes back to
\* reading.
LEMMA ReadingFrame ==
    ASSUME StopReportTypeOK, [StopReportNext]_reportVars
    PROVE  \/ StopBegins \/ ParseLine \/ ParseEnds \/ ParseFails
           \/ /\ UNCHANGED <<read, report, own, length>>
              /\ \A i \in 1..Len(transcript) : transcript'[i] = transcript[i]
              /\ at' = at \/ at \notin {"idle", "parse"}
              /\ at' = at \/ at' # "parse"
  <1>1. ASSUME NEW l \in TLine, WriteTranscript(l)
        PROVE  \A i \in 1..Len(transcript) : transcript'[i] = transcript[i]
    BY <1>1 DEF WriteTranscript, StopReportTypeOK
  <1>2. QED
    BY <1>1, StopStepCases
       DEF WriteTranscript, JournalEntry, Judge, EndsWithReport, EndsWithout, SignalVerdict,
           ClearsOutcomes, DiscardsOutcomes, Reread, StopEnds, StoreNote, StartsSession,
           reportVars, world, hook, At

\* Up to the line that was read the summary stays what the lines say.
LEMMA ReadRightStep ==
    ASSUME StopReportTypeOK, ReadRight, [StopReportNext]_reportVars
    PROVE  ReadRight'
  <1> SUFFICES ASSUME at' = "parse"
               PROVE  report' = [task |-> Task(read)', files |-> Written(read)',
                                 errors |-> Cardinality(Broken(read)'), outcome |-> Saying(read)']
    BY DEF ReadRight
  <1>1. CASE StopBegins
    <2>1. read' = 0 /\ report' = EmptyReport
      BY <1>1 DEF StopBegins
    <2>2. 1..0 = {}
      OBVIOUS
    <2>3. Asked(read)' = {} /\ Spoken(read)' = {} /\ Broken(read)' = {} /\ Written(read)' = {}
      BY <2>1, <2>2 DEF Asked, Spoken, Broken, Written, Of
    <2>4. Task(read)' = <<>> /\ Saying(read)' = WorkCompleted
      BY <2>3 DEF Task, Saying
    <2>5. QED
      BY <2>1, <2>3, <2>4, FS_EmptySet DEF EmptyReport
  <1>2. CASE ParseLine
    <2>1. /\ at = "parse" /\ read < Len(transcript) /\ read' = read + 1 /\ transcript' = transcript
          /\ report' = AddLine(report, transcript[read + 1])
      BY <1>2 DEF ParseLine, world
    <2>2. PICK n \in Nat : n = read
      BY DEF StopReportTypeOK
    <2>3. PICK l : l = transcript[n + 1]
      OBVIOUS
    <2>4. /\ Task(n + 1) = TaskOf(Task(n), l)
          /\ Written(n + 1) = IF l.kind = "tool_use" THEN Written(n) \union l.files ELSE Written(n)
          /\ Cardinality(Broken(n + 1)) = IF l.kind = "tool_result" /\ Failed(l.result)
                                          THEN Cardinality(Broken(n)) + 1 ELSE Cardinality(Broken(n))
          /\ Saying(n + 1) = OutcomeOf(Saying(n), l)
      BY <2>1, <2>2, <2>3, NextSummary
    <2>5. report = [task |-> Task(n), files |-> Written(n),
                    errors |-> Cardinality(Broken(n)), outcome |-> Saying(n)]
      BY <2>1, <2>2 DEF ReadRight
    <2>6. report' = [task |-> Task(n + 1), files |-> Written(n + 1),
                     errors |-> Cardinality(Broken(n + 1)), outcome |-> Saying(n + 1)]
      BY <2>1, <2>2, <2>3, <2>4, <2>5 DEF AddLine
    <2>7. /\ Task(read)' = Task(n + 1) /\ Written(read)' = Written(n + 1)
          /\ Broken(read)' = Broken(n + 1) /\ Saying(read)' = Saying(n + 1)
      BY <2>1, <2>2 DEF Task, Written, Broken, Saying, Asked, Spoken, Of
    <2>8. QED
      BY <2>6, <2>7
  <1>3. CASE ParseEnds \/ ParseFails
    BY <1>3 DEF ParseEnds, ParseFails, At
  <1>4. CASE /\ UNCHANGED <<read, report, own, length>>
             /\ \A i \in 1..Len(transcript) : transcript'[i] = transcript[i]
             /\ at' = at \/ at' # "parse"
    <2>1. report = [task |-> Task(read), files |-> Written(read),
                    errors |-> Cardinality(Broken(read)), outcome |-> Saying(read)]
      BY <1>4 DEF ReadRight
    <2>2. /\ Task(read)' = Task(read) /\ Written(read)' = Written(read)
          /\ Broken(read)' = Broken(read) /\ Saying(read)' = Saying(read)
      BY <1>4, SameSummary
    <2>3. QED
      BY <1>4, <2>1, <2>2
  <1>5. QED
    BY <1>1, <1>2, <1>3, <1>4, ReadingFrame

\* The greater of a number and zero.
LEMMA MaxOfPair ==
    ASSUME NEW c \in Nat
    PROVE  Max({c, 0}) = c
  <1>1. IsFiniteSet({c, 0})
    <2>1. IsFiniteSet({c})
      BY FS_Singleton
    <2>2. IsFiniteSet({c} \union {0})
      BY <2>1, FS_AddElement
    <2>3. {c, 0} = {c} \union {0}
      OBVIOUS
    <2>4. QED
      BY <2>2, <2>3
  <1>2. {c, 0} \in SUBSET Int /\ \A i \in {c, 0} : i <= c
    OBVIOUS
  <1>3. QED
    BY <1>1, <1>2, MaxIs

\* What the summary is when the session's own outcomes are merged.
LEMMA MergedSummary ==
    ASSUME StopReportTypeOK, ReadRight, at = "parse", NEW r, r = Merge(report, own)
    PROVE  /\ r.task = Task(read)
           /\ r.files = Written(read) \union (UNION {own[i].files : i \in DOMAIN own})
           /\ r.errors = Max({Cardinality(Broken(read)), Cardinality(Detected(own))})
           /\ r.outcome = IF own # <<>> /\ (Saying(read).blank \/ Saying(read) = WorkCompleted)
                          THEN own[Len(own)].text ELSE Saying(read)
  <1>1. PICK b : b = Cardinality(Broken(read))
    OBVIOUS
  <1>2. report = [task |-> Task(read), files |-> Written(read), errors |-> b, outcome |-> Saying(read)]
    BY <1>1 DEF ReadRight
  <1>3. CASE own = <<>>
    <2>1. r = report
      BY <1>3 DEF Merge
    <2>2. DOMAIN own = {}
      BY <1>3
    <2>3. Cardinality(Detected(own)) = 0
      BY <2>2, FS_EmptySet DEF Detected
    <2>4. b \in Nat
      <3>1. PICK n \in Nat : n = read
        BY DEF StopReportTypeOK
      <3>2. Broken(n) \in SUBSET (1..n)
        BY DEF Broken, Of
      <3>3. Cardinality(Broken(n)) \in Nat
        BY <3>2, NextPosition
      <3>4. QED
        BY <1>1, <3>1, <3>3
    <2>5. Max({b, 0}) = b
      BY <2>4, MaxOfPair
    <2>6. UNION {own[i].files : i \in DOMAIN own} = {}
      BY <2>2
    <2>7. r.task = Task(read) /\ r.outcome = Saying(read) /\ r.files = Written(read) /\ r.errors = b
      BY <1>2, <2>1
    <2>8. r.errors = Max({Cardinality(Broken(read)), Cardinality(Detected(own))})
      BY <1>1, <2>3, <2>5, <2>7
    <2>9. r.files = Written(read) \union (UNION {own[i].files : i \in DOMAIN own})
      BY <2>6, <2>7
    <2>10. QED
      BY <1>3, <2>7, <2>8, <2>9
  <1>4. CASE own # <<>>
    <2>1. r = [report EXCEPT
                 !.files   = @ \union UNION {own[i].files : i \in DOMAIN own},
                 !.errors  = Max({@, Cardinality(Detected(own))}),
                 !.outcome = IF @.blank \/ @ = WorkCompleted THEN Last(own).text ELSE @]
      BY <1>4 DEF Merge
    <2>2. Last(own) = own[Len(own)]
      BY DEF Last
    <2>3. QED
      BY <1>1, <1>2, <1>4, <2>1, <2>2
  <1>5. QED
    BY <1>3, <1>4

\* The summary stays right.
LEMMA SummaryRightStep ==
    ASSUME StopReportTypeOK, ReadRight, SummaryRight, [StopReportNext]_reportVars
    PROVE  SummaryRight'
  <1>1. CASE StopBegins \/ ParseLine
    BY <1>1 DEF StopBegins, ParseLine, At, SummaryRight
  <1>2. CASE ParseEnds \/ ParseFails
    <2>1. /\ at = "parse" /\ report' = Merge(report, own)
          /\ UNCHANGED <<read, own, transcript>>
          /\ length' = 0 \/ (length' = length /\ read = Len(transcript))
      BY <1>2 DEF ParseEnds, ParseFails, world
    <2>2. read >= length'
      BY <2>1 DEF StopReportTypeOK
    <2>3. PICK r : r = Merge(report, own)
      OBVIOUS
    <2>4. /\ r.task = Task(read)
          /\ r.files = Written(read) \union (UNION {own[i].files : i \in DOMAIN own})
          /\ r.errors = Max({Cardinality(Broken(read)), Cardinality(Detected(own))})
          /\ r.outcome = IF own # <<>> /\ (Saying(read).blank \/ Saying(read) = WorkCompleted)
                         THEN own[Len(own)].text ELSE Saying(read)
      BY <2>1, <2>3, MergedSummary
    <2>5. /\ Task(read)' = Task(read) /\ Written(read)' = Written(read)
          /\ Broken(read)' = Broken(read) /\ Saying(read)' = Saying(read)
      BY <2>1, SameSummary
    <2>6. Detected(own)' = Detected(own) /\ r = report'
      BY <2>1, <2>3 DEF Detected
    <2>7. QED
      BY <2>1, <2>2, <2>4, <2>5, <2>6 DEF SummaryRight
  <1>3. CASE /\ UNCHANGED <<read, report, own, length>>
             /\ \A i \in 1..Len(transcript) : transcript'[i] = transcript[i]
             /\ at' = at \/ at \notin {"idle", "parse"}
    <2>1. CASE at \in {"idle", "parse"}
      BY <1>3, <2>1 DEF SummaryRight
    <2>2. CASE at \notin {"idle", "parse"}
      <3>1. /\ Task(read)' = Task(read) /\ Written(read)' = Written(read)
            /\ Broken(read)' = Broken(read) /\ Saying(read)' = Saying(read)
        BY <1>3, SameSummary
      <3>2. Detected(own)' = Detected(own)
        BY <1>3 DEF Detected
      <3>3. QED
        BY <1>3, <2>2, <3>1, <3>2 DEF SummaryRight
    <2>3. QED
      BY <2>1, <2>2
  <1>4. QED
    BY <1>1, <1>2, <1>3, ReadingFrame

\* What one more entry means for the last failure.
LEMMA NextEntry ==
    ASSUME NEW list \in Seq(Journaled), NEW e \in Journaled
    PROVE  Unresolved(Append(list, e)) <=>
               IF e.kind \in {"detected", "resolved"} THEN e.kind = "detected" ELSE Unresolved(list)
  <1>1. PICK n \in Nat : n = Len(list)
    OBVIOUS
  <1>2. PICK all : all = Append(list, e)
    OBVIOUS
  <1>3. DOMAIN list = 1..n /\ DOMAIN all = 1..(n + 1)
        /\ (\A i \in 1..n : all[i] = list[i]) /\ all[n + 1] = e
    BY <1>1, <1>2
  <1>4. PICK C : C = {i \in DOMAIN list : list[i].kind \in {"detected", "resolved"}}
    OBVIOUS
  <1>5. PICK D : D = {i \in DOMAIN all : all[i].kind \in {"detected", "resolved"}}
    OBVIOUS
  <1>6. C \in SUBSET (1..n)
    BY <1>3, <1>4
  <1>7. \A i : i \in 1..(n + 1) <=> i \in 1..n \/ i = n + 1
    OBVIOUS
  <1>8. \A i : i \in D <=> i \in C \/ (i = n + 1 /\ e.kind \in {"detected", "resolved"})
    BY <1>3, <1>4, <1>5, <1>7
  <1>9. /\ Unresolved(list) <=> C # {} /\ list[Max(C)].kind = "detected"
        /\ Unresolved(all) <=> D # {} /\ all[Max(D)].kind = "detected"
    BY <1>4, <1>5 DEF Unresolved
  <1>10. CASE e.kind \in {"detected", "resolved"}
    <2>1. D = C \union {n + 1} /\ D # {}
      BY <1>8, <1>10
    <2>2. Max(C \union {n + 1}) = n + 1
      BY <1>6, NextPosition
    <2>3. Unresolved(all) <=> e.kind = "detected"
      BY <1>3, <1>9, <2>1, <2>2
    <2>4. QED
      BY <1>2, <1>10, <2>3
  <1>11. CASE e.kind \notin {"detected", "resolved"}
    <2>1. D = C
      BY <1>8, <1>11
    <2>2. C # {} => Max(C) \in 1..n
      BY <1>6, NextPosition
    <2>3. Unresolved(all) <=> Unresolved(list)
      BY <1>3, <1>9, <2>1, <2>2
    <2>4. QED
      BY <1>2, <1>11, <2>3
  <1>12. QED
    BY <1>10, <1>11

LEMMA EmptyUnresolved == ~Unresolved(<<>>)
  BY DEF Unresolved

\* The list goes on to end as the records did.
LEMMA JournalRightStep ==
    ASSUME StopReportTypeOK, JournalRight, [StopReportNext]_reportVars
    PROVE  JournalRight'
  <1>1. ~blurred => (failure <=> Unresolved(journal))
    BY DEF JournalRight
  <1>2. ~blurred' => (failure' <=> Unresolved(journal'))
    <2>1. ASSUME NEW k \in OutcomeKinds, NEW s \in {0, active, mine}, JournalEntry(k, s), ~blurred'
          PROVE  failure' <=> Unresolved(journal')
      <3>1. PICK e : e = [kind |-> k.kind, text |-> k.text, files |-> k.files, session |-> s]
        OBVIOUS
      <3>2. /\ journal \in Seq(Journaled) /\ active \in Nat /\ mine \in Nat
        BY DEF StopReportTypeOK
      <3>3. e \in Journaled /\ e.kind = k.kind
        BY <3>1, <3>2 DEF Journaled
      <3>4. /\ journal' = Append(journal, e) /\ ~blurred
            /\ failure' = CASE k.kind = "detected" -> TRUE
                            [] k.kind = "resolved" -> FALSE
                            [] OTHER -> failure
        <4>1. PICK all : all = Append(journal, e)
          OBVIOUS
        <4>2. /\ journal' = IF Len(all) > MaxJournal THEN Tail(all) ELSE all
              /\ blurred' = (blurred \/ Len(all) > MaxJournal)
              /\ failure' = CASE k.kind = "detected" -> TRUE
                              [] k.kind = "resolved" -> FALSE
                              [] OTHER -> failure
          BY <2>1, <3>1, <4>1 DEF JournalEntry
        <4>3. QED
          BY <2>1, <4>1, <4>2
      <3>5. Unresolved(journal') <=>
                IF e.kind \in {"detected", "resolved"} THEN e.kind = "detected" ELSE Unresolved(journal)
        BY <3>2, <3>3, <3>4, NextEntry
      <3>6. CASE k.kind \in {"detected", "resolved"}
        BY <3>3, <3>4, <3>5, <3>6
      <3>7. CASE k.kind \notin {"detected", "resolved"}
        <4>1. failure' = failure /\ (Unresolved(journal') <=> Unresolved(journal))
          BY <3>3, <3>4, <3>5, <3>7
        <4>2. ~blurred
          BY <3>4
        <4>3. failure <=> Unresolved(journal)
          BY <1>1, <4>2
        <4>4. QED
          BY <4>1, <4>3
      <3>8. QED
        BY <3>6, <3>7
    <2>2. CASE ClearsOutcomes \/ DiscardsOutcomes
      BY <2>2, EmptyUnresolved DEF ClearsOutcomes, DiscardsOutcomes, Emptied
    <2>3. CASE UNCHANGED <<journal, failure, blurred>>
      BY <1>1, <2>3
    <2>4. QED
      BY <2>1, <2>2, <2>3, StopStepCases
         DEF WriteTranscript, StopBegins, ParseLine, ParseEnds, ParseFails, Judge, EndsWithReport,
             EndsWithout, SignalVerdict, Reread, StopEnds, StoreNote, StartsSession, reportVars, world
  <1>3. at' \in {"parse", "judge"} => verdict' = "none"
    BY StopStepCases
       DEF WriteTranscript, JournalEntry, StopBegins, ParseLine, ParseEnds, ParseFails, Judge,
           EndsWithReport, EndsWithout, SignalVerdict, ClearsOutcomes, DiscardsOutcomes, Reread,
           StopEnds, StoreNote, StartsSession, reportVars, world, hook, At, JournalRight
  <1>4. QED
    BY <1>2, <1>3 DEF JournalRight

\* The verdict stays right.
LEMMA VerdictRightStep ==
    ASSUME JournalRight, VerdictRight, [StopReportNext]_reportVars
    PROVE  VerdictRight'
  <1>1. CASE StopBegins
    BY <1>1 DEF StopBegins, VerdictRight
  <1>2. CASE ParseLine \/ ParseEnds \/ ParseFails
    <2>1. verdict' = "none"
      BY <1>2 DEF ParseLine, ParseEnds, ParseFails, JournalRight
    <2>2. QED
      BY <2>1 DEF VerdictRight
  <1>3. CASE Judge
    <2>1. /\ verdict' = VerdictOf(report, journal) /\ report' = report
          /\ due' = [failure |-> failure, blurred |-> blurred]
      BY <1>3 DEF Judge
    <2>2. due'.failure = failure /\ due'.blurred = blurred
      BY <2>1
    <2>3. verdict' = IF report.outcome.failing \/ Unresolved(journal) THEN "failure" ELSE "success"
      BY <2>1 DEF VerdictOf
    <2>4. verdict' = "failure" <=> report.outcome.failing \/ Unresolved(journal)
      BY <2>3
    <2>5. ~blurred => (failure <=> Unresolved(journal))
      BY DEF JournalRight
    <2>6. ~due'.blurred => (verdict' = "failure" <=> report'.outcome.failing \/ due'.failure)
      BY <2>1, <2>2, <2>4, <2>5
    <2>7. QED
      BY <2>6 DEF VerdictRight
  <1>4. CASE UNCHANGED <<verdict, report, due>>
    BY <1>4 DEF VerdictRight
  <1>5. QED
    BY <1>1, <1>2, <1>3, <1>4, StopStepCases
       DEF WriteTranscript, JournalEntry, EndsWithReport, EndsWithout, SignalVerdict, ClearsOutcomes,
           DiscardsOutcomes, Reread, StopEnds, StoreNote, StartsSession, reportVars, hook

\* The notes stay those of the last message.
LEMMA NotesKeptStep ==
    ASSUME StopReportTypeOK, NotesKept, [StopReportNext]_reportVars
    PROVE  NotesKept'
  <1>1. /\ at \notin {"store", "idle"} => \A m \in sent : m[1] # "note"
        /\ \A n \in notes : at = "store" => n \in FinalNotes(whole)
        /\ \A m \in sent : m[1] = "note" => m[2] \in FinalNotes(whole)
        /\ at = "store" /\ trouble = 0 =>
               \A n \in FinalNotes(whole) : n \in notes \/ <<"note", n>> \in sent
        /\ trouble \in Nat
    BY DEF NotesKept, StopReportTypeOK
  <1>2. ASSUME NEW F, F = FinalNotes(whole'),
               at' \notin {"store", "idle"} => \A m \in sent' : m[1] # "note",
               \A n \in notes' : at' = "store" => n \in F,
               \A m \in sent' : m[1] = "note" => m[2] \in F,
               at' = "store" /\ trouble' = 0 => \A n \in F : n \in notes' \/ <<"note", n>> \in sent'
        PROVE  NotesKept'
    BY <1>2 DEF NotesKept, FinalNotes, HasMessage, NotesIn
  <1>3. CASE StopBegins
    <2>1. sent' = {} /\ notes' = {} /\ at' = "parse"
      BY <1>3 DEF StopBegins, At
    <2>2. QED
      BY <1>2, <2>1
  <1>4. CASE at \notin {"store", "idle"} /\ at' # "store" /\ UNCHANGED sent
    BY <1>1, <1>2, <1>4
  <1>5. CASE EndsWithReport \/ SignalVerdict \/ ClearsOutcomes
    <2>1. PICK m \in {<<"end", report>>, <<"feedback", verdict>>, <<"lifecycle", "session_end">>} :
             sent' = sent \union {m}
      BY <1>5 DEF EndsWithReport, SignalVerdict, ClearsOutcomes
    <2>2. at \notin {"store", "idle"} /\ at' # "store"
      BY <1>5 DEF EndsWithReport, SignalVerdict, ClearsOutcomes, At
    <2>3. \A o \in sent' : o[1] # "note"
      BY <1>1, <2>1, <2>2
    <2>4. QED
      BY <1>2, <2>2, <2>3
  <1>6. CASE Reread
    <2>1. PICK F : F = FinalNotes(whole')
      OBVIOUS
    <2>2. notes' = F /\ at = "reread" /\ at' = "store" /\ sent' = sent
      BY <1>6, <2>1 DEF Reread, At
    <2>3. QED
      BY <1>1, <1>2, <2>1, <2>2
  <1>7. ASSUME NEW n \in notes, StoreNote(n) PROVE NotesKept'
    <2>1. PICK F : F = FinalNotes(whole)
      OBVIOUS
    <2>2. at = "store" /\ at' = "store" /\ whole' = whole /\ notes' = notes \ {n}
      BY <1>7 DEF StoreNote
    <2>3. \/ sent' = sent \union {<<"note", n>>} /\ trouble' = trouble
          \/ sent' = sent /\ trouble' = trouble + 1
      BY <1>7 DEF StoreNote
    <2>4. n \in F /\ F = FinalNotes(whole')
      BY <1>1, <2>1, <2>2
    <2>5. \A m \in sent' : m[1] = "note" => m[2] \in F
      BY <1>1, <2>1, <2>3, <2>4
    <2>6. trouble' = 0 => \A o \in F : o \in notes' \/ <<"note", o>> \in sent'
      <3>1. CASE sent' = sent \union {<<"note", n>>} /\ trouble' = trouble
        <4> SUFFICES ASSUME trouble = 0, NEW o \in F PROVE o \in notes' \/ <<"note", o>> \in sent'
          BY <3>1
        <4>1. o \in notes \/ <<"note", o>> \in sent
          BY <1>1, <2>1, <2>2
        <4>2. QED
          BY <2>2, <3>1, <4>1
      <3>2. CASE trouble' = trouble + 1
        <4>1. trouble \in Nat
          BY <1>1
        <4>2. trouble' # 0
          BY <3>2, <4>1
        <4>3. QED
          BY <4>2
      <3>3. QED
        BY <2>3, <3>1, <3>2
    <2>7. QED
      BY <1>1, <1>2, <2>1, <2>2, <2>4, <2>5, <2>6
  <1>8. CASE StopEnds
    <2>1. sent' = sent \/ sent' = sent \union {<<"invalidate", "compile-env">>}
      BY <1>8 DEF StopEnds
    <2>2. at' = "idle" /\ whole' = whole
      BY <1>8 DEF StopEnds, At
    <2>3. \A m \in sent' : m[1] = "note" => m[2] \in FinalNotes(whole')
      BY <1>1, <2>1, <2>2
    <2>4. QED
      BY <1>2, <2>2, <2>3
  <1>9. CASE UNCHANGED <<at, sent, notes, whole, trouble>>
    <2>1. FinalNotes(whole') = FinalNotes(whole)
      BY <1>9
    <2>2. QED
      BY <1>1, <1>2, <1>9, <2>1
  <1>10. QED
    BY <1>3, <1>4, <1>5, <1>6, <1>7, <1>8, <1>9, StopStepCases
       DEF WriteTranscript, JournalEntry, ParseLine, ParseEnds, ParseFails, Judge, EndsWithout,
           DiscardsOutcomes, StartsSession, reportVars, world, hook, At

\* The order of what is sent stays.
LEMMA SentStep ==
    ASSUME SentInOrder, SentRight, [StopReportNext]_reportVars
    PROVE  SentInOrder' /\ SentRight'
  <1>1. /\ stealth => at \in {"idle", "parse", "discard"}
        /\ at \in {"parse", "judge", "end", "discard"} => sent = {}
        /\ at = "signal" => <<"end", report>> \in sent
        /\ stealth => sent = {}
        /\ \A v \in {"failure", "success"} : <<"feedback", v>> \in sent => <<"end", report>> \in sent
    BY DEF SentInOrder, SentRight
  <1>2. CASE StopBegins \/ ParseLine \/ ParseEnds \/ ParseFails \/ Judge
    <2>1. sent' = {} /\ stealth' = stealth /\ at' # "signal"
      BY <1>1, <1>2 DEF StopBegins, ParseLine, ParseEnds, ParseFails, Judge, At
    <2>2. stealth => at' \in {"parse", "discard"}
      BY <1>1, <1>2 DEF StopBegins, ParseLine, ParseEnds, ParseFails, Judge, At
    <2>3. QED
      BY <2>1, <2>2 DEF SentInOrder, SentRight
  <1>3. CASE EndsWithReport
    <2>1. /\ at = "end" /\ at' = "signal" /\ sent' = sent \union {<<"end", report>>}
          /\ report' = report /\ stealth' = stealth
      BY <1>3 DEF EndsWithReport, At
    <2>2. ~stealth
      BY <1>1, <2>1
    <2>3. QED
      BY <2>1, <2>2 DEF SentInOrder, SentRight
  <1>4. CASE SignalVerdict
    <2>1. /\ at = "signal" /\ at' = "clear" /\ sent' = sent \union {<<"feedback", verdict>>}
          /\ report' = report /\ stealth' = stealth
      BY <1>4 DEF SignalVerdict, At
    <2>2. ~stealth /\ <<"end", report>> \in sent
      BY <1>1, <2>1
    <2>3. QED
      BY <2>1, <2>2 DEF SentInOrder, SentRight
  <1>5. ASSUME NEW m, sent' = sent \union {m} \/ sent' = sent, m[1] # "feedback",
               UNCHANGED <<report, stealth>>, at \notin {"idle", "parse", "discard"},
               at' \in {"clear", "reread", "store", "idle"}
        PROVE  SentInOrder' /\ SentRight'
    <2>1. ~stealth'
      BY <1>1, <1>5
    <2>2. \A v \in {"failure", "success"} : <<"feedback", v>> \in sent' => <<"feedback", v>> \in sent
      BY <1>5
    <2>3. SentInOrder'
      BY <1>5, <2>1 DEF SentInOrder
    <2>4. \A v \in {"failure", "success"} : <<"feedback", v>> \in sent' => <<"end", report'>> \in sent'
      BY <1>1, <1>5, <2>2
    <2>5. QED
      BY <2>1, <2>3, <2>4 DEF SentRight
  <1>6. CASE ClearsOutcomes
    <2>1. PICK m : m = <<"lifecycle", "session_end">>
      OBVIOUS
    <2>2. m[1] # "feedback"
      BY <2>1
    <2>3. /\ sent' = sent \union {m} /\ UNCHANGED <<report, stealth>>
          /\ at = "clear" /\ at' = "reread"
      BY <1>6, <2>1 DEF ClearsOutcomes, At
    <2>4. QED
      BY <1>5, <2>2, <2>3
  <1>7. CASE EndsWithout \/ Reread
    <2>1. PICK m : m = <<"note", "none">>
      OBVIOUS
    <2>2. m[1] # "feedback"
      BY <2>1
    <2>3. /\ UNCHANGED <<sent, report, stealth>> /\ at \in {"end", "reread"}
          /\ at' \in {"reread", "store"}
      BY <1>7 DEF EndsWithout, Reread, hook, At
    <2>4. QED
      BY <1>5, <2>2, <2>3
  <1>8. ASSUME NEW n \in notes, StoreNote(n) PROVE SentInOrder' /\ SentRight'
    <2>1. PICK m : m = <<"note", n>>
      OBVIOUS
    <2>2. m[1] # "feedback"
      BY <2>1
    <2>3. /\ sent' = sent \union {m} \/ sent' = sent
          /\ UNCHANGED <<report, stealth>> /\ at = "store" /\ at' = "store"
      BY <1>8, <2>1 DEF StoreNote
    <2>4. QED
      BY <1>5, <2>2, <2>3
  <1>9. CASE StopEnds
    <2>1. PICK m : m = <<"invalidate", "compile-env">>
      OBVIOUS
    <2>2. m[1] # "feedback"
      BY <2>1
    <2>3. /\ sent' = sent \union {m} \/ sent' = sent
          /\ UNCHANGED <<report, stealth>> /\ at = "store" /\ at' = "idle"
      BY <1>9, <2>1 DEF StopEnds, At
    <2>4. QED
      BY <1>5, <2>2, <2>3
  <1>10. CASE DiscardsOutcomes
    <2>1. /\ at = "discard" /\ at' = "idle" /\ UNCHANGED <<sent, report, stealth>>
      BY <1>10 DEF DiscardsOutcomes, hook, At
    <2>2. QED
      BY <1>1, <2>1 DEF SentInOrder, SentRight
  <1>11. CASE UNCHANGED <<at, sent, report, stealth>>
    BY <1>1, <1>11 DEF SentInOrder, SentRight
  <1>12. QED
    BY <1>2, <1>3, <1>4, <1>6, <1>7, <1>8, <1>9, <1>10, <1>11, StopStepCases
       DEF WriteTranscript, JournalEntry, StartsSession, reportVars, hook

\* What the notes of a message are.
LEMMA FinalWords ==
    ASSUME NEW lines \in Seq(TLine), NEW S, S = {i \in DOMAIN lines : HasMessage(lines[i])},
           NEW f, f = IF S = {} THEN <<>> ELSE lines[Max(S)].blocks
    PROVE  /\ \A n \in FinalNotes(lines) : \E i \in DOMAIN f : n \in f[i].first \union f[i].later
           /\ f # <<>> => f[1] \in Text /\ f[1].first \union f[1].later \subseteq FinalNotes(lines)
  <1>1. FinalNotes(lines) = IF S = {} THEN {} ELSE NotesIn(lines[Max(S)].blocks)
    BY DEF FinalNotes
  <1>2. CASE S = {}
    BY <1>1, <1>2
  <1>3. CASE S # {}
    <2>1. PICK n \in Nat : n = Len(lines)
      OBVIOUS
    <2>2. S \in SUBSET (1..n)
      BY <2>1
    <2>3. Max(S) \in S /\ Max(S) \in 1..Len(lines)
      BY <1>3, <2>1, <2>2, NextPosition
    <2>4. lines[Max(S)] \in TLine
      BY <2>3, ElementOfSeq
    <2>5. f = lines[Max(S)].blocks /\ f \in Seq(Text)
      BY <1>3, <2>4, StopReportAssumption
    <2>6. f # <<>>
      BY <2>3, <2>5 DEF HasMessage
    <2>7. 1 \in DOMAIN f /\ Head(f) = f[1] /\ f[1] \in Text
      BY <2>5, <2>6
    <2>8. PICK g : g = f
      OBVIOUS
    <2>9. PICK U : U = UNION {g[i].later : i \in DOMAIN g}
      OBVIOUS
    <2>10. FinalNotes(lines) = g[1].first \union U
      BY <1>1, <1>3, <2>5, <2>6, <2>7, <2>8, <2>9 DEF NotesIn
    <2>11. 1 \in DOMAIN g /\ \A m : m \in U <=> \E i \in DOMAIN g : m \in g[i].later
      BY <2>7, <2>8, <2>9
    <2>12. \A m \in FinalNotes(lines) : \E i \in DOMAIN g : m \in g[i].first \union g[i].later
      BY <2>10, <2>11
    <2>13. g[1].first \union g[1].later \subseteq FinalNotes(lines)
      BY <2>10, <2>11
    <2>14. QED
      BY <2>7, <2>8, <2>12, <2>13
  <1>4. QED
    BY <1>2, <1>3

LEMMA KeptMeansRight ==
    ASSUME StopReportTypeOK, NotesKept
    PROVE  NotesRight
  <1> DEFINE kept   == {n \in UNION {t.first \union t.later : t \in Text} : <<"note", n>> \in sent}
             spoken == {i \in DOMAIN whole : HasMessage(whole[i])}
             final  == IF spoken = {} THEN <<>> ELSE whole[Max(spoken)].blocks
  <1>1. /\ at \notin {"store", "idle"} => \A m \in sent : m[1] # "note"
        /\ \A m \in sent : m[1] = "note" => m[2] \in FinalNotes(whole)
        /\ at = "store" /\ trouble = 0 =>
               \A n \in FinalNotes(whole) : n \in notes \/ <<"note", n>> \in sent
    BY DEF NotesKept
  <1>2. whole \in Seq(TLine)
    BY DEF StopReportTypeOK
  <1>3. /\ \A n \in FinalNotes(whole) : \E i \in DOMAIN final : n \in final[i].first \union final[i].later
        /\ final # <<>> => /\ final[1] \in Text
                           /\ final[1].first \union final[1].later \subseteq FinalNotes(whole)
    BY <1>2, FinalWords
  <1> HIDE DEF spoken, final
  <1>4. kept \subseteq FinalNotes(whole)
    <2> SUFFICES ASSUME NEW n \in kept PROVE n \in FinalNotes(whole)
      OBVIOUS
    <2>1. PICK m \in sent : m = <<"note", n>>
      OBVIOUS
    <2>2. m[1] = "note" /\ m[2] = n
      BY <2>1
    <2>3. QED
      BY <1>1, <2>2
  <1>5. at = "store" /\ notes = {} /\ trouble = 0 /\ final # <<>> =>
            final[1].first \union final[1].later \subseteq kept
    <2> SUFFICES ASSUME at = "store", notes = {}, trouble = 0, final # <<>>,
                        NEW n \in final[1].first \union final[1].later
                 PROVE  n \in kept
      OBVIOUS
    <2>1. n \in FinalNotes(whole) /\ final[1] \in Text
      BY <1>3
    <2>2. <<"note", n>> \in sent
      BY <1>1, <2>1
    <2>3. n \in UNION {t.first \union t.later : t \in Text}
      BY <2>1
    <2>4. QED
      BY <2>2, <2>3
  <1> HIDE DEF kept
  <1>6. kept \subseteq UNION {final[i].first \union final[i].later : i \in DOMAIN final}
    BY <1>3, <1>4
  <1>7. QED
    BY <1>5, <1>6 DEF NotesRight, kept, spoken, final

\* Initially the hook has read and sent nothing.
LEMMA StopStart ==
    ASSUME StopReportInit
    PROVE  StopReportInv
  <1>1. /\ transcript = <<>> /\ journal = <<>> /\ active = 1 /\ stealth \in BOOLEAN
        /\ at = "idle" /\ mine = 0 /\ own = <<>> /\ read = 0 /\ verdict = "none" /\ notes = {}
        /\ sent = {} /\ length = 0 /\ whole = <<>> /\ stops = 0 /\ trouble = 0
        /\ failure = FALSE /\ blurred = FALSE
    BY DEF StopReportInit
  <1>2. StopReportTypeOK
    <2>1. <<>> \in Seq(TLine) /\ <<>> \in Seq(Journaled) /\ Len(<<>>) = 0
      OBVIOUS
    <2>2. at \in Steps
      BY <1>1 DEF Steps
    <2>3. QED
      BY <1>1, <2>1, <2>2 DEF StopReportTypeOK
  <1>3. ReadRight /\ SummaryRight
    BY <1>1 DEF ReadRight, SummaryRight
  <1>4. JournalRight /\ VerdictRight
    BY <1>1, EmptyUnresolved DEF JournalRight, VerdictRight
  <1>5. NotesKept
    BY <1>1 DEF NotesKept
  <1>6. SentInOrder /\ SentRight
    BY <1>1 DEF SentInOrder, SentRight
  <1>7. QED
    BY <1>2, <1>3, <1>4, <1>5, <1>6 DEF StopReportInv

\* The invariant of the stop hook: what it has read so far is what the lines say,
\* the list of outcomes ends as the records did, and the notes that are left are
\* those of the last message (transcript.rs:39, outcomes.rs:19, trigger_word.rs:36).
THEOREM StopReportInvariant == StopReportSpec => []StopReportInv
  <1>1. StopReportInit => StopReportInv
    BY StopStart
  <1>2. StopReportInv /\ [StopReportNext]_reportVars => StopReportInv'
    BY StopTypesStep, ReadRightStep, SummaryRightStep, JournalRightStep, VerdictRightStep,
       NotesKeptStep, SentStep
       DEF StopReportInv
  <1>3. QED
    BY <1>1, <1>2, PTL DEF StopReportSpec

\* What the stop hook says of the session is true, for every transcript and every
\* list of outcomes, however they grow while it works.
THEOREM StopReportsTruth == StopReportSpec => []ReportTrue
  <1>1. StopReportInv => ReportTrue
    BY KeptMeansRight DEF StopReportInv, ReportTrue
  <1>2. QED
    BY <1>1, StopReportInvariant, PTL

=============================================================================
