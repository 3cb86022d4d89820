-------------------------- MODULE PendingQueueProofs --------------------------
(***************************************************************************)
(* Proofs about PendingQueue, for every set of hook processes, every set   *)
(* of files, both lists, every threshold and every cap.                    *)
(***************************************************************************)
EXTENDS PendingQueue, SubsequenceProofs

\* Pushing adds what is missing, and nothing twice.
LEMMA PushAdds ==
    ASSUME NEW q \in Seq(Path), NEW entries \in Seq(Path),
           IsInjective(q), IsInjective(entries)
    PROVE  /\ Push(q, entries) \in Seq(Path)
           /\ ToSet(Push(q, entries)) = ToSet(q) \union ToSet(entries)
           /\ IsInjective(Push(q, entries))
  <1>1. PICK new : new = Kept(entries, Path \ ToSet(q))
    OBVIOUS
  <1>2. /\ new \in Seq(Path) /\ IsInjective(new)
        /\ ToSet(new) = ToSet(entries) \intersect (Path \ ToSet(q))
    BY <1>1, KeptElements
  <1>3. ToSet(entries) \subseteq Path
    BY InToSet
  <1>4. ToSet(q) \intersect ToSet(new) = {}
    BY <1>2
  <1>5. Push(q, entries) = q \o new
    BY <1>1 DEF Push
  <1>6. ToSet(q) \union ToSet(new) = ToSet(q) \union ToSet(entries)
    BY <1>2, <1>3
  <1>7. QED
    BY <1>2, <1>4, <1>5, <1>6, ConcatOnce

\* Cutting leaves a list within the cap.
LEMMA CappedOnce ==
    ASSUME NEW q \in Seq(Path), IsInjective(q)
    PROVE  Capped(q) \in Seq(Path) /\ Once(Capped(q)) /\ ToSet(Capped(q)) \subseteq ToSet(q)
  <1>1. Cap \in Nat /\ Len(q) \in Nat
    BY QueueAssumption
  <1>2. CASE Len(q) > Cap
    <2>1. PICK r : r = SubSeq(q, Len(q) - Cap + 1, Len(q))
      OBVIOUS
    <2>2. r \in Seq(Path) /\ Len(r) = Cap /\ ToSet(r) \subseteq ToSet(q) /\ IsInjective(r)
      BY <1>1, <1>2, <2>1, SuffixOnce
    <2>3. Capped(q) = r
      BY <1>2, <2>1 DEF Capped
    <2>4. QED
      BY <1>1, <2>2, <2>3 DEF Once
  <1>3. CASE ~(Len(q) > Cap)
    BY <1>1, <1>3 DEF Capped, Once
  <1>4. QED
    BY <1>2, <1>3

\* Whatever is pushed is in the list or counted as dropped afterwards, and so is
\* whatever was there before.
LEMMA PushKeepsTrack ==
    ASSUME QueueTypeOK, NEW entries \in Seq(Path), IsInjective(entries), PushCapped(entries)
    PROVE  /\ queue' \in Seq(Path) /\ Once(queue') /\ dropped' \subseteq Path
           /\ ToSet(queue) \union ToSet(entries) \union dropped
                 \subseteq ToSet(queue') \union dropped'
  <1>1. PICK all : all = Push(queue, entries)
    OBVIOUS
  <1>2. /\ all \in Seq(Path) /\ IsInjective(all)
        /\ ToSet(all) = ToSet(queue) \union ToSet(entries)
    BY <1>1, PushAdds DEF QueueTypeOK, Once
  <1>3. queue' = Capped(all) /\ dropped' = (dropped \union ToSet(all)) \ ToSet(Capped(all))
    BY <1>1 DEF PushCapped
  <1>4. Capped(all) \in Seq(Path) /\ Once(Capped(all))
    BY <1>2, CappedOnce
  <1>5. ToSet(all) \subseteq Path /\ dropped \subseteq Path
    BY <1>2, InToSet DEF QueueTypeOK
  <1>6. QED
    BY <1>2, <1>3, <1>4, <1>5

\* An empty list, and a list of one.
LEMMA ShortLists ==
    /\ <<>> \in Seq(Path) /\ Once(<<>>) /\ Len(<<>>) = 0 /\ ToSet(<<>>) = {}
    /\ \A d \in Path : <<d>> \in Seq(Path) /\ IsInjective(<<d>>) /\ ToSet(<<d>>) = {d}
  <1>1. <<>> \in Seq(Path) /\ Once(<<>>) /\ Len(<<>>) = 0 /\ ToSet(<<>>) = {}
    BY QueueAssumption DEF Once, IsInjective, ToSet
  <1>2. ASSUME NEW d \in Path
        PROVE  <<d>> \in Seq(Path) /\ IsInjective(<<d>>) /\ ToSet(<<d>>) = {d}
    <2>1. PICK t : t = <<d>>
      OBVIOUS
    <2>2. t \in Seq(Path) /\ Len(t) = 1 /\ t[1] = d /\ DOMAIN t = 1..1
      BY <2>1
    <2>3. IsInjective(t) /\ ToSet(t) = {d}
      BY <2>2 DEF IsInjective, ToSet
    <2>4. QED
      BY <2>1, <2>2, <2>3
  <1>3. QED
    BY <1>1, <1>2

\* The ways a step can be taken.
LEMMA StepCases ==
    ASSUME [Next]_vars
    PROVE  \/ \E p \in Proc :
                \/ \E d \in Path : Edit(p, d)
                \/ EditOther(p) \/ Build(p) \/ Track(p) \/ Take(p) \/ SpawnIngest(p)
                \/ IngestDone(p) \/ SpawnExport(p) \/ Requeue(p) \/ Crash(p) \/ UpdateFails(p)
           \/ UNCHANGED vars
  BY DEF Next, Hook

\* In the beginning nothing is pending.
LEMMA InitInv == Init => QueueInv
  <1> SUFFICES ASSUME Init PROVE QueueInv
    OBVIOUS
  <1>1. (CHOOSE d \in Path : TRUE) \in Path
    BY QueueAssumption
  <1>2. QueueTypeOK
    BY <1>1, ShortLists, QueueAssumption DEF Init, QueueTypeOK
  <1>3. TakenOnce
    BY ShortLists, QueueAssumption DEF Init, TakenOnce
  <1>4. NothingForgotten
    BY DEF Init, NothingForgotten
  <1>5. QED
    BY <1>2, <1>3, <1>4 DEF QueueInv

\* Types are preserved by every step.
LEMMA TypePreserved ==
    ASSUME QueueInv, [Next]_vars
    PROVE  QueueTypeOK'
  <1> USE DEF QueueInv, QueueTypeOK, Goto
  <1>1. ASSUME NEW p \in Proc, NEW d \in Path, Edit(p, d)
        PROVE  QueueTypeOK'
    BY <1>1 DEF Edit
  <1>2. ASSUME NEW p \in Proc, EditOther(p) \/ Build(p) \/ IngestDone(p)
        PROVE  QueueTypeOK'
    BY <1>2 DEF EditOther, Build, IngestDone
  <1>3. ASSUME NEW p \in Proc, Track(p)
        PROVE  QueueTypeOK'
    <2>1. <<arg[p]>> \in Seq(Path) /\ IsInjective(<<arg[p]>>)
      BY ShortLists
    <2>2. queue' \in Seq(Path) /\ Once(queue') /\ dropped' \subseteq Path
      BY <1>3, <2>1, PushKeepsTrack DEF Track
    <2>3. QED
      BY <1>3, <2>2 DEF Track
  <1>4. ASSUME NEW p \in Proc, Take(p)
        PROVE  QueueTypeOK'
    BY <1>4, ShortLists DEF Take
  <1>5. ASSUME NEW p \in Proc, SpawnIngest(p)
        PROVE  QueueTypeOK'
    <2>1. PICK b \in Seq(Path), f \in Seq(Path) : b = batch[p] /\ f = failed[p]
      OBVIOUS
    <2>2. b # <<>>
      BY <1>5, <2>1 DEF SpawnIngest
    <2>3. Tail(b) \in Seq(Path) /\ Once(Tail(b))
      BY <2>1, <2>2, HeadAndTail, QueueAssumption DEF Once
    <2>4. Head(b) \in Path /\ Head(b) \in ToSet(b) /\ Len(b) \in Nat \ {0}
      BY <2>2, HeadAndTail, EmptySeq
    <2>5. Head(b) \notin ToSet(f) /\ Len(b) + Len(f) <= Cap
      BY <2>1, <2>4 DEF TakenOnce
    <2>6. Append(f, Head(b)) \in Seq(Path) /\ Once(Append(f, Head(b)))
      <3>1. /\ Append(f, Head(b)) \in Seq(Path)
            /\ IsInjective(Append(f, Head(b)))
            /\ Len(Append(f, Head(b))) = Len(f) + 1
        BY <2>1, <2>4, <2>5, AppendOnce DEF Once
      <3>2. Len(f) + 1 <= Cap
        BY <2>4, <2>5, QueueAssumption
      <3>3. QED
        BY <3>1, <3>2 DEF Once
    <2>7. batch' = [batch EXCEPT ![p] = Tail(b)]
      BY <1>5, <2>1 DEF SpawnIngest
    <2>8. UNCHANGED failed \/ failed' = [failed EXCEPT ![p] = Append(f, Head(b))]
      BY <1>5, <2>1 DEF SpawnIngest
    <2>9. dirty' \subseteq Path
      BY <1>5 DEF SpawnIngest
    <2>10. QED
      BY <1>5, <2>3, <2>6, <2>7, <2>8, <2>9 DEF SpawnIngest
  <1>6. ASSUME NEW p \in Proc, SpawnExport(p)
        PROVE  QueueTypeOK'
    BY <1>6, ShortLists DEF SpawnExport
  <1>7. ASSUME NEW p \in Proc, Requeue(p)
        PROVE  QueueTypeOK'
    <2>1. failed[p] \in Seq(Path) /\ IsInjective(failed[p])
      BY DEF Once
    <2>2. queue' \in Seq(Path) /\ Once(queue') /\ dropped' \subseteq Path
      BY <1>7, <2>1, PushKeepsTrack DEF Requeue
    <2>3. QED
      BY <1>7, <2>2, ShortLists DEF Requeue
  <1>8. ASSUME NEW p \in Proc, Crash(p) \/ UpdateFails(p)
        PROVE  QueueTypeOK'
    <2>1. Hands(p) \subseteq Path
      BY InToSet DEF Hands
    <2>2. pc' \in [Proc -> {"idle", "track", "take", "spawn", "requeue"}]
      BY <1>8 DEF Crash, UpdateFails
    <2>3. faults' \in 0..MaxFaults
      BY <1>8, QueueAssumption DEF Crash, UpdateFails, GiveUp
    <2>4. QED
      BY <1>8, <2>1, <2>2, <2>3, ShortLists DEF Crash, UpdateFails, GiveUp
  <1>9. CASE UNCHANGED vars
    BY <1>9 DEF vars, hookVars
  <1>10. QED
    BY <1>1, <1>2, <1>3, <1>4, <1>5, <1>6, <1>7, <1>8, <1>9, StepCases

\* What a hook has taken it has once, whatever the other hooks do.
LEMMA TakenOncePreserved ==
    ASSUME QueueInv, [Next]_vars
    PROVE  TakenOnce'
  <1> USE DEF QueueInv, QueueTypeOK, Goto
  <1>1. ASSUME NEW p \in Proc,
               \/ \E d \in Path : Edit(p, d)
               \/ EditOther(p) \/ Build(p) \/ Track(p) \/ IngestDone(p)
        PROVE  TakenOnce'
    BY <1>1 DEF TakenOnce, Edit, EditOther, Build, Track, IngestDone
  <1>2. ASSUME NEW p \in Proc, Take(p)
        PROVE  TakenOnce'
    <2>1. failed[p] = <<>>
      BY <1>2 DEF TakenOnce, Take
    <2>2. Len(queue) \in Nat /\ Len(queue) <= Cap /\ Len(queue) + 0 <= Cap
      BY QueueAssumption DEF Once
    <2>3. CASE LongEnough
      <3>1. batch' = [batch EXCEPT ![p] = queue] /\ pc'[p] = "spawn" /\ UNCHANGED failed
        BY <1>2, <2>3 DEF Take
      <3>2. Len(batch'[p]) + Len(failed'[p]) <= Cap /\ ToSet(batch'[p]) \intersect ToSet(failed'[p]) = {}
        BY <2>1, <2>2, <3>1, ShortLists
      <3>3. QED
        BY <1>2, <2>1, <3>1, <3>2 DEF TakenOnce, Take
    <2>4. CASE ~LongEnough
      BY <1>2, <2>4 DEF TakenOnce, Take
    <2>5. QED
      BY <2>3, <2>4
  <1>3. ASSUME NEW p \in Proc, SpawnIngest(p)
        PROVE  TakenOnce'
    <2>1. PICK b \in Seq(Path), f \in Seq(Path) : b = batch[p] /\ f = failed[p]
      OBVIOUS
    <2>2. b # <<>> /\ batch' = [batch EXCEPT ![p] = Tail(b)]
      BY <1>3, <2>1 DEF SpawnIngest
    <2>3. /\ Head(b) \in Path /\ Len(Tail(b)) = Len(b) - 1 /\ Len(b) \in Nat \ {0}
          /\ ToSet(b) = {Head(b)} \union ToSet(Tail(b)) /\ Head(b) \notin ToSet(Tail(b))
      BY <2>1, <2>2, HeadAndTail, EmptySeq DEF Once
    <2>4. Len(b) + Len(f) <= Cap /\ ToSet(b) \intersect ToSet(f) = {} /\ Len(f) \in Nat
      <3>1. /\ Len(batch[p]) + Len(failed[p]) <= Cap
            /\ ToSet(batch[p]) \intersect ToSet(failed[p]) = {}
        BY DEF TakenOnce
      <3>2. Len(f) \in Nat
        BY <2>1, LenProperties
      <3>3. QED
        BY <2>1, <3>1, <3>2
    <2>5. PICK g \in Seq(Path) :
             /\ failed' = [failed EXCEPT ![p] = g]
             /\ g = f \/ g = Append(f, Head(b))
      <3>1. UNCHANGED failed => failed' = [failed EXCEPT ![p] = f]
        BY <2>1
      <3>2. Append(f, Head(b)) \in Seq(Path)
        BY <2>3
      <3>3. QED
        BY <1>3, <2>1, <3>1, <3>2 DEF SpawnIngest
    <2>6. Len(g) <= Len(f) + 1 /\ Len(g) \in Nat /\ ToSet(g) \subseteq ToSet(f) \union {Head(b)}
      <3>1. /\ Len(Append(f, Head(b))) = Len(f) + 1
            /\ ToSet(Append(f, Head(b))) = ToSet(f) \union {Head(b)}
        BY <2>3, AppendOnce
      <3>2. Len(f) <= Len(f) + 1 /\ Len(f) + 1 <= Len(f) + 1 /\ Len(f) + 1 \in Nat
        BY <2>4
      <3>3. CASE g = f
        BY <2>4, <3>2, <3>3
      <3>4. CASE g = Append(f, Head(b))
        BY <3>1, <3>2, <3>4
      <3>5. QED
        BY <2>5, <3>3, <3>4
    <2>7. Len(Tail(b)) + Len(g) <= Cap /\ ToSet(Tail(b)) \intersect ToSet(g) = {}
      BY <2>3, <2>4, <2>6, QueueAssumption
    <2>8. batch'[p] = Tail(b) /\ failed'[p] = g
      BY <2>2, <2>5
    <2>9. ASSUME NEW q \in Proc, q # p
          PROVE  batch'[q] = batch[q] /\ failed'[q] = failed[q]
      BY <2>2, <2>5, <2>9
    <2>10. UNCHANGED <<pc, list>> /\ pc[p] = "spawn" /\ list = "documents"
      BY <1>3 DEF SpawnIngest
    <2>11. QED
      BY <2>7, <2>8, <2>9, <2>10 DEF TakenOnce
  <1>4. ASSUME NEW p \in Proc, SpawnExport(p)
        PROVE  TakenOnce'
    <2>1. failed[p] = <<>>
      BY <1>4 DEF TakenOnce, SpawnExport
    <2>2. Len(batch[p]) \in Nat /\ Len(batch[p]) <= Cap /\ 0 + Len(batch[p]) <= Cap
      BY QueueAssumption DEF Once
    <2>3. batch'[p] = <<>> /\ (failed'[p] = <<>> \/ (failed'[p] = batch[p] /\ pc'[p] = "requeue"))
      BY <1>4, <2>1 DEF SpawnExport
    <2>4. /\ Len(batch'[p]) + Len(failed'[p]) <= Cap
          /\ ToSet(batch'[p]) \intersect ToSet(failed'[p]) = {}
      <3>1. CASE failed'[p] = <<>>
        BY <2>3, <3>1, ShortLists, QueueAssumption
      <3>2. CASE failed'[p] = batch[p]
        BY <2>2, <2>3, <3>2, ShortLists
      <3>3. QED
        BY <2>3, <3>1, <3>2
    <2>5. \A q \in Proc \ {p} : batch'[q] = batch[q] /\ failed'[q] = failed[q] /\ pc'[q] = pc[q]
      BY <1>4 DEF SpawnExport
    <2>6. UNCHANGED list
      BY <1>4 DEF SpawnExport
    <2>7. QED
      BY <2>3, <2>4, <2>5, <2>6 DEF TakenOnce
  <1>5. ASSUME NEW p \in Proc, Requeue(p)
        PROVE  TakenOnce'
    <2>1. batch[p] = <<>>
      BY <1>5 DEF TakenOnce, Requeue
    <2>2. QED
      BY <1>5, <2>1, ShortLists, QueueAssumption DEF TakenOnce, Requeue
  <1>6. ASSUME NEW p \in Proc, Crash(p) \/ UpdateFails(p)
        PROVE  TakenOnce'
    <2>1. /\ batch' = [batch EXCEPT ![p] = <<>>] /\ failed' = [failed EXCEPT ![p] = <<>>]
          /\ UNCHANGED list
      BY <1>6 DEF Crash, UpdateFails, GiveUp
    <2>2. \A q \in Proc \ {p} : pc'[q] = pc[q]
      BY <1>6 DEF Crash, UpdateFails
    <2>3. /\ batch'[p] = <<>> /\ failed'[p] = <<>>
          /\ \A q \in Proc \ {p} : batch'[q] = batch[q] /\ failed'[q] = failed[q]
      BY <2>1
    <2>4. /\ Len(batch'[p]) + Len(failed'[p]) <= Cap
          /\ ToSet(batch'[p]) \intersect ToSet(failed'[p]) = {}
      BY <2>3, ShortLists, QueueAssumption
    <2>5. QED
      BY <2>1, <2>2, <2>3, <2>4 DEF TakenOnce
  <1>7. CASE UNCHANGED vars
    BY <1>7 DEF TakenOnce, vars, hookVars
  <1>8. QED
    BY <1>1, <1>2, <1>3, <1>4, <1>5, <1>6, <1>7, StepCases

\* A step of p keeps track of every dirty file if it does so of those that were
\* in the list or in the hands of p: the hands of the others do not change.
LEMMA OthersKeep ==
    ASSUME QueueInv, NEW p \in Proc,
           \A q \in Proc \ {p} : Hands(q)' = Hands(q),
           \A d \in dirty' :
              \/ d \in dirty /\ d \notin ToSet(queue) \union Hands(p) \union dropped
              \/ d \in ToSet(queue)' \union Hands(p)' \union dropped'
    PROVE  NothingForgotten'
  <1> SUFFICES ASSUME NEW d \in dirty'
               PROVE  \/ d \in ToSet(queue)' \/ d \in dropped'
                      \/ \E q \in Proc : d \in Hands(q)'
    BY DEF NothingForgotten
  <1>1. CASE d \in ToSet(queue)' \union Hands(p)' \union dropped'
    BY <1>1
  <1>2. CASE d \in dirty /\ d \notin ToSet(queue) \union Hands(p) \union dropped
    <2>1. PICK q \in Proc : d \in Hands(q)
      BY <1>2 DEF QueueInv, NothingForgotten
    <2>2. q # p
      BY <1>2, <2>1
    <2>3. QED
      BY <2>1, <2>2
  <1>3. QED
    BY <1>1, <1>2

\* No step forgets an edited file.
LEMMA NothingForgottenPreserved ==
    ASSUME QueueInv, [Next]_vars
    PROVE  NothingForgotten'
  <1> USE DEF QueueInv, QueueTypeOK, Goto
  <1> DEFINE OthersSame(p) == \A q \in Proc \ {p} : Hands(q)' = Hands(q)
  <1>1. ASSUME NEW p \in Proc, NEW d \in Path, Edit(p, d)
        PROVE  NothingForgotten'
    <2>1. OthersSame(p)
      BY <1>1 DEF Edit, Hands
    <2>2. d \in Hands(p)' /\ Hands(p) \subseteq Hands(p)'
      BY <1>1 DEF Edit, Hands
    <2>3. QED
      BY <1>1, <2>1, <2>2, OthersKeep DEF Edit
  <1>2. ASSUME NEW p \in Proc, EditOther(p) \/ Build(p) \/ IngestDone(p)
        PROVE  NothingForgotten'
    <2>1. OthersSame(p)
      BY <1>2 DEF EditOther, Build, IngestDone, Hands
    <2>2. Hands(p)' = Hands(p)
      BY <1>2 DEF EditOther, Build, IngestDone, Hands
    <2>3. QED
      BY <1>2, <2>1, <2>2, OthersKeep DEF EditOther, Build, IngestDone
  <1>3. ASSUME NEW p \in Proc, Track(p)
        PROVE  NothingForgotten'
    <2>1. OthersSame(p)
      BY <1>3 DEF Track, Hands
    <2>2. <<arg[p]>> \in Seq(Path) /\ IsInjective(<<arg[p]>>) /\ ToSet(<<arg[p]>>) = {arg[p]}
      BY ShortLists
    <2>3. ToSet(queue) \union {arg[p]} \union dropped \subseteq ToSet(queue') \union dropped'
      BY <1>3, <2>2, PushKeepsTrack DEF Track
    <2>4. Hands(p) \subseteq Hands(p)' \union {arg[p]} /\ UNCHANGED dirty
      BY <1>3 DEF Track, Hands
    <2>5. QED
      BY <2>1, <2>3, <2>4, OthersKeep
  <1>4. ASSUME NEW p \in Proc, Take(p)
        PROVE  NothingForgotten'
    <2>1. OthersSame(p)
      BY <1>4 DEF Take, Hands
    <2>2. batch[p] = <<>> /\ failed[p] = <<>>
      BY <1>4 DEF TakenOnce, Take
    <2>3. ToSet(queue) \union Hands(p) \subseteq ToSet(queue)' \union Hands(p)'
      BY <1>4, <2>2, ShortLists DEF Take, Hands
    <2>4. UNCHANGED <<dirty, dropped>>
      BY <1>4 DEF Take
    <2>5. QED
      BY <2>1, <2>3, <2>4, OthersKeep
  <1>5. ASSUME NEW p \in Proc, SpawnIngest(p)
        PROVE  NothingForgotten'
    <2>1. OthersSame(p)
      BY <1>5 DEF SpawnIngest, Hands
    <2>2. PICK b \in Seq(Path), f \in Seq(Path) : b = batch[p] /\ f = failed[p]
      OBVIOUS
    <2>3. b # <<>> /\ batch'[p] = Tail(b) /\ pc'[p] = pc[p] /\ pc[p] = "spawn"
      BY <1>5, <2>2 DEF SpawnIngest
    <2>4. Head(b) \in Path /\ ToSet(b) = {Head(b)} \union ToSet(Tail(b))
      BY <2>3, HeadAndTail
    <2>5. \/ dirty' = dirty \ {Head(b)} /\ failed'[p] = f
          \/ dirty' = dirty /\ failed'[p] = Append(f, Head(b))
      BY <1>5, <2>2 DEF SpawnIngest
    <2>6. ToSet(Append(f, Head(b))) = ToSet(f) \union {Head(b)}
      BY <2>4, AppendOnce
    <2>7. Hands(p) = ToSet(b) \union ToSet(f)
      BY <2>2, <2>3 DEF Hands
    <2>8. Hands(p)' = ToSet(Tail(b)) \union ToSet(failed'[p])
      BY <2>3 DEF Hands
    <2>9. \A d \in dirty' : d \in dirty /\ (d \in Hands(p) => d \in Hands(p)')
      BY <2>4, <2>5, <2>6, <2>7, <2>8
    <2>10. UNCHANGED <<queue, dropped>>
      BY <1>5 DEF SpawnIngest
    <2>11. QED
      BY <2>1, <2>9, <2>10, OthersKeep
  <1>6. ASSUME NEW p \in Proc, SpawnExport(p)
        PROVE  NothingForgotten'
    <2>1. OthersSame(p)
      BY <1>6 DEF SpawnExport, Hands
    <2>2. failed[p] = <<>>
      BY <1>6 DEF TakenOnce, SpawnExport
    <2>3. Hands(p) = ToSet(batch[p])
      BY <1>6, <2>2, ShortLists DEF SpawnExport, Hands
    <2>4. \/ dirty' = dirty \ ToSet(batch[p])
          \/ dirty' = dirty /\ failed'[p] = batch[p]
      BY <1>6 DEF SpawnExport
    <2>5. failed'[p] = batch[p] => Hands(p) \subseteq Hands(p)'
      BY <2>3 DEF Hands
    <2>6. UNCHANGED <<queue, dropped>>
      BY <1>6 DEF SpawnExport
    <2>7. QED
      BY <2>1, <2>3, <2>4, <2>5, <2>6, OthersKeep
  <1>7. ASSUME NEW p \in Proc, Requeue(p)
        PROVE  NothingForgotten'
    <2>1. OthersSame(p)
      BY <1>7 DEF Requeue, Hands
    <2>2. ToSet(queue) \union ToSet(failed[p]) \union dropped \subseteq ToSet(queue') \union dropped'
      BY <1>7, PushKeepsTrack DEF Requeue, Once
    <2>3. Hands(p) = ToSet(failed[p])
      BY <1>7, ShortLists DEF Requeue, Hands, TakenOnce
    <2>4. UNCHANGED dirty
      BY <1>7 DEF Requeue
    <2>5. QED
      BY <2>1, <2>2, <2>3, <2>4, OthersKeep
  <1>8. ASSUME NEW p \in Proc, Crash(p) \/ UpdateFails(p)
        PROVE  NothingForgotten'
    <2>1. OthersSame(p)
      BY <1>8 DEF Crash, UpdateFails, GiveUp, Hands
    <2>2. /\ ToSet(queue) \union Hands(p) \union dropped \subseteq ToSet(queue)' \union dropped'
          /\ UNCHANGED dirty
      BY <1>8 DEF Crash, UpdateFails, GiveUp
    <2>3. QED
      BY <2>1, <2>2, OthersKeep
  <1>9. CASE UNCHANGED vars
    BY <1>9 DEF vars, hookVars, NothingForgotten, Hands
  <1>10. QED
    BY <1>1, <1>2, <1>3, <1>4, <1>5, <1>6, <1>7, <1>8, <1>9, StepCases

\* The invariant of the pending lists, for any number of hooks.
THEOREM QueueInvariant == Spec => []QueueInv
  <1>1. QueueInv /\ [Next]_vars => QueueInv'
    BY TypePreserved, TakenOncePreserved, NothingForgottenPreserved DEF QueueInv
  <1>2. QED
    BY InitInv, <1>1, PTL DEF Spec

\* Types hold, and a list never exceeds its cap or names a file twice: neither
\* when two hooks add to it nor when a batch is put back.
THEOREM QueueTypes == Spec => []QueueTypeOK
  <1>1. QueueInv => QueueTypeOK
    BY DEF QueueInv
  <1>2. QED
    BY QueueInvariant, <1>1, PTL

\* An edited file that nobody has handed on is in the list, in the hands of a
\* hook, or was dropped by the cap or a fault (pending.rs).
THEOREM NoEditForgotten == Spec => []NothingForgotten
  <1>1. QueueInv => NothingForgotten
    BY DEF QueueInv
  <1>2. QED
    BY QueueInvariant, <1>1, PTL
=============================================================================
