----------------------------- MODULE WaitsProofs -----------------------------
(***************************************************************************)
(* Proofs about FileLock, StateFile and Subprocess: the lock, for every    *)
(* set of processes, every choice of the timing constants that satisfies   *)
(* LockAssumption and any number of faults; the state file under it, which *)
(* until the first fault is an atomic document; and the commands, for any  *)
(* number of them run one after the other and every variant of waiting     *)
(* with a deadline.                                                        *)
(***************************************************************************)
EXTENDS StateFile, Subprocess, TLAPS

----------------------------------------------------------------------------
(* The lock *)

\* The ways the variables can move in one step of the lock protocol.
LEMMA StepCases ==
    ASSUME Next
    PROVE  \/ Tick
           \/ \E p \in Proc :
                \/ Call(p) \/ CreateNew(p) \/ AlreadyExists(p) \/ CreateFails(p)
                \/ JudgeStale(p) \/ JudgeFresh(p) \/ RemoveStale(p) \/ Sleep(p)
                \/ GiveUp(p) \/ WriteMetadata(p) \/ WriteFails(p)
                \/ Heartbeat(p) \/ HeartbeatFails(p)
                \/ StopHeartbeat(p) \/ TokenMatches(p) \/ TokenDiffers(p) \/ Unlink(p)
                \/ Crash(p) \/ Stall(p)
  BY DEF Next, Acquire, Beat, Drop, Fault

\* Before any process has called acquire the invariant holds.
LEMMA InitInv == Init => LockInv
  BY LockAssumption DEF Init, LockInv, TypeOK, AttemptInBounds, TokenPhase, FaultFree,
     OnTime, OwnAge, YoungVictim, Phase, Inside, Live, Holding, Hold, Timed

\* Types and the count of attempts are preserved by every step.
LEMMA TypePreserved ==
    ASSUME TypeOK, AttemptInBounds, Next
    PROVE  TypeOK' /\ AttemptInBounds'
  <1> USE LockAssumption DEF TypeOK, AttemptInBounds, Phase, Goto, RemoveFile, Older
  <1>1. CASE Tick
    BY <1>1 DEF Tick
  <1>2. ASSUME NEW p \in Proc,
               Call(p) \/ CreateNew(p) \/ AlreadyExists(p) \/ CreateFails(p)
        PROVE  TypeOK' /\ AttemptInBounds'
    BY <1>2 DEF Call, CreateNew, AlreadyExists, CreateFails
  <1>3. ASSUME NEW p \in Proc,
               JudgeStale(p) \/ JudgeFresh(p) \/ RemoveStale(p) \/ Sleep(p) \/ GiveUp(p)
        PROVE  TypeOK' /\ AttemptInBounds'
    BY <1>3 DEF JudgeStale, JudgeFresh, RemoveStale, Sleep, GiveUp
  <1>4. ASSUME NEW p \in Proc,
               \/ WriteMetadata(p) \/ WriteFails(p) \/ Heartbeat(p) \/ HeartbeatFails(p)
               \/ Crash(p) \/ Stall(p)
        PROVE  TypeOK' /\ AttemptInBounds'
    BY <1>4 DEF WriteMetadata, WriteFails, Heartbeat, HeartbeatFails, Crash, Stall
  <1>5. ASSUME NEW p \in Proc,
               StopHeartbeat(p) \/ TokenMatches(p) \/ TokenDiffers(p) \/ Unlink(p)
        PROVE  TypeOK' /\ AttemptInBounds'
    BY <1>5 DEF StopHeartbeat, TokenMatches, TokenDiffers, Unlink
  <1>6. QED
    BY <1>1, <1>2, <1>3, <1>4, <1>5, StepCases

\* The token at the path keeps naming a process inside, or one that died there.
LEMMA TokenPhasePreserved ==
    ASSUME LockInv, Next
    PROVE  TokenPhase'
  <1> USE LockAssumption DEF LockInv, TypeOK, Phase, Goto, RemoveFile, Older, Timed,
          TokenPhase, Inside
  <1>1. CASE Tick
    BY <1>1 DEF Tick, Overdue
  <1>2. ASSUME NEW p \in Proc,
               Call(p) \/ CreateNew(p) \/ AlreadyExists(p) \/ CreateFails(p)
        PROVE  TokenPhase'
    BY <1>2 DEF Call, CreateNew, AlreadyExists, CreateFails
  <1>3. ASSUME NEW p \in Proc,
               JudgeStale(p) \/ JudgeFresh(p) \/ RemoveStale(p) \/ Sleep(p) \/ GiveUp(p)
        PROVE  TokenPhase'
    BY <1>3 DEF JudgeStale, JudgeFresh, RemoveStale, Sleep, GiveUp
  <1>4. ASSUME NEW p \in Proc, WriteMetadata(p) \/ WriteFails(p)
        PROVE  TokenPhase'
    BY <1>4 DEF WriteMetadata, WriteFails
  <1>5. ASSUME NEW p \in Proc, Heartbeat(p) \/ HeartbeatFails(p)
        PROVE  TokenPhase'
    BY <1>5 DEF Heartbeat, HeartbeatFails
  <1>6. ASSUME NEW p \in Proc,
               StopHeartbeat(p) \/ TokenMatches(p) \/ TokenDiffers(p) \/ Unlink(p)
        PROVE  TokenPhase'
    BY <1>6 DEF StopHeartbeat, TokenMatches, TokenDiffers, Unlink
  <1>7. ASSUME NEW p \in Proc, Crash(p) \/ Stall(p)
        PROVE  TokenPhase'
    BY <1>7 DEF Crash, Stall
  <1>8. QED
    BY <1>1, <1>2, <1>3, <1>4, <1>5, <1>6, <1>7, StepCases

\* Before the first fault, ownership of the path is exclusive.
LEMMA FaultFreePreserved ==
    ASSUME LockInv, Next
    PROVE  FaultFree'
  <1> USE LockAssumption DEF LockInv, TypeOK, Phase, Goto, RemoveFile, Older, Timed,
          TokenPhase, FaultFree, OnTime, OwnAge, Inside, Live, Holding, Hold, IsStale
  <1>1. CASE Tick
    BY <1>1 DEF Tick, Overdue
  <1>2. ASSUME NEW p \in Proc,
               Call(p) \/ CreateNew(p) \/ AlreadyExists(p) \/ CreateFails(p)
        PROVE  FaultFree'
    BY <1>2 DEF Call, CreateNew, AlreadyExists, CreateFails
  <1>3. ASSUME NEW p \in Proc,
               JudgeStale(p) \/ JudgeFresh(p) \/ RemoveStale(p) \/ Sleep(p) \/ GiveUp(p)
        PROVE  FaultFree'
    BY <1>3 DEF JudgeStale, JudgeFresh, RemoveStale, Sleep, GiveUp
  <1>4. ASSUME NEW p \in Proc, WriteMetadata(p) \/ WriteFails(p)
        PROVE  FaultFree'
    BY <1>4 DEF WriteMetadata, WriteFails
  <1>5. ASSUME NEW p \in Proc, Heartbeat(p) \/ HeartbeatFails(p)
        PROVE  FaultFree'
    BY <1>5 DEF Heartbeat, HeartbeatFails
  <1>6. ASSUME NEW p \in Proc,
               StopHeartbeat(p) \/ TokenMatches(p) \/ TokenDiffers(p) \/ Unlink(p)
        PROVE  FaultFree'
    BY <1>6 DEF StopHeartbeat, TokenMatches, TokenDiffers, Unlink
  <1>7. ASSUME NEW p \in Proc, Crash(p) \/ Stall(p)
        PROVE  FaultFree'
    BY <1>7 DEF Crash, Stall
  <1>8. QED
    BY <1>1, <1>2, <1>3, <1>4, <1>5, <1>6, <1>7, StepCases

\* Time passes only while every live process is within its limits.
LEMMA OnTimePreserved ==
    ASSUME LockInv, Next
    PROVE  OnTime'
  <1> USE LockAssumption DEF LockInv, TypeOK, Phase, Goto, RemoveFile, Older, Timed,
          OnTime, TokenPhase, Inside, Live, Holding, Hold
  <1>1. CASE Tick
    BY <1>1 DEF Tick, Overdue
  <1>2. ASSUME NEW p \in Proc,
               Call(p) \/ CreateNew(p) \/ AlreadyExists(p) \/ CreateFails(p)
        PROVE  OnTime'
    BY <1>2 DEF Call, CreateNew, AlreadyExists, CreateFails
  <1>3. ASSUME NEW p \in Proc,
               JudgeStale(p) \/ JudgeFresh(p) \/ RemoveStale(p) \/ Sleep(p) \/ GiveUp(p)
        PROVE  OnTime'
    BY <1>3 DEF JudgeStale, JudgeFresh, RemoveStale, Sleep, GiveUp
  <1>4. ASSUME NEW p \in Proc, WriteMetadata(p) \/ WriteFails(p)
        PROVE  OnTime'
    BY <1>4 DEF WriteMetadata, WriteFails
  <1>5. ASSUME NEW p \in Proc, Heartbeat(p) \/ HeartbeatFails(p)
        PROVE  OnTime'
    BY <1>5 DEF Heartbeat, HeartbeatFails
  <1>6. ASSUME NEW p \in Proc,
               StopHeartbeat(p) \/ TokenMatches(p) \/ TokenDiffers(p) \/ Unlink(p)
        PROVE  OnTime'
    BY <1>6 DEF StopHeartbeat, TokenMatches, TokenDiffers, Unlink
  <1>7. ASSUME NEW p \in Proc, Crash(p) \/ Stall(p)
        PROVE  OnTime'
    BY <1>7 DEF Crash, Stall
  <1>8. QED
    BY <1>1, <1>2, <1>3, <1>4, <1>5, <1>6, <1>7, StepCases

\* The timestamp of a live owner ages no faster than its phase.
LEMMA OwnAgePreserved ==
    ASSUME LockInv, Next
    PROVE  OwnAge'
  <1> USE LockAssumption DEF LockInv, TypeOK, Phase, Goto, RemoveFile, Older, Timed,
          OwnAge, OnTime, TokenPhase, Inside, Live, Holding, Hold
  <1>1. CASE Tick
    BY <1>1 DEF Tick, Overdue
  <1>2. ASSUME NEW p \in Proc,
               Call(p) \/ CreateNew(p) \/ AlreadyExists(p) \/ CreateFails(p)
        PROVE  OwnAge'
    BY <1>2 DEF Call, CreateNew, AlreadyExists, CreateFails
  <1>3. ASSUME NEW p \in Proc,
               JudgeStale(p) \/ JudgeFresh(p) \/ RemoveStale(p) \/ Sleep(p) \/ GiveUp(p)
        PROVE  OwnAge'
    BY <1>3 DEF JudgeStale, JudgeFresh, RemoveStale, Sleep, GiveUp
  <1>4. ASSUME NEW p \in Proc, WriteMetadata(p) \/ WriteFails(p)
        PROVE  OwnAge'
    BY <1>4 DEF WriteMetadata, WriteFails
  <1>5. ASSUME NEW p \in Proc, Heartbeat(p) \/ HeartbeatFails(p)
        PROVE  OwnAge'
    BY <1>5 DEF Heartbeat, HeartbeatFails
  <1>6. ASSUME NEW p \in Proc,
               StopHeartbeat(p) \/ TokenMatches(p) \/ TokenDiffers(p) \/ Unlink(p)
        PROVE  OwnAge'
    BY <1>6 DEF StopHeartbeat, TokenMatches, TokenDiffers, Unlink
  <1>7. ASSUME NEW p \in Proc, Crash(p) \/ Stall(p)
        PROVE  OwnAge'
    BY <1>7 DEF Crash, Stall
  <1>8. QED
    BY <1>1, <1>2, <1>3, <1>4, <1>5, <1>6, <1>7, StepCases

\* A file that is in danger is younger than the decision to remove it.
LEMMA YoungVictimPreserved ==
    ASSUME LockInv, Next
    PROVE  YoungVictim'
  <1> USE LockAssumption DEF LockInv, TypeOK, Phase, Goto, RemoveFile, Older, Timed,
          YoungVictim, OwnAge, OnTime, TokenPhase, Inside, Live, Holding, Hold, IsStale
  <1>1. CASE Tick
    BY <1>1 DEF Tick, Overdue
  <1>2. ASSUME NEW p \in Proc,
               Call(p) \/ CreateNew(p) \/ AlreadyExists(p) \/ CreateFails(p)
        PROVE  YoungVictim'
    BY <1>2 DEF Call, CreateNew, AlreadyExists, CreateFails
  <1>3. ASSUME NEW p \in Proc,
               JudgeStale(p) \/ JudgeFresh(p) \/ RemoveStale(p) \/ Sleep(p) \/ GiveUp(p)
        PROVE  YoungVictim'
    BY <1>3 DEF JudgeStale, JudgeFresh, RemoveStale, Sleep, GiveUp
  <1>4. ASSUME NEW p \in Proc, WriteMetadata(p) \/ WriteFails(p)
        PROVE  YoungVictim'
    BY <1>4 DEF WriteMetadata, WriteFails
  <1>5. ASSUME NEW p \in Proc, Heartbeat(p) \/ HeartbeatFails(p)
        PROVE  YoungVictim'
    BY <1>5 DEF Heartbeat, HeartbeatFails
  <1>6. ASSUME NEW p \in Proc,
               StopHeartbeat(p) \/ TokenMatches(p) \/ TokenDiffers(p) \/ Unlink(p)
        PROVE  YoungVictim'
    BY <1>6 DEF StopHeartbeat, TokenMatches, TokenDiffers, Unlink
  <1>7. ASSUME NEW p \in Proc, Crash(p) \/ Stall(p)
        PROVE  YoungVictim'
    BY <1>7 DEF Crash, Stall
  <1>8. QED
    BY <1>1, <1>2, <1>3, <1>4, <1>5, <1>6, <1>7, StepCases

\* Every step, and every stuttering step, preserves the invariant.
LEMMA InvPreserved == LockInv /\ [Next]_vars => LockInv'
  <1>1. ASSUME LockInv, Next
        PROVE  LockInv'
    <2>1. TypeOK' /\ AttemptInBounds'
      BY <1>1, TypePreserved DEF LockInv
    <2>2. TokenPhase' /\ FaultFree' /\ OnTime'
      BY <1>1, TokenPhasePreserved, FaultFreePreserved, OnTimePreserved
    <2>3. OwnAge' /\ YoungVictim'
      BY <1>1, OwnAgePreserved, YoungVictimPreserved
    <2>4. QED
      BY <2>1, <2>2, <2>3 DEF LockInv
  <1>2. ASSUME LockInv, UNCHANGED vars
        PROVE  LockInv'
    BY <1>2 DEF vars, LockInv, TypeOK, AttemptInBounds, TokenPhase, FaultFree, OnTime,
       OwnAge, YoungVictim, Inside, Live, Holding, Hold
  <1>3. QED
    BY <1>1, <1>2

\* The inductive invariant of the lock protocol.
THEOREM LockInvariant == Spec => []LockInv
  BY InitInv, InvPreserved, PTL DEF Spec

\* The variables keep their types.
THEOREM LockTypes == Spec => []TypeOK
  <1>1. LockInv => TypeOK
    BY DEF LockInv
  <1>2. QED
    BY <1>1, LockInvariant, PTL

\* Operations under one lock path never overlap before the first fault: the
\* stale-lock recovery cannot misfire on a holder that keeps its timing.
THEOREM Exclusion == Spec => []ExclusiveWithoutFaults
  <1>1. LockInv => ExclusiveWithoutFaults
    BY DEF LockInv, FaultFree, ExclusiveWithoutFaults, MutualExclusion, Inside, Holding
  <1>2. QED
    BY <1>1, LockInvariant, PTL

\* A live owner is never judged stale, whatever happened to the others.
THEOREM NeverStale == Spec => []LiveLockNeverStale
  <1>1. ASSUME LockInv
        PROVE  LiveLockNeverStale
    <2> SUFFICES ASSUME lock \in Proc, Live(lock)
                 PROVE  age + Slack <= StaleAfter
      BY <1>1, LockAssumption DEF LiveLockNeverStale, IsStale, LockInv, TypeOK
    <2> USE <1>1 DEF LockInv, TypeOK, OnTime, OwnAge, TokenPhase, Inside, Live, Holding,
                     Hold, Timed
    <2>1. CASE pc[lock] = "write"
      BY <2>1, LockAssumption
    <2>2. CASE pc[lock] = "held"
      BY <2>2, LockAssumption
    <2>3. CASE pc[lock] \in {"verify", "unlink"}
      BY <2>3, LockAssumption
    <2>4. QED
      BY <2>1, <2>2, <2>3
  <1>2. QED
    BY <1>1, LockInvariant, PTL

\* The window in which a punctual process can take a live owner's file away
\* closes Slack after the file was stamped.
THEOREM Window == Spec => EvictionWindow
  <1> DEFINE Young ==
        \A p, q \in Proc :
          /\ p # q
          /\ lock = p /\ Live(p)
          /\ lock' # p
          /\ pc'[q] # pc[q] /\ q \notin late
          => age <= Slack
  <1>1. ASSUME LockInv, Next
        PROVE  Young
    <2> SUFFICES ASSUME NEW p \in Proc, NEW q \in Proc, p # q, lock = p, Live(p),
                        lock' # p, pc'[q] # pc[q], q \notin late
                 PROVE  age <= Slack
      OBVIOUS
    <2>1. pc[q] \in {"steal", "write", "unlink"}
      <3> USE <1>1 DEF LockInv, TypeOK, Goto, RemoveFile
      <3>1. CASE Tick
        BY <3>1 DEF Tick
      <3>2. ASSUME NEW r \in Proc,
                   Call(r) \/ CreateNew(r) \/ AlreadyExists(r) \/ CreateFails(r)
            PROVE  pc[q] \in {"steal", "write", "unlink"}
        BY <3>2, LockAssumption DEF Call, CreateNew, AlreadyExists, CreateFails
      <3>3. ASSUME NEW r \in Proc,
                   JudgeStale(r) \/ JudgeFresh(r) \/ RemoveStale(r) \/ Sleep(r) \/ GiveUp(r)
            PROVE  pc[q] \in {"steal", "write", "unlink"}
        BY <3>3 DEF JudgeStale, JudgeFresh, RemoveStale, Sleep, GiveUp
      <3>4. ASSUME NEW r \in Proc,
                   \/ WriteMetadata(r) \/ WriteFails(r) \/ Heartbeat(r)
                   \/ HeartbeatFails(r) \/ Crash(r) \/ Stall(r)
            PROVE  pc[q] \in {"steal", "write", "unlink"}
        BY <3>4 DEF WriteMetadata, WriteFails, Heartbeat, HeartbeatFails, Crash, Stall
      <3>5. ASSUME NEW r \in Proc,
                   StopHeartbeat(r) \/ TokenMatches(r) \/ TokenDiffers(r) \/ Unlink(r)
            PROVE  pc[q] \in {"steal", "write", "unlink"}
        BY <3>5 DEF StopHeartbeat, TokenMatches, TokenDiffers, Unlink
      <3>6. QED
        BY <3>1, <3>2, <3>3, <3>4, <3>5, StepCases
    <2>2. age <= spent[q]
      BY <1>1, <2>1 DEF LockInv, YoungVictim
    <2>3. spent[q] <= Slack
      BY <1>1, <2>1 DEF LockInv, OnTime, Live, Timed
    <2>4. QED
      BY <1>1, <2>2, <2>3, LockAssumption DEF LockInv, TypeOK
  <1>2. LockInv /\ [Next]_vars => [Young]_vars
    BY <1>1
  <1>3. QED
    BY <1>2, LockInvariant, PTL DEF Spec, EvictionWindow

----------------------------------------------------------------------------
(* The state file *)

\* A store step is a step of the lock or leaves the lock alone.
LEMMA LockRefined == StoreNext => [Next]_vars
  BY DEF StoreNext, Next, Acquire, Drop, Beat, Fault, Load, LoadFails, Save, SaveFails, RemoveDocument, Leave,
     LockStep, vars

\* Initially nobody has loaded anything.
LEMMA StoreInitInv == StoreInit => StoreInv
  BY InitInv, BoundAssumption DEF StoreInit, StoreInv, StoreTypeOK, LockInv, FreshCopy,
     StageUnderLock, Docs, Default, Init, Holding

\* The copies, the document and the stages keep their types.
LEMMA StoreTypePreserved ==
    ASSUME StoreInv, StoreNext
    PROVE  /\ file' \in Docs
           /\ buf' \in [Proc -> Docs]
           /\ stage' \in [Proc -> {"load", "save", "done"}]
           /\ blind' \subseteq Proc
           /\ \A p \in blind' : stage'[p] = "save"
  <1> DEFINE Typed == /\ file' \in Docs
                      /\ buf' \in [Proc -> Docs]
                      /\ stage' \in [Proc -> {"load", "save", "done"}]
                      /\ blind' \subseteq Proc
                      /\ \A p \in blind' : stage'[p] = "save"
  <1> USE BoundAssumption DEF StoreInv, StoreTypeOK
  <1>1. Default \in Docs
    BY DEF Default, Docs
  <1>2. ASSUME NEW p \in Proc,
               Load(p) \/ LoadFails(p) \/ SaveFails(p) \/ RemoveDocument(p) \/ Leave(p)
        PROVE  Typed
    BY <1>1, <1>2 DEF Load, LoadFails, SaveFails, RemoveDocument, Leave, UpdateReturns
  <1>3. ASSUME NEW p \in Proc, Save(p)
        PROVE  Typed
    <2>1. Mutate(buf[p], p) \in Docs
      BY <1>3 DEF Save, Mutate, Docs
    <2>2. QED
      BY <1>1, <1>3, <2>1 DEF Save, UpdateReturns
  <1>4. CASE UNCHANGED fileVars
    BY <1>4 DEF fileVars
  <1>5. QED
    BY <1>2, <1>3, <1>4 DEF StoreNext

\* No step changes the number of faults back to zero.
LEMMA FaultsGrow ==
    ASSUME LockInv, [Next]_vars, faults' = 0
    PROVE  faults = 0
  <1>1. CASE Tick
    BY <1>1 DEF Tick
  <1>2. ASSUME NEW p \in Proc,
               \/ HeartbeatFails(p) \/ Crash(p) \/ Stall(p)
               \/ RemoveStale(p) \/ WriteFails(p) \/ Unlink(p)
        PROVE  faults = 0
    BY <1>2 DEF HeartbeatFails, Crash, Stall, RemoveStale, WriteFails, Unlink, RemoveFile,
       LockInv, TypeOK
  <1>3. ASSUME NEW p \in Proc,
               \/ Call(p) \/ CreateNew(p) \/ AlreadyExists(p) \/ CreateFails(p)
               \/ JudgeStale(p) \/ JudgeFresh(p) \/ Sleep(p) \/ GiveUp(p)
               \/ WriteMetadata(p) \/ Heartbeat(p)
               \/ StopHeartbeat(p) \/ TokenMatches(p) \/ TokenDiffers(p)
        PROVE  faults = 0
    BY <1>3 DEF Call, CreateNew, AlreadyExists, CreateFails, JudgeStale, JudgeFresh,
       Sleep, GiveUp, WriteMetadata, Heartbeat, StopHeartbeat, TokenMatches, TokenDiffers
  <1>4. CASE UNCHANGED vars
    BY <1>4 DEF vars
  <1>5. QED
    BY <1>1, <1>2, <1>3, <1>4, StepCases

\* The steps between the acquisition of the guard and its drop.
StoreStep(p) ==
    Load(p) \/ LoadFails(p) \/ Save(p) \/ SaveFails(p) \/ RemoveDocument(p) \/ Leave(p)

\* Operations begin and end with the guard.
LEMMA StagePreserved ==
    ASSUME StoreInv, StoreNext
    PROVE  StageUnderLock'
  <1> USE DEF StoreInv, StoreTypeOK, StageUnderLock, LockInv, TypeOK, Goto, RemoveFile,
              UpdateReturns, fileVars, vars, Holding
  <1>1. CASE Tick /\ UNCHANGED fileVars
    BY <1>1 DEF Tick
  <1>2. ASSUME NEW p \in Proc, StoreStep(p)
        PROVE  StageUnderLock'
    BY <1>2 DEF StoreStep, Load, LoadFails, Save, SaveFails, RemoveDocument, Leave, StopHeartbeat
  <1>3. ASSUME NEW p \in Proc, LockStep(p), UNCHANGED fileVars
        PROVE  StageUnderLock'
    BY <1>3 DEF LockStep, Beat, Fault, Call, CreateNew, AlreadyExists, CreateFails,
       JudgeStale, JudgeFresh, RemoveStale, Sleep, GiveUp, WriteMetadata, WriteFails,
       Heartbeat, HeartbeatFails, TokenMatches, TokenDiffers, Unlink, Crash, Stall
  <1>4. QED
    BY <1>1, <1>2, <1>3 DEF StoreNext, StoreStep

\* p still holds the guard and the copy it has read or made up.
CopyKept(p) ==
    /\ Holding(p) /\ stage[p] = "save" /\ buf'[p] = buf[p]
    /\ p \in blind' <=> p \in blind

\* Whoever holds a copy after a step either has just loaded it or held it, with
\* the guard, before.
LEMMA CopyOrigin ==
    ASSUME StoreInv, StoreNext, NEW q \in Proc, Holding(q)', stage'[q] = "save"
    PROVE  Load(q) \/ LoadFails(q) \/ CopyKept(q)
  <1> USE DEF StoreInv, StoreTypeOK, StageUnderLock, LockInv, TypeOK, Goto, RemoveFile,
              UpdateReturns, fileVars, vars, Holding, CopyKept
  <1>1. CASE Tick /\ UNCHANGED fileVars
    BY <1>1 DEF Tick
  <1>2. ASSUME NEW p \in Proc, StoreStep(p)
        PROVE  Load(q) \/ LoadFails(q) \/ CopyKept(q)
    BY <1>2 DEF StoreStep, Load, LoadFails, Save, SaveFails, RemoveDocument, Leave, StopHeartbeat
  <1>3. ASSUME NEW p \in Proc, LockStep(p), UNCHANGED fileVars
        PROVE  Load(q) \/ LoadFails(q) \/ CopyKept(q)
    BY <1>3 DEF LockStep, Beat, Fault, Call, CreateNew, AlreadyExists, CreateFails,
       JudgeStale, JudgeFresh, RemoveStale, Sleep, GiveUp, WriteMetadata, WriteFails,
       Heartbeat, HeartbeatFails, TokenMatches, TokenDiffers, Unlink, Crash, Stall
  <1>4. QED
    BY <1>1, <1>2, <1>3 DEF StoreNext, StoreStep

\* The document changes only in the hands of a holder that ends its operation.
LEMMA WriterHolds ==
    ASSUME StoreNext, file' # file
    PROVE  \E r \in Proc : Holding(r) /\ (Save(r) \/ RemoveDocument(r))
  BY DEF StoreNext, Load, LoadFails, Save, SaveFails, RemoveDocument, Leave, fileVars

\* Nobody changes the document behind the back of a process that has loaded it.
LEMMA FreshCopyPreserved ==
    ASSUME StoreInv, StoreNext
    PROVE  FreshCopy'
  <1> SUFFICES ASSUME faults' = 0, NEW q \in Proc, Holding(q)', stage'[q] = "save"
               PROVE  buf'[q] = IF q \in blind' THEN Default ELSE file'
    BY DEF FreshCopy, Holding
  <1>1. faults = 0
    BY FaultsGrow, LockRefined DEF StoreInv
  <1>2. CASE Load(q)
    BY <1>2 DEF Load, StoreInv, StoreTypeOK
  <1>5. CASE LoadFails(q)
    BY <1>5 DEF LoadFails, StoreInv, StoreTypeOK
  <1>3. CASE CopyKept(q)
    <2>1. buf[q] = IF q \in blind THEN Default ELSE file
      BY <1>1, <1>3 DEF StoreInv, FreshCopy, CopyKept
    <2>2. ASSUME NEW r \in Proc, Holding(r), Save(r) \/ RemoveDocument(r)
          PROVE  FALSE
      <3>1. r = q
        BY <1>1, <1>3, <2>2 DEF StoreInv, LockInv, FaultFree, Inside, Holding, CopyKept
      <3>2. stage'[q] = "done"
        BY <2>2, <3>1 DEF Save, RemoveDocument, UpdateReturns, StoreInv, StoreTypeOK
      <3>3. QED
        BY <3>2
    <2>3. QED
      BY <1>3, <2>1, <2>2, WriterHolds DEF CopyKept
  <1>4. QED
    BY <1>2, <1>3, <1>5, CopyOrigin

\* The invariant of the composition.
LEMMA StoreInvPreserved == StoreInv /\ [StoreNext]_storeVars => StoreInv'
  <1>1. ASSUME StoreInv, StoreNext
        PROVE  StoreInv'
    <2>1. LockInv'
      BY <1>1, LockRefined, InvPreserved DEF StoreInv
    <2>2. QED
      BY <1>1, <2>1, StoreTypePreserved, StagePreserved, FreshCopyPreserved
         DEF StoreInv, StoreTypeOK, LockInv
  <1>2. ASSUME StoreInv, UNCHANGED storeVars
        PROVE  StoreInv'
    <2>1. UNCHANGED vars
      BY <1>2 DEF storeVars, vars
    <2>2. LockInv'
      BY <1>2, <2>1, InvPreserved DEF StoreInv
    <2>3. QED
      BY <1>2, <2>2 DEF storeVars, StoreInv, StoreTypeOK, LockInv, StageUnderLock, FreshCopy,
         Holding
  <1>3. QED
    BY <1>1, <1>2

\* Every reachable state of a state file under its lock satisfies the invariant.
THEOREM StoreInvariant == StoreSpec => []StoreInv
  BY StoreInitInv, StoreInvPreserved, PTL DEF StoreSpec

\* Until a fault, a process about to save holds the latest document, or the
\* default when it could not read the latest.
THEOREM CopiesStayFresh == StoreSpec => []FreshCopy
  <1>1. StoreInv => FreshCopy
    BY DEF StoreInv
  <1>2. QED
    BY <1>1, StoreInvariant, PTL

\* How the processes whose read has failed change: by their own operations.
LEMMA BlindChanges ==
    ASSUME StoreInv, StoreNext, blind' # blind
    PROVE  /\ UNCHANGED vars
           /\ \E p \in Proc : \/ LoadFails(p)
                             \/ Save(p) \/ SaveFails(p) \/ RemoveDocument(p)
  BY DEF StoreNext, Load, LoadFails, Save, SaveFails, RemoveDocument, Leave, fileVars, UpdateReturns

\* A save, before the first fault, adds to the latest document, or replaces it
\* by a new one when this process could not read it.
LEMMA SaveRefined ==
    ASSUME StoreInv, NEW p \in Proc, faults = 0, Save(p)
    PROVE  Abstract!Update(p) \/ Abstract!UpdateAfresh(p)
  <1>1. Holding(p) /\ stage[p] = "save" /\ UNCHANGED vars /\ blind' = blind \ {p}
    BY DEF Save, UpdateReturns
  <1>2. buf[p] = IF p \in blind THEN Default ELSE file
    BY <1>1 DEF StoreInv, FreshCopy
  <1>3. /\ (faults > 0) = FALSE /\ (faults' > 0) = FALSE
    BY <1>1 DEF vars
  <1>4. file' = Mutate(buf[p], p) /\ buf[p][p] < MaxUpdates
    BY DEF Save
  <1>5. CASE p \in blind
    BY <1>1, <1>2, <1>3, <1>4, <1>5
       DEF Abstract!UpdateAfresh, Mutate, Abstract!Mutate, Default, Abstract!Default
  <1>6. CASE p \notin blind
    BY <1>1, <1>2, <1>3, <1>4, <1>6 DEF Abstract!Update, Mutate, Abstract!Mutate
  <1>7. QED
    BY <1>5, <1>6

\* update_json_file and remove_file_with_lock implement the atomic document.
THEOREM StoreImplementsAtomic == StoreSpec => ImplementsAtomicStore
  <1>1. StoreInit => Abstract!Init
    BY DEF StoreInit, Init, Abstract!Init, Default, Abstract!Default
  <1>2. StoreInv /\ StoreInv' /\ [StoreNext]_storeVars
          => [Abstract!Next]_<<file, blind, faults > 0>>
    <2> SUFFICES ASSUME StoreInv, StoreInv', StoreNext, ~UNCHANGED <<file, blind, faults > 0>>
                 PROVE  Abstract!Next
      BY DEF storeVars
    <2> USE DEF Abstract!Next, Abstract!Docs, Docs, Abstract!Default, Default
    <2>1. /\ file' \in Docs /\ blind' \subseteq Proc
          /\ faults \in Nat /\ faults' \in Nat
      BY LockAssumption DEF StoreInv, StoreTypeOK, LockInv, TypeOK
    <2>2. CASE faults > 0
      <3>1. faults' > 0
        BY <2>1, <2>2, FaultsGrow, LockRefined DEF StoreInv
      <3>2. QED
        BY <2>1, <2>2, <3>1 DEF Abstract!AnyVersion
    <2>3. ASSUME faults = 0, file' # file
          PROVE  Abstract!Next
      <3>1. PICK p \in Proc : Save(p) \/ RemoveDocument(p)
        BY <2>3, WriterHolds
      <3>2. CASE Save(p)
        BY <2>3, <3>2, SaveRefined
      <3>3. CASE RemoveDocument(p)
        <4>1. /\ (faults > 0) = FALSE /\ (faults' > 0) = FALSE
              /\ stage[p] = "load" /\ file' = Default /\ blind' = blind \ {p}
          BY <2>3, <3>3 DEF RemoveDocument, UpdateReturns, vars
        <4>2. blind' = blind
          BY <4>1 DEF StoreInv, StoreTypeOK
        <4>3. QED
          BY <4>1, <4>2 DEF Abstract!Clear
      <3>4. QED
        BY <3>1, <3>2, <3>3
    <2>4. ASSUME faults = 0, file' = file, blind' # blind
          PROVE  Abstract!Next
      <3>1. PICK p \in Proc : LoadFails(p) \/ Save(p) \/ SaveFails(p) \/ RemoveDocument(p)
        BY <2>4, BlindChanges
      <3>2. (faults > 0) = FALSE /\ (faults' > 0) = FALSE
        BY <2>4, BlindChanges DEF vars
      <3>3. CASE LoadFails(p)
        BY <2>4, <3>2, <3>3 DEF LoadFails, Abstract!Misread
      <3>4. CASE Save(p)
        BY <2>4, <3>4, SaveRefined
      <3>5. CASE SaveFails(p) \/ RemoveDocument(p)
        <4>1. blind' = blind \ {p}
          BY <3>5 DEF SaveFails, RemoveDocument, UpdateReturns
        <4>2. QED
          BY <2>4, <3>2, <4>1 DEF Abstract!GiveUp
      <3>6. QED
        BY <3>1, <3>3, <3>4, <3>5
    <2>5. CASE faults = 0 /\ file' = file /\ blind' = blind
      <3>1. (faults' > 0) = TRUE
        BY <2>1, <2>5
      <3>2. QED
        BY <2>5, <3>1 DEF Abstract!Break
    <2>6. QED
      BY <2>1, <2>2, <2>3, <2>4, <2>5
  <1>3. QED
    BY <1>1, <1>2, StoreInvariant, PTL DEF StoreSpec, ImplementsAtomicStore, Abstract!Spec

----------------------------------------------------------------------------
(* The commands *)

\* Nothing has been spawned, answered or merged yet.
LEMMA CommandInitInv == CommandInit => SubprocessInv
  BY SubprocessAssumption DEF CommandInit, SubprocessInv, SubprocessTypeOK, InTurn, HandleAlive,
     WatchedHook, KillsOwnChild, FailOpen, NoStrayHook, Command, Output, DefaultOutput

\* What the calling thread does keeps the invariant.
LEMMA CallerInv ==
    ASSUME SubprocessInv, Caller \/ Feed \/ FeedFails
    PROVE  SubprocessInv'
  <1> USE SubprocessAssumption DEF SubprocessInv, SubprocessTypeOK, InTurn, HandleAlive,
          WatchedHook, KillsOwnChild, FailOpen, NoStrayHook, Command, threads, answers
  <1>1. CASE Spawn
    <2>1. SubprocessTypeOK'
      BY <1>1 DEF Spawn
    <2>2. InTurn'
      BY <1>1 DEF Spawn
    <2>3. HandleAlive'
      BY <1>1 DEF Spawn
    <2>4. WatchedHook'
      BY <1>1 DEF Spawn
    <2>5. KillsOwnChild'
      BY <1>1 DEF Spawn
    <2>6. FailOpen'
      BY <1>1 DEF Spawn
    <2>7. NoStrayHook'
      BY <1>1 DEF Spawn
    <2> QED BY <2>1, <2>2, <2>3, <2>4, <2>5, <2>6, <2>7 DEF SubprocessInv
  <1>2. CASE SpawnFails
    BY <1>2 DEF SpawnFails, Return
  <1>3. CASE Feed
    <2>1. SubprocessTypeOK' /\ InTurn'
      <3> HIDE DEF FailOpen, NoStrayHook, WatchedHook, KillsOwnChild
      <3> QED BY <1>3 DEF Feed
    <2>2. HandleAlive' /\ WatchedHook' /\ KillsOwnChild'
      BY <1>3 DEF Feed
    <2>3. FailOpen' /\ NoStrayHook'
      BY <1>3 DEF Feed
    <2> QED BY <2>1, <2>2, <2>3 DEF SubprocessInv
  <1>10. CASE Expire
    BY <1>10 DEF Expire
  <1>4. CASE FeedFails
    <2>1. SubprocessTypeOK'
      BY <1>4 DEF FeedFails, Return
    <2>2. InTurn'
      BY <1>4 DEF FeedFails, Return
    <2>3. HandleAlive'
      BY <1>4 DEF FeedFails, Return
    <2>4. WatchedHook'
      BY <1>4 DEF FeedFails, Return
    <2>5. KillsOwnChild'
      BY <1>4 DEF FeedFails, Return
    <2>6. FailOpen'
      BY <1>4 DEF FeedFails, Return
    <2>7. NoStrayHook'
      BY <1>4 DEF FeedFails, Return
    <2> QED BY <2>1, <2>2, <2>3, <2>4, <2>5, <2>6, <2>7 DEF SubprocessInv
  <1>5. CASE Receive
    <2>1. SubprocessTypeOK' /\ InTurn'
      <3> HIDE DEF FailOpen, NoStrayHook, WatchedHook, KillsOwnChild
      <3> QED BY <1>5 DEF Receive, Return, Merge, Output
    <2>4. HandleAlive' /\ WatchedHook' /\ KillsOwnChild'
      BY <1>5 DEF Receive, Return, Merge
    <2>2. FailOpen'
      BY <1>5 DEF Receive, Return, Merge, Output
    <2>3. NoStrayHook'
      BY <1>5 DEF Receive, Return
    <2> QED BY <2>1, <2>2, <2>3, <2>4 DEF SubprocessInv
  <1>6. CASE ReceiveError
    BY <1>6 DEF ReceiveError, Return
  <1>7. CASE TimeOut
    BY <1>7 DEF TimeOut, Return
  <1>8. CASE LockAfterTimeout
    <2>1. SubprocessTypeOK'
      <3> HIDE DEF FailOpen, NoStrayHook, WatchedHook, KillsOwnChild
      <3> QED BY <1>8 DEF LockAfterTimeout, Return
    <2>2. InTurn'
      BY <1>8 DEF LockAfterTimeout, Return
    <2>3. HandleAlive'
      BY <1>8 DEF LockAfterTimeout, Return
    <2>4. WatchedHook'
      BY <1>8 DEF LockAfterTimeout, Return
    <2>5. KillsOwnChild'
      BY <1>8 DEF LockAfterTimeout, Return
    <2>6. FailOpen'
      BY <1>8 DEF LockAfterTimeout, Return
    <2>7. NoStrayHook'
      BY <1>8 DEF LockAfterTimeout, Return
    <2> QED BY <2>1, <2>2, <2>3, <2>4, <2>5, <2>6, <2>7 DEF SubprocessInv
  <1>9. CASE Kill
    BY <1>9 DEF Kill, Return
  <1> QED BY <1>1, <1>2, <1>3, <1>4, <1>5, <1>6, <1>7, <1>8, <1>9, <1>10 DEF Caller

\* What a worker thread or a child does keeps the invariant.
LEMMA WorkerInv ==
    ASSUME SubprocessInv, NEW c \in Command, Worker(c) \/ ChildExits(c)
    PROVE  SubprocessInv'
  <1> USE SubprocessAssumption DEF SubprocessInv, SubprocessTypeOK, InTurn, HandleAlive,
          WatchedHook, KillsOwnChild, FailOpen, NoStrayHook, Command, threads, answers
  <1>1. CASE WorkerStarts(c)
    <2>1. SubprocessTypeOK'
      BY <1>1 DEF WorkerStarts
    <2>2. InTurn'
      BY <1>1 DEF WorkerStarts
    <2>3. HandleAlive'
      BY <1>1 DEF WorkerStarts
    <2>4. WatchedHook'
      BY <1>1 DEF WorkerStarts
    <2>5. KillsOwnChild'
      BY <1>1 DEF WorkerStarts
    <2>6. FailOpen'
      BY <1>1 DEF WorkerStarts
    <2>7. NoStrayHook'
      BY <1>1 DEF WorkerStarts
    <2> QED BY <2>1, <2>2, <2>3, <2>4, <2>5, <2>6, <2>7 DEF SubprocessInv
  <1>2. CASE WorkerTakes(c)
    <2>1. SubprocessTypeOK'
      <3> HIDE DEF FailOpen, NoStrayHook, WatchedHook, KillsOwnChild
      <3>1. UNCHANGED <<kind, cur, main, child, asks, expired, verdict, merged>>
        BY <1>2 DEF WorkerTakes
      <3>2. /\ worker' \in [Command -> {"none", "starting", "waiting", "done"}]
            /\ handle' \in [Command -> {"none", "shared", "worker", "main"}]
        <4> HIDE DEF Command, InTurn, HandleAlive
        <4>1. CASE handle[c] = "shared"
          BY <1>2, <4>1 DEF WorkerTakes
        <4>2. CASE handle[c] # "shared"
          BY <1>2, <4>2 DEF WorkerTakes
        <4> QED BY <4>1, <4>2
      <3>3. /\ mutex' \in [Command -> {"free", "worker"}]
            /\ chan' \in [Command -> {"empty", "output", "error"}]
        BY <1>2 DEF WorkerTakes
      <3>4. main = "kill" => handle'[cur] = "main"
        BY <1>2 DEF WorkerTakes, Free
      <3>5. \A d \in Command : worker'[d] = "waiting" => handle'[d] = "worker"
        BY <1>2 DEF WorkerTakes
      <3> QED BY <3>1, <3>2, <3>3, <3>4, <3>5
    <2>2. InTurn'
      BY <1>2 DEF WorkerTakes, Free
    <2>3. HandleAlive'
      BY <1>2 DEF WorkerTakes, Free
    <2>4. WatchedHook'
      BY <1>2 DEF WorkerTakes, Free
    <2>5. KillsOwnChild'
      BY <1>2 DEF WorkerTakes, Free
    <2>6. FailOpen'
      BY <1>2 DEF WorkerTakes, Free
    <2>7. NoStrayHook'
      BY <1>2 DEF WorkerTakes, Free
    <2> QED BY <2>1, <2>2, <2>3, <2>4, <2>5, <2>6, <2>7 DEF SubprocessInv
  <1>3. CASE WorkerLocks(c)
    <2>1. SubprocessTypeOK'
      <3> HIDE DEF FailOpen, NoStrayHook, WatchedHook, KillsOwnChild
      <3>1. UNCHANGED <<kind, cur, main, child, asks, expired, verdict, merged>>
        BY <1>3 DEF WorkerLocks
      <3>2. /\ worker' \in [Command -> {"none", "starting", "waiting", "done"}]
            /\ handle' \in [Command -> {"none", "shared", "worker", "main"}]
        <4> HIDE DEF Command, InTurn, HandleAlive
        <4>1. CASE handle[c] = "shared"
          BY <1>3, <4>1 DEF WorkerLocks
        <4>2. CASE handle[c] # "shared"
          BY <1>3, <4>2 DEF WorkerLocks
        <4> QED BY <4>1, <4>2
      <3>3. /\ mutex' \in [Command -> {"free", "worker"}]
            /\ chan' \in [Command -> {"empty", "output", "error"}]
        BY <1>3 DEF WorkerLocks
      <3>4. main = "kill" => handle'[cur] = "main"
        BY <1>3 DEF WorkerLocks, Free
      <3>5. \A d \in Command : worker'[d] = "waiting" => handle'[d] = "worker"
        BY <1>3 DEF WorkerLocks
      <3> QED BY <3>1, <3>2, <3>3, <3>4, <3>5
    <2>2. InTurn'
      BY <1>3 DEF WorkerLocks, Free
    <2>3. HandleAlive'
      BY <1>3 DEF WorkerLocks, Free
    <2>4. WatchedHook'
      BY <1>3 DEF WorkerLocks, Free
    <2>5. KillsOwnChild'
      BY <1>3 DEF WorkerLocks, Free
    <2>6. FailOpen'
      BY <1>3 DEF WorkerLocks, Free
    <2>7. NoStrayHook'
      BY <1>3 DEF WorkerLocks, Free
    <2> QED BY <2>1, <2>2, <2>3, <2>4, <2>5, <2>6, <2>7 DEF SubprocessInv
  <1>4. CASE WorkerReaps(c)
    BY <1>4 DEF WorkerReaps
  <1>5. CASE ChildExits(c)
    BY <1>5 DEF ChildExits
  <1> QED BY <1>1, <1>2, <1>3, <1>4, <1>5 DEF Worker

LEMMA StepInv == SubprocessInv /\ [CommandNext]_commandVars => SubprocessInv'
  <1> SUFFICES ASSUME SubprocessInv, [CommandNext]_commandVars PROVE SubprocessInv'
    OBVIOUS
  <1>1. CASE CommandNext
    BY <1>1, CallerInv, WorkerInv DEF CommandNext
  <1>2. CASE UNCHANGED commandVars
    BY <1>2 DEF commandVars, threads, answers, SubprocessInv, SubprocessTypeOK, InTurn, HandleAlive,
       WatchedHook, KillsOwnChild, FailOpen, NoStrayHook
  <1> QED BY <1>1, <1>2

\* The inductive invariant holds of every reachable state.
THEOREM SubprocessInvariant == CommandSpec => []SubprocessInv
  BY CommandInitInv, StepInv, PTL DEF CommandSpec

\* Every variable keeps its type, and whoever waits for a child has its handle.
THEOREM SubprocessTypes == CommandSpec => []SubprocessTypeOK
  <1>1. SubprocessInv => SubprocessTypeOK BY DEF SubprocessInv
  <1> QED BY <1>1, SubprocessInvariant, PTL

\* The caller never kills a child that the worker waits for or has reaped.
THEOREM OwnChildOnly == CommandSpec => []KillsOwnChild
  <1>1. SubprocessInv => KillsOwnChild BY DEF SubprocessInv
  <1> QED BY <1>1, SubprocessInvariant, PTL

\* Only hooks that answered in time are merged, and all of them are.
THEOREM FailsOpen == CommandSpec => []FailOpen
  <1>1. SubprocessInv => FailOpen BY DEF SubprocessInv
  <1> QED BY <1>1, SubprocessInvariant, PTL

\* A hook that execute_hook is done with does not run any more.
THEOREM NoHookLeft == CommandSpec => []NoStrayHook
  <1>1. SubprocessInv => NoStrayHook BY DEF SubprocessInv
  <1> QED BY <1>1, SubprocessInvariant, PTL
=============================================================================
