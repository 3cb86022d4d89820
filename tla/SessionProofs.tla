--------------------------- MODULE SessionProofs ---------------------------
(***************************************************************************)
(* Proofs about Session, for every set of hook processes, every set of     *)
(* session ids, both builds, both modes and any combination of failures.   *)
(***************************************************************************)
EXTENDS Session, TLAPS

\* The ways a step can be taken.
LEMMA StepCases ==
    ASSUME Next
    PROVE  \/ \E p \in Proc :
                \/ Call(p) \/ Enter(p) \/ LockTimesOut(p) \/ Leave(p) \/ Exit(p)
                \/ LoadExisting(p) \/ Match(p) \/ NoMatch(p) \/ StatusFails(p) \/ Refresh(p)
                \/ StartHyphae(p) \/ StartFails(p) \/ CreateRow(p) \/ Publish(p)
                \/ EndLoad(p) \/ RemoveState(p) \/ MarkOrphaned(p) \/ SpawnEnd(p)
                \/ Confirm(p) \/ JoinTimesOut(p) \/ RunTimesOut(p)
                \/ EndCommand(p) \/ FileFails(p) \/ Crash(p)
                \/ LoadUnread(p) \/ PublishUnread(p)
           \/ \E s \in Id : DetachedCommand(s) \/ Expire(s)
           \/ Evict
  BY DEF Next, Hook, Ensure, Start, End, Failure

\* The state files an earlier release may leave behind satisfy the invariant.
LEMMA InitInv == Init => SessionInv
  BY SessionAssumption DEF Init, SessionInv, SessionTypeOK, KnownIds, Unpublished,
     ConfirmedCommand, CleanMeansEnded, JudgedInactive, WhoIsBlind, MarkedBeforeRun,
     DefinedDuringWrite, Undisturbed, WaitedFor, EndsAlone, Ending, EverySessionAccounted, Phase,
     EnsurePhases, EndPhases

\* Types are preserved by every step.
LEMMA TypePreserved ==
    ASSUME SessionInv, Next
    PROVE  SessionTypeOK'
  <1> USE SessionAssumption DEF SessionInv, SessionTypeOK, WaitedFor, Phase, EnsurePhases, EndPhases,
          Goto, Forget, Return, Abandon, Mishap, SetRow, Replace, disk, locals, ends, KnownIds
  <1>1. ASSUME NEW p \in Proc, Call(p) \/ Enter(p) \/ LockTimesOut(p) \/ Leave(p) \/ Exit(p)
        PROVE  SessionTypeOK'
    BY <1>1 DEF Call, Enter, LockTimesOut, Leave, Exit
  <1>2. ASSUME NEW p \in Proc, LoadExisting(p) \/ Match(p) \/ NoMatch(p) \/ StatusFails(p) \/ Refresh(p)
        PROVE  SessionTypeOK'
    BY <1>2 DEF LoadExisting, Match, NoMatch, StatusFails, Refresh
  <1>3. ASSUME NEW p \in Proc, StartHyphae(p) \/ StartFails(p)
        PROVE  SessionTypeOK'
    BY <1>3 DEF StartHyphae, StartFails
  <1>4. ASSUME NEW p \in Proc, CreateRow(p)
        PROVE  SessionTypeOK'
    BY <1>4 DEF CreateRow
  <1>5. ASSUME NEW p \in Proc, Publish(p)
        PROVE  SessionTypeOK'
    BY <1>5 DEF Publish
  <1>6. ASSUME NEW p \in Proc, EndLoad(p) \/ RemoveState(p)
        PROVE  SessionTypeOK'
    BY <1>6 DEF EndLoad, RemoveState
  <1>7. ASSUME NEW p \in Proc, MarkOrphaned(p) \/ SpawnEnd(p)
        PROVE  SessionTypeOK'
    BY <1>7 DEF MarkOrphaned, SpawnEnd
  <1>8. ASSUME NEW p \in Proc, Confirm(p)
        PROVE  SessionTypeOK'
    BY <1>8 DEF Confirm
  <1>9. ASSUME NEW p \in Proc, JoinTimesOut(p) \/ RunTimesOut(p)
        PROVE  SessionTypeOK'
    BY <1>9 DEF JoinTimesOut, RunTimesOut
  <1>10. ASSUME NEW p \in Proc, EndCommand(p)
        PROVE  SessionTypeOK'
    BY <1>10 DEF EndCommand
  <1>11. ASSUME NEW p \in Proc, FileFails(p) \/ Crash(p) \/ LoadUnread(p) \/ PublishUnread(p)
        PROVE  SessionTypeOK'
    BY <1>11 DEF FileFails, Crash, LoadUnread, PublishUnread
  <1>12. ASSUME NEW s \in Id, DetachedCommand(s) \/ Expire(s)
        PROVE  SessionTypeOK'
    BY <1>12 DEF DetachedCommand, Expire
  <1>13. CASE Evict
    BY <1>13 DEF Evict
  <1>14. QED
    BY <1>1, <1>2, <1>3, <1>4, <1>5, <1>6, <1>7, <1>8, <1>9, <1>10, <1>11, <1>12, <1>13, StepCases

\* Only ids that hyphae has handed out are read, started or published.
LEMMA KnownIdsPreserved ==
    ASSUME SessionInv, Next
    PROVE  KnownIds'
  <1> USE SessionAssumption DEF SessionInv, SessionTypeOK, Phase, EnsurePhases, EndPhases,
          Goto, Forget, Return, Abandon, Mishap, SetRow, Replace, disk, locals, ends, KnownIds
  <1>1. ASSUME NEW p \in Proc, Call(p) \/ Enter(p) \/ LockTimesOut(p) \/ Leave(p) \/ Exit(p)
        PROVE  KnownIds'
    BY <1>1 DEF Call, Enter, LockTimesOut, Leave, Exit
  <1>2. ASSUME NEW p \in Proc, LoadExisting(p) \/ Match(p) \/ NoMatch(p) \/ StatusFails(p) \/ Refresh(p)
        PROVE  KnownIds'
    BY <1>2 DEF LoadExisting, Match, NoMatch, StatusFails, Refresh
  <1>3. ASSUME NEW p \in Proc, StartHyphae(p) \/ StartFails(p)
        PROVE  KnownIds'
    BY <1>3 DEF StartHyphae, StartFails
  <1>4. ASSUME NEW p \in Proc, CreateRow(p)
        PROVE  KnownIds'
    BY <1>4 DEF CreateRow
  <1>5. ASSUME NEW p \in Proc, Publish(p)
        PROVE  KnownIds'
    BY <1>5 DEF Publish
  <1>6. ASSUME NEW p \in Proc, EndLoad(p) \/ RemoveState(p)
        PROVE  KnownIds'
    BY <1>6 DEF EndLoad, RemoveState
  <1>7. ASSUME NEW p \in Proc, MarkOrphaned(p) \/ SpawnEnd(p)
        PROVE  KnownIds'
    BY <1>7 DEF MarkOrphaned, SpawnEnd
  <1>8. ASSUME NEW p \in Proc, Confirm(p)
        PROVE  KnownIds'
    BY <1>8 DEF Confirm
  <1>9. ASSUME NEW p \in Proc, JoinTimesOut(p) \/ RunTimesOut(p)
        PROVE  KnownIds'
    BY <1>9 DEF JoinTimesOut, RunTimesOut
  <1>10. ASSUME NEW p \in Proc, EndCommand(p)
        PROVE  KnownIds'
    BY <1>10 DEF EndCommand
  <1>11. ASSUME NEW p \in Proc, FileFails(p) \/ Crash(p) \/ LoadUnread(p) \/ PublishUnread(p)
        PROVE  KnownIds'
    BY <1>11 DEF FileFails, Crash, LoadUnread, PublishUnread
  <1>12. ASSUME NEW s \in Id, DetachedCommand(s) \/ Expire(s)
        PROVE  KnownIds'
    BY <1>12 DEF DetachedCommand, Expire
  <1>13. CASE Evict
    BY <1>13 DEF Evict
  <1>14. QED
    BY <1>1, <1>2, <1>3, <1>4, <1>5, <1>6, <1>7, <1>8, <1>9, <1>10, <1>11, <1>12, <1>13, StepCases

\* A fresh id is fresh because every id in use is known to hyphae.
LEMMA UnpublishedPreserved ==
    ASSUME SessionInv, Next
    PROVE  Unpublished'
  <1> USE SessionAssumption DEF SessionInv, SessionTypeOK, Phase, EnsurePhases, EndPhases,
          Goto, Forget, Return, Abandon, Mishap, SetRow, Replace, disk, locals, ends, KnownIds, Unpublished
  <1>1. ASSUME NEW p \in Proc, Call(p) \/ Enter(p) \/ LockTimesOut(p) \/ Leave(p) \/ Exit(p)
        PROVE  Unpublished'
    BY <1>1 DEF Call, Enter, LockTimesOut, Leave, Exit
  <1>2. ASSUME NEW p \in Proc, LoadExisting(p) \/ Match(p) \/ NoMatch(p) \/ StatusFails(p) \/ Refresh(p)
        PROVE  Unpublished'
    BY <1>2 DEF LoadExisting, Match, NoMatch, StatusFails, Refresh
  <1>3. ASSUME NEW p \in Proc, StartHyphae(p) \/ StartFails(p)
        PROVE  Unpublished'
    BY <1>3 DEF StartHyphae, StartFails
  <1>4. ASSUME NEW p \in Proc, CreateRow(p)
        PROVE  Unpublished'
    BY <1>4 DEF CreateRow
  <1>5. ASSUME NEW p \in Proc, Publish(p)
        PROVE  Unpublished'
    BY <1>5 DEF Publish
  <1>6. ASSUME NEW p \in Proc, EndLoad(p) \/ RemoveState(p)
        PROVE  Unpublished'
    BY <1>6 DEF EndLoad, RemoveState
  <1>7. ASSUME NEW p \in Proc, MarkOrphaned(p) \/ SpawnEnd(p)
        PROVE  Unpublished'
    BY <1>7 DEF MarkOrphaned, SpawnEnd
  <1>8. ASSUME NEW p \in Proc, Confirm(p)
        PROVE  Unpublished'
    BY <1>8 DEF Confirm
  <1>9. ASSUME NEW p \in Proc, JoinTimesOut(p) \/ RunTimesOut(p)
        PROVE  Unpublished'
    BY <1>9 DEF JoinTimesOut, RunTimesOut
  <1>10. ASSUME NEW p \in Proc, EndCommand(p)
        PROVE  Unpublished'
    BY <1>10 DEF EndCommand
  <1>11. ASSUME NEW p \in Proc, FileFails(p) \/ Crash(p) \/ LoadUnread(p) \/ PublishUnread(p)
        PROVE  Unpublished'
    BY <1>11 DEF FileFails, Crash, LoadUnread, PublishUnread
  <1>12. ASSUME NEW s \in Id, DetachedCommand(s) \/ Expire(s)
        PROVE  Unpublished'
    BY <1>12 DEF DetachedCommand, Expire
  <1>13. CASE Evict
    BY <1>13 DEF Evict
  <1>14. QED
    BY <1>1, <1>2, <1>3, <1>4, <1>5, <1>6, <1>7, <1>8, <1>9, <1>10, <1>11, <1>12, <1>13, StepCases

\* A command that succeeded has ended its session for good.
LEMMA ConfirmedCommandPreserved ==
    ASSUME SessionInv, Next
    PROVE  ConfirmedCommand'
  <1> USE SessionAssumption DEF SessionInv, SessionTypeOK, Phase, EnsurePhases, EndPhases,
          Goto, Forget, Return, Abandon, Mishap, SetRow, Replace, disk, locals, ends, WaitedFor, KnownIds, ConfirmedCommand
  <1>1. ASSUME NEW p \in Proc, Call(p) \/ Enter(p) \/ LockTimesOut(p) \/ Leave(p) \/ Exit(p)
        PROVE  ConfirmedCommand'
    BY <1>1 DEF Call, Enter, LockTimesOut, Leave, Exit
  <1>2. ASSUME NEW p \in Proc, LoadExisting(p) \/ Match(p) \/ NoMatch(p) \/ StatusFails(p) \/ Refresh(p)
        PROVE  ConfirmedCommand'
    BY <1>2 DEF LoadExisting, Match, NoMatch, StatusFails, Refresh
  <1>3. ASSUME NEW p \in Proc, StartHyphae(p) \/ StartFails(p)
        PROVE  ConfirmedCommand'
    BY <1>3 DEF StartHyphae, StartFails
  <1>4. ASSUME NEW p \in Proc, CreateRow(p)
        PROVE  ConfirmedCommand'
    BY <1>4 DEF CreateRow
  <1>5. ASSUME NEW p \in Proc, Publish(p)
        PROVE  ConfirmedCommand'
    BY <1>5 DEF Publish
  <1>6. ASSUME NEW p \in Proc, EndLoad(p) \/ RemoveState(p)
        PROVE  ConfirmedCommand'
    BY <1>6 DEF EndLoad, RemoveState
  <1>7. ASSUME NEW p \in Proc, MarkOrphaned(p) \/ SpawnEnd(p)
        PROVE  ConfirmedCommand'
    BY <1>7 DEF MarkOrphaned, SpawnEnd
  <1>8. ASSUME NEW p \in Proc, Confirm(p)
        PROVE  ConfirmedCommand'
    BY <1>8 DEF Confirm
  <1>9. ASSUME NEW p \in Proc, JoinTimesOut(p) \/ RunTimesOut(p)
        PROVE  ConfirmedCommand'
    BY <1>9 DEF JoinTimesOut, RunTimesOut
  <1>10. ASSUME NEW p \in Proc, EndCommand(p)
        PROVE  ConfirmedCommand'
    BY <1>10 DEF EndCommand
  <1>11. ASSUME NEW p \in Proc, FileFails(p) \/ Crash(p) \/ LoadUnread(p) \/ PublishUnread(p)
        PROVE  ConfirmedCommand'
    BY <1>11 DEF FileFails, Crash, LoadUnread, PublishUnread
  <1>12. ASSUME NEW s \in Id, DetachedCommand(s) \/ Expire(s)
        PROVE  ConfirmedCommand'
    BY <1>12 DEF DetachedCommand, Expire
  <1>13. CASE Evict
    BY <1>13 DEF Evict
  <1>14. QED
    BY <1>1, <1>2, <1>3, <1>4, <1>5, <1>6, <1>7, <1>8, <1>9, <1>10, <1>11, <1>12, <1>13, StepCases

\* Only a command that succeeded leads to an ended row.
LEMMA CleanPreserved ==
    ASSUME SessionInv, Next
    PROVE  CleanMeansEnded'
  <1> USE SessionAssumption DEF SessionInv, SessionTypeOK, Phase, EnsurePhases, EndPhases,
          Goto, Forget, Return, Abandon, Mishap, SetRow, Replace, disk, locals, ends, KnownIds, ConfirmedCommand, CleanMeansEnded
  <1>1. ASSUME NEW p \in Proc, Call(p) \/ Enter(p) \/ LockTimesOut(p) \/ Leave(p) \/ Exit(p)
        PROVE  CleanMeansEnded'
    BY <1>1 DEF Call, Enter, LockTimesOut, Leave, Exit
  <1>2. ASSUME NEW p \in Proc, LoadExisting(p) \/ Match(p) \/ NoMatch(p) \/ StatusFails(p) \/ Refresh(p)
        PROVE  CleanMeansEnded'
    BY <1>2 DEF LoadExisting, Match, NoMatch, StatusFails, Refresh
  <1>3. ASSUME NEW p \in Proc, StartHyphae(p) \/ StartFails(p)
        PROVE  CleanMeansEnded'
    BY <1>3 DEF StartHyphae, StartFails
  <1>4. ASSUME NEW p \in Proc, CreateRow(p)
        PROVE  CleanMeansEnded'
    BY <1>4 DEF CreateRow
  <1>5. ASSUME NEW p \in Proc, Publish(p)
        PROVE  CleanMeansEnded'
    BY <1>5 DEF Publish
  <1>6. ASSUME NEW p \in Proc, EndLoad(p) \/ RemoveState(p)
        PROVE  CleanMeansEnded'
    BY <1>6 DEF EndLoad, RemoveState
  <1>7. ASSUME NEW p \in Proc, MarkOrphaned(p) \/ SpawnEnd(p)
        PROVE  CleanMeansEnded'
    BY <1>7 DEF MarkOrphaned, SpawnEnd
  <1>8. ASSUME NEW p \in Proc, Confirm(p)
        PROVE  CleanMeansEnded'
    BY <1>8 DEF Confirm
  <1>9. ASSUME NEW p \in Proc, JoinTimesOut(p) \/ RunTimesOut(p)
        PROVE  CleanMeansEnded'
    BY <1>9 DEF JoinTimesOut, RunTimesOut
  <1>10. ASSUME NEW p \in Proc, EndCommand(p)
        PROVE  CleanMeansEnded'
    BY <1>10 DEF EndCommand
  <1>11. ASSUME NEW p \in Proc, FileFails(p) \/ Crash(p) \/ LoadUnread(p) \/ PublishUnread(p)
        PROVE  CleanMeansEnded'
    BY <1>11 DEF FileFails, Crash, LoadUnread, PublishUnread
  <1>12. ASSUME NEW s \in Id, DetachedCommand(s) \/ Expire(s)
        PROVE  CleanMeansEnded'
    BY <1>12 DEF DetachedCommand, Expire
  <1>13. CASE Evict
    BY <1>13 DEF Evict
  <1>14. QED
    BY <1>1, <1>2, <1>3, <1>4, <1>5, <1>6, <1>7, <1>8, <1>9, <1>10, <1>11, <1>12, <1>13, StepCases

\* Without a failure, only the release build goes on without an answer.
LEMMA WhoIsBlindPreserved ==
    ASSUME SessionInv, Next
    PROVE  WhoIsBlind'
  <1> USE SessionAssumption DEF SessionInv, SessionTypeOK, Phase, EnsurePhases, EndPhases,
          Goto, Forget, Return, Abandon, Mishap, SetRow, Replace, disk, locals, ends, KnownIds, WhoIsBlind
  <1>1. ASSUME NEW p \in Proc, Call(p) \/ Enter(p) \/ LockTimesOut(p) \/ Leave(p) \/ Exit(p)
        PROVE  WhoIsBlind'
    BY <1>1 DEF Call, Enter, LockTimesOut, Leave, Exit
  <1>2. ASSUME NEW p \in Proc, LoadExisting(p) \/ Match(p) \/ NoMatch(p) \/ StatusFails(p) \/ Refresh(p)
        PROVE  WhoIsBlind'
    BY <1>2 DEF LoadExisting, Match, NoMatch, StatusFails, Refresh
  <1>3. ASSUME NEW p \in Proc, StartHyphae(p) \/ StartFails(p)
        PROVE  WhoIsBlind'
    BY <1>3 DEF StartHyphae, StartFails
  <1>4. ASSUME NEW p \in Proc, CreateRow(p)
        PROVE  WhoIsBlind'
    BY <1>4 DEF CreateRow
  <1>5. ASSUME NEW p \in Proc, Publish(p)
        PROVE  WhoIsBlind'
    BY <1>5 DEF Publish
  <1>6. ASSUME NEW p \in Proc, EndLoad(p) \/ RemoveState(p)
        PROVE  WhoIsBlind'
    BY <1>6 DEF EndLoad, RemoveState
  <1>7. ASSUME NEW p \in Proc, MarkOrphaned(p) \/ SpawnEnd(p)
        PROVE  WhoIsBlind'
    BY <1>7 DEF MarkOrphaned, SpawnEnd
  <1>8. ASSUME NEW p \in Proc, Confirm(p)
        PROVE  WhoIsBlind'
    BY <1>8 DEF Confirm
  <1>9. ASSUME NEW p \in Proc, JoinTimesOut(p) \/ RunTimesOut(p)
        PROVE  WhoIsBlind'
    BY <1>9 DEF JoinTimesOut, RunTimesOut
  <1>10. ASSUME NEW p \in Proc, EndCommand(p)
        PROVE  WhoIsBlind'
    BY <1>10 DEF EndCommand
  <1>11. ASSUME NEW p \in Proc, FileFails(p) \/ Crash(p) \/ LoadUnread(p) \/ PublishUnread(p)
        PROVE  WhoIsBlind'
    BY <1>11 DEF FileFails, Crash, LoadUnread, PublishUnread
  <1>12. ASSUME NEW s \in Id, DetachedCommand(s) \/ Expire(s)
        PROVE  WhoIsBlind'
    BY <1>12 DEF DetachedCommand, Expire
  <1>13. CASE Evict
    BY <1>13 DEF Evict
  <1>14. QED
    BY <1>1, <1>2, <1>3, <1>4, <1>5, <1>6, <1>7, <1>8, <1>9, <1>10, <1>11, <1>12, <1>13, StepCases

\* A session found inactive stays so: only unused ids become active.
LEMMA JudgedInactivePreserved ==
    ASSUME SessionInv, Next
    PROVE  JudgedInactive'
  <1> USE SessionAssumption DEF SessionInv, SessionTypeOK, Phase, EnsurePhases, EndPhases,
          Goto, Forget, Return, Abandon, Mishap, SetRow, Replace, disk, locals, ends, KnownIds, WhoIsBlind, JudgedInactive
  <1>1. ASSUME NEW p \in Proc, Call(p) \/ Enter(p) \/ LockTimesOut(p) \/ Leave(p) \/ Exit(p)
        PROVE  JudgedInactive'
    BY <1>1 DEF Call, Enter, LockTimesOut, Leave, Exit
  <1>2. ASSUME NEW p \in Proc, LoadExisting(p) \/ Match(p) \/ NoMatch(p) \/ StatusFails(p) \/ Refresh(p)
        PROVE  JudgedInactive'
    BY <1>2 DEF LoadExisting, Match, NoMatch, StatusFails, Refresh
  <1>3. ASSUME NEW p \in Proc, StartHyphae(p) \/ StartFails(p)
        PROVE  JudgedInactive'
    BY <1>3 DEF StartHyphae, StartFails
  <1>4. ASSUME NEW p \in Proc, CreateRow(p)
        PROVE  JudgedInactive'
    BY <1>4 DEF CreateRow
  <1>5. ASSUME NEW p \in Proc, Publish(p)
        PROVE  JudgedInactive'
    BY <1>5 DEF Publish
  <1>6. ASSUME NEW p \in Proc, EndLoad(p) \/ RemoveState(p)
        PROVE  JudgedInactive'
    BY <1>6 DEF EndLoad, RemoveState
  <1>7. ASSUME NEW p \in Proc, MarkOrphaned(p) \/ SpawnEnd(p)
        PROVE  JudgedInactive'
    BY <1>7 DEF MarkOrphaned, SpawnEnd
  <1>8. ASSUME NEW p \in Proc, Confirm(p)
        PROVE  JudgedInactive'
    BY <1>8 DEF Confirm
  <1>9. ASSUME NEW p \in Proc, JoinTimesOut(p) \/ RunTimesOut(p)
        PROVE  JudgedInactive'
    BY <1>9 DEF JoinTimesOut, RunTimesOut
  <1>10. ASSUME NEW p \in Proc, EndCommand(p)
        PROVE  JudgedInactive'
    BY <1>10 DEF EndCommand
  <1>11. ASSUME NEW p \in Proc, FileFails(p) \/ Crash(p) \/ LoadUnread(p) \/ PublishUnread(p)
        PROVE  JudgedInactive'
    BY <1>11 DEF FileFails, Crash, LoadUnread, PublishUnread
  <1>12. ASSUME NEW s \in Id, DetachedCommand(s) \/ Expire(s)
        PROVE  JudgedInactive'
    BY <1>12 DEF DetachedCommand, Expire
  <1>13. CASE Evict
    BY <1>13 DEF Evict
  <1>14. QED
    BY <1>1, <1>2, <1>3, <1>4, <1>5, <1>6, <1>7, <1>8, <1>9, <1>10, <1>11, <1>12, <1>13, StepCases

\* The row is marked before the command runs; only a fresh row becomes active.
LEMMA MarkedPreserved ==
    ASSUME SessionInv, Next
    PROVE  MarkedBeforeRun'
  <1> USE SessionAssumption DEF SessionInv, SessionTypeOK, Phase, EnsurePhases, EndPhases,
          Goto, Forget, Return, Abandon, Mishap, SetRow, Replace, disk, locals, ends, WaitedFor, KnownIds, Unpublished, MarkedBeforeRun
  <1>1. ASSUME NEW p \in Proc, Call(p) \/ Enter(p) \/ LockTimesOut(p) \/ Leave(p) \/ Exit(p)
        PROVE  MarkedBeforeRun'
    BY <1>1 DEF Call, Enter, LockTimesOut, Leave, Exit
  <1>2. ASSUME NEW p \in Proc, LoadExisting(p) \/ Match(p) \/ NoMatch(p) \/ StatusFails(p) \/ Refresh(p)
        PROVE  MarkedBeforeRun'
    BY <1>2 DEF LoadExisting, Match, NoMatch, StatusFails, Refresh
  <1>3. ASSUME NEW p \in Proc, StartHyphae(p) \/ StartFails(p)
        PROVE  MarkedBeforeRun'
    BY <1>3 DEF StartHyphae, StartFails
  <1>4. ASSUME NEW p \in Proc, CreateRow(p)
        PROVE  MarkedBeforeRun'
    BY <1>4 DEF CreateRow
  <1>5. ASSUME NEW p \in Proc, Publish(p)
        PROVE  MarkedBeforeRun'
    BY <1>5 DEF Publish
  <1>6. ASSUME NEW p \in Proc, EndLoad(p) \/ RemoveState(p)
        PROVE  MarkedBeforeRun'
    BY <1>6 DEF EndLoad, RemoveState
  <1>7. ASSUME NEW p \in Proc, MarkOrphaned(p) \/ SpawnEnd(p)
        PROVE  MarkedBeforeRun'
    BY <1>7 DEF MarkOrphaned, SpawnEnd
  <1>8. ASSUME NEW p \in Proc, Confirm(p)
        PROVE  MarkedBeforeRun'
    BY <1>8 DEF Confirm
  <1>9. ASSUME NEW p \in Proc, JoinTimesOut(p) \/ RunTimesOut(p)
        PROVE  MarkedBeforeRun'
    BY <1>9 DEF JoinTimesOut, RunTimesOut
  <1>10. ASSUME NEW p \in Proc, EndCommand(p)
        PROVE  MarkedBeforeRun'
    BY <1>10 DEF EndCommand
  <1>11. ASSUME NEW p \in Proc, FileFails(p) \/ Crash(p) \/ LoadUnread(p) \/ PublishUnread(p)
        PROVE  MarkedBeforeRun'
    BY <1>11 DEF FileFails, Crash, LoadUnread, PublishUnread
  <1>12. ASSUME NEW s \in Id, DetachedCommand(s) \/ Expire(s)
        PROVE  MarkedBeforeRun'
    BY <1>12 DEF DetachedCommand, Expire
  <1>13. CASE Evict
    BY <1>13 DEF Evict
  <1>14. QED
    BY <1>1, <1>2, <1>3, <1>4, <1>5, <1>6, <1>7, <1>8, <1>9, <1>10, <1>11, <1>12, <1>13, StepCases

\* No later step makes the row of a session that is being ended active again.
LEMMA DefinedPreserved ==
    ASSUME SessionInv, Next
    PROVE  DefinedDuringWrite'
  <1> USE SessionAssumption DEF SessionInv, SessionTypeOK, Phase, EnsurePhases, EndPhases,
          Goto, Forget, Return, Abandon, Mishap, SetRow, Replace, disk, locals, ends, WaitedFor, KnownIds, Unpublished, MarkedBeforeRun, DefinedDuringWrite
  <1>1. ASSUME NEW p \in Proc, Call(p) \/ Enter(p) \/ LockTimesOut(p) \/ Leave(p) \/ Exit(p)
        PROVE  DefinedDuringWrite'
    BY <1>1 DEF Call, Enter, LockTimesOut, Leave, Exit
  <1>2. ASSUME NEW p \in Proc, LoadExisting(p) \/ Match(p) \/ NoMatch(p) \/ StatusFails(p) \/ Refresh(p)
        PROVE  DefinedDuringWrite'
    BY <1>2 DEF LoadExisting, Match, NoMatch, StatusFails, Refresh
  <1>3. ASSUME NEW p \in Proc, StartHyphae(p) \/ StartFails(p)
        PROVE  DefinedDuringWrite'
    BY <1>3 DEF StartHyphae, StartFails
  <1>4. ASSUME NEW p \in Proc, CreateRow(p)
        PROVE  DefinedDuringWrite'
    BY <1>4 DEF CreateRow
  <1>5. ASSUME NEW p \in Proc, Publish(p)
        PROVE  DefinedDuringWrite'
    BY <1>5 DEF Publish
  <1>6. ASSUME NEW p \in Proc, EndLoad(p) \/ RemoveState(p)
        PROVE  DefinedDuringWrite'
    BY <1>6 DEF EndLoad, RemoveState
  <1>7. ASSUME NEW p \in Proc, MarkOrphaned(p) \/ SpawnEnd(p)
        PROVE  DefinedDuringWrite'
    BY <1>7 DEF MarkOrphaned, SpawnEnd
  <1>8. ASSUME NEW p \in Proc, Confirm(p)
        PROVE  DefinedDuringWrite'
    BY <1>8 DEF Confirm
  <1>9. ASSUME NEW p \in Proc, JoinTimesOut(p) \/ RunTimesOut(p)
        PROVE  DefinedDuringWrite'
    BY <1>9 DEF JoinTimesOut, RunTimesOut
  <1>10. ASSUME NEW p \in Proc, EndCommand(p)
        PROVE  DefinedDuringWrite'
    BY <1>10 DEF EndCommand
  <1>11. ASSUME NEW p \in Proc, FileFails(p) \/ Crash(p) \/ LoadUnread(p) \/ PublishUnread(p)
        PROVE  DefinedDuringWrite'
    BY <1>11 DEF FileFails, Crash, LoadUnread, PublishUnread
  <1>12. ASSUME NEW s \in Id, DetachedCommand(s) \/ Expire(s)
        PROVE  DefinedDuringWrite'
    BY <1>12 DEF DetachedCommand, Expire
  <1>13. CASE Evict
    BY <1>13 DEF Evict
  <1>14. QED
    BY <1>1, <1>2, <1>3, <1>4, <1>5, <1>6, <1>7, <1>8, <1>9, <1>10, <1>11, <1>12, <1>13, StepCases

\* Before the first failure only the owner of the lock is inside.
LEMMA UndisturbedPreserved ==
    ASSUME SessionInv, Next
    PROVE  Undisturbed'
  <1> USE SessionAssumption DEF SessionInv, SessionTypeOK, Phase, EnsurePhases, EndPhases,
          Goto, Forget, Return, Abandon, Mishap, SetRow, Replace, disk, locals, ends, WaitedFor, Undisturbed
  <1>1. ASSUME NEW p \in Proc, Call(p) \/ Enter(p) \/ LockTimesOut(p) \/ Leave(p) \/ Exit(p)
        PROVE  Undisturbed'
    BY <1>1 DEF Call, Enter, LockTimesOut, Leave, Exit
  <1>2. ASSUME NEW p \in Proc, LoadExisting(p) \/ Match(p) \/ NoMatch(p) \/ StatusFails(p) \/ Refresh(p)
        PROVE  Undisturbed'
    BY <1>2 DEF LoadExisting, Match, NoMatch, StatusFails, Refresh
  <1>3. ASSUME NEW p \in Proc, StartHyphae(p) \/ StartFails(p)
        PROVE  Undisturbed'
    BY <1>3 DEF StartHyphae, StartFails
  <1>4. ASSUME NEW p \in Proc, CreateRow(p)
        PROVE  Undisturbed'
    BY <1>4 DEF CreateRow
  <1>5. ASSUME NEW p \in Proc, Publish(p)
        PROVE  Undisturbed'
    BY <1>5 DEF Publish
  <1>6. ASSUME NEW p \in Proc, EndLoad(p) \/ RemoveState(p)
        PROVE  Undisturbed'
    BY <1>6 DEF EndLoad, RemoveState
  <1>7. ASSUME NEW p \in Proc, MarkOrphaned(p) \/ SpawnEnd(p)
        PROVE  Undisturbed'
    BY <1>7 DEF MarkOrphaned, SpawnEnd
  <1>8. ASSUME NEW p \in Proc, Confirm(p)
        PROVE  Undisturbed'
    BY <1>8 DEF Confirm
  <1>9. ASSUME NEW p \in Proc, JoinTimesOut(p) \/ RunTimesOut(p)
        PROVE  Undisturbed'
    BY <1>9 DEF JoinTimesOut, RunTimesOut
  <1>10. ASSUME NEW p \in Proc, EndCommand(p)
        PROVE  Undisturbed'
    BY <1>10 DEF EndCommand
  <1>11. ASSUME NEW p \in Proc, FileFails(p) \/ Crash(p) \/ LoadUnread(p) \/ PublishUnread(p)
        PROVE  Undisturbed'
    BY <1>11 DEF FileFails, Crash, LoadUnread, PublishUnread
  <1>12. ASSUME NEW s \in Id, DetachedCommand(s) \/ Expire(s)
        PROVE  Undisturbed'
    BY <1>12 DEF DetachedCommand, Expire
  <1>13. CASE Evict
    BY <1>13 DEF Evict
  <1>14. QED
    BY <1>1, <1>2, <1>3, <1>4, <1>5, <1>6, <1>7, <1>8, <1>9, <1>10, <1>11, <1>12, <1>13, StepCases

\* A synchronous end abandons its command before it returns.
LEMMA WaitedForPreserved ==
    ASSUME SessionInv, Next
    PROVE  WaitedFor'
  <1> USE SessionAssumption DEF SessionInv, SessionTypeOK, Phase, EnsurePhases, EndPhases,
          Goto, Forget, Return, Abandon, Mishap, SetRow, Replace, disk, locals, ends, WaitedFor
  <1>1. ASSUME NEW p \in Proc, Call(p) \/ Enter(p) \/ LockTimesOut(p) \/ Leave(p) \/ Exit(p)
        PROVE  WaitedFor'
    BY <1>1 DEF Call, Enter, LockTimesOut, Leave, Exit
  <1>2. ASSUME NEW p \in Proc, LoadExisting(p) \/ Match(p) \/ NoMatch(p) \/ StatusFails(p) \/ Refresh(p)
        PROVE  WaitedFor'
    BY <1>2 DEF LoadExisting, Match, NoMatch, StatusFails, Refresh
  <1>3. ASSUME NEW p \in Proc, StartHyphae(p) \/ StartFails(p)
        PROVE  WaitedFor'
    BY <1>3 DEF StartHyphae, StartFails
  <1>4. ASSUME NEW p \in Proc, CreateRow(p)
        PROVE  WaitedFor'
    BY <1>4 DEF CreateRow
  <1>5. ASSUME NEW p \in Proc, Publish(p)
        PROVE  WaitedFor'
    BY <1>5 DEF Publish
  <1>6. ASSUME NEW p \in Proc, EndLoad(p) \/ RemoveState(p)
        PROVE  WaitedFor'
    BY <1>6 DEF EndLoad, RemoveState
  <1>7. ASSUME NEW p \in Proc, MarkOrphaned(p) \/ SpawnEnd(p)
        PROVE  WaitedFor'
    BY <1>7 DEF MarkOrphaned, SpawnEnd
  <1>8. ASSUME NEW p \in Proc, Confirm(p)
        PROVE  WaitedFor'
    BY <1>8 DEF Confirm
  <1>9. ASSUME NEW p \in Proc, JoinTimesOut(p) \/ RunTimesOut(p)
        PROVE  WaitedFor'
    BY <1>9 DEF JoinTimesOut, RunTimesOut
  <1>10. ASSUME NEW p \in Proc, EndCommand(p)
        PROVE  WaitedFor'
    BY <1>10 DEF EndCommand
  <1>11. ASSUME NEW p \in Proc, FileFails(p) \/ Crash(p) \/ LoadUnread(p) \/ PublishUnread(p)
        PROVE  WaitedFor'
    BY <1>11 DEF FileFails, Crash, LoadUnread, PublishUnread
  <1>12. ASSUME NEW s \in Id, DetachedCommand(s) \/ Expire(s)
        PROVE  WaitedFor'
    BY <1>12 DEF DetachedCommand, Expire
  <1>13. CASE Evict
    BY <1>13 DEF Evict
  <1>14. QED
    BY <1>1, <1>2, <1>3, <1>4, <1>5, <1>6, <1>7, <1>8, <1>9, <1>10, <1>11, <1>12, <1>13, StepCases

\* A session leaves the state file before its end begins, and for good.
LEMMA EndsAlonePreserved ==
    ASSUME SessionInv, Next
    PROVE  EndsAlone'
  <1> USE SessionAssumption DEF SessionInv, SessionTypeOK, Phase, EnsurePhases, EndPhases,
          Goto, Forget, Return, Abandon, Mishap, SetRow, Replace, disk, locals, ends, KnownIds, Unpublished, Undisturbed,
          WaitedFor, EndsAlone, Ending
  <1>1. ASSUME NEW p \in Proc, Call(p) \/ Enter(p) \/ LockTimesOut(p) \/ Leave(p) \/ Exit(p)
        PROVE  EndsAlone'
    BY <1>1 DEF Call, Enter, LockTimesOut, Leave, Exit
  <1>2. ASSUME NEW p \in Proc, LoadExisting(p) \/ Match(p) \/ NoMatch(p) \/ StatusFails(p) \/ Refresh(p)
        PROVE  EndsAlone'
    BY <1>2 DEF LoadExisting, Match, NoMatch, StatusFails, Refresh
  <1>3. ASSUME NEW p \in Proc, StartHyphae(p) \/ StartFails(p)
        PROVE  EndsAlone'
    BY <1>3 DEF StartHyphae, StartFails
  <1>4. ASSUME NEW p \in Proc, CreateRow(p)
        PROVE  EndsAlone'
    BY <1>4 DEF CreateRow
  <1>5. ASSUME NEW p \in Proc, Publish(p)
        PROVE  EndsAlone'
    BY <1>5 DEF Publish
  <1>6. ASSUME NEW p \in Proc, EndLoad(p) \/ RemoveState(p)
        PROVE  EndsAlone'
    BY <1>6 DEF EndLoad, RemoveState
  <1>7. ASSUME NEW p \in Proc, MarkOrphaned(p) \/ SpawnEnd(p)
        PROVE  EndsAlone'
    BY <1>7 DEF MarkOrphaned, SpawnEnd
  <1>8. ASSUME NEW p \in Proc, Confirm(p)
        PROVE  EndsAlone'
    BY <1>8 DEF Confirm
  <1>9. ASSUME NEW p \in Proc, JoinTimesOut(p) \/ RunTimesOut(p)
        PROVE  EndsAlone'
    BY <1>9 DEF JoinTimesOut, RunTimesOut
  <1>10. ASSUME NEW p \in Proc, EndCommand(p)
        PROVE  EndsAlone'
    BY <1>10 DEF EndCommand
  <1>11. ASSUME NEW p \in Proc, FileFails(p) \/ Crash(p) \/ LoadUnread(p) \/ PublishUnread(p)
        PROVE  EndsAlone'
    BY <1>11 DEF FileFails, Crash, LoadUnread, PublishUnread
  <1>12. ASSUME NEW s \in Id, DetachedCommand(s) \/ Expire(s)
        PROVE  EndsAlone'
    BY <1>12 DEF DetachedCommand, Expire
  <1>13. CASE Evict
    BY <1>13 DEF Evict
  <1>14. QED
    BY <1>1, <1>2, <1>3, <1>4, <1>5, <1>6, <1>7, <1>8, <1>9, <1>10, <1>11, <1>12, <1>13, StepCases

\* No step before the first failure lets a running session slip away.
LEMMA AccountedPreserved ==
    ASSUME SessionInv, Next
    PROVE  EverySessionAccounted'
  <1> USE SessionAssumption DEF SessionInv, SessionTypeOK, Phase, EnsurePhases, EndPhases,
          Goto, Forget, Return, Abandon, Mishap, SetRow, Replace, disk, locals, ends, KnownIds, Unpublished, ConfirmedCommand, CleanMeansEnded, JudgedInactive, WhoIsBlind,
          DefinedDuringWrite, Undisturbed, WaitedFor, EverySessionAccounted
  <1>1. ASSUME NEW p \in Proc, Call(p) \/ Enter(p) \/ LockTimesOut(p) \/ Leave(p) \/ Exit(p)
        PROVE  EverySessionAccounted'
    BY <1>1 DEF Call, Enter, LockTimesOut, Leave, Exit
  <1>2. ASSUME NEW p \in Proc, LoadExisting(p) \/ Match(p) \/ NoMatch(p) \/ StatusFails(p) \/ Refresh(p)
        PROVE  EverySessionAccounted'
    BY <1>2 DEF LoadExisting, Match, NoMatch, StatusFails, Refresh
  <1>3. ASSUME NEW p \in Proc, StartHyphae(p) \/ StartFails(p)
        PROVE  EverySessionAccounted'
    BY <1>3 DEF StartHyphae, StartFails
  <1>4. ASSUME NEW p \in Proc, CreateRow(p)
        PROVE  EverySessionAccounted'
    BY <1>4 DEF CreateRow
  <1>5. ASSUME NEW p \in Proc, Publish(p)
        PROVE  EverySessionAccounted'
    BY <1>5 DEF Publish
  <1>6. ASSUME NEW p \in Proc, EndLoad(p) \/ RemoveState(p)
        PROVE  EverySessionAccounted'
    BY <1>6 DEF EndLoad, RemoveState
  <1>7. ASSUME NEW p \in Proc, MarkOrphaned(p) \/ SpawnEnd(p)
        PROVE  EverySessionAccounted'
    BY <1>7 DEF MarkOrphaned, SpawnEnd
  <1>8. ASSUME NEW p \in Proc, Confirm(p)
        PROVE  EverySessionAccounted'
    BY <1>8 DEF Confirm
  <1>9. ASSUME NEW p \in Proc, JoinTimesOut(p) \/ RunTimesOut(p)
        PROVE  EverySessionAccounted'
    BY <1>9 DEF JoinTimesOut, RunTimesOut
  <1>10. ASSUME NEW p \in Proc, EndCommand(p)
        PROVE  EverySessionAccounted'
    BY <1>10 DEF EndCommand
  <1>11. ASSUME NEW p \in Proc, FileFails(p) \/ Crash(p) \/ LoadUnread(p) \/ PublishUnread(p)
        PROVE  EverySessionAccounted'
    BY <1>11 DEF FileFails, Crash, LoadUnread, PublishUnread
  <1>12. ASSUME NEW s \in Id, DetachedCommand(s) \/ Expire(s)
        PROVE  EverySessionAccounted'
    BY <1>12 DEF DetachedCommand, Expire
  <1>13. CASE Evict
    BY <1>13 DEF Evict
  <1>14. QED
    BY <1>1, <1>2, <1>3, <1>4, <1>5, <1>6, <1>7, <1>8, <1>9, <1>10, <1>11, <1>12, <1>13, StepCases

\* The invariant is inductive.
LEMMA InvPreserved == SessionInv /\ [Next]_vars => SessionInv'
  <1>1. CASE Next
    BY <1>1, TypePreserved, KnownIdsPreserved, UnpublishedPreserved,
       ConfirmedCommandPreserved, CleanPreserved, JudgedInactivePreserved, WhoIsBlindPreserved,
       MarkedPreserved,
       DefinedPreserved, UndisturbedPreserved, WaitedForPreserved, EndsAlonePreserved, AccountedPreserved
    DEF SessionInv
  <1>2. CASE UNCHANGED vars
    BY <1>2 DEF vars, disk, locals, ends, SessionInv, SessionTypeOK, KnownIds,
       Unpublished, ConfirmedCommand, CleanMeansEnded, JudgedInactive, WhoIsBlind, MarkedBeforeRun,
       DefinedDuringWrite, Undisturbed, WaitedFor, EndsAlone, Ending, EverySessionAccounted
  <1>3. QED
    BY <1>1, <1>2

\* The inductive invariant holds of every behaviour.
THEOREM SessionInvariant == Spec => []SessionInv
  BY InitInv, InvPreserved, PTL DEF Spec

\* Types: no operation works on a session it has not read or started.
THEOREM SessionTypes == Spec => []SessionTypeOK
  <1>1. SessionInv => SessionTypeOK
    BY DEF SessionInv
  <1>2. QED
    BY <1>1, SessionInvariant, PTL

\* The store calls a session ended only when hyphae has ended it, whatever
\* crashes, times out or overlaps.
THEOREM StoreNeverLies == Spec => []CleanMeansEnded
  <1>1. SessionInv => CleanMeansEnded
    BY DEF SessionInv
  <1>2. QED
    BY <1>1, SessionInvariant, PTL

\* While an asynchronous end runs, the row already has a defined end state.
THEOREM RowDefined == Spec => []DefinedDuringWrite
  <1>1. SessionInv => DefinedDuringWrite
    BY DEF SessionInv
  <1>2. QED
    BY <1>1, SessionInvariant, PTL

\* Whatever hyphae runs is in the records, unless a process without an answer about
\* it has replaced it; in the test build nobody does before the first failure.
THEOREM NoSessionLeaks == Spec => []EverySessionAccounted
  <1>1. SessionInv => EverySessionAccounted
    BY DEF SessionInv
  <1>2. QED
    BY <1>1, SessionInvariant, PTL

\* An active session is displaced from the state file only by a process that had
\* asked about it without an answer, never unseen.
THEOREM ActiveNotDisplaced == Spec => NeverDisplaced
  <1> DEFINE Displaces == /\ file # None /\ file' \notin {None, file} /\ hyphae[file] = "active"
                          /\ "io" \notin mishaps'
                          /\ \A p \in Proc : pc[p] = "refresh" => pc'[p] = "refresh"
             Asked == \E p \in blind : pc[p] = "publish" /\ pc'[p] = "leave" /\ seen[p] = file
  <1>1. ASSUME SessionInv, Next, Displaces
        PROVE  Asked
    <2> USE <1>1, SessionAssumption DEF SessionInv, SessionTypeOK, Phase, Goto, Return,
            disk, locals, ends, Mishap
    <2>1. PICK p \in Proc : Refresh(p) \/ Publish(p) \/ PublishUnread(p)
      BY StepCases DEF Call, Enter, LockTimesOut, Leave, Exit, LoadExisting, Match, NoMatch,
         StatusFails, StartHyphae, StartFails, CreateRow, EndLoad, RemoveState,
         MarkOrphaned, SpawnEnd, Confirm, JoinTimesOut, RunTimesOut, EndCommand,
         FileFails, Crash, LoadUnread, DetachedCommand, Expire, Evict
    <2>2. Publish(p) \/ PublishUnread(p)
      BY <2>1 DEF Refresh
    <2>3. CASE Publish(p)
      <3>1. pc[p] = "publish" /\ file = seen[p] /\ pc'[p] = "leave"
        BY <2>3 DEF Publish
      <3>2. p \in blind
        BY <3>1 DEF JudgedInactive
      <3>3. QED
        BY <3>1, <3>2
    <2>4. CASE PublishUnread(p)
      <3>1. p \in blind /\ seen[p] = None /\ UNCHANGED mishaps
        BY <2>4 DEF PublishUnread
      <3>2. QED
        BY <3>1 DEF WhoIsBlind
    <2>5. QED
      BY <2>2, <2>3, <2>4
  <1>2. SessionInv /\ [Next]_vars => [Displaces => Asked]_vars
    BY <1>1
  <1>3. QED
    BY <1>2, SessionInvariant, PTL DEF Spec, NeverDisplaced

\* Without overlap a confirmed row stays confirmed, crashes included.
THEOREM RowsStayEnded == Spec => ConfirmedOnce
  <1> DEFINE Kept == {"evict", "io"} \intersect mishaps = {} =>
                        \A s \in Id : row[s] = "ended" => row'[s] = "ended"
  <1>1. ASSUME SessionInv, Next
        PROVE  Kept
    <2> USE <1>1, SessionAssumption DEF SessionInv, SessionTypeOK, Phase, disk, locals, ends
    <2>1. ASSUME NEW p \in Proc, MarkOrphaned(p) \/ Confirm(p) \/ RunTimesOut(p)
          PROVE  Kept
      BY <2>1 DEF MarkOrphaned, Confirm, RunTimesOut, SetRow, Mishap, EndsAlone, Ending
    <2>2. ASSUME NEW p \in Proc, CreateRow(p)
          PROVE  Kept
      BY <2>2 DEF CreateRow, Mishap, Unpublished
    <2>3. CASE row' = row
      BY <2>3
    <2>4. QED
      BY <2>1, <2>2, <2>3, StepCases DEF Call, Enter, LockTimesOut, Leave, Exit,
         LoadExisting, Match, NoMatch, Refresh, StatusFails, StartHyphae, StartFails,
         Publish, EndLoad, RemoveState, SpawnEnd, JoinTimesOut, EndCommand,
         FileFails, Crash, LoadUnread, PublishUnread, DetachedCommand, Expire, Evict
  <1>2. SessionInv /\ [Next]_vars => [Kept]_vars
    BY <1>1
  <1>3. QED
    BY <1>2, SessionInvariant, PTL DEF Spec, ConfirmedOnce
=============================================================================
