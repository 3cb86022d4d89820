----------------------------- MODULE StateFile -----------------------------
(***************************************************************************)
(* A JSON state file under its lock file: update_json_file loads the       *)
(* document (or its default), applies the caller's mutation and saves it   *)
(* by an atomic rename; remove_file_with_lock deletes it.  Each happens    *)
(* inside with_file_lock, so between create_new and drop of FileLock, in   *)
(* several steps that other processes' steps may come between.             *)
(***************************************************************************)
EXTENDS FileLock

CONSTANT MaxUpdates    \* bound: mutations of one process that a document counts

ASSUME BoundAssumption == MaxUpdates \in Nat

VARIABLES
    file,     \* the document on disk; the default when there is no file
    buf,      \* buf[p]: the document p has loaded and mutates
    stage,    \* stage[p]: where p is in the operation under the lock
    blind     \* processes that could not read or parse the document

fileVars == <<file, buf, stage, blind>>
storeVars == <<pc, tries, lock, age, spent, mute, late, faults, file, buf, stage, blind>>

Docs == [Proc -> 0..MaxUpdates]
Default == [p \in Proc |-> 0]
Mutate(d, p) == [d EXCEPT ![p] = @ + 1]

StoreInit ==
    /\ Init
    /\ file = Default
    /\ buf = [p \in Proc |-> Default]
    /\ stage = [p \in Proc |-> "load"]
    /\ blind = {}

----------------------------------------------------------------------------
(* A faulty variant, to be put in place of the definition it names.         *)

\* The document is loaded before the lock is taken.
LoadUnlocked(p) ==
    /\ pc[p] \in {"create", "held"} /\ stage[p] = "load"
    /\ buf' = [buf EXCEPT ![p] = file]
    /\ stage' = [stage EXCEPT ![p] = "save"]
    /\ UNCHANGED <<vars, file, blind>>

----------------------------------------------------------------------------
(* update_json_file and remove_file_with_lock *)

\* load_json_file(path).unwrap_or_default()
Load(p) ==
    /\ Holding(p) /\ stage[p] = "load"
    /\ buf' = [buf EXCEPT ![p] = file]
    /\ stage' = [stage EXCEPT ![p] = "save"]
    /\ UNCHANGED <<vars, file, blind>>

\* A document that cannot be read or parsed counts as the default one.
LoadFails(p) ==
    /\ Holding(p) /\ stage[p] = "load"
    /\ buf' = [buf EXCEPT ![p] = Default]
    /\ stage' = [stage EXCEPT ![p] = "save"]
    /\ blind' = blind \union {p}
    /\ UNCHANGED <<vars, file>>

\* The closure returns; its copy of the document is dropped.
UpdateReturns(p) ==
    /\ stage' = [stage EXCEPT ![p] = "done"]
    /\ buf' = [buf EXCEPT ![p] = Default]
    /\ blind' = blind \ {p}

\* The mutation and save_json_file: a temporary file renamed over the path.
Save(p) ==
    /\ Holding(p) /\ stage[p] = "save"
    /\ buf[p][p] < MaxUpdates
    /\ file' = Mutate(buf[p], p)
    /\ UpdateReturns(p)
    /\ UNCHANGED vars

\* save_json_file fails before the rename, or the removal fails; the caller gets
\* the error.
SaveFails(p) ==
    /\ Holding(p) /\ stage[p] \in {"load", "save"}
    /\ UpdateReturns(p)
    /\ UNCHANGED <<vars, file>>

\* remove_file_with_lock: a missing file counts as removed.
RemoveDocument(p) ==
    /\ Holding(p) /\ stage[p] = "load"
    /\ file' = Default
    /\ UpdateReturns(p)
    /\ UNCHANGED vars

\* The operation returns and the guard is dropped.
Leave(p) ==
    /\ stage[p] = "done"
    /\ StopHeartbeat(p)
    /\ stage' = [stage EXCEPT ![p] = "load"]
    /\ UNCHANGED <<file, buf, blind>>

LockStep(p) ==
    \/ Call(p) \/ CreateNew(p) \/ AlreadyExists(p) \/ CreateFails(p)
    \/ JudgeStale(p) \/ JudgeFresh(p) \/ RemoveStale(p) \/ Sleep(p) \/ GiveUp(p)
    \/ WriteMetadata(p) \/ WriteFails(p) \/ Beat(p)
    \/ TokenMatches(p) \/ TokenDiffers(p) \/ Unlink(p) \/ Fault(p)

StoreNext ==
    \/ \E p \in Proc :
          \/ Load(p) \/ LoadFails(p) \/ Save(p) \/ SaveFails(p) \/ RemoveDocument(p) \/ Leave(p)
          \/ LockStep(p) /\ UNCHANGED fileVars
    \/ Tick /\ UNCHANGED fileVars

StoreSpec == StoreInit /\ [][StoreNext]_storeVars

----------------------------------------------------------------------------
(* Properties *)

StoreTypeOK ==
    /\ TypeOK
    /\ file \in Docs
    /\ buf \in [Proc -> Docs]
    /\ stage \in [Proc -> {"load", "save", "done"}]
    /\ blind \subseteq Proc
    /\ \A p \in blind : stage[p] = "save"

\* Between load and save nobody else changes the document, unless a fault of the
\* lock has let two processes in: the copy p is about to save back is the
\* latest, or the default if the latest could not be read.
FreshCopy ==
    faults = 0 => \A p \in Proc : Holding(p) /\ stage[p] = "save" =>
        buf[p] = IF p \in blind THEN Default ELSE file

Abstract == INSTANCE AtomicStore WITH doc <- file, unread <- blind, broken <- (faults > 0)

\* Load, mutate and save under the lock amount to one atomic mutation, of the
\* latest document (no lost update) or, only when this very operation could not
\* read it, of the default, until the first fault of the lock.
ImplementsAtomicStore == Abstract!Spec

\* Nobody is in the middle of an operation without the guard.
StageUnderLock ==
    \A p \in Proc : pc[p] \notin {"held", "crashed"} => stage[p] = "load"

\* The inductive invariant behind the refinement.
StoreInv == StoreTypeOK /\ LockInv /\ StageUnderLock /\ FreshCopy
=============================================================================
