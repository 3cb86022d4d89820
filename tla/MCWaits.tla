------------------------------ MODULE MCWaits -------------------------------
(***************************************************************************)
(* The two things a hook waits for, in one run: the lock of a state file   *)
(* (FileLock) and a command it runs (Subprocess).  They share no state, so *)
(* a behaviour takes the steps of one of them, and the fairness is that of *)
(* the one it takes.                                                       *)
(***************************************************************************)
EXTENDS FileLock, Subprocess

VARIABLE part

all == <<vars, commandVars, part>>

MCInit ==
    /\ Init /\ CommandInit
    /\ \/ part = "lock" /\ kind = "hold" /\ asks = [c \in Command |-> DefaultOutput]
       \/ part = "command"

MCNext ==
    \/ part = "lock" /\ Next /\ UNCHANGED <<commandVars, part>>
    \/ part = "command" /\ CommandNext /\ UNCHANGED <<vars, part>>
    \* The caller returns from its last command; a lock may always be asked for.
    \/ part = "command" /\ UNCHANGED all

\* A step of a part is one of the whole: nothing else changes with it.
MCSpec ==
    /\ MCInit /\ [][MCNext]_all
    /\ part = "lock" => LockFairness /\ Arrivals
    /\ part = "command" => CommandFairness
=============================================================================
