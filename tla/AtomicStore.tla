---------------------------- MODULE AtomicStore ----------------------------
(***************************************************************************)
(* What a caller of update_json_file and remove_file_with_lock counts on:  *)
(* a document that changes by whole mutations, each applied to the latest  *)
(* version.  The document is abstracted to the number of mutations of each *)
(* process it contains; removing the file brings back the default.         *)
(*                                                                         *)
(* What the caller does not get is an error when the document cannot be    *)
(* read: load_json_file(..).unwrap_or_default() takes the default for it,  *)
(* and the update replaces everything the file contained.  Such an update  *)
(* is announced by Misread; every other one keeps what it finds.           *)
(*                                                                         *)
(* The promise ends with the first fault of the lock below (a crash, a     *)
(* suspension past the stale window, a failed heartbeat); from then on a   *)
(* reader still sees a whole document, but perhaps not the latest one.     *)
(***************************************************************************)
EXTENDS Integers

CONSTANTS Proc, MaxUpdates

VARIABLES
    doc,
    unread,   \* processes whose update in progress has failed to read doc
    broken

Docs == [Proc -> 0..MaxUpdates]
Default == [p \in Proc |-> 0]

Mutate(d, p) == [d EXCEPT ![p] = @ + 1]

Init == doc = Default /\ unread = {} /\ broken = FALSE

Update(p) ==
    /\ ~broken
    /\ p \notin unread /\ doc[p] < MaxUpdates
    /\ doc' = Mutate(doc, p)
    /\ UNCHANGED <<unread, broken>>

Misread(p) ==
    /\ ~broken
    /\ unread' = unread \union {p}
    /\ UNCHANGED <<doc, broken>>

UpdateAfresh(p) ==
    /\ ~broken
    /\ p \in unread
    /\ doc' = Mutate(Default, p)
    /\ unread' = unread \ {p}
    /\ UNCHANGED broken

GiveUp(p) ==
    /\ ~broken
    /\ unread' = unread \ {p}
    /\ UNCHANGED <<doc, broken>>

Clear ==
    /\ ~broken
    /\ doc' = Default
    /\ UNCHANGED <<unread, broken>>

Break ==
    /\ broken' = TRUE
    /\ UNCHANGED <<doc, unread>>

AnyVersion ==
    /\ broken /\ broken'
    /\ doc' \in Docs /\ unread' \subseteq Proc

Next ==
    \/ \E p \in Proc : Update(p) \/ Misread(p) \/ UpdateAfresh(p) \/ GiveUp(p)
    \/ Clear \/ Break \/ AnyVersion

Spec == Init /\ [][Next]_<<doc, unread, broken>>
=============================================================================
