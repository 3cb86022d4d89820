----------------------------- MODULE MCCapture -----------------------------
(* Capture for TLC: both prompts fit into their list, one council and one  *)
(* snapshot at a time into theirs.  Hook processes differ in name only.    *)
EXTENDS Capture, TLC

MCCap == [k \in Kinds |-> IF k = "prompt" THEN 2 ELSE 1]

CaptureSymmetry == Permutations(Proc)
=============================================================================
