----------------------------- MODULE MCOutcomes -----------------------------
EXTENDS Outcomes, TLC

\* `cargo test a` and `cargo test b`: one key for both.
MCKeyOf == [c \in Command |-> "key"]

OutcomesSymmetry == Permutations(Proc) \union Permutations(Session)
=============================================================================
