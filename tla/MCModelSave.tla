---------------------------- MODULE MCModelSave ----------------------------
(* Values of the constants of ModelSave for TLC. *)
EXTENDS ModelSave

\* With and without timestamps and soft deletes, and one type whose key is not
\* an int64.
MCTypes == {[int64Key |-> TRUE, soft |-> FALSE, stamps |-> FALSE],
            [int64Key |-> TRUE, soft |-> TRUE, stamps |-> TRUE],
            [int64Key |-> FALSE, soft |-> FALSE, stamps |-> TRUE]}

MCPlainTypes == {[int64Key |-> TRUE, soft |-> FALSE, stamps |-> TRUE]}

\* Calls that narrow a save to one column, or take the narrowing back.
MCFilters == {{}, {"name"}}
=============================================================================
