---------------------------- MODULE MCEagerLoad ----------------------------
(* Two rows in each table, and calls in which one or two things vary. *)
EXTENDS EagerLoad, TLC

CONSTANTS a, b

Plain(k) == [of |-> k, pivot |-> "none", mark |-> "none", scope |-> "trashed"]
Loading(path) == [path |-> path, dest |-> "slice", models |-> "fine", counts |-> FALSE]
PivotKinds == {k \in Kinds : k.held = "pivot"}

\* Every relation, for every destination, with its count.
EachKind ==
  {[Loading(<<Plain(k)>>) EXCEPT !.counts = TRUE] : k \in Kinds}
    \cup {[Loading(<<Plain(k)>>) EXCEPT !.dest = d] : k \in Kinds, d \in {"struct", "pointers"}}

Marked ==
  {Loading(<<[Plain(HasMany) EXCEPT !.mark = m, !.scope = s]>>) :
     m \in {"and", "or", "replaced"}, s \in {"none", "valued"}}
    \cup {Loading(<<[Plain(k) EXCEPT !.mark = m]>>) :
            k \in {BelongsTo, MorphMany, MorphTo}, m \in {"and", "or"}}

Pivoted ==
  {Loading(<<[Plain(k) EXCEPT !.pivot = p]>>) :
     k \in PivotKinds, p \in {"parent", "method", "after"}}
    \cup {Loading(<<[Plain(BelongsToMany) EXCEPT !.pivot = p, !.mark = "and"]>>) :
            p \in {"before", "after"}}
    \cup {Loading(<<[Plain(BelongsToMany) EXCEPT !.pivot = "after", !.scope = "valued"]>>)}

OddModels ==
  {[Loading(<<Plain(HasOne)>>) EXCEPT !.models = o] : o \in {"elsewhere", "absent"}}
    \cup {[Loading(<<Plain(MorphTo)>>) EXCEPT !.models = "unregistered"],
          [Loading(<<Plain(MorphTo)>>) EXCEPT !.models = "pointer", !.dest = "struct"]}

Chains ==
  {Loading(<<Plain(HasMany), Plain(k)>>) : k \in Kinds \ {HasMany}}
    \cup {Loading(<<Plain(k), Plain(HasMany)>>) : k \in {BelongsTo, MorphTo, MorphToMany}}
    \cup {Loading(<<[Plain(BelongsToMany) EXCEPT !.pivot = "after"], Plain(HasMany)>>),
          Loading(<<Plain(HasMany), [Plain(BelongsToMany) EXCEPT !.pivot = "after"]>>),
          Loading(<<Plain(BelongsTo), Plain(MorphTo)>>),
          Loading(<<Plain(HasMany), Plain(BelongsToMany), Plain(MorphMany)>>),
          Loading(<<Plain(HasMany), Plain(HasMany), Plain(HasMany)>>)}

MCRequests == EachKind \cup Marked \cup Pivoted \cup OddModels \cup Chains
MCSymmetry == Permutations({a, b})
=============================================================================
