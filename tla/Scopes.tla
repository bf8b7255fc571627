------------------------------- MODULE Scopes -------------------------------
(***************************************************************************)
(* The scope predicate of a MAT: which operations an execution scope and a *)
(* permission boundary admit (mat.go), resource patterns and traversal     *)
(* segments (delegation.go).                                               *)
(*                                                                         *)
(* An action, a resource or a resource pattern is a sequence of tokens, so *)
(* that prefixes and path segments keep their meaning; "" is <<>>. A token *)
(* is a separator, the wildcard "*", the name ".." or any other name. A    *)
(* name may be split over several tokens: <<"my", "..", "app">> is the     *)
(* single segment my..app.                                                 *)
(*                                                                         *)
(* A scope is [actions, resources : sets of texts, unconstrained : a set of*)
(* dimension names]; a boundary is [max_impact, max_privilege_delta : Int, *)
(* quotas : a function, exclusions : a set of texts].                      *)
(***************************************************************************)
EXTENDS Integers, Sequences

Separators == {"/", "\\"}

\* s has a whole segment "..", on either separator.
hasTraversal(s) ==
    \E i \in 1..Len(s) :
        /\ s[i] = ".."
        /\ i = 1 \/ s[i-1] \in Separators
        /\ i = Len(s) \/ s[i+1] \in Separators

\* r begins with the first n tokens of p.
StartsWith(r, p, n) == n <= Len(r) /\ \A i \in 1..n : r[i] = p[i]

\* One pattern p, literal or ending in a wildcard, covers the resource (or pattern) r.
Matches(r, p) ==
    \/ p = r
    \/ Len(p) > 0 /\ p[Len(p)] = "*" /\ StartsWith(r, p, Len(p) - 1)

patternCovered(r, parents) ==
    /\ ~hasTraversal(r)
    /\ \E p \in parents : Matches(r, p)

unconstrains(scope, dimension) == dimension \in scope.unconstrained

\* The operation is inside the scope and not excluded. An empty resource skips
\* every resource test; an absent dimension admits nothing.
CoversOperation(mat, action, resource) ==
    /\ unconstrains(mat.scope, "actions") \/ action \in mat.scope.actions
    /\ resource # <<>> =>
          /\ \/ unconstrains(mat.scope, "resources")
             \/ patternCovered(resource, mat.scope.resources)
          /\ ~hasTraversal(resource)
          /\ resource \notin mat.boundary.exclusions
    /\ action \notin mat.boundary.exclusions

\* The resource half alone. An unconstrained scope returns before the
\* exclusion test is reached.
coversResource(mat, resource) ==
    IF unconstrains(mat.scope, "resources")
    THEN ~hasTraversal(resource)
    ELSE /\ patternCovered(resource, mat.scope.resources)
         /\ resource \notin mat.boundary.exclusions

\* Every enumerated dimension has the value it would be tested against.
ScopeReproducible(mat, action, resource) ==
    /\ mat.scope.actions # {} => action # <<>>
    /\ mat.scope.resources # {} => resource # <<>>
=============================================================================
