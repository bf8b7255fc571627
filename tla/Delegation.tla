----------------------------- MODULE Delegation -----------------------------
(***************************************************************************)
(* ValidateChain as the loop it is (delegation.go): the chain is walked    *)
(* from its root, each link checked for continuity, for a repeated         *)
(* artifact, for depth and for the four monotonic invariants, and the walk *)
(* stops at the first rule broken, which it names by a fault path.         *)
(***************************************************************************)
EXTENDS Derivation

CONSTANT Chains   \* the chains a caller may present: sequences of MATs, root first

\* The numeric fields are integers and the resource patterns finite texts.
NumericMAT(m) ==
    /\ m.delegation.allowed \in BOOLEAN /\ m.delegation.max_depth \in Int
    /\ m.boundary.max_impact \in Int /\ m.boundary.max_privilege_delta \in Int
    /\ \A k \in DOMAIN m.boundary.quotas : m.boundary.quotas[k] \in Int
    /\ Len(m.proof_obligations) \in Nat
    /\ \A j \in 1..Len(m.proof_obligations) : m.proof_obligations[j].max_age_seconds \in Int
    /\ \A r \in m.scope.resources : Len(r) \in Nat

\* Whatever a constraint states by a number is one.
NumericConstraint(c) ==
    /\ c.max_ms \in Int
    /\ \A f \in {c.min, c.max} : IsNumber(f) => f[1] \in Int
    /\ c.max_rate # <<>> => c.max_rate[1] \in Int
    /\ \A ts \in {c.not_before, c.not_after} : IsInstant(ts) => Instant(ts) \in Int

ASSUME ChainsAssumption ==
    \A c \in Chains :
        /\ Len(c) \in Nat
        /\ \A i \in 1..Len(c) :
              /\ NumericMAT(c[i])
              /\ Len(c[i].constraints) \in Nat
              /\ \A j \in 1..Len(c[i].constraints) : NumericConstraint(c[i].constraints[j])

NoFault == ""

VARIABLES chain,   \* the argument
          pc,      \* the check about to run
          depth,   \* the number of derivations validated so far
          seen,    \* the ids of the artifacts passed
          fault    \* the fault path reported

vars == <<chain, pc, depth, seen, fault>>

------------------------------------------------------------------------------
(* ValidateChain.                                                           *)

Init ==
    /\ chain \in Chains
    /\ pc = "root"
    /\ depth = 0 /\ seen = {} /\ fault = NoFault

Parent == chain[depth + 1]
Child == chain[depth + 2]

\* Mutant of Reject: the error is recorded and the walk goes on.
RejectLater(path) ==
    /\ pc' = "link" /\ fault' = path
    /\ UNCHANGED <<chain, depth, seen>>

Reject(path) ==
    /\ pc' = "rejected" /\ fault' = path
    /\ UNCHANGED <<chain, depth, seen>>

Root ==
    /\ pc = "root"
    /\ IF Len(chain) = 0 THEN Reject("chain.empty")
       ELSE IF chain[1].parent_id # NoParent THEN Reject("chain.not_root")
       ELSE IF ~validateConstraintIDs(chain[1].constraints) THEN Reject(Unnamed)
       ELSE /\ pc' = "link" /\ seen' = {chain[1].id}
            /\ UNCHANGED <<chain, depth, fault>>

\* Mutant of Link: the chain is searched for a repeat before its links are.
LinkCycleFirst ==
    /\ pc = "link" /\ depth + 1 < Len(chain)
    /\ IF Child.id \in seen THEN Reject("chain.cycle")
       ELSE IF Child.parent_id # Parent.id THEN Reject("chain.link_break")
       ELSE /\ pc' = "depth" /\ seen' = seen \cup {Child.id}
            /\ UNCHANGED <<chain, depth, fault>>

Link ==
    /\ pc = "link" /\ depth + 1 < Len(chain)
    /\ IF Child.parent_id # Parent.id THEN Reject("chain.link_break")
       ELSE IF Child.id \in seen THEN Reject("chain.cycle")
       ELSE /\ pc' = "depth" /\ seen' = seen \cup {Child.id}
            /\ UNCHANGED <<chain, depth, fault>>

\* Mutants of Depth: derivations counted from zero, and MATs counted instead.
DepthFromZero ==
    /\ pc = "depth"
    /\ LET allowance == chain[1].delegation.max_depth IN
       IF allowance <= 0 THEN Reject("chain.depth_unstated")
       ELSE IF depth > allowance THEN Reject("chain.depth_exceeded")
       ELSE pc' = "derive" /\ UNCHANGED <<chain, depth, seen, fault>>

DepthInMATs ==
    /\ pc = "depth"
    /\ LET allowance == chain[1].delegation.max_depth IN
       IF allowance <= 0 THEN Reject("chain.depth_unstated")
       ELSE IF depth + 2 > allowance THEN Reject("chain.depth_exceeded")
       ELSE pc' = "derive" /\ UNCHANGED <<chain, depth, seen, fault>>

\* The allowance is the root's, at every link.
Depth ==
    /\ pc = "depth"
    /\ LET allowance == chain[1].delegation.max_depth IN
       IF allowance <= 0 THEN Reject("chain.depth_unstated")
       ELSE IF depth + 1 > allowance THEN Reject("chain.depth_exceeded")
       ELSE pc' = "derive" /\ UNCHANGED <<chain, depth, seen, fault>>

Derive ==
    /\ pc = "derive"
    /\ \/ \E path \in ValidateDerivation(Parent, Child) : Reject(path)
       \/ /\ Derives(Parent, Child)
          /\ pc' = "link" /\ depth' = depth + 1
          /\ UNCHANGED <<chain, seen, fault>>

\* Mutant of Accept: a chain without a derivation has no end.
AcceptDerived ==
    /\ pc = "link" /\ depth > 0 /\ depth + 1 = Len(chain)
    /\ pc' = "accepted"
    /\ UNCHANGED <<chain, depth, seen, fault>>

Accept ==
    /\ pc = "link" /\ depth + 1 = Len(chain)
    /\ pc' = "accepted"
    /\ UNCHANGED <<chain, depth, seen, fault>>

Next == Root \/ Link \/ Depth \/ Derive \/ Accept

Spec == Init /\ [][Next]_vars

\* Sequential code without blocking calls.
FairSpec == Spec /\ WF_vars(Next)

------------------------------------------------------------------------------
(* What must hold. None of it mentions the walk: it is said of the chain.   *)

CONSTANTS Operations,   \* pairs <<action, resource>> a leaf may be asked for
          Contexts      \* runtime contexts a leaf may be used in

ASSUME OperationsAssumption == \A op \in Operations : Len(op[2]) \in Nat

ASSUME ContextsAssumption ==
    \A ctx \in Contexts :
        /\ IsInstant(ctx.time) => Instant(ctx.time) \in Int
        /\ \A k \in DOMAIN ctx.params : IsNumber(ctx.params[k]) => ctx.params[k][1] \in Int
        /\ \A k \in DOMAIN ctx.rate : ctx.rate[k] \in Int

\* Type invariant.
TypeOK ==
    /\ pc \in {"root", "link", "depth", "derive", "accepted", "rejected"}
    /\ depth \in Nat
    /\ pc \in {"link", "depth", "derive", "accepted"} => depth + 1 \in 1..Len(chain)
    /\ pc \in {"depth", "derive"} => depth + 2 \in 1..Len(chain)
    /\ seen \subseteq {chain[i].id : i \in 1..Len(chain)}
    /\ pc # "rejected" => fault = NoFault

Holding(mat, ctx) == \A i \in 1..Len(mat.constraints) : Evaluate(mat.constraints[i], ctx)

\* Every operation c covers, p covers.
OperationsNarrow(c, p) ==
    \A op \in Operations :
        CoversOperation(c, op[1], op[2]) => CoversOperation(p, op[1], op[2])

\* The hard limits of c are all stated and none is above that of p.
CeilingsNarrow(c, p) ==
    /\ c.boundary.max_impact <= p.boundary.max_impact
    /\ c.boundary.max_privilege_delta <= p.boundary.max_privilege_delta
    /\ DOMAIN c.boundary.quotas = DOMAIN p.boundary.quotas
    /\ \A k \in DOMAIN p.boundary.quotas : c.boundary.quotas[k] <= p.boundary.quotas[k]

\* Where the constraints of c hold, those of p hold.
ConstraintsNarrow(c, p) == \A ctx \in Contexts : Holding(c, ctx) => Holding(p, ctx)

\* The latency budget of p binds c.
BudgetsNarrow(c, p) ==
    LatencyBudgets(p) # {} =>
        LatencyBudgets(c) # {} /\ authorizedLatencyBound(c) <= authorizedLatencyBound(p)

\* Evidence fresh enough for c is fresh enough for p, category by category.
ObligationsNarrow(c, p) ==
    \A i \in 1..Len(p.proof_obligations) :
        LET cat == p.proof_obligations[i].category IN
        \A a \in LastAge(p.proof_obligations, cat) :
            \E b \in LastAge(c.proof_obligations, cat) : b <= a

Leaf == chain[Len(chain)]

Constraints == UNION {{chain[i].constraints[j] : j \in 1..Len(chain[i].constraints)} :
                         i \in 1..Len(chain)}

\* A wildcard only ends a pattern.
PlainPatterns ==
    \A i \in 1..Len(chain) : \A r \in chain[i].scope.resources :
        \A k \in 1..(Len(r) - 1) : r[k] # "*"

BoundsOf(c) == {c.not_before, c.not_after} \ {Absent}

\* What the strictness comparisons presuppose: time bounds are instants and are
\* written so that byte order is time order, a rate limit and a resource state
\* state a value, a stated bound is a number, no latency budget is negative.
Comparable ==
    /\ \A c, d \in Constraints : \A ts \in BoundsOf(c), us \in BoundsOf(d) :
          /\ IsInstant(ts) /\ IsInstant(us)
          /\ Rank(ts) <= Rank(us) => Instant(ts) <= Instant(us)
    /\ \A c \in Constraints :
          /\ c.type = "rate_limit" => c.max_rate # <<>>
          /\ c.type = "resource_state" => StatedValues(c) # {}
          /\ \A bound \in {c.min, c.max} \ {<<>>} : IsNumber(bound)
          /\ c.max_ms >= 0

\* Where wildcards only end patterns, an accepted leaf grants no operation its
\* root does not, however many links apart they are (invariant i,
\* delegation.go:143-148).
LeafOperationsNarrow ==
    (pc = "accepted" /\ PlainPatterns) => OperationsNarrow(Leaf, chain[1])

\* An accepted leaf has no higher ceiling and no laxer or missing evidence
\* obligation than its root (invariants ii and iv, delegation.go:251-253, 428-430).
LeafLimitsNarrow ==
    pc = "accepted" => CeilingsNarrow(Leaf, chain[1]) /\ ObligationsNarrow(Leaf, chain[1])

\* Where constraints are comparable, an accepted leaf's constraints hold only
\* where its root's do, and the root's latency budget still binds it (invariant
\* iii, delegation.go:290-295).
LeafConstraintsNarrow ==
    (pc = "accepted" /\ Comparable) =>
        ConstraintsNarrow(Leaf, chain[1]) /\ BudgetsNarrow(Leaf, chain[1])

\* An accepted chain starts at a root, names its predecessor at every link,
\* repeats no artifact, is no longer than the root allows and is derived only
\* from artifacts that permit it (delegation.go:448-452).
AcceptedChainIsPath ==
    pc = "accepted" =>
        /\ Len(chain) > 0 /\ chain[1].parent_id = NoParent
        /\ \A i \in 1..(Len(chain) - 1) : /\ chain[i+1].parent_id = chain[i].id
                                          /\ chain[i].delegation.allowed
        /\ \A i, j \in 1..Len(chain) : chain[i].id = chain[j].id => i = j
        /\ Len(chain) > 1 => Len(chain) - 1 <= chain[1].delegation.max_depth

\* A chain whose links all keep the rules is not rejected: the walk has no
\* other reason to stop.
Lawful ==
    /\ Len(chain) > 0 /\ chain[1].parent_id = NoParent
    /\ validateConstraintIDs(chain[1].constraints)
    /\ \A i \in 1..(Len(chain) - 1) : /\ chain[i+1].parent_id = chain[i].id
                                      /\ Derives(chain[i], chain[i+1])
    /\ \A i, j \in 1..Len(chain) : chain[i].id = chain[j].id => i = j
    /\ Len(chain) <= 1 \/ Len(chain) - 1 <= chain[1].delegation.max_depth

\* No lawful chain is refused.
LawfulChainAccepted == pc = "rejected" => ~Lawful

\* The walk reports the fault of the first bad link and of the first rule broken
\* there, which is what a vector that pins a failure path relies on
\* (conformance.go:594-604); it is accepted when no link has one.
FirstFaultReported ==
    /\ pc = "rejected" => fault \in ChainFaults(chain)
    /\ pc = "accepted" => ChainFaults(chain) = {}

\* The walk always ends in a verdict.
AlwaysDecides == <>(pc \in {"accepted", "rejected"})

------------------------------------------------------------------------------
(* A statement of the comments the code does not keep.                      *)

\* "Child window must be within parent window" (delegation.go:329): a temporal
\* constraint of the root contains every instant of the leaf's.
AcceptedWindowWithin ==
    pc = "accepted" =>
        \A i \in 1..Len(chain[1].constraints) :
            LET p == chain[1].constraints[i]
                c == ById(Leaf.constraints, p.id)
            IN  p.type = "temporal" =>
                  /\ (IsInstant(p.not_before) /\ IsInstant(c.not_before))
                        => Instant(p.not_before) <= Instant(c.not_before)
                  /\ (IsInstant(p.not_after) /\ IsInstant(c.not_after))
                        => Instant(c.not_after) <= Instant(p.not_after)
=============================================================================
