----------------------------- MODULE Derivation -----------------------------
(***************************************************************************)
(* ValidateDerivation (delegation.go): which rules a child MAT breaks      *)
(* against its parent, and which of them is the fault reported. Rules are  *)
(* tried in five groups, one after the other. A group is a sequence of     *)
(* stages in the code's order; a stage is the set of faults it may report, *)
(* {} when its rule is kept.                                               *)
(*                                                                         *)
(* Quotas are Go maps, iterated in no fixed order: when several quotas of  *)
(* one link are broken in different ways, any of their faults may be the   *)
(* one reported.                                                           *)
(***************************************************************************)
EXTENDS Artifacts

FaultIf(broken, path) == IF broken THEN {path} ELSE {}

Kept(group) == \A i \in 1..Len(group) : group[i] = {}

\* The faults of the first stage that is broken.
FirstBroken(group) ==
    UNION {group[i] : i \in {j \in 1..Len(group) : \A k \in 1..(j-1) : group[k] = {}}}

unstated(scope, dimension, list) == ~unconstrains(scope, dimension) /\ list = {}

\* Mutant of scopeSubset: a child may declare any dimension unconstrained.
scopeSubsetUnguarded(child, parent) ==
    <<FaultIf(/\ ~unconstrains(parent, "actions")
              /\ ~(child.actions \subseteq parent.actions),
              "scope.action_not_covered"),
      FaultIf(/\ ~unconstrains(parent, "resources")
              /\ \E r \in child.resources : ~patternCovered(r, parent.resources),
              "scope.resource_not_covered")>>

scopeSubset(child, parent) ==
    <<FaultIf(~(child.unconstrained \subseteq parent.unconstrained),
              "scope.unconstrained_escalation"),
      FaultIf(/\ unstated(child, "actions", child.actions)
              /\ ~unstated(parent, "actions", parent.actions),
              "scope.actions_unstated"),
      FaultIf(/\ unstated(child, "resources", child.resources)
              /\ ~unstated(parent, "resources", parent.resources),
              "scope.resources_unstated"),
      FaultIf(/\ ~unconstrains(parent, "actions")
              /\ ~(child.actions \subseteq parent.actions),
              "scope.action_not_covered"),
      FaultIf(/\ ~unconstrains(parent, "resources")
              /\ \E r \in child.resources : ~patternCovered(r, parent.resources),
              "scope.resource_not_covered"),
      FaultIf(/\ unconstrains(parent, "resources")
              /\ \E r \in child.resources : hasTraversal(r),
              "scope.resource_traversal_unconstrained")>>

\* Mutant of quotaFaults: only the quotas the child mentions are compared.
quotaFaultsMentioned(child, parent) ==
    FaultIf(\E k \in DOMAIN parent.quotas \cap DOMAIN child.quotas :
               child.quotas[k] > parent.quotas[k],
            "boundary.quota_exceeded")

\* One pass over the parent's quotas, whichever broken one comes first.
quotaFaults(child, parent) ==
    FaultIf(\E k \in DOMAIN parent.quotas : k \notin DOMAIN child.quotas,
            "boundary.quota_dropped")
    \cup FaultIf(\E k \in DOMAIN parent.quotas \cap DOMAIN child.quotas :
                    child.quotas[k] > parent.quotas[k],
                 "boundary.quota_exceeded")

boundaryWithin(child, parent) ==
    <<FaultIf(child.max_impact > parent.max_impact, "boundary.max_impact"),
      FaultIf(child.max_privilege_delta > parent.max_privilege_delta,
              "boundary.max_privilege_delta"),
      quotaFaults(child, parent),
      FaultIf(~(DOMAIN child.quotas \subseteq DOMAIN parent.quotas),
              "boundary.quota_not_in_parent"),
      FaultIf(~(parent.exclusions \subseteq child.exclusions),
              "boundary.exclusion_dropped")>>

LooserPath(type) == "constraint.looser." \o type

\* Mutant of constraintsStricter: a constraint the child drops is not missed.
constraintsStricterPresent(child, parent) ==
    [i \in 1..Len(parent) |->
        FaultIf(/\ HasId(child, parent[i].id)
                /\ ~constraintAtLeastAsStrict(ById(child, parent[i].id), parent[i]),
                LooserPath(parent[i].type))]

\* One stage per parent constraint, paired with the child's last of that id.
constraintsStricter(child, parent) ==
    [i \in 1..Len(parent) |->
        LET p == parent[i] IN
        IF ~HasId(child, p.id) THEN {"constraint.dropped"}
        ELSE IF ById(child, p.id).type # p.type THEN {"constraint.type_mismatch"}
        ELSE FaultIf(~constraintAtLeastAsStrict(ById(child, p.id), p), LooserPath(p.type))]

\* The child's last obligation of a category.
LastAge(obligations, cat) ==
    {obligations[i].max_age_seconds :
        i \in {j \in 1..Len(obligations) :
                  /\ obligations[j].category = cat
                  /\ \A k \in (j+1)..Len(obligations) : obligations[k].category # cat}}

obligationsSuperset(child, parent) ==
    [i \in 1..Len(parent) |->
        LET age == LastAge(child, parent[i].category) IN
        IF age = {} THEN {"obligation.missing"}
        ELSE FaultIf(\E a \in age : a > parent[i].max_age_seconds,
                     "obligation.freshness_loosened")]

\* An error without a fault path: constraint ids that do not identify.
Unnamed == "unnamed"

RuleGroups(parent, child) ==
    <<<<FaultIf(~validateConstraintIDs(parent.constraints), Unnamed),
        FaultIf(~validateConstraintIDs(child.constraints), Unnamed),
        FaultIf(~parent.delegation.allowed, "delegation.not_allowed")>>,
      scopeSubset(child.scope, parent.scope),
      boundaryWithin(child.boundary, parent.boundary),
      constraintsStricter(child.constraints, parent.constraints),
      obligationsSuperset(child.proof_obligations, parent.proof_obligations)>>

Derives(parent, child) == \A g \in 1..5 : Kept(RuleGroups(parent, child)[g])

\* The faults ValidateDerivation may report: those of the first broken group.
ValidateDerivation(parent, child) ==
    LET groups == RuleGroups(parent, child) IN
    UNION {FirstBroken(groups[g]) : g \in {h \in 1..5 : \A k \in 1..(h-1) : Kept(groups[k])}}

------------------------------------------------------------------------------
(* ValidateChain, said without its loop.                                    *)

NoParent == ""   \* the parent_id of a root

RootFaults(chain) ==
    IF Len(chain) = 0 THEN {"chain.empty"}
    ELSE FirstBroken(<<FaultIf(chain[1].parent_id # NoParent, "chain.not_root"),
                       FaultIf(~validateConstraintIDs(chain[1].constraints), Unnamed)>>)

\* The link from chain[i-1] to chain[i].
LinkFaults(chain, i) ==
    FirstBroken(<<FaultIf(chain[i].parent_id # chain[i-1].id, "chain.link_break"),
                  FaultIf(\E j \in 1..(i-1) : chain[j].id = chain[i].id, "chain.cycle"),
                  FaultIf(chain[1].delegation.max_depth <= 0, "chain.depth_unstated"),
                  FaultIf(i - 1 > chain[1].delegation.max_depth, "chain.depth_exceeded"),
                  ValidateDerivation(chain[i-1], chain[i])>>)

\* The faults that may be reported: those of the root, or of the first bad link.
ChainFaults(chain) ==
    IF RootFaults(chain) # {} THEN RootFaults(chain)
    ELSE UNION {LinkFaults(chain, i) :
                  i \in {j \in 2..Len(chain) : \A k \in 2..(j-1) : LinkFaults(chain, k) = {}}}
=============================================================================
