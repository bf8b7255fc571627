-------------------------- MODULE DelegationProofs --------------------------
(***************************************************************************)
(* What holds of every chain ValidateChain accepts, however long it is and *)
(* whatever its MATs say: it is a path of distinct artifacts from a root,  *)
(* no longer than the root allows; its leaf has no higher ceiling and no   *)
(* laxer obligation than the root; and, when wildcards only end patterns,  *)
(* the leaf covers no operation the root does not.                         *)
(*                                                                         *)
(* The walk compares neighbours only. The invariant therefore says of the  *)
(* last MAT validated that it narrows the root, and each derivation step   *)
(* extends that by transitivity.                                           *)
(*                                                                         *)
(* Three further results: the fault it reports is the first there is,      *)
(* reading the chain from its root and each link rule by rule, so no       *)
(* lawful chain is refused; where constraints are comparable, those of     *)
(* an accepted leaf hold only where the root's do, and the root's latency  *)
(* budget still binds it; and the walk runs out after three steps a link.  *)
(***************************************************************************)
EXTENDS Delegation, WellFoundedInduction, TLAPS

\* The walk is past the root and has not rejected.
Walking == {"link", "depth", "derive", "accepted"}

\* How many MATs of the chain are in seen.
Passed == IF pc \in {"depth", "derive"} THEN depth + 2 ELSE depth + 1

Path ==
    /\ chain[1].parent_id = NoParent
    /\ \A i \in 1..Passed : chain[i].id \in seen
    /\ \A x \in seen : \E i \in 1..Passed : x = chain[i].id
    /\ \A i, j \in 1..Passed : chain[i].id = chain[j].id => i = j
    /\ \A i \in 1..(Passed - 1) : chain[i+1].parent_id = chain[i].id
    /\ \A i \in 1..depth : chain[i].delegation.allowed
    /\ depth > 0 => depth <= chain[1].delegation.max_depth
    /\ pc = "derive" => depth + 1 <= chain[1].delegation.max_depth
    /\ pc = "accepted" => depth + 1 = Len(chain)

\* The last MAT validated narrows the root.
Narrowed ==
    /\ CeilingsNarrow(Parent, chain[1])
    /\ ObligationsNarrow(Parent, chain[1])
    /\ PlainPatterns => OperationsNarrow(Parent, chain[1])

IInv ==
    /\ TypeOK
    /\ chain \in Chains
    /\ pc = "root" => depth = 0
    /\ pc \in Walking => Path /\ Narrowed

------------------------------------------------------------------------------
(* One derivation.                                                          *)

\* A derivation that is not rejected keeps every rule of every group.
LEMMA GroupsKept ==
    ASSUME NEW p, NEW c, Derives(p, c)
    PROVE  /\ p.delegation.allowed
           /\ Kept(scopeSubset(c.scope, p.scope))
           /\ Kept(boundaryWithin(c.boundary, p.boundary))
           /\ Kept(obligationsSuperset(c.proof_obligations, p.proof_obligations))
  <1> DEFINE first == <<FaultIf(~validateConstraintIDs(p.constraints), Unnamed),
                        FaultIf(~validateConstraintIDs(c.constraints), Unnamed),
                        FaultIf(~p.delegation.allowed, "delegation.not_allowed")>>
             scope == scopeSubset(c.scope, p.scope)
             boundary == boundaryWithin(c.boundary, p.boundary)
             constraints == constraintsStricter(c.constraints, p.constraints)
             obligations == obligationsSuperset(c.proof_obligations, p.proof_obligations)
             groups == <<first, scope, boundary, constraints, obligations>>
  <1>1. \A g \in 1..5 : Kept(groups[g])
    BY DEF Derives, RuleGroups
  <1>2. Len(first) = 3 /\ first[3] = FaultIf(~p.delegation.allowed, "delegation.not_allowed")
    OBVIOUS
  <1> HIDE DEF first, scope, boundary, constraints, obligations
  <1>3. Kept(first) /\ Kept(scope) /\ Kept(boundary) /\ Kept(obligations)
    <2>1. /\ groups[1] = first /\ groups[2] = scope /\ groups[3] = boundary
          /\ groups[5] = obligations
      OBVIOUS
    <2> HIDE DEF groups
    <2> QED
      BY <1>1, <2>1
  <1>4. p.delegation.allowed
    BY <1>2, <1>3 DEF Kept, FaultIf
  <1> QED
    BY <1>3, <1>4 DEF scope, boundary, obligations

\* What the kept scope rules say.
LEMMA ScopeRules ==
    ASSUME NEW c, NEW p, Kept(scopeSubset(c, p))
    PROVE  /\ c.unconstrained \subseteq p.unconstrained
           /\ unconstrains(p, "actions") \/ c.actions \subseteq p.actions
           /\ \/ unconstrains(p, "resources")
              \/ \A r \in c.resources : patternCovered(r, p.resources)
  <1> DEFINE s == scopeSubset(c, p)
  <1>0. Kept(s)
    OBVIOUS
  <1>1. /\ Len(s) = 6
        /\ s[1] = FaultIf(~(c.unconstrained \subseteq p.unconstrained),
                          "scope.unconstrained_escalation")
        /\ s[4] = FaultIf(~unconstrains(p, "actions") /\ ~(c.actions \subseteq p.actions),
                          "scope.action_not_covered")
        /\ s[5] = FaultIf(/\ ~unconstrains(p, "resources")
                          /\ \E r \in c.resources : ~patternCovered(r, p.resources),
                          "scope.resource_not_covered")
    BY DEF scopeSubset
  <1> HIDE DEF s
  <1>2. s[1] = {} /\ s[4] = {} /\ s[5] = {}
    <2>1. \A i \in 1..6 : s[i] = {}
      BY <1>0, <1>1, Zenon DEF Kept
    <2> QED
      BY <2>1
  <1> QED
    BY <1>1, <1>2 DEF FaultIf

\* What the kept boundary rules say.
LEMMA BoundaryRules ==
    ASSUME NEW c, NEW p, Kept(boundaryWithin(c, p))
    PROVE  /\ ~(c.max_impact > p.max_impact)
           /\ ~(c.max_privilege_delta > p.max_privilege_delta)
           /\ DOMAIN c.quotas = DOMAIN p.quotas
           /\ \A k \in DOMAIN p.quotas : ~(c.quotas[k] > p.quotas[k])
           /\ p.exclusions \subseteq c.exclusions
  <1> DEFINE s == boundaryWithin(c, p)
  <1>0. Kept(s)
    OBVIOUS
  <1>1. /\ Len(s) = 5
        /\ s[1] = FaultIf(c.max_impact > p.max_impact, "boundary.max_impact")
        /\ s[2] = FaultIf(c.max_privilege_delta > p.max_privilege_delta,
                          "boundary.max_privilege_delta")
        /\ s[3] = quotaFaults(c, p)
        /\ s[4] = FaultIf(~(DOMAIN c.quotas \subseteq DOMAIN p.quotas),
                          "boundary.quota_not_in_parent")
        /\ s[5] = FaultIf(~(p.exclusions \subseteq c.exclusions),
                          "boundary.exclusion_dropped")
    BY DEF boundaryWithin
  <1> HIDE DEF s
  <1>2. s[1] = {} /\ s[2] = {} /\ s[3] = {} /\ s[4] = {} /\ s[5] = {}
    BY <1>0, <1>1 DEF Kept
  <1>3. /\ ~(c.max_impact > p.max_impact)
        /\ ~(c.max_privilege_delta > p.max_privilege_delta)
        /\ DOMAIN c.quotas \subseteq DOMAIN p.quotas
        /\ p.exclusions \subseteq c.exclusions
    BY <1>1, <1>2 DEF FaultIf
  <1>4. \A k \in DOMAIN p.quotas : k \in DOMAIN c.quotas /\ ~(c.quotas[k] > p.quotas[k])
    BY <1>1, <1>2 DEF FaultIf, quotaFaults
  <1> QED
    BY <1>3, <1>4

\* What the kept obligation rules say.
LEMMA ObligationRules ==
    ASSUME NEW c, NEW p, Kept(obligationsSuperset(c, p)), Len(p) \in Nat
    PROVE  \A i \in 1..Len(p) :
              \E a \in LastAge(c, p[i].category) : ~(a > p[i].max_age_seconds)
  <1> DEFINE s == obligationsSuperset(c, p)
  <1>1. Kept(s)
    OBVIOUS
  <1>2. /\ Len(s) = Len(p)
        /\ \A i \in 1..Len(p) : s[i] =
              (IF LastAge(c, p[i].category) = {} THEN {"obligation.missing"}
               ELSE FaultIf(\E a \in LastAge(c, p[i].category) : a > p[i].max_age_seconds,
                            "obligation.freshness_loosened"))
    BY DEF obligationsSuperset
  <1> HIDE DEF s
  <1>3. \A i \in 1..Len(p) : s[i] = {}
    BY <1>1, <1>2 DEF Kept
  <1> QED
    BY <1>2, <1>3 DEF FaultIf

\* Patterns nest: what a covered pattern matches, the covering one matches, as
\* long as the covering one has no wildcard before its end.
LEMMA PatternsNest ==
    ASSUME NEW p, NEW q, NEW r, Len(p) \in Nat, Len(q) \in Nat, Len(r) \in Nat,
           \A k \in 1..(Len(p) - 1) : p[k] # "*",
           Matches(q, p), Matches(r, q)
    PROVE  Matches(r, p)
  <1>1. CASE p = q
    BY <1>1
  <1>2. CASE q = r
    BY <1>2
  <1>3. CASE p # q /\ q # r
    <2>1. /\ Len(p) > 0 /\ p[Len(p)] = "*" /\ Len(p) - 1 <= Len(q)
          /\ \A i \in 1..(Len(p) - 1) : q[i] = p[i]
      BY <1>3 DEF Matches, StartsWith
    <2>2. /\ Len(q) > 0 /\ q[Len(q)] = "*" /\ Len(q) - 1 <= Len(r)
          /\ \A i \in 1..(Len(q) - 1) : r[i] = q[i]
      BY <1>3 DEF Matches, StartsWith
    <2>3. Len(p) - 1 # Len(q)
      <3> SUFFICES ASSUME Len(p) - 1 = Len(q) PROVE FALSE
        OBVIOUS
      <3>1. Len(q) \in 1..(Len(p) - 1)
        BY <2>2
      <3> QED
        BY <2>1, <2>2, <3>1
    <2>4. Len(p) - 1 <= Len(q) - 1
      BY <2>1, <2>3
    <2>5. Len(p) - 1 <= Len(r) /\ \A i \in 1..(Len(p) - 1) : r[i] = p[i]
      BY <2>1, <2>2, <2>4
    <2> QED
      BY <2>1, <2>5 DEF Matches, StartsWith
  <1> QED
    BY <1>1, <1>2, <1>3

\* The scope and the exclusions kept by one derivation narrow what is covered.
LEMMA OperationNarrows ==
    ASSUME NEW c, NEW p, NEW action, NEW resource, Len(resource) \in Nat,
           Kept(scopeSubset(c.scope, p.scope)),
           p.boundary.exclusions \subseteq c.boundary.exclusions,
           \A r \in c.scope.resources : Len(r) \in Nat,
           \A r \in p.scope.resources : Len(r) \in Nat,
           \A r \in p.scope.resources : \A k \in 1..(Len(r) - 1) : r[k] # "*",
           CoversOperation(c, action, resource)
    PROVE  CoversOperation(p, action, resource)
  <1>1. /\ c.scope.unconstrained \subseteq p.scope.unconstrained
        /\ unconstrains(p.scope, "actions") \/ c.scope.actions \subseteq p.scope.actions
        /\ \/ unconstrains(p.scope, "resources")
           \/ \A r \in c.scope.resources : patternCovered(r, p.scope.resources)
    BY ScopeRules
  <1>2. unconstrains(p.scope, "actions") \/ action \in p.scope.actions
    BY <1>1 DEF CoversOperation, unconstrains
  <1>3. action \notin p.boundary.exclusions
    BY DEF CoversOperation
  <1>4. ASSUME resource # <<>>
        PROVE  /\ \/ unconstrains(p.scope, "resources")
                  \/ patternCovered(resource, p.scope.resources)
               /\ ~hasTraversal(resource)
               /\ resource \notin p.boundary.exclusions
    <2>1. ~hasTraversal(resource) /\ resource \notin p.boundary.exclusions
      BY <1>4 DEF CoversOperation
    <2>2. CASE unconstrains(p.scope, "resources")
      BY <2>1, <2>2
    <2>3. CASE ~unconstrains(p.scope, "resources")
      <3>1. patternCovered(resource, c.scope.resources)
        BY <1>1, <1>4, <2>3 DEF CoversOperation, unconstrains
      <3>2. PICK q \in c.scope.resources : Matches(resource, q)
        BY <3>1 DEF patternCovered
      <3>3. PICK s \in p.scope.resources : Matches(q, s)
        BY <1>1, <2>3 DEF patternCovered
      <3>4. Matches(resource, s)
        BY <3>2, <3>3, PatternsNest
      <3> QED
        BY <2>1, <3>4 DEF patternCovered
    <2> QED
      BY <2>2, <2>3
  <1> QED
    BY <1>2, <1>3, <1>4 DEF CoversOperation

------------------------------------------------------------------------------
(* The walk.                                                                *)

\* The facts about the MATs of a chain the steps use.
LEMMA Numbers ==
    ASSUME chain \in Chains
    PROVE  /\ Len(chain) \in Nat
           /\ \A i \in 1..Len(chain) : NumericMAT(chain[i])
  BY ChainsAssumption

\* A MAT narrows itself.
LEMMA NarrowsItself ==
    ASSUME NEW m, NumericMAT(m)
    PROVE  CeilingsNarrow(m, m) /\ ObligationsNarrow(m, m) /\ OperationsNarrow(m, m)
  <1>1. CeilingsNarrow(m, m) /\ OperationsNarrow(m, m)
    BY DEF NumericMAT, CeilingsNarrow, OperationsNarrow
  <1>2. ObligationsNarrow(m, m)
    <2> SUFFICES ASSUME NEW i \in 1..Len(m.proof_obligations),
                        NEW a \in LastAge(m.proof_obligations, m.proof_obligations[i].category)
                 PROVE  a <= a
      BY DEF ObligationsNarrow
    <2>1. a \in Int
      BY DEF NumericMAT, LastAge
    <2> QED
      BY <2>1
  <1> QED
    BY <1>1, <1>2

\* One derivation narrows the limits.
LEMMA LimitsNarrowOnce ==
    ASSUME NEW c, NEW p, NumericMAT(c), NumericMAT(p), Derives(p, c)
    PROVE  CeilingsNarrow(c, p) /\ ObligationsNarrow(c, p)
  <1>1. CeilingsNarrow(c, p)
    BY GroupsKept, BoundaryRules DEF NumericMAT, CeilingsNarrow
  <1>2. ObligationsNarrow(c, p)
    <2>1. \A i \in 1..Len(p.proof_obligations) :
             \E a \in LastAge(c.proof_obligations, p.proof_obligations[i].category) :
                ~(a > p.proof_obligations[i].max_age_seconds)
      BY GroupsKept, ObligationRules DEF NumericMAT
    <2> SUFFICES ASSUME NEW i \in 1..Len(p.proof_obligations),
                        NEW a \in LastAge(p.proof_obligations, p.proof_obligations[i].category)
                 PROVE  \E b \in LastAge(c.proof_obligations, p.proof_obligations[i].category) :
                           b <= a
      BY DEF ObligationsNarrow
    <2>2. PICK j \in 1..Len(p.proof_obligations) :
             /\ p.proof_obligations[j].category = p.proof_obligations[i].category
             /\ a = p.proof_obligations[j].max_age_seconds
      BY DEF LastAge
    <2>3. PICK b \in LastAge(c.proof_obligations, p.proof_obligations[i].category) : ~(b > a)
      BY <2>1, <2>2
    <2>4. a \in Int /\ b \in Int
      BY <2>2, <2>3 DEF NumericMAT, LastAge
    <2> QED
      BY <2>3, <2>4
  <1> QED
    BY <1>1, <1>2

\* Narrowing composes.
LEMMA LimitsCompose ==
    ASSUME NEW d, NEW c, NEW p, NumericMAT(d), NumericMAT(c), NumericMAT(p),
           CeilingsNarrow(d, c), ObligationsNarrow(d, c),
           CeilingsNarrow(c, p), ObligationsNarrow(c, p)
    PROVE  CeilingsNarrow(d, p) /\ ObligationsNarrow(d, p)
  <1>1. CeilingsNarrow(d, p)
    <2>1. /\ d.boundary.max_impact <= p.boundary.max_impact
          /\ d.boundary.max_privilege_delta <= p.boundary.max_privilege_delta
      BY DEF NumericMAT, CeilingsNarrow
    <2>2. DOMAIN d.boundary.quotas = DOMAIN p.boundary.quotas
      BY DEF CeilingsNarrow
    <2>3. ASSUME NEW k \in DOMAIN p.boundary.quotas
          PROVE  d.boundary.quotas[k] <= p.boundary.quotas[k]
      <3>1. k \in DOMAIN c.boundary.quotas /\ k \in DOMAIN d.boundary.quotas
        BY DEF CeilingsNarrow
      <3>2. /\ d.boundary.quotas[k] <= c.boundary.quotas[k]
            /\ c.boundary.quotas[k] <= p.boundary.quotas[k]
        BY <3>1 DEF CeilingsNarrow
      <3>3. /\ d.boundary.quotas[k] \in Int /\ c.boundary.quotas[k] \in Int
            /\ p.boundary.quotas[k] \in Int
        BY <3>1 DEF NumericMAT
      <3> QED
        BY <3>2, <3>3
    <2> QED
      BY <2>1, <2>2, <2>3 DEF CeilingsNarrow
  <1>2. ObligationsNarrow(d, p)
    <2> SUFFICES ASSUME NEW i \in 1..Len(p.proof_obligations),
                        NEW a \in LastAge(p.proof_obligations, p.proof_obligations[i].category)
                 PROVE  \E b \in LastAge(d.proof_obligations, p.proof_obligations[i].category) :
                           b <= a
      BY DEF ObligationsNarrow
    <2> DEFINE cat == p.proof_obligations[i].category
    <2>1. PICK b \in LastAge(c.proof_obligations, cat) : b <= a
      BY DEF ObligationsNarrow
    <2>2. PICK j \in 1..Len(c.proof_obligations) :
             c.proof_obligations[j].category = cat /\ b = c.proof_obligations[j].max_age_seconds
      BY <2>1 DEF LastAge
    <2>3. PICK e \in LastAge(d.proof_obligations, cat) : e <= b
      BY <2>1, <2>2 DEF ObligationsNarrow
    <2>4. a \in Int /\ b \in Int /\ e \in Int
      BY <2>2, <2>3 DEF NumericMAT, LastAge
    <2> QED
      BY <2>1, <2>3, <2>4
  <1> QED
    BY <1>1, <1>2

\* One derivation narrows the operations, under a parent with plain patterns.
LEMMA OperationsNarrowOnce ==
    ASSUME NEW c, NEW p, NumericMAT(c), NumericMAT(p), Derives(p, c),
           \A r \in p.scope.resources : \A k \in 1..(Len(r) - 1) : r[k] # "*"
    PROVE  OperationsNarrow(c, p)
  <1>1. /\ Kept(scopeSubset(c.scope, p.scope))
        /\ p.boundary.exclusions \subseteq c.boundary.exclusions
    BY GroupsKept, BoundaryRules
  <1> SUFFICES ASSUME NEW op \in Operations, CoversOperation(c, op[1], op[2])
               PROVE  CoversOperation(p, op[1], op[2])
    BY DEF OperationsNarrow
  <1>2. Len(op[2]) \in Nat
    BY OperationsAssumption
  <1>3. /\ \A r \in c.scope.resources : Len(r) \in Nat
        /\ \A r \in p.scope.resources : Len(r) \in Nat
    BY DEF NumericMAT
  <1> QED
    BY <1>1, <1>2, <1>3, OperationNarrows

------------------------------------------------------------------------------
(* The invariant, action by action.                                         *)

LEMMA InitInv == Init => IInv
  <1> SUFFICES ASSUME Init PROVE IInv
    OBVIOUS
  <1>1. chain \in Chains /\ pc = "root" /\ depth = 0 /\ seen = {} /\ fault = NoFault
    BY DEF Init
  <1>2. TypeOK
    BY <1>1 DEF TypeOK
  <1> QED
    BY <1>1, <1>2 DEF IInv, Walking

\* A rejection ends the walk.
LEMMA RejectInv ==
    ASSUME IInv, NEW path, Reject(path)
    PROVE  IInv'
  <1>1. /\ pc' = "rejected" /\ UNCHANGED <<chain, depth, seen>>
        /\ TypeOK /\ chain \in Chains
    BY DEF IInv, Reject
  <1>2. TypeOK'
    BY <1>1 DEF TypeOK
  <1> QED
    BY <1>1, <1>2 DEF IInv, Walking

\* Steps that validate no derivation leave what has been narrowed alone.
LEMMA NarrowedStays ==
    ASSUME Narrowed, UNCHANGED <<chain, depth>>
    PROVE  Narrowed'
  <1>1. chain' = chain /\ Parent' = Parent /\ (PlainPatterns' <=> PlainPatterns)
    BY DEF Parent, PlainPatterns
  <1> QED
    BY <1>1 DEF Narrowed

LEMMA RootInv == ASSUME IInv, Root PROVE IInv'
  <1>1. /\ pc = "root" /\ depth = 0 /\ fault = NoFault
        /\ chain \in Chains /\ Len(chain) \in Nat
    BY Numbers DEF Root, IInv, TypeOK
  <1>2. CASE \E path : Reject(path)
    BY <1>2, RejectInv
  <1>3. CASE ~\E path : Reject(path)
    <2>1. /\ Len(chain) # 0 /\ chain[1].parent_id = NoParent
          /\ pc' = "link" /\ seen' = {chain[1].id}
          /\ UNCHANGED <<chain, depth, fault>>
      BY <1>3 DEF Root
    <2>2. 1 \in 1..Len(chain)
      BY <1>1, <2>1
    <2>3. TypeOK'
      BY <1>1, <2>1, <2>2 DEF TypeOK
    <2>4. Path'
      <3>1. Passed' = 1 /\ depth' = 0
        BY <1>1, <2>1 DEF Passed
      <3> QED
        BY <2>1, <3>1 DEF Path
    <2>5. Narrowed'
      <3>1. Parent' = chain[1] /\ chain' = chain
        BY <1>1, <2>1 DEF Parent
      <3>2. NumericMAT(chain[1])
        BY <1>1, <2>2, Numbers
      <3> QED
        BY <3>1, <3>2, NarrowsItself DEF Narrowed
    <2> QED
      BY <1>1, <2>1, <2>3, <2>4, <2>5 DEF IInv
  <1> QED
    BY <1>2, <1>3

LEMMA LinkInv == ASSUME IInv, Link PROVE IInv'
  <1>1. /\ pc = "link" /\ depth + 1 < Len(chain) /\ depth \in Nat /\ fault = NoFault
        /\ TypeOK /\ chain \in Chains /\ Len(chain) \in Nat /\ Path /\ Narrowed
    BY Numbers DEF Link, IInv, TypeOK, Walking
  <1>2. CASE \E path : Reject(path)
    BY <1>2, RejectInv
  <1>3. CASE ~\E path : Reject(path)
    <2>1. /\ chain[depth + 2].parent_id = chain[depth + 1].id
          /\ chain[depth + 2].id \notin seen
          /\ pc' = "depth" /\ seen' = seen \cup {chain[depth + 2].id}
          /\ UNCHANGED <<chain, depth, fault>>
      BY <1>3 DEF Link, Parent, Child
    <2>2. depth + 2 \in 1..Len(chain) /\ depth + 1 \in 1..Len(chain)
      BY <1>1
    <2>3. TypeOK'
      BY <1>1, <2>1, <2>2 DEF TypeOK
    <2>4. Path'
      <3>1. Passed = depth + 1 /\ Passed' = depth + 2
        BY <1>1, <2>1 DEF Passed
      <3>2. \A i \in 1..(depth + 2) : i \in 1..(depth + 1) \/ i = depth + 2
        BY <1>1
      <3>3. \A i \in 1..(depth + 1) : i \in 1..(depth + 2)
        BY <1>1
      <3>4. depth + 2 \in 1..(depth + 2)
        BY <1>1
      <3>5. /\ \A i \in 1..(depth + 2) : chain[i].id \in seen'
            /\ \A x \in seen' : \E i \in 1..(depth + 2) : x = chain[i].id
        BY <1>1, <2>1, <3>1, <3>2, <3>3, <3>4 DEF Path
      <3>6. \A i, j \in 1..(depth + 2) : chain[i].id = chain[j].id => i = j
        BY <1>1, <2>1, <3>1, <3>2 DEF Path
      <3>7. \A i \in 1..(depth + 1) : chain[i+1].parent_id = chain[i].id
        <4>1. \A i \in 1..(depth + 1) : i \in 1..(depth + 1 - 1) \/ i = depth + 1
          BY <1>1
        <4>2. \A i \in 1..(depth + 1 - 1) : chain[i+1].parent_id = chain[i].id
          BY <1>1, <3>1 DEF Path
        <4>3. chain[depth + 1 + 1].parent_id = chain[depth + 1].id
          <5>1. depth + 1 + 1 = depth + 2
            BY <1>1
          <5> QED
            BY <2>1, <5>1
        <4> QED
          BY <4>1, <4>2, <4>3
      <3>8. /\ chain[1].parent_id = NoParent /\ \A i \in 1..depth : chain[i].delegation.allowed
            /\ depth > 0 => depth <= chain[1].delegation.max_depth
        BY <1>1 DEF Path
      <3>9. \A i \in 1..(Passed' - 1) : chain'[i+1].parent_id = chain'[i].id
        <4>1. Passed' - 1 = depth + 1 /\ chain' = chain
          BY <1>1, <2>1, <3>1
        <4> QED
          BY <3>7, <4>1, Zenon
      <3>10. /\ \A i \in 1..Passed' : chain'[i].id \in seen'
             /\ \A x \in seen' : \E i \in 1..Passed' : x = chain'[i].id
             /\ \A i, j \in 1..Passed' : chain'[i].id = chain'[j].id => i = j
        BY <2>1, <3>1, <3>5, <3>6
      <3>11. /\ chain'[1].parent_id = NoParent /\ \A i \in 1..depth' : chain'[i].delegation.allowed
             /\ depth' > 0 => depth' <= chain'[1].delegation.max_depth
        BY <2>1, <3>8
      <3> QED
        BY <2>1, <3>9, <3>10, <3>11, Zenon DEF Path
    <2>5. Narrowed'
      BY <1>1, <2>1, NarrowedStays
    <2> QED
      BY <1>1, <2>1, <2>3, <2>4, <2>5 DEF IInv
  <1> QED
    BY <1>2, <1>3

LEMMA DepthInv == ASSUME IInv, Depth PROVE IInv'
  <1>1. /\ pc = "depth" /\ depth \in Nat /\ fault = NoFault /\ TypeOK /\ chain \in Chains
        /\ depth + 2 \in 1..Len(chain) /\ Path /\ Narrowed
    BY DEF Depth, IInv, TypeOK, Walking
  <1>2. CASE \E path : Reject(path)
    BY <1>2, RejectInv
  <1>3. CASE ~\E path : Reject(path)
    <2>1. /\ ~(depth + 1 > chain[1].delegation.max_depth)
          /\ pc' = "derive" /\ UNCHANGED <<chain, depth, seen, fault>>
      BY <1>3 DEF Depth
    <2>2. depth + 1 <= chain[1].delegation.max_depth
      <3>1. Len(chain) \in Nat /\ 1 \in 1..Len(chain)
        BY <1>1, Numbers
      <3>2. chain[1].delegation.max_depth \in Int
        BY <1>1, <3>1, Numbers DEF NumericMAT
      <3> QED
        BY <1>1, <2>1, <3>2
    <2>3. TypeOK'
      BY <1>1, <2>1 DEF TypeOK
    <2>4. Path'
      <3>1. Passed' = Passed
        BY <1>1, <2>1 DEF Passed
      <3> QED
        BY <1>1, <2>1, <2>2, <3>1 DEF Path
    <2>5. Narrowed'
      BY <1>1, <2>1, NarrowedStays
    <2> QED
      BY <1>1, <2>1, <2>3, <2>4, <2>5 DEF IInv
  <1> QED
    BY <1>2, <1>3

LEMMA DeriveInv == ASSUME IInv, Derive PROVE IInv'
  <1>1. /\ pc = "derive" /\ depth \in Nat /\ fault = NoFault /\ TypeOK /\ chain \in Chains
        /\ Len(chain) \in Nat /\ depth + 2 \in 1..Len(chain) /\ Path /\ Narrowed
    BY Numbers DEF Derive, IInv, TypeOK, Walking
  <1>2. CASE \E path : Reject(path)
    BY <1>2, RejectInv
  <1>3. CASE ~\E path : Reject(path)
    <2>1. /\ Derives(Parent, Child) /\ pc' = "link" /\ depth' = depth + 1
          /\ UNCHANGED <<chain, seen, fault>>
      BY <1>3 DEF Derive
    <2>2. TypeOK'
      BY <1>1, <2>1 DEF TypeOK
    <2>3. Parent.delegation.allowed
      BY <2>1, GroupsKept
    <2>4. Path'
      <3>1. Passed = depth + 2 /\ Passed' = depth + 2
        BY <1>1, <2>1 DEF Passed
      <3>2. \A i \in 1..(depth + 1) : chain[i].delegation.allowed
        <4>1. \A i \in 1..(depth + 1) : i \in 1..depth \/ i = depth + 1
          BY <1>1
        <4> QED
          BY <1>1, <2>3, <4>1 DEF Path, Parent
      <3> QED
        BY <1>1, <2>1, <3>1, <3>2 DEF Path
    <2>5. Narrowed'
      <3>1. /\ chain' = chain /\ Parent' = Child
            /\ 1 \in 1..Len(chain) /\ depth + 1 \in 1..Len(chain)
        <4>1. depth' + 1 = depth + 2
          BY <1>1, <2>1
        <4> QED
          BY <1>1, <2>1, <4>1 DEF Parent, Child
      <3>2. NumericMAT(chain[1]) /\ NumericMAT(Parent) /\ NumericMAT(Child)
        BY <1>1, <3>1, Numbers DEF Parent, Child
      <3>3. CeilingsNarrow(Child, chain[1]) /\ ObligationsNarrow(Child, chain[1])
        <4>1. CeilingsNarrow(Child, Parent) /\ ObligationsNarrow(Child, Parent)
          BY <2>1, <3>2, LimitsNarrowOnce
        <4>2. CeilingsNarrow(Parent, chain[1]) /\ ObligationsNarrow(Parent, chain[1])
          BY <1>1 DEF Narrowed
        <4> HIDE DEF Parent, Child
        <4> QED
          BY <3>2, <4>1, <4>2, LimitsCompose
      <3>4. ASSUME PlainPatterns PROVE OperationsNarrow(Child, chain[1])
        <4>1. OperationsNarrow(Child, Parent)
          <5>1. \A r \in Parent.scope.resources : \A k \in 1..(Len(r) - 1) : r[k] # "*"
            BY <3>1, <3>4 DEF PlainPatterns, Parent
          <5> QED
            BY <2>1, <3>2, <5>1, OperationsNarrowOnce
        <4>2. OperationsNarrow(Parent, chain[1])
          BY <1>1, <3>4 DEF Narrowed
        <4> QED
          BY <4>1, <4>2 DEF OperationsNarrow
      <3>5. PlainPatterns' <=> PlainPatterns
        BY <3>1 DEF PlainPatterns
      <3> QED
        BY <3>1, <3>3, <3>4, <3>5 DEF Narrowed
    <2> QED
      BY <1>1, <2>1, <2>2, <2>4, <2>5 DEF IInv
  <1> QED
    BY <1>2, <1>3

LEMMA AcceptInv == ASSUME IInv, Accept PROVE IInv'
  <1>1. /\ pc = "link" /\ depth + 1 = Len(chain) /\ depth \in Nat /\ fault = NoFault
        /\ TypeOK /\ chain \in Chains /\ Path /\ Narrowed
        /\ pc' = "accepted" /\ UNCHANGED <<chain, depth, seen, fault>>
    BY DEF Accept, IInv, TypeOK, Walking
  <1>2. TypeOK'
    BY <1>1 DEF TypeOK
  <1>3. Path'
    <2>1. Passed' = Passed
      BY <1>1 DEF Passed
    <2> QED
      BY <1>1, <2>1 DEF Path
  <1>4. Narrowed'
    BY <1>1, NarrowedStays
  <1> QED
    BY <1>1, <1>2, <1>3, <1>4 DEF IInv

\* The invariant holds in every state.
LEMMA Invariance == Spec => []IInv
  <1>1. ASSUME IInv, [Next]_vars PROVE IInv'
    <2>1. CASE Root
      BY <1>1, <2>1, RootInv
    <2>2. CASE Link
      BY <1>1, <2>2, LinkInv
    <2>3. CASE Depth
      BY <1>1, <2>3, DepthInv
    <2>4. CASE Derive
      BY <1>1, <2>4, DeriveInv
    <2>5. CASE Accept
      BY <1>1, <2>5, AcceptInv
    <2>6. CASE UNCHANGED vars
      <3>1. UNCHANGED <<chain, pc, depth, seen, fault>>
        BY <2>6 DEF vars
      <3>2. TypeOK'
        BY <1>1, <3>1 DEF IInv, TypeOK
      <3>3. ASSUME pc \in Walking PROVE Path' /\ Narrowed'
        <4>1. Path /\ Narrowed
          BY <1>1, <3>3 DEF IInv
        <4>2. Passed' = Passed
          BY <3>1 DEF Passed
        <4> QED
          BY <3>1, <4>1, <4>2, NarrowedStays DEF Path
      <3> QED
        BY <1>1, <3>1, <3>2, <3>3 DEF IInv, Walking
    <2> QED
      BY <1>1, <2>1, <2>2, <2>3, <2>4, <2>5, <2>6 DEF Next
  <1> QED
    BY <1>1, InitInv, PTL DEF Spec

------------------------------------------------------------------------------
(* What follows.                                                            *)

\* Type correctness of the walk.
THEOREM TypeCorrect == Spec => []TypeOK
  <1>1. IInv => TypeOK
    BY DEF IInv
  <1> QED
    BY <1>1, Invariance, PTL

\* An accepted chain is a path of distinct MATs from a root, every one but the
\* last allowed to delegate, no longer than the root allows
\* (delegation.go:448-489).
THEOREM AcceptsPaths == Spec => []AcceptedChainIsPath
  <1>1. ASSUME IInv PROVE AcceptedChainIsPath
    <2> SUFFICES ASSUME pc = "accepted"
                 PROVE  /\ Len(chain) > 0 /\ chain[1].parent_id = NoParent
                        /\ \A i \in 1..(Len(chain) - 1) :
                              /\ chain[i+1].parent_id = chain[i].id
                              /\ chain[i].delegation.allowed
                        /\ \A i, j \in 1..Len(chain) : chain[i].id = chain[j].id => i = j
                        /\ Len(chain) > 1 => Len(chain) - 1 <= chain[1].delegation.max_depth
      BY DEF AcceptedChainIsPath
    <2>1. /\ Path /\ depth \in Nat
      BY <1>1 DEF IInv, TypeOK, Walking
    <2>2. depth + 1 = Len(chain) /\ Passed = Len(chain)
      BY <2>1 DEF Path, Passed
    <2>3. Len(chain) - 1 = depth
      BY <2>1, <2>2
    <2> QED
      BY <2>1, <2>2, <2>3 DEF Path
  <1> QED
    BY <1>1, Invariance, PTL

\* An accepted leaf has no higher ceiling and no laxer obligation than its root,
\* across any number of derivations (delegation.go:251-288, 428-446).
THEOREM LimitsNarrow == Spec => []LeafLimitsNarrow
  <1>1. ASSUME IInv PROVE LeafLimitsNarrow
    <2>1. pc = "accepted" => Narrowed /\ Leaf = Parent
      BY <1>1 DEF IInv, Walking, Path, Leaf, Parent
    <2> QED
      BY <2>1 DEF LeafLimitsNarrow, Narrowed
  <1> QED
    BY <1>1, Invariance, PTL

\* Where wildcards only end patterns, an accepted leaf covers no operation its
\* root does not, across any number of derivations (delegation.go:143-198).
THEOREM ScopeNarrows == Spec => []LeafOperationsNarrow
  <1>1. ASSUME IInv PROVE LeafOperationsNarrow
    <2>1. pc = "accepted" => Narrowed /\ Leaf = Parent
      BY <1>1 DEF IInv, Walking, Path, Leaf, Parent
    <2> QED
      BY <2>1 DEF LeafOperationsNarrow, Narrowed
  <1> QED
    BY <1>1, Invariance, PTL
------------------------------------------------------------------------------
(* The first fault.                                                         *)

\* Nothing before the place the walk has reached is at fault; what it rejects
\* for is there.
FirstInv ==
    /\ pc \in Walking =>
          /\ RootFaults(chain) = {}
          /\ \A k \in 2..(depth + 1) : LinkFaults(chain, k) = {}
    /\ pc = "rejected" => fault \in ChainFaults(chain)

\* A stage with none broken before it may report its faults.
LEMMA FirstReported ==
    ASSUME NEW g, NEW i \in 1..Len(g), \A k \in 1..(i-1) : g[k] = {}
    PROVE  g[i] \subseteq FirstBroken(g)
  BY DEF FirstBroken

\* A group without a broken stage reports nothing.
LEMMA KeptReportsNothing ==
    ASSUME NEW g, Kept(g)
    PROVE  FirstBroken(g) = {}
  BY DEF FirstBroken, Kept

\* A derivation that keeps every rule has no fault.
LEMMA DerivesFaultless ==
    ASSUME NEW p, NEW c, Derives(p, c)
    PROVE  ValidateDerivation(p, c) = {}
  <1> DEFINE groups == RuleGroups(p, c)
  <1>1. \A g \in 1..5 : FirstBroken(groups[g]) = {}
    BY KeptReportsNothing DEF Derives
  <1> QED
    BY <1>1 DEF ValidateDerivation

\* The stages of a link.
Stages(ch, i) ==
    <<FaultIf(ch[i].parent_id # ch[i-1].id, "chain.link_break"),
      FaultIf(\E j \in 1..(i-1) : ch[j].id = ch[i].id, "chain.cycle"),
      FaultIf(ch[1].delegation.max_depth <= 0, "chain.depth_unstated"),
      FaultIf(i - 1 > ch[1].delegation.max_depth, "chain.depth_exceeded"),
      ValidateDerivation(ch[i-1], ch[i])>>

LEMMA StagesOfLink ==
    ASSUME NEW ch, NEW i
    PROVE  LinkFaults(ch, i) = FirstBroken(Stages(ch, i)) /\ Len(Stages(ch, i)) = 5
  BY DEF LinkFaults, Stages

\* What the walk may report at a link, rule by rule.
LEMMA LinkFaultIn ==
    ASSUME NEW ch, NEW i
    PROVE  /\ ch[i].parent_id # ch[i-1].id => "chain.link_break" \in LinkFaults(ch, i)
           /\ ch[i].parent_id = ch[i-1].id =>
              /\ (\E j \in 1..(i-1) : ch[j].id = ch[i].id) =>
                    "chain.cycle" \in LinkFaults(ch, i)
              /\ ~(\E j \in 1..(i-1) : ch[j].id = ch[i].id) =>
                 /\ ch[1].delegation.max_depth <= 0 =>
                       "chain.depth_unstated" \in LinkFaults(ch, i)
                 /\ ~(ch[1].delegation.max_depth <= 0) =>
                    /\ i - 1 > ch[1].delegation.max_depth =>
                          "chain.depth_exceeded" \in LinkFaults(ch, i)
                    /\ ~(i - 1 > ch[1].delegation.max_depth) =>
                          ValidateDerivation(ch[i-1], ch[i]) \subseteq LinkFaults(ch, i)
  <1> DEFINE g == Stages(ch, i)
             broken == ch[i].parent_id # ch[i-1].id
             repeat == \E j \in 1..(i-1) : ch[j].id = ch[i].id
             unstatedDepth == ch[1].delegation.max_depth <= 0
             tooDeep == i - 1 > ch[1].delegation.max_depth
  <1>1. /\ g[1] = FaultIf(broken, "chain.link_break")
        /\ g[2] = FaultIf(repeat, "chain.cycle")
        /\ g[3] = FaultIf(unstatedDepth, "chain.depth_unstated")
        /\ g[4] = FaultIf(tooDeep, "chain.depth_exceeded")
        /\ g[5] = ValidateDerivation(ch[i-1], ch[i])
        /\ Len(g) = 5
    BY DEF Stages
  <1>2. LinkFaults(ch, i) = FirstBroken(g)
    BY StagesOfLink
  <1> HIDE DEF g, broken, repeat, unstatedDepth, tooDeep
  <1>3. \A n \in 1..5 : (\A k \in 1..(n-1) : g[k] = {}) => g[n] \subseteq LinkFaults(ch, i)
    <2> SUFFICES ASSUME NEW n \in 1..5, \A k \in 1..(n-1) : g[k] = {}
                 PROVE  g[n] \subseteq FirstBroken(g)
      BY <1>2
    <2>1. n \in 1..Len(g)
      BY <1>1
    <2> QED
      BY <2>1, FirstReported
  <1>4. /\ g[1] \subseteq LinkFaults(ch, i)
        /\ g[1] = {} => g[2] \subseteq LinkFaults(ch, i)
        /\ g[1] = {} /\ g[2] = {} => g[3] \subseteq LinkFaults(ch, i)
        /\ g[1] = {} /\ g[2] = {} /\ g[3] = {} => g[4] \subseteq LinkFaults(ch, i)
        /\ g[1] = {} /\ g[2] = {} /\ g[3] = {} /\ g[4] = {} => g[5] \subseteq LinkFaults(ch, i)
    <2>1. g[1] \subseteq LinkFaults(ch, i)
      BY <1>3
    <2>2. g[1] = {} => g[2] \subseteq LinkFaults(ch, i)
      <3>1. \A k \in 1..(2-1) : k = 1
        OBVIOUS
      <3> QED
        BY <1>3, <3>1
    <2>3. g[1] = {} /\ g[2] = {} => g[3] \subseteq LinkFaults(ch, i)
      <3>1. \A k \in 1..(3-1) : k = 1 \/ k = 2
        OBVIOUS
      <3> QED
        BY <1>3, <3>1
    <2>4. g[1] = {} /\ g[2] = {} /\ g[3] = {} => g[4] \subseteq LinkFaults(ch, i)
      <3>1. \A k \in 1..(4-1) : k = 1 \/ k = 2 \/ k = 3
        OBVIOUS
      <3> QED
        BY <1>3, <3>1
    <2>5. g[1] = {} /\ g[2] = {} /\ g[3] = {} /\ g[4] = {} => g[5] \subseteq LinkFaults(ch, i)
      <3>1. \A k \in 1..(5-1) : k = 1 \/ k = 2 \/ k = 3 \/ k = 4
        OBVIOUS
      <3> QED
        BY <1>3, <3>1
    <2> QED
      BY <2>1, <2>2, <2>3, <2>4, <2>5
  <1>5. /\ broken => "chain.link_break" \in LinkFaults(ch, i)
        /\ ~broken /\ repeat => "chain.cycle" \in LinkFaults(ch, i)
        /\ ~broken /\ ~repeat /\ unstatedDepth => "chain.depth_unstated" \in LinkFaults(ch, i)
        /\ ~broken /\ ~repeat /\ ~unstatedDepth /\ tooDeep =>
              "chain.depth_exceeded" \in LinkFaults(ch, i)
        /\ ~broken /\ ~repeat /\ ~unstatedDepth /\ ~tooDeep =>
              ValidateDerivation(ch[i-1], ch[i]) \subseteq LinkFaults(ch, i)
    BY <1>1, <1>4 DEF FaultIf
  <1> QED
    BY <1>5 DEF broken, repeat, unstatedDepth, tooDeep

\* A link that keeps every rule has no fault.
LEMMA LinkFaultless ==
    ASSUME NEW ch, NEW i,
           ch[i].parent_id = ch[i-1].id, ~\E j \in 1..(i-1) : ch[j].id = ch[i].id,
           ~(ch[1].delegation.max_depth <= 0), ~(i - 1 > ch[1].delegation.max_depth),
           Derives(ch[i-1], ch[i])
    PROVE  LinkFaults(ch, i) = {}
  <1> DEFINE g == Stages(ch, i)
  <1>1. ValidateDerivation(ch[i-1], ch[i]) = {}
    BY DerivesFaultless
  <1>2. g[1] = {} /\ g[2] = {} /\ g[3] = {} /\ g[4] = {} /\ g[5] = {} /\ Len(g) = 5
    BY <1>1 DEF Stages, FaultIf
  <1> HIDE DEF g
  <1>3. Kept(g)
    BY <1>2 DEF Kept
  <1> QED
    BY <1>3, StagesOfLink, KeptReportsNothing DEF g

\* The fault of the first bad link is a fault of the chain.
LEMMA FirstBadLink ==
    ASSUME NEW ch, NEW i \in 2..Len(ch), NEW path \in LinkFaults(ch, i),
           RootFaults(ch) = {}, \A k \in 2..(i-1) : LinkFaults(ch, k) = {}
    PROVE  path \in ChainFaults(ch)
  BY DEF ChainFaults

\* The faults of a root.
LEMMA RootFaultIn ==
    ASSUME NEW ch
    PROVE  /\ Len(ch) = 0 => "chain.empty" \in RootFaults(ch)
           /\ Len(ch) # 0 =>
              /\ ch[1].parent_id # NoParent => "chain.not_root" \in RootFaults(ch)
              /\ ch[1].parent_id = NoParent =>
                 /\ ~validateConstraintIDs(ch[1].constraints) => Unnamed \in RootFaults(ch)
                 /\ validateConstraintIDs(ch[1].constraints) => RootFaults(ch) = {}
  <1> DEFINE ids == validateConstraintIDs(ch[1].constraints)
             hasParent == ch[1].parent_id # NoParent
             g == <<FaultIf(hasParent, "chain.not_root"), FaultIf(~ids, Unnamed)>>
  <1>1. /\ Len(g) = 2 /\ g[1] = FaultIf(hasParent, "chain.not_root")
        /\ g[2] = FaultIf(~ids, Unnamed)
    OBVIOUS
  <1>2. RootFaults(ch) = IF Len(ch) = 0 THEN {"chain.empty"} ELSE FirstBroken(g)
    BY DEF RootFaults
  <1> HIDE DEF g, ids, hasParent
  <1>3. g[1] \subseteq FirstBroken(g) /\ (g[1] = {} => g[2] \subseteq FirstBroken(g))
    <2>1. g[1] \subseteq FirstBroken(g)
      <3>1. 1 \in 1..Len(g) /\ \A k \in 1..(1-1) : g[k] = {}
        BY <1>1
      <3> QED
        BY <3>1, FirstReported
    <2>2. ASSUME g[1] = {} PROVE g[2] \subseteq FirstBroken(g)
      <3>1. 2 \in 1..Len(g) /\ \A k \in 1..(2-1) : g[k] = {}
        BY <1>1, <2>2
      <3> QED
        BY <3>1, FirstReported
    <2> QED
      BY <2>1, <2>2
  <1>4. g[1] = {} /\ g[2] = {} => FirstBroken(g) = {}
    BY <1>1, KeptReportsNothing DEF Kept
  <1>5. /\ hasParent => "chain.not_root" \in FirstBroken(g)
        /\ ~hasParent => /\ ~ids => Unnamed \in FirstBroken(g)
                         /\ ids => FirstBroken(g) = {}
    BY <1>1, <1>3, <1>4, Zenon DEF FaultIf
  <1> QED
    BY <1>2, <1>5 DEF ids, hasParent

LEMMA FirstInit == Init => FirstInv
  BY DEF Init, FirstInv, Walking

LEMMA FirstRoot == ASSUME IInv, FirstInv, Root PROVE FirstInv'
  <1>1. pc = "root" /\ depth = 0
    BY DEF Root, IInv
  <1>2. CASE Len(chain) = 0 \/ chain[1].parent_id # NoParent
                \/ ~validateConstraintIDs(chain[1].constraints)
    <2>1. pc' = "rejected" /\ chain' = chain /\ fault' \in RootFaults(chain)
      BY <1>2, RootFaultIn DEF Root, Reject
    <2>2. fault' \in ChainFaults(chain)
      BY <2>1 DEF ChainFaults
    <2> QED
      BY <2>1, <2>2 DEF FirstInv, Walking
  <1>3. CASE ~(Len(chain) = 0 \/ chain[1].parent_id # NoParent
                 \/ ~validateConstraintIDs(chain[1].constraints))
    <2>1. pc' = "link" /\ chain' = chain /\ depth' = 0 /\ RootFaults(chain) = {}
      BY <1>1, <1>3, RootFaultIn DEF Root
    <2>2. 2..(0 + 1) = {}
      OBVIOUS
    <2> QED
      BY <2>1, <2>2 DEF FirstInv, Walking
  <1> QED
    BY <1>2, <1>3

\* A step that rejects for a fault of the link it has reached.
LEMMA RejectsAtLink ==
    ASSUME IInv, FirstInv, pc \in Walking, depth + 1 < Len(chain),
           NEW path \in LinkFaults(chain, depth + 2), Reject(path)
    PROVE  FirstInv'
  <1>1. pc' = "rejected" /\ fault' = path /\ chain' = chain
    BY DEF Reject
  <1>2. /\ depth \in Nat /\ Len(chain) \in Nat /\ RootFaults(chain) = {}
        /\ \A k \in 2..(depth + 1) : LinkFaults(chain, k) = {}
    BY Numbers DEF IInv, TypeOK, FirstInv
  <1>3. depth + 2 \in 2..Len(chain) /\ (depth + 2) - 1 = depth + 1
    BY <1>2
  <1>4. path \in ChainFaults(chain)
    BY <1>2, <1>3, FirstBadLink
  <1> QED
    BY <1>1, <1>4 DEF FirstInv, Walking

\* Where the walk stands, in terms of the chain.
LEMMA Standing ==
    ASSUME IInv, pc \in {"link", "depth", "derive"}, depth + 1 < Len(chain)
    PROVE  /\ depth \in Nat /\ Len(chain) \in Nat
           /\ (depth + 2) - 1 = depth + 1
           /\ Parent = chain[(depth + 2) - 1] /\ Child = chain[depth + 2]
           /\ pc = "link" => (Child.id \in seen <=>
                                \E j \in 1..((depth + 2) - 1) : chain[j].id = chain[depth + 2].id)
           /\ pc # "link" => /\ chain[depth + 2].parent_id = chain[(depth + 2) - 1].id
                             /\ ~\E j \in 1..((depth + 2) - 1) : chain[j].id = chain[depth + 2].id
           /\ pc = "derive" => /\ ~(chain[1].delegation.max_depth <= 0)
                               /\ ~((depth + 2) - 1 > chain[1].delegation.max_depth)
  <1>1. depth \in Nat /\ Len(chain) \in Nat /\ Path
    BY Numbers DEF IInv, TypeOK, Walking
  <1>2. (depth + 2) - 1 = depth + 1
    BY <1>1
  <1>3. Parent = chain[(depth + 2) - 1] /\ Child = chain[depth + 2]
    BY <1>2 DEF Parent, Child
  <1>4. ASSUME pc = "link"
        PROVE  Child.id \in seen <=>
                  \E j \in 1..((depth + 2) - 1) : chain[j].id = chain[depth + 2].id
    <2>1. Passed = depth + 1
      BY <1>4 DEF Passed
    <2> QED
      BY <1>1, <1>2, <1>3, <2>1 DEF Path
  <1>5. ASSUME pc # "link"
        PROVE  /\ chain[depth + 2].parent_id = chain[(depth + 2) - 1].id
               /\ ~\E j \in 1..((depth + 2) - 1) : chain[j].id = chain[depth + 2].id
    <2>1. Passed = depth + 2
      BY <1>5 DEF Passed
    <2>2. depth + 1 \in 1..(Passed - 1) /\ (depth + 1) + 1 = depth + 2
      BY <1>1, <2>1
    <2>3. chain[depth + 2].parent_id = chain[depth + 1].id
      BY <1>1, <2>2 DEF Path
    <2>4. \A j \in 1..(depth + 1) : j \in 1..Passed /\ depth + 2 \in 1..Passed /\ j # depth + 2
      BY <1>1, <2>1
    <2>5. ~\E j \in 1..(depth + 1) : chain[j].id = chain[depth + 2].id
      BY <1>1, <2>4 DEF Path
    <2> QED
      BY <1>2, <2>3, <2>5
  <1>6. ASSUME pc = "derive"
        PROVE  /\ ~(chain[1].delegation.max_depth <= 0)
               /\ ~((depth + 2) - 1 > chain[1].delegation.max_depth)
    <2>1. depth + 1 <= chain[1].delegation.max_depth
      BY <1>1, <1>6 DEF Path
    <2>2. chain[1].delegation.max_depth \in Int
      <3>1. 1 \in 1..Len(chain) /\ chain \in Chains
        BY <1>1 DEF IInv
      <3> QED
        BY <3>1, Numbers DEF NumericMAT
    <2> QED
      BY <1>1, <1>2, <2>1, <2>2
  <1> QED
    BY <1>1, <1>2, <1>3, <1>4, <1>5, <1>6

LEMMA FirstLink == ASSUME IInv, FirstInv, Link PROVE FirstInv'
  <1>1. pc = "link" /\ pc \in Walking /\ depth + 1 < Len(chain)
    BY DEF Link, Walking
  <1>2. /\ Parent = chain[(depth + 2) - 1] /\ Child = chain[depth + 2]
        /\ (Child.id \in seen <=>
               \E j \in 1..((depth + 2) - 1) : chain[j].id = chain[depth + 2].id)
    BY <1>1, Standing
  <1>3. CASE Child.parent_id # Parent.id
    <2>1. Reject("chain.link_break")
      BY <1>3 DEF Link
    <2>2. "chain.link_break" \in LinkFaults(chain, depth + 2)
      BY <1>2, <1>3, LinkFaultIn
    <2> QED
      BY <1>1, <2>1, <2>2, RejectsAtLink
  <1>4. CASE Child.parent_id = Parent.id /\ Child.id \in seen
    <2>1. Reject("chain.cycle")
      BY <1>4 DEF Link
    <2>2. "chain.cycle" \in LinkFaults(chain, depth + 2)
      BY <1>2, <1>4, LinkFaultIn
    <2> QED
      BY <1>1, <2>1, <2>2, RejectsAtLink
  <1>5. CASE Child.parent_id = Parent.id /\ Child.id \notin seen
    <2>1. pc' = "depth" /\ UNCHANGED <<chain, depth>>
      BY <1>5 DEF Link
    <2> QED
      BY <1>1, <2>1 DEF FirstInv, Walking
  <1> QED
    BY <1>3, <1>4, <1>5

LEMMA FirstDepth == ASSUME IInv, FirstInv, Depth PROVE FirstInv'
  <1>1. pc = "depth" /\ pc \in Walking /\ depth \in Nat /\ Len(chain) \in Nat
        /\ depth + 1 < Len(chain)
    BY Numbers DEF Depth, Walking, IInv, TypeOK
  <1>2. /\ (depth + 2) - 1 = depth + 1
        /\ chain[depth + 2].parent_id = chain[(depth + 2) - 1].id
        /\ ~\E j \in 1..((depth + 2) - 1) : chain[j].id = chain[depth + 2].id
    BY <1>1, Standing
  <1>3. CASE chain[1].delegation.max_depth <= 0
    <2>1. Reject("chain.depth_unstated")
      BY <1>3 DEF Depth
    <2>2. "chain.depth_unstated" \in LinkFaults(chain, depth + 2)
      BY <1>2, <1>3, LinkFaultIn
    <2> QED
      BY <1>1, <2>1, <2>2, RejectsAtLink
  <1>4. CASE ~(chain[1].delegation.max_depth <= 0) /\ depth + 1 > chain[1].delegation.max_depth
    <2>1. Reject("chain.depth_exceeded")
      BY <1>4 DEF Depth
    <2>2. (depth + 2) - 1 > chain[1].delegation.max_depth
      BY <1>2, <1>4
    <2>3. "chain.depth_exceeded" \in LinkFaults(chain, depth + 2)
      BY <1>2, <1>4, <2>2, LinkFaultIn
    <2> QED
      BY <1>1, <2>1, <2>3, RejectsAtLink
  <1>5. CASE ~(chain[1].delegation.max_depth <= 0) /\ ~(depth + 1 > chain[1].delegation.max_depth)
    <2>1. pc' = "derive" /\ UNCHANGED <<chain, depth>>
      BY <1>5 DEF Depth
    <2> QED
      BY <1>1, <2>1 DEF FirstInv, Walking
  <1> QED
    BY <1>3, <1>4, <1>5

LEMMA FirstDerive == ASSUME IInv, FirstInv, Derive PROVE FirstInv'
  <1>1. pc = "derive" /\ pc \in Walking /\ depth \in Nat /\ Len(chain) \in Nat
        /\ depth + 1 < Len(chain)
    BY Numbers DEF Derive, Walking, IInv, TypeOK
  <1>2. /\ (depth + 2) - 1 = depth + 1
        /\ Parent = chain[(depth + 2) - 1] /\ Child = chain[depth + 2]
        /\ chain[depth + 2].parent_id = chain[(depth + 2) - 1].id
        /\ ~\E j \in 1..((depth + 2) - 1) : chain[j].id = chain[depth + 2].id
        /\ ~(chain[1].delegation.max_depth <= 0)
        /\ ~((depth + 2) - 1 > chain[1].delegation.max_depth)
    BY <1>1, Standing
  <1>3. ASSUME NEW path \in ValidateDerivation(Parent, Child), Reject(path) PROVE FirstInv'
    <2>1. ValidateDerivation(chain[(depth + 2) - 1], chain[depth + 2])
             \subseteq LinkFaults(chain, depth + 2)
      BY <1>2, LinkFaultIn
    <2>2. path \in LinkFaults(chain, depth + 2)
      BY <1>2, <1>3, <2>1
    <2> QED
      BY <1>1, <1>3, <2>2, RejectsAtLink
  <1>4. ASSUME Derives(Parent, Child), pc' = "link", depth' = depth + 1, chain' = chain
        PROVE  FirstInv'
    <2>1. LinkFaults(chain, depth + 2) = {}
      <3>1. Derives(chain[(depth + 2) - 1], chain[depth + 2])
        BY <1>2, <1>4
      <3> QED
        BY <1>2, <3>1, LinkFaultless
    <2>2. \A k \in 2..((depth + 1) + 1) : k \in 2..(depth + 1) \/ k = depth + 2
      BY <1>1
    <2>3. /\ RootFaults(chain) = {}
          /\ \A k \in 2..(depth + 1) : LinkFaults(chain, k) = {}
      BY <1>1 DEF FirstInv
    <2> QED
      BY <1>4, <2>1, <2>2, <2>3 DEF FirstInv, Walking
  <1> QED
    BY <1>3, <1>4 DEF Derive

LEMMA FirstInvariance == Spec => []FirstInv
  <1>1. ASSUME IInv, FirstInv, [Next]_vars PROVE FirstInv'
    <2>1. CASE Root
      BY <1>1, <2>1, FirstRoot
    <2>2. CASE Link
      BY <1>1, <2>2, FirstLink
    <2>3. CASE Depth
      BY <1>1, <2>3, FirstDepth
    <2>4. CASE Derive
      BY <1>1, <2>4, FirstDerive
    <2>5. CASE Accept
      BY <1>1, <2>5 DEF Accept, FirstInv, Walking
    <2>6. CASE UNCHANGED vars
      BY <1>1, <2>6 DEF vars, FirstInv, Walking
    <2> QED
      BY <1>1, <2>1, <2>2, <2>3, <2>4, <2>5, <2>6 DEF Next
  <1> QED
    BY <1>1, FirstInit, Invariance, PTL DEF Spec

\* A chain is rejected for the first fault it has, reading it from its root and
\* each link rule by rule, and accepted when it has none (delegation.go:453-489).
THEOREM FirstFaults == Spec => []FirstFaultReported
  <1>1. ASSUME IInv, FirstInv PROVE FirstFaultReported
    <2>1. pc = "rejected" => fault \in ChainFaults(chain)
      BY <1>1 DEF FirstInv
    <2>2. ASSUME pc = "accepted" PROVE ChainFaults(chain) = {}
      <3>1. Path /\ depth \in Nat /\ RootFaults(chain) = {}
            /\ \A k \in 2..(depth + 1) : LinkFaults(chain, k) = {}
        BY <1>1, <2>2 DEF IInv, TypeOK, FirstInv, Walking
      <3>2. depth + 1 = Len(chain)
        BY <2>2, <3>1 DEF Path
      <3> QED
        BY <3>1, <3>2 DEF ChainFaults
    <2> QED
      BY <2>1, <2>2 DEF FirstFaultReported
  <1> QED
    BY <1>1, Invariance, FirstInvariance, PTL

\* A lawful chain has no fault.
LEMMA LawfulFaultless ==
    ASSUME chain \in Chains, Lawful
    PROVE  ChainFaults(chain) = {}
  <1>1. Len(chain) \in Nat /\ Len(chain) > 0 /\ RootFaults(chain) = {}
    BY Numbers, RootFaultIn DEF Lawful
  <1>2. ASSUME NEW i \in 2..Len(chain) PROVE LinkFaults(chain, i) = {}
    <2>1. /\ i \in Nat /\ i - 1 \in 1..(Len(chain) - 1) /\ (i - 1) + 1 = i
          /\ 1 \in 1..Len(chain) /\ Len(chain) > 1 /\ i - 1 > 0
      BY <1>1
    <2>2. chain[i].parent_id = chain[i-1].id /\ Derives(chain[i-1], chain[i])
      BY <2>1 DEF Lawful
    <2>3. \A j \in 1..(i-1) : j \in 1..Len(chain) /\ i \in 1..Len(chain) /\ j # i
      BY <1>1, <2>1
    <2>4. ~\E j \in 1..(i-1) : chain[j].id = chain[i].id
      BY <2>3 DEF Lawful
    <2>5. chain[1].delegation.max_depth \in Int
      BY <2>1, Numbers DEF NumericMAT
    <2>6. Len(chain) - 1 <= chain[1].delegation.max_depth
      BY <1>1, <2>1 DEF Lawful
    <2>7. ~(chain[1].delegation.max_depth <= 0) /\ ~(i - 1 > chain[1].delegation.max_depth)
      BY <1>1, <2>1, <2>5, <2>6
    <2> QED
      BY <2>2, <2>4, <2>7, LinkFaultless
  <1> QED
    BY <1>1, <1>2 DEF ChainFaults

\* No lawful chain, of any length, is refused (delegation.go:453-489).
THEOREM AcceptsLawful == Spec => []LawfulChainAccepted
  <1>1. ASSUME IInv, FirstInv PROVE LawfulChainAccepted
    BY <1>1, LawfulFaultless DEF IInv, FirstInv, LawfulChainAccepted
  <1> QED
    BY <1>1, Invariance, FirstInvariance, PTL

------------------------------------------------------------------------------
(* Constraints narrow.                                                      *)

\* What Comparable says of one pair of constraints, the parent's first.
ComparablePair(p, c) ==
    /\ \A ts \in BoundsOf(p), us \in BoundsOf(c) :
          /\ IsInstant(ts) /\ IsInstant(us)
          /\ Rank(ts) <= Rank(us) => Instant(ts) <= Instant(us)
          /\ Rank(us) <= Rank(ts) => Instant(us) <= Instant(ts)
    /\ p.type = "rate_limit" => p.max_rate # <<>>
    /\ p.type = "resource_state" => StatedValues(p) # {}
    /\ \A d \in {p, c} : \A bound \in {d.min, d.max} \ {<<>>} : IsNumber(bound)

\* Nothing comes from a time bound: the parent's is kept by one the child states.
LEMMA TemporalNarrows ==
    ASSUME NEW p, NEW c, NEW ctx \in Contexts, NumericConstraint(p), NumericConstraint(c),
           ComparablePair(p, c), withinTemporal(c, p), IsInstant(ctx.time),
           WithinStated(Instant(ctx.time), c.not_before, c.not_after)
    PROVE  WithinStated(Instant(ctx.time), p.not_before, p.not_after)
  <1>1. Instant(ctx.time) \in Int
    BY ContextsAssumption
  <1>2. ASSUME p.not_before # Absent
        PROVE  IsInstant(p.not_before) /\ Instant(p.not_before) <= Instant(ctx.time)
    <2>1. c.not_before # Absent /\ Rank(p.not_before) <= Rank(c.not_before)
      BY <1>2 DEF withinTemporal
    <2>2. p.not_before \in BoundsOf(p) /\ c.not_before \in BoundsOf(c)
      BY <1>2, <2>1 DEF BoundsOf
    <2>3. /\ IsInstant(p.not_before) /\ IsInstant(c.not_before)
          /\ Instant(p.not_before) <= Instant(c.not_before)
      BY <2>1, <2>2 DEF ComparablePair
    <2>4. Instant(c.not_before) <= Instant(ctx.time)
      BY <2>1 DEF WithinStated
    <2>5. Instant(p.not_before) \in Int /\ Instant(c.not_before) \in Int
      BY <2>3 DEF NumericConstraint
    <2> QED
      BY <1>1, <2>3, <2>4, <2>5
  <1>3. ASSUME p.not_after # Absent
        PROVE  IsInstant(p.not_after) /\ Instant(ctx.time) <= Instant(p.not_after)
    <2>1. c.not_after # Absent /\ Rank(c.not_after) <= Rank(p.not_after)
      BY <1>3 DEF withinTemporal
    <2>2. p.not_after \in BoundsOf(p) /\ c.not_after \in BoundsOf(c)
      BY <1>3, <2>1 DEF BoundsOf
    <2>3. /\ IsInstant(p.not_after) /\ IsInstant(c.not_after)
          /\ Instant(c.not_after) <= Instant(p.not_after)
      BY <2>1, <2>2 DEF ComparablePair
    <2>4. Instant(ctx.time) <= Instant(c.not_after)
      BY <2>1 DEF WithinStated
    <2>5. Instant(p.not_after) \in Int /\ Instant(c.not_after) \in Int
      BY <2>3 DEF NumericConstraint
    <2> QED
      BY <1>1, <2>3, <2>4, <2>5
  <1> QED
    BY <1>2, <1>3 DEF WithinStated

\* A value inside the child's range is inside the parent's.
LEMMA BoundNarrows ==
    ASSUME NEW p, NEW c, NEW ctx \in Contexts, NumericConstraint(p), NumericConstraint(c),
           ComparablePair(p, c), tighterBound(c, p), c.param \in DOMAIN ctx.params,
           c.min # <<>> => ~Below(ctx.params[c.param], c.min),
           c.max # <<>> => ~Below(c.max, ctx.params[c.param])
    PROVE  /\ p.param \in DOMAIN ctx.params
           /\ p.min # <<>> => ~Below(ctx.params[p.param], p.min)
           /\ p.max # <<>> => ~Below(p.max, ctx.params[p.param])
  <1> DEFINE v == ctx.params[c.param]
  <1>1. c.param = p.param /\ (IsNumber(v) => v[1] \in Int)
    BY ContextsAssumption DEF tighterBound
  <1> HIDE DEF v
  <1>2. ASSUME p.min # <<>> PROVE ~Below(v, p.min)
    <2>1. c.min # <<>> /\ ~Below(c.min, p.min) /\ ~Below(v, c.min)
      BY <1>2 DEF tighterBound, v
    <2>2. IsNumber(p.min) /\ IsNumber(c.min)
      BY <1>2, <2>1 DEF ComparablePair
    <2>3. p.min[1] \in Int /\ c.min[1] \in Int
      BY <2>2 DEF NumericConstraint
    <2> QED
      BY <1>1, <2>1, <2>2, <2>3 DEF Below
  <1>3. ASSUME p.max # <<>> PROVE ~Below(p.max, v)
    <2>1. c.max # <<>> /\ ~Below(p.max, c.max) /\ ~Below(c.max, v)
      BY <1>3 DEF tighterBound, v
    <2>2. IsNumber(p.max) /\ IsNumber(c.max)
      BY <1>3, <2>1 DEF ComparablePair
    <2>3. p.max[1] \in Int /\ c.max[1] \in Int
      BY <2>2 DEF NumericConstraint
    <2> QED
      BY <1>1, <2>1, <2>2, <2>3 DEF Below
  <1> QED
    BY <1>1, <1>2, <1>3 DEF v

\* A state the child admits its parent admits.
LEMMA StateNarrows ==
    ASSUME NEW p, NEW c, NEW v, tighterResourceState(c, p), StatedValues(p) # {},
           v \in (IF c.in # {} THEN c.in ELSE {c.equals})
    PROVE  v \in (IF p.in # {} THEN p.in ELSE {p.equals})
  <1>1. StatedValues(c) # {} /\ StatedValues(c) \subseteq StatedValues(p)
    BY DEF tighterResourceState
  <1>2. v \in StatedValues(c)
    BY <1>1, Zenon DEF StatedValues
  <1>3. v \in StatedValues(p)
    BY <1>1, <1>2
  <1> QED
    BY <1>3, Zenon DEF StatedValues

\* Where a constraint as strict as the parent's holds, the parent's holds.
LEMMA StricterImplies ==
    ASSUME NEW p, NEW c, NEW ctx \in Contexts, NumericConstraint(p), NumericConstraint(c),
           ComparablePair(p, c), constraintAtLeastAsStrict(c, p), c.id = p.id,
           Evaluate(c, ctx)
    PROVE  Evaluate(p, ctx)
  <1>1. c.type = p.type
    BY DEF constraintAtLeastAsStrict
  <1>2. CASE p.type = "temporal"
    <2>1. /\ withinTemporal(c, p) /\ IsInstant(ctx.time)
          /\ WithinStated(Instant(ctx.time), c.not_before, c.not_after)
      BY <1>1, <1>2 DEF constraintAtLeastAsStrict, Evaluate
    <2>2. WithinStated(Instant(ctx.time), p.not_before, p.not_after)
      BY <2>1, TemporalNarrows
    <2> QED
      BY <1>2, <2>1, <2>2 DEF Evaluate
  <1>3. CASE p.type = "network_zone"
    BY <1>1, <1>3 DEF constraintAtLeastAsStrict, Evaluate
  <1>4. CASE p.type = "param_bound"
    <2>1. /\ tighterBound(c, p) /\ c.param \in DOMAIN ctx.params
          /\ c.min # <<>> => ~Below(ctx.params[c.param], c.min)
          /\ c.max # <<>> => ~Below(c.max, ctx.params[c.param])
      BY <1>1, <1>4 DEF constraintAtLeastAsStrict, Evaluate
    <2>2. /\ p.param \in DOMAIN ctx.params
          /\ p.min # <<>> => ~Below(ctx.params[p.param], p.min)
          /\ p.max # <<>> => ~Below(p.max, ctx.params[p.param])
      BY <2>1, BoundNarrows
    <2> QED
      BY <1>4, <2>2 DEF Evaluate
  <1>5. CASE p.type = "resource_state"
    <2>1. /\ tighterResourceState(c, p) /\ c.key \in DOMAIN ctx.resource_state
          /\ ctx.resource_state[c.key] \in (IF c.in # {} THEN c.in ELSE {c.equals})
      BY <1>1, <1>5 DEF constraintAtLeastAsStrict, Evaluate
    <2>2. StatedValues(p) # {} /\ c.key = p.key
      BY <1>5, <2>1 DEF ComparablePair, tighterResourceState
    <2>3. ctx.resource_state[c.key] \in (IF p.in # {} THEN p.in ELSE {p.equals})
      BY <2>1, <2>2, StateNarrows
    <2> QED
      BY <1>5, <2>1, <2>2, <2>3 DEF Evaluate
  <1>6. CASE p.type = "rate_limit"
    <2>1. /\ c.max_rate # <<>> /\ RateOf(ctx, c.id) <= c.max_rate[1]
          /\ p.max_rate # <<>> /\ c.max_rate[1] <= p.max_rate[1]
      BY <1>1, <1>6 DEF constraintAtLeastAsStrict, Evaluate, ComparablePair
    <2>2. c.max_rate[1] \in Int /\ p.max_rate[1] \in Int
      BY <2>1 DEF NumericConstraint
    <2>3. RateOf(ctx, c.id) \in Int
      BY ContextsAssumption DEF RateOf
    <2>4. RateOf(ctx, p.id) <= p.max_rate[1]
      BY <2>1, <2>2, <2>3
    <2> QED
      BY <1>6, <2>1, <2>4 DEF Evaluate
  <1>7. CASE p.type = "latency_bound"
    BY <1>7 DEF Evaluate
  <1> QED
    BY <1>2, <1>3, <1>4, <1>5, <1>6, <1>7 DEF constraintAtLeastAsStrict

\* A derivation keeps the rules about constraints.
LEMMA ConstraintGroupsKept ==
    ASSUME NEW p, NEW c, Derives(p, c)
    PROVE  /\ validateConstraintIDs(c.constraints)
           /\ Kept(constraintsStricter(c.constraints, p.constraints))
  <1> DEFINE first == <<FaultIf(~validateConstraintIDs(p.constraints), Unnamed),
                        FaultIf(~validateConstraintIDs(c.constraints), Unnamed),
                        FaultIf(~p.delegation.allowed, "delegation.not_allowed")>>
             scope == scopeSubset(c.scope, p.scope)
             boundary == boundaryWithin(c.boundary, p.boundary)
             constraints == constraintsStricter(c.constraints, p.constraints)
             obligations == obligationsSuperset(c.proof_obligations, p.proof_obligations)
             groups == <<first, scope, boundary, constraints, obligations>>
  <1>1. \A g \in 1..5 : Kept(groups[g])
    BY DEF Derives, RuleGroups
  <1>2. Len(first) = 3 /\ first[2] = FaultIf(~validateConstraintIDs(c.constraints), Unnamed)
    OBVIOUS
  <1> HIDE DEF first, scope, boundary, constraints, obligations
  <1>3. Kept(first) /\ Kept(constraints)
    <2>1. groups[1] = first /\ groups[4] = constraints
      OBVIOUS
    <2> HIDE DEF groups
    <2> QED
      BY <1>1, <2>1
  <1>4. first[2] = {}
    BY <1>2, <1>3 DEF Kept
  <1> QED
    BY <1>2, <1>3, <1>4 DEF FaultIf, constraints

\* Every constraint of the parent has a stricter one of its id in the child.
LEMMA EachTightened ==
    ASSUME NEW p, NEW c, Derives(p, c), Len(p.constraints) \in Nat,
           Len(c.constraints) \in Nat, NEW i \in 1..Len(p.constraints)
    PROVE  \E j \in 1..Len(c.constraints) :
              /\ c.constraints[j].id = p.constraints[i].id
              /\ constraintAtLeastAsStrict(c.constraints[j], p.constraints[i])
  <1> DEFINE s == constraintsStricter(c.constraints, p.constraints)
             old == p.constraints[i]
             new == ById(c.constraints, old.id)
  <1>1. validateConstraintIDs(c.constraints) /\ Kept(s)
    BY ConstraintGroupsKept
  <1>2. /\ Len(s) = Len(p.constraints)
        /\ s[i] = (IF ~HasId(c.constraints, old.id) THEN {"constraint.dropped"}
                   ELSE IF new.type # old.type THEN {"constraint.type_mismatch"}
                   ELSE FaultIf(~constraintAtLeastAsStrict(new, old), LooserPath(old.type)))
    BY DEF constraintsStricter
  <1> HIDE DEF s, new
  <1>3. s[i] = {}
    BY <1>1, <1>2 DEF Kept
  <1>4. HasId(c.constraints, old.id) /\ constraintAtLeastAsStrict(new, old)
    BY <1>2, <1>3 DEF FaultIf
  <1>5. PICK j \in 1..Len(c.constraints) : c.constraints[j].id = old.id
    BY <1>4 DEF HasId
  <1>6. \A k \in (j+1)..Len(c.constraints) : c.constraints[k].id # old.id
    <2> SUFFICES ASSUME NEW k \in (j+1)..Len(c.constraints), c.constraints[k].id = old.id
                 PROVE  FALSE
      OBVIOUS
    <2>1. k \in 1..Len(c.constraints) /\ k # j
      OBVIOUS
    <2> QED
      BY <1>1, <1>5, <2>1 DEF validateConstraintIDs
  <1>7. ASSUME NEW n \in 1..Len(c.constraints), c.constraints[n].id = old.id
        PROVE  n = j
    BY <1>1, <1>5, <1>7 DEF validateConstraintIDs
  <1>8. new = c.constraints[j]
    BY <1>5, <1>6, <1>7 DEF new, ById
  <1> QED
    BY <1>4, <1>5, <1>8

\* One derivation narrows the constraints.
LEMMA ConstraintsNarrowOnce ==
    ASSUME NEW p, NEW c, Derives(p, c), Len(p.constraints) \in Nat,
           Len(c.constraints) \in Nat,
           \A i \in 1..Len(p.constraints) : NumericConstraint(p.constraints[i]),
           \A j \in 1..Len(c.constraints) : NumericConstraint(c.constraints[j]),
           \A i \in 1..Len(p.constraints), j \in 1..Len(c.constraints) :
              ComparablePair(p.constraints[i], c.constraints[j])
    PROVE  ConstraintsNarrow(c, p)
  <1> SUFFICES ASSUME NEW ctx \in Contexts, Holding(c, ctx), NEW i \in 1..Len(p.constraints)
               PROVE  Evaluate(p.constraints[i], ctx)
    BY DEF ConstraintsNarrow, Holding
  <1>1. PICK j \in 1..Len(c.constraints) :
           /\ c.constraints[j].id = p.constraints[i].id
           /\ constraintAtLeastAsStrict(c.constraints[j], p.constraints[i])
    BY EachTightened
  <1>2. Evaluate(c.constraints[j], ctx)
    BY DEF Holding
  <1> QED
    BY <1>1, <1>2, StricterImplies

Less == {ss \in Nat \X Nat : ss[1] < ss[2]}

\* Every set of numbers has a least one.
LEMMA Least ==
    ASSUME NEW T, T \subseteq Nat, T # {}
    PROVE  \E x \in T : \A y \in T : x <= y
  <1>1. IsWellFoundedOn(Less, Nat)
    BY NatLessThanWellFounded DEF OpToRel, Less
  <1>2. PICK x \in T : \A y \in T : <<y, x>> \notin Less
    BY <1>1, WFMin
  <1>3. ASSUME NEW y \in T PROVE x <= y
    <2>1. x \in Nat /\ y \in Nat /\ <<y, x>> \notin Less
      BY <1>2
    <2>2. ~(y < x)
      BY <2>1 DEF Less
    <2> QED
      BY <2>1, <2>2
  <1> QED
    BY <1>3

\* The budget a MAT authorises is the least it states.
LEMMA AuthorizedIsLeast ==
    ASSUME NEW m, \A j \in 1..Len(m.constraints) : NumericConstraint(m.constraints[j]),
           LatencyBudgets(m) # {}
    PROVE  /\ LatencyBudgets(m) \subseteq Nat
           /\ authorizedLatencyBound(m) \in LatencyBudgets(m)
           /\ \A b \in LatencyBudgets(m) : authorizedLatencyBound(m) <= b
  <1>1. LatencyBudgets(m) \subseteq Nat
    BY DEF LatencyBudgets, NumericConstraint
  <1>2. \E b \in LatencyBudgets(m) : \A o \in LatencyBudgets(m) : b <= o
    BY <1>1, Least
  <1> QED
    BY <1>1, <1>2 DEF authorizedLatencyBound

\* One derivation narrows the budget.
LEMMA BudgetsNarrowOnce ==
    ASSUME NEW p, NEW c, Derives(p, c), Len(p.constraints) \in Nat,
           Len(c.constraints) \in Nat,
           \A i \in 1..Len(p.constraints) : NumericConstraint(p.constraints[i]),
           \A j \in 1..Len(c.constraints) : /\ NumericConstraint(c.constraints[j])
                                            /\ c.constraints[j].max_ms >= 0
    PROVE  BudgetsNarrow(c, p)
  <1> SUFFICES ASSUME LatencyBudgets(p) # {}
               PROVE  /\ LatencyBudgets(c) # {}
                      /\ authorizedLatencyBound(c) <= authorizedLatencyBound(p)
    BY DEF BudgetsNarrow
  <1>1. PICK i \in 1..Len(p.constraints) :
           /\ p.constraints[i].type = "latency_bound" /\ p.constraints[i].max_ms > 0
           /\ authorizedLatencyBound(p) = p.constraints[i].max_ms
    BY AuthorizedIsLeast DEF LatencyBudgets
  <1>2. PICK j \in 1..Len(c.constraints) :
           constraintAtLeastAsStrict(c.constraints[j], p.constraints[i])
    BY EachTightened
  <1>3. /\ c.constraints[j].type = "latency_bound" /\ c.constraints[j].max_ms # 0
        /\ c.constraints[j].max_ms <= p.constraints[i].max_ms
    <2>1. p.constraints[i].max_ms # 0
      BY <1>1 DEF NumericConstraint
    <2> QED
      BY <1>1, <1>2, <2>1 DEF constraintAtLeastAsStrict
  <1>4. c.constraints[j].max_ms \in LatencyBudgets(c)
    BY <1>3 DEF LatencyBudgets, NumericConstraint
  <1>5. /\ authorizedLatencyBound(c) <= c.constraints[j].max_ms
        /\ authorizedLatencyBound(c) \in Nat
    BY <1>4, AuthorizedIsLeast
  <1>6. c.constraints[j].max_ms \in Int /\ p.constraints[i].max_ms \in Int
    BY DEF NumericConstraint
  <1> QED
    BY <1>1, <1>3, <1>4, <1>5, <1>6

\* Narrowed budgets compose.
LEMMA BudgetsCompose ==
    ASSUME NEW d, NEW c, NEW p,
           \A m \in {d, c, p} :
              \A j \in 1..Len(m.constraints) : NumericConstraint(m.constraints[j]),
           BudgetsNarrow(d, c), BudgetsNarrow(c, p)
    PROVE  BudgetsNarrow(d, p)
  <1> SUFFICES ASSUME LatencyBudgets(p) # {}
               PROVE  /\ LatencyBudgets(d) # {}
                      /\ authorizedLatencyBound(d) <= authorizedLatencyBound(p)
    BY DEF BudgetsNarrow
  <1>1. /\ LatencyBudgets(c) # {} /\ LatencyBudgets(d) # {}
        /\ authorizedLatencyBound(d) <= authorizedLatencyBound(c)
        /\ authorizedLatencyBound(c) <= authorizedLatencyBound(p)
    BY DEF BudgetsNarrow
  <1>2. /\ authorizedLatencyBound(d) \in Nat /\ authorizedLatencyBound(c) \in Nat
        /\ authorizedLatencyBound(p) \in Nat
    BY <1>1, AuthorizedIsLeast
  <1> QED
    BY <1>1, <1>2

\* The last MAT validated has constraints within the root's.
Tightened ==
    Comparable => ConstraintsNarrow(Parent, chain[1]) /\ BudgetsNarrow(Parent, chain[1])

TightInv == pc \in Walking => Tightened

\* The constraints of a chain, one MAT at a time.
LEMMA ChainConstraints ==
    ASSUME chain \in Chains
    PROVE  \A i \in 1..Len(chain) :
              /\ Len(chain[i].constraints) \in Nat
              /\ \A k \in 1..Len(chain[i].constraints) :
                    /\ NumericConstraint(chain[i].constraints[k])
                    /\ chain[i].constraints[k] \in Constraints
  <1>1. \A i \in 1..Len(chain) :
           /\ Len(chain[i].constraints) \in Nat
           /\ \A k \in 1..Len(chain[i].constraints) : NumericConstraint(chain[i].constraints[k])
    BY ChainsAssumption, Zenon
  <1>2. \A i \in 1..Len(chain) : \A k \in 1..Len(chain[i].constraints) :
           chain[i].constraints[k] \in Constraints
    BY DEF Constraints
  <1> QED
    BY <1>1, <1>2

LEMMA ComparableConstraints ==
    ASSUME Comparable, NEW p \in Constraints, NEW c \in Constraints
    PROVE  ComparablePair(p, c) /\ c.max_ms >= 0
  BY DEF Comparable, ComparablePair

LEMMA TightenedStays ==
    ASSUME Tightened, UNCHANGED <<chain, depth>>
    PROVE  Tightened'
  <1>1. chain' = chain /\ Parent' = Parent /\ (Comparable' <=> Comparable)
    BY DEF Parent, Comparable, Constraints
  <1> QED
    BY <1>1 DEF Tightened

LEMMA TightRoot == ASSUME IInv, Root PROVE TightInv'
  <1>1. CASE pc' = "rejected"
    BY <1>1 DEF TightInv, Walking
  <1>2. CASE pc' # "rejected"
    <2>1. chain' = chain /\ depth' = depth /\ depth = 0
      BY <1>2 DEF Root, Reject, IInv
    <2>2. Parent' = chain[1]
      BY <2>1 DEF Parent
    <2>3. ConstraintsNarrow(chain[1], chain[1])
      BY DEF ConstraintsNarrow
    <2>4. BudgetsNarrow(chain[1], chain[1])
      <3>1. ASSUME LatencyBudgets(chain[1]) # {}
            PROVE  authorizedLatencyBound(chain[1]) \in Nat
        <4>1. Len(chain) # 0 /\ chain \in Chains /\ Len(chain) \in Nat
          BY <1>2, Numbers DEF Root, Reject, IInv
        <4>2. \A j \in 1..Len(chain[1].constraints) : NumericConstraint(chain[1].constraints[j])
          BY <4>1, ChainConstraints
        <4> QED
          BY <3>1, <4>2, AuthorizedIsLeast
      <3> QED
        BY <3>1 DEF BudgetsNarrow
    <2> QED
      BY <2>1, <2>2, <2>3, <2>4 DEF TightInv, Tightened
  <1> QED
    BY <1>1, <1>2

LEMMA TightDerive == ASSUME IInv, TightInv, Derive PROVE TightInv'
  <1>1. CASE pc' = "rejected"
    BY <1>1 DEF TightInv, Walking
  <1>2. CASE pc' # "rejected"
    <2>1. /\ Derives(Parent, Child) /\ chain' = chain /\ depth' = depth + 1
          /\ pc = "derive" /\ depth \in Nat /\ chain \in Chains
          /\ depth + 2 \in 1..Len(chain) /\ Len(chain) \in Nat
      BY <1>2, Numbers DEF Derive, Reject, IInv, TypeOK
    <2>2. Parent' = Child
      <3>1. depth' + 1 = depth + 2
        BY <2>1
      <3> QED
        BY <2>1, <3>1 DEF Parent, Child
    <2>3. depth + 1 \in 1..Len(chain) /\ 1 \in 1..Len(chain)
      BY <2>1
    <2>4. (Comparable' <=> Comparable)
      BY <2>1 DEF Comparable, Constraints
    <2> SUFFICES ASSUME Comparable
                 PROVE  /\ ConstraintsNarrow(Child, chain[1])
                        /\ BudgetsNarrow(Child, chain[1])
      BY <2>1, <2>2, <2>4 DEF TightInv, Tightened
    <2>5. ConstraintsNarrow(Parent, chain[1]) /\ BudgetsNarrow(Parent, chain[1])
      BY <2>1 DEF TightInv, Tightened, Walking
    <2>6. \A m \in {Parent, Child, chain[1]} :
             /\ Len(m.constraints) \in Nat
             /\ \A k \in 1..Len(m.constraints) : /\ NumericConstraint(m.constraints[k])
                                                 /\ m.constraints[k] \in Constraints
      BY <2>1, <2>3, ChainConstraints DEF Parent, Child
    <2> HIDE DEF Parent, Child
    <2>7. ConstraintsNarrow(Child, Parent)
      BY <2>1, <2>6, ComparableConstraints, ConstraintsNarrowOnce
    <2>8. BudgetsNarrow(Child, Parent)
      BY <2>1, <2>6, ComparableConstraints, BudgetsNarrowOnce
    <2>9. BudgetsNarrow(Child, chain[1])
      BY <2>5, <2>6, <2>8, BudgetsCompose
    <2> QED
      BY <2>5, <2>7, <2>9 DEF ConstraintsNarrow
  <1> QED
    BY <1>1, <1>2

LEMMA TightInvariance == Spec => []TightInv
  <1>1. Init => TightInv
    BY DEF Init, TightInv, Walking
  <1>2. ASSUME IInv, TightInv, [Next]_vars PROVE TightInv'
    <2>1. CASE Root
      BY <1>2, <2>1, TightRoot
    <2>2. CASE Link \/ Depth \/ Accept
      <3>1. CASE pc' = "rejected"
        BY <3>1 DEF TightInv, Walking
      <3>2. CASE pc' # "rejected"
        BY <1>2, <2>2, <3>2, TightenedStays DEF Link, Depth, Accept, Reject, TightInv, Walking
      <3> QED
        BY <3>1, <3>2
    <2>3. CASE Derive
      BY <1>2, <2>3, TightDerive
    <2>4. CASE UNCHANGED vars
      BY <1>2, <2>4, TightenedStays DEF vars, TightInv
    <2> QED
      BY <1>2, <2>1, <2>2, <2>3, <2>4 DEF Next
  <1> QED
    BY <1>1, <1>2, Invariance, PTL DEF Spec

\* Where constraints are comparable, those of an accepted leaf hold only where
\* the root's do, and the root's latency budget binds it, across any number of
\* derivations (delegation.go:290-396, verify.go:984-995).
THEOREM LeafConstrained == Spec => []LeafConstraintsNarrow
  <1>1. ASSUME IInv, TightInv PROVE LeafConstraintsNarrow
    <2>1. pc = "accepted" => Tightened /\ Leaf = Parent
      BY <1>1 DEF IInv, TightInv, Walking, Path, Leaf, Parent
    <2> QED
      BY <2>1 DEF LeafConstraintsNarrow, Tightened
  <1> QED
    BY <1>1, Invariance, TightInvariance, PTL

------------------------------------------------------------------------------
(* The walk runs out. That a step is always taken is fairness, and stays   *)
(* with AlwaysDecides; that only so many can be taken is proved.           *)

\* How far each stage is from the next link, or from the verdict.
Ahead == [root |-> 4, link |-> 3, depth |-> 2, derive |-> 1, accepted |-> 0, rejected |-> 0]

\* What is left: stages of this link, and the three stages of each link to come.
Remaining == Ahead[pc] + 3 * (Len(chain) - depth)

WithinChain == depth <= Len(chain)

LEMMA ChainLength == ASSUME IInv PROVE Len(chain) \in Nat /\ depth \in Nat
  BY ChainsAssumption DEF IInv, TypeOK

LEMMA StaysWithinChain == IInv /\ IInv' /\ WithinChain /\ [Next]_vars => WithinChain'
  <1> SUFFICES ASSUME IInv, IInv', WithinChain, [Next]_vars PROVE WithinChain'
    OBVIOUS
  <1>1. Len(chain)' \in Nat /\ depth' \in Nat
    BY ChainsAssumption DEF IInv, TypeOK
  <1>2. CASE pc' \in Walking
    <2>1. (depth + 1 \in 1..Len(chain))'
      BY <1>2 DEF IInv, TypeOK, Walking
    <2> QED
      BY <1>1, <2>1 DEF WithinChain
  <1>3. CASE pc' = "root"
    BY <1>1, <1>3 DEF IInv, WithinChain
  <1>4. CASE pc' = "rejected"
    <2>1. chain' = chain /\ depth' = depth
      <3>1. CASE UNCHANGED vars
        BY <3>1 DEF vars
      <3>2. CASE Derive
        BY <1>4, <3>2 DEF Derive, Reject
      <3>3. CASE Root \/ Link \/ Depth \/ Accept
        BY <3>3, Zenon DEF Root, Link, Depth, Accept, Reject
      <3> QED
        BY <3>1, <3>2, <3>3 DEF Next
    <2> QED
      BY <2>1 DEF WithinChain
  <1>5. pc' \in {"root", "rejected"} \cup Walking
    BY DEF IInv, TypeOK, Walking
  <1> QED
    BY <1>2, <1>3, <1>4, <1>5

\* A rejection skips the stages that are left.
LEMMA RejectNears ==
    ASSUME IInv, NEW path, Reject(path), pc \notin {"accepted", "rejected"}
    PROVE  Remaining' < Remaining
  <1>1. chain' = chain /\ depth' = depth /\ pc' = "rejected"
    BY DEF Reject
  <1>2. Ahead[pc] \in Nat /\ Ahead[pc] > 0 /\ Ahead["rejected"] = 0
    BY DEF IInv, TypeOK, Ahead
  <1> QED
    BY <1>1, <1>2, ChainLength DEF Remaining

LEMMA NextNears == ASSUME IInv, Next PROVE Remaining' < Remaining
  <1>1. /\ Ahead["root"] = 4 /\ Ahead["link"] = 3 /\ Ahead["depth"] = 2
        /\ Ahead["derive"] = 1 /\ Ahead["accepted"] = 0
    BY DEF Ahead
  <1>2. pc \notin {"accepted", "rejected"} /\ chain' = chain
    BY DEF Next, Root, Link, Depth, Derive, Accept, Reject
  <1>3. CASE \E path : Reject(path)
    BY <1>2, <1>3, RejectNears
  <1>4. CASE ~\E path : Reject(path)
    <2>1. CASE Root
      <3>1. pc = "root" /\ pc' = "link" /\ depth' = depth
        BY <1>4, <2>1 DEF Root
      <3> QED
        BY <1>1, <1>2, <3>1, ChainLength DEF Remaining
    <2>2. CASE Link
      <3>1. pc = "link" /\ pc' = "depth" /\ depth' = depth
        BY <1>4, <2>2 DEF Link
      <3> QED
        BY <1>1, <1>2, <3>1, ChainLength DEF Remaining
    <2>3. CASE Depth
      <3>1. pc = "depth" /\ pc' = "derive" /\ depth' = depth
        BY <1>4, <2>3 DEF Depth
      <3> QED
        BY <1>1, <1>2, <3>1, ChainLength DEF Remaining
    <2>4. CASE Derive
      <3>1. pc = "derive" /\ pc' = "link" /\ depth' = depth + 1
        BY <1>4, <2>4 DEF Derive
      <3> QED
        BY <1>1, <1>2, <3>1, ChainLength DEF Remaining
    <2>5. CASE Accept
      <3>1. pc = "link" /\ pc' = "accepted" /\ depth' = depth
        BY <2>5 DEF Accept
      <3> QED
        BY <1>1, <1>2, <3>1, ChainLength DEF Remaining
    <2> QED
      BY <2>1, <2>2, <2>3, <2>4, <2>5 DEF Next
  <1> QED
    BY <1>3, <1>4

\* However long the chain and whatever its artifacts say, each step of the walk
\* brings the verdict nearer, and there is none left to take after three for each
\* artifact and four more (delegation.go:448-489).
THEOREM WalkRunsOut ==
    Spec => /\ [](Remaining \in 0..(3 * Len(chain) + 4))
            /\ [][Remaining' < Remaining]_vars
  <1>1. Init => WithinChain
    BY ChainsAssumption DEF Init, WithinChain
  <1>2. IInv /\ WithinChain => Remaining \in 0..(3 * Len(chain) + 4)
    <2> SUFFICES ASSUME IInv, WithinChain PROVE Remaining \in 0..(3 * Len(chain) + 4)
      OBVIOUS
    <2>1. Ahead[pc] \in 0..4
      BY DEF IInv, TypeOK, Ahead
    <2> QED
      BY <2>1, ChainLength DEF Remaining, WithinChain
  <1>3. IInv /\ [Next]_vars => [Remaining' < Remaining]_vars
    BY NextNears
  <1> QED
    BY <1>1, <1>2, <1>3, StaysWithinChain, Invariance, PTL DEF Spec
=============================================================================
