---------------------------- MODULE Constraints ----------------------------
(***************************************************************************)
(* The portable constraint representation: how one constraint is judged    *)
(* against a runtime context (constraint.go) and when a child's constraint *)
(* is accepted as at least as strict as its parent's (delegation.go).      *)
(*                                                                         *)
(* Data conventions shared by every module of the project:                 *)
(*   - an optional value is <<>> (absent) or <<v>>;                         *)
(*   - a timestamp is the text the artifact carries: <<>> is the empty     *)
(*     text, <<r>> a text that is not RFC 3339, and <<r, t>> a text that    *)
(*     denotes the instant t (in milliseconds). r is the text's rank in    *)
(*     byte order, which is all a string comparison looks at. Two texts    *)
(*     may denote one instant, and rank order need not be time order;      *)
(*   - a float64 is <<v>>, or NaN, which no comparison holds of;          *)
(*   - a list whose order and repetitions the code never looks at is a set.*)
(***************************************************************************)
EXTENDS Integers, Sequences

------------------------------------------------------------------------------
(* Timestamps: time.Parse(time.RFC3339, _), Before/After, and string <.     *)

Absent == <<>>
IsInstant(ts) == Len(ts) = 2
Instant(ts) == ts[2]
Rank(ts) == ts[1]

\* Both ends of [nb, na] that are stated are instants and contain the instant t.
WithinStated(t, nb, na) ==
    /\ nb # Absent => IsInstant(nb) /\ Instant(nb) <= t
    /\ na # Absent => IsInstant(na) /\ t <= Instant(na)

------------------------------------------------------------------------------
(* Floats: a < b, with NaN unordered.                                       *)

NaN == <<0, 0>>
IsNumber(f) == Len(f) = 1
Below(a, b) == IsNumber(a) /\ IsNumber(b) /\ a[1] < b[1]

------------------------------------------------------------------------------
(* A constraint carries the fields of every type; those of other types are  *)
(* blank, as the omitempty encoding leaves them.                            *)

BlankConstraint ==
    [id |-> "", type |-> "", not_before |-> Absent, not_after |-> Absent,
     zones |-> {}, param |-> "", min |-> <<>>, max |-> <<>>,
     key |-> "", equals |-> "", in |-> {}, max_rate |-> <<>>, max_ms |-> 0]

\* A map read in Go yields the zero value for an absent key.
RateOf(ctx, id) == IF id \in DOMAIN ctx.rate THEN ctx.rate[id] ELSE 0

Evaluate(c, ctx) ==
    \/ /\ c.type = "temporal"
       /\ IsInstant(ctx.time)
       /\ WithinStated(Instant(ctx.time), c.not_before, c.not_after)
    \/ c.type = "network_zone" /\ ctx.network_zone \in c.zones
    \/ /\ c.type = "param_bound"
       /\ c.param \in DOMAIN ctx.params
       /\ c.min # <<>> => ~Below(ctx.params[c.param], c.min)
       /\ c.max # <<>> => ~Below(c.max, ctx.params[c.param])
    \/ /\ c.type = "resource_state"
       /\ c.key \in DOMAIN ctx.resource_state
       /\ ctx.resource_state[c.key] \in (IF c.in # {} THEN c.in ELSE {c.equals})
    \/ /\ c.type = "rate_limit"
       /\ c.max_rate # <<>>
       /\ RateOf(ctx, c.id) <= c.max_rate[1]
    \/ c.type = "latency_bound"

------------------------------------------------------------------------------
(* Strictness. The six comparisons of constraintAtLeastAsStrict.            *)

\* The bounds are compared as texts, not as instants.
withinTemporal(child, parent) ==
    /\ parent.not_before # Absent =>
          child.not_before # Absent /\ Rank(parent.not_before) <= Rank(child.not_before)
    /\ parent.not_after # Absent =>
          child.not_after # Absent /\ Rank(child.not_after) <= Rank(parent.not_after)

tighterBound(child, parent) ==
    /\ child.param = parent.param
    /\ parent.min # <<>> => child.min # <<>> /\ ~Below(child.min, parent.min)
    /\ parent.max # <<>> => child.max # <<>> /\ ~Below(parent.max, child.max)

\* The values a resource_state constraint admits, as tighterResourceState
\* reads it: no In list and an empty Equals is "any value".
StatedValues(c) ==
    IF c.in # {} THEN c.in ELSE IF c.equals # "" THEN {c.equals} ELSE {}

tighterResourceState(child, parent) ==
    /\ child.key = parent.key
    /\ \/ StatedValues(parent) = {}
       \/ /\ StatedValues(child) # {}
          /\ StatedValues(child) \subseteq StatedValues(parent)

constraintAtLeastAsStrict(child, parent) ==
    /\ child.type = parent.type
    /\ \/ parent.type = "temporal" /\ withinTemporal(child, parent)
       \/ /\ parent.type = "network_zone"
          /\ parent.zones # {} => child.zones # {}
          /\ child.zones \subseteq parent.zones
       \/ parent.type = "param_bound" /\ tighterBound(child, parent)
       \/ parent.type = "resource_state" /\ tighterResourceState(child, parent)
       \/ /\ parent.type = "rate_limit"
          /\ parent.max_rate # <<>> =>
                child.max_rate # <<>> /\ child.max_rate[1] <= parent.max_rate[1]
       \/ /\ parent.type = "latency_bound"
          /\ parent.max_ms # 0 => child.max_ms # 0 /\ child.max_ms <= parent.max_ms

------------------------------------------------------------------------------
(* Constraint lists. A map filled from a list keeps the last write.         *)

HasId(cs, id) == \E i \in 1..Len(cs) : cs[i].id = id

ById(cs, id) ==
    cs[CHOOSE i \in 1..Len(cs) : /\ cs[i].id = id
                                 /\ \A j \in (i+1)..Len(cs) : cs[j].id # id]

validateConstraintIDs(cs) ==
    /\ \A i \in 1..Len(cs) : cs[i].id # ""
    /\ \A i, j \in 1..Len(cs) : cs[i].id = cs[j].id => i = j
=============================================================================
