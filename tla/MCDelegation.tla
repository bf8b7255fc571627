---------------------------- MODULE MCDelegation ----------------------------
(***************************************************************************)
(* Delegation over chains of up to three MATs. The three differ from one   *)
(* base in one part at a time - scope, limits, constraints, obligations or *)
(* the chain's own shape - and that part takes every combination of the    *)
(* pool's values.                                                          *)
(***************************************************************************)
EXTENDS Delegation

At(t) == <<t, t>>

Read == <<"read">>
Write == <<"write">>
Svc == <<"svc", "/", "*">>
SvcA == <<"svc", "/", "a">>
Up == <<"svc", "/", "..", "/", "a">>
Stars == <<"svc", "/", "*", "*">>

Base ==
    [version |-> ProtocolVersion, id |-> "a", parent_id |-> "", issuer_id |-> "iss",
     issuer_kid |-> "ki",
     machine_identity |-> [kind |-> "", carries |-> {}, value |-> "", composite |-> <<>>],
     scope |-> [actions |-> {Read}, resources |-> {Svc}, unconstrained |-> {}],
     boundary |-> [max_impact |-> 1, max_privilege_delta |-> 0, quotas |-> <<>>,
                   exclusions |-> {}],
     proof_obligations |-> <<>>, constraints |-> <<>>,
     delegation |-> [allowed |-> TRUE, max_depth |-> 2],
     not_before |-> At(1), not_after |-> At(9), nonce |-> "n", instance_id |-> "a"]

\* Three MATs in line, cut to n.
Line(f, n) == [i \in 1..n |->
                 [f[i] EXCEPT !.id = <<"a", "b", "c">>[i],
                              !.parent_id = <<"", "a", "b">>[i]]]

Vary(part, pool) ==
    {Line([i \in 1..3 |-> [Base EXCEPT ![part] = v[i]]], n) :
        v \in [1..3 -> pool], n \in 1..3}

Scope(actions, resources, open) ==
    [actions |-> actions, resources |-> resources, unconstrained |-> open]

ScopePool == {Scope({Read}, {Svc}, {}), Scope({Read, Write}, {Svc}, {}),
           Scope({}, {Svc}, {}), Scope({}, {Svc}, {"actions"}),
           Scope({Read}, {SvcA}, {}), Scope({Read}, {}, {}),
           Scope({Read}, {}, {"resources"}), Scope({Read}, {Up}, {"resources"}),
           Scope({Read}, {Up}, {}), Scope({Read}, {Stars}, {})}

Boundary(impact, delta, quotas, exclusions) ==
    [max_impact |-> impact, max_privilege_delta |-> delta, quotas |-> quotas,
     exclusions |-> exclusions]

NoQuotas == [k \in {} |-> 0]

Boundaries == {Boundary(1, 0, NoQuotas, {}), Boundary(2, 0, NoQuotas, {}),
               Boundary(1, -1, NoQuotas, {}), Boundary(1, 0, NoQuotas, {Read}),
               Boundary(1, 0, NoQuotas, {SvcA}),
               Boundary(1, 0, [cpu |-> 1], {}),
               Boundary(1, 0, [cpu |-> 2], {}), Boundary(1, 0, [cpu |-> 2, mem |-> 1], {}),
               Boundary(1, 0, [cpu |-> 1, mem |-> 1], {})}

C(id, type) == [BlankConstraint EXCEPT !.id = id, !.type = type]
Window(nb, na) == [C("x", "temporal") EXCEPT !.not_before = nb, !.not_after = na]
Zones(zs) == [C("x", "network_zone") EXCEPT !.zones = zs]
Bound(lo, hi) == [C("x", "param_bound") EXCEPT !.param = "p", !.min = lo, !.max = hi]
State(eq, in) == [C("x", "resource_state") EXCEPT !.key = "k", !.equals = eq, !.in = in]
Limit(id, n) == [C(id, "rate_limit") EXCEPT !.max_rate = n]
Latency(ms) == [C("x", "latency_bound") EXCEPT !.max_ms = ms]

Temporal == {Window(Absent, Absent), Window(At(2), Absent), Window(At(3), At(5)),
             Window(Absent, At(6))}
ParamBounds == {Bound(<<>>, <<>>), Bound(<<1>>, <<>>), Bound(<<2>>, <<3>>), Bound(<<2>>, NaN)}
States == {State("up", {}), State("", {"up", "down"}), State("", {}), State("", {"up"})}
Rates == {Limit("x", <<>>), Limit("x", <<1>>), Limit("x", <<2>>)}
Latencies == {Latency(-1), Latency(0), Latency(50), Latency(100)}

\* The instant 4 written with an offset, so that its text sorts after that of 5.
LateText == <<7, 4>>

\* Lists of one constraint, of none, of another id, and with a repeated id.
ConstraintLists(pool) == {<<c>> : c \in pool} \cup {<<>>}
Lists == {<<Limit("y", <<1>>), Limit("x", <<1>>)>>, <<Limit("x", <<1>>), Limit("x", <<2>>)>>,
          <<Limit("x", <<2>>), Zones({"z1"})>>, <<C("x", "unknown")>>}

Obliged(cat, age) == [category |-> cat, max_age_seconds |-> age]
Obligations == {<<>>, <<Obliged("tpm", 60)>>, <<Obliged("tpm", 30)>>,
                <<Obliged("tpm", 90), Obliged("tpm", 30)>>,
                <<Obliged("tpm", 30), Obliged("tpm", 90)>>,
                <<Obliged("tee", 60), Obliged("tpm", 60)>>}

\* Chains that repeat an artifact, skip or misname a predecessor, or state
\* other depths and permissions than the base.
Shapes ==
    {<<>>}
    \cup {[i \in 1..n |-> [Base EXCEPT !.id = ids[i], !.parent_id = parents[i]]] :
             n \in 1..3, ids \in [1..3 -> {"a", "b", "c"}],
             parents \in {<<p, q, r>> : p \in {"", "c"}, q \in {"a", "b"}, r \in {"a", "b"}}}
    \cup {Line([i \in 1..3 |-> [Base EXCEPT !.delegation =
                                   [allowed |-> i # shut, max_depth |-> depths[i]]]], n) :
             shut \in 0..2, depths \in [1..3 -> -1..2], n \in 1..3}

MCChains ==
    Vary("scope", ScopePool) \cup Vary("boundary", Boundaries)
    \cup Vary("constraints", ConstraintLists(Temporal))
    \cup Vary("constraints", ConstraintLists({Zones(zs) : zs \in SUBSET {"z1", "z2"}}))
    \cup Vary("constraints", ConstraintLists(ParamBounds))
    \cup Vary("constraints", ConstraintLists(States))
    \cup Vary("constraints", ConstraintLists(Latencies))
    \cup Vary("constraints", ConstraintLists(Rates) \cup Lists)
    \cup Vary("constraints", {<<Window(At(2), Absent)>>, <<Window(LateText, Absent)>>,
                              <<Window(At(5), Absent)>>, <<Limit("x", <<1>>)>>})
    \cup Vary("proof_obligations", Obligations)
    \cup Shapes

MCOperations == {Read, Write, <<>>} \X {<<>>, SvcA, Svc, Up, <<"db">>}

Context(t, zone, param, state, rate) ==
    [time |-> At(t), network_zone |-> zone, params |-> param, resource_state |-> state,
     rate |-> rate]

MCContexts ==
    {Context(t, "z1", [p \in {"p"} |-> <<2>>], [k \in {"k"} |-> "up"], [x |-> 1]) : t \in 1..7}
    \cup {Context(4, z, [p \in {"p"} |-> v], [k \in {"k"} |-> st], [x |-> n]) :
             z \in {"z1", "z2"}, v \in {<<n>> : n \in 0..4} \cup {NaN}, st \in {"up", "down", ""}, n \in 0..2}
    \cup {Context(4, "z1", NoQuotas, NoQuotas, NoQuotas)}
=============================================================================
