------------------------------ MODULE MCHonest ------------------------------
(***************************************************************************)
(* Verify over what an honest enforcement point issues: budgets wide,      *)
(* tight and unstated, scopes that grant or not, constraints that hold or  *)
(* not, a commitment that narrows, one that exceeds and none, evaluations  *)
(* around whole seconds and around the budgets, and full, partial and      *)
(* minimal disclosure and supply.                                          *)
(***************************************************************************)
EXTENDS Honest, MCInputs

HonestMATs ==
    {BaseMAT, [BaseMAT EXCEPT !.constraints = <<Zone>>],
     [BaseMAT EXCEPT !.constraints = <<Zone, Budget(2500)>>],
     [BaseMAT EXCEPT !.boundary.exclusions = {SvcA}]}

HonestContexts == {BaseContext, [BaseContext EXCEPT !.network_zone = "z2"]}

Requests == {<<Read, SvcA>>, <<<<"write">>, SvcA>>, <<Read, Escape>>}

\* Start of an evaluation and how long it would run.
Evaluations == {<<1000, 0>>, <<1001, 1998>>, <<1999, 2>>, <<1999, 2501>>, <<2999, 101>>}

Narrowing(m) == CommitmentTo(m)
Exceeding(m) == [CommitmentTo(m) EXCEPT !.action_types = {<<"write">>}]

\* MATs with a commitment under them, or with none.
Grounds ==
    {<<m, <<>>>> : m \in HonestMATs}
    \cup {<<m, <<Sealed("ka", "commitment", Narrowing(m))>>>> : m \in HonestMATs}
    \cup {<<m, <<Sealed("ka", "commitment", Exceeding(m))>>>> : m \in HonestMATs}

BaseOccasion(m, k) ==
    [id |-> "r2", kid |-> "ke", name |-> "ep1", mat |-> Sealed("ki", "mat", m),
     commitment |-> k, context |-> BaseContext, keys |-> DOMAIN BaseContext.resource_state,
     action |-> Read, resource |-> SvcA, evidence |-> <<[category |-> "tpm", fresh |-> TRUE]>>,
     decision |-> "deny", controls |-> {}, codes |-> {}, prior |-> <<Prior>>, confirmed |-> <<Speculated>>,
     start |-> 1000, would |-> 0, exact |-> TRUE, hidden |-> {}, withheld |-> {},
     acted |-> {OtherDigest}]

Common ==
    {[BaseOccasion(g[1], g[2]) EXCEPT !.context = c, !.action = r[1], !.resource = r[2],
                                      !.start = e[1], !.would = e[2], !.exact = x] :
        g \in Grounds, c \in HonestContexts, r \in Requests, e \in Evaluations, x \in BOOLEAN}

\* Other points, other evidence, and scopes and receipts with little in them.
Uncommon ==
    LET open == [BaseMAT EXCEPT !.scope = [actions |-> {}, resources |-> {},
                                           unconstrained |-> {"actions", "resources"}],
                                !.machine_identity = NoIdentity]
        b == BaseOccasion(BaseMAT, <<>>)
    IN  {[b EXCEPT !.kid = "ku"], [b EXCEPT !.kid = "kh"], [b EXCEPT !.keys = {}],
         [b EXCEPT !.evidence = <<>>],
         [b EXCEPT !.evidence = <<[category |-> "tpm", fresh |-> FALSE]>> \o @],
         [b EXCEPT !.prior = <<>>, !.confirmed = <<>>],
         [b EXCEPT !.codes = KnownCodes, !.acted = {}],
         BaseOccasion(open, <<>>)}

Optional == {"mat", "context", "prior", "confirmed", "commitment", "replay"}

Supplies == {{}, {"mat"}, {"context"}, Optional}

Evaluated ==
    {[o EXCEPT !.hidden = h, !.withheld = w] :
        o \in Common, h \in {{}, Disclosable}, w \in Supplies}
    \cup {[o EXCEPT !.hidden = h, !.withheld = w] :
        o \in Uncommon, h \in {{}, Disclosable, {"action"}, {"resource", "complete"}}, w \in Supplies}

Dispositions == {<<"deny", {}>>, <<"permit", {}>>, <<"permit_with_controls", {"audit"}>>}

MCOccasions ==
    {p \in {[o EXCEPT !.decision = d[1], !.controls = d[2]] : o \in Evaluated, d \in Dispositions} :
        Decides(p)}

MCHonestInputs == {Presentation(o) : o \in MCOccasions}
=============================================================================
