---------------------------- MODULE StaffRules ----------------------------
(***************************************************************************)
(* Who may work a step: procworks.assignment, and the rules of             *)
(* procworks.validator that judge staff rules (Z1, Z2), escalation (T3)    *)
(* and mail notifications (N1-N3) before a schema is stored.               *)
(*                                                                         *)
(* A staff rule is a tree [kind, ref, deep, of], `of' its operands.  An    *)
(* organisation is a record; an agent exists when it is in the domain of   *)
(* deputy, a unit when it is in the domain of parent:                      *)
(*                                                                         *)
(*   roles          the roles                                              *)
(*   role, unit     agent -> its roles, its org unit or None               *)
(*   deputy         agent -> the agent that stands in for it, or None      *)
(*   manager,parent unit -> its manager, the unit above it, or None        *)
(*   mail           agent, role or unit -> None, "address" or "malformed"  *)
(*                                                                         *)
(* A schema's staffing is a record too:                                    *)
(*                                                                         *)
(*   rule      step -> its staff rule                                      *)
(*   stages    step -> its escalation stages [kind, rule, finite, after]   *)
(*   mail      step -> its notification [mode, deputies]                   *)
(*   timed     steps with a resolvable target time                         *)
(*   automatic steps with an automatic service binding                     *)
(*   before    step -> the nodes before it on every path: steps, but also  *)
(*             START, gateways, sub-processes (_must_executed_before)      *)
(*                                                                         *)
(* `by' gives the recorded performer of each node of a case, None where    *)
(* nobody is on record.  A finding is <<code, where>>; the same finding    *)
(* twice counts once.                                                      *)
(***************************************************************************)
EXTENDS FiniteSets, Integers, Sequences

CONSTANTS
    Rule,     \* the rule trees in use, with every operand
    Node,     \* the nodes of the schema
    Activity, \* the ACTIVITY steps among them
    MaxTime   \* MAX_TIME_SECONDS

ASSUME ActivitiesAreNodes == Activity \subseteq Node

None == "none"

StaticLeaves == {"ROLE", "ORG_UNIT", "AGENT"}
NodeRefs     == {"NODE_PERFORMING_AGENT", "NODE_PERFORMING_AGENT_SUPERVISOR"}
Combinators  == {"AND", "OR", "EXCEPT"}

Agents(o) == DOMAIN o.deputy
Units(o)  == DOMAIN o.parent

-----------------------------------------------------------------------------
(***************************************************************************)
(* Resolving a rule (assignment._resolve).                                 *)
(***************************************************************************)

\* _descendant_units, with the unit itself.
Below(o, u) ==
    LET grow[k \in Nat] ==
            IF k = 0 THEN {u}
            ELSE LET S == grow[k - 1] IN S \cup {v \in Units(o) : o.parent[v] \in S}
    IN  grow[Cardinality(Units(o))]

\* The leaves the organisation alone decides.
StaticAgents(o, r) ==
    CASE r.kind = "ROLE"     -> {a \in Agents(o) : r.ref \in o.role[a]}
      [] r.kind = "ORG_UNIT" -> {a \in Agents(o) :
                                   o.unit[a] \in IF r.deep THEN Below(o, r.ref) ELSE {r.ref}}
      [] r.kind = "AGENT"    -> {r.ref} \cap Agents(o)

\* The nearest manager above p other than p (_supervisor_of_performer).
SupervisorOf(o, p) ==
    LET above[k \in Nat] ==
            IF k = 0 THEN o.unit[p] ELSE
            LET u == above[k - 1] IN IF u \in Units(o) THEN o.parent[u] ELSE None
        places  == 0..Cardinality(Units(o))
        managed == {k \in places : above[k] \in Units(o) /\ o.manager[above[k]] \notin {None, p}}
    IN  IF p \notin Agents(o) THEN {}
        ELSE {o.manager[above[k]] : k \in {i \in managed : \A j \in managed : i <= j}}

Resolve(o, by, rule) ==
    LET performer(r) == {by[r.ref]} \ {None}
        agents[r \in Rule] ==
            CASE r.kind \in StaticLeaves -> StaticAgents(o, r)
              [] r.kind = "NODE_PERFORMING_AGENT" -> performer(r)
              [] r.kind = "NODE_PERFORMING_AGENT_SUPERVISOR" ->
                    UNION {SupervisorOf(o, p) : p \in performer(r)}
              [] r.kind = "OR"  -> UNION {agents[r.of[i]] : i \in DOMAIN r.of}
              [] r.kind = "AND" -> {a \in agents[r.of[1]] :
                                      \A i \in DOMAIN r.of : a \in agents[r.of[i]]}
              [] r.kind = "EXCEPT" -> agents[r.of[1]] \ agents[r.of[2]]
    IN  agents[rule]

-----------------------------------------------------------------------------
(***************************************************************************)
(* Four eyes.                                                              *)
(***************************************************************************)

\* _four_eyes_steps: the earlier steps whose performer the rule keeps away.  `sub'
\* is the set the nearest EXCEPT subtracts, {} on a selecting side.
FourEyesSteps(o, by, rule) ==
    LET steps[r \in Rule, excluding \in BOOLEAN, sub \in SUBSET Agents(o)] ==
            (IF \/ r.kind = "NODE_PERFORMING_AGENT_SUPERVISOR" /\ by[r.ref] # None
                \/ r.kind = "NODE_PERFORMING_AGENT" /\ excluding /\ by[r.ref] \in sub
             THEN {r.ref} ELSE {})
            \cup UNION {IF r.kind = "EXCEPT" /\ i > 1
                        THEN IF excluding THEN steps[r.of[i], FALSE, {}]
                             ELSE steps[r.of[i], TRUE, Resolve(o, by, r.of[i])]
                        ELSE steps[r.of[i], excluding, sub] : i \in DOMAIN r.of}
    IN  steps[rule, FALSE, {}]

FourEyesPerformers(o, by, rule) == {by[x] : x \in FourEyesSteps(o, by, rule)}

\* four_eyes_references: the steps such terms name, whoever performed them.
FourEyesReferences(rule) ==
    LET refs[r \in Rule, excluding \in BOOLEAN] ==
            (IF \/ r.kind = "NODE_PERFORMING_AGENT_SUPERVISOR"
                \/ r.kind = "NODE_PERFORMING_AGENT" /\ excluding
             THEN {r.ref} ELSE {})
            \cup UNION {refs[r.of[i], excluding # (r.kind = "EXCEPT" /\ i > 1)] :
                        i \in DOMAIN r.of}
    IN  refs[rule, FALSE]

-----------------------------------------------------------------------------
(***************************************************************************)
(* Deputies and escalation.                                                *)
(***************************************************************************)

\* The agents the substitution chain visits: across the edge of an absent agent;
\* past an excluded deputy only when it is absent itself.
Chain(o, base, absent, never) ==
    LET grow[k \in Nat] ==
            IF k = 0 THEN base
            ELSE LET S == grow[k - 1]
                 IN  S \cup ({o.deputy[a] : a \in S \cap absent \cap Agents(o)}
                             \ ({None} \cup (never \ absent)))
    IN  grow[Cardinality(Agents(o))]

WithDeputies(o, base, absent, never) == base \cup (Chain(o, base, absent, never) \ never)

\* excluded_deputies: the deputy edges the four-eyes principle blocked.
BlockedDeputies(o, base, absent, never) ==
    {e \in {<<o.deputy[a], a>> : a \in Chain(o, base, absent, never) \cap absent \cap Agents(o)} :
        e[1] \in never}

Stages(s, n) == IF n \in DOMAIN s.stages THEN s.stages[n] ELSE <<>>

\* The rule's own agents and those of the fired FUNCTIONAL stages.
Base(s, o, n, by, fired) ==
    LET never == FourEyesPerformers(o, by, s.rule[n])
    IN  Resolve(o, by, s.rule[n]) \cup
        UNION {Resolve(o, by, Stages(s, n)[i].rule) \ never :
               i \in {j \in 1..fired : Stages(s, n)[j].kind = "FUNCTIONAL"}}

\* Mutant: a deputy edge asks only the rule.
EligibleDeputiesUnchecked(s, o, n, by, fired, absent) ==
    IF n \notin DOMAIN s.rule THEN {}
    ELSE WithDeputies(o, Base(s, o, n, by, fired), absent, {})

EligibleAgents(s, o, n, by, fired, absent) ==
    IF n \notin DOMAIN s.rule THEN {}
    ELSE WithDeputies(o, Base(s, o, n, by, fired), absent,
                      FourEyesPerformers(o, by, s.rule[n]))

\* Mutant: an absent agent counts as somebody.
ReasonLoginsOnly(s, o, n, by, fired, absent, logins) ==
    LET eligible == EligibleAgents(s, o, n, by, fired, absent)
    IN  IF n \notin DOMAIN s.rule THEN "no_rule"
        ELSE IF eligible = {} THEN "nobody"
        ELSE IF eligible \cap logins = {} THEN "no_login" ELSE None

\* unstaffed_steps for one open step: why nobody can work it, or None.
UnstaffedReason(s, o, n, by, fired, absent, logins) ==
    LET eligible == EligibleAgents(s, o, n, by, fired, absent)
    IN  IF n \in s.automatic THEN None
        ELSE IF n \notin DOMAIN s.rule THEN "no_rule"
        ELSE IF eligible = {} THEN "nobody"
        ELSE IF eligible \cap logins = {} THEN "no_login"
        ELSE IF eligible \cap logins \subseteq absent THEN "only_absent" ELSE None

\* _excluded_deputies: <<deputy, whom it would have stood in for>> of the report.
ExcludedDeputies(s, o, n, by, fired, absent) ==
    LET never == FourEyesPerformers(o, by, s.rule[n])
    IN  BlockedDeputies(o, Base(s, o, n, by, fired), absent, never)

-----------------------------------------------------------------------------
(***************************************************************************)
(* Bounds of a rule at modelling time: [all, of] is every agent there may  *)
(* ever be, or the set `of'.                                               *)
(***************************************************************************)
Anybody   == [all |-> TRUE, of |-> {}]
Only(S)   == [all |-> FALSE, of |-> S]

IntersectBounds(B) ==
    LET known == {b \in B : ~b.all}
    IN  IF known = {} THEN Anybody
        ELSE Only({a \in UNION {b.of : b \in known} : \A b \in known : a \in b.of})
UnionBounds(B) == IF \E b \in B : b.all THEN Anybody ELSE Only(UNION {b.of : b \in B})

\* _exact_agents: what the organisation alone decides, else Anybody for "unknown".
ExactAgents(o, rule) ==
    LET exact[r \in Rule] ==
            IF r.kind \in NodeRefs THEN Anybody
            ELSE IF r.kind \in StaticLeaves THEN Only(StaticAgents(o, r))
            ELSE LET E == [i \in DOMAIN r.of |-> exact[r.of[i]]]
                 IN  IF \E i \in DOMAIN E : E[i].all THEN Anybody
                     ELSE IF E = <<>> THEN Only({})
                     ELSE CASE r.kind = "AND" -> IntersectBounds({E[i] : i \in DOMAIN E})
                            [] r.kind = "OR"  -> UnionBounds({E[i] : i \in DOMAIN E})
                            [] r.kind = "EXCEPT" ->
                                 IF Len(E) >= 2 THEN Only(E[1].of \ E[2].of) ELSE E[1]
    IN  exact[rule]

PossibleAgents(o, rule) ==
    LET possible[r \in Rule] ==
            CASE r.kind \in StaticLeaves -> Only(StaticAgents(o, r))
              [] r.kind = "NODE_PERFORMING_AGENT" -> Anybody
              [] r.kind = "NODE_PERFORMING_AGENT_SUPERVISOR" ->
                    Only({o.manager[u] : u \in Units(o)} \ {None})
              [] r.kind = "AND" -> IntersectBounds({possible[r.of[i]] : i \in DOMAIN r.of})
              [] r.kind = "OR"  -> UnionBounds({possible[r.of[i]] : i \in DOMAIN r.of})
              [] r.kind = "EXCEPT" ->
                    LET left == possible[r.of[1]]
                        gone == IF Len(r.of) < 2 THEN Anybody ELSE ExactAgents(o, r.of[2])
                    IN  IF left.all \/ gone.all THEN left ELSE Only(left.of \ gone.of)
    IN  possible[rule]

Nobody(o, rule) == PossibleAgents(o, rule) = Only({})

-----------------------------------------------------------------------------
(***************************************************************************)
(* Well-formed rules and organisations (Z1, N1).                           *)
(***************************************************************************)
Where(code, S) == {<<code, x>> : x \in S}

\* _check_staff_ref: a rule may name any node, one that nobody performs too.
UnknownRef(o, r) ==
    CASE r.kind = "ROLE"     -> r.ref \notin o.roles
      [] r.kind = "ORG_UNIT" -> r.ref \notin Units(o)
      [] r.kind = "AGENT"    -> r.ref \notin Agents(o)
      [] r.kind \in NodeRefs -> r.ref \notin Node

\* _check_staff_rule_node
Z1Rule(o, n, rule) ==
    LET found[r \in Rule] ==
            IF r.kind \in Combinators
            THEN (IF IF r.kind = "EXCEPT" THEN Len(r.of) # 2 ELSE Len(r.of) < 1
                  THEN {<<"Z1.operands", n>>} ELSE {})
                 \cup UNION {found[r.of[i]] : i \in DOMAIN r.of}
            ELSE (IF r.of # <<>> THEN {<<"Z1.no-operands-allowed", n>>} ELSE {})
                 \cup IF r.ref = None THEN {<<"Z1.reference-missing", n>>}
                      ELSE IF UnknownRef(o, r) THEN {<<"Z1.unknown-ref", n>>} ELSE {}
    IN  found[rule]

\* _check_z1_wellformed
Z1(s, o) == Where("Z1.not-activity", DOMAIN s.rule \ Activity)
            \cup UNION {Z1Rule(o, n, s.rule[n]) : n \in DOMAIN s.rule}

\* _check_org_master_data
Z1MasterData(o) ==
    Where("Z1.unknown-manager", {u \in Units(o) : o.manager[u] \notin Agents(o) \cup {None}})
    \cup Where("Z1.own-deputy", {a \in Agents(o) : o.deputy[a] = a})
    \cup Where("Z1.unknown-deputy", {a \in Agents(o) : o.deputy[a] \notin Agents(o) \cup {None}})

\* org_address_findings
N1(o) == Where("N1", {x \in DOMAIN o.mail : o.mail[x] = "malformed"})

\* _check_hierarchy_acyclic: a unit from which the way up comes round.
OnCycle(o, u) ==
    LET above[k \in Nat] ==
            IF k = 0 THEN u ELSE
            LET v == above[k - 1] IN IF v \in Units(o) THEN o.parent[v] ELSE None
    IN  above[Cardinality(Units(o)) + 1] # None

\* validate_org
OrgFindings(o) ==
    N1(o) \cup Z1MasterData(o)
    \cup Where("Z1.agent-unknown-role", {a \in Agents(o) : ~(o.role[a] \subseteq o.roles)})
    \cup Where("Z1.agent-unknown-unit", {a \in Agents(o) : o.unit[a] \notin Units(o) \cup {None}})
    \cup Where("Z1.unknown-parent", {u \in Units(o) : o.parent[u] \notin Units(o) \cup {None}})
    \cup Where("Z1.unit-cycle", {u \in Units(o) : OnCycle(o, u)})

-----------------------------------------------------------------------------
(***************************************************************************)
(* Staffing that can work out (Z2), escalation (T3), notification (N2-N3). *)
(***************************************************************************)

Z2(s, o) == Where("Z2.nobody", {n \in DOMAIN s.rule : Nobody(o, s.rule[n])})

\* _node_refs: the nodes whose performer a rule names.
NodesNamed(rule) ==
    LET refs[r \in Rule] ==
            (IF r.kind \in NodeRefs THEN {r.ref} ELSE {})
            \cup UNION {refs[r.of[i]] : i \in DOMAIN r.of}
    IN  refs[rule]

\* _check_z3_backrefs
Z3BackRefs(s) ==
    UNION {{<<"Z3.reference-not-before", <<n, x>>>> : x \in NodesNamed(s.rule[n]) \ s.before[n]} :
           n \in DOMAIN s.rule}

ContainsNodeRef(rule) ==
    LET has[r \in Rule] == r.kind \in NodeRefs \/ \E i \in DOMAIN r.of : has[r.of[i]]
    IN  has[rule]

\* _check_escalation_target
T3Target(o, n, rule) ==
    Z1Rule(o, n, rule) \cup
    IF ContainsNodeRef(rule) THEN {<<"T3.node-ref-target", n>>}
    ELSE IF Nobody(o, rule) THEN {<<"T3.nobody", n>>} ELSE {}

\* _check_escalation_policy
T3Policy(s, o, n) ==
    LET st == s.stages[n]
        finite == {i \in DOMAIN st : st[i].finite}
    IN  IF n \notin Activity THEN {<<"T3.not-activity", n>>} ELSE
        Where("T3.automatic", {n} \cap s.automatic)
        \cup Where("T3.no-target-time", {n} \ s.timed)
        \cup (IF st = <<>> THEN {<<"T3.no-stages", n>>} ELSE {})
        \cup (IF finite # DOMAIN st THEN {<<"T3.offset-not-finite", n>>} ELSE {})
        \cup (IF \E i \in finite : st[i].after < 0 THEN {<<"T3.negative-offset", n>>} ELSE {})
        \cup (IF \E i \in finite : st[i].after > MaxTime
              THEN {<<"T3.offset-too-large", n>>} ELSE {})
        \cup (IF \E i, j \in finite : i < j /\ st[j].after <= st[i].after
              THEN {<<"T3.offsets-ascending", n>>} ELSE {})
        \cup UNION {T3Target(o, n, st[i].rule) : i \in DOMAIN st}

T3(s, o) == UNION {T3Policy(s, o, n) : n \in DOMAIN s.stages}

\* The stages whose agents may be offered the step.
FunctionalRules(s, n) ==
    {Stages(s, n)[i].rule : i \in {j \in DOMAIN Stages(s, n) : Stages(s, n)[j].kind = "FUNCTIONAL"}}

\* _possible_recipients: an unbounded stage is left out, an unbounded rule decides.
PossibleRecipients(o, rule, extra) ==
    LET own == PossibleAgents(o, rule)
    IN  IF own.all THEN Anybody
        ELSE Only(own.of \cup UNION {PossibleAgents(o, r).of : r \in extra})

\* validator._with_deputies: whoever may stand in once somebody is absent.
EveryDeputy(o, base) ==
    LET grow[k \in Nat] ==
            IF k = 0 THEN base
            ELSE LET S == grow[k - 1] IN S \cup ({o.deputy[a] : a \in S \cap Agents(o)} \ {None})
    IN  grow[Cardinality(Agents(o))]

HasAddress(o, x) == x \in DOMAIN o.mail /\ o.mail[x] # None

\* Mutant: the deputies of possible recipients are not asked for an address.
N3OwnAddressesOnly(s, o, n) ==
    LET possible == PossibleRecipients(o, s.rule[n], FunctionalRules(s, n))
    IN  IF possible.all THEN {<<"N3.not-static", n>>}
        ELSE {<<"N3.no-address", <<n, a>>>> : a \in {x \in possible.of : ~HasAddress(o, x)}}

\* _check_n3_eligible_agents
N3EligibleAgents(s, o, n) ==
    LET possible   == PossibleRecipients(o, s.rule[n], FunctionalRules(s, n))
        recipients == IF s.mail[n].deputies THEN EveryDeputy(o, possible.of) ELSE possible.of
    IN  IF possible.all THEN {<<"N3.not-static", n>>}
        ELSE {<<"N3.no-address", <<n, a>>>> : a \in {x \in recipients : ~HasAddress(o, x)}}

\* _group_refs: the roles and units a rule addresses, not those it takes away.
GroupRefs(rule) ==
    LET refs[r \in Rule] ==
            IF r.kind \in {"ROLE", "ORG_UNIT"} THEN {r.ref}
            ELSE UNION {refs[r.of[i]] :
                        i \in {j \in DOMAIN r.of : r.kind # "EXCEPT" \/ j = 1}}
    IN  refs[rule]

\* _check_n3_group_mailboxes
N3GroupMailboxes(s, o, n) ==
    LET groups == GroupRefs(s.rule[n])
    IN  (IF groups = {} THEN {<<"N3.no-group", n>>} ELSE {})
        \cup {<<"N3.no-mailbox", <<n, g>>>> : g \in {x \in groups : ~HasAddress(o, x)}}
        \cup IF ContainsNodeRef(s.rule[n]) THEN {<<"N3.performer-no-mailbox", n>>} ELSE {}

\* _check_mail_binding
MailFindings(s, o, n) ==
    IF n \notin Activity THEN {<<"N2.not-activity", n>>}
    ELSE IF n \notin DOMAIN s.rule THEN {<<"N2.no-staff-rule", n>>}
    ELSE IF s.mail[n].mode = "TO_ELIGIBLE_AGENTS" THEN N3EligibleAgents(s, o, n)
    ELSE N3GroupMailboxes(s, o, n)

N(s, o) == N1(o) \cup UNION {MailFindings(s, o, n) : n \in DOMAIN s.mail}

\* _check_resources: Z2 and Z3 run once the rules are well-formed.
Resources(s, o) ==
    LET z == Z1(s, o) \cup Z1MasterData(o)
             \cup Where("Z4.staff-rule", s.automatic \cap DOMAIN s.rule)
    IN  IF z # {} THEN z ELSE Z2(s, o) \cup Z3BackRefs(s)

StaffFindings(s, o) == Resources(s, o) \cup T3(s, o) \cup N(s, o)

=============================================================================
