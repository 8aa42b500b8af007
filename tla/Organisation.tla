--------------------------- MODULE Organisation ---------------------------
(***************************************************************************)
(* A shared organisation and a schema that may be linked to it, changed by *)
(* requests side by side: procworks.org, the organisation and staffing     *)
(* operations of procworks.operations, and the commits of procworks.api    *)
(* (_commit_org_or_422, _commit_or_422).  A request reads both objects,    *)
(* judges its candidate by the findings it adds, and saves conditionally:  *)
(* if an object it saves was saved by another request meanwhile it is      *)
(* repeated on what is stored now.  (Reading the two objects one after the *)
(* other is reading both at the later instant: if the first one was saved  *)
(* in between, the save conflicts.)                                        *)
(*                                                                         *)
(* The schema is a staffing record of StaffRules with                      *)
(*   linked  it resolves against the shared organisation                   *)
(*   own     its embedded organisation, empty while it is linked           *)
(*   draft   it is in the state ENTWURF                                    *)
(***************************************************************************)
EXTENDS StaffRules

CONSTANTS
    Proc,        \* the requests that may be in flight at once
    OrgChanges,  \* the changes asked of the shared organisation
    LocalChanges,\* the changes asked of the schema's own organisation
    Edits,       \* the staffing edits asked of the schema
    MaxChanges,  \* bound on the changes that are stored
    StartSchemas, StartOrg

VARIABLES
    org,      \* the shared organisation as stored
    schema,   \* the schema as stored
    request,  \* process -> its request in flight
    changes,  \* changes stored so far
    raced     \* a link and a change of the organisation missed each other

orgVars == <<org, schema, request, changes, raced>>

EmptyOrg == [roles |-> {}, role |-> <<>>, unit |-> <<>>, deputy |-> <<>>,
             manager |-> <<>>, parent |-> <<>>, mail |-> <<>>]

\* hydrate_org: what the schema's rules resolve against.
Hydrated(s, o) == IF s.linked THEN o ELSE s.own

\* findings_added: a change may leave what was found before, not add to it.
FindsNothingNew(found, before, after) == found[after] \subseteq found[before]

-----------------------------------------------------------------------------
(***************************************************************************)
(* The operations of procworks.org.  Each yields the set of its candidate, *)
(* or {} when it refuses.                                                  *)
(***************************************************************************)
Known(x, S) == x = None \/ x \in S
If(cond, x) == IF cond THEN {x} ELSE {}

\* One more is on record, or it is recorded anew.
With(f, x, v) == [y \in DOMAIN f \cup {x} |-> IF y = x THEN v ELSE f[y]]

AddRole(o, r) ==
    If(r \notin o.roles, [o EXCEPT !.roles = @ \cup {r}, !.mail = With(@, r, None)])

AddUnit(o, u, parent, manager) ==
    If(u \notin Units(o) /\ Known(parent, Units(o)) /\ Known(manager, Agents(o)),
       [o EXCEPT !.parent = With(@, u, parent), !.manager = With(@, u, manager),
                 !.mail = With(@, u, None)])

AddAgent(o, a, roles, unit, deputy, mail) ==
    If(/\ a \notin Agents(o)
       /\ roles \subseteq o.roles /\ Known(unit, Units(o)) /\ Known(deputy, Agents(o)),
       [o EXCEPT !.role = With(@, a, roles), !.unit = With(@, a, unit),
                 !.deputy = With(@, a, deputy), !.mail = With(@, a, mail)])

UpdateAgent(o, a, roles, unit, mail) ==
    If(a \in Agents(o) /\ roles \subseteq o.roles /\ Known(unit, Units(o)),
       [o EXCEPT !.role[a] = roles, !.unit[a] = unit, !.mail[a] = mail])

SetManager(o, u, manager) ==
    If(u \in Units(o) /\ Known(manager, Agents(o)), [o EXCEPT !.manager[u] = manager])

SetParent(o, u, parent) ==
    If(/\ u \in Units(o) /\ Known(parent, Units(o))
       /\ parent # None => parent \notin Below(o, u),
       [o EXCEPT !.parent[u] = parent])

SetDeputy(o, a, deputy) ==
    If(a \in Agents(o) /\ deputy # a /\ Known(deputy, Agents(o)), [o EXCEPT !.deputy[a] = deputy])

SetRoleMailbox(o, r, mail) == If(r \in o.roles, [o EXCEPT !.mail[r] = mail])
SetUnitMailbox(o, u, mail) == If(u \in Units(o), [o EXCEPT !.mail[u] = mail])

\* What a change asks for; the commit check refuses what adds a finding.
Candidate(o, c) ==
    CASE c.op = "add_role"     -> AddRole(o, c.id)
      [] c.op = "add_unit"     -> AddUnit(o, c.id, c.parent, c.manager)
      [] c.op = "add_agent"    -> AddAgent(o, c.id, c.roles, c.unit, c.deputy, c.mail)
      [] c.op = "update_agent" -> UpdateAgent(o, c.id, c.roles, c.unit, c.mail)
      [] c.op = "set_manager"  -> SetManager(o, c.id, c.to)
      [] c.op = "set_parent"   -> SetParent(o, c.id, c.to)
      [] c.op = "set_deputy"   -> SetDeputy(o, c.id, c.to)
      [] c.op = "role_mailbox" -> SetRoleMailbox(o, c.id, c.to)
      [] c.op = "unit_mailbox" -> SetUnitMailbox(o, c.id, c.to)

\* raise_if_org_findings_added
Accepted(o, c) ==
    {x \in Candidate(o, c) :
        FindsNothingNew([y \in {o, x} |-> OrgFindings(y)], o, x)}

-----------------------------------------------------------------------------
(***************************************************************************)
(* The same changes on the embedded organisation of a schema that is not   *)
(* linked.  Who exists is structure (a draft only), who manages, stands in *)
(* and is reached is master data (at any time).  A reference to a manager  *)
(* or deputy that does not exist is left to Z1.                            *)
(***************************************************************************)
LocalAddRole(o, r) == AddRole(o, r)

LocalAddUnit(o, u, parent, manager) ==
    If(u \notin Units(o) /\ Known(parent, Units(o)),
       [o EXCEPT !.parent = With(@, u, parent), !.manager = With(@, u, manager),
                 !.mail = With(@, u, None)])

LocalAddAgent(o, a, roles, unit, deputy, mail) ==
    If(a \notin Agents(o) /\ roles \subseteq o.roles /\ Known(unit, Units(o)),
       [o EXCEPT !.role = With(@, a, roles), !.unit = With(@, a, unit),
                 !.deputy = With(@, a, deputy), !.mail = With(@, a, mail)])

LocalUpdateAgent(o, a, roles, unit, mail) == UpdateAgent(o, a, roles, unit, mail)

LocalSetManager(o, u, manager) == If(u \in Units(o), [o EXCEPT !.manager[u] = manager])

LocalSetParent(o, u, parent) ==
    If(u \in Units(o) /\ Known(parent, Units(o)) /\ (parent # None => parent \notin Below(o, u)),
       [o EXCEPT !.parent[u] = parent])

LocalSetDeputy(o, a, deputy) == If(a \in Agents(o), [o EXCEPT !.deputy[a] = deputy])

LocalSetRoleMailbox(o, r, mail) == SetRoleMailbox(o, r, mail)
LocalSetUnitMailbox(o, u, mail) == SetUnitMailbox(o, u, mail)

Structural == {"add_role", "add_unit", "add_agent", "update_agent"}

LocalCandidate(o, c) ==
    CASE c.op = "add_role"     -> LocalAddRole(o, c.id)
      [] c.op = "add_unit"     -> LocalAddUnit(o, c.id, c.parent, c.manager)
      [] c.op = "add_agent"    -> LocalAddAgent(o, c.id, c.roles, c.unit, c.deputy, c.mail)
      [] c.op = "update_agent" -> LocalUpdateAgent(o, c.id, c.roles, c.unit, c.mail)
      [] c.op = "set_manager"  -> LocalSetManager(o, c.id, c.to)
      [] c.op = "set_parent"   -> LocalSetParent(o, c.id, c.to)
      [] c.op = "set_deputy"   -> LocalSetDeputy(o, c.id, c.to)
      [] c.op = "role_mailbox" -> LocalSetRoleMailbox(o, c.id, c.to)
      [] c.op = "unit_mailbox" -> LocalSetUnitMailbox(o, c.id, c.to)

\* _require_local_org, and _require_editable where the operation asks for it.
LocalResult(s, c) ==
    IF s.linked \/ (c.op \in Structural /\ ~s.draft) THEN {}
    ELSE {[s EXCEPT !.own = x] : x \in LocalCandidate(s.own, c)}

-----------------------------------------------------------------------------
(***************************************************************************)
(* The staffing operations of procworks.operations on a draft.             *)
(***************************************************************************)
AssignStaffRule(s, n, rule) == If(n \in Activity, [s EXCEPT !.rule = With(@, n, rule)])
ClearStaffRule(s, n) ==
    If(n \in DOMAIN s.rule, [s EXCEPT !.rule = [x \in DOMAIN @ \ {n} |-> @[x]]])
\* Sets what a step carries to the one member of X, or clears it with {}.
Put(f, n, X) == [y \in (DOMAIN f \ {n}) \cup {m \in {n} : X # {}} |->
                    IF y = n THEN CHOOSE x \in X : TRUE ELSE f[y]]
SetEscalationPolicy(s, n, X) == {[s EXCEPT !.stages = Put(@, n, X)]}
SetMailBinding(s, n, X)      == If(n \in Activity, [s EXCEPT !.mail = Put(@, n, X)])
LinkOrgModel(s)      == {[s EXCEPT !.linked = TRUE, !.own = EmptyOrg]}
UnlinkOrgModel(s, o) == {[s EXCEPT !.linked = FALSE, !.own = Hydrated(s, o)]}

\* release: a rule on every step somebody works (B2), and no finding at all.
Release(s) ==
    If(Activity \ s.automatic \subseteq DOMAIN s.rule, [s EXCEPT !.draft = FALSE])

Edited(s, o, e) ==
    CASE e.op = "assign"  -> AssignStaffRule(s, e.step, e.rule)
      [] e.op = "clear"   -> ClearStaffRule(s, e.step)
      [] e.op = "escalate"-> SetEscalationPolicy(s, e.step, e.to)
      [] e.op = "mail"    -> SetMailBinding(s, e.step, e.to)
      [] e.op = "link"    -> LinkOrgModel(s)
      [] e.op = "unlink"  -> UnlinkOrgModel(s, o)
      [] e.op = "release" -> Release(s)

\* What a request on the schema may store: raise_if_findings_added on the schema as
\* it was hydrated for the request; release allows none.
AcceptedSchemas(s, o, c) ==
    {x \in IF c.on = "local" THEN LocalResult(s, c)
           ELSE IF s.draft THEN Edited(s, o, c) ELSE {} :
        LET found == [y \in {s, x} |-> StaffFindings(y, Hydrated(y, o))]
        IN  /\ FindsNothingNew(found, s, x)
            /\ c.op = "release" => found[x] = {}}

-----------------------------------------------------------------------------
(***************************************************************************)
(* Requests.                                                               *)
(***************************************************************************)
Idle == [kind |-> "idle"]

\* The stored schema gains no finding from a candidate of its organisation.
Bears(o) ==
    schema.linked =>
        FindsNothingNew([y \in {org, o} |-> StaffFindings(schema, y)], org, o)

\* Mutant: the referencing schemas are read, not saved.
OrgRequestsAlone(c) ==
    {[kind |-> "org", what |-> c, org |-> o, schema |-> schema, read |-> org,
      saves |-> {"org"}] : o \in {x \in Accepted(org, c) : Bears(x)}}

\* _commit_org_or_422: no referencing schema may gain a finding; it is saved too.
OrgRequests(c) ==
    {[kind |-> "org", what |-> c, org |-> o, schema |-> schema, read |-> org,
      saves |-> {"org"} \cup (IF schema.linked THEN {"schema"} ELSE {})] :
     o \in {x \in Accepted(org, c) : Bears(x)}}

\* _commit_or_422
SchemaRequests(c) ==
    {[kind |-> "schema", what |-> c, org |-> org, schema |-> s, read |-> org,
      saves |-> {"schema"}] : s \in AcceptedSchemas(schema, org, c)}

RequestsFor(c) == IF c.on = "org" THEN OrgRequests(c) ELSE SchemaRequests(c)

Pending(p) == request[p].kind \in {"org", "schema"}

Beaten(p, saved) ==
    [q \in Proc |-> IF q # p /\ Pending(q) /\ request[q].saves \cap saved # {}
                    THEN [kind |-> "beaten", what |-> request[q].what] ELSE request[q]]

\* The conditional saves of one unit of work take effect together.
Store(r) ==
    LET missed == \/ r.kind = "org" /\ schema.linked /\ ~r.schema.linked
                  \/ r.kind = "schema" /\ r.what.op = "link" /\ r.read # org
    IN  /\ org' = IF "org" \in r.saves THEN r.org ELSE org
        /\ schema' = IF r.kind = "schema" THEN r.schema ELSE schema
        /\ changes' = changes + 1
        /\ raced' = (raced \/ missed)

Commit(p) ==
    /\ Pending(p)
    /\ Store(request[p])
    /\ request' = [Beaten(p, request[p].saves) EXCEPT ![p] = Idle]

\* A request reads, checks and prepares what it will save; one that is refused
\* changes nothing.  A beaten request is repeated on what is stored now.
Attempt(p) ==
    /\ ~Pending(p)
    /\ LET asked == IF request[p] = Idle THEN OrgChanges \cup LocalChanges \cup Edits
                    ELSE {request[p].what}
           made  == UNION {RequestsFor(c) : c \in asked}
       IN  /\ request[p] = Idle => changes < MaxChanges
           /\ \E r \in IF made = {} THEN {Idle} ELSE made : request' = [request EXCEPT ![p] = r]
    /\ UNCHANGED <<org, schema, changes, raced>>

OrgInit ==
    /\ org = StartOrg /\ schema \in StartSchemas
    /\ request = [p \in Proc |-> Idle]
    /\ changes = 0 /\ raced = FALSE

=============================================================================
