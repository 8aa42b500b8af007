----------------------------- MODULE Staffing -----------------------------
(***************************************************************************)
(* Who works a case while its people change: one case of the schema of     *)
(* Organisation, its steps done one after the other and possibly again in  *)
(* a further round (procworks.assignment, the worklist and absence         *)
(* endpoints of procworks.api_execution, the escalation sweep of           *)
(* procworks.api, the recipients of procworks.mail_runtime).  The case     *)
(* asks the organisation as it is stored at that moment.                   *)
(*                                                                         *)
(* People work most steps; an automatic one is done by a system or, by way *)
(* of exception, by hand, and a sub-process by the end of its child.  Only *)
(* an agent who completes a step is recorded as its performer.             *)
(*                                                                         *)
(* Time is left out: any number of a step's escalation stages may be due.  *)
(***************************************************************************)
EXTENDS Organisation

CONSTANTS
    Flow,      \* the steps and sub-processes in the order they are done
    Away,      \* the agents who may be absent
    Logins,    \* the agents that can sign in
    Overseers, \* the agents whose login may finish an automatic step by hand
    Timer,     \* the API processes with a background escalation timer
    MaxRounds  \* bound on the rounds of the case

Fields == {"rule", "stages", "mail", "timed", "automatic", "before", "linked", "own", "draft"}

\* One path through a draft, every node of it once a round; the steps before a step on
\* every path are among those this path did before.  People are finitely many, and what
\* is asked is one of the operations.
ASSUME StaffingConstants ==
    /\ Flow \in Seq(Node) /\ \A i, j \in DOMAIN Flow : Flow[i] = Flow[j] => i = j
    /\ \A s \in StartSchemas :
          /\ DOMAIN s = Fields /\ s.draft
          /\ \A i \in DOMAIN Flow :
                s.before[Flow[i]] \cap Activity \subseteq {Flow[j] : j \in 1 .. i - 1}
    /\ \A o \in {StartOrg} \cup {s.own : s \in StartSchemas} :
          DOMAIN o = DOMAIN EmptyOrg /\ IsFiniteSet(Agents(o))
    /\ \A c \in OrgChanges : c.on = "org"
    /\ \A c \in LocalChanges : c.on = "local"
    /\ \A c \in OrgChanges \cup LocalChanges :
          c.op \in Structural \cup {"set_manager", "set_parent", "set_deputy",
                                    "role_mailbox", "unit_mailbox"}
    /\ \A c \in Edits : /\ c.on = "edit"
                        /\ c.op \in {"assign", "clear", "escalate", "mail", "link", "unlink",
                                     "release"}

VARIABLES
    case,      \* the stored case
    absent,    \* the agents absent right now
    sweep,     \* timer -> what its unit of work read and will save
    escalated  \* the TASK_ESCALATED events of the audit log

caseVars == <<case, absent, sweep, escalated>>

NotStarted == [at |-> 0, by |-> [n \in Node |-> None], holder |-> None,
               fired |-> [n \in Activity |-> 0], round |-> 0, last |-> None, done |-> 0]

Ended == Len(Flow) + 1
Step  == Flow[case.at]
Open  == case.at \in DOMAIN Flow /\ Step \in Activity
Calls == case.at \in DOMAIN Flow /\ Step \notin Activity
Org   == Hydrated(schema, org)

\* The steps people work: everything but a step of a system.
Manned(s) == Activity \ s.automatic

Eligible == EligibleAgents(schema, Org, Step, case.by, case.fired[Step], absent)

-----------------------------------------------------------------------------
(***************************************************************************)
(* The case.  Every save of it beats the units of work that read it before.*)
(***************************************************************************)
Lost == [kind |-> "lost"]

\* Mutant: nobody notices that the case changed.
NoSweepBeaten == sweep

SweepsBeaten == [t \in Timer |-> IF sweep[t] = Idle THEN Idle ELSE Lost]

Save(c) == case' = c /\ sweep' = SweepsBeaten

\* A released schema starts a case; its first step becomes ready.  (Bound: no request
\* is in flight just then.)
StartCase ==
    /\ case.at = 0 /\ ~schema.draft
    /\ \A p \in Proc : request[p] = Idle
    /\ Save([case EXCEPT !.at = 1, !.round = 1])
    /\ UNCHANGED <<absent, escalated, orgVars>>

\* Whom the API and the engine let claim or complete the open step: an automatic one is
\* finished by hand as a supervision only (_require_automatic_supervision).
MayWork ==
    IF ~Open THEN {}
    ELSE IF Step \in schema.automatic THEN Overseers \cap Agents(Org)
    ELSE IF Step \in DOMAIN schema.rule THEN Eligible ELSE Agents(Org)

\* claim_activity: an offer to people, by one who may work; the holder's own is a no-op.
Claim(a) ==
    /\ case.holder = None /\ Step \notin schema.automatic
    /\ Save([case EXCEPT !.holder = a])
    /\ UNCHANGED <<absent, escalated, orgVars>>

\* return_activity, by the holder or by force of a supervisor.
ReturnClaim ==
    /\ Open /\ case.holder # None
    /\ Save([case EXCEPT !.holder = None])
    /\ UNCHANGED <<absent, escalated, orgVars>>

\* The marking after the open step was done: the next step, a further round of
\* all of them (the loop reset clears each activation), or the end.
After(c) ==
    {[c EXCEPT !.at = @ + 1]} \cup
    IF c.at = Len(Flow) /\ c.round < MaxRounds
    THEN {[c EXCEPT !.at = 1, !.round = @ + 1, !.fired = [n \in Activity |-> 0]]} ELSE {}

\* complete_activity, by one who may work now: nobody else holds the step.
Complete(a) ==
    /\ a # None /\ case.holder \in {None, a}
    /\ \E c \in After([case EXCEPT !.by[Step] = a, !.holder = None, !.last = a,
                                   !.done = @ + 1]) : Save(c)
    /\ UNCHANGED <<absent, escalated, orgVars>>

\* _performer_uses, _steps_using_performer_of: the steps whose rule asks who did n.
UsersOf(n) == {x \in DOMAIN schema.rule \ {n} : n \in NodesNamed(schema.rule[x])}

\* The current node is done and nobody is recorded for it; whoever did it in an earlier
\* round stays on record.
DoneByNobody ==
    /\ \E c \in After([case EXCEPT !.last = None, !.done = @ + 1]) : Save(c)
    /\ UNCHANGED <<absent, escalated, orgVars>>

\* Mutant: nobody asks who needs to know the performer.
SuperviseUnasked ==
    Open /\ case.holder = None /\ Step \notin schema.automatic /\ DoneByNobody

\* A login without an agent completes an unclaimed step, with a reason and without
\* the staff rule; nobody is recorded, so no other step may ask who did it.
Supervise ==
    /\ Open /\ case.holder = None /\ Step \notin schema.automatic
    /\ Step \in DOMAIN schema.rule => UsersOf(Step) = {}
    /\ DoneByNobody

\* A worker or a push completes an automatic step, whoever asks for its performer.  (A
\* login without an agent may do so by hand, when nobody asks.)
SystemCompletes == Open /\ Step \in schema.automatic /\ DoneByNobody

\* The child a sub-process started ends, and the case goes on.
ChildEnds == Calls /\ DoneByNobody

-----------------------------------------------------------------------------
(***************************************************************************)
(* Absences.                                                               *)
(***************************************************************************)
RecordAbsence(a) ==
    /\ a \in Agents(Org) \ absent
    /\ absent' = absent \cup {a}
    /\ UNCHANGED <<case, sweep, escalated, orgVars>>

EndAbsence(a) ==
    /\ a \in absent
    /\ absent' = absent \ {a}
    /\ UNCHANGED <<case, sweep, escalated, orgVars>>

-----------------------------------------------------------------------------
(***************************************************************************)
(* The escalation sweep of one process.                                    *)
(***************************************************************************)

\* _escalate_instance reads the case again and finds the stages due at its moment.
SweepReads(t) ==
    /\ sweep[t] = Idle /\ Open
    /\ \E upto \in case.fired[Step] + 1 .. Len(Stages(schema, Step)) :
         sweep' = [sweep EXCEPT ![t] = [kind |-> "read", read |-> case, upto |-> upto]]
    /\ UNCHANGED <<case, absent, escalated, orgVars>>

\* The events of the stages a unit of work fires (_fire_escalation_stage).
Events(c, upto) ==
    [i \in 1 .. upto - c.fired[Flow[c.at]] |->
        [step |-> Flow[c.at], round |-> c.round, stage |-> c.fired[Flow[c.at]] + i]]

Fired(c, upto) == [c EXCEPT !.fired[Flow[c.at]] = upto]

SweepSaves(t) ==
    /\ sweep[t] \notin {Idle, Lost}
    /\ case' = Fired(sweep[t].read, sweep[t].upto)
    /\ escalated' = escalated \o Events(sweep[t].read, sweep[t].upto)
    /\ sweep' = [SweepsBeaten EXCEPT ![t] = Idle]
    /\ UNCHANGED <<absent, orgVars>>

\* The case changed meanwhile: the unit is rolled back, a later sweep tries again.
SweepSkips(t) ==
    /\ sweep[t] = Lost
    /\ sweep' = [sweep EXCEPT ![t] = Idle]
    /\ UNCHANGED <<case, absent, escalated, orgVars>>

-----------------------------------------------------------------------------

Init ==
    /\ OrgInit
    /\ case = NotStarted
    /\ absent = {}
    /\ sweep = [t \in Timer |-> Idle]
    /\ escalated = <<>>

Request(p) ==
    /\ case.at = 0
    /\ Attempt(p) \/ Commit(p)
    /\ UNCHANGED caseVars

\* Beside a case a request is taken in one step: no step of a case reads or writes
\* what is in flight.
RequestBesideCase ==
    /\ case.at > 0 /\ changes < MaxChanges
    /\ \E c \in OrgChanges \cup LocalChanges \cup Edits : \E r \in RequestsFor(c) : Store(r)
    /\ UNCHANGED <<request, caseVars>>

Next ==
    \/ RequestBesideCase
    \/ \E p \in Proc : Request(p)
    \/ StartCase \/ ReturnClaim \/ Supervise \/ SystemCompletes \/ ChildEnds
    \/ \E a \in MayWork : Claim(a) \/ Complete(a)
    \/ \E a \in Away : RecordAbsence(a) \/ EndAbsence(a)
    \/ \E t \in Timer : SweepReads(t) \/ SweepSaves(t) \/ SweepSkips(t)

Spec == Init /\ [][Next]_<<orgVars, caseVars>>

-----------------------------------------------------------------------------
\* _tasks_for_agent: the open step stands in the worklist of those who may work it,
\* and once it is claimed in nobody else's.
Offered(a) ==
    Open /\ Step \in DOMAIN schema.rule /\ case.holder \in {None, a} /\ a \in Eligible

(***************************************************************************)
(* Recipients (mail_runtime._resolve_recipients).                          *)
(***************************************************************************)

\* _group_mailboxes: the groups a rule addresses, in their own words.
GroupMailboxes(rule) ==
    LET boxes[r \in Rule, positive \in BOOLEAN] ==
            IF r.kind \in {"ROLE", "ORG_UNIT"} /\ positive THEN {r.ref}
            ELSE UNION {boxes[r.of[i], positive /\ ~(r.kind = "EXCEPT" /\ i > 1)] :
                        i \in DOMAIN r.of}
    IN  boxes[rule, TRUE]

\* The agents or groups a notification of the open step is sent to, address or not.
Notified(binding) ==
    IF binding.mode = "TO_ELIGIBLE_AGENTS"
    THEN IF binding.deputies THEN Eligible
         ELSE Base(schema, Org, Step, case.by, case.fired[Step])
    ELSE GroupMailboxes(schema.rule[Step])

\* build_message: who gets it; one without an address is left out, and with nobody
\* left there is no message.
Recipients(notified) == {x \in notified : HasAddress(Org, x)}

-----------------------------------------------------------------------------
(***************************************************************************)
(* Properties.                                                             *)
(***************************************************************************)

\* Of START, gateways, sub-processes and automatic steps nothing is claimed.
PerformersRecorded ==
    (Open /\ Step \in DOMAIN schema.rule) =>
        \A x \in NodesNamed(schema.rule[Step]) \cap Manned(schema) : case.by[x] # None

CheckedByAnother ==
    (case'.done # case.done /\ case'.last # None /\ Step \in DOMAIN schema.rule) =>
        \/ \A x \in FourEyesReferences(schema.rule[Step]) : case.by[x] # case'.last
        \/ case'.last \in Resolve(Org, case.by, schema.rule[Step])

\* A case completed by an agent is never checked by the agent whose work the rule
\* sets apart -- "not whoever did X", "the supervisor of whoever did X" -- unless the
\* rule itself also names that agent: no deputy edge and no escalation stage brings
\* them back, in any round (assignment._four_eyes_steps).  And where X is a step people
\* work, whoever did it is on record before a step that asks about it is open: Z3 and B2
\* at the release and the refusal of a supervision (api._refuse_without_performer)
\* together see to it.  Nothing of the kind is claimed where X is START, a gateway, a
\* sub-process or an automatic step: _check_staff_ref and Z3 let a rule name those as
\* well, and such a rule sets nobody apart, or finds nobody, unless an automatic step
\* was finished by hand.
FourEyesKept == [][CheckedByAnother /\ PerformersRecorded']_<<schema, case>>

\* A stored change of the shared organisation gives no finding to a schema that
\* resolves against it, whatever requests ran beside it -- except that linking the
\* schema and changing the organisation can miss each other (_commit_org_or_422).
OrgChangeKeepsReferencing ==
    [][ (org' # org /\ schema.linked /\ ~raced') =>
          FindsNothingNew([o \in {org, org'} |-> StaffFindings(schema, o)], org, org') ]_org

\* A notification of the open step always goes out, to everybody it is meant for,
\* whatever deputies, absences, stages and changes of the organisation there were
\* since N3 accepted it (mail_runtime._resolve_recipients, validator._check_n3_addresses).
EveryoneReachable ==
    (Open /\ Step \in DOMAIN schema.mail /\ ~raced) =>
        LET meant == Notified(schema.mail[Step])
        IN  Recipients(meant) = meant /\ (schema.mail[Step].mode = "TO_GROUP_MAILBOX" => meant # {})

\* The monitoring lists an unclaimed open step for people exactly when it stands in the
\* worklist of nobody who is present and can sign in -- one whose rule asks for the
\* performer of a node nobody performs among them --; and a present deputy of an absent
\* agent that might have helped is then named with it (assignment.unstaffed_steps).
UnstaffedIsReported ==
    Open =>
    LET fired    == case.fired[Step]
        reason   == UnstaffedReason(schema, Org, Step, case.by, fired, absent, Logins)
        deputies == {Org.deputy[a] : a \in Eligible \cap absent \cap Agents(Org)}
                    \ ({None} \cup absent)
    IN  /\ case.holder = None /\ Step \in Manned(schema) =>
             (reason = None <=> \E a \in Logins \ absent : Offered(a))
        /\ reason = "only_absent" =>
             deputies \cap Logins \subseteq
               {e[1] : e \in ExcludedDeputies(schema, Org, Step, case.by, fired, absent)}

\* Each stage of an activation is fired and audited once and in order, however the
\* sweeps of several processes and the work on the case overlap (_escalate_instance).
StagesFiredOnce ==
    Open =>
    LET mine == {k \in DOMAIN escalated : /\ escalated[k].step = Step
                                         /\ escalated[k].round = case.round}
    IN  /\ {escalated[k].stage : k \in mine} = 1 .. case.fired[Step]
        /\ \A k, l \in mine : k < l => escalated[k].stage < escalated[l].stage

=============================================================================
