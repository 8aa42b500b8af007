# ProcWorks in TLA+

This directory holds a TLA+ model of ProcWorks, a self-hosted tool for modelling
and running business processes in the ADEPT2 tradition ("correctness by
construction"), the TLC runs that check it on small instances, and the theorems
TLAPS proves about it.  The model is translated from the Python core,
`src/core/src/procworks/`; file names below are relative to that directory.

Contents: [1 the system](#1-the-system) ·
[2 the modules](#2-the-modules) · [3 the runs](#3-the-runs) ·
[4 what the code does not keep](#4-what-the-code-does-not-keep) ·
[5 fairness](#5-fairness) · [6 the proofs](#6-the-proofs) ·
[7 what is not modelled](#7-what-is-not-modelled) · [8 the plan](#8-the-plan) ·
[9 running it](#9-running-it)

## 1. The system

A *schema* is a block-structured graph of steps.  A *case* (`ProcessInstance`)
runs on one schema: the engine marks nodes and edges, agents claim and complete
steps, outside systems work the automatic ones.  Every change arrives as an HTTP
request, is made by a pure function on a copy of what is stored, is judged by the
validator where it changes a model, and is saved by one *unit of work*: a database
transaction with versions, hooks and one end of one audit chain.

### 1.1 Components

| component | code | state it keeps | operations |
|---|---|---|---|
| schema, validator | `model.py`, `validator.py` | nodes, control and sync edges, decisions, data, staff rules | rules K, D, Z, B, N, H, F, T; the findings a change adds |
| schema operations | `operations.py`, `api_modelling.py` | a schema under edit | insert, delete, move, loops, decisions, data, staff, calls, follow-ups, import |
| execution engine | `execution.py`, `conditions.py` | a case: node and edge markings, claims, overlays, data, loop counters | instantiate, claim, start, suspend, resume, fail, return, reset, complete, `_advance` |
| case tree | `execution.py`, `adhoc.py`, `api.py` | links between parent and child, ad-hoc schema of a case | spawn, join, propagate a completion, insert, delete, audit of joins |
| composition | `operations.py`, `templates.py`, `execution.py` | sub-process bindings, follow-up links, templates | bind, map, link, save and use a template; call, return, follow up |
| worklist boundary | `api_execution.py`, `api.py`, `api_v1.py` | the store | a handler per operation, each one unit |
| external tasks | `integration_runtime.py`, `store.py`, `db.py` | a task per open automatic step, incidents | materialise, fetch and lock, extend, unlock, complete, fail, BPMN error, push, resolve |
| webhook outbox | `outbox.py` | subscriptions, entries with attempts and leases, circuit breakers | emit, dispatch, push, unsubscribe, bury |
| mail outbox | `mail_runtime.py` | messages with attempts and leases | enqueue, dispatch, drop, bury |
| unit of work | `unit_of_work.py`, `db.py` | a transaction, its hooks, the versions it read | flush, hooks, commit, roll back, repeat |
| idempotency keys | `idempotency.py`, `db.py` | reservations and records | reserve, remember, abandon, expire |
| audit log | `audit.py`, `db.py` | a hash chain of entries | append in a unit, chain at its commit, verify |
| ids | `ids.py`, `db.py` | counters, claims | next id, claim, reserve existing ones |
| assignment | `assignment.py`, `org.py`, `api_org.py` | organisation, absences | agents of a staff rule, four eyes, deputies, changes of the organisation |
| escalation | `escalation_timer.py`, `deadline.py`, `api.py` | stages fired per activation | sweep, fire a stage |
| urgency | `worklist_priority.py`, `simulation.py`, `deadline.py` | none | expected duration, remaining path, band of a step |
| migration | `migration.py`, `api_changes.py` | a case moved to another schema | checks M0-M5, migrate one or many |
| release family | `operations.py`, `api_schemas.py`, `api_changes.py` | versions of a schema | draft, release, revise, library |
| identity | `auth*.py`, `api.py`, `api_admin.py` | logins, sessions | sign in, change and reset a password, create and delete logins, wipe, seed |
| licensing | `licensing.py` | licence, grace period | admit, refuse |

Pure readers and translators (BPMN export, metrics), data access (OData, SQL
connectors), demonstration data, deployment and the web client complete the list;
`PROJECT.json` names them all.

### 1.2 How they interact

* **Boundary → engine → store.** A handler loads a case, calls the engine, gets a
  new case and saves it.  An error of the engine leaves the stored case alone.
* **Boundary → operation → validator → store.** A handler loads a schema (and the
  organisation it resolves against, or the schemas it refers to), gets a candidate
  and stores it if it adds no finding to what the stored one has.
* **Validator ↔ engine.** The rules guarantee to the engine what it relies on: a
  value for each decision, joins that agree, and that the nodes a staff rule refers to
  have run (not that anybody performed them, section 4).  Nothing but the rules connects
  the two: the engine checks little of it again.
* **Engine ↔ cases.** A SUBPROCESS node spawns a child inside the advance of its
  parent; the end of a child advances the parent inside the request that ended
  the child, to the root if need be.  The engine gets the store and a resolver of
  schemas as a context.
* **Engine → external tasks.** After each advance the open automatic steps get a
  task; a report comes back through `complete_activity`.
* **Organisation ↔ schemas ↔ cases.** Staff rules of any number of schemas resolve
  against one organisation; a case asks it afresh each time.  A change of either
  is judged against the other as it is stored.
* **Everything → outboxes.** Events and mails are stored with the change
  (transactional outbox) and delivered behind its commit by a hook.
* **Everything → audit.** Appends are collected and chained right before the
  commit, under the lock on the end of the chain.
* **Requests among each other** meet in the database only: row locks, versions
  (`lock_version`), claims of ids, reservations of keys, leases of entries, unique
  columns, advisory locks.

### 1.3 What is hard about it

* **Markings under repetition.** A loop takes back what its body signalled while
  other branches hold signals that must stay; sync edges cross the border.
* **Reentrancy.** One request may walk through several cases, in both directions.
* **Rules far from their use.** What a rule misses at the time of an edit shows
  weeks later, in a case, after a migration, in a schema that calls this one, or
  when a person is away.
* **Findings that are added.** An edit is judged by the findings it *adds*: what was
  wrong before, or becomes wrong by an edit of something else, stays admissible.
* **Lost races.** A server thread reads, thinks and saves; others do too, in
  other processes.  Conflicts may be swallowed on their way up.
* **Time.** Locks and leases run out while their holder lives; back-offs and
  circuits keep work away from those who ask.
* **Death and doubt.** A process dies between two saves; a connection is lost
  during the COMMIT; a client repeats what was already done.
* **Effects that stay.** A write to an outside system is not rolled back.

### 1.4 What makes each component correct

* *Rules and operations*: the structural rules accept block-structured graphs and no
  others; no operation destroys blocks; whatever is released can be executed to its
  end, with a value and an owner wherever one is needed, and whatever a staff rule
  refers to has run.
* *Engine*: an edge is signalled exactly behind a resolved node; joins see
  branches that agree; no running case without a step to work on; a completed
  case has nothing open; a claim is never taken over; the traces of an activation
  die with it; each request ends; an admitted deadline can be kept.
* *Tree and composition*: a waiting parent and its running child know each other;
  some step of the tree is open; the effective schema is executed; joins are audited
  and ready steps announced on every path; what processes pass each other arrives;
  no process is part of itself.
* *Migration*: a moved case looks like one that ran on its version from the start
  and goes on.
* *Release family*: versions one by one, from the newest; nothing stored is replaced.
* *Staffing*: who checks is not who did; a stage fires once; everybody a notice is
  for can be reached; a step nobody can do is reported; a change of the organisation
  breaks no schema that refers to it.
* *External tasks*: one open task per step, one holder per task, closed stays
  closed, a report completes what it has read, no work is lost without a signal.
* *Outboxes*: attempts within the budget, one delivery per lease, a sealed fate
  is final, every entry is closed.
* *Units*: they take effect as if one after the other, whole, in one chain; a
  keyed request once; what is said outside is true inside; all of them end.
* *Identity*: no access outlives its end, one login per person, always an
  administrator, a password is the one its owner or a reset chose.

`PROJECT.json` lists under "hazards" the places in the code where each of these
can go wrong, with the property that would notice.

## 2. The modules

    ProcessSchema <- CaseExecution <- Timing <- MCCaseExecution   one case, its target times
                                   <- CaseExecutionProofs
    CaseTree      <- MCCaseTree                                   cases that call cases
                  <- CaseTreeProofs
    Composition   <- MCComposition                                processes that call processes
    Partitions <- SchemaRules <- SchemaOperations <- CaseRuns     rules, edits, cases on a schema value
      CaseRuns    <- Editing   <- MCEditing                       from a draft to its cases
                  <- Migration <- MCMigration                     cases between two versions
    Revisions     <- MCRevisions                                  the versions of a process, ids
                  <- RevisionsProofs
    StaffRules <- Organisation <- Staffing <- MCStaffing          who works a step
                                           <- StaffingProofs
    ExternalTasks <- MCExternalTasks                              the queue of automatic steps
                  <- ExternalTasksProofs
    LeasedEntries <- Outbox <- MCOutbox                           webhooks, pushes and mails
                            <- OutboxProofs
      Outbox implements EventDelivery
    Requests      <- MCRequests                                   units of work
                  <- RequestsProofs
      Requests implements SerialChanges
    Identity      <- MCIdentity                                   logins and sessions
                  <- IdentityProofs

An arrow is EXTENDS.  `CaseRuns` is where the two halves meet: it instantiates
`CaseExecution` with a schema *value* of `SchemaRules`, so the same engine that is
checked and proved about with a schema made of constants runs the cases of whatever
the editor released; `Migration` in turn instantiates `Editing` for the revision.
The other components are composed where they meet: `CaseTree` and `Composition`
keep of a case what its neighbours see, `ExternalTasks` keeps of the case
the activation of its steps and of the database the version check, `Staffing` keeps
of a case who did what, and `Requests`
keeps of a change which objects it loads and saves and whether it is refused.
The assumptions one makes of the other are the other's properties: `CaseExecution`,
`Editing` and `Composition` have requests one at a time, which is what `Requests`
shows of them; a spawned child behaves as `CaseExecution` says.

### ProcessSchema, CaseExecution

`ProcessSchema` is the schema as constants: nodes, types, edges, pairing of
loops, decisions, data access, staff rules.  A running case never sees its schema
change (ad-hoc change and migration replace it), hence constants.  `Body` is
`model.loop_block`; `K2Endpoints`, `K4Acyclic`, `K6Closed`, `LoopsNested`, `Nested` and
`Decidable` restate what the validator establishes as conditions, used as hypotheses of
theorems.  Two of them speak of an annotation of the graph instead of a walk over it:
`Nested` of the XOR branches each edge lies in (the local form of K1: the reference
definition by blocks, and that K1 accepts nothing else, is `AcceptedIffBlockStructured`
of the run `editing`), `Certain` of what is written before each node (what
`_must_hold_before` computes with `_meet_at`).  `MCCaseExecution` computes both for its
schema and TLC evaluates all of them there (`SchemaIsSound`), so the hypotheses can be met.

The case is one record; its fields are those of `ProcessInstance` (`ns` is
`node_states`, `es` `edge_states`, `claimed` `claimed_by`, `detail`
`node_details`, `corrected` `data_corrected_in_activation`, `completions`
`node_completions`, `iterations` `loop_iterations`).  `round` is a history
variable.  Operators on a case are the functions of `execution.py`
(`CompleteNode`, `SkipNode`, `ResetLoopBlock`, `FireNode`, `EvaluateTarget`, ...);
actions are the handlers of `api_execution.py` with their guards.

Acts that change one step and never advance (claim, suspend, resume, fail, return,
reset, start) are one action.  A completion, and the creation of a case, open a
request: `stored` keeps what the store has, `work` is the copy, and `Advance`
carries it one node further, in schema order, sweep by sweep, as the loop of
`_advance` does (`phase`, `pos`, `progress`, `repeated`).  The request ends at the
fixpoint, at a refusal, or by `RollBack` (a conflict or a death), which drops the
copy.  Steps of the sweep are separate so that the safety properties see the
intermediate markings, where most mistakes would show, and so that termination is
a question.

### Timing

Four walks over the same graph: the rules T1 and T2 that admit a deadline, the
simulation's expected duration, the worklist's remaining critical path, and the
engine's rounds.  `AcceptedDeadlinesHold` says that they agree.  It has no variables
of its own; the time a case has spent is read off `completions`.

### CaseTree

Many cases on chain-shaped schemas with at most one loop.  `stack` is the call
stack of advances in flight (spawn pushes, propagation replaces), `work` the copies
the request has made, `walk` the ancestor whose join `_record_subprocess_joins`
looks at.  `Instantiate`, `CompleteActivity`, `AdhocInsert`, `AdhocDelete` begin
requests; `Engine` is everything the thread does until it stores.  A schema lookup
of the propagation uses the *base* schema of the parent, as the code does
(`EffectivePathExecuted` is about that).  An ad-hoc change that removes an edge removes
its marking too (`dropped`), so an advance along the base schema may ask for the marking
of a node or of an edge that is gone: `Unmarked`, the request ends in `key-error`.
`ChainsKeepTheRules` says what K1, K2 and K6 make of a released chain.

### Partitions, SchemaRules, SchemaOperations

A schema is a value: a record of functions and sets.  `SchemaRules` has one operator
per rule of `validator.validate`; a finding is a code with the node it names, and
`Findings` is what a report would have.  `Partitions` is the common base of K6b, K7
and the engine: the well-formedness of a decision's cells and the matching of a value.
`SchemaOperations` has each operation of `operations.py` in two parts, what it
requires and the candidate it makes; the caller stores a candidate if
`raise_if_findings_added` would.

### CaseRuns, Editing

`On(v)` is `CaseExecution` for the schema value `v`.  `Editing` starts with a draft or
with a submitted graph (an import), edits, releases, and runs cases, a request at a
time.  `BlockStructured` is the reference definition: a graph that shrinks to one edge
when blocks give way to edges again and again.  It shares nothing with the validator's
way of doing it, which walks from each split to its join.

### Migration

`base` is a released schema, `model` a revision of it made by the edits of `Editing`
(through INSTANCE) and released too.  A case runs on either and may be moved to the
other while it runs (M0) if it is `Migratable` (M2, M3, M4).  `Migrate` carries markings over by
id, sets what is new to its initial marking, takes start values, and evaluates nothing.
`moved` records whether a branch had been deselected by then.

### Revisions

`stored` holds the versions of one or more families, `unit` each request's unit of work
with what it read.  A step of a unit is a read, the claim of an id, a locking save, the
insert or the commit, so that all interleavings of a READ COMMITTED database are there.
Fresh ids come from `IdSequence`: a counter per process (each request has its own, as
after a restart), the guard that asks the store, the claim that is taken in the unit's
transaction.  A client may also name an id.  `FamiliesGrown` says of the store at the
beginning that every lineage ends at a first version: no request deletes a schema or
rewrites what it is a version of, so a dangling or circular lineage takes a hand in the
database.

### StaffRules, Organisation, Staffing

`StaffRules` resolves a rule (a tree) against an organisation and the performers of a
case; it also has the rules Z1-Z3, T3 and N1-N3 that judge rules, stages and
notifications.  `Organisation` adds requests that change the shared organisation, a
schema's own one, or the schema's staffing, side by side and with the version check;
`raced` records that a link and a change of the organisation missed each other.
`Staffing` is a case on that schema: claims, completions, supervision, absences, the
sweeps of several escalation timers as units that read and then save, and who a
notification goes to.  The case takes one path of the schema (`StaffingConstants`); a
step on it is worked by people, or automatic (`SystemCompletes`, or by hand by one of
`Overseers`), or a sub-process that its child ends (`ChildEnds`).  `case.by`, the
performers on record, is kept per node, because a rule may name any (`Node`): only an
agent who completes a step is entered, and whoever did it in an earlier round stays when
it is then done by nobody (`DoneByNobody`).  Choices and parallel branches are the
subject of `CaseExecution`, the tasks of automatic steps that of `ExternalTasks`.

### Composition

Schemas are sequences of steps, a value is its type.  Edits are those of bindings,
mappings, follow-ups, data elements and deletions; `Findings` has D1, H1-H3, F1, F2 and
F4.  A case is a stack of processes that wait for one another, with the lineage of
follow-ups it descends from.

### ExternalTasks

Every handler of `integration_runtime.py` that reads first and saves later is two
actions, `...Read` and `...Commit`; a save by another request in between puts the
mark `staleTask` or `staleCase` on everybody who has read the object, and the
conditional save of a marked request fails.  This is the version check without a
counter.  Time is two facts about a task: its lock may run out (`Expire`), its
back-off may be over (`BackOffOver`).  `entitled` records who was *told* that a
task is his: the property `HandedOutOnce` compares what workers believe with what
is stored.

### LeasedEntries, Outbox, EventDelivery

`LeasedEntries` is the reservation scheme of `claim_entry` and `finish_entry`,
which webhook and mail outbox have in common.  `Outbox` adds events, pushes and
mails, subscriptions, the circuit breaker of each process, the burial of abandoned
attempts, and dispatchers that die or stall at any moment.  A mail's `SENT` and
`DROPPED` are the entry states DELIVERED and DISCARDED; a mail is dropped when there is
no mail server.  `EventDelivery` is what
the outbox promises, on three variables: an entry's fate, the attempts made, who
accepted.  `PromiseKept` is the refinement: fate is read off the entry's state, the
attempts are `sent`.

### Requests, SerialChanges

`unit` is a `UnitOfWork` with its transaction: what it has loaded, saved (and thus
locked), refused to believe (`conflict` noted), its place on the audit chain, its
answer.  `Load` and `Save` go through the objects in the order of the handler;
`Save` waits for whoever has saved the object and then compares versions; a failed
comparison may be swallowed, the unit goes on and must be rolled back at its end.
`ChainEnd` is the `before_commit` hook of the audit log, `Deliver` the
`after_commit` hooks.  Two database transactions that wait in a circle lose one
member (`DeadlockVictim`).  `Break`, `BreakCommit`, `BreakDelivery` are deaths and
lost connections before, during and behind the COMMIT; `BreakCommit` may or may not
have taken effect.  A client's repetition is another request with the same key and
change.

`SerialChanges` has no units: a request is carried out as a whole, on the state it
finds, and appended to one chain.  `TakeEffectSerially` maps the committed objects
and the chain; every step of a unit but the commit is a stutter.

### Identity

A request first checks what is stored, then derives a key (slow, outside any
transaction), then enters its unit, reads again, locks, and commits or rolls back:
`Arrive`, `Enter`, `Commit`, `RollBack`.  Deleting a login waits for its row as every
other change of it does, and ends the access of the person it stands for by then.
`StoresConsistent` says of the store at the beginning that a person has one login (the
rows are not those from before logins were unique) and that no session has outlived its
access.  A password is told apart by the request that
derived its hash.  `outlived` marks a session whose login was reset or deleted after
its password had been verified.

## 3. The runs

| run | module | states | what it asks |
|---|---|---|---|
| `parallel` | MCCaseExecution | 67,000 | an AND block with a bounded loop beside an XOR, sync edges into the loop and out of it, a loop in a loop, a loop across a branch as it may be stored from before K6a was checked: markings, soundness, ownership, fresh values, deadlines, termination |
| `tree` | MCCaseTree | 111,228 | three levels, the call repeated, insertions and deletions everywhere R1 allows: links, orphans, audit and announcements, termination |
| `tree_adhoc` | MCCaseTree | | violates `EffectivePathExecuted`, section 4 |
| `composition` | MCComposition | 482,471 | two edits beside a released process, releases, templates, cases through calls and follow-ups |
| `editing` | MCEditing | 5,304 | every operation on four drafts, 700 submitted graphs, release, cases with every choice of values |
| `migration` | MCMigration | 129,743 | every revision of three schemas by one or two edits, a case moved at any point in either direction |
| `revisions` | MCRevisions | 497,857 | three requests (revise, release, edit) on four families, fresh and named ids |
| `staffing` | MCStaffing | 209,088 | two changes of organisation and schema side by side, then a case with a sub-process and an automatic step, absences, supervision, two timers, two rounds |
| `queue` | MCExternalTasks | 612,000 | a pulled and a pushed step, two requests in flight |
| `outbox` | MCOutbox | 63,883 | an event, a push, a mail; two dispatchers, a death or stall |
| `requests` | MCRequests | 142,399 | one request twice, one that reuses its key, one against the order, two faults |
| `identity` | MCIdentity | 189,860 | three calls of seven kinds on three stores |

States are distinct states; under symmetry, classes of them.

**What each property says.**  The comment above a property states it and names the code;
in short:

* `parallel` — `MarkingsConsistent`: an edge is signalled iff its source is resolved.
  `CaseSound`: joins agree, no stuck case, proper completion, no engine refusal.
  `AcceptedDeadlinesHold`: what T2 admits no walk within the brakes exceeds, and no step
  that came in time shows as late.  `RepeatedStepWritesAfresh`.  `OwnershipKept`: no
  take-over, no trace of a former activation.  `SyncRespected`.  `RequestReturns`.
* `tree` — `TreeSound`, `BoundaryKeepsUp` (audit and announcements against what the
  engine did behind the boundary's back), `RequestReturns`.
* `composition` — `CallsPassData`: on every path, whatever is mapped arrives with its
  type.  `CasesCanEnd`: no process contains itself through calls or follow-ups, and a case
  that ends can decide its conditions.
* `editing` — `AcceptedIffBlockStructured`: K1, K2, K3, K6 against the reference
  definition.  `EditsKeepBlocks`: no structural operation ever needs the commit check.
  `ReleasedSchemasRun`: a case always has a step or has ended, and is never refused.
  `StepsFindWhatTheyNeed`: D1, D2 and Z3 (the nodes a rule names have run) judged by what
  cases do.
* `migration` — `MovedCaseIsSound`: the past is producible on the target and start
  values fill every gap.  `EarlyMovesGoOn`: no marking is carried over that nobody will
  change.
* `revisions` — `VersionsOneByOne`, `NothingIsReplaced` (a release is not overtaken by an
  edit, an id is given once), `NewestDecides` (successors of cases and the library).
* `staffing` — `FourEyesKept`: no agent whom the rule sets apart comes back, and whoever
  did a step *of people* is on record where a rule asks (section 4 on the other nodes a
  rule may name).  `StagesFiredOnce`, `EveryoneReachable`, `OrgChangeKeepsReferencing`.
  `UnstaffedIsReported`: also for a rule that asks who performed a node nobody performs.
* `queue` — `HandedOutOnce`, `PulledWorkNotLost`, `BookedOnce`.
* `outbox` — `OneDeliveryPerLease`, `PromiseKept` (refinement), `EntryClosed`.
* `requests` — `DoneOnce`, `OutwardTrue`, `TakeEffectSerially` (refinement),
  `EveryRequestEnds`.
* `identity` — `NoAccessOutlivesItsEnd`, `OneLoginPerPerson`, `AnAdminRemains`,
  `PasswordsNeverMix`.

Type invariants are conjuncts of an invariant of their module (`TreeSound`,
`HandedOutOnce`, `NewestDecides`, `OneLoginPerPerson`); those of `CaseExecution`, `CaseTree`,
`Outbox`, `Requests`, `ExternalTasks`, `Revisions` and `Identity` are proved.

**Bounds and why they are enough.**

* `CaseExecution`: two values, so each decision goes both ways; two agents, so a
  claim can be contested; each braked loop at most two rounds, so that a body is taken
  back once with and once without an inner repetition; the schema in its node order and
  in the reverse, because the sweep of `_advance` follows it.  `CountBound` is where
  counters saturate, above every brake.  A request can be rolled back in each
  intermediate state.  Deadlines lie around the schema's critical path, on either side.
* `CaseTree`: five cases are the root, two children and two grandchildren, i.e. both
  rounds of the loop with everything below; `MaxRounds = 1` is one repetition.
* `Composition`: bodies are sequences; what only some paths write is an optional write.
  Of the follow-ups of an end one is followed, the others share nothing with it.
  `MaxEdits = 2` is a finding and the edit that hides or mends it; three stores begin,
  one with a draft from before inputs were checked.  No edit falls beside a case: it
  may change drafts only, and a case reads none.
* `Editing`: four drafts between them have each construct next to each other one; one
  edit on each (two on the empty one) reaches what an operation can do to it.  A staff
  rule may name any node, and one does name a step that an edit turns into a sub-process
  or makes automatic.  The submissions exchange the ends of two pairs of edges of a loop
  or an AND block inside an XOR, which keeps every degree and so gets past the local
  rules.  `MaxNodes` is above what is reached.  An edit draws one block of fresh ids; no
  edit makes an AND block with two empty branches (a set of edges cannot hold the same
  edge twice).
* `Migration`: a choice, parallel branches and a loop; one revision, one move.  What a
  second move finds is a case on a released version like any other.
* `Revisions`: three requests, so that two race while a third changes what they read; one
  repetition (`Retries = 1`), so there is a last attempt and one before it; families with
  siblings, with an open review beside a draft, and from before lineages were recorded.
  `Named` holds an id somebody may ask for that a counter may also draw; ids up to 8 are
  more than three requests can use up.
* `Organisation`, `Staffing`: two changes are in flight, which is a race; `MaxChanges = 2`
  are stored.  None is in flight when the case starts, and beside the case a request is
  one step (`RequestBesideCase`): the case reads the organisation once in each of its
  own requests, so only the order counts.  Two clerks who are each other's deputies,
  their manager and somebody outside; two rounds, so a performer may change; any number
  of stages may be due at any sweep.  Request, a sub-process that checks, approval: each
  kind of node a rule may find nobody on record for stands before the approval, the request
  itself being automatic in one of three schemas, where one agent may also finish it by hand.
* `ExternalTasks`: two actors in flight are enough for a stale read, a third adds
  no new pair; two tokens, so a late push and a new one differ; two tasks, so a step
  may be closed and get another; `Budget = 1` makes each failure the last one and
  reaches dead letters, `MaxRounds` bounds the activations of all steps together;
  `MaxIncidents` incidents for a task.
* `Outbox`: any two of the three entries (`MaxStored = 2`), so that they share a
  dispatcher, a subscription or a circuit; two attempts, so there is a first and a last;
  two dispatchers to overtake each other; one fault; a threshold of two opens the circuit
  between the attempts.
* `Requests`: two objects in opposite order make the circle, a third is what the
  reused key touches; one repetition (`Retries = 1`), so there is a last attempt and
  one before it; two faults, so that the repetition of a lost request is lost too.
  `Rooms` says how often an object may be changed before the change is refused:
  refusals happen on the state others have left.
* `Identity`: three requests are two that race and one that comes between; a store with
  one administrator who has no person beside one who has, one with a single
  administrator and a login that must still change its password, and an empty one that
  is seeded.  A process starts with or without a configured administrator.

Deadlock is checked where units wait for each other's locks (`revisions`, `identity`;
there a disjunct says that all requests are answered).  Elsewhere the system may come
to rest (the case has ended, all requests are answered, all entries are closed);
properties say where it must not.  Runs that use symmetry check safety only.

Each property of a passing run has a mutant in `PROJECT.json`: a definition of the
code's model replaced by what a plausible mistake would make of it (a reset
forgotten, a guard dropped, a version not compared, a hook run too early), with
which TLC finds the property violated in the same run.

## 4. What the code does not keep

One run has a counterexample to a sentence of the code's own documentation.

* `tree_adhoc`: *"the Execution Engine continues seamlessly against the variant"*
  (`adhoc.py`).  A step inserted ad hoc behind a running SUBPROCESS is never executed:
  the child's end advances the parent along its base schema (`execution.py:1220`).

While modelling we met further places where code and documentation, or code and what one
would expect, part.  The models keep to the code; where a property would fail for such a
reason it names the exemption.

*Execution and trees.*
* The brake of an inner loop: *"the body runs at most this many times in total"*
  (`model.py:1546`).  Its counter is not reset with the outer block, and not counted in it
  either: with a brake of two the inner body runs twice in the first outer round and once
  in each later one (`execution.py:921`).
* After an ad-hoc deletion in a parent whose SUBPROCESS runs, or an insertion ahead of that
  SUBPROCESS, the advance along the base schema looks up a marking that is gone: every
  completion that ends the child fails with a KeyError, and the parent waits on
  (`execution.py:1220`; the refusal `key-error` of `CaseTree`).
* The same advance along the base schema can put a case with a loop in two places.  In a
  root *start, sub, loop-start, p, loop-end, end* with a step inserted behind the running
  *sub*, the join passes the inserted step; once the loop is repeated, the root waits with
  no step ready.  With a step inserted into the body of a
  loop that holds two calls, the root can end while a child still runs.  Proving
  `TreeSound` led to both: they are why `TreeHoldsTogether` has its hypothesis.  The chains
  of the run `tree` are too short for them.
* A child that ends while it is spawned, and a SUBPROCESS whose completion is taken back
  by the repetition behind it in the same advance, are not audited as completed
  (`api.py:3697`); a parent's step that a child's end makes ready is neither stamped nor
  mailed (`api.py:3732`).  `BoundaryKeepsUp` exempts both through `BehindCall` and what it
  says of resets.
* The time rules and the worklist charge differently: a pause earns no credit, waits for
  a sync edge are charged nowhere (`validator.py:6103`; *"so the bound is sound"* at 5943
  holds without waits), slack charges a step its full duration, a loop without a brake
  counts one pass.

*Schemas and migration.*
* Deleting what stands first in a longer branch of an XOR leaves the cell pointing at it
  (`operations.py:1636` against 1391), so the commit check refuses the deletion; the last
  step of an AND block whose other branch lost its own cannot be deleted either.
  `EditsKeepBlocks` exempts the first (`FirstOfBranch`).
* A finding a draft had before a rule was introduced stays admissible while it is edited;
  release refuses it.
* A move carries markings over and evaluates nothing (`migration.py:262`): a case moved
  late, over a new sync edge from a completed step, over a step inserted in a branch that
  is skipped, or with a ready step that has become a SUBPROCESS, waits for ever.
  `EarlyMovesGoOn` says for which moves this cannot happen (`KeepsSteps`, "early").  M4
  asks for the reads of steps, not for what a decision reads or a sub-process returns.

*Composition.*
* F4 takes for granted that what a connector supplies is there (`validator.py:5717`); if
  it is not, a conditional follow-up cannot be decided and the last step cannot be
  completed (`execution.py:1071`, as `test_composition.py:425` has it).  `CasesCanEnd`
  speaks of what the process itself writes.
* A follow-up without a version is documented to start the *"latest RELEASED"* schema
  (`model.py:1233`); the resolver returns the schema stored under that id.
* A condition that divides by zero or compares unlike types lets the exception out
  (`conditions.py:126`).

*People.*
* `unstaffed_steps` ignores claims (`assignment.py:481`): a step its claimant can no
  longer finish is not listed.  `UnstaffedIsReported` is about unclaimed steps.
* Linking a schema and changing the organisation read what the other one saves and save
  nothing in common, so they can miss each other (`api.py:3230`); `raced` marks it.
* The notice of a functional escalation also goes to agents whom four eyes exclude
  (`api.py:5326`).

* *"Exactly the nodes Z3 accepts"* (`validator.py:2856`, as
  `test_performer_candidates_are_exactly_what_z3_accepts` in
  `core/tests/test_resources.py` has it) are said to be the ACTIVITY nodes that have run
  on every path before a step.  The list filters them (2863), the rules do not: a rule
  may name any node of the schema (`_check_staff_ref`, 4301), and Z3 admits whatever has
  run before (2868), START, gateways, sub-processes and automatic steps among them.  Only
  a completion by an agent records a performer (`execution.py:692`), and converting a
  step to a sub-process or making it automatic leaves the rules that name it alone
  (`operations.py:3252`).  So a released rule "whoever did X" may find nobody: the step
  is then offered to nobody and monitoring says so (`UnstaffedIsReported`); and "not
  whoever did X" may exclude nobody, so that the four eyes have no effect.  An automatic
  step once finished by hand keeps that performer on record when the system does it in a
  later round.  The models admit all of these rules and reach such states; `FourEyesKept`
  asks for a performer on record for steps of people only (`PerformersRecorded`), and
  `StepsFindWhatTheyNeed` that the nodes named have run, not that anybody performed
  them.  No run of its own shows the disagreement as a counterexample.

*Queue and identity.*
* A worker can be handed a task of a step that has ended, when supervision completes the
  step between the check of `fetch_and_lock` and its save (`integration_runtime.py:845`).
  The report is then refused, so no work is booked twice (`BookedOnce`).
* A push whose budget is spent saves the task and its incident in two units
  (`integration_runtime.py:1185`); a death in between leaves a task that waits for an
  operator without an incident.  `PulledWorkNotLost` is about pulled tasks.
* Two processes that start on an empty store each draw a password for the first
  administrator and print it; the last one counts.  Changing one's own password ends no
  other session.  A deleted `PROCWORKS_ADMIN_LOGIN` is seeded again at the next start.

## 5. Fairness

* *A thread runs on* (`WF` of `Advance`, `Engine`, `Proceed`, `Work`): a request that
  was begun is carried out or dies; the code has no point where a thread waits for an
  event of its own making.  A waiting `Save` is not enabled, so nothing is assumed of
  a thread that waits for a lock.
* *Time passes* (`WF` of `TimePasses`, `CoolDown`): leases, circuits and
  back-offs end by the clock.
* *Dispatches keep coming* (`SF` of `Claim` and `ClaimMail` in `Outbox`): a dispatch runs
  behind each commit that announces an event or makes a step ready (`api._emit_event`,
  `api._notify_ready`) and, for mails, at an administrator's word.  Nothing else starts one:
  on a system that has fallen silent the assumption does not hold and a failed delivery
  waits.  `EntryClosed` is about a system that is used.
* *Nothing is assumed* of agents, administrators, operators, workers, clients or of
  faults.  The queue has no liveness property for that reason: what takes its place,
  `PulledWorkNotLost`, says that the state always leaves somebody a way to go on.

## 6. The proofs

All theorems are about `Spec` for every value of the constants that meets the named
assumptions of the modules (types of schemas and bounds), i.e. any number of nodes,
agents, entries, dispatchers, requests, objects, keys, repetitions and faults.

**`CaseExecutionProofs`.**  `TypeCorrect` is inductive by itself, by one lemma for each
operator on cases.  `TracesCorrectOnEverySchema`: `TracesOfActivation` of both copies,
with the types, is inductive on *any* schema — a claim, an overlay and a record of
corrections are dropped by every operation that leaves an activation; the argument
needs that only activities are claimed (`ActivityIsNode`) and that automatic steps
have no owner.  `MarkingsAlwaysConsistent` assumes `K2Endpoints` (`END` has no successor)
and is inductive with the traces beside it (a step that is reset was RUNNING, so it had
signalled nothing) and with two facts about life: a case that is still NEW is untouched,
and the copy of a request in flight is not NEW.
`ClaimNeverTakenOver` is an action property and needs `CopyInv`: the copy of a request
in flight has the owners of the stored case or nobody — so storing it hands no step
over.  With the traces it makes `OwnershipAlwaysKept`.  `SyncEdgesRespected` is a
consequence of the markings theorem: a source that is not resolved has an unsignalled
edge, so the sweep does not activate behind it; firing a node activates none.

Its second part is about soundness.  `CasesAreSound`: on every schema that keeps K1, K2, K4, K7 and K6
(`Nested`, `K2Endpoints`, `K4Acyclic`, `Decidable`) a case keeps `CaseSound`.  The
invariant of the markings is `Coheres`: a node that is taken up or skipped has all its
inputs signalled and was selected by them or not (`InputsSignalled`, `FollowedSignals`),
and a completed one has passed TRUE on, a split to exactly one branch, a skipped one
nothing (`PassedOn`).  A repetition keeps it because the nodes it takes back are closed
under succession up to the loop end (`BodyFacts`, proved of the walk itself).  `Alive`
says how a case begins and ends, `Supplied` that a completed step has written what it
must, `Sweeping` that a pass without progress found nothing to fire, and
`NoWorkSinceRepetition` that no step of a body taken back in this request has completed
since.  All of this is inductive; what follows from it for a single marking follows along
the ranks K4 gives the nodes (`Ranked`), always from a least counterexample:
`BranchesExplain` (an edge is taken exactly when all branches it lies in are), hence
`JoinsAgreeWhenNested` and that END is not skipped; `RestingCaseHasWork` (the first node
left over could be evaluated); `EndIsLast` (the last one has a successor that is left
over); `CertainIsThere`, hence that a decision finds its value and that a loop end is not
reached a second time without work.  A model with a loop that is not closed (stored from
before K6a was checked) is covered up to the refusal the property allows for it, if what
its loop ends read is written on every way to them (`Decidable`).
`RepetitionsWriteAfresh` needs K2 and `LoopsNested` only: a repetition takes back the
rounds of the loops inside together with all their steps, so the record of corrections
and the round never disagree (`RoundsKept`).

**`CaseTreeProofs`.**  `TreeHoldsTogether`: with any number of cases, calls nested to any
depth, joins, repetitions, deletions and failures in the engine, `TreeSound` holds between
requests.  `IInv` has two halves.  Of one case it says that it is in one place: its front
`f`, with nothing begun behind it on the path and everything before it done or passed
(`Front`); it rests there (`AtRest`), or the advance on it has work there (`InAdvance`), or
is inside `_handle_subprocess` of it (`Spawning`).  Of the cases together it says that
parents and children name each other (`Family`), that a waiting node waits for a running
case and a running case is waited for, but for the children the advance in flight has just
created and the one it has just ended (`Waiting`), and that each advance on the stack but
the outermost is that of a child its predecessor is spawning (`Advances`).  The halves need
each other: that a join meets the parent at the node it waits at is what the front says,
and that nobody else moves the front meanwhile is what the stack says.  When the engine is
about to fail on a marking (`Unmarked`) nothing is claimed, since the copy is dropped.
Paths are compared by the order of their nodes (`Before`), which is what insertions and
deletions keep (`InsertedPath`, `DeletedPath`).  `NoStuckTree` follows because each running
case without a ready step waits for another running one, cases wait for nobody twice, and
there are finitely many (`FinitelyMany`, `NoRoot`).
The hypothesis `LoopsKeepTheirSteps` (no case with a loop has been given an additional
step) cannot go, section 4; it is a condition on histories, which the check of an
ad-hoc change in the code does not make.  `LoopFreeTreesHoldTogether` shows that nothing
has to be supposed of the behaviours if nothing is inserted or no schema has a loop: there
inserted steps may be passed, but no link is lost.  `TypeCorrect` needs neither.
`TreeTypes` and `ChainsKeepTheRules` are assumed.

**`OutboxProofs`.**  `IInv` has five parts beside the types.  `Reservations`: a
dispatcher works on a stored entry, and what it is about to send is within the budget.
`OneDeliveryPerLease` itself: numbers reserved are distinct and unused.  `Counted`: the
stored counter of an open entry is at least every attempt made or reserved.  `Unsent`:
nothing was sent of what is not stored.  `WithinBudget`.  With these, a lease that has
run out does no harm: the next reservation takes a number ahead of all others, and
`finish_entry` lets only the latest reservation close the entry.
`OneDeliveryForEachLease` and the refinement `PromiseHolds` follow; the latter has one
case per action, most of them stutters.  Events, pushes and mails are covered alike.

**`RequestsProofs`.**  `IInv` says of each unit what its place in the code implies
(`Shapes`), of each two that they hold no lock in common and that a copy carrying the
stored version is the stored object (`AllApart`), of every answered one that its answer
agrees with the chain (`AllTold`), of every key that it stands for a committed request
and of every committed keyed request that the key is still taken or that nobody repeats
it any more (`KeysTrue`), that what was announced was committed (`AnnouncedTrue`) and
that an outside effect was made at most once by its unit (`EffectsMade`).  The heart is
`ApplyKeeps`: a unit that commits holds the locks of all objects it touches, its copies
carry the stored versions, hence the decision it took on them is a decision on the
present state — which is what `SerialChanges` asks.  From `IInv` follow
`RequestsDoneOnce`, `LastLock` (who holds the chain end waits for nobody),
`AnswersTrue`, and `TakesEffect`, the refinement.

**`ExternalTasksProofs`.**  `IInv` says of each request in flight what it was aimed at
(`Aimed`), and that the task and the activation are as it read them unless it carries the
mark of a stale copy (`TaskAsRead`, `CaseAsRead`); that a callback token belongs to one
push (`TokenOfItsOwn`, `TokensDiffer`); that whoever was told that a task is its own is
the one the store names (`Entitled`); and that a step has at most one open task
(`OneOpen`).  `HandedOut` follows, and so does the action property `WorkBookedOnce`: a
report is booked on the activation it was read for, because the save of a request whose
copy somebody else has outdated fails.  `NotLostToWorkers` is a part of `IInv`: a task in
a worker's hands has a lock that can run out, one that waits for an operator has an open
incident.

**`StaffingProofs`.**  `IInv`: the schema is a draft or was released by the rules
(`Sound`); the check a request made still describes what is stored, or the request is
beaten (`RequestsFit`); an agent is on record for every step people did that a rule
names (`CaseFits`); a sweep that will save read the case as it is (`SweepsFit`); the
audit log holds each stage fired, in order (`EventsFit`).  `StagesOnce` holds with any
number of timers: of two sweeps that read the same case the second finds another version
when it saves.  `ReferencingKept` is an action property: the schemas that refer to the
shared organisation are saved with it, so that a link made meanwhile beats the change.
`OnRecordBeforeAsked` is the half of `FourEyesKept` about the record, as an invariant:
it speaks of steps people work, whatever else the rules name, and rests on B2 (each of
them has a rule once the schema is released), on Z3, and on the refusal of a supervision
whose performer somebody asks for.  The other half, `CheckedByAnother`, is an induction
over the tree of a rule.  `UnstaffedAlwaysReported` rests on what the search for deputies
computes: it takes at most as many rounds as there are agents, so when it stops every
absent agent in it has its deputy in it too (`ChainIsClosed`, from `SaturatesEarlier`: a
growing sequence of subsets of a finite set is at rest one round before the number of
its elements, once it has begun with one). That needs the organisations to be complete
and finite, which `OrgsComplete` says of the stored ones and of those about to be
stored.  `StaffingConstants` and `ActivitiesAreNodes` are assumed.

**`RevisionsProofs`.**  `IInv`: every lineage of the store ends at a first version
(`Sound`), every unit fits what is stored (`Fits`), and no two hold the same row
(`Apart`).  The heart are the parts `Seen` and `Judged` of `Fits`: as long as the first
version of a family is as a unit read it, what the unit read of the family behind the
claim is what is stored.  Whoever commits a new version or a release holds the first
version and raises its lock; so a commit changes nothing another unit relies on unless
it outdates that unit's first version too, and then the unit's own commit fails
(`Elsewhere`).  `OneByOne`
and `NothingReplaced` are action properties.  `NewestLeadsAndDecides` needs that a finite
set of versions has a greatest (`Greatest`, by a least counterexample over `Nat`), and
that no other released version of the family has its number.  `RevisionTypes` and `FamiliesGrown`
are assumed.

**`IdentityProofs`.**  `IInv` says of each call what it brings along from before its unit
(`Brings`: hashes that were stored or that it derived), what it may rely on behind its
locks (`Holds`), that a verification overtaken by a reset or a deletion no longer matches
the stored hash (`Overtaken`), and that whoever takes logins away was an administrator
(`Administered`); of two units that they hold different logins and that only one changes
the set of administrators (`Apart`); of every stored hash that its call has ended
(`HashesUsed`).  `OneLoginEach` and `AccessEnds` are parts of it, `AdminStaysForever` and
`PasswordsApart` are action properties that follow from it.  `IdentityTypes` and
`StoresConsistent` are assumed.

**Only model-checked**: liveness (`RequestReturns`, `EntryClosed`, `EveryRequestEnds`),
which is beyond TLAPS here; `AcceptedDeadlinesHold`, whose times are folds over the order
of the graph; `CheckedByAnother` and `EveryoneReachable` of `Staffing`; `BoundaryKeepsUp`
of `CaseTree`, whose exemptions look back at how a step became ready; everything of
`Composition`, `Editing` and `Migration`.  `BlockStructured`, the rules' walks and the
resolution of staff rules compute by recursion over data: the library's induction
theorems take an operator as a parameter, which no backend at hand can instantiate.
Arguments about numbers go by a least counterexample instead (`LeastNumber`), and so do
three recursive functions over `Nat`: what `LoopBody` and `K4Acyclic` of `ProcessSchema`
and `Chain` of `StaffRules` compute is found equal to a sequence of steps that is shown
to exist (`Iterated`).

## 7. What is not modelled

* *Execution*: forms, masks, notes and comments; value types beyond what K7 and H2 tell
  apart; rights of roles; clocks and durations other than annotated ones; test instances,
  the states FAILED and SUSPENDED in `Staffing`; ad-hoc renames.
* *Schemas*: forms, masks, connectors, labels, branch captions, input patterns, layout
  and the rules about them; a graph with the same control edge twice; the family rules and
  the library flag of a call, SYNC against ASYNC follow-ups, and the built-in templates in
  `Composition`; the rule N4.
* *Migration*: M1 and M5 find nothing in the cases at hand (both versions were released
  under today's rules, no ad-hoc delta); bulk migration is a loop over single ones
  (`api_changes.py:289`).
* *Release family*: submission for review and retirement appear as stored states only; the
  allocation of ids for cases, templates and organisations is the same code as for schemas.
* *Staffing*: windows of absence in time (an absence begins and ends), when a stage is due,
  choices and parallel branches, the open mode without logins and test instances (neither
  asks for a supervision's reason or performer),
  FAILED deliveries of a notice (they are the outbox's).
* *Outboxes and queue*: filters, signatures and pruning; message texts; the package of an
  external task and the access rules of workers.
* *Units*: those on the in-memory store, which are serialised by a lock and so a special
  case; an immediate append to the audit in the middle of a unit; write skew on objects
  that are read and not saved, which READ COMMITTED allows (section 4 has one); the audit's
  texts and its verification; the expiry of keys.
* *Identity*: the throttle (`auth_password.py:1008`), token and JWT backends, machine
  tokens, rows from before logins were unique, suggested login names; an expired session
  is one that logs out, a wrong password changes nothing.
* *Not planned*: BPMN export and metrics (pure functions whose subject is layout or sums),
  licensing (signatures and dates), connectors (input and output), demonstration data,
  deployment, backup files, the web client (no rule lives there), cryptography.

## 8. The plan

1. done — one case, its target times, and proofs.
2. done — trees of cases, ad-hoc change; processes that call processes.
3. done — external tasks.
4. done — `Outbox` for events, pushes and mails implementing `EventDelivery`, and proofs.
5. done — `Requests` implementing `SerialChanges`, and proofs.
6. done — rules and operations, release family with ids, migration of a case.
7. done — staff rules, organisation, escalation; logins and sessions.
8. done — proofs of `ExternalTasks`, `Revisions`, `Identity`, of the escalation, the
   organisation and the monitoring in `Staffing`, of `CaseSound` and `RepeatedStepWritesAfresh`, of
   the links of `CaseTree`.  Next: `AcceptedDeadlinesHold` along the ranks of the nodes.
9. later: bulk migration beside ad-hoc change, the throttle, the licence's admission of
   agents.

## 9. Running it

    tlc -workers 2 -config MCCaseExecution_parallel.cfg MCCaseExecution
    tlapm CaseTreeProofs.tla

A configuration is named after its module and its run.  Every passing run takes less
than four minutes on two cores.
