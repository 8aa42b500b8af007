---------------------------- MODULE ExternalTasks ----------------------------
(***************************************************************************)
(* The queue of automatic steps: procworks.integration_runtime on the      *)
(* conditional store of store.py / db.py.                                  *)
(*                                                                         *)
(* An active step has a task.  A pull task is fetched and locked by a      *)
(* worker; a push task is claimed by a drive and delivered to a tool under *)
(* a fresh callback token.  Whoever holds it reports, and the report       *)
(* completes the step.  Supervision completes a step by hand and closes    *)
(* its task.                                                               *)
(*                                                                         *)
(* Requests run in parallel.  Each reads first (an action named ...Read)   *)
(* and saves later, if what it saves has not been saved by anybody else in *)
(* between: a version is modelled by the marks `staleTask' and `staleCase' *)
(* that every save puts on the requests that have read the same object.    *)
(* Time is a lock that may run out and a back-off that may end.            *)
(***************************************************************************)
EXTENDS Naturals, FiniteSets, FiniteSetsExt

CONSTANTS
    Actor,        \* server threads with a request in hand
    Worker,       \* outside workers that fetch
    Token,        \* callback tokens of pushes, each used once at a time
    Step,         \* the automatic steps of one running case
    Push,         \* those worked by HTTP_PUSH; the others are pulled
    Task,         \* ids of tasks
    MaxRounds,    \* bound: activations of the steps together
    Budget,       \* retry_max
    MaxIncidents, \* bound: incidents of a task
    None

Holder == Worker \cup Token

ASSUME QueueTypes ==
    /\ Push \subseteq Step /\ Task \subseteq Nat
    /\ Worker \cap Token = {} /\ None \notin Holder \cup Task \cup Step
    /\ MaxRounds \in Nat \ {0} /\ Budget \in Nat \ {0} /\ MaxIncidents \in Nat \ {0}

VARIABLES
    step,       \* the case: is the step active, and how often it was activated
    task,       \* the tasks as stored
    incident,   \* the incidents of each task, in the order they were raised
    entitled,   \* <<holder, task, round>>: told that the task is its own
    req         \* what each actor has read and is about to save

vars == <<step, task, incident, entitled, req>>

OpenStates == {"CREATED", "LOCKED", "INCIDENT", "BPMN_ERROR"}
TaskState  == OpenStates \cup {"ABSENT", "COMPLETED", "CANCELLED"}

TaskRecord == [state : TaskState, step : Step \cup {None}, holder : Holder \cup {None},
               lock : {"none", "held", "expired"}, waiting : BOOLEAN, retries : 0..Budget]

NewTask == [state |-> "ABSENT", step |-> None, holder |-> None,
            lock |-> "none", waiting |-> FALSE, retries |-> 0]

Request == [op : {"idle", "lock", "cancel", "add", "claim", "push", "received", "missed",
                  "deadletter", "report", "written", "supervise", "close"},
            task : Task \cup {None}, step : Step \cup {None}, holder : Holder \cup {None},
            round : Nat, staleTask : BOOLEAN, staleCase : BOOLEAN, writes : Nat]

Idle == [op |-> "idle", task |-> None, step |-> None, holder |-> None, round |-> 0,
         staleTask |-> FALSE, staleCase |-> FALSE, writes |-> 0]

\* What a request keeps of what it has just read.
Reading(op, s, t, h) == [Idle EXCEPT !.op = op, !.task = t, !.step = s, !.holder = h,
                                     !.round = step[s].round]

-----------------------------------------------------------------------------
(***************************************************************************)
(* Saving.                                                                 *)
(***************************************************************************)

\* Requests that save the case, the others only look at it.
SavesCase == {"report", "written", "supervise", "close"}

\* A save of task t (of the case) by actor a outdates what others have read of it.
Outdated(r, t, case) ==
    IF r.op = "idle" THEN r
    ELSE [r EXCEPT !.staleTask = @ \/ (t # None /\ r.task = t), !.staleCase = @ \/ (case /\ r.op \in SavesCase)]

Goes(a, r, t, case) == req' = [b \in Actor |-> IF b = a THEN r ELSE Outdated(req[b], t, case)]

OpenTasks(s) == {t \in Task : task[t].step = s /\ task[t].state \in OpenStates}

\* Mutant: a save is not conditional.
UnchangedAlways(r) == TRUE

\* put_if_unchanged: nobody has saved the task since this request read it.
Unchanged(r) == ~r.staleTask

\* add: refused when the step already holds an open task.
Addable(r) == task[r.task].state = "ABSENT" /\ OpenTasks(r.step) = {}

Created(s) == [NewTask EXCEPT !.state = "CREATED", !.step = s, !.retries = Budget]

\* _release: no owner, no lock, no back-off.
Release(x, state) == [x EXCEPT !.state = state, !.holder = None, !.lock = "none", !.waiting = FALSE]

Locked(x, h) == [x EXCEPT !.state = "LOCKED", !.holder = h, !.lock = "held", !.waiting = FALSE]

\* _fail_attempt: back to the queue with a back-off, or an incident.
FailedAttempt(x, remaining) ==
    IF remaining > 0
    THEN [Release(x, "CREATED") EXCEPT !.retries = remaining, !.waiting = TRUE]
    ELSE [Release(x, "INCIDENT") EXCEPT !.retries = 0]

Decremented(x) == IF x.retries > 0 THEN x.retries - 1 ELSE 0

\* Mutant: the dead letter is stored without an incident.
RaiseNot(t) == UNCHANGED incident

Raise(t) == \E k \in 1..MaxIncidents :
    /\ incident[t][k] = "none" /\ \A j \in 1..(k - 1) : incident[t][j] # "none"
    /\ incident' = [incident EXCEPT ![t][k] = "open"]

\* Save the outcome of a failed attempt and, with it, its incident.
SaveFailed(t, failed) ==
    /\ task' = [task EXCEPT ![t] = failed]
    /\ IF failed.state = "INCIDENT" THEN Raise(t) ELSE UNCHANGED incident

\* _require_locked: held by this holder, and the lock has not run out.
Holds(h, t) == task[t].state = "LOCKED" /\ task[t].holder = h /\ task[t].lock # "expired"

Revoked(t) == {e \in entitled : e[2] # t}

-----------------------------------------------------------------------------
(***************************************************************************)
(* The case.                                                               *)
(***************************************************************************)

Init ==
    /\ step = [s \in Step |-> [active |-> FALSE, round |-> 0]]
    /\ task = [t \in Task |-> NewTask]
    /\ incident = [t \in Task |-> [k \in 1..MaxIncidents |-> "none"]]
    /\ entitled = {}
    /\ req = [a \in Actor |-> Idle]

Rounds == MapThenSumSet(LAMBDA s : step[s].round, Step)

\* Some other step of the case is completed and the engine activates this one.
Activate(s) ==
    /\ ~step[s].active /\ Rounds < MaxRounds
    /\ step' = [step EXCEPT ![s] = [active |-> TRUE, round |-> @.round + 1]]
    /\ req' = [b \in Actor |-> Outdated(req[b], None, TRUE)]
    /\ UNCHANGED <<task, incident, entitled>>

\* complete_activity: the step is done, or a loop offers it again in the same advance.
CompleteStep(s) ==
    \/ step' = [step EXCEPT ![s].active = FALSE]
    \/ Rounds < MaxRounds /\ step' = [step EXCEPT ![s].round = @ + 1]

-----------------------------------------------------------------------------
(***************************************************************************)
(* Fetch and lock.                                                         *)
(***************************************************************************)

\* _is_claimable, _push_due.
Due(t) == \/ task[t].state = "CREATED" /\ ~task[t].waiting
          \/ task[t].state = "LOCKED" /\ task[t].lock = "expired"

\* Ids are used in their order: which one a new task gets is of no consequence.
Unused(t)     == task[t].state = "ABSENT" /\ \A b \in Actor : req[b].task # t
FreshTask(t)  == Unused(t) /\ \A u \in Task : u < t => ~Unused(u)
FreshToken(k) == \A t \in Task : task[t].holder # k /\ \A b \in Actor : req[b].holder # k

Begin(a, r) == /\ req[a].op = "idle"
               /\ req' = [req EXCEPT ![a] = r]
               /\ UNCHANGED <<step, task, incident, entitled>>

\* _materialise and the reading half of fetch_and_lock.
FetchRead(a, w, s, t) ==
    /\ s \notin Push
    /\ \/ /\ step[s].active /\ OpenTasks(s) = {} /\ FreshTask(t)
          /\ Begin(a, Reading("lock", s, t, w))
       \/ /\ task[t].step = s /\ Due(t)
          /\ Begin(a, Reading(IF step[s].active THEN "lock" ELSE "cancel", s, t, w))

\* The unit of work commits: the task is handed out, or its pre-fetch failed.  A task
\* this call has created is stored first; a call with enough tasks leaves it at that.
LockCommit(a) ==
    LET r == req[a]
        new == task[r.task].state = "ABSENT"
        x == IF new THEN Created(r.step) ELSE task[r.task]
    IN  /\ r.op = "lock"
        /\ IF new THEN Addable(r) ELSE Unchanged(r)
        /\ \/ /\ task' = [task EXCEPT ![r.task] = Locked(x, r.holder)]
              /\ entitled' = entitled \cup {<<r.holder, r.task, r.round>>}
              /\ UNCHANGED incident
           \/ /\ SaveFailed(r.task, FailedAttempt(x, Decremented(x)))
              /\ UNCHANGED entitled
           \/ /\ new /\ task' = [task EXCEPT ![r.task] = x]
              /\ UNCHANGED <<incident, entitled>>
        /\ Goes(a, Idle, r.task, FALSE)
        /\ UNCHANGED step

\* _cancel_stale.
CancelCommit(a) ==
    LET r == req[a] IN
    /\ r.op = "cancel" /\ Unchanged(r)
    /\ task' = [task EXCEPT ![r.task] = Release(@, "CANCELLED")]
    /\ Goes(a, Idle, r.task, FALSE)
    /\ UNCHANGED <<step, incident, entitled>>

\* A candidate somebody else has taken is skipped.
Skip(a) ==
    LET r == req[a] IN
    /\ \/ r.op \in {"lock", "add"} /\ task[r.task].state = "ABSENT" /\ ~Addable(r)
       \/ r.op \in {"lock", "cancel", "claim"} /\ task[r.task].state # "ABSENT" /\ ~Unchanged(r)
    /\ req' = [req EXCEPT ![a] = Idle]
    /\ UNCHANGED <<step, task, incident, entitled>>

-----------------------------------------------------------------------------
(***************************************************************************)
(* drive_push.  It runs behind the commit, outside any unit of work: each  *)
(* save stands on its own.                                                 *)
(***************************************************************************)

PushRead(a, s, t, k) ==
    /\ s \in Push
    /\ \/ /\ step[s].active /\ OpenTasks(s) = {} /\ FreshTask(t)
          /\ Begin(a, Reading("add", s, t, None))
       \/ /\ task[t].step = s /\ Due(t) /\ FreshToken(k)
          /\ Begin(a, Reading(IF step[s].active THEN "claim" ELSE "cancel", s, t, k))

AddCommit(a) ==
    LET r == req[a] IN
    /\ r.op = "add" /\ Addable(r)
    /\ task' = [task EXCEPT ![r.task] = Created(r.step)]
    /\ Goes(a, Idle, r.task, FALSE)
    /\ UNCHANGED <<step, incident, entitled>>

\* A failed attempt of a push: the incident follows in a save of its own.
PushFailed(a, r, remaining) ==
    LET failed == FailedAttempt(task[r.task], remaining) IN
    /\ task' = [task EXCEPT ![r.task] = failed]
    /\ Goes(a, IF failed.state = "INCIDENT" THEN [r EXCEPT !.op = "deadletter"] ELSE Idle,
            r.task, FALSE)
    /\ entitled' = Revoked(r.task)
    /\ UNCHANGED <<step, incident>>

Claim(a) ==
    LET r == req[a] IN
    /\ r.op = "claim" /\ Unchanged(r)
    /\ \/ /\ task' = [task EXCEPT ![r.task] = Locked(@, r.holder)]
          /\ Goes(a, [r EXCEPT !.op = "push"], r.task, FALSE)
          /\ UNCHANGED <<step, incident, entitled>>
       \/ PushFailed(a, r, Decremented(task[r.task]))     \* the pre-fetch failed

\* The package is on its way; the tool may answer before the call returns.
Deliver(a) ==
    LET r == req[a] IN
    /\ r.op = "push"
    /\ \/ /\ req' = [req EXCEPT ![a].op = "received"]
          /\ entitled' = IF Holds(r.holder, r.task)
                         THEN entitled \cup {<<r.holder, r.task, r.round>>} ELSE entitled
       \/ req' = [req EXCEPT ![a].op = "missed"] /\ UNCHANGED entitled
    /\ UNCHANGED <<step, task, incident>>

OutcomeSaved(r) == Unchanged(r)

\* Delivered: the claim loses its expiry.  Failed (also: received, but too slow):
\* an attempt.  Undeliverable: an incident at once.  Not handed over: back to the queue.
PushOutcome(a) ==
    LET r == req[a] IN
    /\ r.op \in {"received", "missed"} /\ OutcomeSaved(r)
    /\ \/ /\ r.op = "received"
          /\ task' = [task EXCEPT ![r.task].lock = "none"]
          /\ entitled' = entitled \cup {<<r.holder, r.task, r.round>>}
          /\ Goes(a, Idle, r.task, FALSE)
          /\ UNCHANGED <<step, incident>>
       \/ PushFailed(a, r, Decremented(task[r.task]))
       \/ r.op = "missed" /\ PushFailed(a, r, 0)
       \/ /\ r.op = "missed"
          /\ task' = [task EXCEPT ![r.task] = Release(@, "CREATED")]
          /\ Goes(a, Idle, r.task, FALSE)
          /\ UNCHANGED <<step, incident, entitled>>

\* The task has moved on: its report stands, the outcome is dropped.
PushOvertaken(a) ==
    /\ req[a].op \in {"received", "missed"} /\ ~OutcomeSaved(req[a])
    /\ req' = [req EXCEPT ![a] = Idle]
    /\ UNCHANGED <<step, task, incident, entitled>>

DeadLetter(a) ==
    /\ req[a].op = "deadletter"
    /\ Raise(req[a].task)
    /\ req' = [req EXCEPT ![a] = Idle]
    /\ UNCHANGED <<step, task, entitled>>

-----------------------------------------------------------------------------
(***************************************************************************)
(* Reports.                                                                *)
(***************************************************************************)

ReportRead(a, h, t) ==
    /\ Holds(h, t) /\ \E e \in entitled : e[1] = h /\ e[2] = t
    /\ Begin(a, [Reading("report", task[t].step, t, h)
                    EXCEPT !.round = IF step[task[t].step].active THEN @ ELSE 0])

\* The external system is written now, whatever becomes of the request.
WriteExternal(a) ==
    /\ req[a].op = "report" /\ req[a].writes < 2   \* bound: one more than allowed
    /\ req' = [req EXCEPT ![a].op = "written", ![a].writes = @ + 1]
    /\ UNCHANGED <<step, task, incident, entitled>>

\* Mutant: only the task is saved conditionally.
CurrentTask(r) == Unchanged(r)

\* The case and the task are saved in one unit of work, each on its version.
Current(r) == Unchanged(r) /\ ~r.staleCase

\* complete: the round is 0 when the step was not active, then the engine refuses.
ReportCommit(a) ==
    LET r == req[a] IN
    /\ r.op \in {"report", "written"} /\ r.round # 0 /\ Current(r)
    /\ CompleteStep(r.step)
    /\ task' = [task EXCEPT ![r.task].state = "COMPLETED", ![r.task].lock = "none"]
    /\ entitled' = Revoked(r.task)
    /\ Goes(a, Idle, r.task, TRUE)
    /\ UNCHANGED incident

ReportRefused(a) ==
    /\ req[a].op \in {"report", "written"} /\ req[a].round = 0
    /\ req' = [req EXCEPT ![a] = Idle]
    /\ UNCHANGED <<step, task, incident, entitled>>

\* mark_irreversible: a unit that has written outside is answered, not repeated.
Repeatable(r) == r.writes = 0

\* A conflict: the unit reads again, or the caller gets 409.
ReportConflict(a) ==
    LET r == req[a] IN
    /\ r.op \in {"report", "written"} /\ r.round # 0 /\ ~Current(r)
    /\ req' = [req EXCEPT ![a] =
           IF Repeatable(r) /\ Holds(r.holder, r.task)
           THEN [Reading("report", r.step, r.task, r.holder)
                    EXCEPT !.round = IF step[r.step].active THEN @ ELSE 0, !.writes = r.writes]
           ELSE Idle]
    /\ UNCHANGED <<step, task, incident, entitled>>

\* The reports that concern the task alone: read and saved under one version.
Reported(h, t, x) ==
    /\ Holds(h, t) /\ \E e \in entitled : e[1] = h /\ e[2] = t
    /\ task' = [task EXCEPT ![t] = x]
    /\ req' = [b \in Actor |-> Outdated(req[b], t, FALSE)]
    /\ UNCHANGED step

Failure(h, t) == \E left \in {Decremented(task[t])} \cup 0..Budget :
    LET failed == FailedAttempt(task[t], left) IN
    /\ Reported(h, t, failed) /\ entitled' = Revoked(t)
    /\ IF failed.state = "INCIDENT" THEN Raise(t) ELSE UNCHANGED incident

BpmnError(h, t) ==
    Reported(h, t, Release(task[t], "BPMN_ERROR")) /\ entitled' = Revoked(t) /\ Raise(t)

ExtendLock(h, t) ==
    Reported(h, t, [task[t] EXCEPT !.lock = "held"]) /\ UNCHANGED <<incident, entitled>>

Unlock(h, t) ==
    Reported(h, t, Release(task[t], "CREATED")) /\ entitled' = Revoked(t) /\ UNCHANGED incident

-----------------------------------------------------------------------------
(***************************************************************************)
(* Supervision and operators.                                              *)
(***************************************************************************)

\* post_complete_activity with a supervision reason.
SuperviseRead(a, s) == step[s].active /\ Begin(a, Reading("supervise", s, None, None))

\* close_step reads the open task of the step (at most one).
CloseRead(a) ==
    LET r == req[a] IN
    /\ r.op = "supervise"
    /\ \/ OpenTasks(r.step) = {} /\ req' = [req EXCEPT ![a].op = "close"]
       \/ \E t \in OpenTasks(r.step) : req' = [req EXCEPT ![a].op = "close", ![a].task = t]
    /\ UNCHANGED <<step, task, incident, entitled>>

SuperviseCommit(a) ==
    LET r == req[a] IN
    /\ r.op = "close" /\ Current(r)
    /\ CompleteStep(r.step)
    /\ IF r.task = None THEN UNCHANGED <<task, incident, entitled>>
       ELSE /\ task' = [task EXCEPT ![r.task] = Release(@, "COMPLETED")]
            /\ incident' = [incident EXCEPT ![r.task] =
                   [k \in DOMAIN @ |-> IF @[k] = "open" THEN "resolved" ELSE @[k]]]
            /\ entitled' = Revoked(r.task)
    /\ Goes(a, Idle, r.task, TRUE)

SuperviseConflict(a) ==
    /\ req[a].op = "close" /\ ~Current(req[a])
    /\ req' = [req EXCEPT ![a] = Idle]
    /\ UNCHANGED <<step, task, incident, entitled>>

\* resolve_incident, also of one that was resolved before.
ResolveIncident(t, k) ==
    /\ incident[t][k] # "none"
    /\ incident' = [incident EXCEPT ![t][k] = "resolved"]
    /\ IF task[t].state \in {"INCIDENT", "BPMN_ERROR"}
       THEN /\ task' = [task EXCEPT ![t] = [Release(@, "CREATED") EXCEPT !.retries = Budget]]
            /\ req' = [b \in Actor |-> Outdated(req[b], t, FALSE)]
       ELSE UNCHANGED <<task, req>>
    /\ UNCHANGED <<step, entitled>>

-----------------------------------------------------------------------------
(***************************************************************************)
(* Time and failure.                                                       *)
(***************************************************************************)

Expire(t) ==
    /\ task[t].state = "LOCKED" /\ task[t].lock = "held"
    /\ task' = [task EXCEPT ![t].lock = "expired"]
    /\ entitled' = Revoked(t)
    /\ UNCHANGED <<step, incident, req>>

BackOffOver(t) ==
    /\ task[t].waiting
    /\ task' = [task EXCEPT ![t].waiting = FALSE]
    /\ UNCHANGED <<step, incident, entitled, req>>

\* The process dies, or the transaction is lost.
Crash(a) ==
    /\ req[a].op # "idle"
    /\ req' = [req EXCEPT ![a] = Idle]
    /\ UNCHANGED <<step, task, incident, entitled>>

Fetch(s) == \E a \in Actor, w \in Worker, t \in Task : FetchRead(a, w, s, t)
Lock(s)  == \E a \in Actor : req[a].step = s /\ (LockCommit(a) \/ Skip(a))
Drive(s) == \E a \in Actor, t \in Task, k \in Token : PushRead(a, s, t, k)

\* What an actor does with a request it has begun.
Proceed(a) ==
    \/ CancelCommit(a)
    \/ AddCommit(a) \/ Claim(a) \/ Deliver(a) \/ PushOutcome(a) \/ PushOvertaken(a)
    \/ DeadLetter(a)
    \/ ReportCommit(a) \/ ReportRefused(a) \/ ReportConflict(a)
    \/ CloseRead(a) \/ SuperviseCommit(a) \/ SuperviseConflict(a)

Next ==
    \/ \E s \in Step : Activate(s) \/ Fetch(s) \/ Lock(s) \/ Drive(s)
    \/ \E a \in Actor : Proceed(a) \/ WriteExternal(a) \/ Crash(a)
    \/ \E a \in Actor, h \in Holder, t \in Task : ReportRead(a, h, t)
    \/ \E h \in Holder, t \in Task :
           Failure(h, t) \/ BpmnError(h, t) \/ ExtendLock(h, t) \/ Unlock(h, t)
    \/ \E a \in Actor, s \in Step : SuperviseRead(a, s)
    \/ \E t \in Task, k \in 1..MaxIncidents : ResolveIncident(t, k)
    \/ \E t \in Task : Expire(t) \/ BackOffOver(t)

Spec == Init /\ [][Next]_vars

-----------------------------------------------------------------------------
(***************************************************************************)
(* Properties.                                                             *)
(***************************************************************************)

TypeOK ==
    /\ step \in [Step -> [active : BOOLEAN, round : Nat]]
    /\ task \in [Task -> TaskRecord]
    /\ incident \in [Task -> [1..MaxIncidents -> {"none", "open", "resolved"}]]
    /\ entitled \subseteq Holder \X Task \X Nat
    /\ req \in [Actor -> Request]

OneOpenTaskPerStep == \A s \in Step : Cardinality(OpenTasks(s)) <= 1

\* "Handed out once": no two workers or tools are told that a task is theirs, the one
\* that was told is the one the store names, and a step never has two open tasks --
\* whatever is created, re-queued or resolved, one piece of work is never in two hands.
HandedOutOnce ==
    /\ TypeOK /\ OneOpenTaskPerStep
    /\ \A e \in entitled : /\ task[e[2]].state = "LOCKED" /\ task[e[2]].holder = e[1]
                            /\ \A f \in entitled : f[2] = e[2] => f = e

\* The queue loses no pulled work: a task in a worker's hands has a lock that runs out,
\* and one that waits for an operator has an incident an operator can see and resolve
\* (failure, bpmn_error: "so that the case does not hang without any signal").
PulledWorkNotLost ==
    \A t \in Task : task[t].step \in Step \ Push =>
        /\ task[t].state = "LOCKED" => task[t].lock # "none"
        /\ task[t].state \in {"INCIDENT", "BPMN_ERROR"} =>
               \E k \in 1..MaxIncidents : incident[t][k] = "open"

\* A task that was closed stays closed, and as it was closed: a late outcome, report
\* or claim never brings it back ("its report stands").
ClosedStaysClosed ==
    [][\A t \in Task : task[t].state \in {"COMPLETED", "CANCELLED"} => task'[t] = task[t]]_vars

\* A step is completed, and its task with it, only by a request that has read the very
\* activation it completes: no two requests complete the same one, and no report is
\* booked on a step that somebody else has completed meanwhile.
Booked(s) == \E t \in OpenTasks(s) : task'[t].state = "COMPLETED"
CompletesWhatItRead ==
    [][\A s \in Step : (step[s].active /\ step'[s] # step[s]) \/ Booked(s) =>
          /\ step[s].active
          /\ \E a \in Actor : /\ req[a].op \in {"report", "written", "close"} /\ req'[a].op = "idle"
                              /\ req[a].step = s /\ req[a].round = step[s].round]_vars

\* One report writes to the external system at most once, also when its unit of
\* work meets a conflict (mark_irreversible in complete).
WrittenOncePerReport == [](\A a \in Actor : req[a].writes <= 1)

\* Work is booked once: on the activation its report was read for, for good, and with
\* one write to the external system (complete, close_step, drive_push).
BookedOnce == CompletesWhatItRead /\ ClosedStaysClosed /\ WrittenOncePerReport

=============================================================================
