------------------------ MODULE ExternalTasksProofs ------------------------
(***************************************************************************)
(* The queue of automatic steps for any number of actors, workers, tools,  *)
(* steps and tasks: no work in two hands, no pulled work lost, and every   *)
(* report booked once on the activation it was read for.                   *)
(***************************************************************************)
EXTENDS ExternalTasks, FiniteSetTheorems, TLAPS

Pushing == {"push", "received", "missed"}
Claiming == {"claim"} \cup Pushing
Reporting == {"report", "written"}

\* A task that nobody works on: it may be handed out.
Free(x) == x.state = "CREATED" \/ (x.state = "LOCKED" /\ x.lock = "expired")

\* A request names what its operation works on, and has read the task it names.
Aimed(r) ==
    /\ r.op # "idle" => r.step \in Step
    /\ r.op \notin {"idle", "supervise", "close"} => r.task \in Task
    /\ r.op = "supervise" => r.task = None
    /\ r.op = "lock" => r.holder \in Worker
    /\ r.op \in Claiming => r.holder \in Token /\ task[r.task].step \in Push
    /\ r.op \in Reporting => r.holder \in Holder /\ task[r.task].step = r.step
    /\ r.op \in {"claim", "cancel"} => task[r.task].state # "ABSENT"
    /\ r.writes <= 1 /\ (r.op = "report" => r.writes = 0)

\* What a request may rely on as long as its task has not been saved by another.
TaskAsRead(r) ==
    ~r.staleTask =>
        /\ r.op \in {"lock", "claim", "cancel"} /\ task[r.task].state # "ABSENT"
               => Free(task[r.task])
        /\ r.op \in Pushing \cup Reporting =>
               task[r.task].state = "LOCKED" /\ task[r.task].holder = r.holder
        /\ r.op = "close" /\ r.task # None => r.task \in OpenTasks(r.step)

\* The activation a request was read for is the running one until the case is saved.
CaseAsRead(r) ==
    /\ ~r.staleCase
    /\ \/ r.op \in {"supervise", "close"}
       \/ r.op \in Reporting /\ r.round # 0
    => step[r.step].active /\ step[r.step].round = r.round

\* A callback token belongs to one push.
TokenOfItsOwn(r) ==
    /\ r.op = "claim" => \A t \in Task : task[t].holder # r.holder
    /\ r.op \in {"push", "missed"} => \A e \in entitled : e[1] # r.holder
    /\ r.op = "received" => \A e \in entitled :
           e[1] = r.holder => e[2] = r.task /\ e[3] = r.round

Fit(r) == Aimed(r) /\ TaskAsRead(r) /\ CaseAsRead(r) /\ TokenOfItsOwn(r)

Requests == \A a \in Actor : Fit(req[a])

TokensDiffer == \A a, b \in Actor :
    /\ req[a].op \in Claiming /\ req[b].op \in Claiming
    /\ req[a].holder = req[b].holder
    => a = b

\* Whoever was told that a task is its own holds it.
Entitled ==
    \A e \in entitled : /\ Holds(e[1], e[2])
                        /\ \A f \in entitled : f[2] = e[2] => f = e

Tasks ==
    \A t \in Task : /\ task[t].state = "ABSENT" => task[t] = NewTask
                    /\ task[t].state # "ABSENT" => task[t].step \in Step
                    /\ task[t].waiting => task[t].state = "CREATED"

OneOpen == \A s \in Step : \A t, u \in OpenTasks(s) : t = u

IInv == TypeOK /\ Requests /\ TokensDiffer /\ Entitled /\ Tasks /\ OneOpen /\ PulledWorkNotLost

-----------------------------------------------------------------------------
(***************************************************************************)
(* Records.                                                                *)
(***************************************************************************)

LEMMA OutdatedFacts ==
  ASSUME NEW r \in Request, NEW t \in Task \cup {None}, NEW case \in BOOLEAN
  PROVE  LET q == Outdated(r, t, case) IN
         /\ q \in Request
         /\ q.op = r.op /\ q.task = r.task /\ q.step = r.step /\ q.holder = r.holder
         /\ q.round = r.round /\ q.writes = r.writes
         /\ r.op # "idle" =>
               /\ ~q.staleTask => ~r.staleTask /\ (t = None \/ r.task # t)
               /\ ~q.staleCase => ~r.staleCase /\ ~(case /\ r.op \in SavesCase)
<1>1. CASE r.op = "idle"
  BY <1>1 DEF Outdated
<1>2. CASE r.op # "idle"
  <2> DEFINE a == r.staleTask \/ (t # None /\ r.task = t)
             b == r.staleCase \/ (case /\ r.op \in SavesCase)
  <2>1. a \in BOOLEAN /\ b \in BOOLEAN
    BY DEF Request
  <2>2. Outdated(r, t, case) = [r EXCEPT !.staleTask = a, !.staleCase = b]
    BY <1>2 DEF Outdated
  <2>3. (~a => ~r.staleTask /\ (t = None \/ r.task # t))
        /\ (~b => ~r.staleCase /\ ~(case /\ r.op \in SavesCase))
    OBVIOUS
  <2> HIDE DEF a, b
  <2> QED BY <2>1, <2>2, <2>3 DEF Request
<1> QED BY <1>1, <1>2

LEMMA IdleFacts == Idle \in Request /\ Idle.op = "idle" /\ Idle.writes = 0
BY DEF Idle, Request

LEMMA CreatedFacts ==
  ASSUME NEW s \in Step
  PROVE  /\ Created(s) \in TaskRecord /\ Created(s).state = "CREATED" /\ Created(s).step = s
         /\ Created(s).holder = None /\ Created(s).waiting = FALSE
         /\ NewTask.state = "ABSENT" /\ NewTask.step = None /\ NewTask.holder = None
         /\ NewTask.waiting = FALSE /\ NewTask \in TaskRecord
<1>1. NewTask \in TaskRecord
  BY QueueTypes DEF NewTask, TaskRecord, TaskState, OpenStates
<1>2. Created(s) \in TaskRecord
  <2>1. Budget \in 0..Budget /\ "CREATED" \in TaskState /\ s \in Step \cup {None}
    BY QueueTypes DEF TaskState, OpenStates
  <2> QED BY <1>1, <2>1 DEF Created, TaskRecord
<1> QED BY <1>1, <1>2 DEF Created, NewTask

LEMMA FailedFacts ==
  ASSUME NEW x \in TaskRecord, NEW n \in 0..Budget
  PROVE  LET y == FailedAttempt(x, n) IN
         /\ y \in TaskRecord /\ y.step = x.step /\ y.holder = None
         /\ y.state \in {"CREATED", "INCIDENT"}
         /\ y.waiting => y.state = "CREATED"
         /\ Decremented(x) \in 0..Budget
<1>1. 0 \in 0..Budget /\ Budget \in Nat
  BY QueueTypes
<1>2. Decremented(x) \in 0..Budget
  BY <1>1 DEF Decremented, TaskRecord
<1>3. "CREATED" \in TaskState /\ "INCIDENT" \in TaskState
  BY DEF TaskState, OpenStates
<1> DEFINE y == Release(x, "CREATED")
           z == Release(x, "INCIDENT")
<1>4. /\ y \in TaskRecord /\ y.step = x.step /\ y.holder = None /\ y.state = "CREATED"
      /\ z \in TaskRecord /\ z.step = x.step /\ z.holder = None /\ z.state = "INCIDENT"
      /\ z.waiting = FALSE
  BY <1>3 DEF Release, TaskRecord
<1> HIDE DEF y, z
<1>5. LET w == [y EXCEPT !.retries = n, !.waiting = TRUE] IN
      w \in TaskRecord /\ w.step = x.step /\ w.holder = None /\ w.state = "CREATED"
  BY <1>4 DEF TaskRecord
<1>6. LET w == [z EXCEPT !.retries = 0] IN
      /\ w \in TaskRecord /\ w.step = x.step /\ w.holder = None /\ w.state = "INCIDENT"
      /\ w.waiting = FALSE
  BY <1>1, <1>4 DEF TaskRecord
<1> QED BY <1>2, <1>5, <1>6 DEF FailedAttempt, y, z

-----------------------------------------------------------------------------
(***************************************************************************)
(* What one save does to the tasks and to the requests of others.          *)
(***************************************************************************)

\* A step that stores at most task t, names at most h as its holder, tells at most h
\* that the task is its own, and changes the case only if it saves the case.
Save(t, h, n, case) ==
    /\ task' \in [Task -> TaskRecord]
    /\ \A u \in Task : u # t => task'[u] = task[u]
    /\ t \in Task => task'[t].holder \in {task[t].holder, None, h}
    /\ t \in Task /\ task[t].state # "ABSENT" =>
           task'[t].state # "ABSENT" /\ task'[t].step = task[t].step
    /\ entitled' \subseteq entitled \cup {<<h, t, n>>}
    /\ case \/ step' = step

LEMMA OthersKeep ==
  ASSUME IInv, NEW b \in Actor, NEW t \in Task \cup {None}, NEW h \in Holder \cup {None},
         NEW n \in Nat, NEW case \in BOOLEAN, Save(t, h, n, case),
         req'[b] = Outdated(req[b], t, case),
         h \in Token /\ req[b].op \in Claiming => h # req[b].holder
  PROVE  /\ req'[b] \in Request /\ req'[b].op = req[b].op /\ req'[b].holder = req[b].holder
         /\ Fit(req[b])'
<1> DEFINE r == req[b]
<1>1. r \in Request /\ Fit(r) /\ task \in [Task -> TaskRecord] /\ Tasks
  BY DEF IInv, TypeOK, Requests
<1>2. /\ req'[b] \in Request
      /\ req'[b].op = r.op /\ req'[b].task = r.task /\ req'[b].step = r.step
      /\ req'[b].holder = r.holder /\ req'[b].round = r.round /\ req'[b].writes = r.writes
      /\ r.op # "idle" =>
            /\ ~req'[b].staleTask => ~r.staleTask /\ (t = None \/ r.task # t)
            /\ ~req'[b].staleCase => ~r.staleCase /\ ~(case /\ r.op \in SavesCase)
  <2>1. req[b] \in Request
    BY <1>1
  <2> QED BY <2>1, OutdatedFacts
<1>3. None \notin Task /\ None \notin Step /\ None \notin Holder /\ Worker \cap Token = {}
      /\ Push \subseteq Step
  BY QueueTypes
<1>5. Aimed(req[b])'
  <2>1. r.task \in Task /\ task[r.task].state # "ABSENT" =>
            task'[r.task].state # "ABSENT" /\ task'[r.task].step = task[r.task].step
    BY DEF Save
  <2>2. r.task \in Task /\ task[r.task].step # None => task[r.task].state # "ABSENT"
    BY <1>1 DEF Tasks, NewTask
  <2> QED BY <1>1, <1>2, <1>3, <2>1, <2>2 DEF Fit, Aimed, Claiming, Pushing, Reporting
<1>6. TaskAsRead(req[b])'
  <2> SUFFICES ASSUME ~req'[b].staleTask, r.op # "idle"
               PROVE  TaskAsRead(req[b])'
    BY <1>2 DEF TaskAsRead, Pushing, Reporting
  <2>1. ~r.staleTask /\ (r.task \in Task => r.task # t)
    BY <1>2, <1>3
  <2>2. r.task \in Task => task'[r.task] = task[r.task]
    BY <2>1 DEF Save
  <2> QED BY <1>1, <1>2, <1>3, <2>1, <2>2
          DEF Fit, Aimed, TaskAsRead, Free, Pushing, Reporting, Request, OpenTasks
<1>7. CaseAsRead(req[b])'
  <2> SUFFICES ASSUME ~req'[b].staleCase, r.op \in SavesCase
               PROVE  CaseAsRead(req[b])'
    BY <1>2 DEF CaseAsRead, SavesCase, Reporting
  <2>1. ~r.staleCase /\ ~case /\ step' = step
    BY <1>2 DEF Save, SavesCase
  <2> QED BY <1>1, <1>2, <2>1 DEF Fit, CaseAsRead
<1>8. TokenOfItsOwn(req[b])'
  <2> SUFFICES ASSUME r.op \in Claiming
               PROVE  TokenOfItsOwn(req[b])'
    BY <1>2 DEF TokenOfItsOwn, Claiming, Pushing
  <2>1. r.holder \in Token /\ r.holder # h /\ r.holder # None
    BY <1>1, <1>3 DEF Fit, Aimed, Holder, Claiming
  <2>2. ASSUME NEW u \in Task, r.op = "claim" PROVE task'[u].holder # r.holder
    BY <1>1, <2>1, <2>2 DEF Save, Fit, TokenOfItsOwn
  <2>3. ASSUME NEW e \in entitled', e[1] = r.holder PROVE e \in entitled
    BY <2>1, <2>3 DEF Save
  <2> QED BY <1>1, <1>2, <2>2, <2>3 DEF Fit, TokenOfItsOwn
<1> QED BY <1>2, <1>5, <1>6, <1>7, <1>8 DEF Fit

LEMMA StoreKeeps ==
  ASSUME IInv, NEW t \in Task, NEW x \in TaskRecord,
         task' = [task EXCEPT ![t] = x], x.state # "ABSENT",
         x.waiting => x.state = "CREATED",
         x.step \in Step, task[t].state # "ABSENT" => x.step = task[t].step,
         x.state \in OpenStates => task[t].state \in OpenStates \/ OpenTasks(x.step) = {}
  PROVE  /\ task' \in [Task -> TaskRecord] /\ task'[t] = x
         /\ \A u \in Task : u # t => task'[u] = task[u]
         /\ Tasks' /\ OneOpen'
<1>1. task \in [Task -> TaskRecord] /\ Tasks /\ OneOpen
  BY DEF IInv, TypeOK
<1>2. /\ task' \in [Task -> TaskRecord] /\ task'[t] = x
      /\ \A u \in Task : u # t => task'[u] = task[u]
  BY <1>1
<1>3. Tasks'
  BY <1>1, <1>2 DEF Tasks
<1>4. OneOpen'
  <2> SUFFICES ASSUME NEW s \in Step, NEW u \in OpenTasks(s)', NEW v \in OpenTasks(s)'
               PROVE  u = v
    BY DEF OneOpen
  <2>1. ASSUME NEW w \in OpenTasks(s)', w # t PROVE w \in OpenTasks(s)
    BY <1>2, <2>1 DEF OpenTasks
  <2>2. ASSUME t \in OpenTasks(s)' PROVE t \in OpenTasks(s) \/ OpenTasks(s) = {}
    <3>1. x.step = s /\ x.state \in OpenStates
      BY <1>2, <2>2 DEF OpenTasks
    <3>2. task[t].state \in OpenStates => task[t].state # "ABSENT"
      BY DEF OpenStates
    <3> QED BY <3>1, <3>2 DEF OpenTasks
  <2> QED BY <1>1, <2>1, <2>2 DEF OneOpen
<1> QED BY <1>2, <1>3, <1>4

LEMMA EntitledKeeps ==
  ASSUME IInv, NEW t \in Task, NEW h \in Holder, NEW n \in Nat,
         \A u \in Task : u # t => task'[u] = task[u],
         entitled' \subseteq entitled \cup {<<h, t, n>>},
         \A e \in entitled' : e[2] = t => e = <<h, t, n>>,
         <<h, t, n>> \in entitled' =>
             task'[t].state = "LOCKED" /\ task'[t].holder = h /\ task'[t].lock # "expired"
  PROVE  Entitled' /\ entitled' \subseteq Holder \X Task \X Nat
<1>1. Entitled /\ entitled \subseteq Holder \X Task \X Nat
  BY DEF IInv, TypeOK
<1>2. entitled' \subseteq Holder \X Task \X Nat
  BY <1>1
<1>3. ASSUME NEW e \in entitled' PROVE Holds(e[1], e[2])'
  <2>1. CASE e[2] = t
    <3>1. e = <<h, t, n>>
      BY <2>1
    <3> QED BY <3>1 DEF Holds
  <2>2. CASE e[2] # t
    <3>1. e \in entitled /\ e[2] \in Task
      BY <1>1, <2>2
    <3> QED BY <1>1, <2>2, <3>1 DEF Entitled, Holds
  <2> QED BY <2>1, <2>2
<1>4. ASSUME NEW e \in entitled', NEW f \in entitled', f[2] = e[2] PROVE f = e
  <2>1. CASE e[2] = t
    BY <1>4, <2>1
  <2>2. CASE e[2] # t
    <3>1. e \in entitled /\ f \in entitled
      BY <1>4, <2>2
    <3> QED BY <1>1, <1>4, <3>1 DEF Entitled
  <2> QED BY <2>1, <2>2
<1> QED BY <1>2, <1>3, <1>4 DEF Entitled

LEMMA IdleFits == Fit(Idle)
BY IdleFacts DEF Fit, Aimed, TaskAsRead, CaseAsRead, TokenOfItsOwn, Claiming, Pushing, Reporting

LEMMA IdleFitsNext == ASSUME NEW a \in Actor, req'[a] = Idle PROVE Fit(req[a])'
BY IdleFacts DEF Fit, Aimed, TaskAsRead, CaseAsRead, TokenOfItsOwn, Claiming, Pushing, Reporting

LEMMA RequestsKeep ==
  ASSUME IInv, NEW a \in Actor, NEW r \in Request, NEW t \in Task \cup {None},
         NEW h \in Holder \cup {None}, NEW n \in Nat, NEW case \in BOOLEAN,
         Save(t, h, n, case), Goes(a, r, t, case), Fit(req[a])',
         h \in Token => req[a].op \in Claiming /\ h = req[a].holder,
         r.op \in Claiming => req[a].op \in Claiming /\ r.holder = req[a].holder
  PROVE  req' \in [Actor -> Request] /\ Requests' /\ TokensDiffer'
<1>1. req'[a] = r /\ \A b \in Actor : b # a => req'[b] = Outdated(req[b], t, case)
  BY DEF Goes
<1>2. TokensDiffer
  BY DEF IInv
<1>3. ASSUME NEW b \in Actor, b # a
      PROVE  /\ req'[b] \in Request /\ req'[b].op = req[b].op /\ req'[b].holder = req[b].holder
             /\ Fit(req[b])'
  <2>1. h \in Token /\ req[b].op \in Claiming => h # req[b].holder
    BY <1>2, <1>3 DEF TokensDiffer
  <2>2. req'[b] = Outdated(req[b], t, case)
    BY <1>1, <1>3
  <2> QED BY <2>1, <2>2, OthersKeep
<1>4. req' \in [Actor -> Request]
  BY <1>1, <1>3 DEF Goes
<1>5. Requests'
  BY <1>3 DEF Requests
<1>6. TokensDiffer'
  BY <1>1, <1>2, <1>3 DEF TokensDiffer
<1> QED BY <1>4, <1>5, <1>6

\* The same for a save that is not the end of a request.
LEMMA BystandersKeep ==
  ASSUME IInv, NEW t \in Task \cup {None}, NEW case \in BOOLEAN, Save(t, None, 0, case),
         req' = [b \in Actor |-> Outdated(req[b], t, case)]
  PROVE  req' \in [Actor -> Request] /\ Requests' /\ TokensDiffer'
<1>1. None \notin Token
  BY QueueTypes DEF Holder
<1>2. ASSUME NEW b \in Actor
      PROVE  /\ req'[b] \in Request /\ req'[b].op = req[b].op /\ req'[b].holder = req[b].holder
             /\ Fit(req[b])'
  BY <1>1, OthersKeep
<1>3. req' \in [Actor -> Request]
  BY <1>2
<1>4. Requests'
  BY <1>2 DEF Requests
<1>5. TokensDiffer'
  BY <1>2 DEF TokensDiffer, IInv
<1> QED BY <1>3, <1>4, <1>5

\* A request goes on, and nothing else happens.
LEMMA AloneKeeps ==
  ASSUME IInv, NEW a \in Actor, NEW r \in Request, UNCHANGED <<step, task, incident, entitled>>,
         req' = [req EXCEPT ![a] = r], Fit(r),
         r.op \in Claiming =>
             \A b \in Actor \ {a} : req[b].op \in Claiming => req[b].holder # r.holder
  PROVE  IInv'
<1>1. /\ TypeOK /\ Requests /\ TokensDiffer /\ Entitled /\ Tasks /\ OneOpen /\ PulledWorkNotLost
  BY DEF IInv
<1>2. req'[a] = r /\ \A b \in Actor : b # a => req'[b] = req[b]
  BY <1>1 DEF TypeOK
<1>3. TypeOK'
  BY <1>1 DEF TypeOK
<1>4. Requests'
  <2>1. ASSUME NEW b \in Actor PROVE Fit(req[b])'
    <3>1. Fit(req'[b])
      BY <1>1, <1>2 DEF Requests
    <3> QED BY <3>1 DEF Fit, Aimed, TaskAsRead, CaseAsRead, TokenOfItsOwn, OpenTasks
  <2> QED BY <2>1 DEF Requests
<1>5. TokensDiffer'
  BY <1>1, <1>2 DEF TokensDiffer
<1>6. Entitled' /\ Tasks' /\ OneOpen' /\ PulledWorkNotLost'
  BY <1>1 DEF Entitled, Holds, Tasks, OneOpen, OpenTasks, PulledWorkNotLost
<1> QED BY <1>3, <1>4, <1>5, <1>6 DEF IInv

LEMMA EndKeeps ==
  ASSUME IInv, NEW a \in Actor, UNCHANGED <<step, task, incident, entitled>>,
         req' = [req EXCEPT ![a] = Idle]
  PROVE  IInv'
BY AloneKeeps, IdleFacts, IdleFits DEF Claiming, Pushing

-----------------------------------------------------------------------------
(***************************************************************************)
(* The steps of a request that save nothing.                               *)
(***************************************************************************)

Ops == {"lock", "cancel", "add", "claim", "report", "supervise"}

LEMMA ReadingFacts ==
  ASSUME TypeOK, NEW op \in Ops, NEW s \in Step, NEW t \in Task \cup {None},
         NEW h \in Holder \cup {None}
  PROVE  LET r == Reading(op, s, t, h) IN
         /\ r \in Request /\ r.op = op /\ r.step = s /\ r.task = t /\ r.holder = h
         /\ r.round = step[s].round /\ r.writes = 0
         /\ ~r.staleTask /\ ~r.staleCase
<1>1. step[s].round \in Nat
  BY DEF TypeOK
<1> QED BY <1>1 DEF Reading, Idle, Request, Ops

LEMMA BeginKeeps ==
  ASSUME IInv, NEW a \in Actor, NEW r \in Request, Begin(a, r), Fit(r),
         r.op \in Claiming => \A b \in Actor : req[b].holder # r.holder
  PROVE  IInv'
BY AloneKeeps DEF Begin

LEMMA FetchReadKeeps ==
  ASSUME IInv, NEW a \in Actor, NEW w \in Worker, NEW s \in Step, NEW t \in Task,
         FetchRead(a, w, s, t)
  PROVE  IInv'
<1>1. TypeOK /\ w \in Holder \cup {None} /\ t \in Task \cup {None}
  BY DEF IInv, Holder
<1>2. CASE FreshTask(t) /\ Begin(a, Reading("lock", s, t, w))
  <2> DEFINE r == Reading("lock", s, t, w)
  <2>1. "lock" \in Ops
    BY DEF Ops
  <2>2. /\ r \in Request /\ r.op = "lock" /\ r.step = s /\ r.task = t /\ r.holder = w
        /\ r.writes = 0
    BY <1>1, <2>1, ReadingFacts
  <2>3. task[t].state = "ABSENT" /\ Begin(a, r)
    BY <1>2 DEF FreshTask, Unused
  <2> HIDE DEF r
  <2>4. Fit(r)
    BY <2>2, <2>3 DEF Fit, Aimed, TaskAsRead, CaseAsRead, TokenOfItsOwn, Claiming, Pushing,
       Reporting
  <2> QED BY <2>2, <2>3, <2>4, BeginKeeps DEF Claiming, Pushing
<1>3. ASSUME NEW op \in {"lock", "cancel"}, Due(t), Begin(a, Reading(op, s, t, w))
      PROVE  IInv'
  <2> DEFINE r == Reading(op, s, t, w)
  <2>1. op \in Ops
    BY DEF Ops
  <2>2. /\ r \in Request /\ r.op = op /\ r.step = s /\ r.task = t /\ r.holder = w
        /\ r.writes = 0
    BY <1>1, <2>1, ReadingFacts
  <2>3. Free(task[t]) /\ task[t].state # "ABSENT" /\ Begin(a, r)
    BY <1>3 DEF Due, Free
  <2> HIDE DEF r
  <2>4. Fit(r)
    BY <2>2, <2>3 DEF Fit, Aimed, TaskAsRead, CaseAsRead, TokenOfItsOwn, Claiming, Pushing,
       Reporting
  <2> QED BY <2>2, <2>3, <2>4, BeginKeeps DEF Claiming, Pushing
<1> QED BY <1>2, <1>3 DEF FetchRead

LEMMA PushReadKeeps ==
  ASSUME IInv, NEW a \in Actor, NEW k \in Token, NEW s \in Step, NEW t \in Task,
         PushRead(a, s, t, k)
  PROVE  IInv'
<1>1. TypeOK /\ k \in Holder \cup {None} /\ s \in Push /\ t \in Task \cup {None}
  BY DEF IInv, Holder, PushRead
<1>2. CASE Begin(a, Reading("add", s, t, None))
  <2> DEFINE r == Reading("add", s, t, None)
  <2>1. "add" \in Ops /\ None \in Holder \cup {None}
    BY DEF Ops
  <2>2. r \in Request /\ r.op = "add" /\ r.step = s /\ r.task = t /\ r.writes = 0
    BY <1>1, <2>1, ReadingFacts
  <2>3. Begin(a, r)
    BY <1>2
  <2> HIDE DEF r
  <2>4. Fit(r)
    BY <2>2 DEF Fit, Aimed, TaskAsRead, CaseAsRead, TokenOfItsOwn, Claiming, Pushing, Reporting
  <2> QED BY <2>2, <2>3, <2>4, BeginKeeps DEF Claiming, Pushing
<1>3. ASSUME NEW op \in {"claim", "cancel"}, task[t].step = s, Due(t), FreshToken(k),
             Begin(a, Reading(op, s, t, k))
      PROVE  IInv'
  <2> DEFINE r == Reading(op, s, t, k)
  <2>1. op \in Ops
    BY DEF Ops
  <2>2. /\ r \in Request /\ r.op = op /\ r.step = s /\ r.task = t /\ r.holder = k
        /\ r.writes = 0
    BY <1>1, <2>1, ReadingFacts
  <2>3. /\ Free(task[t]) /\ task[t].state # "ABSENT" /\ Begin(a, r)
        /\ \A u \in Task : task[u].holder # k
        /\ \A b \in Actor : req[b].holder # k
    BY <1>3 DEF Due, Free, FreshToken
  <2> HIDE DEF r
  <2>4. Fit(r)
    BY <1>1, <1>3, <2>2, <2>3 DEF Fit, Aimed, TaskAsRead, CaseAsRead, TokenOfItsOwn, Claiming,
       Pushing, Reporting
  <2> QED BY <2>2, <2>3, <2>4, BeginKeeps
<1> QED BY <1>2, <1>3 DEF PushRead

\* What a report keeps of what it has read.
LEMMA ReportFacts ==
  ASSUME IInv, NEW h \in Holder, NEW t \in Task, NEW s \in Step, task[t].step = s, Holds(h, t)
  PROVE  LET r == [Reading("report", s, t, h) EXCEPT
                       !.round = IF step[s].active THEN @ ELSE 0]
         IN  r \in Request /\ r.op = "report" /\ Fit(r)
<1> DEFINE r == [Reading("report", s, t, h) EXCEPT !.round = IF step[s].active THEN @ ELSE 0]
<1>1. TypeOK /\ step[s].round \in Nat
  BY DEF IInv, TypeOK
<1>2. /\ r \in Request /\ r.op = "report" /\ r.step = s /\ r.task = t /\ r.holder = h
      /\ r.writes = 0 /\ ~r.staleTask
      /\ r.round # 0 => step[s].active /\ step[s].round = r.round
  BY <1>1, ReadingFacts DEF Ops, Request
<1> HIDE DEF r
<1>3. Fit(r)
  BY <1>2 DEF Fit, Aimed, TaskAsRead, CaseAsRead, TokenOfItsOwn, Claiming, Pushing, Reporting,
     Holds
<1> QED BY <1>2, <1>3 DEF r

LEMMA HeldStep ==
  ASSUME IInv, NEW h \in Holder, NEW t \in Task, Holds(h, t)
  PROVE  task[t].step \in Step
<1>1. task[t] \in TaskRecord /\ task[t].state # "ABSENT"
  BY DEF IInv, TypeOK, Holds
<1> QED BY <1>1 DEF IInv, Tasks

LEMMA ReportReadKeeps ==
  ASSUME IInv, NEW a \in Actor, NEW h \in Holder, NEW t \in Task, ReportRead(a, h, t)
  PROVE  IInv'
<1>1. task[t].step \in Step
  BY HeldStep DEF ReportRead
<1> QED BY <1>1, ReportFacts, BeginKeeps DEF ReportRead, Claiming, Pushing

LEMMA ReportConflictKeeps ==
  ASSUME IInv, NEW a \in Actor, ReportConflict(a)
  PROVE  IInv'
<1> DEFINE r == req[a]
<1>1. /\ r.op \in Reporting /\ r \in Request /\ Fit(r)
      /\ UNCHANGED <<step, task, incident, entitled>>
  BY DEF ReportConflict, Reporting, IInv, TypeOK, Requests
<1>2. CASE req' = [req EXCEPT ![a] = Idle]
  BY <1>1, <1>2, EndKeeps
<1>3. CASE /\ Repeatable(r) /\ Holds(r.holder, r.task)
           /\ req' = [req EXCEPT ![a] = [Reading("report", r.step, r.task, r.holder)
                  EXCEPT !.round = IF step[r.step].active THEN @ ELSE 0, !.writes = r.writes]]
  <2> DEFINE x == [Reading("report", r.step, r.task, r.holder)
                       EXCEPT !.round = IF step[r.step].active THEN @ ELSE 0]
             y == [Reading("report", r.step, r.task, r.holder)
                       EXCEPT !.round = IF step[r.step].active THEN @ ELSE 0, !.writes = r.writes]
  <2>1. /\ r.holder \in Holder /\ r.task \in Task /\ r.step \in Step
        /\ task[r.task].step = r.step
    BY <1>1 DEF Fit, Aimed, Reporting
  <2>2. x \in Request /\ x.op = "report" /\ Fit(x)
    BY <1>3, <2>1, ReportFacts
  <2>3. x.writes = 0
    BY DEF Reading, Idle
  <2>4. y = [x EXCEPT !.writes = r.writes]
    BY DEF Reading, Idle
  <2>5. r.writes = 0
    BY <1>3 DEF Repeatable
  <2>6. req' = [req EXCEPT ![a] = y]
    BY <1>3
  <2> HIDE DEF x, y, r
  <2>7. y = x
    BY <2>2, <2>3, <2>4, <2>5 DEF Request
  <2> QED BY <1>1, <2>2, <2>6, <2>7, AloneKeeps DEF Claiming, Pushing
<1> QED BY <1>2, <1>3 DEF ReportConflict

LEMMA WriteExternalKeeps ==
  ASSUME IInv, NEW a \in Actor, WriteExternal(a)
  PROVE  IInv'
<1> DEFINE r == req[a]
           q == [r EXCEPT !.op = "written", !.writes = @ + 1]
<1>1. r.op = "report" /\ r \in Request /\ Fit(r) /\ req \in [Actor -> Request]
  BY DEF WriteExternal, IInv, TypeOK, Requests
<1>2. /\ q \in Request /\ q.op = "written" /\ q.writes = r.writes + 1
      /\ q.task = r.task /\ q.step = r.step /\ q.holder = r.holder /\ q.round = r.round
      /\ q.staleTask = r.staleTask /\ q.staleCase = r.staleCase
  <2>1. r.writes + 1 \in Nat
    BY <1>1 DEF Request
  <2>2. q = [r EXCEPT !.op = "written", !.writes = r.writes + 1]
    BY <1>1 DEF Request
  <2> HIDE DEF q
  <2> QED BY <1>1, <2>1, <2>2 DEF Request
<1>3. UNCHANGED <<step, task, incident, entitled>> /\ req' = [req EXCEPT ![a] = q]
  BY <1>1 DEF WriteExternal
<1> HIDE DEF q, r
<1>4. Fit(q)
  BY <1>1, <1>2 DEF Fit, Aimed, TaskAsRead, CaseAsRead, TokenOfItsOwn, Claiming, Pushing,
     Reporting
<1> QED BY <1>2, <1>3, <1>4, AloneKeeps DEF Claiming, Pushing

LEMMA SuperviseReadKeeps ==
  ASSUME IInv, NEW a \in Actor, NEW s \in Step, SuperviseRead(a, s)
  PROVE  IInv'
<1> DEFINE r == Reading("supervise", s, None, None)
<1>1. TypeOK /\ "supervise" \in Ops /\ None \in Task \cup {None} /\ None \in Holder \cup {None}
  BY DEF IInv, Ops
<1>2. /\ r \in Request /\ r.op = "supervise" /\ r.step = s /\ r.task = None
      /\ r.writes = 0 /\ r.round = step[s].round
  BY <1>1, ReadingFacts
<1>3. step[s].active /\ Begin(a, r)
  BY DEF SuperviseRead
<1> HIDE DEF r
<1>4. Fit(r)
  BY <1>2, <1>3 DEF Fit, Aimed, TaskAsRead, CaseAsRead, TokenOfItsOwn, Claiming, Pushing,
     Reporting
<1> QED BY <1>2, <1>3, <1>4, BeginKeeps DEF Claiming, Pushing

LEMMA CloseReadKeeps ==
  ASSUME IInv, NEW a \in Actor, CloseRead(a)
  PROVE  IInv'
<1> DEFINE r == req[a]
<1>1. /\ r.op = "supervise" /\ r \in Request /\ Fit(r) /\ req \in [Actor -> Request]
      /\ UNCHANGED <<step, task, incident, entitled>>
  BY DEF CloseRead, IInv, TypeOK, Requests
<1>2. ASSUME NEW q \in Request, req' = [req EXCEPT ![a] = q], q.op = "close",
             q.step = r.step, q.round = r.round, q.staleCase = r.staleCase,
             q.writes = r.writes, q.task = None \/ q.task \in OpenTasks(r.step)
      PROVE  IInv'
  <2>1. Fit(q)
    BY <1>1, <1>2 DEF Fit, Aimed, TaskAsRead, CaseAsRead, TokenOfItsOwn, Claiming, Pushing,
       Reporting
  <2> QED BY <1>1, <1>2, <2>1, AloneKeeps DEF Claiming, Pushing
<1>3. CASE req' = [req EXCEPT ![a].op = "close"]
  <2> DEFINE q == [r EXCEPT !.op = "close"]
  <2>1. /\ q \in Request /\ q.op = "close" /\ q.task = r.task /\ q.step = r.step
        /\ q.round = r.round /\ q.staleCase = r.staleCase /\ q.writes = r.writes
    BY <1>1 DEF Request
  <2>2. req' = [req EXCEPT ![a] = q] /\ r.task = None
    BY <1>1, <1>3 DEF Fit, Aimed
  <2> HIDE DEF q
  <2> QED BY <1>2, <2>1, <2>2
<1>4. ASSUME NEW t \in OpenTasks(r.step), req' = [req EXCEPT ![a].op = "close", ![a].task = t]
      PROVE  IInv'
  <2> DEFINE q == [r EXCEPT !.op = "close", !.task = t]
  <2>1. t \in Task \cup {None}
    BY DEF OpenTasks
  <2>2. /\ q \in Request /\ q.op = "close" /\ q.task = t /\ q.step = r.step
        /\ q.round = r.round /\ q.staleCase = r.staleCase /\ q.writes = r.writes
    BY <1>1, <2>1 DEF Request
  <2>3. req' = [req EXCEPT ![a] = q]
    BY <1>1, <1>4
  <2> HIDE DEF q
  <2> QED BY <1>2, <2>2, <2>3
<1> QED BY <1>1, <1>3, <1>4 DEF CloseRead

\* The claim of a push is told, or the call fails before the tool has it.
LEMMA DeliverKeeps ==
  ASSUME IInv, NEW a \in Actor, Deliver(a)
  PROVE  IInv'
<1> DEFINE r == req[a]
<1>1. /\ r.op = "push" /\ r \in Request /\ Fit(r) /\ req \in [Actor -> Request]
      /\ UNCHANGED <<step, task, incident>>
  BY DEF Deliver, IInv, TypeOK, Requests
<1>2. /\ TypeOK /\ Requests /\ TokensDiffer /\ Entitled /\ Tasks /\ OneOpen /\ PulledWorkNotLost
  BY DEF IInv
<1>3. CASE req' = [req EXCEPT ![a].op = "missed"] /\ UNCHANGED entitled
  <2> DEFINE q == [r EXCEPT !.op = "missed"]
  <2>1. /\ q \in Request /\ q.op = "missed" /\ q.task = r.task /\ q.step = r.step
        /\ q.round = r.round /\ q.writes = r.writes /\ q.holder = r.holder
        /\ q.staleTask = r.staleTask
    BY <1>1 DEF Request
  <2>2. req' = [req EXCEPT ![a] = q]
    BY <1>1, <1>3
  <2> HIDE DEF q, r
  <2>3. Fit(q)
    BY <1>1, <2>1 DEF Fit, Aimed, TaskAsRead, CaseAsRead, TokenOfItsOwn, Claiming, Pushing,
       Reporting
  <2>4. \A b \in Actor \ {a} : req[b].op \in Claiming => req[b].holder # q.holder
    BY <1>1, <1>2, <2>1 DEF r, TokensDiffer, Claiming, Pushing
  <2> QED BY <1>1, <1>3, <2>1, <2>2, <2>3, <2>4, AloneKeeps
<1>4. CASE /\ req' = [req EXCEPT ![a].op = "received"]
           /\ entitled' = IF Holds(r.holder, r.task)
                          THEN entitled \cup {<<r.holder, r.task, r.round>>} ELSE entitled
  <2> DEFINE q == [r EXCEPT !.op = "received"]
  <2>1. /\ q \in Request /\ q.op = "received" /\ q.task = r.task /\ q.step = r.step
        /\ q.round = r.round /\ q.writes = r.writes /\ q.holder = r.holder
        /\ q.staleTask = r.staleTask
    BY <1>1 DEF Request
  <2>2. req' = [req EXCEPT ![a] = q]
    BY <1>1, <1>4
  <2>3. req'[a] = q /\ \A b \in Actor : b # a => req'[b] = req[b]
    BY <1>1, <2>2
  <2>4. /\ r.task \in Task /\ r.holder \in Token /\ r.round \in Nat
        /\ \A e \in entitled : e[1] # r.holder
    BY <1>1 DEF Fit, Aimed, TokenOfItsOwn, Claiming, Pushing, Request
  <2> HIDE DEF q
  <2>5. entitled' \subseteq entitled \cup {<<r.holder, r.task, r.round>>}
    BY <1>4
  <2>6. Fit(req[a])'
    <3>1. \A e \in entitled' : e[1] = r.holder => e[2] = r.task /\ e[3] = r.round
      BY <2>4, <2>5
    <3> HIDE DEF r
    <3> QED BY <1>1, <2>1, <2>3, <3>1 DEF Fit, Aimed, TaskAsRead, CaseAsRead, TokenOfItsOwn,
               Claiming, Pushing, Reporting
  <2>7. ASSUME NEW b \in Actor, b # a PROVE Fit(req[b])'
    <3>1. req'[b] = req[b] /\ Fit(req[b])
      BY <1>2, <2>3, <2>7 DEF Requests
    <3>2. req[b].op \in Claiming => req[b].holder # r.holder
      BY <1>1, <1>2, <2>7 DEF TokensDiffer, Claiming, Pushing
    <3>3. ASSUME NEW e \in entitled', req[b].op \in Claiming, e[1] = req[b].holder
          PROVE  e \in entitled
      BY <2>5, <3>2, <3>3
    <3> HIDE DEF r
    <3>4. TokenOfItsOwn(req[b])'
      BY <1>1, <3>1, <3>3 DEF Fit, TokenOfItsOwn, Claiming, Pushing
    <3> QED BY <1>1, <3>1, <3>4 DEF Fit, Aimed, TaskAsRead, CaseAsRead, OpenTasks
  <2>8. Entitled' /\ entitled' \subseteq Holder \X Task \X Nat
    <3>1. CASE Holds(r.holder, r.task)
      <4>1. \A e \in entitled' : e[2] = r.task => e = <<r.holder, r.task, r.round>>
        <5>1. ASSUME NEW e \in entitled, e[2] = r.task PROVE FALSE
          <6>1. Holds(e[1], e[2])
            BY <1>2 DEF Entitled
          <6> QED BY <2>4, <3>1, <5>1, <6>1 DEF Holds
        <5> QED BY <2>5, <5>1
      <4>2. /\ task'[r.task].state = "LOCKED" /\ task'[r.task].holder = r.holder
            /\ task'[r.task].lock # "expired"
        BY <1>1, <3>1 DEF Holds
      <4>3. r.holder \in Holder
        BY <2>4 DEF Holder
      <4>4. \A u \in Task : u # r.task => task'[u] = task[u]
        BY <1>1
      <4> DEFINE h == r.holder
                 t == r.task
                 n == r.round
      <4>5. /\ h \in Holder /\ t \in Task /\ n \in Nat
            /\ \A u \in Task : u # t => task'[u] = task[u]
            /\ entitled' \subseteq entitled \cup {<<h, t, n>>}
            /\ \A e \in entitled' : e[2] = t => e = <<h, t, n>>
            /\ task'[t].state = "LOCKED" /\ task'[t].holder = h /\ task'[t].lock # "expired"
        BY <2>4, <2>5, <4>1, <4>2, <4>3, <4>4
      <4> HIDE DEF h, t, n, r
      <4> QED BY <4>5, EntitledKeeps
    <3>2. CASE ~Holds(r.holder, r.task)
      <4>1. entitled' = entitled
        BY <1>4, <3>2
      <4> HIDE DEF r
      <4> QED BY <1>1, <1>2, <4>1 DEF Entitled, Holds, TypeOK
    <3> QED BY <3>1, <3>2
  <2>9. TokensDiffer'
    <3>1. \A b \in Actor : /\ req'[b].holder = req[b].holder
                           /\ req'[b].op \in Claiming => req[b].op \in Claiming
      BY <1>1, <2>1, <2>3 DEF Claiming, Pushing
    <3> SUFFICES ASSUME NEW b \in Actor, NEW c \in Actor, req'[b].op \in Claiming,
                        req'[c].op \in Claiming, req'[b].holder = req'[c].holder
                 PROVE  b = c
      BY DEF TokensDiffer
    <3> HIDE DEF r
    <3>2. req[b].op \in Claiming /\ req[c].op \in Claiming /\ req[b].holder = req[c].holder
      BY <3>1
    <3> QED BY <1>2, <3>2 DEF TokensDiffer
  <2>10. TypeOK'
    BY <1>1, <1>2, <2>1, <2>2, <2>8 DEF TypeOK
  <2>11. Requests'
    BY <2>6, <2>7 DEF Requests
  <2>12. Tasks' /\ OneOpen' /\ PulledWorkNotLost'
    BY <1>1, <1>2 DEF Tasks, OneOpen, OpenTasks, PulledWorkNotLost
  <2> QED BY <2>8, <2>9, <2>10, <2>11, <2>12 DEF IInv
<1> QED BY <1>3, <1>4 DEF Deliver

-----------------------------------------------------------------------------
(***************************************************************************)
(* The steps that save a task.                                             *)
(***************************************************************************)

\* The invariant but for the requests.
Stored == /\ step \in [Step -> [active : BOOLEAN, round : Nat]]
          /\ task \in [Task -> TaskRecord]
          /\ incident \in [Task -> [1..MaxIncidents -> {"none", "open", "resolved"}]]
          /\ entitled \subseteq Holder \X Task \X Nat
          /\ Entitled /\ Tasks /\ OneOpen /\ PulledWorkNotLost

\* x may be stored as task t.
Storable(t, x) ==
    /\ x.state # "ABSENT" /\ x.step \in Step
    /\ x.waiting => x.state = "CREATED"
    /\ task[t].state # "ABSENT" => x.step = task[t].step
    /\ x.state \in OpenStates => task[t].state \in OpenStates \/ OpenTasks(x.step) = {}

\* Stored with its incidents as they will be, x is not lost.
NotLost(t, x, marks) ==
    x.step \notin Push =>
        /\ x.state = "LOCKED" => x.lock # "none"
        /\ x.state \in {"INCIDENT", "BPMN_ERROR"} => \E k \in 1..MaxIncidents : marks[k] = "open"

Marks == [1..MaxIncidents -> {"none", "open", "resolved"}]

LEMMA PulledKeeps ==
  ASSUME IInv, NEW t \in Task, NEW x \in TaskRecord, NEW marks \in Marks,
         task' = [task EXCEPT ![t] = x], incident' = [incident EXCEPT ![t] = marks],
         NotLost(t, x, marks)
  PROVE  /\ incident' \in [Task -> [1..MaxIncidents -> {"none", "open", "resolved"}]]
         /\ PulledWorkNotLost'
<1>1. /\ task \in [Task -> TaskRecord] /\ PulledWorkNotLost
      /\ incident \in [Task -> Marks]
  BY DEF IInv, TypeOK, Marks
<1>2. /\ task'[t] = x /\ incident'[t] = marks
      /\ \A u \in Task : u # t => task'[u] = task[u] /\ incident'[u] = incident[u]
      /\ incident' \in [Task -> Marks]
  BY <1>1
<1>3. ASSUME NEW u \in Task, task'[u].step \in Step \ Push
      PROVE  /\ task'[u].state = "LOCKED" => task'[u].lock # "none"
             /\ task'[u].state \in {"INCIDENT", "BPMN_ERROR"} =>
                    \E k \in 1..MaxIncidents : incident'[u][k] = "open"
  <2>1. CASE u = t
    BY <1>2, <1>3, <2>1 DEF NotLost
  <2>2. CASE u # t
    BY <1>1, <1>2, <1>3, <2>2 DEF PulledWorkNotLost
  <2> QED BY <2>1, <2>2
<1> QED BY <1>2, <1>3 DEF PulledWorkNotLost, Marks

LEMMA StoreAndTell ==
  ASSUME IInv, NEW t \in Task, NEW x \in TaskRecord, NEW marks \in Marks, NEW h \in Holder,
         NEW n \in Nat, NEW case \in BOOLEAN,
         task' = [task EXCEPT ![t] = x], incident' = [incident EXCEPT ![t] = marks],
         Storable(t, x), NotLost(t, x, marks), x.holder \in {task[t].holder, None, h},
         entitled' \subseteq entitled \cup {<<h, t, n>>},
         \A e \in entitled' : e[2] = t => e = <<h, t, n>>,
         <<h, t, n>> \in entitled' => x.state = "LOCKED" /\ x.holder = h /\ x.lock # "expired",
         step' \in [Step -> [active : BOOLEAN, round : Nat]], case \/ step' = step
  PROVE  Stored' /\ Save(t, h, n, case)
<1>1. /\ task' \in [Task -> TaskRecord] /\ task'[t] = x
      /\ \A u \in Task : u # t => task'[u] = task[u]
      /\ Tasks' /\ OneOpen'
  BY StoreKeeps DEF Storable
<1>2. Entitled' /\ entitled' \subseteq Holder \X Task \X Nat
  BY <1>1, EntitledKeeps
<1>3. PulledWorkNotLost'
      /\ incident' \in [Task -> [1..MaxIncidents -> {"none", "open", "resolved"}]]
  BY PulledKeeps
<1>4. Save(t, h, n, case)
  BY <1>1 DEF Save, Storable
<1> QED BY <1>1, <1>2, <1>3, <1>4 DEF Stored

LEMMA StoreAndRevoke ==
  ASSUME IInv, NEW t \in Task, NEW x \in TaskRecord, NEW marks \in Marks, NEW case \in BOOLEAN,
         task' = [task EXCEPT ![t] = x], incident' = [incident EXCEPT ![t] = marks],
         Storable(t, x), NotLost(t, x, marks), x.holder \in {task[t].holder, None},
         entitled' = Revoked(t),
         step' \in [Step -> [active : BOOLEAN, round : Nat]], case \/ step' = step
  PROVE  Stored' /\ Save(t, None, 0, case)
<1>1. /\ task' \in [Task -> TaskRecord] /\ task'[t] = x
      /\ \A u \in Task : u # t => task'[u] = task[u]
      /\ Tasks' /\ OneOpen'
  BY StoreKeeps DEF Storable
<1>2. Entitled' /\ entitled' \subseteq Holder \X Task \X Nat
  <2>1. Entitled /\ entitled \subseteq Holder \X Task \X Nat
    BY DEF IInv, TypeOK
  <2>2. ASSUME NEW e \in entitled' PROVE e \in entitled /\ e[2] \in Task /\ e[2] # t
    BY <2>1 DEF Revoked
  <2>3. ASSUME NEW e \in entitled' PROVE Holds(e[1], e[2])'
    BY <1>1, <2>1, <2>2 DEF Entitled, Holds
  <2> QED BY <2>1, <2>2, <2>3 DEF Entitled
<1>3. PulledWorkNotLost'
      /\ incident' \in [Task -> [1..MaxIncidents -> {"none", "open", "resolved"}]]
  BY PulledKeeps
<1>4. Save(t, None, 0, case)
  BY <1>1 DEF Save, Storable, Revoked
<1> QED BY <1>1, <1>2, <1>3, <1>4 DEF Stored

LEMMA SaverKeeps ==
  ASSUME IInv, NEW a \in Actor, NEW r \in Request, NEW t \in Task \cup {None},
         NEW h \in Holder \cup {None}, NEW n \in Nat, NEW case \in BOOLEAN,
         Stored', Save(t, h, n, case), Goes(a, r, t, case), Fit(req[a])',
         h \in Token => req[a].op \in Claiming /\ h = req[a].holder,
         r.op \in Claiming => req[a].op \in Claiming /\ r.holder = req[a].holder
  PROVE  IInv'
<1>1. req' \in [Actor -> Request] /\ Requests' /\ TokensDiffer'
  BY RequestsKeep
<1> QED BY <1>1 DEF IInv, TypeOK, Stored

LEMMA LastSaveKeeps ==
  ASSUME IInv, NEW a \in Actor, NEW t \in Task \cup {None}, NEW h \in Holder \cup {None},
         NEW n \in Nat, NEW case \in BOOLEAN,
         Stored', Save(t, h, n, case), Goes(a, Idle, t, case),
         h \in Token => req[a].op \in Claiming /\ h = req[a].holder
  PROVE  IInv'
<1>1. Fit(req[a])'
  BY IdleFitsNext DEF Goes
<1>2. Idle \in Request /\ Idle.op \notin Claiming
  BY IdleFacts DEF Claiming, Pushing
<1> QED BY <1>1, <1>2, SaverKeeps

LEMMA BystanderSaveKeeps ==
  ASSUME IInv, NEW t \in Task \cup {None}, NEW case \in BOOLEAN, Stored',
         Save(t, None, 0, case), req' = [b \in Actor |-> Outdated(req[b], t, case)]
  PROVE  IInv'
BY BystandersKeep DEF IInv, TypeOK, Stored

LEMMA Untold ==
  ASSUME IInv, NEW t \in Task, task[t].state # "LOCKED" \/ task[t].lock = "expired"
  PROVE  Revoked(t) = entitled /\ \A e \in entitled : e[2] # t
<1>1. \A e \in entitled : e[2] # t
  BY DEF IInv, Entitled, Holds
<1> QED BY <1>1 DEF Revoked

LEMMA SameMarks ==
  ASSUME IInv, NEW t \in Task, UNCHANGED incident
  PROVE  incident[t] \in Marks /\ incident' = [incident EXCEPT ![t] = incident[t]]
BY DEF IInv, TypeOK, Marks

LEMMA RaiseFacts ==
  ASSUME IInv, NEW t \in Task, Raise(t)
  PROVE  \E marks \in Marks : /\ incident' = [incident EXCEPT ![t] = marks]
                              /\ \E k \in 1..MaxIncidents : marks[k] = "open"
<1>1. incident[t] \in Marks
  BY DEF IInv, TypeOK, Marks
<1>2. PICK k \in 1..MaxIncidents : incident' = [incident EXCEPT ![t][k] = "open"]
  BY DEF Raise
<1> DEFINE marks == [incident[t] EXCEPT ![k] = "open"]
<1>3. marks \in Marks /\ marks[k] = "open" /\ incident' = [incident EXCEPT ![t] = marks]
  BY <1>1, <1>2 DEF Marks
<1> HIDE DEF marks
<1> QED BY <1>3

LEMMA SaveFailedFacts ==
  ASSUME IInv, NEW t \in Task, NEW x \in TaskRecord, x.state \in {"CREATED", "INCIDENT"},
         SaveFailed(t, x)
  PROVE  \E marks \in Marks : /\ task' = [task EXCEPT ![t] = x]
                              /\ incident' = [incident EXCEPT ![t] = marks]
                              /\ NotLost(t, x, marks)
<1>1. task' = [task EXCEPT ![t] = x]
  BY DEF SaveFailed
<1>2. CASE x.state = "INCIDENT"
  BY <1>1, <1>2, RaiseFacts DEF SaveFailed, NotLost
<1>3. CASE x.state = "CREATED"
  BY <1>1, <1>3, SameMarks DEF SaveFailed, NotLost
<1> QED BY <1>2, <1>3

LEMMA LockCommitKeeps ==
  ASSUME IInv, NEW a \in Actor, LockCommit(a)
  PROVE  IInv'
<1> DEFINE r == req[a]
           t == r.task
           new == task[t].state = "ABSENT"
           x == IF new THEN Created(r.step) ELSE task[t]
<1>1. /\ r.op = "lock" /\ r \in Request /\ Fit(r) /\ TypeOK /\ Tasks
      /\ step' = step /\ Goes(a, Idle, t, FALSE)
      /\ IF new THEN Addable(r) ELSE Unchanged(r)
  BY DEF LockCommit, IInv, TypeOK, Requests
<1>2. t \in Task /\ r.step \in Step /\ r.holder \in Worker /\ r.holder \in Holder
      /\ r.holder \notin Token /\ r.round \in Nat /\ task[t] \in TaskRecord
  BY <1>1, QueueTypes DEF Fit, Aimed, Holder, Request, TypeOK
<1>3. /\ x \in TaskRecord /\ x.state \in OpenStates /\ x.step \in Step
      /\ x.waiting => x.state = "CREATED"
      /\ task[t].state # "ABSENT" => x.step = task[t].step
      /\ task[t].state \in OpenStates \/ OpenTasks(x.step) = {}
      /\ task[t].state # "LOCKED" \/ task[t].lock = "expired"
      /\ new => x.holder = None /\ x.state = "CREATED"
  <2>1. CASE new
    <3>1. OpenTasks(r.step) = {} /\ x = Created(r.step) /\ "CREATED" \in OpenStates
      BY <1>1, <2>1 DEF Addable, OpenStates
    <3> HIDE DEF x, t, r
    <3> QED BY <1>2, <2>1, <3>1, CreatedFacts
  <2>2. CASE ~new
    <3>1. Free(task[t]) /\ x = task[t]
      BY <1>1, <2>2 DEF Fit, TaskAsRead, Unchanged
    <3> HIDE DEF x, t, r
    <3> QED BY <1>1, <1>2, <2>2, <3>1 DEF Free, OpenStates, Tasks
  <2> QED BY <2>1, <2>2
<1>4. step' \in [Step -> [active : BOOLEAN, round : Nat]]
  BY <1>1 DEF TypeOK
<1>5. Revoked(t) = entitled /\ \A e \in entitled : e[2] # t
  BY <1>2, <1>3, Untold
<1>6. \/ /\ task' = [task EXCEPT ![t] = Locked(x, r.holder)]
         /\ entitled' = entitled \cup {<<r.holder, t, r.round>>}
         /\ UNCHANGED incident
      \/ SaveFailed(t, FailedAttempt(x, Decremented(x))) /\ UNCHANGED entitled
      \/ new /\ task' = [task EXCEPT ![t] = x] /\ UNCHANGED <<incident, entitled>>
  BY DEF LockCommit
<1>7. OpenStates \subseteq TaskState /\ "ABSENT" \notin OpenStates /\ "LOCKED" \in OpenStates
  BY DEF OpenStates, TaskState
<1> DEFINE h == r.holder
           n == r.round
<1> HIDE DEF r, t, x, h, n
<1>8. h \in Holder /\ h \notin Token /\ n \in Nat /\ h = r.holder /\ n = r.round
  BY <1>2 DEF h, n
<1>9. CASE /\ task' = [task EXCEPT ![t] = Locked(x, r.holder)]
           /\ entitled' = entitled \cup {<<r.holder, t, r.round>>}
           /\ UNCHANGED incident
  <2> DEFINE y == Locked(x, h)
  <2>1. /\ y \in TaskRecord /\ y.state = "LOCKED" /\ y.step = x.step /\ y.holder = h
        /\ y.lock = "held" /\ ~y.waiting
    BY <1>3, <1>8 DEF Locked, TaskRecord, TaskState, OpenStates
  <2>2. task' = [task EXCEPT ![t] = y] /\ entitled' = entitled \cup {<<h, t, n>>}
    BY <1>8, <1>9
  <2>3. incident[t] \in Marks /\ incident' = [incident EXCEPT ![t] = incident[t]]
    BY <1>2, <1>9, SameMarks
  <2> HIDE DEF y
  <2>4. Storable(t, y) /\ NotLost(t, y, incident[t]) /\ y.holder \in {task[t].holder, None, h}
    BY <1>3, <2>1 DEF Storable, NotLost
  <2>5. \A e \in entitled' : e[2] = t => e = <<h, t, n>>
    BY <1>5, <2>2
  <2>6. Stored' /\ Save(t, h, n, FALSE)
    <3>1. /\ entitled' \subseteq entitled \cup {<<h, t, n>>}
          /\ y.state = "LOCKED" /\ y.holder = h /\ y.lock # "expired"
      BY <2>1, <2>2
    <3> DEFINE marks == incident[t]
    <3>2. /\ marks \in Marks /\ incident' = [incident EXCEPT ![t] = marks]
          /\ Storable(t, y) /\ NotLost(t, y, marks)
      BY <2>3, <2>4
    <3> HIDE DEF marks
    <3>3. /\ t \in Task /\ step' = step /\ h \in Holder /\ n \in Nat /\ y \in TaskRecord
          /\ task' = [task EXCEPT ![t] = y] /\ y.holder \in {task[t].holder, None, h}
      BY <1>1, <1>2, <1>8, <2>1, <2>2, <2>4
    <3> QED BY <1>4, <2>5, <3>1, <3>2, <3>3, StoreAndTell
  <2> QED BY <1>1, <1>2, <1>8, <2>6, LastSaveKeeps
<1>10. ASSUME NEW y \in TaskRecord, NEW marks \in Marks, task' = [task EXCEPT ![t] = y],
              incident' = [incident EXCEPT ![t] = marks], NotLost(t, y, marks),
              y.state \in {"CREATED", "INCIDENT"}, y.waiting => y.state = "CREATED",
              y.step = x.step, y.holder = None, UNCHANGED entitled
       PROVE  IInv'
  <2>1. Storable(t, y) /\ y.holder \in {task[t].holder, None}
    BY <1>3, <1>10 DEF Storable
  <2>2. Stored' /\ Save(t, None, 0, FALSE)
    BY <1>1, <1>2, <1>4, <1>5, <1>10, <2>1, StoreAndRevoke
  <2> QED BY <1>1, <1>2, <2>2, LastSaveKeeps, QueueTypes DEF Holder
<1>11. CASE SaveFailed(t, FailedAttempt(x, Decremented(x))) /\ UNCHANGED entitled
  <2> DEFINE y == FailedAttempt(x, Decremented(x))
  <2>1. 0 \in 0..Budget
    BY QueueTypes
  <2>2. Decremented(x) \in 0..Budget
    BY <1>3, <2>1, FailedFacts
  <2>3. /\ y \in TaskRecord /\ y.step = x.step /\ y.holder = None
        /\ y.state \in {"CREATED", "INCIDENT"}
        /\ y.waiting => y.state = "CREATED"
    BY <1>3, <2>2, FailedFacts
  <2>4. SaveFailed(t, y) /\ UNCHANGED entitled
    BY <1>11
  <2> HIDE DEF y
  <2>5. PICK marks \in Marks : /\ task' = [task EXCEPT ![t] = y]
                               /\ incident' = [incident EXCEPT ![t] = marks]
                               /\ NotLost(t, y, marks)
    BY <1>2, <2>3, <2>4, SaveFailedFacts
  <2> QED BY <1>10, <2>3, <2>4, <2>5
<1>12. CASE new /\ task' = [task EXCEPT ![t] = x] /\ UNCHANGED <<incident, entitled>>
  <2>1. incident[t] \in Marks /\ incident' = [incident EXCEPT ![t] = incident[t]]
    BY <1>2, <1>12, SameMarks
  <2>2. NotLost(t, x, incident[t])
    BY <1>3, <1>12 DEF NotLost
  <2> QED BY <1>3, <1>10, <1>12, <2>1, <2>2
<1> QED BY <1>6, <1>9, <1>11, <1>12

LEMMA EndSaveKeeps ==
  ASSUME IInv, NEW a \in Actor, NEW t \in Task, NEW x \in TaskRecord, NEW marks \in Marks,
         NEW case \in BOOLEAN,
         task' = [task EXCEPT ![t] = x], incident' = [incident EXCEPT ![t] = marks],
         Storable(t, x), NotLost(t, x, marks), x.holder \in {task[t].holder, None},
         entitled' = Revoked(t), Goes(a, Idle, t, case),
         step' \in [Step -> [active : BOOLEAN, round : Nat]], case \/ step' = step
  PROVE  IInv'
<1>1. Stored' /\ Save(t, None, 0, case)
  BY StoreAndRevoke
<1>2. None \notin Token
  BY QueueTypes DEF Holder
<1> QED BY <1>1, <1>2, LastSaveKeeps

LEMMA BystanderEndKeeps ==
  ASSUME IInv, NEW t \in Task, NEW x \in TaskRecord, NEW marks \in Marks,
         task' = [task EXCEPT ![t] = x], incident' = [incident EXCEPT ![t] = marks],
         Storable(t, x), NotLost(t, x, marks), x.holder \in {task[t].holder, None},
         entitled' = Revoked(t), step' = step,
         req' = [b \in Actor |-> Outdated(req[b], t, FALSE)]
  PROVE  IInv'
<1>1. step' \in [Step -> [active : BOOLEAN, round : Nat]]
  BY DEF IInv, TypeOK
<1>2. Stored' /\ Save(t, None, 0, FALSE)
  BY <1>1, StoreAndRevoke
<1> QED BY <1>2, BystanderSaveKeeps

LEMMA CancelCommitKeeps ==
  ASSUME IInv, NEW a \in Actor, CancelCommit(a)
  PROVE  IInv'
<1> DEFINE t == req[a].task
           y == Release(task[t], "CANCELLED")
<1>1. /\ req[a].op = "cancel" /\ ~req[a].staleTask /\ Fit(req[a]) /\ Tasks
      /\ task \in [Task -> TaskRecord] /\ step \in [Step -> [active : BOOLEAN, round : Nat]]
      /\ step' = step /\ entitled' = entitled /\ UNCHANGED incident /\ Goes(a, Idle, t, FALSE)
      /\ task' = [task EXCEPT ![t] = y]
  BY DEF CancelCommit, Unchanged, IInv, TypeOK, Requests
<1>2. t \in Task /\ task[t] \in TaskRecord /\ Free(task[t]) /\ task[t].state # "ABSENT"
  BY <1>1 DEF Fit, Aimed, TaskAsRead
<1> HIDE DEF t
<1>3. /\ y \in TaskRecord /\ y.state = "CANCELLED" /\ y.step = task[t].step
      /\ y.holder = None /\ ~y.waiting
  BY <1>2 DEF Release, TaskRecord, TaskState
<1>4. Revoked(t) = entitled
  BY <1>2, Untold DEF Free
<1>5. incident[t] \in Marks /\ incident' = [incident EXCEPT ![t] = incident[t]]
  BY <1>1, <1>2, SameMarks
<1> HIDE DEF y
<1>6. Storable(t, y) /\ NotLost(t, y, incident[t])
  BY <1>1, <1>2, <1>3 DEF Storable, NotLost, OpenStates, Tasks
<1> QED BY <1>1, <1>2, <1>3, <1>4, <1>5, <1>6, EndSaveKeeps

LEMMA AddCommitKeeps ==
  ASSUME IInv, NEW a \in Actor, AddCommit(a)
  PROVE  IInv'
<1> DEFINE t == req[a].task
           s == req[a].step
           y == Created(s)
<1>1. /\ req[a].op = "add" /\ Fit(req[a])
      /\ task[t].state = "ABSENT" /\ OpenTasks(s) = {}
      /\ task \in [Task -> TaskRecord] /\ step \in [Step -> [active : BOOLEAN, round : Nat]]
      /\ step' = step /\ entitled' = entitled /\ UNCHANGED incident /\ Goes(a, Idle, t, FALSE)
      /\ task' = [task EXCEPT ![t] = y]
  BY DEF AddCommit, Addable, IInv, TypeOK, Requests
<1>2. t \in Task /\ s \in Step
  BY <1>1 DEF Fit, Aimed
<1> HIDE DEF t, s
<1>3. y \in TaskRecord /\ y.state = "CREATED" /\ y.step = s /\ y.holder = None
  BY <1>2, CreatedFacts
<1>4. Revoked(t) = entitled
  BY <1>1, <1>2, Untold
<1>5. incident[t] \in Marks /\ incident' = [incident EXCEPT ![t] = incident[t]]
  BY <1>1, <1>2, SameMarks
<1> HIDE DEF y
<1>6. Storable(t, y) /\ NotLost(t, y, incident[t])
  BY <1>1, <1>2, <1>3 DEF Storable, NotLost
<1> QED BY <1>1, <1>2, <1>3, <1>4, <1>5, <1>6, EndSaveKeeps

LEMMA PushFailedKeeps ==
  ASSUME IInv, NEW a \in Actor, NEW n \in 0..Budget, req[a].op \in {"claim", "received", "missed"},
         ~req[a].staleTask, PushFailed(a, req[a], n)
  PROVE  IInv'
<1> DEFINE r == req[a]
           t == r.task
           y == FailedAttempt(task[t], n)
           q == [r EXCEPT !.op = "deadletter"]
<1>1. /\ Fit(r) /\ r \in Request
      /\ task \in [Task -> TaskRecord] /\ step \in [Step -> [active : BOOLEAN, round : Nat]]
      /\ step' = step /\ entitled' = Revoked(t) /\ UNCHANGED incident
      /\ task' = [task EXCEPT ![t] = y]
      /\ IF y.state = "INCIDENT" THEN Goes(a, q, t, FALSE) ELSE Goes(a, Idle, t, FALSE)
  BY DEF PushFailed, IInv, TypeOK, Requests
<1>2. /\ t \in Task /\ task[t] \in TaskRecord /\ task[t].state \in OpenStates
      /\ task[t].step \in Push /\ task[t].step \in Step /\ task[t].state # "ABSENT"
  BY <1>1, QueueTypes DEF Fit, Aimed, TaskAsRead, Free, Claiming, Pushing, OpenStates
<1>3. /\ q \in Request /\ q.op = "deadletter" /\ q.task = t /\ q.step = r.step
      /\ q.writes = r.writes
  BY <1>1 DEF Request
<1> HIDE DEF t, q
<1>4. /\ y \in TaskRecord /\ y.state \in {"CREATED", "INCIDENT"} /\ y.step = task[t].step
      /\ y.holder = None
      /\ y.waiting => y.state = "CREATED"
  BY <1>2, FailedFacts
<1>5. incident[t] \in Marks /\ incident' = [incident EXCEPT ![t] = incident[t]]
  BY <1>1, <1>2, SameMarks
<1> HIDE DEF y
<1>6. Storable(t, y) /\ NotLost(t, y, incident[t])
  BY <1>1, <1>2, <1>4 DEF Storable, NotLost
<1>7. CASE y.state = "INCIDENT"
  <2>1. Stored' /\ Save(t, None, 0, FALSE)
    BY <1>1, <1>2, <1>4, <1>5, <1>6, StoreAndRevoke
  <2>2. Goes(a, q, t, FALSE) /\ req'[a] = q
    BY <1>1, <1>7 DEF Goes
  <2>3. Fit(req[a])'
    BY <1>1, <1>2, <1>3, <2>2 DEF Fit, Aimed, TaskAsRead, CaseAsRead, TokenOfItsOwn, Claiming,
       Pushing, Reporting
  <2>4. q.op \notin Claiming /\ None \notin Token /\ t \in Task \cup {None}
    BY <1>2, <1>3, QueueTypes DEF Holder, Claiming, Pushing
  <2> QED BY <1>3, <2>1, <2>2, <2>3, <2>4, SaverKeeps
<1>8. CASE y.state # "INCIDENT"
  BY <1>1, <1>2, <1>4, <1>5, <1>6, <1>8, EndSaveKeeps
<1> QED BY <1>7, <1>8

LEMMA ClaimKeeps ==
  ASSUME IInv, NEW a \in Actor, Claim(a)
  PROVE  IInv'
<1> DEFINE r == req[a]
           t == r.task
           h == r.holder
           y == Locked(task[t], h)
           q == [r EXCEPT !.op = "push"]
<1>1. /\ r.op = "claim" /\ ~r.staleTask /\ Fit(r) /\ r \in Request
      /\ task \in [Task -> TaskRecord] /\ step \in [Step -> [active : BOOLEAN, round : Nat]]
      /\ Entitled
  BY DEF Claim, Unchanged, IInv, TypeOK, Requests
<1>2. /\ t \in Task /\ task[t] \in TaskRecord /\ Free(task[t]) /\ task[t].state # "ABSENT"
      /\ task[t].step \in Push /\ task[t].step \in Step /\ h \in Token /\ h \in Holder
      /\ \A u \in Task : task[u].holder # h
  BY <1>1, QueueTypes DEF Fit, Aimed, TaskAsRead, TokenOfItsOwn, Claiming, Holder
<1>3. /\ q \in Request /\ q.op = "push" /\ q.task = t /\ q.step = r.step /\ q.holder = h
      /\ q.writes = r.writes /\ q.staleTask = r.staleTask
  BY <1>1 DEF Request
<1>4. CASE PushFailed(a, r, Decremented(task[t]))
  <2>1. 0 \in 0..Budget
    BY QueueTypes
  <2>2. Decremented(task[t]) \in 0..Budget
    BY <1>2, <2>1, FailedFacts
  <2> QED BY <1>1, <1>4, <2>2, PushFailedKeeps
<1>5. CASE /\ task' = [task EXCEPT ![t] = y] /\ Goes(a, q, t, FALSE)
           /\ UNCHANGED <<step, incident, entitled>>
  <2>1. /\ y \in TaskRecord /\ y.state = "LOCKED" /\ y.step = task[t].step /\ y.holder = h
        /\ y.lock = "held" /\ ~y.waiting
    BY <1>2 DEF Locked, TaskRecord, TaskState, OpenStates
  <2>2. incident[t] \in Marks /\ incident' = [incident EXCEPT ![t] = incident[t]]
    BY <1>2, <1>5, SameMarks
  <2>3. \A e \in entitled : e[2] # t
    BY <1>2, Untold DEF Free
  <2>4. \A e \in entitled : e[1] # h
    <3>1. \A e \in entitled : e[2] \in Task
      BY DEF IInv, TypeOK
    <3> QED BY <1>1, <1>2, <3>1 DEF Entitled, Holds
  <2>5. /\ task' = [task EXCEPT ![t] = y] /\ task'[t] = y /\ Goes(a, q, t, FALSE)
        /\ step' = step /\ entitled' = entitled /\ req'[a] = q
    BY <1>1, <1>2, <1>5 DEF Goes
  <2> HIDE DEF y, q, h, t
  <2>6. Storable(t, y) /\ NotLost(t, y, incident[t]) /\ y.holder \in {task[t].holder, None, h}
    BY <1>2, <2>1 DEF Storable, NotLost, Free, OpenStates
  <2>7. /\ entitled' \subseteq entitled \cup {<<h, t, 0>>}
        /\ \A e \in entitled' : e[2] = t => e = <<h, t, 0>>
    BY <2>3, <2>5
  <2>8. Stored' /\ Save(t, h, 0, FALSE)
    <3> DEFINE marks == incident[t]
    <3>1. /\ marks \in Marks /\ incident' = [incident EXCEPT ![t] = marks]
          /\ Storable(t, y) /\ NotLost(t, y, marks)
      BY <2>2, <2>6
    <3>2. y.state = "LOCKED" /\ y.holder = h /\ y.lock # "expired"
      BY <2>1
    <3>3. step' \in [Step -> [active : BOOLEAN, round : Nat]]
      BY <1>1, <2>5
    <3> HIDE DEF marks
    <3> QED BY <1>2, <2>1, <2>5, <2>6, <2>7, <3>1, <3>2, <3>3, StoreAndTell
  <2>9. Fit(req[a])'
    BY <1>1, <1>2, <1>3, <2>1, <2>4, <2>5 DEF Fit, Aimed, TaskAsRead, CaseAsRead, TokenOfItsOwn,
       Claiming, Pushing, Reporting
  <2>10. r.op \in Claiming /\ q.holder = r.holder /\ h = r.holder
    BY <1>1, <1>3 DEF Claiming, h
  <2> QED BY <1>2, <1>3, <2>5, <2>8, <2>9, <2>10, SaverKeeps
<1> QED BY <1>4, <1>5 DEF Claim

LEMMA PushOutcomeKeeps ==
  ASSUME IInv, NEW a \in Actor, PushOutcome(a)
  PROVE  IInv'
<1> DEFINE r == req[a]
           t == r.task
           h == r.holder
           n == r.round
<1>1. /\ r.op \in {"received", "missed"} /\ ~r.staleTask /\ Fit(r) /\ r \in Request
      /\ task \in [Task -> TaskRecord] /\ step \in [Step -> [active : BOOLEAN, round : Nat]]
      /\ Entitled /\ entitled \subseteq Holder \X Task \X Nat
  BY DEF PushOutcome, OutcomeSaved, Unchanged, IInv, TypeOK, Requests
<1>2. /\ t \in Task /\ task[t] \in TaskRecord /\ task[t].state = "LOCKED"
      /\ task[t].holder = h /\ h \in Token /\ h \in Holder /\ n \in Nat
      /\ task[t].step \in Push /\ task[t].step \in Step
  BY <1>1, QueueTypes DEF Fit, Aimed, TaskAsRead, Claiming, Pushing, Holder, Request
<1>3. r.op \in Claiming /\ h = r.holder /\ n = r.round /\ t = r.task /\ 0 \in 0..Budget
  BY <1>1, QueueTypes DEF Claiming, Pushing
<1>4. \A e \in entitled : e[2] = t => e[1] = h
  BY <1>1, <1>2 DEF Entitled, Holds
<1>5. CASE PushFailed(a, r, Decremented(task[t])) \/ PushFailed(a, r, 0)
  <2>1. Decremented(task[t]) \in 0..Budget
    BY <1>2, <1>3, FailedFacts
  <2> QED BY <1>1, <1>3, <1>5, <2>1, PushFailedKeeps
<1>6. CASE /\ r.op = "received" /\ task' = [task EXCEPT ![t].lock = "none"]
           /\ entitled' = entitled \cup {<<h, t, n>>}
           /\ Goes(a, Idle, t, FALSE) /\ UNCHANGED <<step, incident>>
  <2> DEFINE y == [task[t] EXCEPT !.lock = "none"]
  <2>1. /\ y \in TaskRecord /\ y.state = "LOCKED" /\ y.step = task[t].step /\ y.holder = h
        /\ y.lock = "none" /\ y.waiting = task[t].waiting
    BY <1>2 DEF TaskRecord
  <2>2. incident[t] \in Marks /\ incident' = [incident EXCEPT ![t] = incident[t]]
    BY <1>2, <1>6, SameMarks
  <2>3. task' = [task EXCEPT ![t] = y] /\ step' = step /\ Goes(a, Idle, t, FALSE)
    BY <1>1, <1>2, <1>6
  <2>4. \A e \in entitled : e[2] = t => e = <<h, t, n>>
    <3>1. \A e \in entitled : e[1] = h => e[3] = n
      BY <1>1, <1>6 DEF Fit, TokenOfItsOwn
    <3> HIDE DEF h, n, t, r
    <3>2. \A e \in entitled : e[2] = t => e[1] = h /\ e[3] = n
      BY <1>4, <3>1
    <3> QED BY <1>1, <3>2
  <2>5. ~y.waiting
    BY <1>2, <2>1 DEF IInv, Tasks
  <2> HIDE DEF y, h, n, t
  <2>6. Storable(t, y) /\ NotLost(t, y, incident[t]) /\ y.holder \in {task[t].holder, None, h}
    BY <1>2, <2>1, <2>5 DEF Storable, NotLost, OpenStates
  <2>7. /\ entitled' \subseteq entitled \cup {<<h, t, n>>}
        /\ \A e \in entitled' : e[2] = t => e = <<h, t, n>>
    BY <1>6, <2>4
  <2>8. Stored' /\ Save(t, h, n, FALSE)
    <3> DEFINE marks == incident[t]
    <3>1. /\ marks \in Marks /\ incident' = [incident EXCEPT ![t] = marks]
          /\ Storable(t, y) /\ NotLost(t, y, marks)
      BY <2>2, <2>6
    <3>2. y.state = "LOCKED" /\ y.holder = h /\ y.lock # "expired"
      BY <2>1
    <3>3. step' \in [Step -> [active : BOOLEAN, round : Nat]]
      BY <1>1, <2>3
    <3> HIDE DEF marks
    <3> QED BY <1>2, <2>1, <2>3, <2>6, <2>7, <3>1, <3>2, <3>3, StoreAndTell
  <2> QED BY <1>2, <1>3, <2>3, <2>8, LastSaveKeeps
<1>7. CASE /\ r.op = "missed" /\ task' = [task EXCEPT ![t] = Release(@, "CREATED")]
           /\ Goes(a, Idle, t, FALSE) /\ UNCHANGED <<step, incident, entitled>>
  <2> DEFINE y == Release(task[t], "CREATED")
  <2>1. /\ y \in TaskRecord /\ y.state = "CREATED" /\ y.step = task[t].step
        /\ y.holder = None
    BY <1>2 DEF Release, TaskRecord, TaskState, OpenStates
  <2>2. incident[t] \in Marks /\ incident' = [incident EXCEPT ![t] = incident[t]]
    BY <1>2, <1>7, SameMarks
  <2>3. task' = [task EXCEPT ![t] = y] /\ step' = step /\ Goes(a, Idle, t, FALSE)
    BY <1>1, <1>2, <1>7
  <2>4. entitled' = Revoked(t)
    <3>1. \A e \in entitled : e[1] # h
      BY <1>1, <1>7 DEF Fit, TokenOfItsOwn
    <3> QED BY <1>4, <1>7, <3>1 DEF Revoked
  <2> HIDE DEF y, h, n, t
  <2>5. Storable(t, y) /\ NotLost(t, y, incident[t])
    BY <1>2, <2>1 DEF Storable, NotLost, OpenStates
  <2> QED BY <1>1, <1>2, <2>1, <2>2, <2>3, <2>4, <2>5, EndSaveKeeps
<1> QED BY <1>5, <1>6, <1>7 DEF PushOutcome

\* The incident follows in a save of its own.
LEMMA DeadLetterKeeps ==
  ASSUME IInv, NEW a \in Actor, DeadLetter(a)
  PROVE  IInv'
<1> DEFINE t == req[a].task
<1>1. /\ req[a].op = "deadletter" /\ Fit(req[a]) /\ Raise(t) /\ req' = [req EXCEPT ![a] = Idle]
      /\ UNCHANGED <<step, task, entitled>>
  BY DEF DeadLetter, IInv, Requests
<1>2. t \in Task
  BY <1>1 DEF Fit, Aimed
<1>3. PICK marks \in Marks : /\ incident' = [incident EXCEPT ![t] = marks]
                             /\ \E k \in 1..MaxIncidents : marks[k] = "open"
  BY <1>1, <1>2, RaiseFacts
<1>4. /\ TypeOK /\ Requests /\ TokensDiffer /\ Entitled /\ Tasks /\ OneOpen
  BY DEF IInv
<1>5. task' = [task EXCEPT ![t] = task[t]] /\ task[t] \in TaskRecord
  BY <1>1, <1>2, <1>4 DEF TypeOK
<1> HIDE DEF t
<1>6. NotLost(t, task[t], marks)
  <2>1. CASE task[t].state = "LOCKED"
    <3>1. task[t].step \in Step
      BY <1>2, <1>4, <2>1 DEF Tasks
    <3> QED BY <1>2, <1>3, <2>1, <3>1 DEF NotLost, IInv, PulledWorkNotLost
  <2> QED BY <1>3, <2>1 DEF NotLost
<1>7. /\ incident' \in [Task -> [1..MaxIncidents -> {"none", "open", "resolved"}]]
      /\ PulledWorkNotLost'
  BY <1>2, <1>3, <1>5, <1>6, PulledKeeps
<1>8. TypeOK'
  BY <1>1, <1>4, <1>7, IdleFacts DEF TypeOK
<1>9. Requests'
  <2>1. ASSUME NEW b \in Actor PROVE Fit(req[b])'
    <3>1. CASE b = a
      BY <1>1, <1>4, <3>1, IdleFitsNext DEF TypeOK
    <3>2. CASE b # a
      BY <1>1, <1>4, <3>2 DEF TypeOK, Requests, Fit, Aimed, TaskAsRead, CaseAsRead,
         TokenOfItsOwn, OpenTasks
    <3> QED BY <3>1, <3>2
  <2> QED BY <2>1 DEF Requests
<1>10. TokensDiffer'
  BY <1>1, <1>4, IdleFacts DEF TokensDiffer, TypeOK, Claiming, Pushing
<1>11. Entitled' /\ Tasks' /\ OneOpen'
  BY <1>1, <1>4 DEF Entitled, Holds, Tasks, OneOpen, OpenTasks
<1> QED BY <1>7, <1>8, <1>9, <1>10, <1>11 DEF IInv

LEMMA CompleteStepType ==
  ASSUME TypeOK, NEW s \in Step, CompleteStep(s)
  PROVE  step' \in [Step -> [active : BOOLEAN, round : Nat]]
<1>1. step \in [Step -> [active : BOOLEAN, round : Nat]]
  BY DEF TypeOK
<1>2. [step[s] EXCEPT !.active = FALSE] \in [active : BOOLEAN, round : Nat]
  BY <1>1
<1>3. [step[s] EXCEPT !.round = step[s].round + 1] \in [active : BOOLEAN, round : Nat]
  BY <1>1
<1>4. \/ step' = [step EXCEPT ![s] = [step[s] EXCEPT !.active = FALSE]]
      \/ step' = [step EXCEPT ![s] = [step[s] EXCEPT !.round = step[s].round + 1]]
  BY <1>1 DEF CompleteStep
<1> QED BY <1>1, <1>2, <1>3, <1>4

LEMMA ReportCommitKeeps ==
  ASSUME IInv, NEW a \in Actor, ReportCommit(a)
  PROVE  IInv'
<1> DEFINE r == req[a]
           t == r.task
           y == [task[t] EXCEPT !.state = "COMPLETED", !.lock = "none"]
<1>1. /\ r.op \in Reporting /\ ~r.staleTask /\ Fit(r) /\ TypeOK /\ Tasks
      /\ task \in [Task -> TaskRecord]
      /\ entitled' = Revoked(t) /\ UNCHANGED incident /\ Goes(a, Idle, t, TRUE)
      /\ CompleteStep(r.step)
  BY DEF ReportCommit, Current, Unchanged, Reporting, IInv, TypeOK, Requests
<1>2. /\ t \in Task /\ task[t] \in TaskRecord /\ task[t].state = "LOCKED" /\ r.step \in Step
      /\ task[t].step \in Step /\ task' = [task EXCEPT ![t] = y]
  BY <1>1 DEF ReportCommit, Fit, Aimed, TaskAsRead, Reporting
<1>3. /\ y \in TaskRecord /\ y.state = "COMPLETED" /\ y.step = task[t].step
      /\ y.holder = task[t].holder /\ y.waiting = task[t].waiting
  BY <1>2 DEF TaskRecord, TaskState
<1>4. step' \in [Step -> [active : BOOLEAN, round : Nat]]
  BY <1>1, <1>2, CompleteStepType
<1> HIDE DEF t
<1>5. incident[t] \in Marks /\ incident' = [incident EXCEPT ![t] = incident[t]]
  BY <1>1, <1>2, SameMarks
<1>6. ~y.waiting
  BY <1>1, <1>2, <1>3 DEF Tasks
<1> HIDE DEF y
<1>7. Storable(t, y) /\ NotLost(t, y, incident[t])
  BY <1>2, <1>3, <1>6 DEF Storable, NotLost, OpenStates
<1> QED BY <1>1, <1>2, <1>3, <1>4, <1>5, <1>7, EndSaveKeeps

\* What a report on the task alone may rely on.
LEMMA ReportedFacts ==
  ASSUME IInv, NEW h \in Holder, NEW t \in Task, Holds(h, t)
  PROVE  /\ task[t] \in TaskRecord /\ task[t].state = "LOCKED" /\ task[t].holder = h
         /\ task[t].step \in Step /\ ~task[t].waiting /\ task[t].state \in OpenStates
         /\ task[t].lock # "expired"
BY DEF IInv, TypeOK, Tasks, Holds, OpenStates

LEMMA FailureKeeps ==
  ASSUME IInv, NEW h \in Holder, NEW t \in Task, Failure(h, t)
  PROVE  IInv'
<1>1. 0 \in 0..Budget /\ task[t] \in TaskRecord
  BY QueueTypes DEF IInv, TypeOK
<1>2. PICK left \in {Decremented(task[t])} \cup 0..Budget :
          /\ Reported(h, t, FailedAttempt(task[t], left)) /\ entitled' = Revoked(t)
          /\ IF FailedAttempt(task[t], left).state = "INCIDENT" THEN Raise(t)
             ELSE UNCHANGED incident
  BY DEF Failure
<1>3. left \in 0..Budget
  BY <1>1, FailedFacts
<1> DEFINE y == FailedAttempt(task[t], left)
<1>4. /\ y \in TaskRecord /\ y.state \in {"CREATED", "INCIDENT"} /\ y.step = task[t].step
      /\ y.holder = None
      /\ y.waiting => y.state = "CREATED"
  BY <1>1, <1>3, FailedFacts
<1>5. /\ Holds(h, t) /\ SaveFailed(t, y) /\ entitled' = Revoked(t) /\ step' = step
      /\ req' = [b \in Actor |-> Outdated(req[b], t, FALSE)]
  BY <1>2 DEF Reported, SaveFailed
<1> HIDE DEF y
<1>6. PICK marks \in Marks : /\ task' = [task EXCEPT ![t] = y]
                             /\ incident' = [incident EXCEPT ![t] = marks]
                             /\ NotLost(t, y, marks)
  BY <1>4, <1>5, SaveFailedFacts
<1>7. Storable(t, y)
  BY <1>4, <1>5, ReportedFacts DEF Storable
<1> QED BY <1>4, <1>5, <1>6, <1>7, BystanderEndKeeps

LEMMA BpmnErrorKeeps ==
  ASSUME IInv, NEW h \in Holder, NEW t \in Task, BpmnError(h, t)
  PROVE  IInv'
<1> DEFINE y == Release(task[t], "BPMN_ERROR")
<1>1. /\ Holds(h, t) /\ task' = [task EXCEPT ![t] = y] /\ entitled' = Revoked(t)
      /\ step' = step /\ req' = [b \in Actor |-> Outdated(req[b], t, FALSE)] /\ Raise(t)
  BY DEF BpmnError, Reported
<1>2. /\ task[t] \in TaskRecord /\ task[t].step \in Step /\ task[t].state \in OpenStates
  BY <1>1, ReportedFacts
<1>3. /\ y \in TaskRecord /\ y.state = "BPMN_ERROR" /\ y.step = task[t].step /\ y.holder = None
      /\ ~y.waiting
  BY <1>2 DEF Release, TaskRecord, TaskState, OpenStates
<1>4. PICK marks \in Marks : /\ incident' = [incident EXCEPT ![t] = marks]
                             /\ \E k \in 1..MaxIncidents : marks[k] = "open"
  BY <1>1, RaiseFacts
<1> HIDE DEF y
<1>5. Storable(t, y) /\ NotLost(t, y, marks)
  BY <1>2, <1>3, <1>4 DEF Storable, NotLost
<1> QED BY <1>1, <1>3, <1>4, <1>5, BystanderEndKeeps

LEMMA UnlockKeeps ==
  ASSUME IInv, NEW h \in Holder, NEW t \in Task, Unlock(h, t)
  PROVE  IInv'
<1> DEFINE y == Release(task[t], "CREATED")
<1>1. /\ Holds(h, t) /\ task' = [task EXCEPT ![t] = y] /\ entitled' = Revoked(t)
      /\ step' = step /\ req' = [b \in Actor |-> Outdated(req[b], t, FALSE)]
      /\ UNCHANGED incident
  BY DEF Unlock, Reported
<1>2. /\ task[t] \in TaskRecord /\ task[t].step \in Step /\ task[t].state \in OpenStates
  BY <1>1, ReportedFacts
<1>3. /\ y \in TaskRecord /\ y.state = "CREATED" /\ y.step = task[t].step /\ y.holder = None
  BY <1>2 DEF Release, TaskRecord, TaskState, OpenStates
<1>4. incident[t] \in Marks /\ incident' = [incident EXCEPT ![t] = incident[t]]
  BY <1>1, SameMarks
<1> HIDE DEF y
<1>5. Storable(t, y) /\ NotLost(t, y, incident[t])
  BY <1>2, <1>3 DEF Storable, NotLost
<1> QED BY <1>1, <1>3, <1>4, <1>5, BystanderEndKeeps

LEMMA ExtendLockKeeps ==
  ASSUME IInv, NEW h \in Holder, NEW t \in Task, ExtendLock(h, t)
  PROVE  IInv'
<1> DEFINE y == [task[t] EXCEPT !.lock = "held"]
<1>1. /\ Holds(h, t) /\ task' = [task EXCEPT ![t] = y] /\ entitled' = entitled
      /\ step' = step /\ req' = [b \in Actor |-> Outdated(req[b], t, FALSE)]
      /\ UNCHANGED incident
      /\ \E e \in entitled : e[1] = h /\ e[2] = t
  BY DEF ExtendLock, Reported
<1>2. /\ task[t] \in TaskRecord /\ task[t].step \in Step /\ task[t].state = "LOCKED"
      /\ task[t].holder = h /\ ~task[t].waiting
  BY <1>1, ReportedFacts
<1>3. /\ y \in TaskRecord /\ y.state = "LOCKED" /\ y.step = task[t].step /\ y.holder = h
      /\ y.lock = "held" /\ y.waiting = task[t].waiting
  BY <1>2 DEF TaskRecord
<1>4. incident[t] \in Marks /\ incident' = [incident EXCEPT ![t] = incident[t]]
  BY <1>1, SameMarks
<1>5. /\ step \in [Step -> [active : BOOLEAN, round : Nat]] /\ Entitled
      /\ entitled \subseteq Holder \X Task \X Nat
  BY DEF IInv, TypeOK
<1>6. PICK n \in Nat : <<h, t, n>> \in entitled
  BY <1>1, <1>5
<1> HIDE DEF y
<1>7. Storable(t, y) /\ NotLost(t, y, incident[t]) /\ y.holder \in {task[t].holder, None, h}
  BY <1>2, <1>3 DEF Storable, NotLost, OpenStates
<1>8. \A e \in entitled : e[2] = t => e = <<h, t, n>>
  BY <1>5, <1>6 DEF Entitled
<1>9. Stored' /\ Save(t, h, n, FALSE)
  <2> DEFINE marks == incident[t]
  <2>1. /\ marks \in Marks /\ incident' = [incident EXCEPT ![t] = marks]
        /\ Storable(t, y) /\ NotLost(t, y, marks)
    BY <1>4, <1>7
  <2>2. /\ entitled' \subseteq entitled \cup {<<h, t, n>>}
        /\ \A e \in entitled' : e[2] = t => e = <<h, t, n>>
        /\ y.state = "LOCKED" /\ y.holder = h /\ y.lock # "expired"
        /\ task' = [task EXCEPT ![t] = y] /\ step' = step
        /\ step' \in [Step -> [active : BOOLEAN, round : Nat]]
    BY <1>1, <1>3, <1>5, <1>8
  <2> HIDE DEF marks
  <2> QED BY <1>3, <1>7, <2>1, <2>2, StoreAndTell
<1>10. Save(t, None, 0, FALSE)
  BY <1>1, <1>2, <1>3, <1>9 DEF Save
<1> QED BY <1>1, <1>9, <1>10, BystanderSaveKeeps

LEMMA SuperviseCommitKeeps ==
  ASSUME IInv, NEW a \in Actor, SuperviseCommit(a)
  PROVE  IInv'
<1> DEFINE r == req[a]
           t == r.task
           y == Release(task[t], "COMPLETED")
           marks == [k \in 1..MaxIncidents |->
                        IF incident[t][k] = "open" THEN "resolved" ELSE incident[t][k]]
<1>1. /\ r.op = "close" /\ ~r.staleTask /\ Fit(r) /\ r \in Request /\ TypeOK
      /\ Goes(a, Idle, t, TRUE) /\ CompleteStep(r.step) /\ r.step \in Step
  BY DEF SuperviseCommit, Current, Unchanged, IInv, TypeOK, Requests, Fit, Aimed
<1>2. step' \in [Step -> [active : BOOLEAN, round : Nat]]
  BY <1>1, CompleteStepType
<1>3. CASE t = None
  <2>1. UNCHANGED <<task, incident, entitled>>
    BY <1>3 DEF SuperviseCommit
  <2>2. Stored'
    BY <1>2, <2>1 DEF IInv, TypeOK, Stored, Entitled, Holds, Tasks, OneOpen, OpenTasks,
       PulledWorkNotLost
  <2>3. Save(None, None, 0, TRUE)
    BY <2>1, QueueTypes DEF Save, IInv, TypeOK
  <2>4. Goes(a, Idle, None, TRUE) /\ None \notin Token
    BY <1>1, <1>3, QueueTypes DEF Holder
  <2> QED BY <2>2, <2>3, <2>4, LastSaveKeeps
<1>4. CASE t # None
  <2>1. /\ t \in Task /\ task[t] \in TaskRecord /\ task[t].state \in OpenStates
        /\ task[t].step \in Step
        /\ incident[t] \in [1..MaxIncidents -> {"none", "open", "resolved"}]
    BY <1>1, <1>4 DEF Fit, TaskAsRead, OpenTasks, TypeOK, Request
  <2>2. /\ task' = [task EXCEPT ![t] = y] /\ entitled' = Revoked(t)
        /\ incident' = [incident EXCEPT ![t] = marks]
    <3>1. DOMAIN incident[t] = 1..MaxIncidents
      BY <2>1
    <3> QED BY <1>1, <1>4, <2>1, <3>1 DEF SuperviseCommit, TypeOK
  <2>3. marks \in Marks
    BY <2>1 DEF Marks
  <2>4. /\ y \in TaskRecord /\ y.state = "COMPLETED" /\ y.step = task[t].step
        /\ y.holder = None /\ ~y.waiting
    BY <2>1 DEF Release, TaskRecord, TaskState
  <2> HIDE DEF y, t, marks
  <2>5. Storable(t, y) /\ NotLost(t, y, marks)
    BY <2>1, <2>4 DEF Storable, NotLost, OpenStates
  <2> QED BY <1>1, <1>2, <2>1, <2>2, <2>3, <2>4, <2>5, EndSaveKeeps
<1> QED BY <1>3, <1>4

\* Time passes for a task: what requests have read of it still holds.
LEMMA TimeKeeps ==
  ASSUME IInv, NEW t \in Task, NEW x \in TaskRecord,
         task' = [task EXCEPT ![t] = x], UNCHANGED <<step, incident, req>>,
         entitled' \in {entitled, Revoked(t)},
         x.state = task[t].state, x.step = task[t].step, x.holder = task[t].holder,
         x.state # "ABSENT", Free(task[t]) => Free(x), x.waiting => task[t].waiting,
         x.lock = task[t].lock \/ (x.lock = "expired" /\ entitled' = Revoked(t))
  PROVE  IInv'
<1>1. /\ TypeOK /\ Requests /\ TokensDiffer /\ Entitled /\ Tasks /\ OneOpen /\ PulledWorkNotLost
      /\ task \in [Task -> TaskRecord] /\ entitled \subseteq Holder \X Task \X Nat
  BY DEF IInv, TypeOK
<1>2. /\ task'[t] = x /\ \A u \in Task : u # t => task'[u] = task[u]
      /\ task' \in [Task -> TaskRecord] /\ entitled' \subseteq entitled
  BY <1>1 DEF Revoked
<1>3. TypeOK'
  BY <1>1, <1>2 DEF TypeOK
<1>4. \A u \in Task : /\ task'[u].state = task[u].state /\ task'[u].step = task[u].step
                      /\ task'[u].holder = task[u].holder
                      /\ Free(task[u]) => Free(task'[u])
  BY <1>2
<1>5. Requests'
  <2> SUFFICES ASSUME NEW b \in Actor PROVE Fit(req[b])'
    BY DEF Requests
  <2> DEFINE r == req[b]
  <2>1. r \in Request /\ Fit(r) /\ req' = req /\ step' = step
    BY <1>1 DEF TypeOK, Requests
  <2>2. Aimed(req[b])'
    BY <1>4, <2>1 DEF Fit, Aimed, Claiming, Pushing, Reporting
  <2>3. TaskAsRead(req[b])'
    BY <1>4, <2>1 DEF Fit, Aimed, TaskAsRead, OpenTasks, Pushing, Reporting, Request, Free
  <2>4. CaseAsRead(req[b])'
    BY <2>1 DEF Fit, CaseAsRead
  <2>5. TokenOfItsOwn(req[b])'
    BY <1>2, <1>4, <2>1 DEF Fit, TokenOfItsOwn
  <2> QED BY <2>2, <2>3, <2>4, <2>5 DEF Fit
<1>6. TokensDiffer' /\ OneOpen'
  BY <1>1, <1>4 DEF TokensDiffer, OneOpen, OpenTasks
<1>7. Tasks'
  BY <1>1, <1>2 DEF Tasks
<1>8. Entitled'
  <2>1. ASSUME NEW e \in entitled' PROVE Holds(e[1], e[2])'
    <3>1. e \in entitled /\ e[2] \in Task /\ Holds(e[1], e[2])
      BY <1>1, <1>2 DEF Entitled
    <3>2. e[2] = t => x.lock = task[t].lock
      BY DEF Revoked
    <3> QED BY <1>2, <3>1, <3>2 DEF Holds
  <2> QED BY <1>1, <1>2, <2>1 DEF Entitled
<1>9. PulledWorkNotLost'
  <2>1. \A u \in Task : task'[u].lock = task[u].lock \/ task'[u].lock = "expired"
    BY <1>2
  <2> QED BY <1>1, <1>4, <2>1 DEF PulledWorkNotLost
<1> QED BY <1>3, <1>5, <1>6, <1>7, <1>8, <1>9 DEF IInv

LEMMA ExpireKeeps ==
  ASSUME IInv, NEW t \in Task, Expire(t)
  PROVE  IInv'
<1> DEFINE x == [task[t] EXCEPT !.lock = "expired"]
<1>1. task[t] \in TaskRecord /\ task[t].state = "LOCKED" /\ task[t].lock = "held"
  BY DEF IInv, TypeOK, Expire
<1>2. /\ x \in TaskRecord /\ x.state = "LOCKED" /\ x.step = task[t].step
      /\ x.holder = task[t].holder /\ x.lock = "expired" /\ x.waiting = task[t].waiting
  BY <1>1 DEF TaskRecord
<1>3. /\ task' = [task EXCEPT ![t] = x] /\ UNCHANGED <<step, incident, req>>
      /\ entitled' = Revoked(t)
  BY DEF IInv, TypeOK, Expire
<1> HIDE DEF x
<1> QED BY <1>1, <1>2, <1>3, TimeKeeps DEF Free

LEMMA BackOffOverKeeps ==
  ASSUME IInv, NEW t \in Task, BackOffOver(t)
  PROVE  IInv'
<1> DEFINE x == [task[t] EXCEPT !.waiting = FALSE]
<1>1. task[t] \in TaskRecord /\ task[t].state = "CREATED"
  BY DEF IInv, TypeOK, BackOffOver, Tasks
<1>2. /\ x \in TaskRecord /\ x.state = "CREATED" /\ x.step = task[t].step
      /\ x.holder = task[t].holder /\ x.lock = task[t].lock /\ ~x.waiting
  BY <1>1 DEF TaskRecord
<1>3. /\ task' = [task EXCEPT ![t] = x] /\ UNCHANGED <<step, incident, req>>
      /\ entitled' = entitled
  BY DEF IInv, TypeOK, BackOffOver
<1> HIDE DEF x
<1> QED BY <1>1, <1>2, <1>3, TimeKeeps DEF Free

LEMMA ResolveIncidentKeeps ==
  ASSUME IInv, NEW t \in Task, NEW k \in 1..MaxIncidents, ResolveIncident(t, k)
  PROVE  IInv'
<1> DEFINE marks == [incident[t] EXCEPT ![k] = "resolved"]
<1>1. /\ TypeOK /\ Requests /\ TokensDiffer /\ Entitled /\ Tasks /\ OneOpen /\ PulledWorkNotLost
      /\ task \in [Task -> TaskRecord] /\ task[t] \in TaskRecord
      /\ incident \in [Task -> Marks]
  BY DEF IInv, TypeOK, Marks
<1>2. /\ incident' = [incident EXCEPT ![t] = marks] /\ step' = step /\ entitled' = entitled
  BY <1>1 DEF ResolveIncident
<1>3. marks \in Marks
  BY <1>1 DEF Marks
<1> HIDE DEF marks
<1>4. CASE task[t].state \in {"INCIDENT", "BPMN_ERROR"}
  <2> DEFINE y == [Release(task[t], "CREATED") EXCEPT !.retries = Budget]
  <2>1. /\ task' = [task EXCEPT ![t] = y]
        /\ req' = [b \in Actor |-> Outdated(req[b], t, FALSE)]
    BY <1>1, <1>4 DEF ResolveIncident
  <2>2. Budget \in 0..Budget /\ "CREATED" \in TaskState
    BY QueueTypes DEF TaskState, OpenStates
  <2>3. /\ y \in TaskRecord /\ y.state = "CREATED" /\ y.step = task[t].step /\ y.holder = None
    BY <1>1, <2>2 DEF Release, TaskRecord
  <2>4. Revoked(t) = entitled
    BY <1>4, Untold
  <2>5. task[t].step \in Step
    BY <1>1, <1>4 DEF Tasks
  <2> HIDE DEF y
  <2>6. Storable(t, y) /\ NotLost(t, y, marks)
    BY <1>4, <2>3, <2>5 DEF Storable, NotLost, OpenStates
  <2> QED BY <1>2, <1>3, <2>1, <2>3, <2>4, <2>6, BystanderEndKeeps
<1>5. CASE task[t].state \notin {"INCIDENT", "BPMN_ERROR"}
  <2>1. UNCHANGED <<task, req>>
    BY <1>5 DEF ResolveIncident
  <2>2. task' = [task EXCEPT ![t] = task[t]]
    BY <1>1, <2>1
  <2>3. NotLost(t, task[t], marks)
    <3>1. CASE task[t].state = "LOCKED"
      <4>1. task[t].step \in Step
        BY <1>1, <3>1 DEF Tasks
      <4> QED BY <1>1, <1>5, <3>1, <4>1 DEF NotLost, PulledWorkNotLost
    <3> QED BY <1>5, <3>1 DEF NotLost
  <2>4. PulledWorkNotLost'
        /\ incident' \in [Task -> [1..MaxIncidents -> {"none", "open", "resolved"}]]
    BY <1>1, <1>2, <1>3, <2>2, <2>3, PulledKeeps
  <2>5. TypeOK'
    BY <1>1, <1>2, <2>1, <2>4 DEF TypeOK
  <2>6. Requests' /\ TokensDiffer'
    BY <1>1, <1>2, <2>1 DEF Requests, TokensDiffer, Fit, Aimed, TaskAsRead, CaseAsRead,
       TokenOfItsOwn, OpenTasks
  <2>7. Entitled' /\ Tasks' /\ OneOpen'
    BY <1>1, <1>2, <2>1 DEF Entitled, Holds, Tasks, OneOpen, OpenTasks
  <2> QED BY <2>4, <2>5, <2>6, <2>7 DEF IInv
<1> QED BY <1>4, <1>5

LEMMA ActivateKeeps ==
  ASSUME IInv, NEW s \in Step, Activate(s)
  PROVE  IInv'
<1>1. /\ step \in [Step -> [active : BOOLEAN, round : Nat]]
      /\ UNCHANGED <<task, incident, entitled>>
      /\ req' = [b \in Actor |-> Outdated(req[b], None, TRUE)]
  BY DEF IInv, TypeOK, Activate
<1>2. step' \in [Step -> [active : BOOLEAN, round : Nat]]
  <2>1. step' = [step EXCEPT ![s] = [active |-> TRUE, round |-> step[s].round + 1]]
    BY DEF Activate
  <2>2. [active |-> TRUE, round |-> step[s].round + 1] \in [active : BOOLEAN, round : Nat]
    BY <1>1
  <2> QED BY <1>1, <2>1, <2>2
<1>3. Stored'
  BY <1>1, <1>2 DEF IInv, TypeOK, Stored, Entitled, Holds, Tasks, OneOpen, OpenTasks,
     PulledWorkNotLost
<1>4. Save(None, None, 0, TRUE)
  BY <1>1, QueueTypes DEF Save, IInv, TypeOK
<1> QED BY <1>1, <1>3, <1>4, BystanderSaveKeeps

LEMMA LockKeeps ==
  ASSUME IInv, NEW s \in Step, Lock(s)
  PROVE  IInv'
<1>1. ASSUME NEW a \in Actor, Skip(a) PROVE IInv'
  BY <1>1, EndKeeps DEF Skip
<1> QED BY <1>1, LockCommitKeeps DEF Lock

LEMMA ProceedKeeps ==
  ASSUME IInv, NEW a \in Actor, Proceed(a) \/ WriteExternal(a) \/ Crash(a)
  PROVE  IInv'
<1>1. CASE PushOvertaken(a) \/ ReportRefused(a) \/ SuperviseConflict(a) \/ Crash(a)
  BY <1>1, EndKeeps DEF PushOvertaken, ReportRefused, SuperviseConflict, Crash
<1>2. CASE CancelCommit(a) \/ AddCommit(a) \/ Claim(a) \/ Deliver(a) \/ PushOutcome(a)
  BY <1>2, CancelCommitKeeps, AddCommitKeeps, ClaimKeeps, DeliverKeeps, PushOutcomeKeeps
<1>3. CASE DeadLetter(a) \/ ReportCommit(a) \/ ReportConflict(a) \/ WriteExternal(a)
  BY <1>3, DeadLetterKeeps, ReportCommitKeeps, ReportConflictKeeps, WriteExternalKeeps
<1>4. CASE CloseRead(a) \/ SuperviseCommit(a)
  BY <1>4, CloseReadKeeps, SuperviseCommitKeeps
<1> QED BY <1>1, <1>2, <1>3, <1>4 DEF Proceed

-----------------------------------------------------------------------------
(***************************************************************************)
(* The invariant.                                                          *)
(***************************************************************************)

LEMMA InitIInv == Init => IInv
<1> SUFFICES ASSUME Init PROVE IInv
  OBVIOUS
<1>1. NewTask \in TaskRecord /\ NewTask.state = "ABSENT" /\ ~NewTask.waiting
  BY QueueTypes DEF NewTask, TaskRecord, TaskState, OpenStates
<1>2. TypeOK
  BY <1>1, IdleFacts DEF Init, TypeOK
<1>3. Requests /\ TokensDiffer
  BY IdleFacts, IdleFits DEF Init, Requests, TokensDiffer, Claiming, Pushing
<1>4. Entitled /\ Tasks
  BY <1>1 DEF Init, Entitled, Tasks
<1>5. OneOpen
  BY <1>1 DEF Init, OneOpen, OpenTasks, OpenStates
<1>6. PulledWorkNotLost
  BY <1>1 DEF Init, PulledWorkNotLost
<1> QED BY <1>2, <1>3, <1>4, <1>5, <1>6 DEF IInv

\* Every step of the queue keeps the invariant (all handlers of integration_runtime).
THEOREM StepIInv == IInv /\ [Next]_vars => IInv'
<1> SUFFICES ASSUME IInv, [Next]_vars PROVE IInv'
  OBVIOUS
<1>1. CASE UNCHANGED vars
  BY <1>1 DEF vars, IInv, TypeOK, Requests, TokensDiffer, Entitled, Tasks, OneOpen,
     PulledWorkNotLost, Fit, Aimed, TaskAsRead, CaseAsRead, TokenOfItsOwn, OpenTasks, Holds
<1>2. ASSUME NEW s \in Step, Activate(s) \/ Fetch(s) \/ Lock(s) \/ Drive(s) PROVE IInv'
  <2>1. CASE Fetch(s)
    BY <2>1, FetchReadKeeps DEF Fetch
  <2>2. CASE Drive(s)
    BY <2>2, PushReadKeeps DEF Drive
  <2> QED BY <1>2, <2>1, <2>2, ActivateKeeps, LockKeeps
<1>3. ASSUME NEW a \in Actor, Proceed(a) \/ WriteExternal(a) \/ Crash(a) PROVE IInv'
  BY <1>3, ProceedKeeps
<1>4. ASSUME NEW a \in Actor, NEW h \in Holder, NEW t \in Task, ReportRead(a, h, t) PROVE IInv'
  BY <1>4, ReportReadKeeps
<1>5. ASSUME NEW h \in Holder, NEW t \in Task,
             Failure(h, t) \/ BpmnError(h, t) \/ ExtendLock(h, t) \/ Unlock(h, t)
      PROVE  IInv'
  BY <1>5, FailureKeeps, BpmnErrorKeeps, ExtendLockKeeps, UnlockKeeps
<1>6. ASSUME NEW a \in Actor, NEW s \in Step, SuperviseRead(a, s) PROVE IInv'
  BY <1>6, SuperviseReadKeeps
<1>7. ASSUME NEW t \in Task, NEW k \in 1..MaxIncidents, ResolveIncident(t, k) PROVE IInv'
  BY <1>7, ResolveIncidentKeeps
<1>8. ASSUME NEW t \in Task, Expire(t) \/ BackOffOver(t) PROVE IInv'
  BY <1>8, ExpireKeeps, BackOffOverKeeps
<1> QED BY <1>1, <1>2, <1>3, <1>4, <1>5, <1>6, <1>7, <1>8 DEF Next

\* The inductive invariant holds throughout: what a request has read stays true until
\* somebody else's save outdates it.
THEOREM Invariant == Spec => []IInv
BY InitIInv, StepIInv, PTL DEF Spec

LEMMA IInvImplies == IInv => HandedOutOnce
<1> SUFFICES ASSUME IInv PROVE HandedOutOnce
  OBVIOUS
<1>1. ASSUME NEW s \in Step PROVE Cardinality(OpenTasks(s)) <= 1
  <2>1. CASE OpenTasks(s) = {}
    BY <2>1, FS_EmptySet
  <2>2. CASE OpenTasks(s) # {}
    <3>1. PICK t \in OpenTasks(s) : OpenTasks(s) = {t}
      BY <2>2 DEF IInv, OneOpen
    <3>2. Cardinality({t}) = 1
      BY FS_Singleton
    <3> QED BY <3>1, <3>2
  <2> QED BY <2>1, <2>2
<1> QED BY <1>1 DEF IInv, HandedOutOnce, OneOpenTaskPerStep, Entitled, Holds

\* No piece of work is ever in two hands, and no step has two open tasks
\* (fetch_and_lock, drive_push, add: "Handed out once").
THEOREM HandedOut == Spec => []HandedOutOnce
BY Invariant, IInvImplies, PTL

\* A pulled task is never stuck in a lock that cannot run out, nor with an operator
\* who sees no incident (failure, bpmn_error, fetch_and_lock).
THEOREM NotLostToWorkers == Spec => []PulledWorkNotLost
<1>1. IInv => PulledWorkNotLost
  BY DEF IInv
<1> QED BY <1>1, Invariant, PTL

-----------------------------------------------------------------------------
(***************************************************************************)
(* Booked once.                                                            *)
(***************************************************************************)

ClosedStates == {"COMPLETED", "CANCELLED"}

\* A step that completes nothing and leaves what is closed alone.
BooksNothing ==
    /\ \A s \in Step : step[s].active => step'[s] = step[s]
    /\ \A t \in Task : task'[t] = task[t]
                       \/ (task[t].state \notin ClosedStates /\ task'[t].state # "COMPLETED")

LEMMA StoredBooksNothing ==
  ASSUME IInv, NEW t \in Task, NEW x, task' = [task EXCEPT ![t] = x], step' = step,
         task[t].state \notin ClosedStates, x.state # "COMPLETED"
  PROVE  BooksNothing
BY DEF IInv, TypeOK, BooksNothing

\* What a request that saves relies on: the task it names is not closed.
LEMMA SaverFacts ==
  ASSUME IInv, NEW a \in Actor, ~req[a].staleTask \/ task[req[a].task].state = "ABSENT",
         req[a].op \in {"lock", "cancel", "claim", "add", "received", "missed"},
         req[a].op = "add" => task[req[a].task].state = "ABSENT"
  PROVE  req[a].task \in Task /\ task[req[a].task].state \notin ClosedStates
<1>1. Fit(req[a]) /\ req[a].task \in Task
  BY DEF IInv, Requests, Fit, Aimed
<1> QED BY <1>1 DEF Fit, TaskAsRead, Free, Pushing, ClosedStates

LEMMA FailedBooksNothing ==
  ASSUME IInv, NEW t \in Task, NEW x, NEW n, task' = [task EXCEPT ![t] = FailedAttempt(x, n)],
         step' = step, task[t].state \notin ClosedStates, x \in TaskRecord
  PROVE  BooksNothing
<1>1. FailedAttempt(x, n).state # "COMPLETED"
  <2> DEFINE y == Release(x, "CREATED")
             z == Release(x, "INCIDENT")
  <2>1. y \in TaskRecord /\ y.state = "CREATED" /\ z \in TaskRecord /\ z.state = "INCIDENT"
    BY DEF Release, TaskRecord, TaskState, OpenStates
  <2> HIDE DEF y, z
  <2>2. /\ [y EXCEPT !.retries = n, !.waiting = TRUE].state = "CREATED"
        /\ [z EXCEPT !.retries = 0].state = "INCIDENT"
    BY <2>1 DEF TaskRecord
  <2> QED BY <2>2 DEF FailedAttempt, y, z
<1> QED BY <1>1, StoredBooksNothing

LEMMA LockBooksNothing ==
  ASSUME IInv, NEW a \in Actor, LockCommit(a)
  PROVE  BooksNothing
<1> DEFINE r == req[a]
           t == r.task
           new == task[t].state = "ABSENT"
           x == IF new THEN Created(r.step) ELSE task[t]
<1>1. t \in Task /\ task[t].state \notin ClosedStates /\ r.step \in Step
  BY SaverFacts DEF LockCommit, Unchanged, IInv, Requests, Fit, Aimed
<1>2. x \in TaskRecord
  BY <1>1, CreatedFacts DEF IInv, TypeOK
<1>3. \/ task' = [task EXCEPT ![t] = Locked(x, r.holder)]
      \/ task' = [task EXCEPT ![t] = FailedAttempt(x, Decremented(x))]
      \/ new /\ task' = [task EXCEPT ![t] = x]
  BY DEF LockCommit, SaveFailed
<1>4. step' = step
  BY DEF LockCommit
<1>5. new => x.state = "CREATED"
  BY <1>1, CreatedFacts
<1> HIDE DEF r, t, x
<1>6. Locked(x, r.holder).state = "LOCKED"
  BY <1>2 DEF Locked, TaskRecord
<1>7. CASE task' = [task EXCEPT ![t] = Locked(x, r.holder)]
  BY <1>1, <1>4, <1>6, <1>7, StoredBooksNothing
<1>8. CASE task' = [task EXCEPT ![t] = FailedAttempt(x, Decremented(x))]
  BY <1>1, <1>2, <1>4, <1>8, FailedBooksNothing
<1>9. CASE new /\ task' = [task EXCEPT ![t] = x]
  BY <1>1, <1>4, <1>5, <1>9, StoredBooksNothing
<1> QED BY <1>3, <1>7, <1>8, <1>9

LEMMA PushBooksNothing ==
  ASSUME IInv, NEW a \in Actor, CancelCommit(a) \/ AddCommit(a) \/ Claim(a) \/ PushOutcome(a)
  PROVE  BooksNothing
<1> DEFINE r == req[a]
           t == r.task
<1>1. /\ t \in Task /\ task[t].state \notin ClosedStates /\ r.step \in Step
      /\ task[t] \in TaskRecord
  BY SaverFacts DEF CancelCommit, AddCommit, Claim, PushOutcome, OutcomeSaved, Addable, Unchanged,
     IInv, Requests, Fit, Aimed, TypeOK
<1>2. step' = step
  BY DEF CancelCommit, AddCommit, Claim, PushOutcome, PushFailed
<1>3. ASSUME NEW n, PushFailed(a, r, n) PROVE BooksNothing
  BY <1>1, <1>2, <1>3, FailedBooksNothing DEF PushFailed
<1>4. ASSUME NEW x, task' = [task EXCEPT ![t] = x], x.state # "COMPLETED" PROVE BooksNothing
  BY <1>1, <1>2, <1>4, StoredBooksNothing
<1>5. CASE CancelCommit(a)
  <2>1. Release(task[t], "CANCELLED").state = "CANCELLED"
    BY <1>1 DEF Release, TaskRecord
  <2> QED BY <1>1, <1>4, <1>5, <2>1 DEF CancelCommit, IInv, TypeOK
<1>6. CASE AddCommit(a)
  <2>1. Created(r.step).state = "CREATED"
    BY <1>1, CreatedFacts
  <2> QED BY <1>4, <1>6, <2>1 DEF AddCommit
<1>7. CASE Claim(a)
  <2>1. Locked(task[t], r.holder).state = "LOCKED"
    BY <1>1 DEF Locked, TaskRecord
  <2>2. \/ PushFailed(a, r, Decremented(task[t]))
        \/ task' = [task EXCEPT ![t] = Locked(task[t], r.holder)]
    BY <1>1, <1>7 DEF Claim, IInv, TypeOK
  <2> HIDE DEF r, t
  <2> QED BY <1>3, <1>4, <2>1, <2>2
<1>8. CASE PushOutcome(a)
  <2> DEFINE y == [task[t] EXCEPT !.lock = "none"]
             z == Release(task[t], "CREATED")
  <2>1. z.state = "CREATED" /\ y.state = task[t].state
    BY <1>1 DEF Release, TaskRecord
  <2>2. task[t].state # "COMPLETED"
    BY <1>1 DEF ClosedStates
  <2>3. \/ PushFailed(a, r, Decremented(task[t])) \/ PushFailed(a, r, 0)
        \/ task' = [task EXCEPT ![t] = y]
        \/ task' = [task EXCEPT ![t] = z]
    BY <1>1, <1>8 DEF PushOutcome, IInv, TypeOK
  <2> HIDE DEF r, t, y, z
  <2> QED BY <1>3, <1>4, <2>1, <2>2, <2>3
<1> QED BY <1>5, <1>6, <1>7, <1>8

LEMMA ReportsBookNothing ==
  ASSUME IInv, NEW h \in Holder, NEW t \in Task,
         Failure(h, t) \/ BpmnError(h, t) \/ ExtendLock(h, t) \/ Unlock(h, t)
  PROVE  BooksNothing
<1>1. Holds(h, t) /\ step' = step
  BY DEF Failure, BpmnError, ExtendLock, Unlock, Reported
<1>2. /\ task[t] \in TaskRecord /\ task[t].state = "LOCKED"
      /\ task[t].state \notin ClosedStates
  BY <1>1, ReportedFacts DEF ClosedStates
<1>3. /\ Release(task[t], "BPMN_ERROR").state = "BPMN_ERROR"
      /\ Release(task[t], "CREATED").state = "CREATED"
      /\ [task[t] EXCEPT !.lock = "held"].state = "LOCKED"
  BY <1>2 DEF Release, TaskRecord
<1>4. CASE BpmnError(h, t) \/ ExtendLock(h, t) \/ Unlock(h, t)
  BY <1>1, <1>2, <1>3, <1>4, StoredBooksNothing DEF BpmnError, ExtendLock, Unlock, Reported
<1>5. CASE Failure(h, t)
  <2>1. PICK left \in {Decremented(task[t])} \cup 0..Budget :
            task' = [task EXCEPT ![t] = FailedAttempt(task[t], left)]
    BY <1>5 DEF Failure, Reported
  <2> QED BY <1>1, <1>2, <2>1, FailedBooksNothing
<1> QED BY <1>4, <1>5

LEMMA TimeBooksNothing ==
  ASSUME IInv, NEW t \in Task,
         Expire(t) \/ BackOffOver(t) \/ \E k \in 1..MaxIncidents : ResolveIncident(t, k)
  PROVE  BooksNothing
<1>1. /\ task[t] \in TaskRecord /\ task \in [Task -> TaskRecord] /\ step' = step
  BY DEF Expire, BackOffOver, ResolveIncident, IInv, TypeOK
<1>2. CASE Expire(t)
  <2>1. /\ [task[t] EXCEPT !.lock = "expired"].state = "LOCKED"
        /\ task[t].state \notin ClosedStates
    BY <1>1, <1>2 DEF TaskRecord, Expire, ClosedStates
  <2>2. task' = [task EXCEPT ![t] = [task[t] EXCEPT !.lock = "expired"]]
    BY <1>1, <1>2 DEF Expire
  <2> QED BY <1>1, <2>1, <2>2, StoredBooksNothing
<1>3. CASE BackOffOver(t)
  <2>1. task[t].state = "CREATED"
    BY <1>3 DEF BackOffOver, IInv, Tasks
  <2>2. /\ [task[t] EXCEPT !.waiting = FALSE].state = "CREATED"
        /\ task[t].state \notin ClosedStates
    BY <1>1, <2>1 DEF TaskRecord, ClosedStates
  <2>3. task' = [task EXCEPT ![t] = [task[t] EXCEPT !.waiting = FALSE]]
    BY <1>1, <1>3 DEF BackOffOver
  <2> QED BY <1>1, <2>2, <2>3, StoredBooksNothing
<1>4. CASE \E k \in 1..MaxIncidents : ResolveIncident(t, k)
  <2> DEFINE y == [Release(task[t], "CREATED") EXCEPT !.retries = Budget]
  <2>1. CASE task[t].state \in {"INCIDENT", "BPMN_ERROR"}
    <3>1. y.state = "CREATED" /\ task[t].state \notin ClosedStates
      BY <1>1, <2>1 DEF Release, TaskRecord, ClosedStates
    <3>2. task' = [task EXCEPT ![t] = y]
      BY <1>1, <1>4, <2>1 DEF ResolveIncident
    <3> HIDE DEF y
    <3> QED BY <1>1, <3>1, <3>2, StoredBooksNothing
  <2>2. CASE task[t].state \notin {"INCIDENT", "BPMN_ERROR"}
    BY <1>1, <1>4, <2>2 DEF ResolveIncident, BooksNothing
  <2> QED BY <2>1, <2>2
<1> QED BY <1>2, <1>3, <1>4

LEMMA StepBooks ==
  ASSUME IInv, [Next]_vars
  PROVE  BooksNothing \/ \E a \in Actor : ReportCommit(a) \/ SuperviseCommit(a)
<1>1. CASE UNCHANGED <<step, task>>
  BY <1>1 DEF BooksNothing
<1>2. ASSUME NEW s \in Step, Activate(s) \/ Fetch(s) \/ Lock(s) \/ Drive(s)
      PROVE  BooksNothing
  <2>1. CASE Activate(s)
    BY <2>1 DEF Activate, BooksNothing, IInv, TypeOK
  <2>2. CASE Fetch(s) \/ Drive(s)
    BY <1>1, <2>2 DEF Fetch, Drive, FetchRead, PushRead, Begin, BooksNothing
  <2>3. CASE Lock(s)
    BY <2>3, LockBooksNothing DEF Lock, Skip, BooksNothing
  <2> QED BY <1>2, <2>1, <2>2, <2>3
<1>3. ASSUME NEW a \in Actor, Proceed(a) \/ WriteExternal(a) \/ Crash(a)
      PROVE  BooksNothing \/ ReportCommit(a) \/ SuperviseCommit(a)
  BY <1>3, PushBooksNothing DEF Proceed, WriteExternal, Crash, Deliver, PushOvertaken, DeadLetter,
     ReportRefused, ReportConflict, CloseRead, SuperviseConflict, BooksNothing
<1>4. ASSUME NEW a \in Actor, NEW h \in Holder, NEW t \in Task, ReportRead(a, h, t)
      PROVE  BooksNothing
  BY <1>4 DEF ReportRead, Begin, BooksNothing
<1>5. ASSUME NEW a \in Actor, NEW s \in Step, SuperviseRead(a, s)
      PROVE  BooksNothing
  BY <1>5 DEF SuperviseRead, Begin, BooksNothing
<1> QED BY <1>1, <1>2, <1>3, <1>4, <1>5, ReportsBookNothing, TimeBooksNothing DEF Next, vars

\* A booking is made by a request that has read the running activation, on its task.
LEMMA CommitFacts ==
  ASSUME IInv, NEW a \in Actor, ReportCommit(a) \/ SuperviseCommit(a)
  PROVE  /\ req[a].op \in {"report", "written", "close"} /\ req'[a].op = "idle"
         /\ step[req[a].step].active /\ step[req[a].step].round = req[a].round
         /\ \A s \in Step : s # req[a].step => step'[s] = step[s]
         /\ \A t \in Task : task'[t] = task[t] \/ t \in OpenTasks(req[a].step)
<1> DEFINE r == req[a]
<1>1. /\ Fit(r) /\ r \in Request /\ TypeOK /\ Goes(a, Idle, r.task, TRUE)
      /\ CompleteStep(r.step) /\ ~r.staleTask /\ ~r.staleCase
      /\ \/ r.op \in Reporting /\ r.round # 0
         \/ r.op = "close"
  BY DEF ReportCommit, SuperviseCommit, Current, Unchanged, Reporting, IInv, TypeOK, Requests
<1>2. step[r.step].active /\ step[r.step].round = r.round
  BY <1>1 DEF Fit, CaseAsRead
<1>3. req'[a].op = "idle"
  BY <1>1, IdleFacts DEF Goes
<1>4. \A s \in Step : s # r.step => step'[s] = step[s]
  BY <1>1 DEF CompleteStep, TypeOK
<1>5. ASSUME NEW t \in Task, task'[t] # task[t] PROVE t = r.task
  BY <1>1, <1>5 DEF ReportCommit, SuperviseCommit, TypeOK
<1>6. r.task \in Task => r.task \in OpenTasks(r.step)
  <2>1. None \notin Task
    BY QueueTypes
  <2> QED BY <1>1, <2>1 DEF Fit, Aimed, TaskAsRead, Reporting, OpenTasks, OpenStates
<1> QED BY <1>1, <1>2, <1>3, <1>4, <1>5, <1>6 DEF Reporting

LEMMA OpenOrClosed == ClosedStates \cap OpenStates = {}
BY DEF ClosedStates, OpenStates

\* Work is booked once: a step is completed only by a request that has read the very
\* activation it completes, what is closed stays as it was closed, and one report
\* writes to the external system at most once (complete, close_step, drive_push).
THEOREM WorkBookedOnce == Spec => BookedOnce
<1>1. IInv /\ [Next]_vars =>
          [\A s \in Step : (step[s].active /\ step'[s] # step[s]) \/ Booked(s) =>
              /\ step[s].active
              /\ \E a \in Actor :
                     /\ req[a].op \in {"report", "written", "close"} /\ req'[a].op = "idle"
                     /\ req[a].step = s /\ req[a].round = step[s].round]_vars
  <2> SUFFICES ASSUME IInv, [Next]_vars, NEW s \in Step,
                      (step[s].active /\ step'[s] # step[s]) \/ Booked(s)
               PROVE  /\ step[s].active
                      /\ \E a \in Actor :
                             /\ req[a].op \in {"report", "written", "close"}
                             /\ req'[a].op = "idle"
                             /\ req[a].step = s /\ req[a].round = step[s].round
    OBVIOUS
  <2>1. ~BooksNothing
    <3>1. ASSUME NEW t \in OpenTasks(s), task'[t].state = "COMPLETED"
          PROVE  t \in Task /\ task'[t] # task[t]
      BY <3>1 DEF OpenTasks, OpenStates
    <3> QED BY <3>1 DEF BooksNothing, Booked
  <2>2. PICK a \in Actor : ReportCommit(a) \/ SuperviseCommit(a)
    BY <2>1, StepBooks
  <2>3. /\ req[a].op \in {"report", "written", "close"} /\ req'[a].op = "idle"
        /\ step[req[a].step].active /\ step[req[a].step].round = req[a].round
        /\ \A u \in Step : u # req[a].step => step'[u] = step[u]
        /\ \A t \in Task : task'[t] = task[t] \/ t \in OpenTasks(req[a].step)
    BY <2>2, CommitFacts
  <2>4. req[a].step = s
    <3>1. CASE step'[s] # step[s]
      BY <2>3, <3>1
    <3>2. CASE Booked(s)
      <4>1. PICK t \in OpenTasks(s) : task'[t].state = "COMPLETED"
        BY <3>2 DEF Booked
      <4>2. t \in Task /\ task'[t] # task[t] /\ task[t].step = s
        BY <4>1 DEF OpenTasks, OpenStates
      <4> QED BY <2>3, <4>2 DEF OpenTasks
    <3> QED BY <3>1, <3>2
  <2> QED BY <2>3, <2>4
<1>2. IInv /\ [Next]_vars =>
          [\A t \in Task :
              task[t].state \in {"COMPLETED", "CANCELLED"} => task'[t] = task[t]]_vars
  <2> SUFFICES ASSUME IInv, [Next]_vars, NEW t \in Task, task[t].state \in ClosedStates
               PROVE  task'[t] = task[t]
    BY DEF ClosedStates
  <2>1. CASE BooksNothing
    BY <2>1 DEF BooksNothing
  <2>2. ASSUME NEW a \in Actor, ReportCommit(a) \/ SuperviseCommit(a)
        PROVE  task'[t] = task[t]
    BY <2>2, CommitFacts, OpenOrClosed DEF OpenTasks
  <2> QED BY <2>1, <2>2, StepBooks
<1>3. IInv => \A a \in Actor : req[a].writes <= 1
  BY DEF IInv, Requests, Fit, Aimed
<1> QED BY <1>1, <1>2, <1>3, Invariant, PTL DEF Spec, BookedOnce, CompletesWhatItRead,
           ClosedStaysClosed, WrittenOncePerReport
=============================================================================
