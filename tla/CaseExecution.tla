--------------------------- MODULE CaseExecution ---------------------------
(***************************************************************************)
(* One case (ProcessInstance) on one schema: procworks.execution with the  *)
(* guards its HTTP boundary puts in front of it (api_execution).           *)
(*                                                                         *)
(* Every operation of the engine is a pure function from a case to a case, *)
(* so the module is built from operators on case records.  `stored' is the *)
(* case the store holds; `work' is the copy a request works on.  Worklist  *)
(* acts (claim, start, ...) change one step and are stored at once.  A     *)
(* start or a completion opens a request that drives the markings to their *)
(* fixpoint, node by node as _advance does, and only then stores its copy. *)
(* Whatever ends a request early leaves the stored case as it was.         *)
(***************************************************************************)
EXTENDS ProcessSchema

CONSTANTS
    Orders,       \* the orders in which a schema may list its nodes
    InitialData,  \* start values: sub-process input mapping, or nothing set
    CountBound    \* counters saturate here, above every MaxIterations

VARIABLES
    stored,    \* the case as stored
    work,      \* the copy of the request in flight, = stored when there is none
    busy,      \* a request is in flight
    phase,     \* which sweep of _advance runs: "fire" or "evaluate"
    pos,       \* place in the node order this sweep has reached
    progress,  \* the current pass changed a marking
    repeated,  \* LOOP_ENDs that repeated in this advance
    order,     \* node -> its place in schema.nodes
    refusal    \* why the engine refused the last request, "" when it did not

sweep == <<phase, pos, progress, repeated>>
vars  == <<stored, work, busy, sweep, order, refusal>>

NodeState     == {"NOT_ACTIVATED", "ACTIVATED", "RUNNING", "COMPLETED", "SKIPPED"}
EdgeState     == {"NOT_SIGNALED", "TRUE_SIGNALED", "FALSE_SIGNALED"}
InstanceState == {"NEW", "RUNNING", "COMPLETED"}   \* NEW: not created yet
DetailState   == {"none", "SUSPENDED", "FAILED"}   \* none: no overlay entry

Case == [state       : InstanceState,
         ns          : [Node -> NodeState],
         es          : [Edge -> EdgeState],
         data        : [Element -> Value \cup {NoValue}],
         claimed     : [Node -> Agent \cup {NoAgent}],
         detail      : [Node -> DetailState],
         corrected   : [Node -> SUBSET Element],   \* data_corrected_in_activation
         completions : [Node -> 0..CountBound],    \* node_completions
         iterations  : [LoopEnds -> 0..CountBound],
         round       : [LoopEnds -> SUBSET Element]]
\* `round' is a history variable: what was written since the loop's current
\* round began.  No operation reads it.

ASSUME BoundTypes ==
    /\ \A o \in Orders : o \in [Node -> Nat] /\ \A m, n \in Node : o[m] = o[n] => m = n
    /\ InitialData \subseteq [Element -> Value \cup {NoValue}]
    /\ CountBound \in Nat \ {0}
    /\ \A end \in LoopEnds : MaxIterations[end] < CountBound

Bump(k) == IF k < CountBound THEN k + 1 ELSE k

-----------------------------------------------------------------------------
(***************************************************************************)
(* Marking helpers.                                                        *)
(***************************************************************************)

Unresolved(c, n) == c.ns[n] \in {"NOT_ACTIVATED", "ACTIVATED", "RUNNING"}
Open(c, n)       == n \in Activities /\ c.ns[n] \in {"ACTIVATED", "RUNNING"}

\* Mutant: an XOR split signals all its branches.
SignalOfAll(e, chosen) == "TRUE_SIGNALED"

\* What a completed node signals: an XOR split only its chosen branch TRUE.
SignalOf(e, chosen) ==
    IF e \in ControlEdge /\ TypeOf[e[1]] = "XOR_SPLIT" /\ e[2] # chosen
    THEN "FALSE_SIGNALED" ELSE "TRUE_SIGNALED"

CompleteNode(c, n, chosen) ==
    [c EXCEPT !.ns[n] = "COMPLETED",
              !.es = [e \in Edge |-> IF e[1] = n THEN SignalOf(e, chosen) ELSE @[e]]]

\* Mutant: a skipped step leaves its sync edges unsignalled.
SkipNodeNoSync(c, n) ==
    [c EXCEPT !.ns[n] = "SKIPPED",
              !.es = [e \in Edge |-> IF e[1] = n /\ e \in ControlEdge
                                     THEN "FALSE_SIGNALED" ELSE @[e]]]

SkipNode(c, n) ==
    [c EXCEPT !.ns[n] = "SKIPPED",
              !.es = [e \in Edge |-> IF e[1] = n THEN "FALSE_SIGNALED" ELSE @[e]]]

\* Claim-bound entries of a step; the overlay is the caller's business.
ReleaseClaim(c, n) == [c EXCEPT !.claimed[n] = NoAgent]

\* Everything that belongs to the current activation of a step.
ClearActivation(c, n) == [ReleaseClaim(c, n) EXCEPT !.detail[n] = "none"]

EndCorrections(c, n) == [c EXCEPT !.corrected[n] = {}]

-----------------------------------------------------------------------------
(***************************************************************************)
(* _evaluate_targets: a node whose incoming edges are all signalled is     *)
(* activated or skipped.  A selected node also waits for its sync edges;   *)
(* a skip never does.                                                      *)
(***************************************************************************)

Selected(c, n) ==
    IF TypeOf[n] = "AND_JOIN"
    THEN \A e \in Incoming(n) : c.es[e] = "TRUE_SIGNALED"
    ELSE \E e \in Incoming(n) : c.es[e] = "TRUE_SIGNALED"

\* Mutant: a step ignores its sync edges.
EvaluableUnsynced(c, n) ==
    /\ c.ns[n] = "NOT_ACTIVATED"
    /\ Incoming(n) # {}
    /\ \A e \in Incoming(n) : c.es[e] # "NOT_SIGNALED"

Evaluable(c, n) ==
    /\ c.ns[n] = "NOT_ACTIVATED"
    /\ Incoming(n) # {}
    /\ \A e \in Incoming(n) : c.es[e] # "NOT_SIGNALED"
    /\ Selected(c, n) => \A e \in SyncIncoming(n) : c.es[e] # "NOT_SIGNALED"

EvaluateTarget(c, n) ==
    IF Selected(c, n) THEN [c EXCEPT !.ns[n] = "ACTIVATED"] ELSE SkipNode(c, n)

-----------------------------------------------------------------------------
(***************************************************************************)
(* _fire_activated_node: what an ACTIVATED node does on its own.           *)
(***************************************************************************)

Fireable(c, n) == c.ns[n] = "ACTIVATED" /\ TypeOf[n] # "ACTIVITY"

DecisionValue(c, n) == c.data[Discriminator[n]]

\* The brake counts the body runs behind it: one more than the repetitions.
Repeats(c, end) ==
    /\ DecisionValue(c, end) \in RepeatOn[end]
    /\ MaxIterations[end] # 0 => c.iterations[end] + 2 <= MaxIterations[end]

ResetLoopBlock(c, end) ==
    LET block == LoopBlock(end)
        internal == block \ {end}
    IN  [c EXCEPT !.ns        = [n \in Node |-> IF n \in block THEN "NOT_ACTIVATED" ELSE @[n]],
                  !.es        = [e \in Edge |-> IF e[1] \in internal THEN "NOT_SIGNALED" ELSE @[e]],
                  !.claimed   = [n \in Node |-> IF n \in block THEN NoAgent ELSE @[n]],
                  !.detail    = [n \in Node |-> IF n \in block THEN "none" ELSE @[n]],
                  !.corrected = [n \in Node |-> IF n \in block THEN {} ELSE @[n]],
                  !.round     = [l \in LoopEnds |-> IF l \in block THEN {} ELSE @[l]]]

ResolveLoopEnd(c, end) ==
    IF Repeats(c, end)
    THEN [ResetLoopBlock(c, end) EXCEPT !.iterations[end] = Bump(@)]
    ELSE CompleteNode(c, end, end)

FireNode(c, n) ==
    CASE TypeOf[n] = "END"       -> [c EXCEPT !.ns[n] = "COMPLETED", !.state = "COMPLETED"]
      [] TypeOf[n] = "XOR_SPLIT" -> CompleteNode(c, n, XorTarget[n][DecisionValue(c, n)])
      [] TypeOf[n] = "LOOP_END"  -> ResolveLoopEnd(c, n)
      [] OTHER                   -> CompleteNode(c, n, n)

\* Mutant: no safety net for a loop that repeats without work.
EngineErrorNoNet(c, n, again) ==
    IF TypeOf[n] \in {"XOR_SPLIT", "LOOP_END"} /\ DecisionValue(c, n) = NoValue
    THEN "value-missing" ELSE ""

\* Why firing n raises ExecutionError, "" when it does not.
EngineError(c, n, again) ==
    IF TypeOf[n] \in {"XOR_SPLIT", "LOOP_END"} /\ DecisionValue(c, n) = NoValue
    THEN "value-missing"
    ELSE IF TypeOf[n] = "LOOP_END" /\ n \in again /\ Repeats(c, n)
    THEN "loop-broken"
    ELSE ""

-----------------------------------------------------------------------------
(***************************************************************************)
(* Worklist operations: guard and effect of each engine function.          *)
(***************************************************************************)

\* Mutant: eligible is enough, whoever holds the step.
ClaimableHeld(c, n, a) ==
    /\ c.state = "RUNNING" /\ n \in Activities \ Automatic
    /\ c.ns[n] = "ACTIVATED" /\ a \in StaffRule[n]

Claimable(c, n, a) ==
    /\ c.state = "RUNNING"
    /\ n \in Activities \ Automatic
    /\ c.ns[n] = "ACTIVATED"
    /\ \/ c.claimed[n] = a
       \/ c.claimed[n] = NoAgent /\ a \in StaffRule[n]

ClaimActivity(c, n, a) == [c EXCEPT !.claimed[n] = a]

StartActivity(c, n, a) == [ClaimActivity(c, n, a) EXCEPT !.ns[n] = "RUNNING"]

\* _require_started_owner: started by `a', or startable by `a'; never FAILED.
StartedOwner(c, n, a) ==
    /\ c.detail[n] # "FAILED"
    /\ IF c.ns[n] = "RUNNING" THEN c.claimed[n] = a ELSE Claimable(c, n, a)

Returnable(c, n, a, force) ==
    /\ c.state = "RUNNING" /\ n \in Activities
    /\ c.detail[n] # "FAILED"
    /\ c.claimed[n] # NoAgent
    /\ force \/ c.claimed[n] = a

ReturnActivity(c, n) ==
    [ClearActivation(c, n) EXCEPT !.ns[n] = IF @ = "RUNNING" THEN "ACTIVATED" ELSE @]

Suspendable(c, n, a) ==
    /\ c.state = "RUNNING" /\ n \in Activities
    /\ IF c.detail[n] = "SUSPENDED" THEN c.claimed[n] = a ELSE StartedOwner(c, n, a)

SuspendActivity(c, n, a) == [StartActivity(c, n, a) EXCEPT !.detail[n] = "SUSPENDED"]

Resumable(c, n, a) ==
    /\ c.state = "RUNNING" /\ n \in Activities
    /\ c.detail[n] = "SUSPENDED" /\ c.claimed[n] = a

ResumeActivity(c, n) == [c EXCEPT !.detail[n] = "none"]

Failable(c, n, a) ==
    /\ c.state = "RUNNING" /\ n \in Activities
    /\ c.detail[n] # "SUSPENDED"
    /\ StartedOwner(c, n, a)

FailActivity(c, n, a) == [StartActivity(c, n, a) EXCEPT !.detail[n] = "FAILED"]

Resettable(c, n, a, force) ==
    /\ c.state = "RUNNING" /\ n \in Activities
    /\ c.detail[n] = "FAILED"
    /\ force \/ c.claimed[n] = a

ResetActivity(c, n) == [ClearActivation(c, n) EXCEPT !.ns[n] = "ACTIVATED"]

-----------------------------------------------------------------------------
(***************************************************************************)
(* Data: a correction outside a completion (PUT .../data), and the values  *)
(* a completion brings.                                                    *)
(***************************************************************************)

Written(c, vals) ==
    [c EXCEPT !.data  = [e \in Element |-> IF e \in DOMAIN vals THEN vals[e] ELSE @[e]],
              !.round = [l \in LoopEnds |-> @[l] \cup DOMAIN vals]]

RecordDataCorrection(c, ids) ==
    [c EXCEPT !.corrected = [n \in Node |->
        IF c.ns[n] \in {"ACTIVATED", "RUNNING"} THEN @[n] \cup (ids \cap Writes[n]) ELSE @[n]]]

CorrectData(c, vals) == Written(RecordDataCorrection(c, DOMAIN vals), vals)

\* Mutant: every activation counts as the first.
IsRepeatedActivationNever(c, n) == FALSE

IsRepeatedActivation(c, n) == c.completions[n] >= 1

\* completion_value_findings (D1): in its first activation every stored value
\* supplies a step, in a repetition only what this activation brought.
MandatorySupplied(c, n, vals) ==
    \A e \in Mandatory[n] \ DOMAIN vals :
        /\ c.data[e] # NoValue
        /\ IsRepeatedActivation(c, n) => e \in c.corrected[n]

\* `a' is NoAgent for supervision and for the external system.
Completable(c, n, a, vals) ==
    /\ c.state = "RUNNING"
    /\ Open(c, n)
    /\ a # NoAgent => a \in StaffRule[n]
    /\ c.claimed[n] \in {NoAgent, a}
    /\ c.detail[n] = "none"
    /\ MandatorySupplied(c, n, vals)

CompleteActivity(c, n, vals) ==
    LET done == EndCorrections(ReleaseClaim(c, n), n)
    IN  CompleteNode(Written([done EXCEPT !.completions[n] = Bump(@)], vals), n, n)

-----------------------------------------------------------------------------
(***************************************************************************)
(* The state machine.                                                      *)
(***************************************************************************)

NewCase(data) ==
    [state       |-> "NEW",
     ns          |-> [n \in Node |-> "NOT_ACTIVATED"],
     es          |-> [e \in Edge |-> "NOT_SIGNALED"],
     data        |-> data,
     claimed     |-> [n \in Node |-> NoAgent],
     detail      |-> [n \in Node |-> "none"],
     corrected   |-> [n \in Node |-> {}],
     completions |-> [n \in Node |-> 0],
     iterations  |-> [l \in LoopEnds |-> 0],
     round       |-> [l \in LoopEnds |-> {}]]

SweepStart == phase = "fire" /\ pos = 0 /\ progress = FALSE /\ repeated = {}

Init ==
    /\ stored \in {NewCase(data) : data \in InitialData}
    /\ work = stored
    /\ busy = FALSE
    /\ SweepStart
    /\ order \in Orders
    /\ refusal = ""

\* A request that changes one step and is stored in the same unit of work.
Store(c) ==
    /\ stored' = c /\ work' = c /\ refusal' = ""
    /\ UNCHANGED <<busy, sweep, order>>

\* A request that advances the markings: it works on the copy c.
OpenRequest(c) ==
    /\ work' = c /\ busy' = TRUE /\ refusal' = ""
    /\ UNCHANGED <<stored, sweep, order>>

\* The request ends; the next one starts its sweeps from the beginning.
Answer(why) ==
    /\ busy' = FALSE /\ refusal' = why
    /\ phase' = "fire" /\ pos' = 0 /\ progress' = FALSE /\ repeated' = {}
    /\ UNCHANGED order

Instantiate ==
    /\ ~busy /\ stored.state = "NEW"
    /\ OpenRequest([stored EXCEPT !.state = "RUNNING",
                            !.ns = [n \in Node |-> IF TypeOf[n] = "START"
                                                   THEN "ACTIVATED" ELSE @[n]]])

Claim(n, a)   == ~busy /\ Claimable(stored, n, a) /\ Store(ClaimActivity(stored, n, a))
Start(n, a)   == ~busy /\ Claimable(stored, n, a) /\ Store(StartActivity(stored, n, a))
Suspend(n, a) == ~busy /\ Suspendable(stored, n, a) /\ Store(SuspendActivity(stored, n, a))
Resume(n, a)  == ~busy /\ Resumable(stored, n, a) /\ Store(ResumeActivity(stored, n))
Fail(n, a)    == ~busy /\ Failable(stored, n, a) /\ Store(FailActivity(stored, n, a))

Return(n, a) == \E force \in BOOLEAN :
    ~busy /\ Returnable(stored, n, a, force) /\ Store(ReturnActivity(stored, n))

Reset(n, a) == \E force \in BOOLEAN :
    ~busy /\ Resettable(stored, n, a, force) /\ Store(ResetActivity(stored, n))

\* One element at a time: a correction of several is the same in any order.
Correct(e, v) ==
    ~busy /\ stored.state = "RUNNING" /\ Store(CorrectData(stored, [x \in {e} |-> v]))

Complete(n, a) == \E S \in SUBSET Writes[n] : \E vals \in [S -> Value] :
    ~busy /\ Completable(stored, n, a, vals) /\ OpenRequest(CompleteActivity(stored, n, vals))

(***************************************************************************)
(* _advance.  A pass fires the ACTIVATED nodes in schema order and then    *)
(* evaluates the NOT_ACTIVATED ones in schema order; passes repeat until   *)
(* one changes nothing.  One step handles the next node that has anything  *)
(* to do.                                                                  *)
(***************************************************************************)

Ready(c, n) == IF phase = "fire" THEN Fireable(c, n) ELSE Evaluable(c, n)

NextInSweep(n) ==
    /\ order[n] >= pos /\ Ready(work, n)
    /\ \A m \in Node : order[m] >= pos /\ Ready(work, m) => order[n] <= order[m]

SweepDone == \A n \in Node : order[n] >= pos => ~Ready(work, n)

Fire(n) ==
    /\ busy /\ phase = "fire" /\ NextInSweep(n)
    /\ EngineError(work, n, repeated) = ""
    /\ work' = FireNode(work, n)
    /\ repeated' = IF TypeOf[n] = "LOOP_END" /\ Repeats(work, n)
                   THEN repeated \cup {n} ELSE repeated
    /\ pos' = order[n] + 1 /\ progress' = TRUE
    /\ UNCHANGED <<stored, busy, phase, order, refusal>>

Evaluate(n) ==
    /\ busy /\ phase = "evaluate" /\ NextInSweep(n)
    /\ work' = EvaluateTarget(work, n)
    /\ pos' = order[n] + 1 /\ progress' = TRUE
    /\ UNCHANGED <<stored, busy, phase, repeated, order, refusal>>

EndFirePhase ==
    /\ busy /\ phase = "fire" /\ SweepDone
    /\ phase' = "evaluate" /\ pos' = 0
    /\ UNCHANGED <<stored, work, busy, progress, repeated, order, refusal>>

NextPass ==
    /\ busy /\ phase = "evaluate" /\ SweepDone /\ progress
    /\ phase' = "fire" /\ pos' = 0 /\ progress' = FALSE
    /\ UNCHANGED <<stored, work, busy, repeated, order, refusal>>

\* The fixpoint is reached: the unit of work commits the copy.
Commit ==
    /\ busy /\ phase = "evaluate" /\ SweepDone /\ ~progress
    /\ stored' = work
    /\ UNCHANGED work
    /\ Answer("")

\* ExecutionError: 409, the copy is dropped.
Refuse(n) ==
    /\ busy /\ phase = "fire" /\ NextInSweep(n)
    /\ EngineError(work, n, repeated) # ""
    /\ work' = stored
    /\ UNCHANGED stored
    /\ Answer(EngineError(work, n, repeated))

\* Crash, lost connection, failed commit: the unit of work is rolled back.
RollBack == busy /\ work' = stored /\ UNCHANGED stored /\ Answer("")

Advance == (\E n \in Node : Fire(n) \/ Evaluate(n) \/ Refuse(n))
           \/ EndFirePhase \/ NextPass \/ Commit

WorklistAct(n, a) ==
    Claim(n, a) \/ Start(n, a) \/ Suspend(n, a) \/ Resume(n, a) \/ Fail(n, a)

Next ==
    \/ Instantiate
    \/ \E n \in Activities, a \in Agent : WorklistAct(n, a) \/ Return(n, a) \/ Reset(n, a)
    \/ \E n \in Activities, a \in Agent \cup {NoAgent} : Complete(n, a)
    \/ \E e \in Element, v \in Value : Correct(e, v)
    \/ Advance
    \/ RollBack

Spec == Init /\ [][Next]_vars

\* The server's thread keeps running the request it has begun.
FairSpec == Spec /\ WF_vars(Advance)

-----------------------------------------------------------------------------
(***************************************************************************)
(* Properties.                                                             *)
(***************************************************************************)

\* Every variable holds a value of its type.
TypeOK ==
    /\ stored \in Case /\ work \in Case
    /\ busy \in BOOLEAN /\ progress \in BOOLEAN
    /\ phase \in {"fire", "evaluate"} /\ pos \in Nat
    /\ repeated \subseteq LoopEnds
    /\ order \in Orders
    /\ refusal \in {"", "value-missing", "loop-broken"}

\* Ownership, overlay and corrections belong to one activation of a step: a
\* claim, a RUNNING marking, a SUSPENDED/FAILED overlay and a correction record
\* never outlive it or precede it (claimed_by, node_details and
\* data_corrected_in_activation in execution.py, W1-W4, V1-V4).
TracesOfActivation(c) ==
    \A n \in Node :
        /\ c.claimed[n] # NoAgent => Open(c, n) /\ n \notin Automatic
        /\ c.ns[n] = "RUNNING" => c.claimed[n] # NoAgent
        /\ c.detail[n] # "none" => c.ns[n] = "RUNNING"
        /\ n \in Activities /\ c.corrected[n] # {} => Open(c, n)

TracesBelongToActivation == TracesOfActivation(stored) /\ TracesOfActivation(work)

\* A node has signalled its outgoing edges, sync edges included, exactly when
\* it is completed or skipped -- also across the repetitions of a loop
\* (_complete_node, _skip_node, _reset_loop_block).
SignalsMatchNodes(c) ==
    \A e \in Edge : c.es[e] = "NOT_SIGNALED" <=> Unresolved(c, e[1])

MarkingsConsistent == SignalsMatchNodes(stored) /\ SignalsMatchNodes(work)

\* An AND join never sees one branch taken and another skipped, and an XOR join
\* never more than one taken (K1 nesting as _evaluate_targets relies on it).
TakenInto(c, n) == {e \in Incoming(n) : c.es[e] = "TRUE_SIGNALED"}
JoinAgrees(c, n) ==
    (\A e \in Incoming(n) : c.es[e] # "NOT_SIGNALED") =>
        IF TypeOf[n] = "AND_JOIN"
        THEN TakenInto(c, n) \in {{}, Incoming(n)}
        ELSE Cardinality(TakenInto(c, n)) <= 1
JoinsAgree == \A n \in NodesOfType("AND_JOIN") \cup NodesOfType("XOR_JOIN") :
                  JoinAgrees(work, n)

\* A stored case that still runs has a step somebody can work on: _advance never
\* leaves a case behind that nothing can move (K2, K4).
NoStuckCase == stored.state = "RUNNING" => \E n \in Activities : Open(stored, n)

\* A completed case has nothing left open: every node was executed or skipped
\* and nobody holds a step of it.
ProperCompletion ==
    stored.state = "COMPLETED" =>
        \A n \in Node : ~Unresolved(stored, n) /\ stored.claimed[n] = NoAgent

\* The engine never refuses to advance a case of a valid schema: every decision
\* finds its value, and no loop end repeats twice in one request (EX.value-missing,
\* EX.loop-broken "impossible on a K6-valid model", execution.py _advance).
NoEngineRefusal == refusal = "" \/ (refusal = "loop-broken" /\ ~K6Closed)

\* A case is sound: its joins agree on what they were reached by, it never rests with
\* nothing to work on, ends with nothing left open, and is never refused its advance.
CaseSound == JoinsAgree /\ NoStuckCase /\ ProperCompletion /\ NoEngineRefusal

\* A step that ran before wrote its mandatory elements anew in the loop's current
\* round when it completed (completion_value_findings, record_data_correction).
RepeatedStepWritesAfresh ==
    \A end \in LoopEnds : \A n \in Body[end] :
        work.ns[n] = "COMPLETED" /\ work.completions[n] >= 2
            => Mandatory[n] \subseteq work.round[end]

\* A step becomes ready only when the source of each of its sync edges is
\* completed or skipped (K4).
SyncRespected ==
    [][\A e \in SyncEdge :
          busy' /\ work.ns[e[2]] = "NOT_ACTIVATED" /\ work'.ns[e[2]] = "ACTIVATED"
              => ~Unresolved(work, e[1])]_vars

\* A step is never handed from one owner to another: between two owners it was
\* on offer (W1).
ClaimNotTakenOver ==
    [][\A n \in Node : stored.claimed[n] # NoAgent
          => stored'.claimed[n] \in {stored.claimed[n], NoAgent}]_vars

\* Who works on a step: only its activation has an owner, and no step changes hands
\* without having been on offer in between (claim, return, supervision, repetition).
OwnershipKept == []TracesBelongToActivation /\ ClaimNotTakenOver

\* Every request that advances a case is answered: the fixpoint of _advance
\* terminates, on a model that is not block-structured as well.
RequestReturns == busy ~> ~busy

=============================================================================
