------------------------ MODULE CaseExecutionProofs ------------------------
(***************************************************************************)
(* Theorems about CaseExecution, for every schema that satisfies the       *)
(* assumptions of ProcessSchema and every order of its nodes.              *)
(***************************************************************************)
EXTENDS CaseExecution, FiniteSetTheorems, WellFoundedInduction, TLAPS

-----------------------------------------------------------------------------
(***************************************************************************)
(* Types.  Each operator on cases maps a case to a case.                   *)
(***************************************************************************)

LEMMA BumpType == \A k \in 0..CountBound : Bump(k) \in 0..CountBound
  BY BoundTypes DEF Bump

LEMMA CompleteNodeType ==
  ASSUME NEW c \in Case, NEW n \in Node, NEW chosen
  PROVE  CompleteNode(c, n, chosen) \in Case
  BY DEF CompleteNode, SignalOf, Case, NodeState, EdgeState

LEMMA SkipNodeType ==
  ASSUME NEW c \in Case, NEW n \in Node
  PROVE  SkipNode(c, n) \in Case
  BY DEF SkipNode, Case, NodeState, EdgeState

LEMMA EvaluateType ==
  ASSUME NEW c \in Case, NEW n \in Node
  PROVE  EvaluateTarget(c, n) \in Case
  <1>1. [c EXCEPT !.ns[n] = "ACTIVATED"] \in Case
    BY DEF Case, NodeState
  <1>2. QED
    BY <1>1, SkipNodeType DEF EvaluateTarget

LEMMA ResetLoopBlockType ==
  ASSUME NEW c \in Case, NEW end \in LoopEnds
  PROVE  ResetLoopBlock(c, end) \in Case
  BY DEF ResetLoopBlock, Case, NodeState, EdgeState, DetailState

LEMMA FireNodeType ==
  ASSUME NEW c \in Case, NEW n \in Node
  PROVE  FireNode(c, n) \in Case
  <1>1. CASE TypeOf[n] = "END"
    BY <1>1 DEF FireNode, Case, NodeState, InstanceState
  <1>2. CASE TypeOf[n] = "LOOP_END"
    <2>1. n \in LoopEnds
      BY <1>2 DEF LoopEnds, NodesOfType
    <2>2. ResetLoopBlock(c, n) \in Case
      BY <2>1, ResetLoopBlockType
    <2>3. [ResetLoopBlock(c, n) EXCEPT !.iterations[n] = Bump(@)] \in Case
      <3> DEFINE r == ResetLoopBlock(c, n)
      <3>1. r.iterations[n] \in 0..CountBound
        BY <2>1, <2>2 DEF Case
      <3>2. Bump(r.iterations[n]) \in 0..CountBound
        BY <3>1, BumpType
      <3> HIDE DEF r
      <3>3. r \in Case
        BY <2>2 DEF r
      <3>4. [r EXCEPT !.iterations[n] = Bump(@)] \in Case
        BY <3>2, <3>3 DEF Case
      <3>5. QED
        BY <3>4 DEF r
    <2>4. CompleteNode(c, n, n) \in Case
      BY CompleteNodeType
    <2>5. QED
      BY <1>2, <2>3, <2>4 DEF FireNode, ResolveLoopEnd
  <1>3. CASE TypeOf[n] \notin {"END", "LOOP_END"}
    BY <1>3, CompleteNodeType DEF FireNode
  <1>4. QED
    BY <1>1, <1>2, <1>3

LEMMA WorklistOpTypes ==
  ASSUME NEW c \in Case, NEW n \in Node, NEW a \in Agent
  PROVE  /\ ClaimActivity(c, n, a) \in Case
         /\ StartActivity(c, n, a) \in Case
         /\ SuspendActivity(c, n, a) \in Case
         /\ FailActivity(c, n, a) \in Case
         /\ ResumeActivity(c, n) \in Case
         /\ ReturnActivity(c, n) \in Case
         /\ ResetActivity(c, n) \in Case
  <1>1. ClaimActivity(c, n, a) \in Case
    BY DEF ClaimActivity, Case
  <1>2. StartActivity(c, n, a) \in Case
    BY <1>1 DEF StartActivity, Case, NodeState
  <1>3. SuspendActivity(c, n, a) \in Case /\ FailActivity(c, n, a) \in Case
    BY <1>2 DEF SuspendActivity, FailActivity, Case, DetailState
  <1>4. ResumeActivity(c, n) \in Case
    BY DEF ResumeActivity, Case, DetailState
  <1>5. ClearActivation(c, n) \in Case
    BY DEF ClearActivation, ReleaseClaim, Case, DetailState
  <1>6. ReturnActivity(c, n) \in Case /\ ResetActivity(c, n) \in Case
    BY <1>5 DEF ReturnActivity, ResetActivity, Case, NodeState
  <1>7. QED
    BY <1>1, <1>2, <1>3, <1>4, <1>6

LEMMA WrittenType ==
  ASSUME NEW c \in Case, NEW S \in SUBSET Element, NEW vals \in [S -> Value]
  PROVE  Written(c, vals) \in Case
  BY DEF Written, Case

LEMMA CorrectDataType ==
  ASSUME NEW c \in Case, NEW S \in SUBSET Element, NEW vals \in [S -> Value]
  PROVE  CorrectData(c, vals) \in Case
  <1>1. RecordDataCorrection(c, DOMAIN vals) \in Case
    BY SchemaTypes DEF RecordDataCorrection, Case
  <1>2. QED
    BY <1>1, WrittenType DEF CorrectData

LEMMA CompleteActivityType ==
  ASSUME NEW c \in Case, NEW n \in Node, NEW S \in SUBSET Element, NEW vals \in [S -> Value]
  PROVE  CompleteActivity(c, n, vals) \in Case
  <1> DEFINE done == EndCorrections(ReleaseClaim(c, n), n)
  <1>1. done \in Case
    BY DEF EndCorrections, ReleaseClaim, Case
  <1> HIDE DEF done
  <1>2. done.completions[n] \in 0..CountBound
    BY <1>1 DEF Case
  <1>3. [done EXCEPT !.completions[n] = Bump(@)] \in Case
    BY <1>1, <1>2, BumpType DEF Case
  <1>4. QED
    BY <1>3, WrittenType, CompleteNodeType DEF CompleteActivity, done

LEMMA NewCaseType ==
  ASSUME NEW data \in InitialData
  PROVE  NewCase(data) \in Case
  BY BoundTypes DEF NewCase, Case, InstanceState, NodeState, EdgeState, DetailState

\* The engine's answer to a request that fires n.
LEMMA EngineErrorType ==
  ASSUME NEW c, NEW n, NEW again
  PROVE  EngineError(c, n, again) \in {"", "value-missing", "loop-broken"}
  BY DEF EngineError

LEMMA ZeroIsNat == 0 \in Nat
  OBVIOUS

\* A place in the schema's node order, and the place behind it.
LEMMA PlaceType ==
  ASSUME NEW o \in Orders, NEW n \in Node
  PROVE  o[n] \in Nat /\ o[n] + 1 \in Nat
  <1>1. o \in [Node -> Nat]
    BY BoundTypes
  <1>2. QED
    BY <1>1

(***************************************************************************)
(* Type correctness of the state machine.                                  *)
(***************************************************************************)
LEMMA TypeStep == TypeOK /\ [Next]_vars => TypeOK'
  <1> SUFFICES ASSUME TypeOK, [Next]_vars
               PROVE  TypeOK'
    OBVIOUS
  <1>1. CASE Instantiate
    <2>1. work' \in Case
      BY <1>1 DEF Instantiate, OpenRequest, TypeOK, Case, NodeState, InstanceState
    <2>2. QED
      BY <1>1, <2>1 DEF Instantiate, OpenRequest, TypeOK, sweep
  <1>2. ASSUME NEW n \in Activities, NEW a \in Agent,
               WorklistAct(n, a) \/ Return(n, a) \/ Reset(n, a)
        PROVE  TypeOK'
    <2>1. n \in Node
      BY DEF Activities, NodesOfType
    <2>2. /\ ClaimActivity(stored, n, a) \in Case
          /\ StartActivity(stored, n, a) \in Case
          /\ SuspendActivity(stored, n, a) \in Case
          /\ FailActivity(stored, n, a) \in Case
          /\ ResumeActivity(stored, n) \in Case
          /\ ReturnActivity(stored, n) \in Case
          /\ ResetActivity(stored, n) \in Case
      BY <2>1, WorklistOpTypes DEF TypeOK
    <2>3. ASSUME NEW c \in Case, Store(c)
          PROVE  TypeOK'
      BY <2>3 DEF Store, TypeOK, sweep
    <2>4. QED
      BY <1>2, <2>2, <2>3 DEF WorklistAct, Claim, Start, Suspend, Resume, Fail, Return, Reset
  <1>3. ASSUME NEW n \in Activities, NEW a \in Agent \cup {NoAgent}, Complete(n, a)
        PROVE  TypeOK'
    <2>1. PICK S \in SUBSET Writes[n] : \E vals \in [S -> Value] :
              OpenRequest(CompleteActivity(stored, n, vals))
      BY <1>3 DEF Complete
    <2>2. PICK vals \in [S -> Value] : OpenRequest(CompleteActivity(stored, n, vals))
      BY <2>1
    <2>3. n \in Node /\ S \in SUBSET Element
      BY SchemaTypes DEF Activities, NodesOfType
    <2>4. work' \in Case
      BY <2>2, <2>3, CompleteActivityType DEF OpenRequest, TypeOK
    <2>5. QED
      BY <2>2, <2>4 DEF OpenRequest, TypeOK, sweep
  <1>4. ASSUME NEW e \in Element, NEW v \in Value, Correct(e, v)
        PROVE  TypeOK'
    <2>1. CorrectData(stored, [x \in {e} |-> v]) \in Case
      BY CorrectDataType DEF TypeOK
    <2>2. QED
      BY <1>4, <2>1 DEF Correct, Store, TypeOK, sweep
  <1>5. ASSUME NEW n \in Node, Fire(n)
        PROVE  TypeOK'
    <2>1. work' \in Case
      BY <1>5, FireNodeType DEF Fire, TypeOK
    <2>2. repeated' \subseteq LoopEnds
      BY <1>5 DEF Fire, TypeOK, LoopEnds, NodesOfType
    <2>3. pos' \in Nat
      BY <1>5, PlaceType DEF Fire, TypeOK
    <2>4. QED
      BY <1>5, <2>1, <2>2, <2>3 DEF Fire, TypeOK
  <1>6. ASSUME NEW n \in Node, Evaluate(n)
        PROVE  TypeOK'
    <2>1. work' \in Case
      BY <1>6, EvaluateType DEF Evaluate, TypeOK
    <2>2. pos' \in Nat
      BY <1>6, PlaceType DEF Evaluate, TypeOK
    <2>3. QED
      BY <1>6, <2>1, <2>2 DEF Evaluate, TypeOK
  <1>7. ASSUME NEW n \in Node, Refuse(n)
        PROVE  TypeOK'
    BY <1>7, EngineErrorType DEF Refuse, Answer, TypeOK
  <1>8. CASE EndFirePhase \/ NextPass
    BY <1>8, ZeroIsNat DEF EndFirePhase, NextPass, TypeOK
  <1>9. CASE Commit \/ RollBack
    BY <1>9, ZeroIsNat DEF Commit, RollBack, Answer, TypeOK
  <1>10. CASE UNCHANGED vars
    BY <1>10 DEF vars, sweep, TypeOK
  <1>11. QED
    BY <1>1, <1>2, <1>3, <1>4, <1>5, <1>6, <1>7, <1>8, <1>9, <1>10 DEF Next, Advance

\* Every reachable state of every case is well-typed, whatever the schema.
THEOREM TypeCorrect == Spec => []TypeOK
  <1>1. Init => TypeOK
    BY NewCaseType, ZeroIsNat DEF Init, SweepStart, TypeOK
  <1>2. QED
    BY <1>1, TypeStep, PTL DEF Spec

-----------------------------------------------------------------------------
(***************************************************************************)
(* Traces of an activation.  TracesOfActivation is inductive as it stands: *)
(* a step's claim, overlay and corrections are set only while it is open   *)
(* and are gone when it completes, is returned, is reset or its loop       *)
(* repeats.                                                                *)
(***************************************************************************)

LEMMA ActivityIsNode == \A n \in Activities : n \in Node /\ TypeOf[n] = "ACTIVITY"
  BY DEF Activities, NodesOfType

LEMMA TracesComplete ==
  ASSUME NEW c \in Case, NEW n \in Node, NEW chosen, TracesOfActivation(c),
         c.claimed[n] = NoAgent, c.detail[n] = "none",
         n \in Activities => c.corrected[n] = {}
  PROVE  TracesOfActivation(CompleteNode(c, n, chosen))
  BY DEF TracesOfActivation, CompleteNode, Open, Case

LEMMA TracesEvaluate ==
  ASSUME NEW c \in Case, NEW n \in Node, TracesOfActivation(c), Evaluable(c, n)
  PROVE  TracesOfActivation(EvaluateTarget(c, n))
  BY DEF TracesOfActivation, EvaluateTarget, SkipNode, Evaluable, Open, Case

LEMMA TracesReset ==
  ASSUME NEW c \in Case, NEW end \in LoopEnds, TracesOfActivation(c)
  PROVE  TracesOfActivation(ResetLoopBlock(c, end))
  BY DEF TracesOfActivation, ResetLoopBlock, Open, Case

LEMMA TracesFire ==
  ASSUME NEW c \in Case, NEW n \in Node, TracesOfActivation(c), Fireable(c, n)
  PROVE  TracesOfActivation(FireNode(c, n))
  <1>1. n \notin Activities /\ c.ns[n] = "ACTIVATED"
    BY DEF Fireable, Activities, NodesOfType
  <1>2. c.claimed[n] = NoAgent /\ c.detail[n] = "none"
    BY <1>1 DEF TracesOfActivation, Open, Case, DetailState
  <1>3. \A chosen : TracesOfActivation(CompleteNode(c, n, chosen))
    BY <1>1, <1>2, TracesComplete
  <1>4. CASE TypeOf[n] = "END"
    BY <1>1, <1>2, <1>4 DEF FireNode, TracesOfActivation, Open, Case
  <1>5. CASE TypeOf[n] = "LOOP_END"
    <2>1. n \in LoopEnds
      BY <1>5 DEF LoopEnds, NodesOfType
    <2> DEFINE r == ResetLoopBlock(c, n)
    <2>2. r \in Case /\ TracesOfActivation(r)
      BY <2>1, ResetLoopBlockType, TracesReset
    <2> HIDE DEF r
    <2>3. TracesOfActivation([r EXCEPT !.iterations[n] = Bump(@)])
      BY <2>2 DEF TracesOfActivation, Open, Case
    <2>4. QED
      BY <1>3, <1>5, <2>3 DEF FireNode, ResolveLoopEnd, r
  <1>6. CASE TypeOf[n] \notin {"END", "LOOP_END"}
    BY <1>3, <1>6 DEF FireNode
  <1>7. QED
    BY <1>4, <1>5, <1>6

\* Starting, suspending and failing leave the step running under the actor.
LEMMA TracesStart ==
  ASSUME NEW c \in Case, NEW n \in Activities \ Automatic, NEW a \in Agent,
         TracesOfActivation(c),
         NEW d \in DetailState
  PROVE  TracesOfActivation([StartActivity(c, n, a) EXCEPT !.detail[n] = d])
  BY SchemaTypes, ActivityIsNode
     DEF TracesOfActivation, StartActivity, ClaimActivity, Open, Case, DetailState

LEMMA StartedOwnerNotAutomatic ==
  ASSUME NEW c \in Case, NEW n \in Activities, NEW a \in Agent, TracesOfActivation(c),
         StartedOwner(c, n, a)
  PROVE  n \notin Automatic
  BY SchemaTypes, ActivityIsNode DEF StartedOwner, Claimable, TracesOfActivation

LEMMA TracesWorklistActs ==
  ASSUME NEW c \in Case, NEW n \in Activities, NEW a \in Agent, TracesOfActivation(c)
  PROVE  /\ Claimable(c, n, a) => TracesOfActivation(ClaimActivity(c, n, a))
         /\ Claimable(c, n, a) => TracesOfActivation(StartActivity(c, n, a))
         /\ Suspendable(c, n, a) => TracesOfActivation(SuspendActivity(c, n, a))
         /\ Failable(c, n, a) => TracesOfActivation(FailActivity(c, n, a))
         /\ Resumable(c, n, a) => TracesOfActivation(ResumeActivity(c, n))
  <1>1. n \in Node /\ a # NoAgent
    BY SchemaTypes, ActivityIsNode
  <1>2. ASSUME Claimable(c, n, a)
        PROVE  TracesOfActivation(ClaimActivity(c, n, a))
    BY <1>1, <1>2 DEF Claimable, TracesOfActivation, ClaimActivity, Open, Case
  <1>3. ASSUME Claimable(c, n, a)
        PROVE  TracesOfActivation(StartActivity(c, n, a))
    BY <1>1, <1>3
       DEF Claimable, TracesOfActivation, StartActivity, ClaimActivity, Open, Case
  <1>4. ASSUME Suspendable(c, n, a)
        PROVE  TracesOfActivation(SuspendActivity(c, n, a))
    <2>1. n \notin Automatic
      BY <1>1, <1>4, StartedOwnerNotAutomatic DEF Suspendable, TracesOfActivation
    <2>2. QED
      BY <2>1, TracesStart DEF SuspendActivity, DetailState
  <1>5. ASSUME Failable(c, n, a)
        PROVE  TracesOfActivation(FailActivity(c, n, a))
    <2>1. n \notin Automatic
      BY <1>5, StartedOwnerNotAutomatic DEF Failable
    <2>2. QED
      BY <2>1, TracesStart DEF FailActivity, DetailState
  <1>6. TracesOfActivation(ResumeActivity(c, n))
    BY <1>1 DEF TracesOfActivation, ResumeActivity, Open, Case
  <1>7. QED
    BY <1>2, <1>3, <1>4, <1>5, <1>6

LEMMA TracesGiveBack ==
  ASSUME NEW c \in Case, NEW n \in Activities, TracesOfActivation(c)
  PROVE  /\ TracesOfActivation(ReturnActivity(c, n))
         /\ c.detail[n] = "FAILED" => TracesOfActivation(ResetActivity(c, n))
  <1>1. n \in Node
    BY ActivityIsNode
  <1>2. TracesOfActivation(ReturnActivity(c, n))
    BY <1>1 DEF TracesOfActivation, ReturnActivity, ClearActivation, ReleaseClaim, Open, Case
  <1>3. ASSUME c.detail[n] = "FAILED"
        PROVE  TracesOfActivation(ResetActivity(c, n))
    BY <1>1, <1>3
       DEF TracesOfActivation, ResetActivity, ClearActivation, ReleaseClaim, Open, Case
  <1>4. QED
    BY <1>2, <1>3

LEMMA TracesWritten ==
  ASSUME NEW c \in Case, NEW vals, TracesOfActivation(c)
  PROVE  TracesOfActivation(Written(c, vals))
  BY DEF TracesOfActivation, Written, Open, Case

LEMMA TracesCorrect ==
  ASSUME NEW c \in Case, NEW S \in SUBSET Element, NEW vals \in [S -> Value],
         TracesOfActivation(c)
  PROVE  TracesOfActivation(CorrectData(c, vals))
  <1>1. TracesOfActivation(RecordDataCorrection(c, DOMAIN vals))
    BY ActivityIsNode DEF TracesOfActivation, RecordDataCorrection, Open, Case
  <1>2. RecordDataCorrection(c, DOMAIN vals) \in Case
    BY SchemaTypes DEF RecordDataCorrection, Case
  <1>3. QED
    BY <1>1, <1>2, TracesWritten DEF CorrectData

LEMMA TracesCompleteActivity ==
  ASSUME NEW c \in Case, NEW n \in Activities, NEW S \in SUBSET Element,
         NEW vals \in [S -> Value], TracesOfActivation(c), c.detail[n] = "none"
  PROVE  TracesOfActivation(CompleteActivity(c, n, vals))
  BY ActivityIsNode
     DEF TracesOfActivation, CompleteActivity, CompleteNode, Written,
         EndCorrections, ReleaseClaim, Open, Case

LEMMA TracesNewCase ==
  \A data : TracesOfActivation(NewCase(data))
  BY DEF NewCase, TracesOfActivation

LEMMA TracesInstantiate ==
  ASSUME NEW c \in Case, TracesOfActivation(c)
  PROVE  LET started == [c EXCEPT !.state = "RUNNING",
                                  !.ns = [n \in Node |-> IF TypeOf[n] = "START"
                                                         THEN "ACTIVATED" ELSE @[n]]]
         IN  TracesOfActivation(started)
  BY ActivityIsNode DEF TracesOfActivation, Open, Case

\* One step of the machine keeps both copies of the case clean.
LEMMA TracesStep ==
  TypeOK /\ TracesBelongToActivation /\ [Next]_vars => TracesBelongToActivation'
  <1> SUFFICES ASSUME TypeOK, TracesBelongToActivation, [Next]_vars
               PROVE  TracesBelongToActivation'
    OBVIOUS
  <1> USE DEF TracesBelongToActivation
  <1>0. stored \in Case /\ work \in Case
    BY DEF TypeOK
  <1>1. CASE Instantiate
    BY <1>0, <1>1, TracesInstantiate DEF Instantiate, OpenRequest
  <1>2. ASSUME NEW n \in Activities, NEW a \in Agent, WorklistAct(n, a)
        PROVE  TracesBelongToActivation'
    BY <1>0, <1>2, TracesWorklistActs
       DEF WorklistAct, Claim, Start, Suspend, Resume, Fail, Store
  <1>3. ASSUME NEW n \in Activities, NEW a \in Agent, Return(n, a) \/ Reset(n, a)
        PROVE  TracesBelongToActivation'
    BY <1>0, <1>3, TracesGiveBack DEF Return, Reset, Resettable, Store
  <1>4. ASSUME NEW n \in Activities, NEW a \in Agent \cup {NoAgent}, Complete(n, a)
        PROVE  TracesBelongToActivation'
    <2>1. PICK S \in SUBSET Writes[n] :
            \E vals \in [S -> Value] :
               /\ Completable(stored, n, a, vals)
               /\ OpenRequest(CompleteActivity(stored, n, vals))
      BY <1>4 DEF Complete
    <2>2. PICK vals \in [S -> Value] :
               /\ Completable(stored, n, a, vals)
               /\ OpenRequest(CompleteActivity(stored, n, vals))
      BY <2>1
    <2>3. S \in SUBSET Element
      BY <2>1, SchemaTypes, ActivityIsNode
    <2>4. TracesOfActivation(CompleteActivity(stored, n, vals))
      BY <1>0, <2>2, <2>3, TracesCompleteActivity DEF Completable
    <2>5. QED
      BY <2>2, <2>4 DEF OpenRequest
  <1>5. ASSUME NEW e \in Element, NEW v \in Value, Correct(e, v)
        PROVE  TracesBelongToActivation'
    <2>1. {e} \in SUBSET Element /\ [x \in {e} |-> v] \in [{e} -> Value]
      OBVIOUS
    <2>2. TracesOfActivation(CorrectData(stored, [x \in {e} |-> v]))
      BY <1>0, <2>1, TracesCorrect
    <2>3. QED
      BY <1>5, <2>2 DEF Correct, Store
  <1>6. ASSUME NEW n \in Node, Fire(n)
        PROVE  TracesBelongToActivation'
    BY <1>0, <1>6, TracesFire DEF Fire, NextInSweep, Ready
  <1>7. ASSUME NEW n \in Node, Evaluate(n)
        PROVE  TracesBelongToActivation'
    BY <1>0, <1>7, TracesEvaluate DEF Evaluate, NextInSweep, Ready
  <1>8. CASE EndFirePhase \/ NextPass \/ Commit \/ RollBack \/ \E n \in Node : Refuse(n)
    BY <1>8 DEF EndFirePhase, NextPass, Commit, RollBack, Refuse
  <1>9. CASE UNCHANGED vars
    BY <1>9 DEF vars
  <1>10. QED
    BY <1>1, <1>2, <1>3, <1>4, <1>5, <1>6, <1>7, <1>8, <1>9 DEF Next, Advance

\* No claim, RUNNING marking, overlay or correction record outlives or precedes
\* the activation it belongs to, on any schema and through any loop.
THEOREM TracesCorrectOnEverySchema == Spec => []TracesBelongToActivation
  <1>1. Init => TracesBelongToActivation
    BY TracesNewCase DEF Init, TracesBelongToActivation
  <1>2. QED
    BY <1>1, TypeCorrect, TracesStep, PTL DEF Spec

-----------------------------------------------------------------------------
(***************************************************************************)
(* Markings.  An edge is signalled exactly when its source is resolved.    *)
(* The step back of a loop keeps this because an ACTIVATED loop end has    *)
(* signalled nothing yet; END keeps it because K2 gives it no successor.   *)
(* Suspending and resetting rely on the traces theorem: an overlay means   *)
(* RUNNING.  A case that is still NEW has not been touched.                *)
(***************************************************************************)

Untouched(c) == c.state = "NEW" => \A n \in Node : c.ns[n] = "NOT_ACTIVATED"

MarkingInv ==
    /\ MarkingsConsistent
    /\ Untouched(stored)
    /\ busy => work.state # "NEW"

LEMMA EdgesJoinNodes == \A e \in Edge : e[1] \in Node /\ e[2] \in Node
  BY SchemaTypes, ActivityIsNode DEF Edge

LEMMA SignalsComplete ==
  ASSUME NEW c \in Case, NEW n \in Node, NEW chosen, SignalsMatchNodes(c)
  PROVE  SignalsMatchNodes(CompleteNode(c, n, chosen))
  BY EdgesJoinNodes DEF SignalsMatchNodes, CompleteNode, SignalOf, Unresolved, Case

LEMMA SignalsEvaluate ==
  ASSUME NEW c \in Case, NEW n \in Node, SignalsMatchNodes(c), Evaluable(c, n)
  PROVE  SignalsMatchNodes(EvaluateTarget(c, n))
  BY EdgesJoinNodes
     DEF SignalsMatchNodes, EvaluateTarget, SkipNode, Evaluable, Unresolved, Case

LEMMA SignalsReset ==
  ASSUME NEW c \in Case, NEW end \in LoopEnds, SignalsMatchNodes(c),
         c.ns[end] = "ACTIVATED"
  PROVE  SignalsMatchNodes(ResetLoopBlock(c, end))
  BY EdgesJoinNodes DEF SignalsMatchNodes, ResetLoopBlock, LoopBlock, Unresolved, Case

LEMMA SignalsFire ==
  ASSUME K2Endpoints, NEW c \in Case, NEW n \in Node, SignalsMatchNodes(c),
         Fireable(c, n)
  PROVE  SignalsMatchNodes(FireNode(c, n))
  <1>1. \A chosen : SignalsMatchNodes(CompleteNode(c, n, chosen))
    BY SignalsComplete
  <1>2. CASE TypeOf[n] = "END"
    <2>1. \A e \in Edge : e[1] # n
      BY <1>2, SchemaTypes, ActivityIsNode DEF K2Endpoints, Outgoing, Edge
    <2>2. QED
      BY <1>2, <2>1, EdgesJoinNodes DEF FireNode, SignalsMatchNodes, Unresolved, Case
  <1>3. CASE TypeOf[n] = "LOOP_END"
    <2>1. n \in LoopEnds /\ c.ns[n] = "ACTIVATED"
      BY <1>3 DEF LoopEnds, NodesOfType, Fireable
    <2> DEFINE r == ResetLoopBlock(c, n)
    <2>2. r \in Case /\ SignalsMatchNodes(r)
      BY <2>1, ResetLoopBlockType, SignalsReset
    <2> HIDE DEF r
    <2>3. SignalsMatchNodes([r EXCEPT !.iterations[n] = Bump(@)])
      BY <2>2 DEF SignalsMatchNodes, Unresolved, Case
    <2>4. QED
      BY <1>1, <1>3, <2>3 DEF FireNode, ResolveLoopEnd, r
  <1>4. CASE TypeOf[n] \notin {"END", "LOOP_END"}
    BY <1>1, <1>4 DEF FireNode
  <1>5. QED
    BY <1>2, <1>3, <1>4

\* Every worklist act moves a step between ACTIVATED and RUNNING only.
LEMMA SignalsWorklistActs ==
  ASSUME NEW c \in Case, NEW n \in Activities, NEW a \in Agent,
         TracesOfActivation(c), SignalsMatchNodes(c)
  PROVE  /\ Claimable(c, n, a) => SignalsMatchNodes(ClaimActivity(c, n, a))
         /\ Claimable(c, n, a) => SignalsMatchNodes(StartActivity(c, n, a))
         /\ Suspendable(c, n, a) => SignalsMatchNodes(SuspendActivity(c, n, a))
         /\ Failable(c, n, a) => SignalsMatchNodes(FailActivity(c, n, a))
         /\ SignalsMatchNodes(ResumeActivity(c, n))
         /\ SignalsMatchNodes(ReturnActivity(c, n))
         /\ c.detail[n] = "FAILED" => SignalsMatchNodes(ResetActivity(c, n))
  <1>1. n \in Node
    BY ActivityIsNode
  <1>2. SignalsMatchNodes(ClaimActivity(c, n, a))
    BY <1>1, EdgesJoinNodes DEF SignalsMatchNodes, ClaimActivity, Unresolved, Case
  <1>3. ASSUME c.ns[n] \in {"ACTIVATED", "RUNNING"}
        PROVE  \A d \in DetailState :
                 /\ SignalsMatchNodes(StartActivity(c, n, a))
                 /\ SignalsMatchNodes([StartActivity(c, n, a) EXCEPT !.detail[n] = d])
    BY <1>1, <1>3, EdgesJoinNodes DEF SignalsMatchNodes, StartActivity, ClaimActivity, Unresolved, Case
  <1>4. Claimable(c, n, a) \/ Suspendable(c, n, a) \/ Failable(c, n, a)
           => c.ns[n] \in {"ACTIVATED", "RUNNING"}
    BY <1>1 DEF Claimable, Suspendable, Failable, StartedOwner, TracesOfActivation
  <1>5. SignalsMatchNodes(ResumeActivity(c, n)) /\ SignalsMatchNodes(ReturnActivity(c, n))
    BY <1>1, EdgesJoinNodes
       DEF SignalsMatchNodes, ResumeActivity, ReturnActivity, ClearActivation, ReleaseClaim, Unresolved, Case
  <1>6. ASSUME c.detail[n] = "FAILED"
        PROVE  SignalsMatchNodes(ResetActivity(c, n))
    <2>1. c.ns[n] = "RUNNING"
      BY <1>1, <1>6 DEF TracesOfActivation
    <2>2. QED
      BY <1>1, <2>1, EdgesJoinNodes
         DEF SignalsMatchNodes, ResetActivity, ClearActivation, ReleaseClaim, Unresolved, Case
  <1>7. QED
    BY <1>2, <1>3, <1>4, <1>5, <1>6 DEF SuspendActivity, FailActivity, DetailState

\* The acts on a running case leave it running.
LEMMA ActsKeepState ==
  ASSUME NEW c \in Case, NEW n \in Activities, NEW a \in Agent
  PROVE  /\ ClaimActivity(c, n, a).state = c.state
         /\ StartActivity(c, n, a).state = c.state
         /\ SuspendActivity(c, n, a).state = c.state
         /\ FailActivity(c, n, a).state = c.state
         /\ ResumeActivity(c, n).state = c.state
         /\ ReturnActivity(c, n).state = c.state
         /\ ResetActivity(c, n).state = c.state
  BY DEF ClaimActivity, StartActivity, SuspendActivity, FailActivity, ResumeActivity,
         ReturnActivity, ResetActivity, ClearActivation, ReleaseClaim, Case

LEMMA DataKeepsMarkings ==
  ASSUME NEW c \in Case, NEW vals, SignalsMatchNodes(c)
  PROVE  /\ SignalsMatchNodes(CorrectData(c, vals))
         /\ CorrectData(c, vals).state = c.state
  BY DEF SignalsMatchNodes, Unresolved, CorrectData, RecordDataCorrection, Written, Case

LEMMA CompleteActivityMarkings ==
  ASSUME NEW c \in Case, NEW n \in Activities, NEW vals, SignalsMatchNodes(c)
  PROVE  /\ SignalsMatchNodes(CompleteActivity(c, n, vals))
         /\ CompleteActivity(c, n, vals).state = c.state
  BY EdgesJoinNodes, ActivityIsNode
     DEF SignalsMatchNodes, Unresolved, CompleteActivity, CompleteNode, SignalOf, Written,
         EndCorrections, ReleaseClaim, Case

LEMMA EngineStepsKeepRunning ==
  ASSUME NEW c \in Case, NEW n \in Node, c.state # "NEW"
  PROVE  FireNode(c, n).state # "NEW" /\ EvaluateTarget(c, n).state # "NEW"
  BY DEF FireNode, ResolveLoopEnd, ResetLoopBlock, CompleteNode, EvaluateTarget, SkipNode,
         Case

LEMMA MarkingInit == Init => MarkingInv
  <1>1. \A data : SignalsMatchNodes(NewCase(data)) /\ Untouched(NewCase(data))
    BY EdgesJoinNodes DEF SignalsMatchNodes, Unresolved, NewCase, Untouched
  <1>2. QED
    BY <1>1 DEF Init, MarkingInv, MarkingsConsistent

LEMMA MarkingStep ==
  ASSUME K2Endpoints
  PROVE  TypeOK /\ TracesBelongToActivation /\ MarkingInv /\ [Next]_vars => MarkingInv'
  <1> SUFFICES ASSUME TypeOK, TracesBelongToActivation, MarkingInv, [Next]_vars
               PROVE  MarkingInv'
    OBVIOUS
  <1> USE DEF MarkingInv, MarkingsConsistent, TracesBelongToActivation
  <1>0. stored \in Case /\ work \in Case
    BY DEF TypeOK
  <1>1. CASE Instantiate
    <2>1. SignalsMatchNodes(work')
      BY <1>0, <1>1, EdgesJoinNodes
         DEF Instantiate, OpenRequest, SignalsMatchNodes, Unresolved, Untouched, Case
    <2>2. work'.state = "RUNNING" /\ stored' = stored
      BY <1>0, <1>1 DEF Instantiate, OpenRequest, Case
    <2>3. QED
      BY <2>1, <2>2 DEF Untouched
  <1>2. ASSUME NEW n \in Activities, NEW a \in Agent,
               WorklistAct(n, a) \/ Return(n, a) \/ Reset(n, a)
        PROVE  MarkingInv'
    <2>1. stored.state = "RUNNING" /\ busy' = busy /\ ~busy /\ work' = stored'
      BY <1>2 DEF WorklistAct, Claim, Start, Suspend, Resume, Fail, Return, Reset, Store,
                  Claimable, Suspendable, Resumable, Failable, Returnable, Resettable
    <2>2. SignalsMatchNodes(stored')
      BY <1>0, <1>2, SignalsWorklistActs
         DEF WorklistAct, Claim, Start, Suspend, Resume, Fail, Return, Reset, Store, Resettable
    <2>3. stored' \in {ClaimActivity(stored, n, a), StartActivity(stored, n, a),
                       SuspendActivity(stored, n, a), FailActivity(stored, n, a),
                       ResumeActivity(stored, n), ReturnActivity(stored, n),
                       ResetActivity(stored, n)}
      BY <1>2 DEF WorklistAct, Claim, Start, Suspend, Resume, Fail, Return, Reset, Store
    <2>4. stored'.state = stored.state
      BY <1>0, <2>3, ActsKeepState
    <2>5. QED
      BY <2>1, <2>2, <2>4 DEF Untouched
  <1>3. ASSUME NEW n \in Activities, NEW a \in Agent \cup {NoAgent}, Complete(n, a)
        PROVE  MarkingInv'
    <2>1. PICK S \in SUBSET Writes[n] :
            \E vals \in [S -> Value] :
               /\ Completable(stored, n, a, vals)
               /\ OpenRequest(CompleteActivity(stored, n, vals))
      BY <1>3 DEF Complete
    <2>2. PICK vals \in [S -> Value] :
               /\ Completable(stored, n, a, vals)
               /\ OpenRequest(CompleteActivity(stored, n, vals))
      BY <2>1
    <2>3. QED
      BY <1>0, <2>2, CompleteActivityMarkings DEF Completable, OpenRequest, Untouched
  <1>4. ASSUME NEW e \in Element, NEW v \in Value, Correct(e, v)
        PROVE  MarkingInv'
    BY <1>0, <1>4, DataKeepsMarkings DEF Correct, Store, Untouched
  <1>5. ASSUME NEW n \in Node, Fire(n)
        PROVE  MarkingInv'
    BY <1>0, <1>5, SignalsFire, EngineStepsKeepRunning DEF Fire, NextInSweep, Ready
  <1>6. ASSUME NEW n \in Node, Evaluate(n)
        PROVE  MarkingInv'
    BY <1>0, <1>6, SignalsEvaluate, EngineStepsKeepRunning DEF Evaluate, NextInSweep, Ready
  <1>7. CASE EndFirePhase \/ NextPass
    BY <1>7 DEF EndFirePhase, NextPass
  <1>8. CASE Commit \/ RollBack \/ \E n \in Node : Refuse(n)
    BY <1>8 DEF Commit, RollBack, Refuse, Answer, Untouched
  <1>9. CASE UNCHANGED vars
    BY <1>9 DEF vars
  <1>10. QED
    BY <1>1, <1>2, <1>3, <1>4, <1>5, <1>6, <1>7, <1>8, <1>9 DEF Next, Advance

\* On a schema whose END is a sink (K2), a node has signalled its outgoing edges,
\* sync edges included, exactly when it is completed or skipped: through every
\* order of requests, every repetition of nested loops and every rollback.
THEOREM MarkingsAlwaysConsistent ==
  ASSUME K2Endpoints
  PROVE  Spec => []MarkingsConsistent
  <1>1. TypeOK /\ TracesBelongToActivation /\ MarkingInv /\ [Next]_vars => MarkingInv'
    BY MarkingStep
  <1>2. MarkingInv => MarkingsConsistent
    BY DEF MarkingInv
  <1>3. QED
    BY <1>1, <1>2, MarkingInit, TypeCorrect, TracesCorrectOnEverySchema, PTL DEF Spec

-----------------------------------------------------------------------------
(***************************************************************************)
(* Action properties.  A request's copy starts as the stored case and only *)
(* ever loses claims.                                                      *)
(***************************************************************************)

CopyInv ==
    /\ ~busy => work = stored
    /\ \A n \in Node : work.claimed[n] \in {stored.claimed[n], NoAgent}

\* Claims change in worklist acts only; a request's copy releases them.
LEMMA EngineReleasesClaims ==
  ASSUME NEW c \in Case, NEW n \in Node, NEW m \in Node
  PROVE  /\ FireNode(c, n).claimed[m] \in {c.claimed[m], NoAgent}
         /\ EvaluateTarget(c, n).claimed[m] = c.claimed[m]
         /\ \A vals : CompleteActivity(c, n, vals).claimed[m] \in {c.claimed[m], NoAgent}
         /\ \A vals : CorrectData(c, vals).claimed[m] = c.claimed[m]
  <1>1. FireNode(c, n).claimed[m] \in {c.claimed[m], NoAgent}
    BY DEF FireNode, ResolveLoopEnd, ResetLoopBlock, CompleteNode, Case
  <1>2. EvaluateTarget(c, n).claimed[m] = c.claimed[m]
    BY DEF EvaluateTarget, SkipNode, Case
  <1>3. \A vals : CompleteActivity(c, n, vals).claimed[m] \in {c.claimed[m], NoAgent}
    BY DEF CompleteActivity, CompleteNode, Written, EndCorrections, ReleaseClaim, Case
  <1>4. \A vals : CorrectData(c, vals).claimed[m] = c.claimed[m]
    BY DEF CorrectData, RecordDataCorrection, Written, Case
  <1>5. QED
    BY <1>1, <1>2, <1>3, <1>4

LEMMA CopyStep == TypeOK /\ CopyInv /\ [Next]_vars => CopyInv'
  <1> SUFFICES ASSUME TypeOK, CopyInv, [Next]_vars
               PROVE  CopyInv'
    OBVIOUS
  <1> USE DEF CopyInv
  <1>0. stored \in Case /\ work \in Case
    BY DEF TypeOK
  <1>1. CASE Instantiate
    BY <1>0, <1>1 DEF Instantiate, OpenRequest, Case
  <1>2. ASSUME NEW n \in Activities, NEW a \in Agent,
               WorklistAct(n, a) \/ Return(n, a) \/ Reset(n, a)
        PROVE  CopyInv'
    BY <1>2 DEF WorklistAct, Claim, Start, Suspend, Resume, Fail, Return, Reset, Store
  <1>3. ASSUME NEW n \in Activities, NEW a \in Agent \cup {NoAgent}, Complete(n, a)
        PROVE  CopyInv'
    <2>1. PICK S \in SUBSET Writes[n] :
            \E vals \in [S -> Value] : OpenRequest(CompleteActivity(stored, n, vals))
      BY <1>3 DEF Complete
    <2>2. PICK vals \in [S -> Value] : OpenRequest(CompleteActivity(stored, n, vals))
      BY <2>1
    <2>3. QED
      BY <1>0, <2>2, ActivityIsNode, EngineReleasesClaims DEF OpenRequest
  <1>4. ASSUME NEW e \in Element, NEW v \in Value, Correct(e, v)
        PROVE  CopyInv'
    BY <1>4 DEF Correct, Store
  <1>5. ASSUME NEW n \in Node, Fire(n) \/ Evaluate(n)
        PROVE  CopyInv'
    <2>1. stored' = stored /\ work' \in {FireNode(work, n), EvaluateTarget(work, n)}
      BY <1>5 DEF Fire, Evaluate
    <2>2. \A m \in Node : work'.claimed[m] \in {work.claimed[m], NoAgent}
      BY <1>0, <2>1, EngineReleasesClaims
    <2>3. busy'
      <3>1. busy /\ busy' = busy
        BY <1>5 DEF Fire, Evaluate
      <3>2. QED
        BY <3>1
    <2>4. QED
      BY <2>1, <2>2, <2>3
  <1>6. CASE EndFirePhase \/ NextPass
    BY <1>6 DEF EndFirePhase, NextPass
  <1>7. CASE Commit \/ RollBack \/ \E n \in Node : Refuse(n)
    BY <1>7 DEF Commit, RollBack, Refuse, Answer
  <1>8. CASE UNCHANGED vars
    BY <1>8 DEF vars
  <1>9. QED
    BY <1>1, <1>2, <1>3, <1>4, <1>5, <1>6, <1>7, <1>8 DEF Next, Advance

LEMMA CopyInvariant == Spec => []CopyInv
  <1>1. Init => CopyInv
    BY DEF Init, CopyInv
  <1>2. QED
    BY <1>1, CopyStep, TypeCorrect, PTL DEF Spec

\* A worklist act may take a free step or keep or give back an owned one.
LEMMA ActsKeepOwner ==
  ASSUME NEW c \in Case, NEW n \in Activities, NEW a \in Agent, NEW m \in Node,
         c.claimed[m] # NoAgent
  PROVE  /\ Claimable(c, n, a) => ClaimActivity(c, n, a).claimed[m] = c.claimed[m]
         /\ Claimable(c, n, a) => StartActivity(c, n, a).claimed[m] = c.claimed[m]
         /\ Suspendable(c, n, a) => SuspendActivity(c, n, a).claimed[m] = c.claimed[m]
         /\ Failable(c, n, a) => FailActivity(c, n, a).claimed[m] = c.claimed[m]
         /\ ResumeActivity(c, n).claimed[m] = c.claimed[m]
         /\ ReturnActivity(c, n).claimed[m] \in {c.claimed[m], NoAgent}
         /\ ResetActivity(c, n).claimed[m] \in {c.claimed[m], NoAgent}
  <1>1. ASSUME m = n => c.claimed[n] = a
        PROVE  /\ ClaimActivity(c, n, a).claimed[m] = c.claimed[m]
               /\ StartActivity(c, n, a).claimed[m] = c.claimed[m]
               /\ SuspendActivity(c, n, a).claimed[m] = c.claimed[m]
               /\ FailActivity(c, n, a).claimed[m] = c.claimed[m]
    BY <1>1 DEF ClaimActivity, StartActivity, SuspendActivity, FailActivity, Case
  <1>2. Claimable(c, n, a) \/ Suspendable(c, n, a) \/ Failable(c, n, a)
           => (m = n => c.claimed[n] = a)
    BY DEF Claimable, Suspendable, Failable, StartedOwner
  <1>3. /\ ResumeActivity(c, n).claimed[m] = c.claimed[m]
        /\ ReturnActivity(c, n).claimed[m] \in {c.claimed[m], NoAgent}
        /\ ResetActivity(c, n).claimed[m] \in {c.claimed[m], NoAgent}
    BY DEF ResumeActivity, ReturnActivity, ResetActivity, ClearActivation, ReleaseClaim, Case
  <1>4. QED
    BY <1>1, <1>2, <1>3

OwnerKept ==
    \A n \in Node : stored.claimed[n] # NoAgent
        => stored'.claimed[n] \in {stored.claimed[n], NoAgent}

LEMMA OwnerStep == TypeOK /\ CopyInv /\ [Next]_vars => [OwnerKept]_vars
  <1> SUFFICES ASSUME TypeOK, CopyInv, Next, NEW m \in Node, stored.claimed[m] # NoAgent
               PROVE  stored'.claimed[m] \in {stored.claimed[m], NoAgent}
    BY DEF OwnerKept
  <1>0. stored \in Case /\ work \in Case
    BY DEF TypeOK
  <1>1. ASSUME NEW n \in Activities, NEW a \in Agent,
               WorklistAct(n, a) \/ Return(n, a) \/ Reset(n, a)
        PROVE  stored'.claimed[m] \in {stored.claimed[m], NoAgent}
    <2>1. CASE Claim(n, a)
      BY <1>0, <2>1, ActsKeepOwner DEF Claim, Store
    <2>2. CASE Start(n, a)
      BY <1>0, <2>2, ActsKeepOwner DEF Start, Store
    <2>3. CASE Suspend(n, a)
      BY <1>0, <2>3, ActsKeepOwner DEF Suspend, Store
    <2>4. CASE Fail(n, a)
      BY <1>0, <2>4, ActsKeepOwner DEF Fail, Store
    <2>5. CASE Resume(n, a)
      BY <1>0, <2>5, ActsKeepOwner DEF Resume, Store
    <2>6. CASE Return(n, a)
      BY <1>0, <2>6, ActsKeepOwner DEF Return, Store
    <2>7. CASE Reset(n, a)
      BY <1>0, <2>7, ActsKeepOwner DEF Reset, Store
    <2>8. QED
      BY <1>1, <2>1, <2>2, <2>3, <2>4, <2>5, <2>6, <2>7 DEF WorklistAct
  <1>2. ASSUME NEW e \in Element, NEW v \in Value, Correct(e, v)
        PROVE  stored'.claimed[m] \in {stored.claimed[m], NoAgent}
    BY <1>0, <1>2, EngineReleasesClaims DEF Correct, Store
  <1>3. CASE Commit
    BY <1>3 DEF Commit, CopyInv
  <1>4. ASSUME UNCHANGED stored
        PROVE  stored'.claimed[m] \in {stored.claimed[m], NoAgent}
    BY <1>4
  <1>5. QED
    BY <1>1, <1>2, <1>3, <1>4
       DEF Next, Advance, Instantiate, Complete, OpenRequest, Fire, Evaluate, Refuse,
           EndFirePhase, NextPass, RollBack

\* No request, completed, refused or rolled back, hands a claimed step from one
\* agent to another; whoever gets it next finds it on offer first.
THEOREM ClaimNeverTakenOver == Spec => ClaimNotTakenOver
  <1>1. ClaimNotTakenOver <=> [][OwnerKept]_vars
    BY PTL DEF ClaimNotTakenOver, OwnerKept
  <1>2. QED
    BY <1>1, OwnerStep, CopyInvariant, TypeCorrect, PTL DEF Spec

\* Both sides of ownership, for every schema, crew and number of rounds: what belongs
\* to an activation ends with it, and a step changes hands only across an offer.
THEOREM OwnershipAlwaysKept == Spec => OwnershipKept
  BY TracesCorrectOnEverySchema, ClaimNeverTakenOver DEF OwnershipKept

SyncWaits ==
    \A e \in SyncEdge :
        busy' /\ work.ns[e[2]] = "NOT_ACTIVATED" /\ work'.ns[e[2]] = "ACTIVATED"
            => ~Unresolved(work, e[1])

\* Firing a node activates none: it completes it or takes a loop back.
LEMMA FiringActivatesNothing ==
  ASSUME NEW c \in Case, NEW n \in Node, NEW t \in Node, c.ns[t] = "NOT_ACTIVATED"
  PROVE  FireNode(c, n).ns[t] # "ACTIVATED"
  BY DEF FireNode, ResolveLoopEnd, ResetLoopBlock, CompleteNode, Case

LEMMA SyncStep ==
  TypeOK /\ CopyInv /\ MarkingsConsistent /\ [Next]_vars => [SyncWaits]_vars
  <1> SUFFICES ASSUME TypeOK, CopyInv, MarkingsConsistent, Next, NEW e \in SyncEdge,
                      busy', work.ns[e[2]] = "NOT_ACTIVATED", work'.ns[e[2]] = "ACTIVATED"
               PROVE  ~Unresolved(work, e[1])
    BY DEF SyncWaits
  <1>0. /\ stored \in Case /\ work \in Case
        /\ e[2] \in Activities /\ e[2] \in Node /\ TypeOf[e[2]] = "ACTIVITY"
        /\ e \in Edge
    BY SchemaTypes, ActivityIsNode DEF TypeOK, Edge
  <1>1. ASSUME NEW n \in Node, Evaluate(n)
        PROVE  ~Unresolved(work, e[1])
    <2>1. n = e[2] /\ Evaluable(work, n) /\ Selected(work, n)
      BY <1>0, <1>1 DEF Evaluate, NextInSweep, Ready, EvaluateTarget, SkipNode, Case
    <2>2. work.es[e] # "NOT_SIGNALED"
      BY <2>1 DEF Evaluable, SyncIncoming
    <2>3. QED
      BY <1>0, <2>2 DEF MarkingsConsistent, SignalsMatchNodes
  <1>2. ASSUME NEW n \in Node, Fire(n)
        PROVE  FALSE
    BY <1>0, <1>2, FiringActivatesNothing DEF Fire
  <1>3. CASE Instantiate
    <2>1. work = stored
      BY <1>3 DEF Instantiate, CopyInv
    <2>2. work'.ns[e[2]] = stored.ns[e[2]]
      BY <1>0, <1>3 DEF Instantiate, OpenRequest, Case
    <2>3. QED
      BY <2>1, <2>2
  <1>4. ASSUME NEW n \in Activities, NEW a \in Agent \cup {NoAgent}, Complete(n, a)
        PROVE  FALSE
    <2>1. work = stored
      BY <1>4 DEF Complete, CopyInv
    <2>2. PICK S \in SUBSET Writes[n] :
            \E vals \in [S -> Value] : OpenRequest(CompleteActivity(stored, n, vals))
      BY <1>4 DEF Complete
    <2>3. PICK vals \in [S -> Value] : OpenRequest(CompleteActivity(stored, n, vals))
      BY <2>2
    <2>4. CompleteActivity(stored, n, vals).ns[e[2]] \in {stored.ns[e[2]], "COMPLETED"}
      BY <1>0 DEF CompleteActivity, CompleteNode, Written, EndCorrections, ReleaseClaim, Case
    <2>5. QED
      BY <2>1, <2>3, <2>4 DEF OpenRequest
  <1>5. ASSUME NEW n \in Activities, NEW a \in Agent,
               WorklistAct(n, a) \/ Return(n, a) \/ Reset(n, a)
        PROVE  FALSE
    <2>1. ~busy /\ busy' = busy
      BY <1>5 DEF WorklistAct, Claim, Start, Suspend, Resume, Fail, Return, Reset, Store
    <2>2. QED
      BY <2>1
  <1>6. ASSUME NEW x \in Element, NEW v \in Value, Correct(x, v)
        PROVE  FALSE
    <2>1. ~busy /\ busy' = busy
      BY <1>6 DEF Correct, Store
    <2>2. QED
      BY <2>1
  <1>7. CASE Commit \/ RollBack \/ \E n \in Node : Refuse(n)
    BY <1>7 DEF Commit, RollBack, Refuse, Answer
  <1>8. CASE EndFirePhase \/ NextPass
    BY <1>8 DEF EndFirePhase, NextPass
  <1>9. QED
    BY <1>1, <1>2, <1>3, <1>4, <1>5, <1>6, <1>7, <1>8 DEF Next, Advance

\* A step with an incoming sync edge never becomes ready before the source of that
\* edge is completed or skipped.
THEOREM SyncEdgesRespected ==
  ASSUME K2Endpoints
  PROVE  Spec => SyncRespected
  <1>1. SyncRespected <=> [][SyncWaits]_vars
    BY PTL DEF SyncRespected, SyncWaits
  <1>2. QED
    BY <1>1, SyncStep, CopyInvariant, TypeCorrect, MarkingsAlwaysConsistent, PTL DEF Spec

-----------------------------------------------------------------------------
(***************************************************************************)
(* That a case on a schema the validator accepts is sound, whatever the    *)
(* schema, and that a repeated step writes afresh.                         *)
(*                                                                         *)
(* The rules of the validator speak of the graph, the promises of the      *)
(* engine of the markings on it.  Between the two stands Coheres: what a   *)
(* node did, it did on the signals it still has, and it passed them on.    *)
(* It is kept step by step; what follows from it for one marking follows   *)
(* along the ranks K4 gives the nodes, from a least counterexample: an     *)
(* edge is taken exactly when the branches it lies in are (so joins agree  *)
(* and END is not skipped), what is certain before a node is there when it *)
(* begins (so every decision finds its value and every round its work),    *)
(* the first node left over can be evaluated (so no case is stuck) and the *)
(* last one leads to END (so END is taken up last).                        *)
(***************************************************************************)

-----------------------------------------------------------------------------
(***************************************************************************)
(* What is built step by step: numbers, walks and ranks.                   *)
(***************************************************************************)

(* A set of numbers has a least one.                                       *)
LEMMA LeastNumber ==
    ASSUME NEW T, T \subseteq Nat, T # {}
    PROVE  \E x \in T : \A y \in T : x <= y
<1> DEFINE R == {ss \in Nat \X Nat : ss[1] < ss[2]}
<1>1. R = OpToRel(<, Nat)
    BY Zenon DEF OpToRel
<1>2. IsWellFoundedOn(R, Nat)
    BY <1>1, NatLessThanWellFounded DEF OpToRel
<1> HIDE DEF R
<1>3. PICK x \in T : \A y \in T : ~(<<y, x>> \in R)
    BY <1>2, WFMin
<1>4. \A y \in T : ~(y < x)
    BY <1>3 DEF R
<1> QED BY <1>4

Iterates(g, S, F, x) ==
    g \in [Nat -> S] /\ g[0] = x /\ \A k \in Nat : g[k + 1] = F[g[k]]

(* What is done again and again from a first value is a function of how    *)
(* often it was done.                                                      *)
LEMMA Iterated ==
    ASSUME NEW S, NEW F \in [S -> S], NEW x \in S
    PROVE  \E g : Iterates(g, S, F, x)
<1> DEFINE Good(h, m) == /\ h \in [0..m -> S] /\ h[0] = x
                         /\ \A k \in 0..m : k < m => h[k + 1] = F[h[k]]
<1>1. \A m \in Nat : \E h : Good(h, m)
    <2> DEFINE Bad == {m \in Nat : ~\E h : Good(h, m)}
    <2> SUFFICES ASSUME Bad # {} PROVE FALSE
        OBVIOUS
    <2>1. PICK m \in Bad : \A k \in Bad : m <= k
        BY LeastNumber, Bad \subseteq Nat
    <2>2. m # 0
        <3>1. Good([k \in 0..0 |-> x], 0)
            OBVIOUS
        <3> QED BY <3>1
    <2>3. m - 1 \in Nat /\ m - 1 \notin Bad
        BY <2>1, <2>2
    <2>4. PICK h : Good(h, m - 1)
        BY <2>3
    <2> DEFINE next == [k \in 0..m |-> IF k = m THEN F[h[m - 1]] ELSE h[k]]
    <2>5. Good(next, m)
        <3>1. h[m - 1] \in S
            BY <2>3, <2>4
        <3>2. next \in [0..m -> S]
            BY <2>3, <2>4, <3>1
        <3>3. next[0] = x
            BY <2>2, <2>3, <2>4
        <3>4. ASSUME NEW k \in 0..m, k < m PROVE next[k + 1] = F[next[k]]
            <4>1. CASE k = m - 1
                BY <4>1, <3>4
            <4>2. CASE k < m - 1
                BY <4>2, <3>4, <2>4, <2>3
            <4> QED BY <4>1, <4>2, <3>4, <2>3
        <3> QED BY <3>2, <3>3, <3>4
    <2> QED BY <2>5
<1>2. ASSUME NEW m \in Nat, NEW n \in Nat, m <= n, NEW h, NEW d, Good(h, m), Good(d, n)
      PROVE  h[m] = d[m]
    <2> DEFINE Bad == {k \in 0..m : h[k] # d[k]}
    <2> SUFFICES ASSUME Bad # {} PROVE FALSE
        BY <1>2
    <2>1. PICK k \in Bad : \A j \in Bad : k <= j
        BY LeastNumber, Bad \subseteq Nat
    <2>2. k # 0
        BY <1>2
    <2>3. k - 1 \in 0..m /\ k - 1 \notin Bad /\ k - 1 < m /\ k - 1 \in 0..n /\ k - 1 < n
        BY <1>2, <2>1, <2>2
    <2>4. h[k] = F[h[k - 1]] /\ d[k] = F[d[k - 1]]
        BY <1>2, <2>3
    <2> QED BY <2>3, <2>4
<1> DEFINE H(m) == CHOOSE h : Good(h, m)
           g == [m \in Nat |-> H(m)[m]]
<1>3. \A m \in Nat : Good(H(m), m)
    BY <1>1
<1> HIDE DEF H
<1>4. g \in [Nat -> S]
    BY <1>3
<1>5. g[0] = x
    BY <1>3
<1>6. ASSUME NEW k \in Nat PROVE g[k + 1] = F[g[k]]
    <2>1. H(k)[k] = H(k + 1)[k]
        <3> HIDE DEF Good
        <3> QED BY <1>2, <1>3, k + 1 \in Nat, k <= k + 1
    <2>2. H(k + 1)[k + 1] = F[H(k + 1)[k]]
        BY <1>3
    <2> QED BY <2>1, <2>2
<1> QED BY <1>4, <1>5, <1>6 DEF Iterates

(* What only grows within a finite set stops growing after as many steps   *)
(* as the set has elements.                                                *)
LEMMA Saturates ==
    ASSUME NEW X, IsFiniteSet(X), NEW g \in [Nat -> SUBSET X],
           \A k \in Nat : g[k] \subseteq g[k + 1],
           \A k \in Nat : g[k] = g[k + 1] => g[k + 1] = g[k + 2]
    PROVE  g[Cardinality(X)] = g[Cardinality(X) + 1]
<1> DEFINE N == Cardinality(X)
<1>1. N \in Nat
    BY FS_CardinalityType
<1> SUFFICES ASSUME g[N] # g[N + 1] PROVE FALSE
    OBVIOUS
<1> HIDE DEF N
<1>2. \A k \in 0..N : g[k] # g[k + 1]
    <2> SUFFICES ASSUME NEW k \in 0..N, g[k] = g[k + 1] PROVE FALSE
        OBVIOUS
    <2> DEFINE T == {j \in Nat : k <= j /\ g[j] # g[j + 1]}
    <2>1. PICK j \in T : \A i \in T : j <= i
        <3>1. N \in T
            BY <1>1
        <3> QED BY <3>1, LeastNumber, T \subseteq Nat
    <2>2. j # k
        OBVIOUS
    <2>3. j - 1 \in Nat /\ k <= j - 1 /\ j - 1 \notin T
        BY <2>1, <2>2
    <2>4. g[j - 1] = g[(j - 1) + 1] => g[(j - 1) + 1] = g[(j - 1) + 2]
        BY <2>3
    <2> QED BY <2>3, <2>4
<1>3. \A k \in Nat : IsFiniteSet(g[k]) /\ Cardinality(g[k]) \in Nat
    BY FS_Subset, FS_CardinalityType
<1> DEFINE Small == {k \in 0..(N + 1) : Cardinality(g[k]) < k}
<1>4. Small = {}
    <2> SUFFICES ASSUME Small # {} PROVE FALSE
        OBVIOUS
    <2>1. PICK k \in Small : \A j \in Small : k <= j
        BY LeastNumber, Small \subseteq Nat, <1>1
    <2>2. k # 0
        BY <1>3
    <2>3. k - 1 \in 0..N /\ k - 1 \notin Small /\ k - 1 \in 0..(N + 1)
        BY <1>1, <2>1, <2>2
    <2>4. k - 1 <= Cardinality(g[k - 1])
        BY <2>3, <1>3
    <2>5. g[k - 1] \subseteq g[k] /\ g[k - 1] # g[k]
        BY <2>3, <1>2
    <2>6. Cardinality(g[k - 1]) < Cardinality(g[k])
        <3>1. k \in Nat /\ k - 1 \in Nat
            BY <2>3
        <3>2. /\ Cardinality(g[k - 1]) <= Cardinality(g[k])
              /\ Cardinality(g[k - 1]) = Cardinality(g[k]) => g[k - 1] = g[k]
            BY <1>3, <2>5, <3>1, FS_Subset
        <3> QED BY <3>1, <3>2, <2>5, <1>3
    <2> QED BY <2>1, <2>3, <2>4, <2>6, <1>3
<1>5. N + 1 <= Cardinality(g[N + 1])
    BY <1>1, <1>3, <1>4
<1>6. Cardinality(g[N + 1]) <= N
    BY <1>1, FS_Subset DEF N
<1> QED BY <1>1, <1>3, <1>5, <1>6

Successors(end, S) == {n \in Node \ {end} : \E m \in S : <<m, n>> \in ControlEdge}

(* The walk of loop_block as a function of the steps taken.                *)
LEMMA BodyWalk ==
    ASSUME NEW end \in LoopEnds
    PROVE  \E g \in [Nat -> SUBSET Node] :
               /\ Body[end] = g[Cardinality(Node)]
               /\ g[0] = Successors(end, {StartOfLoop[end]})
               /\ \A k \in Nat : g[k + 1] = g[k] \cup Successors(end, g[k])
<1> DEFINE succ(S) == {n \in Node \ {end} : \E m \in S : <<m, n>> \in ControlEdge}
           Rec(f) == f = [k \in Nat |-> IF k = 0 THEN succ({StartOfLoop[end]})
                                        ELSE f[k - 1] \cup succ(f[k - 1])]
           walked == CHOOSE walked : Rec(walked)
           F == [S \in SUBSET Node |-> S \cup succ(S)]
<1>1. LoopBody(end) = walked[Cardinality(Node)]
    BY DEF LoopBody
<1>2. F \in [SUBSET Node -> SUBSET Node] /\ succ({StartOfLoop[end]}) \in SUBSET Node
    OBVIOUS
<1>3. PICK g \in [Nat -> SUBSET Node] :
          g[0] = succ({StartOfLoop[end]}) /\ \A k \in Nat : g[k + 1] = F[g[k]]
    <2> DEFINE P == SUBSET Node
               x == succ({StartOfLoop[end]})
    <2>1. F \in [P -> P] /\ x \in P
        BY <1>2
    <2> HIDE DEF F, P, x
    <2>2. \E g : Iterates(g, P, F, x)
        BY <2>1, Iterated
    <2> QED BY <2>2 DEF P, x, Iterates
<1>4. Rec(g)
    <2>1. ASSUME NEW k \in Nat
          PROVE  g[k] = IF k = 0 THEN succ({StartOfLoop[end]}) ELSE g[k - 1] \cup succ(g[k - 1])
        <3>1. CASE k = 0
            BY <1>3, <3>1
        <3>2. CASE k # 0
            <4>1. k - 1 \in Nat /\ (k - 1) + 1 = k
                BY <3>2
            <4>2. g[k] = F[g[k - 1]]
                BY <4>1, <1>3
            <4> QED BY <3>2, <4>1, <4>2
        <3> QED BY <3>1, <3>2
    <2> HIDE DEF succ
    <2> QED BY <2>1
<1>5. Rec(walked)
    <2> HIDE DEF Rec
    <2> QED BY <1>4
<1>6. walked = [k \in Nat |-> IF k = 0 THEN succ({StartOfLoop[end]})
                              ELSE walked[k - 1] \cup succ(walked[k - 1])]
    BY <1>5
<1> HIDE DEF walked
<1>7. walked[0] = succ({StartOfLoop[end]})
    <2> HIDE DEF succ
    <2> QED BY <1>6
<1>8. ASSUME NEW k \in Nat PROVE walked[k + 1] = walked[k] \cup succ(walked[k])
    <2> HIDE DEF succ
    <2>1. k + 1 \in Nat /\ k + 1 # 0 /\ (k + 1) - 1 = k
        OBVIOUS
    <2> QED BY <1>6, <2>1
<1>9. walked \in [Nat -> SUBSET Node]
    <2>1. \A k \in Nat : walked[k] \in SUBSET Node
        <3> DEFINE T == {k \in Nat : walked[k] \notin SUBSET Node}
        <3> SUFFICES ASSUME T # {} PROVE FALSE
            OBVIOUS
        <3>1. PICK k \in T : \A j \in T : k <= j
            BY LeastNumber, T \subseteq Nat
        <3>2. k # 0
            BY <1>7
        <3>3. k - 1 \in Nat /\ k - 1 \notin T /\ (k - 1) + 1 = k
            BY <3>1, <3>2
        <3>4. walked[k] = walked[k - 1] \cup succ(walked[k - 1])
            BY <3>3, <1>8
        <3> QED BY <3>3, <3>4
    <2> HIDE DEF succ
    <2> QED BY <1>6, <2>1
<1> QED BY <1>1, <1>7, <1>8, <1>9 DEF Successors, Body

(* A body does not hold its end, all its nodes are led to, and it is left  *)
(* through its end only -- by the walk itself, on every schema.            *)
LEMMA BodyFacts ==
    ASSUME NEW end \in LoopEnds
    PROVE  /\ Body[end] \subseteq Node \ {end}
           /\ \A n \in Body[end] : Incoming(n) # {}
           /\ \A e \in ControlEdge :
                  e[1] \in Body[end] \cup {StartOfLoop[end]} => e[2] \in Body[end] \cup {end}
<1> DEFINE N == Cardinality(Node)
           Led == {n \in Node \ {end} : Incoming(n) # {}}
<1>1. N \in Nat /\ IsFiniteSet(Node)
    BY SchemaTypes, FS_CardinalityType
<1>2. PICK g \in [Nat -> SUBSET Node] :
          /\ Body[end] = g[N]
          /\ g[0] = Successors(end, {StartOfLoop[end]})
          /\ \A k \in Nat : g[k + 1] = g[k] \cup Successors(end, g[k])
    BY BodyWalk
<1>3. \A S : Successors(end, S) \subseteq Led
    <2>1. \A m, n : <<m, n>> \in ControlEdge => <<m, n>> \in Incoming(n)
        BY DEF Incoming
    <2> QED BY <2>1 DEF Successors
<1> HIDE DEF N, Led
<1>4. \A k \in Nat : g[0] \subseteq g[k] /\ g[k] \subseteq Led
    <2> DEFINE T == {k \in Nat : ~(g[0] \subseteq g[k] /\ g[k] \subseteq Led)}
    <2> SUFFICES ASSUME T # {} PROVE FALSE
        OBVIOUS
    <2>1. PICK k \in T : \A j \in T : k <= j
        BY LeastNumber, T \subseteq Nat
    <2>2. k # 0
        BY <1>2, <1>3
    <2>3. k - 1 \in Nat /\ k - 1 \notin T /\ (k - 1) + 1 = k
        BY <2>1, <2>2
    <2>4. g[k] = g[k - 1] \cup Successors(end, g[k - 1])
        BY <2>3, <1>2
    <2> QED BY <2>3, <2>4, <1>3
<1>5. g[N] = g[N + 1]
    <2>1. \A k \in Nat : g[k] \subseteq g[k + 1]
        BY <1>2
    <2>2. ASSUME NEW k \in Nat, g[k] = g[k + 1] PROVE g[k + 1] = g[k + 2]
        <3>1. k + 1 \in Nat /\ (k + 1) + 1 = k + 2
            OBVIOUS
        <3> QED BY <2>2, <3>1, <1>2
    <2> QED BY <2>1, <2>2, <1>1, Saturates DEF N
<1>6. Successors(end, Body[end] \cup {StartOfLoop[end]}) \subseteq Body[end]
    <2>1. Successors(end, g[N]) \subseteq g[N]
        BY <1>1, <1>2, <1>5
    <2> QED BY <2>1, <1>1, <1>2, <1>4 DEF Successors
<1>7. Body[end] \subseteq Led
    BY <1>1, <1>2, <1>4
<1>8. /\ Body[end] \subseteq Node \ {end}
      /\ \A n \in Body[end] : Incoming(n) # {}
    BY <1>7 DEF Led
<1>9. ASSUME NEW e \in ControlEdge, e[1] \in Body[end] \cup {StartOfLoop[end]}
      PROVE  e[2] \in Body[end] \cup {end}
    <2>1. PICK m \in Node, n \in Node : e = <<m, n>>
        BY SchemaTypes
    <2>2. n # end => n \in Successors(end, Body[end] \cup {StartOfLoop[end]})
        BY <1>9, <2>1 DEF Successors
    <2> QED BY <1>6, <2>1, <2>2
<1> QED BY <1>8, <1>9

Ranks(rank) ==
    /\ rank \in [Node -> 0..Cardinality(Node)]
    /\ \A e \in Edge : rank[e[1]] < rank[e[2]]

(* Taking away whatever has no predecessor left ranks the nodes.           *)
LEMMA Ranked ==
    ASSUME K4Acyclic
    PROVE  \E rank : Ranks(rank)
<1> DEFINE N == Cardinality(Node)
           thin(S) == {n \in S : \E e \in Edge : e[2] = n /\ e[1] \in S}
           Rec(f) == f = [k \in 0..N |-> IF k = 0 THEN Node ELSE thin(f[k - 1])]
           rest == CHOOSE rest : Rec(rest)
           F == [S \in SUBSET Node |-> thin(S)]
           P == SUBSET Node
<1>1. N \in Nat
    BY SchemaTypes, FS_CardinalityType
<1>2. rest[N] = {}
    BY DEF K4Acyclic
<1>3. \E g : Iterates(g, P, F, Node)
    <2>1. F \in [P -> P] /\ Node \in P
        OBVIOUS
    <2> HIDE DEF F, P
    <2> QED BY <2>1, Iterated
<1>4. PICK g : Iterates(g, P, F, Node)
    BY <1>3
<1>5. g[0] = Node /\ \A k \in Nat : g[k] \subseteq Node /\ g[k + 1] = thin(g[k])
    <2>1. g[0] = Node /\ \A k \in Nat : g[k] \in P /\ g[k + 1] = F[g[k]]
        BY <1>4 DEF Iterates
    <2> HIDE DEF thin
    <2> QED BY <2>1
<1> HIDE DEF thin, N
<1>6. Rec([k \in 0..N |-> g[k]])
    <2> DEFINE f == [k \in 0..N |-> g[k]]
    <2>1. ASSUME NEW k \in 0..N
          PROVE  f[k] = IF k = 0 THEN Node ELSE thin(f[k - 1])
        <3>1. CASE k = 0
            BY <3>1, <1>5
        <3>2. CASE k # 0
            <4>1. k - 1 \in Nat /\ (k - 1) + 1 = k /\ k - 1 \in 0..N
                BY <3>2, <1>1
            <4> QED BY <4>1, <3>2, <1>5
        <3> QED BY <3>1, <3>2
    <2> QED BY <2>1
<1>7. Rec(rest)
    <2> HIDE DEF Rec
    <2> QED BY <1>6
<1>8. rest = [k \in 0..N |-> IF k = 0 THEN Node ELSE thin(rest[k - 1])]
    BY <1>7
<1> HIDE DEF rest
<1>9. \A k \in 0..N : rest[k] = IF k = 0 THEN Node ELSE thin(rest[k - 1])
    BY <1>8
<1>10. ASSUME NEW n \in Node PROVE \E k \in 1..N : n \in rest[k - 1] /\ n \notin rest[k]
    <2> DEFINE T == {k \in 0..N : n \notin rest[k]}
    <2>1. PICK k \in T : \A j \in T : k <= j
        <3>1. N \in T
            BY <1>1, <1>2
        <3> QED BY <3>1, LeastNumber, T \subseteq Nat
    <2>2. k # 0
        BY <1>9, <1>1
    <2>3. k \in 1..N /\ k - 1 \in 0..N /\ k - 1 \notin T
        BY <1>1, <2>1, <2>2
    <2> QED BY <2>1, <2>3
<1> DEFINE rank == [n \in Node |-> CHOOSE k \in 1..N : n \in rest[k - 1] /\ n \notin rest[k]]
<1>11. ASSUME NEW n \in Node
       PROVE  rank[n] \in 1..N /\ n \in rest[rank[n] - 1] /\ n \notin rest[rank[n]]
    BY <1>10
<1>12. \A j, k \in 0..N : j <= k => rest[k] \subseteq rest[j]
    <2> SUFFICES ASSUME NEW j \in 0..N, NEW h \in 0..N, j <= h, ~(rest[h] \subseteq rest[j])
                 PROVE  FALSE
        OBVIOUS
    <2> DEFINE T == {k \in 0..N : j <= k /\ ~(rest[k] \subseteq rest[j])}
    <2>1. PICK k \in T : \A i \in T : k <= i
        BY LeastNumber, T \subseteq Nat
    <2>2. k # j /\ k # 0
        OBVIOUS
    <2>3. k - 1 \in 0..N /\ j <= k - 1 /\ k - 1 \notin T
        BY <1>1, <2>1, <2>2
    <2>4. rest[k] \subseteq rest[k - 1]
        BY <2>2, <1>9 DEF thin
    <2> QED BY <2>3, <2>4
<1>13. ASSUME NEW e \in Edge PROVE rank[e[1]] < rank[e[2]]
    <2> HIDE DEF rank
    <2>1. e[1] \in Node /\ e[2] \in Node
        BY EdgesJoinNodes
    <2> DEFINE j == rank[e[1]]
               k == rank[e[2]]
    <2>2. /\ j \in 1..N /\ e[1] \in rest[j - 1]
          /\ k \in 1..N /\ e[2] \in rest[k - 1] /\ e[2] \notin rest[k]
        BY <2>1, <1>11
    <2> HIDE DEF j, k
    <2>3. e[1] \notin rest[k - 1]
        <3>1. rest[k] = thin(rest[k - 1])
            BY <2>2, <1>9
        <3> QED BY <3>1, <2>2 DEF thin
    <2>4. ~(k <= j)
        <3> SUFFICES ASSUME k <= j PROVE FALSE
            OBVIOUS
        <3>1. rest[j - 1] \subseteq rest[k - 1]
            BY <1>12, <1>1, <2>2
        <3> QED BY <3>1, <2>2, <2>3
    <2> QED BY <2>2, <2>4 DEF j, k
<1>14. rank \in [Node -> 0..N]
    BY <1>11, <1>1
<1> QED BY <1>13, <1>14 DEF Ranks, N

-----------------------------------------------------------------------------
(***************************************************************************)
(* The markings agree with each other: whatever a node did, it did on the  *)
(* signals it still has, and it passed them on.                            *)
(***************************************************************************)

Begun(c, n) == c.ns[n] \in {"ACTIVATED", "RUNNING", "COMPLETED"}

InputsSignalled(c) ==
    \A n \in Node : c.ns[n] # "NOT_ACTIVATED" =>
        \A e \in Incoming(n) : c.es[e] # "NOT_SIGNALED"

\* A node that was taken up was selected, one that was skipped was not.
FollowedSignals(c, n) ==
    /\ Begun(c, n) => Selected(c, n) \/ TypeOf[n] = "START"
    /\ c.ns[n] = "SKIPPED" => ~Selected(c, n) /\ TypeOf[n] # "START"

\* A completed node passes on TRUE, an XOR split to one branch; a skipped one does not.
PassedOn(c, n) ==
    /\ c.ns[n] = "COMPLETED" /\ TypeOf[n] # "XOR_SPLIT" =>
           \A e \in Outgoing(n) : c.es[e] = "TRUE_SIGNALED"
    /\ c.ns[n] = "COMPLETED" /\ TypeOf[n] = "XOR_SPLIT" =>
           \E o \in Outgoing(n) : \A e \in Outgoing(n) : c.es[e] = "TRUE_SIGNALED" <=> e = o
    /\ c.ns[n] = "SKIPPED" => \A e \in Outgoing(n) : c.es[e] # "TRUE_SIGNALED"

Coheres(c) == InputsSignalled(c) /\ \A n \in Node : FollowedSignals(c, n) /\ PassedOn(c, n)

(* What is selected depends on the signals that come in.                   *)
LEMMA SelectedFrame ==
    ASSUME NEW c, NEW d, NEW n, \A e \in Incoming(n) : d.es[e] = c.es[e]
    PROVE  Selected(d, n) <=> Selected(c, n)
BY DEF Selected

(* What n passes on, when it completes.                                    *)
Completes(c, d, n) ==
    /\ d.ns[n] = "COMPLETED" /\ \A m \in Node \ {n} : d.ns[m] = c.ns[m]
    /\ \A e \in Edge : e[1] # n => d.es[e] = c.es[e]
    /\ \A e \in Edge : e[1] = n => d.es[e] # "NOT_SIGNALED"
    /\ PassedOn(d, n)

LEMMA CompletingCoheres ==
    ASSUME NEW c, NEW d, NEW n \in Node, Coheres(c), SignalsMatchNodes(c),
           c.ns[n] \in {"ACTIVATED", "RUNNING"}, Completes(c, d, n)
    PROVE  Coheres(d)
<1>1. ASSUME NEW m \in Node, d.ns[m] # "NOT_ACTIVATED"
      PROVE  \A e \in Incoming(m) : e[1] # n /\ d.es[e] = c.es[e] /\ c.es[e] # "NOT_SIGNALED"
    <2>1. c.ns[m] # "NOT_ACTIVATED"
        BY <1>1 DEF Completes
    <2>2. \A e \in Incoming(m) : e \in Edge /\ c.es[e] # "NOT_SIGNALED"
        BY <2>1 DEF Coheres, InputsSignalled, Incoming, Edge
    <2>3. \A e \in Edge : e[1] = n => c.es[e] = "NOT_SIGNALED"
        BY DEF SignalsMatchNodes, Unresolved
    <2> QED BY <2>2, <2>3 DEF Completes
<1>2. InputsSignalled(d)
    BY <1>1 DEF InputsSignalled
<1>3. ASSUME NEW m \in Node PROVE FollowedSignals(d, m)
    <2>1. CASE d.ns[m] = "NOT_ACTIVATED"
        BY <2>1 DEF FollowedSignals, Begun
    <2>2. CASE d.ns[m] # "NOT_ACTIVATED"
        <3>1. Selected(d, m) <=> Selected(c, m)
            BY <1>1, <2>2, SelectedFrame
        <3>2. FollowedSignals(c, m)
            BY DEF Coheres
        <3> QED BY <3>1, <3>2 DEF FollowedSignals, Begun, Completes
    <2> QED BY <2>1, <2>2
<1>4. ASSUME NEW m \in Node PROVE PassedOn(d, m)
    <2>1. CASE m = n
        BY <2>1 DEF Completes
    <2>2. CASE m # n
        <3>1. d.ns[m] = c.ns[m] /\ \A e \in Outgoing(m) : d.es[e] = c.es[e]
            BY <2>2 DEF Completes, Outgoing, Edge
        <3>2. PassedOn(c, m)
            BY DEF Coheres
        <3> QED BY <3>1, <3>2 DEF PassedOn
    <2> QED BY <2>1, <2>2
<1> QED BY <1>2, <1>3, <1>4 DEF Coheres

LEMMA EvaluatingCoheres ==
    ASSUME K2Endpoints, NEW c \in Case, NEW n \in Node, Coheres(c), SignalsMatchNodes(c),
           Evaluable(c, n)
    PROVE  Coheres(EvaluateTarget(c, n))
<1> DEFINE d == EvaluateTarget(c, n)
<1>1. /\ c.ns[n] = "NOT_ACTIVATED" /\ TypeOf[n] # "START"
      /\ \A e \in Incoming(n) : c.es[e] # "NOT_SIGNALED"
    BY DEF Evaluable, K2Endpoints
<1>2. /\ d.ns[n] = IF Selected(c, n) THEN "ACTIVATED" ELSE "SKIPPED"
      /\ \A m \in Node \ {n} : d.ns[m] = c.ns[m]
    BY DEF EvaluateTarget, SkipNode, Case
<1>3. \A e \in Edge : /\ e[1] # n => d.es[e] = c.es[e]
                      /\ e[1] = n => d.es[e] = IF Selected(c, n) THEN c.es[e] ELSE "FALSE_SIGNALED"
    BY DEF EvaluateTarget, SkipNode, Case
<1> HIDE DEF d
<1>4. \A e \in Edge : e[1] = n => c.es[e] = "NOT_SIGNALED"
    BY <1>1 DEF SignalsMatchNodes, Unresolved
<1>5. \A m \in Node : \A e \in Incoming(m) \cup Outgoing(m) : e \in Edge
    BY DEF Incoming, Outgoing, Edge
<1>6. ASSUME NEW m \in Node, d.ns[m] # "NOT_ACTIVATED"
      PROVE  \A e \in Incoming(m) : e[1] # n /\ d.es[e] = c.es[e] /\ c.es[e] # "NOT_SIGNALED"
    <2>1. \A e \in Incoming(m) : c.es[e] # "NOT_SIGNALED"
        BY <1>1, <1>2, <1>6 DEF Coheres, InputsSignalled
    <2> QED BY <2>1, <1>3, <1>4, <1>5
<1>7. InputsSignalled(d)
    BY <1>6 DEF InputsSignalled
<1>8. ASSUME NEW m \in Node PROVE FollowedSignals(d, m)
    <2>1. CASE d.ns[m] = "NOT_ACTIVATED"
        BY <2>1 DEF FollowedSignals, Begun
    <2>2. CASE d.ns[m] # "NOT_ACTIVATED"
        <3>1. Selected(d, m) <=> Selected(c, m)
            BY <1>6, <2>2, SelectedFrame
        <3>2. CASE m = n
            BY <3>1, <3>2, <1>1, <1>2 DEF FollowedSignals, Begun
        <3>3. CASE m # n
            <4>1. FollowedSignals(c, m)
                BY DEF Coheres
            <4> QED BY <3>1, <3>3, <4>1, <1>2 DEF FollowedSignals, Begun
        <3> QED BY <3>2, <3>3
    <2> QED BY <2>1, <2>2
<1>9. ASSUME NEW m \in Node PROVE PassedOn(d, m)
    <2>1. CASE m = n
        BY <2>1, <1>2, <1>3, <1>5 DEF PassedOn, Outgoing
    <2>2. CASE m # n
        <3>1. d.ns[m] = c.ns[m] /\ \A e \in Outgoing(m) : d.es[e] = c.es[e]
            BY <2>2, <1>2, <1>3, <1>5 DEF Outgoing
        <3>2. PassedOn(c, m)
            BY DEF Coheres
        <3> QED BY <3>1, <3>2 DEF PassedOn
    <2> QED BY <2>1, <2>2
<1> QED BY <1>7, <1>8, <1>9 DEF Coheres, d

LEMMA ResettingCoheres ==
    ASSUME NEW c \in Case, NEW end \in LoopEnds, Coheres(c), NEW d,
           d.ns = ResetLoopBlock(c, end).ns, d.es = ResetLoopBlock(c, end).es
    PROVE  Coheres(d)
<1> DEFINE block == LoopBlock(end)
           internal == block \ {end}
<1>1. \A m \in Node : d.ns[m] = IF m \in block THEN "NOT_ACTIVATED" ELSE c.ns[m]
    BY DEF ResetLoopBlock, Case
<1>2. \A e \in Edge : d.es[e] = IF e[1] \in internal THEN "NOT_SIGNALED" ELSE c.es[e]
    BY DEF ResetLoopBlock, Case
<1>3. \A e \in ControlEdge : e[1] \in internal => e[2] \in block
    BY BodyFacts DEF LoopBlock
<1> HIDE DEF internal, block
<1>4. \A m \in Node : \A e \in Incoming(m) \cup Outgoing(m) : e \in Edge /\ e \in ControlEdge
    BY DEF Incoming, Outgoing, Edge
<1>5. ASSUME NEW m \in Node, d.ns[m] # "NOT_ACTIVATED"
      PROVE  /\ m \notin block /\ d.ns[m] = c.ns[m]
             /\ \A e \in Incoming(m) \cup Outgoing(m) : d.es[e] = c.es[e]
             /\ \A e \in Incoming(m) : c.es[e] # "NOT_SIGNALED"
    <2>1. m \notin block /\ d.ns[m] = c.ns[m]
        BY <1>1, <1>5
    <2>2. \A e \in Incoming(m) \cup Outgoing(m) : e[1] \notin internal
        BY <2>1, <1>3, <1>4 DEF Incoming, Outgoing, internal
    <2> QED BY <2>1, <2>2, <1>2, <1>4, <1>5 DEF Coheres, InputsSignalled
<1>6. InputsSignalled(d)
    BY <1>5 DEF InputsSignalled
<1>7. ASSUME NEW m \in Node PROVE FollowedSignals(d, m) /\ PassedOn(d, m)
    <2>1. CASE d.ns[m] = "NOT_ACTIVATED"
        BY <2>1 DEF FollowedSignals, PassedOn, Begun
    <2>2. CASE d.ns[m] # "NOT_ACTIVATED"
        <3>1. Selected(d, m) <=> Selected(c, m)
            BY <1>5, <2>2, SelectedFrame
        <3>2. FollowedSignals(c, m) /\ PassedOn(c, m)
            BY DEF Coheres
        <3>3. FollowedSignals(d, m)
            BY <3>1, <3>2, <1>5, <2>2 DEF FollowedSignals, Begun
        <3>4. PassedOn(d, m)
            BY <3>2, <1>5, <2>2 DEF PassedOn
        <3> QED BY <3>3, <3>4
    <2> QED BY <2>1, <2>2
<1> QED BY <1>6, <1>7 DEF Coheres

LEMMA NodeCompletes ==
    ASSUME NEW c \in Case, NEW n \in Node, NEW chosen,
           TypeOf[n] = "XOR_SPLIT" => <<n, chosen>> \in ControlEdge
    PROVE  Completes(c, CompleteNode(c, n, chosen), n)
<1> DEFINE d == CompleteNode(c, n, chosen)
<1>1. d.ns[n] = "COMPLETED" /\ \A m \in Node \ {n} : d.ns[m] = c.ns[m]
    BY DEF CompleteNode, Case
<1>2. \A e \in Edge : d.es[e] = IF e[1] = n THEN SignalOf(e, chosen) ELSE c.es[e]
    BY DEF CompleteNode, Case
<1> HIDE DEF d
<1>3. \A e \in Outgoing(n) : e \in Edge /\ e \in ControlEdge /\ e[1] = n /\ e = <<n, e[2]>>
    BY SchemaTypes DEF Outgoing, Edge
<1>4. PassedOn(d, n)
    <2>1. CASE TypeOf[n] # "XOR_SPLIT"
        BY <1>1, <1>2, <1>3, <2>1 DEF PassedOn, SignalOf
    <2>2. CASE TypeOf[n] = "XOR_SPLIT"
        <3>1. <<n, chosen>> \in Outgoing(n)
            BY <2>2 DEF Outgoing
        <3>2. ASSUME NEW e \in Outgoing(n)
              PROVE  d.es[e] = "TRUE_SIGNALED" <=> e = <<n, chosen>>
            <4>1. e = <<n, chosen>> <=> e[2] = chosen
                BY <1>3
            <4> QED BY <4>1, <1>2, <1>3, <2>2 DEF SignalOf
        <3> QED BY <3>1, <3>2, <1>1, <2>2 DEF PassedOn
    <2> QED BY <2>1, <2>2
<1> QED BY <1>1, <1>2, <1>4 DEF Completes, d, SignalOf

\* Firing a node completes it, and END the case, or takes a loop back to its start.
GoesOn(c, d, n) ==
    /\ Completes(c, d, n) /\ ~(TypeOf[n] = "LOOP_END" /\ Repeats(c, n))
    /\ d.data = c.data /\ d.completions = c.completions
    /\ d.corrected = c.corrected /\ d.round = c.round
    /\ d.state = IF TypeOf[n] = "END" THEN "COMPLETED" ELSE c.state

GoesBack(c, d, n) ==
    /\ n \in LoopEnds /\ Repeats(c, n)
    /\ \E r \in Case : /\ r = ResetLoopBlock(c, n)
                       /\ d.ns = r.ns /\ d.es = r.es
                       /\ d.round = r.round /\ d.corrected = r.corrected
    /\ d.data = c.data /\ d.completions = c.completions /\ d.state = c.state

LEMMA FiringEffect ==
    ASSUME K2Endpoints, NEW c \in Case, NEW n \in Node, NEW again, Fireable(c, n),
           EngineError(c, n, again) = ""
    PROVE  GoesOn(c, FireNode(c, n), n) \/ GoesBack(c, FireNode(c, n), n)
<1> DEFINE d == FireNode(c, n)
<1>1. \A chosen : /\ CompleteNode(c, n, chosen).data = c.data
                  /\ CompleteNode(c, n, chosen).completions = c.completions
                  /\ CompleteNode(c, n, chosen).corrected = c.corrected
                  /\ CompleteNode(c, n, chosen).round = c.round
                  /\ CompleteNode(c, n, chosen).state = c.state
    BY DEF CompleteNode, Case
<1>2. CASE TypeOf[n] = "END"
    <2>1. d = [c EXCEPT !.ns[n] = "COMPLETED", !.state = "COMPLETED"]
        BY <1>2 DEF FireNode
    <2>2. /\ d.ns[n] = "COMPLETED" /\ \A m \in Node \ {n} : d.ns[m] = c.ns[m]
          /\ d.es = c.es /\ d.data = c.data /\ d.state = "COMPLETED"
          /\ d.completions = c.completions /\ d.corrected = c.corrected /\ d.round = c.round
        BY <2>1 DEF Case
    <2>3. \A e \in Edge : e[1] # n
        BY <1>2, SchemaTypes, ActivityIsNode DEF K2Endpoints, Outgoing, Edge
    <2>4. Outgoing(n) = {}
        BY <2>3 DEF Outgoing, Edge
    <2>5. Completes(c, d, n)
        BY <1>2, <2>2, <2>3, <2>4 DEF Completes, PassedOn
    <2> QED BY <1>2, <2>2, <2>5 DEF GoesOn
<1>3. CASE TypeOf[n] = "XOR_SPLIT"
    <2> DEFINE v == DecisionValue(c, n)
    <2>1. n \in XorSplits /\ v \in Value
        BY <1>3, DecisionTypes DEF XorSplits, NodesOfType, EngineError, DecisionValue, Case
    <2>2. <<n, XorTarget[n][v]>> \in ControlEdge
        BY <2>1, DecisionTypes
    <2>3. d = CompleteNode(c, n, XorTarget[n][v])
        BY <1>3 DEF FireNode
    <2>4. Completes(c, d, n)
        BY <2>2, <2>3, NodeCompletes
    <2> QED BY <1>1, <1>3, <2>3, <2>4 DEF GoesOn
<1>4. CASE TypeOf[n] = "LOOP_END" /\ Repeats(c, n)
    <2>1. n \in LoopEnds
        BY <1>4 DEF LoopEnds, NodesOfType
    <2> DEFINE r == ResetLoopBlock(c, n)
    <2>2. r \in Case /\ r.data = c.data /\ r.completions = c.completions /\ r.state = c.state
        <3>1. r \in Case
            BY <2>1, ResetLoopBlockType
        <3>2. r.data = c.data /\ r.completions = c.completions /\ r.state = c.state
            BY DEF ResetLoopBlock, Case
        <3> QED BY <3>1, <3>2
    <2>3. d = [r EXCEPT !.iterations[n] = Bump(@)]
        BY <1>4 DEF FireNode, ResolveLoopEnd
    <2> HIDE DEF r, d
    <2>4. /\ d.ns = r.ns /\ d.es = r.es /\ d.round = r.round /\ d.corrected = r.corrected
          /\ d.data = r.data /\ d.completions = r.completions /\ d.state = r.state
        BY <2>2, <2>3 DEF Case
    <2> QED BY <1>4, <2>1, <2>2, <2>4 DEF r, d, GoesBack
<1>5. CASE TypeOf[n] \notin {"END", "XOR_SPLIT"} /\ ~(TypeOf[n] = "LOOP_END" /\ Repeats(c, n))
    <2>1. d = CompleteNode(c, n, n)
        BY <1>5 DEF FireNode, ResolveLoopEnd
    <2>2. Completes(c, d, n)
        BY <1>5, <2>1, NodeCompletes
    <2> QED BY <1>1, <1>5, <2>1, <2>2 DEF GoesOn
<1> QED BY <1>2, <1>3, <1>4, <1>5

LEMMA FiringCoheres ==
    ASSUME K2Endpoints, NEW c \in Case, NEW n \in Node, NEW again, Coheres(c),
           SignalsMatchNodes(c), Fireable(c, n), EngineError(c, n, again) = ""
    PROVE  Coheres(FireNode(c, n))
<1>1. CASE GoesOn(c, FireNode(c, n), n)
    BY <1>1, CompletingCoheres DEF Fireable, GoesOn
<1>2. CASE GoesBack(c, FireNode(c, n), n)
    BY <1>2, ResettingCoheres DEF GoesBack
<1> QED BY <1>1, <1>2, FiringEffect

\* An act of the worklist moves a step between ACTIVATED and RUNNING, if anything.
Handled(c, d) ==
    /\ d.es = c.es /\ d.state = c.state /\ d.data = c.data
    /\ d.corrected = c.corrected /\ d.completions = c.completions /\ d.round = c.round
    /\ \A n \in Node : \/ d.ns[n] = c.ns[n]
                       \/ Open(c, n) /\ Open(d, n)

LEMMA ActHandles ==
    ASSUME TypeOK, TracesBelongToActivation, NEW n \in Activities, NEW a \in Agent,
           WorklistAct(n, a) \/ Return(n, a) \/ Reset(n, a)
    PROVE  /\ ~busy /\ stored.state = "RUNNING" /\ Handled(stored, stored')
           /\ work' = stored' /\ refusal' = "" /\ UNCHANGED <<busy, sweep, order>>
<1> DEFINE c == stored
<1>1. c \in Case /\ n \in Node /\ TracesOfActivation(c)
    BY ActivityIsNode DEF TypeOK, TracesBelongToActivation
<1>2. /\ ~busy /\ stored.state = "RUNNING" /\ work' = stored'
      /\ refusal' = "" /\ UNCHANGED <<busy, sweep, order>>
    BY DEF WorklistAct, Claim, Start, Suspend, Resume, Fail, Return, Reset, Store,
           Claimable, Suspendable, Resumable, Failable, Returnable, Resettable
<1> HIDE DEF c
<1>3. Handled(c, ClaimActivity(c, n, a)) /\ Handled(c, ResumeActivity(c, n))
    BY <1>1 DEF Handled, ClaimActivity, ResumeActivity, Case
<1>4. ASSUME Open(c, n), NEW d \in DetailState
      PROVE  /\ Handled(c, StartActivity(c, n, a))
             /\ Handled(c, [StartActivity(c, n, a) EXCEPT !.detail[n] = d])
    BY <1>1, <1>4 DEF Handled, StartActivity, ClaimActivity, Open, Case
<1>5. Handled(c, ReturnActivity(c, n))
    BY <1>1 DEF Handled, ReturnActivity, ClearActivation, ReleaseClaim, Open, Case
<1>6. ASSUME Open(c, n) PROVE Handled(c, ResetActivity(c, n))
    BY <1>1, <1>6 DEF Handled, ResetActivity, ClearActivation, ReleaseClaim, Open, Case
<1>7. /\ Claimable(c, n, a) \/ Suspendable(c, n, a) \/ Failable(c, n, a) => Open(c, n)
      /\ \A force : Resettable(c, n, a, force) => Open(c, n)
    BY <1>1 DEF Claimable, Suspendable, Failable, Resettable, StartedOwner, Open,
                TracesOfActivation
<1>8. Handled(c, stored')
    <2>1. CASE WorklistAct(n, a)
        BY <2>1, <1>3, <1>4, <1>7
           DEF WorklistAct, Claim, Start, Suspend, Resume, Fail, Store, SuspendActivity,
               FailActivity, DetailState, c
    <2>2. CASE Return(n, a)
        BY <2>2, <1>5 DEF Return, Store, c
    <2>3. CASE Reset(n, a)
        BY <2>3, <1>6, <1>7 DEF Reset, Store, c
    <2> QED BY <2>1, <2>2, <2>3
<1> QED BY <1>2, <1>8 DEF c

LEMMA HandlingCoheres ==
    ASSUME NEW c, NEW d, Handled(c, d), Coheres(c)
    PROVE  Coheres(d)
<1>1. \A n \in Node : Selected(d, n) <=> Selected(c, n)
    BY SelectedFrame DEF Handled
<1>2. \A n \in Node : /\ d.ns[n] = "NOT_ACTIVATED" <=> c.ns[n] = "NOT_ACTIVATED"
                      /\ d.ns[n] = "SKIPPED" <=> c.ns[n] = "SKIPPED"
                      /\ d.ns[n] = "COMPLETED" <=> c.ns[n] = "COMPLETED"
                      /\ Begun(d, n) <=> Begun(c, n)
    BY DEF Handled, Open, Begun
<1>3. InputsSignalled(d)
    BY <1>2 DEF Handled, Coheres, InputsSignalled
<1>4. ASSUME NEW n \in Node PROVE FollowedSignals(d, n) /\ PassedOn(d, n)
    <2>1. FollowedSignals(c, n) /\ PassedOn(c, n) /\ d.es = c.es
        BY DEF Coheres, Handled
    <2> QED BY <2>1, <1>1, <1>2 DEF FollowedSignals, PassedOn
<1> QED BY <1>3, <1>4 DEF Coheres

\* What completing a step does besides.
LEMMA CompletionEffect ==
    ASSUME NEW c \in Case, NEW n \in Activities, NEW vals
    PROVE  LET d == CompleteActivity(c, n, vals) IN
           /\ Completes(c, d, n) /\ d.state = c.state
           /\ \A x \in Element : d.data[x] = IF x \in DOMAIN vals THEN vals[x] ELSE c.data[x]
           /\ \A m \in Node : d.completions[m] = IF m = n THEN Bump(c.completions[m])
                                                 ELSE c.completions[m]
           /\ \A m \in Node : d.corrected[m] = IF m = n THEN {} ELSE c.corrected[m]
           /\ \A l \in LoopEnds : d.round[l] = c.round[l] \cup DOMAIN vals
<1> DEFINE b == Written([EndCorrections(ReleaseClaim(c, n), n) EXCEPT
                            !.completions[n] = Bump(@)], vals)
           d == CompleteActivity(c, n, vals)
<1>1. n \in Node /\ TypeOf[n] = "ACTIVITY"
    BY ActivityIsNode
<1>2. /\ b.ns = c.ns /\ b.es = c.es /\ b.state = c.state
      /\ \A x \in Element : b.data[x] = IF x \in DOMAIN vals THEN vals[x] ELSE c.data[x]
      /\ \A m \in Node : b.completions[m] = IF m = n THEN Bump(c.completions[m])
                                            ELSE c.completions[m]
      /\ \A m \in Node : b.corrected[m] = IF m = n THEN {} ELSE c.corrected[m]
      /\ \A l \in LoopEnds : b.round[l] = c.round[l] \cup DOMAIN vals
    BY <1>1 DEF Written, EndCorrections, ReleaseClaim, Case
<1>3. d = CompleteNode(b, n, n)
    BY DEF CompleteActivity
<1>4. DOMAIN b = DOMAIN c
    BY DEF Written, EndCorrections, ReleaseClaim, Case
<1> HIDE DEF b, d
<1>5. /\ d.state = b.state /\ d.data = b.data /\ d.completions = b.completions
      /\ d.corrected = b.corrected /\ d.round = b.round
    BY <1>3 DEF CompleteNode
<1>6. /\ d.ns = [c.ns EXCEPT ![n] = "COMPLETED"]
      /\ d.es = [e \in Edge |-> IF e[1] = n THEN SignalOf(e, n) ELSE c.es[e]]
    BY <1>2, <1>3, <1>4 DEF CompleteNode, Case
<1>7. Completes(c, d, n)
    BY <1>1, <1>6 DEF Completes, PassedOn, SignalOf, Outgoing, Edge, Case
<1> QED BY <1>2, <1>5, <1>7 DEF d

\* What a correction of data leaves alone, and what it adds.
LEMMA CorrectionEffect ==
    ASSUME NEW c \in Case, NEW S \in SUBSET Element, NEW vals \in [S -> Value]
    PROVE  LET d == CorrectData(c, vals) IN
           /\ d.ns = c.ns /\ d.es = c.es /\ d.state = c.state
           /\ \A x \in Element : d.data[x] = IF x \in S THEN vals[x] ELSE c.data[x]
           /\ d.completions = c.completions
           /\ \A m \in Node : d.corrected[m] \subseteq c.corrected[m] \cup S
           /\ \A l \in LoopEnds : d.round[l] = c.round[l] \cup S
<1> DEFINE b == RecordDataCorrection(c, DOMAIN vals)
           d == CorrectData(c, vals)
<1>1. /\ b.ns = c.ns /\ b.es = c.es /\ b.state = c.state /\ b.data = c.data
      /\ b.completions = c.completions /\ b.round = c.round
    BY DEF RecordDataCorrection, Case
<1>2. \A m \in Node : b.corrected[m] \subseteq c.corrected[m] \cup S
    BY DEF RecordDataCorrection, Case
<1>3. b \in Case
    BY SchemaTypes DEF RecordDataCorrection, Case
<1>4. d = Written(b, vals)
    BY DEF CorrectData
<1> HIDE DEF b, d
<1>5. /\ d.ns = b.ns /\ d.es = b.es /\ d.state = b.state /\ d.completions = b.completions
      /\ d.corrected = b.corrected
    BY <1>3, <1>4 DEF Written, Case
<1>6. /\ \A x \in Element : d.data[x] = IF x \in S THEN vals[x] ELSE b.data[x]
      /\ \A l \in LoopEnds : d.round[l] = b.round[l] \cup S
    BY <1>3, <1>4 DEF Written, Case
<1> QED BY <1>1, <1>2, <1>5, <1>6 DEF d

-----------------------------------------------------------------------------
(***************************************************************************)
(* A case is alive: once begun its START has been taken up, and it is      *)
(* completed exactly by its END, when nothing else is left to do.          *)
(***************************************************************************)

Alive(c) ==
    /\ c.state # "NEW" => \A n \in NodesOfType("START") : c.ns[n] # "NOT_ACTIVATED"
    /\ c.state # "COMPLETED" => \A n \in NodesOfType("END") : c.ns[n] # "COMPLETED"
    /\ c.state = "COMPLETED" => \A n \in Node : ~Unresolved(c, n)

\* END is taken up last: what were left to do would have to reach it.
LEMMA EndIsLast ==
    ASSUME K2Endpoints, NEW rank, Ranks(rank), NEW c, Coheres(c), SignalsMatchNodes(c),
           NEW n \in NodesOfType("END"), c.ns[n] = "ACTIVATED"
    PROVE  \A m \in Node \ {n} : ~Unresolved(c, m)
<1> DEFINE Left == {m \in Node \ {n} : Unresolved(c, m)}
           N == Cardinality(Node)
           T == {N - rank[m] : m \in Left}
<1> SUFFICES ASSUME Left # {} PROVE FALSE
    OBVIOUS
<1>1. n \in Node /\ N \in Nat /\ \A m \in Node : rank[m] \in 0..N
    BY SchemaTypes, FS_CardinalityType DEF NodesOfType, Ranks
<1>2. \A m \in NodesOfType("END") : m = n
    <2>1. IsFiniteSet(NodesOfType("END"))
        BY SchemaTypes, FS_Subset DEF NodesOfType
    <2> QED BY <2>1, FS_Singleton DEF K2Endpoints
<1>3. ASSUME NEW m \in Left PROVE \E t \in Left : rank[m] < rank[t]
    <2>1. TypeOf[m] # "END"
        BY <1>2, <1>3 DEF NodesOfType
    <2>2. PICK e \in Outgoing(m) : TRUE
        BY <2>1, <1>3 DEF K2Endpoints
    <2>3. e \in Edge /\ e[1] = m /\ e \in Incoming(e[2]) /\ e[2] \in Node
        BY SchemaTypes, <2>2 DEF Outgoing, Incoming, Edge
    <2>4. c.es[e] = "NOT_SIGNALED"
        BY <1>3, <2>3 DEF SignalsMatchNodes
    <2>5. c.ns[e[2]] = "NOT_ACTIVATED"
        BY <2>3, <2>4 DEF Coheres, InputsSignalled
    <2>6. e[2] \in Left
        BY <2>3, <2>5 DEF Unresolved
    <2> QED BY <2>3, <2>6 DEF Ranks
<1> HIDE DEF N
<1>4. T \subseteq Nat /\ T # {}
    BY <1>1
<1>5. PICK x \in T : \A y \in T : x <= y
    BY <1>4, LeastNumber
<1>6. PICK m \in Left : x = N - rank[m]
    BY <1>5
<1>7. PICK t \in Left : rank[m] < rank[t]
    BY <1>3, <1>6
<1>8. PICK y \in T : y < x
    BY <1>1, <1>6, <1>7
<1> HIDE DEF T
<1>9. x <= y /\ x \in Nat /\ y \in Nat
    BY <1>4, <1>5
<1> QED BY <1>8, <1>9

LEMMA CompletingAlive ==
    ASSUME NEW c, NEW d, NEW n \in Node, Alive(c), c.ns[n] \in {"ACTIVATED", "RUNNING"},
           Completes(c, d, n), d.state = c.state, TypeOf[n] # "END"
    PROVE  Alive(d)
<1>1. c.state # "COMPLETED"
    BY DEF Alive, Unresolved
<1>2. \A m \in Node : d.ns[m] = IF m = n THEN "COMPLETED" ELSE c.ns[m]
    BY DEF Completes
<1>3. \A m \in NodesOfType("START") \cup NodesOfType("END") : m \in Node
    BY DEF NodesOfType
<1>4. n \notin NodesOfType("END")
    BY DEF NodesOfType
<1> QED BY <1>1, <1>2, <1>3, <1>4 DEF Alive

LEMMA EndingAlive ==
    ASSUME K2Endpoints, NEW rank, Ranks(rank), NEW c, NEW d, NEW n \in Node, Coheres(c),
           SignalsMatchNodes(c), c.ns[n] = "ACTIVATED", Completes(c, d, n),
           TypeOf[n] = "END", d.state = "COMPLETED"
    PROVE  Alive(d)
<1>1. n \in NodesOfType("END")
    BY DEF NodesOfType
<1>2. \A m \in Node \ {n} : ~Unresolved(c, m)
    BY <1>1, EndIsLast
<1>3. \A m \in Node : ~Unresolved(d, m)
    BY <1>2 DEF Unresolved, Completes
<1> QED BY <1>3 DEF Alive, Unresolved, NodesOfType

LEMMA ResettingAlive ==
    ASSUME K2Endpoints, NEW c \in Case, NEW end \in LoopEnds, NEW d, Alive(c),
           c.ns[end] = "ACTIVATED", d.state = c.state, d.ns = ResetLoopBlock(c, end).ns
    PROVE  Alive(d)
<1>1. end \in Node
    BY DEF LoopEnds, NodesOfType
<1>2. c.state # "COMPLETED"
    BY <1>1 DEF Alive, Unresolved
<1>3. \A m \in Node : d.ns[m] = IF m \in LoopBlock(end) THEN "NOT_ACTIVATED" ELSE c.ns[m]
    BY DEF ResetLoopBlock, Case
<1>4. \A m \in NodesOfType("START") : m \in Node /\ m \notin LoopBlock(end)
    BY BodyFacts, SchemaTypes DEF LoopBlock, K2Endpoints, NodesOfType, LoopEnds
<1> QED BY <1>2, <1>3, <1>4 DEF Alive, NodesOfType

LEMMA EvaluatingAlive ==
    ASSUME NEW c \in Case, NEW n \in Node, Alive(c), Evaluable(c, n)
    PROVE  Alive(EvaluateTarget(c, n))
<1> DEFINE d == EvaluateTarget(c, n)
<1>1. /\ d.ns[n] \in {"ACTIVATED", "SKIPPED"} /\ \A m \in Node \ {n} : d.ns[m] = c.ns[m]
      /\ d.state = c.state
    BY DEF EvaluateTarget, SkipNode, Case
<1>2. c.state # "COMPLETED"
    BY DEF Alive, Unresolved, Evaluable
<1> HIDE DEF d
<1>3. Alive(d)
    BY <1>1, <1>2 DEF Alive, NodesOfType
<1> QED BY <1>3 DEF d

LEMMA HandlingAlive ==
    ASSUME NEW c, NEW d, Alive(c), Handled(c, d)
    PROVE  Alive(d)
<1>1. \A n \in Node : /\ d.ns[n] = "NOT_ACTIVATED" <=> c.ns[n] = "NOT_ACTIVATED"
                      /\ d.ns[n] = "COMPLETED" <=> c.ns[n] = "COMPLETED"
                      /\ Unresolved(d, n) <=> Unresolved(c, n)
    BY DEF Handled, Open, Unresolved
<1>2. d.state = c.state
    BY DEF Handled
<1> QED BY <1>1, <1>2 DEF Alive, NodesOfType

-----------------------------------------------------------------------------
(***************************************************************************)
(* A completed step has written what it must.                              *)
(***************************************************************************)

Filled(c) == {x \in Element : c.data[x] # NoValue}

Supplied(c) == \A n \in Node : c.ns[n] = "COMPLETED" => Made(n) \subseteq Filled(c)

LEMMA SuppliedFrame ==
    ASSUME NEW c, NEW d, Supplied(c), Filled(c) \subseteq Filled(d),
           \A n \in Node : d.ns[n] = "COMPLETED" =>
               c.ns[n] = "COMPLETED" \/ Made(n) \subseteq Filled(d)
    PROVE  Supplied(d)
BY DEF Supplied

LEMMA CompletionSupplies ==
    ASSUME NEW c \in Case, NEW n \in Activities, NEW S \in SUBSET Writes[n],
           NEW vals \in [S -> Value], MandatorySupplied(c, n, vals), Supplied(c)
    PROVE  Supplied(CompleteActivity(c, n, vals))
<1> DEFINE d == CompleteActivity(c, n, vals)
<1>1. n \in Node /\ S \subseteq Element /\ Mandatory[n] \subseteq Element
    BY SchemaTypes, ActivityIsNode
<1>2. /\ Completes(c, d, n)
      /\ \A x \in Element : d.data[x] = IF x \in S THEN vals[x] ELSE c.data[x]
    BY CompletionEffect
<1> HIDE DEF d
<1>3. Filled(c) \cup S \subseteq Filled(d)
    BY <1>1, <1>2, SchemaTypes DEF Filled
<1>4. Mandatory[n] \subseteq S \cup Filled(c)
    BY <1>1 DEF MandatorySupplied, Filled
<1>5. Supplied(d)
    <2>1. ASSUME NEW m \in Node, d.ns[m] = "COMPLETED"
          PROVE  c.ns[m] = "COMPLETED" \/ Made(m) \subseteq Filled(d)
        BY <1>2, <1>3, <1>4, <2>1 DEF Completes, Made
    <2> QED BY <1>3, <2>1, SuppliedFrame
<1> QED BY <1>5 DEF d

-----------------------------------------------------------------------------
(***************************************************************************)
(* All three together, kept by every operation on a case.                  *)
(***************************************************************************)

Regular(c) == Coheres(c) /\ Alive(c) /\ Supplied(c)

LEMMA NewIsRegular ==
    ASSUME NEW data
    PROVE  Regular(NewCase(data))
<1> DEFINE c == NewCase(data)
<1>1. c.state = "NEW" /\ \A n \in Node : c.ns[n] = "NOT_ACTIVATED"
    BY DEF NewCase
<1> HIDE DEF c
<1>2. Regular(c)
    BY <1>1 DEF Regular, Coheres, InputsSignalled, FollowedSignals, PassedOn, Begun, Alive,
                Supplied, NodesOfType
<1> QED BY <1>2 DEF c

Begin(c) == [c EXCEPT !.state = "RUNNING",
                      !.ns = [n \in Node |-> IF TypeOf[n] = "START" THEN "ACTIVATED" ELSE @[n]]]

LEMMA BeginningIsRegular ==
    ASSUME K2Endpoints, NEW c \in Case, \A n \in Node : c.ns[n] = "NOT_ACTIVATED"
    PROVE  Regular(Begin(c))
<1> DEFINE d == Begin(c)
<1>1. /\ d.state = "RUNNING"
      /\ \A n \in Node : d.ns[n] = IF TypeOf[n] = "START" THEN "ACTIVATED" ELSE "NOT_ACTIVATED"
    BY DEF Begin, Case
<1>2. \A n \in Node : TypeOf[n] = "START" => Incoming(n) = {}
    BY DEF K2Endpoints
<1> HIDE DEF d
<1>3. Coheres(d)
    BY <1>1, <1>2 DEF Coheres, InputsSignalled, FollowedSignals, PassedOn, Begun
<1>4. Alive(d) /\ Supplied(d)
    BY <1>1 DEF Alive, Supplied, NodesOfType
<1> QED BY <1>3, <1>4 DEF Regular, d

LEMMA HandlingIsRegular ==
    ASSUME NEW c, NEW d, Regular(c), Handled(c, d)
    PROVE  Regular(d)
<1>1. Filled(d) = Filled(c) /\ \A n \in Node : d.ns[n] = "COMPLETED" => c.ns[n] = "COMPLETED"
    BY DEF Handled, Open, Filled
<1>2. Supplied(d)
    BY <1>1, SuppliedFrame DEF Regular
<1> QED BY <1>2, HandlingCoheres, HandlingAlive DEF Regular

LEMMA CorrectingIsRegular ==
    ASSUME NEW c \in Case, NEW S \in SUBSET Element, NEW vals \in [S -> Value], Regular(c)
    PROVE  Regular(CorrectData(c, vals))
<1> DEFINE d == CorrectData(c, vals)
<1>1. /\ d.ns = c.ns /\ d.es = c.es /\ d.state = c.state
      /\ \A x \in Element : d.data[x] = IF x \in S THEN vals[x] ELSE c.data[x]
    BY CorrectionEffect
<1> HIDE DEF d
<1>2. \A n \in Node : Selected(d, n) <=> Selected(c, n)
    BY <1>1, SelectedFrame
<1>3. Coheres(d)
    <2>1. InputsSignalled(d)
        BY <1>1 DEF Regular, Coheres, InputsSignalled
    <2>2. ASSUME NEW n \in Node PROVE FollowedSignals(d, n) /\ PassedOn(d, n)
        <3>1. FollowedSignals(c, n) /\ PassedOn(c, n)
            BY DEF Regular, Coheres
        <3> QED BY <1>1, <1>2, <3>1 DEF FollowedSignals, PassedOn, Begun
    <2> QED BY <2>1, <2>2 DEF Coheres
<1>4. Alive(d)
    BY <1>1 DEF Regular, Alive, Unresolved, NodesOfType
<1>5. Filled(c) \subseteq Filled(d)
    BY <1>1, SchemaTypes DEF Filled
<1>6. Supplied(d)
    BY <1>1, <1>5, SuppliedFrame DEF Regular
<1> QED BY <1>3, <1>4, <1>6 DEF Regular, d

LEMMA CompletionIsRegular ==
    ASSUME NEW c \in Case, NEW n \in Activities, NEW S \in SUBSET Writes[n],
           NEW vals \in [S -> Value], MandatorySupplied(c, n, vals), Open(c, n),
           SignalsMatchNodes(c), Regular(c)
    PROVE  Regular(CompleteActivity(c, n, vals))
<1> DEFINE d == CompleteActivity(c, n, vals)
<1>1. n \in Node /\ TypeOf[n] # "END" /\ c.ns[n] \in {"ACTIVATED", "RUNNING"}
    BY ActivityIsNode DEF Open
<1>2. Completes(c, d, n) /\ d.state = c.state
    BY CompletionEffect
<1>3. Supplied(d)
    BY CompletionSupplies DEF Regular
<1> HIDE DEF d
<1>4. Coheres(d) /\ Alive(d)
    BY <1>1, <1>2, CompletingCoheres, CompletingAlive DEF Regular
<1> QED BY <1>3, <1>4 DEF Regular, d

LEMMA EvaluatingIsRegular ==
    ASSUME K2Endpoints, NEW c \in Case, NEW n \in Node, SignalsMatchNodes(c),
           Evaluable(c, n), Regular(c)
    PROVE  Regular(EvaluateTarget(c, n))
<1> DEFINE d == EvaluateTarget(c, n)
<1>1. d.data = c.data /\ \A m \in Node : d.ns[m] = "COMPLETED" => c.ns[m] = "COMPLETED"
    BY DEF EvaluateTarget, SkipNode, Case
<1>2. Supplied(d)
    BY <1>1, SuppliedFrame DEF Regular, Filled
<1> QED BY <1>2, EvaluatingCoheres, EvaluatingAlive DEF Regular

LEMMA FiringIsRegular ==
    ASSUME K2Endpoints, NEW rank, Ranks(rank), NEW c \in Case, NEW n \in Node, NEW again,
           SignalsMatchNodes(c), Fireable(c, n), EngineError(c, n, again) = "", Regular(c)
    PROVE  Regular(FireNode(c, n))
<1> DEFINE d == FireNode(c, n)
<1>1. c.ns[n] = "ACTIVATED" /\ n \notin Activities
    BY ActivityIsNode DEF Fireable
<1>2. Coheres(d)
    BY FiringCoheres DEF Regular
<1>3. CASE GoesOn(c, d, n)
    <2> HIDE DEF d
    <2>1. Alive(d)
        BY <1>1, <1>3, CompletingAlive, EndingAlive DEF Regular, GoesOn
    <2>2. \A m \in Node : d.ns[m] = "COMPLETED" => c.ns[m] = "COMPLETED" \/ Made(m) = {}
        BY <1>1, <1>3 DEF GoesOn, Completes, Made
    <2>3. Supplied(d)
        BY <1>3, <2>2, SuppliedFrame DEF Regular, Filled, GoesOn
    <2> QED BY <1>2, <2>1, <2>3 DEF Regular, d
<1>4. CASE GoesBack(c, d, n)
    <2> HIDE DEF d
    <2>1. d.ns = ResetLoopBlock(c, n).ns
        BY <1>4 DEF GoesBack
    <2>2. Alive(d)
        BY <1>1, <1>4, <2>1, ResettingAlive DEF Regular, GoesBack
    <2>3. \A m \in Node : d.ns[m] = "COMPLETED" => c.ns[m] = "COMPLETED"
        BY <2>1 DEF ResetLoopBlock, Case
    <2>4. Supplied(d)
        BY <1>4, <2>3, SuppliedFrame DEF Regular, Filled, GoesBack
    <2> QED BY <1>2, <2>2, <2>4 DEF Regular, d
<1> QED BY <1>3, <1>4, FiringEffect

-----------------------------------------------------------------------------
(***************************************************************************)
(* What the nesting of blocks says of a marking: an edge is taken exactly  *)
(* when all the branches it lies in are.  A branch begins no later than    *)
(* what lies in it, so the ranks of the nodes carry the argument.          *)
(***************************************************************************)

Signalled(c, e) == c.es[e] # "NOT_SIGNALED"
Taken(c, e)     == c.es[e] = "TRUE_SIGNALED"

Explained(c, rank, branches, e) ==
    Signalled(c, e) =>
        /\ \A b \in branches[e] : Signalled(c, b) /\ rank[b[1]] <= rank[e[1]]
        /\ Taken(c, e) <=> \A b \in branches[e] : Taken(c, b)

\* What came in to a node that passed something on.
LEMMA Reached ==
    ASSUME K2Endpoints, NEW c \in Case, Coheres(c), NEW n \in Node, TypeOf[n] # "START",
           ~Unresolved(c, n)
    PROVE  /\ Incoming(n) # {} /\ \A i \in Incoming(n) : Signalled(c, i)
           /\ \/ c.ns[n] = "COMPLETED" /\ \E i \in Incoming(n) : Taken(c, i)
              \/ c.ns[n] = "SKIPPED" /\ \E i \in Incoming(n) : ~Taken(c, i)
           /\ c.ns[n] = "SKIPPED" /\ TypeOf[n] # "AND_JOIN" =>
                  \A i \in Incoming(n) : ~Taken(c, i)
<1>1. Incoming(n) # {}
    BY DEF K2Endpoints
<1>2. c.ns[n] \in {"COMPLETED", "SKIPPED"}
    BY DEF Unresolved, Case, NodeState
<1>3. \A i \in Incoming(n) : Signalled(c, i)
    BY <1>2 DEF Coheres, InputsSignalled, Signalled
<1>4. FollowedSignals(c, n)
    BY DEF Coheres
<1> QED BY <1>1, <1>2, <1>3, <1>4 DEF FollowedSignals, Selected, Begun, Taken

LEMMA EdgeExplained ==
    ASSUME K2Endpoints, NEW rank, Ranks(rank), NEW branches, Nested(branches),
           NEW c \in Case, Coheres(c), SignalsMatchNodes(c),
           NEW e \in ControlEdge, Signalled(c, e),
           \A f \in ControlEdge : rank[f[1]] < rank[e[1]] => Explained(c, rank, branches, f)
    PROVE  Explained(c, rank, branches, e)
<1> DEFINE n == e[1]
           All(B) == \A b \in B : Taken(c, b)
<1>1. /\ n \in Node /\ e \in Outgoing(n) /\ ~Unresolved(c, n) /\ rank[n] \in Nat
      /\ \A f \in ControlEdge : f[1] \in Node /\ rank[f[1]] \in Nat /\ rank[f[1]] < rank[f[2]]
    BY EdgesJoinNodes, FS_CardinalityType, SchemaTypes
       DEF Outgoing, Edge, SignalsMatchNodes, Signalled, Ranks
<1>2. PassedOn(c, n)
    BY <1>1 DEF Coheres
<1>3. CASE TypeOf[n] = "START"
    <2>1. branches[e] = {}
        BY <1>3 DEF Nested
    <2>2. c.ns[n] = "COMPLETED"
        BY <1>1, <1>3 DEF Unresolved, Case, NodeState, Coheres, FollowedSignals
    <2>3. Taken(c, e)
        BY <1>1, <1>2, <1>3, <2>2 DEF PassedOn, Taken
    <2> QED BY <2>1, <2>3 DEF Explained
<1> SUFFICES ASSUME TypeOf[n] # "START" PROVE Explained(c, rank, branches, e)
    BY <1>3
<1> HIDE DEF n
<1>4. /\ Incoming(n) # {}
      /\ \/ c.ns[n] = "COMPLETED" /\ \E i \in Incoming(n) : Taken(c, i)
         \/ c.ns[n] = "SKIPPED" /\ \E i \in Incoming(n) : ~Taken(c, i)
      /\ c.ns[n] = "SKIPPED" /\ TypeOf[n] # "AND_JOIN" => \A i \in Incoming(n) : ~Taken(c, i)
    BY <1>1, Reached
<1>5. ASSUME NEW i \in Incoming(n)
      PROVE  /\ i \in ControlEdge /\ i[2] = n /\ rank[i[1]] < rank[n]
             /\ \A b \in branches[i] : Signalled(c, b) /\ rank[b[1]] <= rank[i[1]]
             /\ Taken(c, i) <=> All(branches[i])
    <2>1. i \in ControlEdge /\ i[2] = n /\ rank[i[1]] < rank[n] /\ Signalled(c, i)
        BY <1>1, Reached DEF Incoming
    <2>2. Explained(c, rank, branches, i)
        BY <2>1 DEF n
    <2> QED BY <2>1, <2>2 DEF Explained
<1>6. \A i \in Incoming(n) : \A b \in branches[i] : b \in ControlEdge /\ rank[b[1]] <= rank[n]
    <2>1. branches \in [ControlEdge -> SUBSET ControlEdge]
        BY DEF Nested
    <2>2. ASSUME NEW i \in Incoming(n), NEW b \in branches[i]
          PROVE  b \in ControlEdge /\ rank[b[1]] <= rank[n]
        <3>1. i \in ControlEdge /\ rank[b[1]] <= rank[i[1]] /\ rank[i[1]] < rank[n]
            BY <1>5
        <3>2. b \in ControlEdge
            BY <2>1, <3>1
        <3>3. rank[b[1]] \in Nat /\ rank[i[1]] \in Nat /\ rank[n] \in Nat
            BY <1>1, <3>1, <3>2
        <3> QED BY <3>1, <3>2, <3>3
    <2> QED BY <2>2
<1>7. /\ c.ns[n] = "COMPLETED" /\ TypeOf[n] # "XOR_SPLIT" => Taken(c, e)
      /\ c.ns[n] = "SKIPPED" => ~Taken(c, e)
    BY <1>1, <1>2 DEF PassedOn, Taken
<1>8. CASE TypeOf[n] \notin {"XOR_SPLIT", "XOR_JOIN"}
    <2>1. \A i \in Incoming(n) : branches[e] = branches[i]
        <3>1. n \in Node \ NodesOfType("XOR_JOIN") /\ TypeOf[n] # "XOR_SPLIT"
            BY <1>1, <1>8 DEF NodesOfType
        <3>2. \A i \in Incoming(n) : branches[e] = branches[i] \cup {}
            BY <1>1, <3>1 DEF Nested
        <3> QED BY <3>2
    <2>2. \A b \in branches[e] : Signalled(c, b) /\ rank[b[1]] <= rank[n]
        BY <1>4, <1>5, <1>6, <2>1
    <2>3. Taken(c, e) <=> All(branches[e])
        BY <1>4, <1>5, <1>7, <1>8, <2>1
    <2> QED BY <2>2, <2>3 DEF Explained, n
<1>9. CASE TypeOf[n] = "XOR_SPLIT"
    <2>1. \A i \in Incoming(n) : branches[e] = branches[i] \cup {e}
        BY <1>1, <1>9 DEF Nested, NodesOfType
    <2>2. \A b \in branches[e] : Signalled(c, b) /\ rank[b[1]] <= rank[n]
        BY <1>1, <1>4, <1>5, <1>6, <2>1 DEF n
    <2>3. Taken(c, e) <=> All(branches[e])
        BY <1>4, <1>5, <1>7, <2>1
    <2> QED BY <2>2, <2>3 DEF Explained, n
<1>10. CASE TypeOf[n] = "XOR_JOIN"
    <2>1. PICK x \in XorSplits : Closes(branches, n, x)
        BY <1>1, <1>10 DEF Nested, NodesOfType
    <2>2. /\ \A k \in Incoming(x) : branches[k] = branches[e]
          /\ {branches[i] : i \in Incoming(n)} = {branches[e] \cup {d} : d \in Outgoing(x)}
        BY <1>1, <2>1 DEF Closes
    <2>3. x \in Node /\ TypeOf[x] = "XOR_SPLIT"
        BY DEF XorSplits, NodesOfType
    <2>4. ASSUME NEW i \in Incoming(n)
          PROVE  \E d \in Outgoing(x) : branches[i] = branches[e] \cup {d}
        BY <2>2
    <2>5. ASSUME NEW d \in Outgoing(x)
          PROVE  \E i \in Incoming(n) : branches[i] = branches[e] \cup {d}
        <3>1. branches[e] \cup {d} \in {branches[i] : i \in Incoming(n)}
            BY <2>2
        <3> QED BY <3>1
    <2>6. \A b \in branches[e] : Signalled(c, b) /\ rank[b[1]] <= rank[n]
        BY <1>4, <1>5, <1>6, <2>4
    <2>7. CASE c.ns[n] = "COMPLETED"
        <3>1. PICK i \in Incoming(n) : Taken(c, i)
            BY <1>4, <2>7
        <3>2. All(branches[e])
            BY <1>5, <2>4, <3>1
        <3> QED BY <1>7, <1>10, <2>6, <2>7, <3>2 DEF Explained, n
    <2>8. CASE c.ns[n] = "SKIPPED"
        <3>1. \A i \in Incoming(n) : ~Taken(c, i)
            BY <1>4, <1>10, <2>8
        <3>2. SUFFICES ASSUME All(branches[e]) PROVE FALSE
            BY <1>7, <2>6, <2>8 DEF Explained, n
        <3>3. ASSUME NEW d \in Outgoing(x)
              PROVE  Signalled(c, d) /\ ~Taken(c, d) /\ rank[x] < rank[n]
            <4>1. PICK i \in Incoming(n) : branches[i] = branches[e] \cup {d}
                BY <2>5
            <4>2. Signalled(c, d) /\ rank[d[1]] <= rank[i[1]] /\ rank[i[1]] < rank[n]
                BY <1>5, <4>1
            <4>3. ~Taken(c, d)
                BY <1>5, <3>1, <3>2, <4>1
            <4> QED BY <1>1, <1>5, <4>2, <4>3 DEF Outgoing
        <3>4. PICK d \in Outgoing(x) : d[1] = x /\ d \in Edge
            BY <2>3 DEF K2Endpoints, Outgoing, Edge
        <3>5. ~Unresolved(c, x)
            BY <3>3, <3>4 DEF SignalsMatchNodes, Signalled
        <3>6. PassedOn(c, x)
            BY <2>3 DEF Coheres
        <3>7. c.ns[x] # "COMPLETED"
            BY <2>3, <3>3, <3>6 DEF PassedOn, Taken
        <3>8. PICK k \in Incoming(x) : ~Taken(c, k) /\ Signalled(c, k)
            BY <2>3, <3>5, <3>7, Reached
        <3>9. k \in ControlEdge /\ k[2] = x /\ k[1] \in Node /\ rank[k[1]] < rank[x]
            BY <1>1 DEF Incoming
        <3>10. rank[k[1]] < rank[n]
            <4>1. rank[x] < rank[n]
                BY <3>3
            <4>2. rank[x] \in Nat /\ rank[n] \in Nat /\ rank[k[1]] \in Nat
                BY <1>1, <2>3, <3>9, <3>4 DEF n, Outgoing
            <4> QED BY <3>9, <4>1, <4>2
        <3>11. Explained(c, rank, branches, k)
            BY <3>9, <3>10 DEF n
        <3> QED BY <2>2, <3>2, <3>8, <3>11 DEF Explained
    <2> QED BY <1>4, <2>7, <2>8
<1> QED BY <1>8, <1>9, <1>10

LEMMA BranchesExplain ==
    ASSUME K2Endpoints, NEW rank, Ranks(rank), NEW branches, Nested(branches),
           NEW c \in Case, Coheres(c), SignalsMatchNodes(c)
    PROVE  \A e \in ControlEdge : Explained(c, rank, branches, e)
<1> DEFINE Bad == {e \in ControlEdge : ~Explained(c, rank, branches, e)}
           T == {rank[e[1]] : e \in Bad}
<1> SUFFICES ASSUME Bad # {} PROVE FALSE
    OBVIOUS
<1>1. \A e \in ControlEdge : rank[e[1]] \in Nat
    BY EdgesJoinNodes, FS_CardinalityType, SchemaTypes DEF Ranks, Edge
<1>2. T \subseteq Nat /\ T # {}
    BY <1>1
<1>3. PICK x \in T : \A y \in T : x <= y
    BY <1>2, LeastNumber
<1>4. PICK e \in Bad : x = rank[e[1]]
    BY <1>3
<1>5. ASSUME NEW f \in ControlEdge, rank[f[1]] < rank[e[1]]
      PROVE  Explained(c, rank, branches, f)
    <2>1. f \notin Bad
        BY <1>1, <1>3, <1>4, <1>5
    <2> QED BY <2>1
<1>6. Signalled(c, e)
    BY <1>4 DEF Explained
<1> QED BY <1>4, <1>5, <1>6, EdgeExplained

\* What the branches say of the joins.
LEMMA JoinsAgreeWhenNested ==
    ASSUME K2Endpoints, NEW rank, Ranks(rank), NEW branches, Nested(branches),
           NEW c \in Case, Coheres(c), SignalsMatchNodes(c),
           NEW n \in NodesOfType("AND_JOIN") \cup NodesOfType("XOR_JOIN")
    PROVE  JoinAgrees(c, n)
<1>1. n \in Node /\ TypeOf[n] \in {"AND_JOIN", "XOR_JOIN"}
    BY DEF NodesOfType
<1>2. SUFFICES ASSUME \A i \in Incoming(n) : Signalled(c, i)
               PROVE  IF TypeOf[n] = "AND_JOIN"
                      THEN TakenInto(c, n) \in {{}, Incoming(n)}
                      ELSE Cardinality(TakenInto(c, n)) <= 1
    BY DEF JoinAgrees, Signalled
<1>3. \A e \in ControlEdge : Explained(c, rank, branches, e)
    BY BranchesExplain
<1>4. PICK o \in Outgoing(n) : TRUE
    BY <1>1 DEF K2Endpoints
<1>5. \A i \in Incoming(n) : /\ i \in ControlEdge
                             /\ Taken(c, i) <=> \A b \in branches[i] : Taken(c, b)
    BY <1>2, <1>3 DEF Explained, Incoming
<1>6. CASE TypeOf[n] = "AND_JOIN"
    <2>1. n \in Node \ NodesOfType("XOR_JOIN") /\ TypeOf[n] # "XOR_SPLIT"
        BY <1>1, <1>6 DEF NodesOfType
    <2>2. \A i \in Incoming(n) : branches[o] = branches[i] \cup {}
        BY <2>1 DEF Nested
    <2>3. \A i, k \in Incoming(n) : Taken(c, i) => Taken(c, k)
        BY <1>5, <2>2
    <2> QED BY <1>6, <2>3 DEF TakenInto, Taken
<1>7. CASE TypeOf[n] = "XOR_JOIN"
    <2>1. n \in NodesOfType("XOR_JOIN")
        BY <1>1, <1>7 DEF NodesOfType
    <2>2. PICK x \in XorSplits : Closes(branches, n, x)
        BY <2>1 DEF Nested
    <2>3. {branches[i] : i \in Incoming(n)} = {branches[o] \cup {d} : d \in Outgoing(x)}
        BY <2>2 DEF Closes
    <2>4. x \in Node /\ TypeOf[x] = "XOR_SPLIT"
        BY DEF XorSplits, NodesOfType
    <2>5. ASSUME NEW i \in Incoming(n), Taken(c, i)
          PROVE  \E d \in Outgoing(x) : branches[i] = branches[o] \cup {d} /\ Taken(c, d)
        <3>1. PICK d \in Outgoing(x) : branches[i] = branches[o] \cup {d}
            BY <2>3
        <3> QED BY <1>5, <2>5, <3>1
    <2>6. ASSUME NEW d \in Outgoing(x), NEW d2 \in Outgoing(x), Taken(c, d), Taken(c, d2)
          PROVE  d = d2
        <3>1. d \in Edge /\ d[1] = x
            BY DEF Outgoing, Edge
        <3>2. c.ns[x] \in {"COMPLETED", "SKIPPED"}
            BY <2>4, <2>6, <3>1 DEF SignalsMatchNodes, Unresolved, Taken, Case, NodeState
        <3>3. PassedOn(c, x)
            BY <2>4 DEF Coheres
        <3> QED BY <2>4, <2>6, <3>2, <3>3 DEF PassedOn, Taken
    <2>7. ASSUME NEW i \in Incoming(n), NEW k \in Incoming(n), Taken(c, i), Taken(c, k)
          PROVE  i = k
        <3>1. branches[i] = branches[k]
            BY <2>5, <2>6, <2>7
        <3> QED BY <2>1, <3>1 DEF Nested
    <2>8. TakenInto(c, n) = {} \/ \E i : TakenInto(c, n) = {i}
        BY <2>7 DEF TakenInto, Taken
    <2>9. Cardinality(TakenInto(c, n)) \in {0, 1}
        BY <2>8, FS_EmptySet, FS_Singleton
    <2> QED BY <1>7, <2>9
<1> QED BY <1>1, <1>6, <1>7

LEMMA EndIsNotSkipped ==
    ASSUME K2Endpoints, NEW rank, Ranks(rank), NEW branches, Nested(branches),
           NEW c \in Case, Coheres(c), SignalsMatchNodes(c), NEW n \in NodesOfType("END")
    PROVE  c.ns[n] # "SKIPPED"
<1> SUFFICES ASSUME c.ns[n] = "SKIPPED" PROVE FALSE
    OBVIOUS
<1>1. n \in Node /\ TypeOf[n] = "END" /\ ~Unresolved(c, n)
    BY DEF NodesOfType, Unresolved
<1>2. PICK i \in Incoming(n) : Signalled(c, i) /\ ~Taken(c, i)
    BY <1>1, Reached
<1>3. i \in ControlEdge /\ branches[i] = {}
    BY <1>1 DEF Incoming, Nested
<1> QED BY <1>2, <1>3, BranchesExplain DEF Explained

\* A case nothing can be done about by the engine has a step to work on, or is done.
LEMMA RestingCaseHasWork ==
    ASSUME K2Endpoints, NEW rank, Ranks(rank), NEW branches, Nested(branches),
           NEW c \in Case, Coheres(c), SignalsMatchNodes(c), Alive(c), TracesOfActivation(c),
           c.state = "RUNNING", \A n \in Node : ~Fireable(c, n) /\ ~Evaluable(c, n)
    PROVE  \E n \in Activities : Open(c, n)
<1> SUFFICES ASSUME \A n \in Activities : ~Open(c, n) PROVE FALSE
    OBVIOUS
<1> DEFINE Left == {n \in Node : c.ns[n] = "NOT_ACTIVATED"}
           T == {rank[n] : n \in Left}
<1>1. ASSUME NEW n \in Node PROVE c.ns[n] \notin {"ACTIVATED", "RUNNING"}
    <2>1. CASE TypeOf[n] = "ACTIVITY"
        BY <2>1 DEF Activities, NodesOfType, Open
    <2>2. CASE TypeOf[n] # "ACTIVITY"
        <3>1. c.ns[n] # "ACTIVATED"
            BY <2>2 DEF Fireable
        <3>2. c.ns[n] # "RUNNING"
            BY <2>2, ActivityIsNode DEF TracesOfActivation, Open
        <3> QED BY <3>1, <3>2
    <2> QED BY <2>1, <2>2
<1>2. CASE Left = {}
    <2>1. PICK n : n \in NodesOfType("END")
        <3>1. NodesOfType("END") # {}
            BY FS_EmptySet DEF K2Endpoints
        <3> QED BY <3>1
    <2>2. c.ns[n] = "COMPLETED"
        <3>1. n \in Node
            BY <2>1 DEF NodesOfType
        <3>2. c.ns[n] # "SKIPPED"
            BY <2>1, EndIsNotSkipped
        <3> QED BY <1>1, <1>2, <3>1, <3>2 DEF Case, NodeState
    <2> QED BY <2>1, <2>2 DEF Alive
<1>3. CASE Left # {}
    <2>1. \A n \in Node : rank[n] \in Nat
        BY FS_CardinalityType, SchemaTypes DEF Ranks
    <2>2. T \subseteq Nat /\ T # {}
        BY <1>3, <2>1
    <2>3. PICK x \in T : \A y \in T : x <= y
        BY <2>2, LeastNumber
    <2>4. PICK n \in Left : x = rank[n]
        BY <2>3
    <2>5. ASSUME NEW e \in Edge, e[2] = n PROVE c.es[e] # "NOT_SIGNALED"
        <3>1. e[1] \in Node /\ rank[e[1]] < rank[n]
            BY <2>5, EdgesJoinNodes DEF Ranks
        <3>2. e[1] \notin Left
            <4> SUFFICES ASSUME e[1] \in Left PROVE FALSE
                OBVIOUS
            <4>1. rank[e[1]] \in T
                OBVIOUS
            <4> HIDE DEF T
            <4>2. x <= rank[e[1]]
                BY <2>3, <4>1
            <4> QED BY <2>1, <2>4, <3>1, <4>2
        <3>3. ~Unresolved(c, e[1])
            BY <1>1, <3>1, <3>2 DEF Unresolved
        <3> QED BY <3>3 DEF SignalsMatchNodes
    <2>6. Incoming(n) # {}
        BY DEF Alive, K2Endpoints, NodesOfType
    <2>7. Evaluable(c, n)
        BY <2>5, <2>6 DEF Evaluable, Incoming, SyncIncoming, Edge
    <2> QED BY <2>7
<1> QED BY <1>2, <1>3

-----------------------------------------------------------------------------
(***************************************************************************)
(* What is certain before a node is there when the node is begun.          *)
(***************************************************************************)

LEMMA CertainIsThere ==
    ASSUME NEW rank, Ranks(rank), NEW c \in Case, Coheres(c), SignalsMatchNodes(c),
           NEW scope \in SUBSET Node, NEW before, Certain(before, scope), NEW there,
           \A n \in scope : \/ before[n] \subseteq there
                            \/ /\ \A e \in Incoming(n) : e[1] \in scope
                               /\ Incoming(n) # {} /\ TypeOf[n] # "START",
           \A n \in scope : c.ns[n] = "COMPLETED" => Made(n) \subseteq there
    PROVE  \A n \in scope : Begun(c, n) => before[n] \subseteq there
<1> DEFINE Bad == {n \in scope : Begun(c, n) /\ ~(before[n] \subseteq there)}
           T == {rank[n] : n \in Bad}
<1> SUFFICES ASSUME Bad # {} PROVE FALSE
    OBVIOUS
<1>1. \A n \in Node : rank[n] \in Nat
    BY FS_CardinalityType, SchemaTypes DEF Ranks
<1>2. T \subseteq Nat /\ T # {}
    BY <1>1
<1>3. PICK x \in T : \A y \in T : x <= y
    BY <1>2, LeastNumber
<1>4. PICK n \in Bad : x = rank[n]
    BY <1>3
<1>5. /\ n \in Node /\ Incoming(n) # {} /\ TypeOf[n] # "START"
      /\ \A e \in Incoming(n) : e[1] \in scope
    BY <1>4
<1>6. Selected(c, n)
    BY <1>4, <1>5 DEF Coheres, FollowedSignals
<1>7. ASSUME NEW e \in Incoming(n), c.es[e] = "TRUE_SIGNALED"
      PROVE  before[e[1]] \cup Made(e[1]) \subseteq there
    <2>1. e \in Edge /\ e \in Outgoing(e[1]) /\ e[1] \in scope /\ rank[e[1]] < rank[n]
        BY <1>5 DEF Incoming, Outgoing, Edge, Ranks
    <2>2. PassedOn(c, e[1])
        BY <2>1 DEF Coheres
    <2>3. c.ns[e[1]] = "COMPLETED"
        BY <1>7, <2>1, <2>2 DEF SignalsMatchNodes, Unresolved, PassedOn, Case, NodeState
    <2>4. e[1] \notin Bad
        <3> SUFFICES ASSUME e[1] \in Bad PROVE FALSE
            OBVIOUS
        <3>1. rank[e[1]] \in T
            OBVIOUS
        <3> HIDE DEF T
        <3>2. x <= rank[e[1]]
            BY <1>3, <3>1
        <3> QED BY <1>1, <1>4, <2>1, <3>2
    <2> QED BY <2>1, <2>3, <2>4 DEF Begun
<1> DEFINE brought(e) == before[e[1]] \cup Made(e[1])
           coming == {brought(e) : e \in {i \in Incoming(n) : i[1] \in scope}}
<1>8. /\ before[n] \subseteq UNION coming
      /\ TypeOf[n] # "AND_JOIN" => \A made \in coming : before[n] \subseteq made
    BY <1>4 DEF Certain
<1>9. \A e \in Incoming(n) : brought(e) \in coming
    BY <1>5
<1>10. CASE TypeOf[n] = "AND_JOIN"
    <2>1. \A e \in Incoming(n) : brought(e) \subseteq there
        BY <1>6, <1>7, <1>10 DEF Selected
    <2>2. UNION coming \subseteq there
        <3> HIDE DEF brought
        <3> QED BY <2>1
    <2> QED BY <1>4, <1>8, <2>2
<1>11. CASE TypeOf[n] # "AND_JOIN"
    <2>1. PICK e \in Incoming(n) : c.es[e] = "TRUE_SIGNALED"
        BY <1>6, <1>11 DEF Selected
    <2>2. before[n] \subseteq brought(e) /\ brought(e) \subseteq there
        <3>1. brought(e) \in coming
            BY <1>9
        <3> HIDE DEF coming
        <3> QED BY <1>7, <1>8, <1>11, <2>1, <3>1
    <2> QED BY <1>4, <2>2
<1> QED BY <1>10, <1>11

\* Where a value is read to decide, it has been written.
LEMMA DecisionIsThere ==
    ASSUME K2Endpoints, NEW rank, Ranks(rank), NEW deciding \in SUBSET Node, NEW before,
           DecidesOnWritten(before, deciding), NEW c \in Case, Coheres(c),
           SignalsMatchNodes(c), Supplied(c), NEW n \in deciding, Begun(c, n)
    PROVE  Discriminator[n] \in Filled(c)
<1> DEFINE there == Filled(c)
<1>1. Certain(before, Node) /\ Discriminator[n] \in before[n]
    BY DEF DecidesOnWritten
<1>2. n \in Node
    OBVIOUS
<1>3. ASSUME NEW m \in Node
      PROVE  \/ before[m] \subseteq there
             \/ /\ \A e \in Incoming(m) : e[1] \in Node
                /\ Incoming(m) # {} /\ TypeOf[m] # "START"
    <2>1. CASE Incoming(m) = {}
        <3>1. before[m] \subseteq UNION {before[e[1]] \cup Made(e[1]) :
                                             e \in {i \in Incoming(m) : i[1] \in Node}}
            BY <1>1 DEF Certain
        <3>2. before[m] = {}
            BY <2>1, <3>1
        <3> QED BY <3>2
    <2>2. CASE Incoming(m) # {}
        BY <2>2, EdgesJoinNodes DEF K2Endpoints, Incoming, Edge
    <2> QED BY <2>1, <2>2
<1>4. \A m \in Node : c.ns[m] = "COMPLETED" => Made(m) \subseteq there
    BY DEF Supplied
<1> HIDE DEF there
<1>5. Node \in SUBSET Node
    OBVIOUS
<1>6. \A m \in Node : Begun(c, m) => before[m] \subseteq there
    BY <1>1, <1>3, <1>4, <1>5, CertainIsThere
<1>7. Discriminator[n] \in there
    BY <1>1, <1>2, <1>6
<1> QED BY <1>7 DEF there

\* What steps of the body have written, on the way through it to its end.
LEMMA RoundBrings ==
    ASSUME K2Endpoints, K6Closed, NEW rank, Ranks(rank), NEW within,
           RoundsDecideAfresh(within), NEW c \in Case, Coheres(c), SignalsMatchNodes(c),
           NEW end \in LoopEnds, NEW there,
           \A n \in Body[end] \cap Activities : c.ns[n] = "COMPLETED" => Made(n) \subseteq there,
           Begun(c, end)
    PROVE  Discriminator[end] \in there
<1> DEFINE scope == LoopBlock(end)
           start == StartOfLoop[end]
           before == within[end]
<1>1. /\ end \in Node /\ TypeOf[end] = "LOOP_END" /\ start \in Node
      /\ TypeOf[start] = "LOOP_START" /\ Body[end] \subseteq Node
      /\ scope = Body[end] \cup {start, end}
    BY SchemaTypes, BodyFacts DEF LoopEnds, NodesOfType, LoopBlock
<1>2. Certain(before, scope) /\ before[start] = {} /\ Discriminator[end] \in before[end]
    BY DEF RoundsDecideAfresh
<1>3. ASSUME NEW n \in scope
      PROVE  \/ before[n] \subseteq there
             \/ /\ \A e \in Incoming(n) : e[1] \in scope
                /\ Incoming(n) # {} /\ TypeOf[n] # "START"
    <2>1. CASE n = start
        BY <1>2, <2>1
    <2>2. CASE n \in Body[end] \cup {end}
        <3>1. \A e \in Incoming(n) : e[1] \in scope
            BY <1>1, <2>2 DEF K6Closed, Incoming
        <3>2. Incoming(n) # {} /\ TypeOf[n] # "START"
            BY <1>1, <2>2, BodyFacts DEF K2Endpoints
        <3> QED BY <3>1, <3>2
    <2> QED BY <1>1, <2>1, <2>2
<1>4. \A n \in scope : c.ns[n] = "COMPLETED" => Made(n) \subseteq there
    BY <1>1, ActivityIsNode DEF Made
<1>5. scope \in SUBSET Node /\ end \in scope
    BY <1>1
<1> HIDE DEF scope, before
<1>6. Begun(c, end) => before[end] \subseteq there
    BY <1>2, <1>3, <1>4, <1>5, CertainIsThere
<1> QED BY <1>2, <1>6

-----------------------------------------------------------------------------
(***************************************************************************)
(* The machine.  Both copies of the case stay regular; a pass that has     *)
(* changed nothing has found nothing to fire; and in a body gone back over *)
(* in this request no step has completed since.                            *)
(***************************************************************************)

Sweeping ==
    /\ ~busy => SweepStart
    /\ ~progress => pos = 0 /\ (phase = "evaluate" => \A n \in Node : ~Fireable(work, n))

NoWorkSinceRepetition ==
    \A end \in repeated : \A n \in Body[end] \cap Activities : work.ns[n] # "COMPLETED"

SoundInv == Regular(stored) /\ Regular(work) /\ Sweeping /\ NoWorkSinceRepetition

LEMMA SoundInit == Init => SoundInv
<1> SUFFICES ASSUME Init PROVE SoundInv
    OBVIOUS
<1>1. Regular(stored) /\ Regular(work)
    BY NewIsRegular DEF Init
<1>2. Sweeping /\ NoWorkSinceRepetition
    BY DEF Init, Sweeping, SweepStart, NoWorkSinceRepetition
<1> QED BY <1>1, <1>2 DEF SoundInv

LEMMA SweepStep ==
    ASSUME TypeOK, Sweeping, [Next]_vars
    PROVE  Sweeping'
<1> USE DEF Sweeping, SweepStart
<1>1. ASSUME NEW n \in Activities, NEW a \in Agent,
             WorklistAct(n, a) \/ Return(n, a) \/ Reset(n, a)
      PROVE  Sweeping'
    BY <1>1 DEF WorklistAct, Claim, Start, Suspend, Resume, Fail, Return, Reset, Store, sweep
<1>2. CASE Instantiate \/ \E n \in Activities, a \in Agent \cup {NoAgent} : Complete(n, a)
    BY <1>2 DEF Instantiate, Complete, OpenRequest, sweep
<1>3. CASE \E e \in Element, v \in Value : Correct(e, v)
    BY <1>3 DEF Correct, Store, sweep
<1>4. ASSUME NEW n \in Node, Fire(n) \/ Evaluate(n)
      PROVE  Sweeping'
    <2>1. busy /\ busy' = busy /\ progress' = TRUE
        BY <1>4 DEF Fire, Evaluate
    <2> QED BY <2>1
<1>5. CASE EndFirePhase
    <2>1. \A n \in Node : order[n] \in Nat
        BY PlaceType DEF TypeOK
    <2>2. ~progress => \A n \in Node : ~Fireable(work, n)
        BY <1>5, <2>1 DEF EndFirePhase, SweepDone, Ready
    <2> QED BY <1>5, <2>2 DEF EndFirePhase
<1>6. CASE NextPass
    BY <1>6 DEF NextPass
<1>7. CASE Commit \/ RollBack \/ \E n \in Node : Refuse(n)
    BY <1>7 DEF Commit, RollBack, Refuse, Answer
<1>8. CASE UNCHANGED vars
    BY <1>8 DEF vars, sweep
<1> QED BY <1>1, <1>2, <1>3, <1>4, <1>5, <1>6, <1>7, <1>8 DEF Next, Advance

LEMMA RepetitionStep ==
    ASSUME K2Endpoints, TypeOK, Sweeping, NoWorkSinceRepetition, [Next]_vars
    PROVE  NoWorkSinceRepetition'
<1> USE DEF NoWorkSinceRepetition
<1>0. work \in Case
    BY DEF TypeOK
<1>1. CASE ~busy /\ UNCHANGED sweep
    BY <1>1 DEF Sweeping, SweepStart, sweep
<1>2. ASSUME NEW n \in Node, Fire(n)
      PROVE  NoWorkSinceRepetition'
    <2>1. /\ Fireable(work, n) /\ EngineError(work, n, repeated) = ""
          /\ work' = FireNode(work, n)
          /\ repeated' = IF TypeOf[n] = "LOOP_END" /\ Repeats(work, n)
                         THEN repeated \cup {n} ELSE repeated
        BY <1>2 DEF Fire, NextInSweep, Ready
    <2>2. n \notin Activities
        BY <2>1, ActivityIsNode DEF Fireable
    <2>3. CASE GoesOn(work, work', n)
        <3>1. repeated' = repeated
            BY <2>1, <2>3 DEF GoesOn
        <3>2. \A m \in Activities : work'.ns[m] = work.ns[m]
            BY <2>2, <2>3, ActivityIsNode DEF GoesOn, Completes
        <3> QED BY <3>1, <3>2
    <2>4. CASE GoesBack(work, work', n)
        <3>1. n \in LoopEnds /\ work'.ns = ResetLoopBlock(work, n).ns
            BY <2>4 DEF GoesBack
        <3>2. \A m \in Node : work'.ns[m] = IF m \in LoopBlock(n) THEN "NOT_ACTIVATED"
                                            ELSE work.ns[m]
            BY <1>0, <3>1 DEF ResetLoopBlock, Case
        <3>3. \A m \in Body[n] : work'.ns[m] = "NOT_ACTIVATED"
            BY <3>1, <3>2, BodyFacts DEF LoopBlock
        <3> QED BY <2>1, <3>2, <3>3, ActivityIsNode
    <2> QED BY <1>0, <2>1, <2>3, <2>4, FiringEffect
<1>3. ASSUME NEW n \in Node, Evaluate(n)
      PROVE  NoWorkSinceRepetition'
    <2>1. \A m \in Node : work'.ns[m] = "COMPLETED" => work.ns[m] = "COMPLETED"
        BY <1>0, <1>3 DEF Evaluate, EvaluateTarget, SkipNode, Case
    <2> QED BY <1>3, <2>1, ActivityIsNode DEF Evaluate
<1>4. CASE EndFirePhase \/ NextPass
    BY <1>4 DEF EndFirePhase, NextPass
<1>5. CASE Commit \/ RollBack \/ \E n \in Node : Refuse(n)
    BY <1>5 DEF Commit, RollBack, Refuse, Answer
<1>6. CASE UNCHANGED vars
    BY <1>6 DEF vars, sweep
<1> QED BY <1>1, <1>2, <1>3, <1>4, <1>5, <1>6
    DEF Next, Advance, Instantiate, WorklistAct, Claim, Start, Suspend, Resume, Fail, Return,
        Reset, Complete, Correct, OpenRequest, Store

LEMMA RegularStep ==
    ASSUME K2Endpoints, K4Acyclic, TypeOK, TracesBelongToActivation, MarkingInv,
           Regular(stored), Regular(work), [Next]_vars
    PROVE  Regular(stored') /\ Regular(work')
<1>0. /\ stored \in Case /\ work \in Case
      /\ SignalsMatchNodes(stored) /\ SignalsMatchNodes(work)
    BY DEF TypeOK, MarkingInv, MarkingsConsistent
<1>1. CASE Instantiate
    <2>1. \A n \in Node : stored.ns[n] = "NOT_ACTIVATED"
        BY <1>1 DEF Instantiate, MarkingInv, Untouched
    <2>2. work' = Begin(stored) /\ stored' = stored
        BY <1>1 DEF Instantiate, OpenRequest, Begin
    <2> QED BY <1>0, <2>1, <2>2, BeginningIsRegular
<1>2. ASSUME NEW n \in Activities, NEW a \in Agent,
             WorklistAct(n, a) \/ Return(n, a) \/ Reset(n, a)
      PROVE  Regular(stored') /\ Regular(work')
    <2>1. Handled(stored, stored') /\ work' = stored'
        BY <1>2, ActHandles
    <2> QED BY <2>1, HandlingIsRegular
<1>3. ASSUME NEW n \in Activities, NEW a \in Agent \cup {NoAgent}, Complete(n, a)
      PROVE  Regular(stored') /\ Regular(work')
    <2>1. PICK S \in SUBSET Writes[n] : \E vals \in [S -> Value] :
              Completable(stored, n, a, vals) /\ OpenRequest(CompleteActivity(stored, n, vals))
        BY <1>3 DEF Complete
    <2>2. PICK vals \in [S -> Value] :
              Completable(stored, n, a, vals) /\ OpenRequest(CompleteActivity(stored, n, vals))
        BY <2>1
    <2>3. Open(stored, n) /\ MandatorySupplied(stored, n, vals)
        BY <2>2 DEF Completable
    <2>4. Regular(CompleteActivity(stored, n, vals))
        BY <1>0, <2>3, CompletionIsRegular
    <2> QED BY <2>2, <2>4 DEF OpenRequest
<1>4. ASSUME NEW e \in Element, NEW v \in Value, Correct(e, v)
      PROVE  Regular(stored') /\ Regular(work')
    <2>1. {e} \in SUBSET Element /\ [x \in {e} |-> v] \in [{e} -> Value]
        OBVIOUS
    <2>2. Regular(CorrectData(stored, [x \in {e} |-> v]))
        BY <1>0, <2>1, CorrectingIsRegular
    <2> QED BY <1>4, <2>2 DEF Correct, Store
<1>5. ASSUME NEW n \in Node, Fire(n)
      PROVE  Regular(stored') /\ Regular(work')
    <2>1. /\ Fireable(work, n) /\ EngineError(work, n, repeated) = ""
          /\ work' = FireNode(work, n) /\ stored' = stored
        BY <1>5 DEF Fire, NextInSweep, Ready
    <2>2. PICK rank : Ranks(rank)
        BY Ranked
    <2> QED BY <1>0, <2>1, <2>2, FiringIsRegular
<1>6. ASSUME NEW n \in Node, Evaluate(n)
      PROVE  Regular(stored') /\ Regular(work')
    <2>1. Evaluable(work, n) /\ work' = EvaluateTarget(work, n) /\ stored' = stored
        BY <1>6 DEF Evaluate, NextInSweep, Ready
    <2> QED BY <1>0, <2>1, EvaluatingIsRegular
<1>7. CASE EndFirePhase \/ NextPass \/ Commit \/ RollBack \/ \E n \in Node : Refuse(n)
    BY <1>7 DEF EndFirePhase, NextPass, Commit, RollBack, Refuse
<1>8. CASE UNCHANGED vars
    BY <1>8 DEF vars
<1> QED BY <1>1, <1>2, <1>3, <1>4, <1>5, <1>6, <1>7, <1>8 DEF Next, Advance

LEMMA SoundStep ==
    ASSUME K2Endpoints, K4Acyclic
    PROVE  TypeOK /\ TracesBelongToActivation /\ MarkingInv /\ SoundInv /\ [Next]_vars
               => SoundInv'
BY RegularStep, SweepStep, RepetitionStep DEF SoundInv

\* Where the engine comes to rest there is work left, and handling a step leaves it open.
LEMMA StuckStep ==
    ASSUME K2Endpoints, K4Acyclic, NEW branches, Nested(branches),
           TypeOK, TracesBelongToActivation, MarkingInv, SoundInv, NoStuckCase, [Next]_vars
    PROVE  NoStuckCase'
<1>0. /\ stored \in Case /\ work \in Case
      /\ SignalsMatchNodes(work) /\ TracesOfActivation(work)
      /\ Coheres(work) /\ Alive(work)
    BY DEF TypeOK, MarkingInv, MarkingsConsistent, TracesBelongToActivation, SoundInv, Regular
<1>1. ASSUME NEW n \in Activities, NEW a \in Agent,
             WorklistAct(n, a) \/ Return(n, a) \/ Reset(n, a)
      PROVE  NoStuckCase'
    <2>1. stored.state = "RUNNING" /\ Handled(stored, stored')
        BY <1>1, ActHandles
    <2>2. \A m \in Activities : Open(stored, m) => Open(stored', m)
        BY <2>1, ActivityIsNode DEF Handled, Open
    <2> QED BY <2>1, <2>2 DEF NoStuckCase
<1>2. ASSUME NEW e \in Element, NEW v \in Value, Correct(e, v)
      PROVE  NoStuckCase'
    <2>1. {e} \in SUBSET Element /\ [x \in {e} |-> v] \in [{e} -> Value]
        OBVIOUS
    <2>2. stored'.ns = stored.ns /\ stored'.state = stored.state
        <3> DEFINE d == CorrectData(stored, [x \in {e} |-> v])
        <3>1. d.ns = stored.ns /\ d.state = stored.state
            BY <1>0, <2>1, CorrectionEffect
        <3>2. stored' = d
            BY <1>2 DEF Correct, Store
        <3> HIDE DEF d
        <3> QED BY <3>1, <3>2
    <2> QED BY <2>2 DEF NoStuckCase, Open
<1>3. CASE Commit
    <2>1. \A n \in Node : order[n] \in Nat
        BY PlaceType DEF TypeOK
    <2>2. stored' = work /\ phase = "evaluate" /\ SweepDone /\ ~progress
        BY <1>3 DEF Commit
    <2>3. pos = 0 /\ \A n \in Node : ~Fireable(work, n)
        BY <2>2 DEF SoundInv, Sweeping
    <2>4. \A n \in Node : ~Evaluable(work, n)
        BY <2>1, <2>2, <2>3 DEF SweepDone, Ready
    <2>5. PICK rank : Ranks(rank)
        BY Ranked
    <2>6. work.state = "RUNNING" => \E n \in Activities : Open(work, n)
        BY <1>0, <2>3, <2>4, <2>5, RestingCaseHasWork
    <2> QED BY <2>2, <2>6 DEF NoStuckCase
<1>4. CASE UNCHANGED stored
    BY <1>4 DEF NoStuckCase
<1> QED BY <1>1, <1>2, <1>3, <1>4
    DEF Next, Advance, Instantiate, Complete, OpenRequest, Fire, Evaluate, Refuse,
        EndFirePhase, NextPass, RollBack, vars

LEMMA RefusalStep ==
    ASSUME K2Endpoints, K4Acyclic, NEW before, NEW within, Decidable(before, within),
           TypeOK, MarkingInv, SoundInv, NoEngineRefusal, [Next]_vars
    PROVE  NoEngineRefusal'
<1>0. /\ work \in Case /\ SignalsMatchNodes(work) /\ Coheres(work) /\ Supplied(work)
    BY DEF TypeOK, MarkingInv, MarkingsConsistent, SoundInv, Regular
<1>1. ASSUME NEW n \in Node, Refuse(n)
      PROVE  NoEngineRefusal'
    <2>1. /\ Fireable(work, n) /\ refusal' = EngineError(work, n, repeated)
          /\ EngineError(work, n, repeated) # ""
        BY <1>1 DEF Refuse, NextInSweep, Ready, Answer
    <2>2. PICK rank : Ranks(rank)
        BY Ranked
    <2>3. n \in XorSplits \cup LoopEnds /\ Begun(work, n)
        BY <2>1 DEF EngineError, XorSplits, LoopEnds, NodesOfType, Fireable, Begun
    <2>4. DecisionValue(work, n) # NoValue
        <3>1. XorSplits \subseteq Node /\ LoopEnds \subseteq Node
            BY DEF XorSplits, LoopEnds, NodesOfType
        <3>2. Discriminator[n] \in Filled(work)
            <4>1. CASE n \in XorSplits
                BY <1>0, <2>2, <2>3, <3>1, <4>1, DecisionIsThere DEF Decidable
            <4>2. CASE n \in LoopEnds /\ ~K6Closed
                BY <1>0, <2>2, <2>3, <3>1, <4>2, DecisionIsThere DEF Decidable
            <4>3. CASE n \in LoopEnds /\ K6Closed
                <5>1. \A m \in Body[n] \cap Activities :
                          work.ns[m] = "COMPLETED" => Made(m) \subseteq Filled(work)
                    BY <1>0, ActivityIsNode DEF Supplied
                <5>2. RoundsDecideAfresh(within)
                    BY <4>3 DEF Decidable
                <5> QED BY <1>0, <2>2, <2>3, <4>3, <5>1, <5>2, RoundBrings
            <4> QED BY <2>3, <4>1, <4>2, <4>3
        <3> QED BY <3>2 DEF Filled, DecisionValue
    <2>5. refusal' = "loop-broken" /\ n \in LoopEnds /\ n \in repeated
        BY <2>1, <2>4 DEF EngineError, LoopEnds, NodesOfType
    <2>6. \A m \in Body[n] \cap Activities : work.ns[m] # "COMPLETED"
        BY <2>5 DEF SoundInv, NoWorkSinceRepetition
    <2>7. ~K6Closed
        <3> SUFFICES ASSUME K6Closed PROVE FALSE
            OBVIOUS
        <3>1. RoundsDecideAfresh(within)
            BY DEF Decidable
        <3>2. Discriminator[n] \in {}
            BY <1>0, <2>2, <2>3, <2>5, <2>6, <3>1, RoundBrings
        <3> QED BY <3>2
    <2> QED BY <2>5, <2>7 DEF NoEngineRefusal, K6Closed
<1>2. CASE refusal' \in {"", refusal}
    BY <1>2 DEF NoEngineRefusal
<1> QED BY <1>1, <1>2
    DEF Next, Advance, Instantiate, WorklistAct, Claim, Start, Suspend, Resume, Fail, Return,
        Reset, Complete, Correct, OpenRequest, Store, Fire, Evaluate, EndFirePhase, NextPass,
        Commit, RollBack, Answer, vars

\* On a schema whose blocks nest and whose decisions are written before they are taken,
\* whatever its size, crew and order of nodes, a case is sound: its joins agree, it
\* never rests without work, it ends with nothing left open, and the engine never
\* refuses to go on (K1, K2, K4, K6, K7 as _advance and _fire_activated_node rely on them).
THEOREM CasesAreSound ==
    ASSUME K2Endpoints, K4Acyclic,
           NEW CONSTANT branches, Nested(branches),
           NEW CONSTANT before, NEW CONSTANT within, Decidable(before, within)
    PROVE  Spec => []CaseSound
<1>1. TypeOK /\ TracesBelongToActivation /\ MarkingInv /\ SoundInv /\ [Next]_vars => SoundInv'
    BY SoundStep
<1>2. TypeOK /\ TracesBelongToActivation /\ MarkingInv /\ SoundInv /\ NoStuckCase /\ [Next]_vars
          => NoStuckCase'
    BY StuckStep
<1>3. TypeOK /\ MarkingInv /\ SoundInv /\ NoEngineRefusal /\ [Next]_vars => NoEngineRefusal'
    BY RefusalStep
<1>4. TypeOK /\ TracesBelongToActivation /\ MarkingInv /\ SoundInv
          => JoinsAgree /\ ProperCompletion
    <2> SUFFICES ASSUME TypeOK, TracesBelongToActivation, MarkingInv, SoundInv
                 PROVE  JoinsAgree /\ ProperCompletion
        OBVIOUS
    <2>1. /\ work \in Case /\ SignalsMatchNodes(work) /\ Coheres(work)
          /\ Alive(stored) /\ TracesOfActivation(stored)
        BY DEF TypeOK, MarkingInv, MarkingsConsistent, TracesBelongToActivation, SoundInv,
               Regular
    <2>2. PICK rank : Ranks(rank)
        BY Ranked
    <2>3. JoinsAgree
        BY <2>1, <2>2, JoinsAgreeWhenNested DEF JoinsAgree
    <2>4. ProperCompletion
        BY <2>1 DEF ProperCompletion, Alive, TracesOfActivation, Open, Unresolved
    <2> QED BY <2>3, <2>4
<1>5. Init => NoStuckCase /\ NoEngineRefusal
    <2>1. \A data : NewCase(data).state = "NEW"
        BY DEF NewCase
    <2> QED BY <2>1 DEF Init, NoStuckCase, NoEngineRefusal
<1>6. TypeOK /\ TracesBelongToActivation /\ MarkingInv /\ [Next]_vars => MarkingInv'
    BY MarkingStep
<1>7. JoinsAgree /\ NoStuckCase /\ ProperCompletion /\ NoEngineRefusal => CaseSound
    BY DEF CaseSound
<1> QED
    BY <1>1, <1>2, <1>3, <1>4, <1>5, <1>6, <1>7, SoundInit, MarkingInit, TypeCorrect,
       TracesCorrectOnEverySchema, PTL DEF Spec

-----------------------------------------------------------------------------
(***************************************************************************)
(* Repetitions.  A correction made in an activation was made in the round  *)
(* it belongs to, so what a repeated step may rely on is of that round.    *)
(* Going back forgets a round and everything done in it together: a loop   *)
(* inside is forgotten as a whole.                                         *)
(***************************************************************************)

WrittenAfresh(c, end, n) ==
    c.ns[n] = "COMPLETED" /\ c.completions[n] >= 2 => Mandatory[n] \subseteq c.round[end]

RoundsKept(c) ==
    /\ \A end \in LoopEnds : \A n \in Body[end] :
           WrittenAfresh(c, end, n) /\ c.corrected[n] \subseteq c.round[end]
    /\ \A n \in Node \ Activities : c.completions[n] = 0

\* The nodes of a body are nodes.
LEMMA BodyIsOfNodes == \A end \in LoopEnds : \A n \in Body[end] : n \in Node
BY BodyFacts

LEMMA RoundsFrame ==
    ASSUME NEW c, NEW d, RoundsKept(c), d.completions = c.completions,
           \A end \in LoopEnds : c.round[end] \subseteq d.round[end],
           \A end \in LoopEnds : \A n \in Body[end] : d.corrected[n] \subseteq d.round[end],
           \A n \in Node : d.ns[n] = "COMPLETED" => c.ns[n] = "COMPLETED" \/ n \notin Activities
    PROVE  RoundsKept(d)
<1>1. \A n \in Node \ Activities : d.completions[n] = 0
    BY DEF RoundsKept
<1>2. ASSUME NEW end \in LoopEnds, NEW n \in Body[end]
      PROVE  WrittenAfresh(d, end, n)
    <2>1. n \in Node
        BY BodyIsOfNodes
    <2>2. CASE n \in Activities
        BY <2>1, <2>2 DEF RoundsKept, WrittenAfresh
    <2>3. CASE n \notin Activities
        BY <1>1, <2>1, <2>3 DEF WrittenAfresh
    <2> QED BY <2>2, <2>3
<1> QED BY <1>1, <1>2 DEF RoundsKept

LEMMA NewRounds ==
    ASSUME NEW data
    PROVE  RoundsKept(NewCase(data))
<1> DEFINE c == NewCase(data)
<1>1. \A n \in Node : c.ns[n] = "NOT_ACTIVATED" /\ c.corrected[n] = {} /\ c.completions[n] = 0
    BY DEF NewCase
<1> HIDE DEF c
<1>2. RoundsKept(c)
    BY <1>1, BodyIsOfNodes DEF RoundsKept, WrittenAfresh
<1> QED BY <1>2 DEF c

LEMMA CompletionRounds ==
    ASSUME NEW c \in Case, NEW n \in Activities, NEW S \in SUBSET Writes[n],
           NEW vals \in [S -> Value], MandatorySupplied(c, n, vals), RoundsKept(c)
    PROVE  RoundsKept(CompleteActivity(c, n, vals))
<1> DEFINE d == CompleteActivity(c, n, vals)
<1>1. /\ Completes(c, d, n)
      /\ \A m \in Node : d.completions[m] = IF m = n THEN Bump(c.completions[m])
                                            ELSE c.completions[m]
      /\ \A m \in Node : d.corrected[m] = IF m = n THEN {} ELSE c.corrected[m]
      /\ \A l \in LoopEnds : d.round[l] = c.round[l] \cup S
    BY CompletionEffect
<1> HIDE DEF d
<1>2. \A m \in Node \ Activities : d.completions[m] = 0
    BY <1>1 DEF RoundsKept
<1>3. ASSUME NEW end \in LoopEnds, NEW m \in Body[end]
      PROVE  WrittenAfresh(d, end, m) /\ d.corrected[m] \subseteq d.round[end]
    <2>1. /\ m \in Node /\ n \in Node
          /\ WrittenAfresh(c, end, m) /\ c.corrected[m] \subseteq c.round[end]
        BY ActivityIsNode, BodyIsOfNodes DEF RoundsKept
    <2>2. d.corrected[m] \subseteq d.round[end]
        BY <1>1, <2>1
    <2>3. CASE m # n
        BY <1>1, <2>1, <2>2, <2>3 DEF WrittenAfresh, Completes
    <2>4. CASE m = n
        <3>1. SUFFICES ASSUME d.completions[n] >= 2 PROVE Mandatory[n] \subseteq d.round[end]
            BY <2>2, <2>4 DEF WrittenAfresh
        <3>2. c.completions[n] \in Nat
            BY <2>1, BoundTypes DEF Case
        <3>3. c.completions[n] >= 1
            BY <1>1, <2>1, <3>1, <3>2, BoundTypes DEF Bump
        <3>4. Mandatory[n] \subseteq S \cup c.corrected[n]
            BY <3>3 DEF MandatorySupplied, IsRepeatedActivation
        <3> QED BY <1>1, <2>1, <2>4, <3>4
    <2> QED BY <2>3, <2>4
<1>4. RoundsKept(d)
    BY <1>2, <1>3 DEF RoundsKept
<1> QED BY <1>4 DEF d

LEMMA FiringRounds ==
    ASSUME K2Endpoints, LoopsNested, NEW c \in Case, NEW n \in Node, NEW again,
           Fireable(c, n), EngineError(c, n, again) = "", RoundsKept(c)
    PROVE  RoundsKept(FireNode(c, n))
<1> DEFINE d == FireNode(c, n)
<1>1. CASE GoesOn(c, d, n)
    <2> HIDE DEF d
    <2>1. \A m \in Node : d.ns[m] = "COMPLETED" => c.ns[m] = "COMPLETED" \/ m \notin Activities
        BY <1>1, ActivityIsNode DEF GoesOn, Completes, Fireable
    <2>2. /\ \A end \in LoopEnds : c.round[end] \subseteq d.round[end]
          /\ \A end \in LoopEnds : \A m \in Body[end] : d.corrected[m] \subseteq d.round[end]
        BY <1>1 DEF GoesOn, RoundsKept
    <2>3. d.completions = c.completions
        BY <1>1 DEF GoesOn
    <2>4. RoundsKept(d)
        BY <2>1, <2>2, <2>3, RoundsFrame
    <2> QED BY <2>4 DEF d
<1>2. CASE GoesBack(c, d, n)
    <2> HIDE DEF d
    <2> DEFINE block == LoopBlock(n)
    <2>1. PICK r \in Case : /\ r = ResetLoopBlock(c, n)
                            /\ d.ns = r.ns /\ d.round = r.round /\ d.corrected = r.corrected
        BY <1>2 DEF GoesBack
    <2>2. n \in LoopEnds /\ d.completions = c.completions
        BY <1>2 DEF GoesBack
    <2>3. /\ \A m \in Node : r.ns[m] = IF m \in block THEN "NOT_ACTIVATED" ELSE c.ns[m]
          /\ \A m \in Node : r.corrected[m] = IF m \in block THEN {} ELSE c.corrected[m]
          /\ \A l \in LoopEnds : r.round[l] = IF l \in block THEN {} ELSE c.round[l]
        BY <2>1 DEF ResetLoopBlock, Case
    <2>4. \A l \in LoopEnds \cap block : Body[l] \subseteq block
        <3>1. StartOfLoop[n] \notin LoopEnds
            BY <2>2, SchemaTypes DEF LoopEnds, NodesOfType
        <3>2. \A l \in LoopEnds \cap block : l = n \/ l \in Body[n]
            BY <3>1 DEF LoopBlock
        <3> QED BY <2>2, <3>2 DEF LoopsNested, LoopBlock
    <2> HIDE DEF block
    <2>5. ASSUME NEW end \in LoopEnds, NEW m \in Body[end]
          PROVE  WrittenAfresh(d, end, m) /\ d.corrected[m] \subseteq d.round[end]
        <3>1. m \in Node /\ WrittenAfresh(c, end, m) /\ c.corrected[m] \subseteq c.round[end]
            BY BodyIsOfNodes DEF RoundsKept
        <3>2. CASE m \in block
            BY <2>1, <2>3, <3>1, <3>2 DEF WrittenAfresh
        <3>3. CASE m \notin block
            <4>1. end \notin block
                BY <2>4, <3>3
            <4>2. d.round[end] = c.round[end]
                BY <2>1, <2>3, <4>1
            <4>3. d.ns[m] = c.ns[m] /\ d.corrected[m] = c.corrected[m]
                BY <2>1, <2>3, <3>1, <3>3
            <4> QED BY <2>2, <3>1, <4>2, <4>3 DEF WrittenAfresh
        <3> QED BY <3>2, <3>3
    <2>6. RoundsKept(d)
        BY <2>2, <2>5 DEF RoundsKept
    <2> QED BY <2>6 DEF d
<1> QED BY <1>1, <1>2, FiringEffect

RoundInv == RoundsKept(stored) /\ RoundsKept(work)

LEMMA RoundStep ==
    ASSUME K2Endpoints, LoopsNested
    PROVE  TypeOK /\ TracesBelongToActivation /\ RoundInv /\ [Next]_vars => RoundInv'
<1> SUFFICES ASSUME TypeOK, TracesBelongToActivation, RoundInv, [Next]_vars
             PROVE  RoundInv'
    OBVIOUS
<1> USE DEF RoundInv
<1>0. stored \in Case /\ work \in Case
    BY DEF TypeOK
<1>1. CASE Instantiate
    <2>1. work' = Begin(stored) /\ stored' = stored
        BY <1>1 DEF Instantiate, OpenRequest, Begin
    <2>2. RoundsKept(Begin(stored))
        <3> DEFINE d == Begin(stored)
        <3>1. /\ d.completions = stored.completions /\ d.round = stored.round
              /\ d.corrected = stored.corrected
            BY <1>0 DEF Begin, Case
        <3>2. \A n \in Node : d.ns[n] \in {"ACTIVATED", stored.ns[n]}
            BY <1>0 DEF Begin, Case
        <3> HIDE DEF d
        <3>3. \A end \in LoopEnds : \A n \in Body[end] : d.corrected[n] \subseteq d.round[end]
            BY <3>1 DEF RoundsKept
        <3>4. RoundsKept(d)
            BY <3>1, <3>2, <3>3, RoundsFrame
        <3> QED BY <3>4 DEF d
    <2> QED BY <2>1, <2>2
<1>2. ASSUME NEW n \in Activities, NEW a \in Agent,
             WorklistAct(n, a) \/ Return(n, a) \/ Reset(n, a)
      PROVE  RoundInv'
    <2>1. Handled(stored, stored') /\ work' = stored'
        BY <1>2, ActHandles
    <2>2. /\ \A end \in LoopEnds : \A m \in Body[end] :
                 stored'.corrected[m] \subseteq stored'.round[end]
          /\ \A m \in Node : stored'.ns[m] = "COMPLETED" => stored.ns[m] = "COMPLETED"
        BY <2>1 DEF RoundsKept, Handled, Open
    <2>3. RoundsKept(stored')
        BY <2>1, <2>2, RoundsFrame DEF Handled
    <2> QED BY <2>1, <2>3
<1>3. ASSUME NEW n \in Activities, NEW a \in Agent \cup {NoAgent}, Complete(n, a)
      PROVE  RoundInv'
    <2>1. PICK S \in SUBSET Writes[n] : \E vals \in [S -> Value] :
              Completable(stored, n, a, vals) /\ OpenRequest(CompleteActivity(stored, n, vals))
        BY <1>3 DEF Complete
    <2>2. PICK vals \in [S -> Value] :
              Completable(stored, n, a, vals) /\ OpenRequest(CompleteActivity(stored, n, vals))
        BY <2>1
    <2>3. MandatorySupplied(stored, n, vals)
        BY <2>2 DEF Completable
    <2>4. RoundsKept(CompleteActivity(stored, n, vals))
        BY <1>0, <2>3, CompletionRounds
    <2> QED BY <2>2, <2>4 DEF OpenRequest
<1>4. ASSUME NEW e \in Element, NEW v \in Value, Correct(e, v)
      PROVE  RoundInv'
    <2> DEFINE d == CorrectData(stored, [x \in {e} |-> v])
    <2>1. {e} \in SUBSET Element /\ [x \in {e} |-> v] \in [{e} -> Value]
        OBVIOUS
    <2>2. /\ d.ns = stored.ns /\ d.completions = stored.completions
          /\ \A m \in Node : d.corrected[m] \subseteq stored.corrected[m] \cup {e}
          /\ \A l \in LoopEnds : d.round[l] = stored.round[l] \cup {e}
        BY <1>0, <2>1, CorrectionEffect
    <2>3. stored' = d /\ work' = d
        BY <1>4 DEF Correct, Store
    <2> HIDE DEF d
    <2>4. \A end \in LoopEnds : \A n \in Body[end] : d.corrected[n] \subseteq d.round[end]
        BY <2>2, BodyIsOfNodes DEF RoundsKept
    <2>5. RoundsKept(d)
        BY <2>2, <2>4, RoundsFrame
    <2> QED BY <2>3, <2>5
<1>5. ASSUME NEW n \in Node, Fire(n)
      PROVE  RoundInv'
    <2>1. /\ Fireable(work, n) /\ EngineError(work, n, repeated) = ""
          /\ work' = FireNode(work, n) /\ stored' = stored
        BY <1>5 DEF Fire, NextInSweep, Ready
    <2> QED BY <1>0, <2>1, FiringRounds
<1>6. ASSUME NEW n \in Node, Evaluate(n)
      PROVE  RoundInv'
    <2> DEFINE d == EvaluateTarget(work, n)
    <2>1. work' = d /\ stored' = stored
        BY <1>6 DEF Evaluate
    <2>2. /\ d.completions = work.completions /\ d.round = work.round
          /\ d.corrected = work.corrected
        BY <1>0 DEF EvaluateTarget, SkipNode, Case
    <2>3. \A m \in Node : d.ns[m] \in {"ACTIVATED", "SKIPPED", work.ns[m]}
        BY <1>0 DEF EvaluateTarget, SkipNode, Case
    <2> HIDE DEF d
    <2>4. \A end \in LoopEnds : \A m \in Body[end] : d.corrected[m] \subseteq d.round[end]
        BY <2>2 DEF RoundsKept
    <2>5. RoundsKept(d)
        BY <2>2, <2>3, <2>4, RoundsFrame
    <2> QED BY <2>1, <2>5
<1>7. CASE EndFirePhase \/ NextPass \/ Commit \/ RollBack \/ \E n \in Node : Refuse(n)
    BY <1>7 DEF EndFirePhase, NextPass, Commit, RollBack, Refuse
<1>8. CASE UNCHANGED vars
    BY <1>8 DEF vars
<1> QED BY <1>1, <1>2, <1>3, <1>4, <1>5, <1>6, <1>7, <1>8 DEF Next, Advance

\* On a schema whose loops nest, a step that ran before has written what it must anew in
\* the current round of every loop around it, whatever was corrected, returned, reset or
\* rolled back in between (D1 of completion_value_findings).
THEOREM RepetitionsWriteAfresh ==
    ASSUME K2Endpoints, LoopsNested
    PROVE  Spec => []RepeatedStepWritesAfresh
<1>1. Init => RoundInv
    BY NewRounds DEF Init, RoundInv
<1>2. TypeOK /\ TracesBelongToActivation /\ RoundInv /\ [Next]_vars => RoundInv'
    BY RoundStep
<1>3. RoundInv => RepeatedStepWritesAfresh
    BY DEF RoundInv, RoundsKept, WrittenAfresh, RepeatedStepWritesAfresh
<1> QED
    BY <1>1, <1>2, <1>3, TypeCorrect, TracesCorrectOnEverySchema, PTL DEF Spec
=============================================================================
