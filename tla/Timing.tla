------------------------------- MODULE Timing -------------------------------
(***************************************************************************)
(* Target times over a case: the rules T1 and T2 that admit a deadline     *)
(* when the schema is edited (validator), the expected duration of a walk  *)
(* (simulation) and the urgency of an open step (worklist_priority).       *)
(*                                                                         *)
(* Four walks over the same graph that must agree: T2 charges a bounded    *)
(* loop to its LOOP_END, the simulation multiplies its nodes, the worklist *)
(* looks ahead from one step, and the engine runs the rounds.  Whole       *)
(* seconds stand for the floats; a pause earns no credit here.             *)
(***************************************************************************)
EXTENDS CaseExecution, Integers, SequencesExt

CONSTANTS
    Duration,   \* node -> max_duration_seconds, 0 where none is annotated
    Lead,       \* node -> target_lead_seconds, 0 where none is annotated
    MaxTime,    \* MAX_TIME_SECONDS
    Deadline    \* deadline_seconds a modeller tries to set

ASSUME TimingTypes ==
    /\ Duration \in [Node -> Nat] /\ Lead \in [Node -> Nat]
    /\ MaxTime \in Nat
    /\ Deadline \subseteq Int

\* The nodes in an order in which every node follows its predecessors.
TopologicalOrder ==
    LET first[k \in 0..Cardinality(Node)] ==
            IF k = 0 THEN <<>>
            ELSE LET before == first[k - 1]
                 IN  Append(before, CHOOSE n \in Node \ Range(before) :
                                        \A e \in Incoming(n) : e[1] \in Range(before))
    IN  first[Cardinality(Node)]

\* Longest path through S along control edges, up to each node of S.
LongestWithin(S, cost) ==
    FoldLeft(LAMBDA longest, n :
                 IF n \notin S THEN longest
                 ELSE [longest EXCEPT ![n] =
                          cost[n] + Max({0} \cup {longest[e[1]] : e \in {f \in Incoming(n) : f[1] \in S}})],
             [n \in S |-> 0], TopologicalOrder)

Enclosing(n) == {end \in LoopEnds : n \in LoopBlock(end)}

-----------------------------------------------------------------------------
(***************************************************************************)
(* T1, T2: whether a deadline can be promised.                             *)
(***************************************************************************)

\* _node_duration: the annotation and, at a LOOP_END, the repetitions charged to it.
NodeDuration(n, extras) == Duration[n] + IF n \in DOMAIN extras THEN extras[n] ELSE 0

\* Mutant: of the repetitions a loop may make, the first is not charged.
LoopTimeExtrasShort ==
    LET extra[end \in LoopEnds] ==
            LET block == LoopBlock(end)
                inner == [l \in (LoopEnds \cap block) \ {end} |-> extra[l]]
            IN  IF MaxIterations[end] < 2 THEN 0
                ELSE (MaxIterations[end] - 2)
                         * LongestWithin(block, [n \in block |-> NodeDuration(n, inner)])[end]
    IN  extra

\* _loop_time_extras, innermost loop first: a bounded loop repeats its longest path.
LoopTimeExtras ==
    LET extra[end \in LoopEnds] ==
            LET block == LoopBlock(end)
                inner == [l \in (LoopEnds \cap block) \ {end} |-> extra[l]]
            IN  IF MaxIterations[end] < 2 THEN 0
                ELSE (MaxIterations[end] - 1)
                         * LongestWithin(block, [n \in block |-> NodeDuration(n, inner)])[end]
    IN  extra

CriticalPath ==
    LET upTo == LongestWithin(Node, [n \in Node |-> NodeDuration(n, LoopTimeExtras)])
    IN  Max({upTo[n] : n \in Node})

\* _check_temporal for one deadline: T2 is asked only of well-formed annotations.
TemporalFindings(deadline) ==
    LET T1 == {r \in {"negative-deadline", "deadline-too-large", "duration-too-large", "lead-too-large"} :
                 \/ r = "negative-deadline"  /\ deadline < 0
                 \/ r = "deadline-too-large" /\ deadline > MaxTime
                 \/ r = "duration-too-large" /\ \E n \in Node : Duration[n] > MaxTime
                 \/ r = "lead-too-large"     /\ \E n \in Node : Lead[n] > MaxTime}
    IN  IF T1 # {} THEN T1 ELSE IF CriticalPath > deadline THEN {"T2.deadline"} ELSE {}

-----------------------------------------------------------------------------
(***************************************************************************)
(* The expected duration of a walk, as the simulation reports it.          *)
(***************************************************************************)

\* _loop_multipliers: rounds of nested loops multiply.
Multiplier(c, n) == FoldFunction(LAMBDA k, l : k * l, 1, [end \in Enclosing(n) |-> c.iterations[end] + 1])

WeightedDuration(c, n) == Duration[n] * Multiplier(c, n)

LongestCompletedPath(c, completed) ==
    LET upTo == LongestWithin(completed, [n \in completed |-> WeightedDuration(c, n)])
    IN  Max({0} \cup {upTo[n] : n \in completed})

ExpectedDuration(c) == LongestCompletedPath(c, {n \in Node : c.ns[n] = "COMPLETED"})

-----------------------------------------------------------------------------
(***************************************************************************)
(* The urgency of an open step, as the worklist orders it.                 *)
(***************************************************************************)

LongestAhead(cost) ==
    FoldRight(LAMBDA n, longest :
                  [longest EXCEPT ![n] = cost[n] + Max({0} \cup {longest[e[2]] : e \in Outgoing(n)})],
              TopologicalOrder, [n \in Node |-> 0])

\* Longest work from a step to the end, one pass through every loop ahead.
RemainingCriticalPath == LongestAhead(Duration)

Bands == <<"ON_TRACK", "WARNING", "AT_RISK", "OVERDUE">>

\* Half, four fifths and all of the target time.
BandOf(elapsed, target) ==
    IF elapsed >= target THEN 4
    ELSE IF 5 * elapsed >= 4 * target THEN 3
    ELSE IF 2 * elapsed >= target THEN 2 ELSE 1

Raised(band) == IF band < 4 THEN band + 1 ELSE 4

\* The target without a claim: the reaction time, in its place the duration.
TargetSeconds(n) == IF Lead[n] # 0 THEN Lead[n] ELSE Duration[n]

\* Rule B: the duration runs from the claim, the reaction time from activation.
EffectiveClock(c, n, waited, held) ==
    IF c.claimed[n] # NoAgent /\ Duration[n] # 0
    THEN [target |-> Duration[n], elapsed |-> held]
    ELSE [target |-> TargetSeconds(n), elapsed |-> waited]

\* assess: the band of a step that waits for `waited' seconds and is held for `held' of
\* them, `running' seconds after the case began.
Assess(c, n, waited, held, running, deadline) ==
    LET clock == EffectiveClock(c, n, waited, held)
        band  == BandOf(clock.elapsed, clock.target)
        slack == deadline - running - RemainingCriticalPath[n]
    IN  IF clock.target = 0 THEN "NONE"
        ELSE Bands[IF slack < 0 THEN Raised(band) ELSE band]

-----------------------------------------------------------------------------
(***************************************************************************)
(* Properties.                                                             *)
(***************************************************************************)

\* A loop without a bound is charged one pass: the promise is for the walk that does
\* not repeat it.
WithinBounds(c) == \A end \in LoopEnds : MaxIterations[end] >= 2 \/ c.iterations[end] = 0

\* The work done on the longest way through n, every run of a step charged in full.
Spent(c, n) ==
    LET done == [m \in Node |-> c.completions[m] * Duration[m]]
    IN  LongestWithin(Node, done)[n] + LongestAhead(done)[n] - done[n]

\* A deadline T2 admits can be kept: no walk within the bounds of its loops is expected
\* to take longer, and a step reached by steps that took no more than their time is not
\* shown as late for the deadline, whichever rounds and branches led to it
\* (_loop_time_extras against _loop_multipliers and remaining_critical_path_seconds).
AcceptedDeadlinesHold ==
    ~busy /\ WithinBounds(stored) => \A d \in {x \in Deadline : TemporalFindings(x) = {}} :
        /\ ExpectedDuration(stored) <= d
        /\ \A n \in Activities : Open(stored, n) =>
              Assess(stored, n, 0, 0, Spent(stored, n), d) \in {"NONE", "ON_TRACK"}
=============================================================================
