----------------------------- MODULE CaseRuns -------------------------------
(***************************************************************************)
(* Cases on a schema value.  A schema of SchemaRules gives the constants   *)
(* of CaseExecution, whose operators then run its cases; a request of the  *)
(* API is one step here, so _advance is its fixpoint: passes over the      *)
(* nodes, each firing what is ACTIVATED and then evaluating what is not,   *)
(* until one changes nothing.                                              *)
(*                                                                         *)
(* A SUBPROCESS is run as the step it is to this schema: one that writes   *)
(* the mapped outputs when it joins.                                       *)
(***************************************************************************)
EXTENDS SchemaOperations, FiniteSetsExt

CONSTANTS CaseValues,  \* the values a step may write
          Unset        \* the value of an element that is not set

Steps(v)    == OfTypes(v, {"ACTIVITY", "SUBPROCESS"})
Deciding(v) == DOMAIN v.xor \cup DOMAIN v.loop
DecisionOf(v, n) == IF n \in DOMAIN v.xor THEN v.xor[n] ELSE v.loop[n]

MayWrite(v, n)  == {a.element : a \in {b \in AccessesOf(v, n) : b.mode \in Writing}} \cup OutputWrites(v, n)
MustWrite(v, n) == MandatoryWrites(v, n) \cup OutputWrites(v, n)

\* The boolean shorthand repeats on its value, a partition on its repeat cells.
RepeatValues(d) ==
    {x \in CaseValues : IF d.cells = <<>> THEN x = d.repeat ELSE RepeatsOn(d.kind, d.cells, x)}

On(v) == INSTANCE CaseExecution WITH
    Node          <- Nodes(v),
    TypeOf        <- [n \in Nodes(v) |-> IF n \in Steps(v) THEN "ACTIVITY" ELSE v.type[n]],
    ControlEdge   <- v.flow,
    SyncEdge      <- v.sync,
    StartOfLoop   <- [e \in OfType(v, "LOOP_END") |->
                        CHOOSE n \in OfType(v, "LOOP_START") : e \in LoopWalk(v, n).ends],
    Element       <- DOMAIN v.element,
    Value         <- CaseValues,
    NoValue       <- Unset,
    Writes        <- [n \in Nodes(v) |-> MayWrite(v, n)],
    Mandatory     <- [n \in Nodes(v) |-> MustWrite(v, n)],
    Discriminator <- [n \in Deciding(v) |-> DecisionOf(v, n).disc],
    XorTarget     <- [n \in DOMAIN v.xor |-> [x \in CaseValues |->
                        ResolveTarget(v.xor[n].kind, v.xor[n].cells, x, 0)]],
    RepeatOn      <- [n \in DOMAIN v.loop |-> RepeatValues(v.loop[n])],
    MaxIterations <- [n \in DOMAIN v.loop |-> v.loop[n].max],
    Agent <- {}, NoAgent <- "nobody", StaffRule <- [n \in Steps(v) |-> {}],
    Automatic <- {}, Orders <- {}, InitialData <- {}, CountBound <- 4,
    stored <- 0, work <- 0, busy <- FALSE, phase <- "fire", pos <- 0,
    progress <- FALSE, repeated <- {}, order <- 0, refusal <- ""

\* A run is [c, why, again]: the case, the reason the engine refuses it, and
\* the loop ends that repeated in this request.
FireIn(v, run, n) ==
    IF run.why # "" \/ ~On(v)!Fireable(run.c, n) THEN run
    ELSE IF On(v)!EngineError(run.c, n, run.again) # ""
    THEN [run EXCEPT !.why = On(v)!EngineError(run.c, n, run.again)]
    ELSE [run EXCEPT !.c = On(v)!FireNode(run.c, n),
                     !.again = IF v.type[n] = "LOOP_END" /\ On(v)!Repeats(run.c, n)
                               THEN @ \cup {n} ELSE @]

EvaluateIn(v, run, n) ==
    IF run.why = "" /\ On(v)!Evaluable(run.c, n)
    THEN [run EXCEPT !.c = On(v)!EvaluateTarget(run.c, n)] ELSE run

\* One pass fires and then evaluates, in an order FoldSet picks (the runs of
\* MCCaseExecution take a case through its nodes in two orders).
Pass(v, run) ==
    FoldSet(LAMBDA n, r : EvaluateIn(v, r, n),
            FoldSet(LAMBDA n, r : FireIn(v, r, n), run, Nodes(v)), Nodes(v))

\* Every pass but the last changes a marking, so 3 per node are enough.
Advanced(v, c) ==
    LET pass[k \in Nat] ==
            IF k = 0 THEN <<FALSE, [c |-> c, why |-> "", again |-> {}]>>
            ELSE LET before == pass[k - 1]
                     after  == Pass(v, before[2])
                 IN  IF before[1] THEN before ELSE <<after = before[2], after>>
    IN  pass[3 * Cardinality(Nodes(v))][2]

Started(v) ==
    LET c == On(v)!NewCase([e \in DOMAIN v.element |-> Unset])
    IN  Advanced(v, [c EXCEPT !.state = "RUNNING",
                              !.ns = [n \in Nodes(v) |-> IF v.type[n] = "START"
                                                         THEN "ACTIVATED" ELSE @[n]]])

OpenSteps(v, c) == {n \in Steps(v) : c.ns[n] \in {"ACTIVATED", "RUNNING"}}

MayComplete(v, c, n, vals) == On(v)!Completable(c, n, "nobody", vals)
Completed(v, c, n, vals)   == Advanced(v, On(v)!CompleteActivity(c, n, vals))

=============================================================================
