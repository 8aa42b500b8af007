------------------------------ MODULE CaseTree ------------------------------
(***************************************************************************)
(* Cases that call cases: a SUBPROCESS node spawns a child case, the child *)
(* joins its parent when it ends, an ad-hoc change gives one running case  *)
(* a schema variant of its own (execution.py, adhoc.py and the boundary    *)
(* bookkeeping of api.py).                                                 *)
(*                                                                         *)
(* The fixpoint inside one case is the subject of CaseExecution.  Here the *)
(* schemas are chains -- at most one loop, no branching -- so a case has   *)
(* one frontier, and the steps of the machine are those that cross from    *)
(* one case into another.  A request works on a copy of all cases; `stack' *)
(* holds the advances in flight, the innermost last.                       *)
(***************************************************************************)
EXTENDS Naturals, Sequences, FiniteSets

CONSTANTS
    CaseId, Root,    \* cases, and the one a user starts
    Schema, RootSchema,
    Chain,           \* schema -> its nodes in flow order
    Node,
    TypeOf,          \* node -> START, ACTIVITY, SUBPROCESS, LOOP_START, LOOP_END, END
    Target,          \* SUBPROCESS node -> the schema it calls
    Inserted,        \* the node an ad-hoc change may add, in no schema's chain
    Deletable,       \* the nodes an ad-hoc change may remove
    MaxRounds,       \* bound: repetitions of a loop in one case
    NoCase, NoNode

ASSUME TreeTypes ==
    /\ Root \in CaseId /\ RootSchema \in Schema
    /\ Chain \in [Schema -> Seq(Node)]
    /\ \A s \in Schema : \A i, j \in 1..Len(Chain[s]) : Chain[s][i] = Chain[s][j] => i = j
    /\ TypeOf \in [Node -> {"START", "ACTIVITY", "SUBPROCESS", "LOOP_START", "LOOP_END", "END"}]
    /\ Target \in [{n \in Node : TypeOf[n] = "SUBPROCESS"} -> Schema]
    /\ Inserted \subseteq Node /\ Deletable \subseteq Node
    /\ \A n \in Inserted \cup Deletable : TypeOf[n] = "ACTIVITY"
    /\ NoCase \notin CaseId /\ NoNode \notin Node
    /\ MaxRounds \in Nat

\* What the rules K1, K2 and K6 make of a released chain: START and END are its ends, a
\* loop is opened before it is closed, and its body holds a step that writes what the
\* loop decides on (K6c; D4 lets only activities write).
ASSUME ChainsKeepTheRules ==
    \A s \in Schema : LET chain == Chain[s] IN
    /\ Len(chain) > 1
    /\ \A i \in 1..Len(chain) :
           /\ chain[i] \notin Inserted
           /\ TypeOf[chain[i]] = "START" <=> i = 1
           /\ TypeOf[chain[i]] = "END" <=> i = Len(chain)
           /\ TypeOf[chain[i]] = "LOOP_START" =>
                  \E a, j \in 1..Len(chain) : /\ i < a /\ TypeOf[chain[a]] = "ACTIVITY"
                                              /\ a < j /\ TypeOf[chain[j]] = "LOOP_END"
           /\ TypeOf[chain[i]] = "LOOP_END" =>
                  \E j \in 1..Len(chain) : j < i /\ TypeOf[chain[j]] = "LOOP_START"
    /\ \A i, j \in 1..Len(chain) :
           TypeOf[chain[i]] = TypeOf[chain[j]] /\ TypeOf[chain[i]] \in {"LOOP_START", "LOOP_END"}
               => i = j

VARIABLES
    cases,     \* the cases as stored
    work,      \* the copy of the request in flight
    stack,     \* advances in flight: [case, using], the innermost last
    origin,    \* the case the request was made on
    baseline,  \* its nodes that were ready before the request
    walk,      \* the case whose join the boundary audits next
    refusal    \* "key-error" when the last request crashed in the engine

vars == <<cases, work, stack, origin, baseline, walk, refusal>>

States == {"none", "NOT_ACTIVATED", "ACTIVATED", "RUNNING", "COMPLETED"}

(***************************************************************************)
(* A case.  `path' is its effective schema, `signaled' the edges with a    *)
(* TRUE signal and `dropped' those whose marking an ad-hoc change removed; *)
(* `announced' are the ready steps whose activation was stamped and        *)
(* mailed, `unaudited' the SUBPROCESS completions missing in the audit.    *)
(***************************************************************************)
Case == [state     : {"ABSENT", "RUNNING", "COMPLETED"},
         schema    : Schema,
         path      : Seq(Node),
         ns        : [Node -> States],
         signaled  : SUBSET (Node \X Node),
         dropped   : SUBSET (Node \X Node),
         child     : [Node -> CaseId \cup {NoCase}],
         parent    : CaseId \cup {NoCase},
         pnode     : Node \cup {NoNode},
         rounds    : 0..MaxRounds,
         announced : SUBSET Node,
         unaudited : SUBSET Node]

Nodes(path)    == {path[i] : i \in 1..Len(path)}
Edges(path)    == {<<path[i], path[i + 1]>> : i \in 1..(Len(path) - 1)}
EdgesFrom(n, path) == {e \in Edges(path) : e[1] = n}
Top            == stack[Len(stack)]
Busy           == stack # <<>> \/ walk # NoCase
ReadySteps(c)  == {n \in Nodes(c.path) : TypeOf[n] = "ACTIVITY" /\ c.ns[n] = "ACTIVATED"}

\* instantiate: a fresh case whose START is activated.
NewCase(s, parent, pnode) ==
    [state |-> "RUNNING", schema |-> s, path |-> Chain[s],
     ns |-> [n \in Node |-> IF n \notin Nodes(Chain[s]) THEN "none"
                            ELSE IF TypeOf[n] = "START" THEN "ACTIVATED" ELSE "NOT_ACTIVATED"],
     signaled |-> {}, dropped |-> {}, child |-> [n \in Node |-> NoCase], parent |-> parent, pnode |-> pnode,
     rounds |-> 0, announced |-> {}, unaudited |-> {}]

AbsentCase == [NewCase(RootSchema, NoCase, NoNode) EXCEPT !.state = "ABSENT"]

-----------------------------------------------------------------------------
(***************************************************************************)
(* The engine on one case, along the schema `using' it was called with.    *)
(***************************************************************************)

\* Mutant: the node signals its edges and stays activated.
CompleteNodeUnmarked(c, n, using) ==
    [c EXCEPT !.signaled = @ \cup EdgesFrom(n, using), !.dropped = @ \ EdgesFrom(n, using)]

CompleteNode(c, n, using) ==
    [c EXCEPT !.ns[n] = "COMPLETED",
              !.signaled = @ \cup EdgesFrom(n, using),
              !.dropped = @ \ EdgesFrom(n, using)]

Evaluable(c, n, using) ==
    /\ n \in Nodes(using) /\ c.ns[n] = "NOT_ACTIVATED"
    /\ \E e \in Edges(using) : e[2] = n /\ e \in c.signaled

\* SUBPROCESS: a node that is still linked to a child waits for it.
Fireable(c, n, using) ==
    /\ n \in Nodes(using) /\ c.ns[n] = "ACTIVATED" /\ TypeOf[n] # "ACTIVITY"
    /\ TypeOf[n] = "SUBPROCESS" => c.child[n] = NoCase

\* A LOOP_START and everything up to its LOOP_END; a chain has at most one loop.
LoopBlock(using) ==
    LET first == CHOOSE i \in 1..Len(using) : TypeOf[using[i]] = "LOOP_START"
        last  == CHOOSE i \in 1..Len(using) : TypeOf[using[i]] = "LOOP_END"
    IN  {using[i] : i \in first..last}

\* The edges of `using' a repetition unmarks.
LoopEdges(using) == {e \in Edges(using) : e[1] \in LoopBlock(using) /\ e[2] \in LoopBlock(using)}

\* Mutant: the link to the child of the finished round is kept.
ResetLoopBlockLinked(c, using) ==
    LET block == LoopBlock(using)
    IN  [c EXCEPT !.ns       = [n \in Node |-> IF n \in block THEN "NOT_ACTIVATED" ELSE @[n]],
                  !.signaled = @ \ LoopEdges(using),
                  !.dropped  = @ \ LoopEdges(using),
                  !.rounds   = @ + 1]

ResetLoopBlock(c, using) ==
    LET block == LoopBlock(using)
    IN  [c EXCEPT !.ns       = [n \in Node |-> IF n \in block THEN "NOT_ACTIVATED" ELSE @[n]],
                  !.signaled = @ \ LoopEdges(using),
                  !.dropped  = @ \ LoopEdges(using),
                  !.child    = [n \in Node |-> IF n \in block THEN NoCase ELSE @[n]],
                  !.rounds   = @ + 1]

\* _join_subprocess (the data it maps back is left out).
Join(c, n, using) ==
    [CompleteNode(c, n, using) EXCEPT !.unaudited = @ \cup {n}]

\* _handle_subprocess behind the spawn: a child that has already ended is joined in
\* place.
WaitFor(c, n, new, using) ==
    LET waiting == [c EXCEPT !.ns[n] = "RUNNING", !.child[n] = new]
    IN  IF work[new].state = "COMPLETED" THEN Join(waiting, n, using) ELSE waiting

\* The engine looks up the marking of every node of `using', and that of every edge into
\* a node not activated yet.
Unmarked ==
    LET c == work[Top.case]
    IN  \/ \E n \in Nodes(Top.using) : c.ns[n] = "none"
        \/ \E e \in Edges(Top.using) \cap c.dropped : c.ns[e[2]] = "NOT_ACTIVATED"

Quiet == \A n \in Node : /\ ~Fireable(work[Top.case], n, Top.using)
                         /\ ~Evaluable(work[Top.case], n, Top.using)

-----------------------------------------------------------------------------
(***************************************************************************)
(* Requests.                                                               *)
(***************************************************************************)

Init ==
    /\ cases = [c \in CaseId |-> AbsentCase] /\ work = cases
    /\ stack = <<>> /\ origin = NoCase /\ baseline = {} /\ walk = NoCase /\ refusal = ""

\* An advance of case c, copy w, along schema `using'.
Open(c, w, using, ready) ==
    /\ work' = [work EXCEPT ![c] = w]
    /\ stack' = <<[case |-> c, using |-> using]>>
    /\ origin' = c /\ baseline' = ready /\ refusal' = ""
    /\ UNCHANGED <<cases, walk>>

Instantiate ==
    /\ ~Busy /\ cases[Root].state = "ABSENT"
    /\ Open(Root, NewCase(RootSchema, NoCase, NoNode), Chain[RootSchema], {})

\* completion_baseline: the completed step counts as not ready before.
Baseline(c, n) == ReadySteps(cases[c]) \ {n}

CompleteActivity(c, n) ==
    /\ ~Busy /\ cases[c].state = "RUNNING" /\ n \in ReadySteps(cases[c])
    /\ LET effective == cases[c].path
       IN  Open(c, CompleteNode(cases[c], n, effective), effective, Baseline(c, n))

\* An ad-hoc change is stored at once; it activates nothing (R1).
StoreChange(c, changed) ==
    /\ cases' = [cases EXCEPT ![c] = changed] /\ work' = cases' /\ refusal' = ""
    /\ UNCHANGED <<stack, origin, baseline, walk>>

AdhocInsert(c, x) == \E i \in 1..(Len(cases[c].path) - 1) :
    LET path == cases[c].path
        edge == <<path[i], path[i + 1]>>
        split == {<<path[i], x>>, <<x, path[i + 1]>>}
    IN  /\ ~Busy /\ cases[c].state # "ABSENT" /\ x \in Inserted \ Nodes(path)
        /\ edge \notin cases[c].signaled
        /\ cases[c].ns[path[i + 1]] = "NOT_ACTIVATED"
        /\ StoreChange(c, [cases[c] EXCEPT
               !.path = SubSeq(path, 1, i) \o <<x>> \o SubSeq(path, i + 1, Len(path)),
               !.ns[x] = "NOT_ACTIVATED",
               !.dropped = (@ \cup {edge}) \ split])

AdhocDelete(c, x) == \E i \in 2..(Len(cases[c].path) - 1) :
    LET path  == cases[c].path
        edge  == <<path[i - 1], path[i + 1]>>
        split == {<<path[i - 1], x>>, <<x, path[i + 1]>>}
    IN  /\ ~Busy /\ cases[c].state # "ABSENT" /\ path[i] = x /\ x \in Deletable
        /\ cases[c].ns[x] = "NOT_ACTIVATED"
        /\ StoreChange(c, [cases[c] EXCEPT
               !.path = SubSeq(path, 1, i - 1) \o SubSeq(path, i + 1, Len(path)),
               !.ns[x] = "none",
               !.signaled = @ \ (split \cup {edge}),
               !.dropped = (@ \cup split) \ {edge}])

-----------------------------------------------------------------------------
(***************************************************************************)
(* The engine inside a request.                                            *)
(***************************************************************************)

Step(c, changed) ==
    /\ work' = [work EXCEPT ![c] = changed]
    /\ UNCHANGED <<cases, stack, origin, baseline, walk, refusal>>

Evaluate(n) ==
    LET c == Top.case IN
    /\ stack # <<>> /\ Evaluable(work[c], n, Top.using) /\ ~Unmarked
    /\ Step(c, [work[c] EXCEPT !.ns[n] = "ACTIVATED", !.announced = @ \ {n}])

Fire(n) ==
    LET c == Top.case IN
    /\ stack # <<>> /\ Fireable(work[c], n, Top.using) /\ ~Unmarked
    /\ \/ /\ TypeOf[n] \in {"START", "LOOP_START", "LOOP_END"}
          /\ Step(c, CompleteNode(work[c], n, Top.using))
       \/ /\ TypeOf[n] = "LOOP_END" /\ work[c].rounds < MaxRounds
          /\ Step(c, ResetLoopBlock(work[c], Top.using))
       \/ /\ TypeOf[n] = "END"
          /\ Step(c, [work[c] EXCEPT !.ns[n] = "COMPLETED", !.state = "COMPLETED"])

\* _handle_subprocess: the child is instantiated inside the parent's advance.
Spawn(n) == \E new \in CaseId :
    /\ stack # <<>> /\ TypeOf[n] = "SUBPROCESS"
    /\ Fireable(work[Top.case], n, Top.using) /\ ~Unmarked
    /\ work[new].state = "ABSENT" /\ new # Root
    /\ work' = [work EXCEPT ![new] = NewCase(Target[n], Top.case, n)]
    /\ stack' = Append(stack, [case |-> new, using |-> Chain[Target[n]]])
    /\ UNCHANGED <<cases, origin, baseline, walk, refusal>>

\* The new child rests: it is announced (on_spawn), linked, and joined in place
\* when it has already ended.
Spawned ==
    LET new   == Top.case
        frame == stack[Len(stack) - 1]
    IN  /\ Len(stack) > 1 /\ Quiet /\ ~Unmarked
        /\ work' = [work EXCEPT
               ![new].announced = ReadySteps(work[new]),
               ![frame.case] = WaitFor(work[frame.case], work[new].pnode, new, frame.using)]
        /\ stack' = SubSeq(stack, 1, Len(stack) - 1)
        /\ UNCHANGED <<cases, origin, baseline, walk, refusal>>

\* _propagate_completion: only the child the parent waits for may join.
Joinable(c) ==
    /\ work[c].state = "COMPLETED" /\ work[c].parent # NoCase
    /\ work[work[c].parent].child[work[c].pnode] = c

\* The parent is advanced along the schema the resolver knows it by.
Propagate ==
    LET c      == Top.case
        parent == work[c].parent
        using  == Chain[work[parent].schema]
    IN  /\ Len(stack) = 1 /\ Quiet /\ ~Unmarked
        /\ Joinable(c)
        /\ work' = [work EXCEPT ![parent] = Join(@, work[c].pnode, using)]
        /\ stack' = <<[case |-> parent, using |-> using]>>
        /\ UNCHANGED <<cases, origin, baseline, walk, refusal>>

-----------------------------------------------------------------------------
(***************************************************************************)
(* The boundary behind the engine: _after_advance.                         *)
(***************************************************************************)

\* Stamp and mail the steps of the origin that have just become ready.
AfterAdvance ==
    /\ Len(stack) = 1 /\ Quiet /\ ~Unmarked /\ ~Joinable(Top.case)
    /\ work' = [work EXCEPT ![origin].announced = @ \cup (ReadySteps(work[origin]) \ baseline)]
    /\ stack' = <<>> /\ walk' = origin
    /\ UNCHANGED <<cases, origin, baseline, refusal>>

\* Mutant: only the parent of the advanced case is looked at.
JoinSeenOnce(c) ==
    LET parent == work[c].parent
        n      == work[c].pnode
    IN  /\ work[c].state = "COMPLETED" /\ parent # NoCase /\ c = origin
        /\ work[parent].child[n] = c
        /\ work[parent].ns[n] = "COMPLETED"

\* _record_subprocess_joins goes up while a join demonstrably happened.
JoinSeen(c) ==
    LET parent == work[c].parent
        n      == work[c].pnode
    IN  /\ work[c].state = "COMPLETED" /\ parent # NoCase
        /\ work[parent].child[n] = c
        /\ work[parent].ns[n] = "COMPLETED"

AuditJoin ==
    LET parent == work[walk].parent IN
    /\ walk # NoCase /\ JoinSeen(walk)
    /\ work' = [work EXCEPT ![parent].unaudited = @ \ {work[walk].pnode}]
    /\ walk' = parent
    /\ UNCHANGED <<cases, stack, origin, baseline, refusal>>

EndRequest(why) ==
    /\ stack' = <<>> /\ walk' = NoCase /\ origin' = NoCase /\ baseline' = {}
    /\ refusal' = why

Commit ==
    /\ walk # NoCase /\ ~JoinSeen(walk)
    /\ cases' = work /\ UNCHANGED work
    /\ EndRequest("")

\* The engine met a node or an edge the case has no marking of: an unhandled KeyError.
Crash ==
    /\ stack # <<>> /\ Unmarked
    /\ work' = cases /\ UNCHANGED cases
    /\ EndRequest("key-error")

\* A crash of the server or a failed commit.
RollBack == Busy /\ work' = cases /\ UNCHANGED cases /\ EndRequest("")

Engine == (\E n \in Node : Fire(n) \/ Evaluate(n) \/ Spawn(n)) \/ Spawned \/ Propagate
          \/ AfterAdvance \/ AuditJoin \/ Commit \/ Crash

Next ==
    \/ Instantiate
    \/ \E c \in CaseId, n \in Node : CompleteActivity(c, n)
    \/ \E c \in CaseId, x \in Inserted : AdhocInsert(c, x)
    \/ \E c \in CaseId, x \in Deletable : AdhocDelete(c, x)
    \/ Engine
    \/ RollBack

Spec == Init /\ [][Next]_vars

\* The server's thread keeps running the request it has begun.
FairSpec == Spec /\ WF_vars(Engine)

-----------------------------------------------------------------------------
(***************************************************************************)
(* Properties.                                                             *)
(***************************************************************************)

TypeOK ==
    /\ cases \in [CaseId -> Case] /\ work \in [CaseId -> Case]
    /\ stack \in Seq([case : CaseId, using : Seq(Node)])
    /\ origin \in CaseId \cup {NoCase} /\ walk \in CaseId \cup {NoCase}
    /\ baseline \subseteq Node /\ refusal \in {"", "key-error"}

SubNodes == {n \in Node : TypeOf[n] = "SUBPROCESS"}

WaitsForLiveChild ==
    \A c \in CaseId, n \in SubNodes : cases[c].ns[n] = "RUNNING" =>
        LET child == cases[c].child[n]
        IN  /\ child # NoCase /\ cases[child].state = "RUNNING"
            /\ cases[child].parent = c /\ cases[child].pnode = n

NoOrphan ==
    \A c \in CaseId \ {Root} : cases[c].state = "RUNNING" =>
        LET parent == cases[c].parent
        IN  /\ cases[parent].state = "RUNNING"
            /\ cases[parent].child[cases[c].pnode] = c
            /\ cases[parent].ns[cases[c].pnode] = "RUNNING"

NoStuckTree ==
    cases[Root].state = "RUNNING" =>
        \E c \in CaseId : cases[c].state = "RUNNING" /\ ReadySteps(cases[c]) # {}

\* The tree holds together at rest (_handle_subprocess, _propagate_completion): a
\* RUNNING SUBPROCESS node waits for a child that still runs and knows it, every
\* running child is the one its running parent waits for, and while the root runs
\* some case has a step somebody can work on -- through every round of a loop and
\* every ad-hoc change.
TreeSound == TypeOK /\ WaitsForLiveChild /\ NoOrphan /\ NoStuckTree

\* A case ends only when every node of its effective schema was executed ("the
\* Execution Engine continues seamlessly against the variant", adhoc.py).
EffectivePathExecuted ==
    \A c \in CaseId : cases[c].state = "COMPLETED" =>
        \A n \in Nodes(cases[c].path) : cases[c].ns[n] = "COMPLETED"

\* Only loop nodes lie between positions i and k, and a repetition may lead from behind i
\* to k.
Straight(path, i, k) ==
    i < k /\ \A l \in (i + 1)..(k - 1) : TypeOf[path[l]] \in {"LOOP_START", "LOOP_END"}

Repeats(path, i, k) ==
    \E e, s \in 1..Len(path) : /\ TypeOf[path[e]] = "LOOP_END" /\ Straight(path, i, e)
                               /\ TypeOf[path[s]] = "LOOP_START" /\ Straight(path, s, k)

\* Nodes a join can make ready: behind a SUBPROCESS, loop nodes apart.
BehindCall == [s \in Schema |-> LET path == Chain[s] IN
    {path[k] : k \in {j \in 1..Len(path) : \E i \in 1..Len(path) :
        TypeOf[path[i]] = "SUBPROCESS" /\ (Straight(path, i, j) \/ Repeats(path, i, j))}}]

\* The boundary keeps up with the engine, which spawns and joins behind its back
\* (_after_advance, _on_spawn, _record_subprocess_joins): the completion of a
\* SUBPROCESS step that stands is in the audit, at every level the end of a case
\* reached, and a ready step was stamped and mailed for this activation -- but for a
\* completion the same advance resets and a step that a join itself makes ready.
BoundaryKeepsUp ==
    \A c \in CaseId :
        /\ \A n \in cases[c].unaudited : cases[c].ns[n] # "COMPLETED"
        /\ ReadySteps(cases[c]) \ BehindCall[cases[c].schema] \subseteq cases[c].announced

\* Every request ends, through spawns and joins at any depth.
RequestReturns == Busy ~> ~Busy

=============================================================================
