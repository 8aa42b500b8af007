--------------------------- MODULE ProcessSchema ---------------------------
(***************************************************************************)
(* A released process schema as the execution engine reads it              *)
(* (procworks.model.ProcessSchema): a block-structured graph of nodes,     *)
(* its control and sync edges, the structured decisions of its XOR splits  *)
(* and loop ends, the write access of its steps and their staff rules.     *)
(*                                                                         *)
(* The schema of a running case never changes under it (an ad-hoc change   *)
(* or a migration replaces it as a whole), so it is made of constants.     *)
(* An edge is the pair <<source, target>>, which is what _edge_key writes. *)
(***************************************************************************)
EXTENDS Naturals, FiniteSets

CONSTANTS
    Node,           \* ids of the schema's nodes
    TypeOf,         \* node -> its NodeType
    ControlEdge,    \* control-flow edges, pairs of nodes
    SyncEdge,       \* K4 sync edges: ordering-only waits
    StartOfLoop,    \* LOOP_END -> the LOOP_START paired with it (K6a)
    Element,        \* data elements of the case
    Value,          \* the values an element can hold
    NoValue,        \* an element that is not set
    Writes,         \* node -> elements it may write (WRITE, READ_WRITE)
    Mandatory,      \* node -> elements it must write
    Discriminator,  \* deciding node -> the element its decision reads
    XorTarget,      \* XOR_SPLIT -> [Value -> chosen successor] (K7)
    RepeatOn,       \* LOOP_END -> the values that repeat the body (K6b)
    MaxIterations,  \* LOOP_END -> hard brake on body runs, 0 when there is none
    Agent,          \* agents of the organisation
    NoAgent,        \* nobody
    StaffRule,      \* ACTIVITY -> the agents its staff rule admits
    Automatic       \* activities worked by an external system

NodeType == {"START", "END", "ACTIVITY", "SUBPROCESS", "AND_SPLIT", "AND_JOIN",
             "XOR_SPLIT", "XOR_JOIN", "LOOP_START", "LOOP_END"}

NodesOfType(t) == {n \in Node : TypeOf[n] = t}
Activities == NodesOfType("ACTIVITY")
LoopEnds   == NodesOfType("LOOP_END")
XorSplits  == NodesOfType("XOR_SPLIT")

Edge == ControlEdge \cup SyncEdge

\* Control-flow edges only: sync edges are invisible to every structural rule.
Outgoing(n)     == {e \in ControlEdge : e[1] = n}
Incoming(n)     == {e \in ControlEdge : e[2] = n}
SyncIncoming(n) == {e \in SyncEdge : e[2] = n}

(***************************************************************************)
(* The body of a loop: everything the walk from the LOOP_START meets       *)
(* before the paired LOOP_END, both delimiters excluded.                   *)
(***************************************************************************)
LoopBody(end) ==
    LET succ(S) == {n \in Node \ {end} : \E m \in S : <<m, n>> \in ControlEdge}
        walked[k \in Nat] ==
            IF k = 0 THEN succ({StartOfLoop[end]})
            ELSE LET S == walked[k - 1] IN S \cup succ(S)
    IN  walked[Cardinality(Node)]

Body == [end \in LoopEnds |-> LoopBody(end)]

\* The nodes whose markings one repetition resets.
LoopBlock(end) == Body[end] \cup {StartOfLoop[end], end}

ASSUME SchemaTypes ==
    /\ IsFiniteSet(Node)
    /\ TypeOf \in [Node -> NodeType]
    /\ ControlEdge \subseteq Node \X Node
    /\ SyncEdge \subseteq Activities \X Activities
    /\ ControlEdge \cap SyncEdge = {}
    /\ StartOfLoop \in [LoopEnds -> NodesOfType("LOOP_START")]
    /\ Writes \in [Node -> SUBSET Element]
    /\ Mandatory \in [Node -> SUBSET Element]
    /\ \A n \in Node : Mandatory[n] \subseteq Writes[n]
    /\ NoValue \notin Value
    /\ NoAgent \notin Agent
    /\ StaffRule \in [Activities -> SUBSET Agent]
    /\ Automatic \subseteq Activities

\* Every decision is structured: it names an element and sorts every value.
ASSUME DecisionTypes ==
    /\ Discriminator \in [XorSplits \cup LoopEnds -> Element]
    /\ XorTarget \in [XorSplits -> [Value -> Node]]
    /\ \A x \in XorSplits, v \in Value : <<x, XorTarget[x][v]>> \in ControlEdge
    /\ RepeatOn \in [LoopEnds -> SUBSET Value]
    /\ MaxIterations \in [LoopEnds -> Nat]

-----------------------------------------------------------------------------
(***************************************************************************)
(* The structural rules of the catalogue the soundness of execution rests  *)
(* on.  The validator refuses a model that breaks one before it is stored. *)
(***************************************************************************)

\* K2: one START, one END, and no other source or sink.
K2Endpoints ==
    /\ Cardinality(NodesOfType("START")) = 1
    /\ Cardinality(NodesOfType("END")) = 1
    /\ \A n \in Node : /\ Incoming(n) = {} <=> TypeOf[n] = "START"
                       /\ Outgoing(n) = {} <=> TypeOf[n] = "END"

\* K4.cycle: control and sync edges together are acyclic -- taking away whatever has
\* no predecessor left, again and again, leaves nothing.
K4Acyclic ==
    LET rest[k \in 0..Cardinality(Node)] ==
            IF k = 0 THEN Node
            ELSE LET left == rest[k - 1]
                 IN  {n \in left : \E e \in Edge : e[2] = n /\ e[1] \in left}
    IN  rest[Cardinality(Node)] = {}

\* K6a: a body is entered through its start and left through its end only.
K6Closed ==
    \A end \in LoopEnds : \A e \in ControlEdge :
        /\ e[1] \in Body[end] \cup {StartOfLoop[end]} => e[2] \in Body[end] \cup {end}
        /\ e[2] \in Body[end] \cup {end} => e[1] \in Body[end] \cup {StartOfLoop[end]}

\* K6a: of two loops one holds the other as a whole, or they are apart.
LoopsNested ==
    \A outer, inner \in LoopEnds : inner \in Body[outer] => Body[inner] \subseteq LoopBlock(outer)

(***************************************************************************)
(* K1: split blocks nest.  `branches' gives every edge the branches of XOR *)
(* splits it lies in (a branch is the edge that begins it): a split opens  *)
(* one, the join of the same split closes it and joins all of them, every  *)
(* other node passes its own on, and the process as a whole lies in none.  *)
(***************************************************************************)
Closes(branches, join, split) ==
    \A o \in Outgoing(join) :
        /\ \A i \in Incoming(split) : branches[i] = branches[o]
        /\ {branches[i] : i \in Incoming(join)} = {branches[o] \cup {d} : d \in Outgoing(split)}

Nested(branches) ==
    /\ branches \in [ControlEdge -> SUBSET ControlEdge]
    /\ \A e \in ControlEdge : TypeOf[e[1]] = "START" \/ TypeOf[e[2]] = "END" => branches[e] = {}
    /\ \A n \in Node \ NodesOfType("XOR_JOIN") : \A i \in Incoming(n), o \in Outgoing(n) :
           branches[o] = branches[i] \cup (IF TypeOf[n] = "XOR_SPLIT" THEN {o} ELSE {})
    /\ \A n \in NodesOfType("XOR_JOIN") :
           /\ \E x \in XorSplits : Closes(branches, n, x)
           /\ \A i, k \in Incoming(n) : branches[i] = branches[k] => i = k

(***************************************************************************)
(* What is certain to have been written before a node on every way through *)
(* `scope': at an AND join every branch has run, elsewhere only what each  *)
(* way in brings is certain (_meet_at).  What a call writes back is not    *)
(* counted: a sub-process completes without data here.                     *)
(***************************************************************************)
Made(n) == IF n \in Activities THEN Mandatory[n] ELSE {}

Certain(before, scope) ==
    /\ before \in [Node -> SUBSET Element]
    /\ \A n \in scope :
           LET coming == {before[e[1]] \cup Made(e[1]) : e \in {i \in Incoming(n) : i[1] \in scope}}
           IN  /\ before[n] \subseteq UNION coming
               /\ TypeOf[n] # "AND_JOIN" => \A made \in coming : before[n] \subseteq made

\* K7: what is read to decide has been written on every way to the decision.
DecidesOnWritten(before, deciding) ==
    Certain(before, Node) /\ \A n \in deciding : Discriminator[n] \in before[n]

\* K6c: what decides on a repetition, on every way through the body: nothing written
\* before the round counts.
RoundsDecideAfresh(within) ==
    \A end \in LoopEnds : /\ Certain(within[end], LoopBlock(end))
                          /\ within[end][StartOfLoop[end]] = {}
                          /\ Discriminator[end] \in within[end][end]

\* K7 at every split.  At a loop end K6c, on a model that keeps K6a; where a loop is not
\* closed, what its end reads has been written on every way to it at least.
Decidable(before, within) ==
    /\ DecidesOnWritten(before, XorSplits)
    /\ IF K6Closed THEN RoundsDecideAfresh(within) ELSE DecidesOnWritten(before, LoopEnds)

=============================================================================
