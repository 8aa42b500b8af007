---------------------------- MODULE SchemaRules ----------------------------
(***************************************************************************)
(* The rules of procworks.validator a schema under edit is judged by:      *)
(* structure K1-K3, sync edges K4, loops K6, decisions K7, data flow       *)
(* D1-D4 and the performer references Z3.  Unlike ProcessSchema, where the *)
(* one released schema of a case is made of constants, a schema is a value *)
(* here, so that operations can turn one into another:                     *)
(*                                                                         *)
(*   type     node id -> NodeType; its domain is schema.nodes              *)
(*   flow     CONTROL edges, pairs of node ids                             *)
(*   sync     SYNC edges, pairs of node ids                                *)
(*   xor      split -> [disc, kind, cells], cells as in Partitions         *)
(*   loop     LOOP_END -> [disc, kind, cells, repeat, max]; no cells is    *)
(*            the boolean shorthand, max = 0 the loop without a brake      *)
(*   element  element -> [type, own, supplied]: its data type, whether its *)
(*            source is INSTANCE, whether a connector supplies its value   *)
(*   access   set of [node, element, mode, must, type]                     *)
(*   staff    step with a staff rule -> the steps its rule refers back to  *)
(*   automatic  steps worked by an external system                         *)
(*   outputs  bound SUBPROCESS -> the elements its child writes back       *)
(*                                                                         *)
(* A finding is <<code, node>>, node 0 when it names none.  `flow' is a    *)
(* set: a graph with the same CONTROL edge twice is not represented.       *)
(***************************************************************************)
EXTENDS Partitions

Splits == {"AND_SPLIT", "XOR_SPLIT"}
Joins  == {"AND_JOIN", "XOR_JOIN"}
JoinOf == [t \in Splits |-> IF t = "AND_SPLIT" THEN "AND_JOIN" ELSE "XOR_JOIN"]

Nodes(s)     == DOMAIN s.type
OfType(s, t) == {n \in Nodes(s) : s.type[n] = t}
OfTypes(s, T) == {n \in Nodes(s) : s.type[n] \in T}
Succ(s, n)   == {e[2] : e \in {f \in s.flow : f[1] = n}}
Pred(s, n)   == {e[1] : e \in {f \in s.flow : f[2] = n}}

AtNodes(code, S) == {<<code, n>> : n \in S}
If(cond, code)   == IF cond THEN {<<code, 0>>} ELSE {}

-----------------------------------------------------------------------------
(***************************************************************************)
(* Walks.                                                                  *)
(***************************************************************************)

\* _bfs: the nodes of S and everything the pairs of R lead to from them.
Reached(s, R, S) ==
    LET grow[k \in Nat] ==
            IF k = 0 THEN S
            ELSE LET T == grow[k - 1] IN T \cup {e[2] : e \in {f \in R : f[1] \in T}}
    IN  grow[Cardinality(Nodes(s))]

ReachedFrom(s, n) == Reached(s, s.flow, Succ(s, n))

(***************************************************************************)
(* The nesting-aware walk of loop_block, _walk_block_branch, _and_branches *)
(* and _and_block_body: it starts in S at depth 0, a node of an opening    *)
(* type raises the depth and one of a closing type lowers it; a closing    *)
(* node met at depth 0 ends the walk there.  A node is entered once, an    *)
(* unknown id never.  The stack's order is left out: it decides only on    *)
(* graphs with broken blocks.                                              *)
(***************************************************************************)
Walk(s, S, opening, closing) ==
    LET change(n) == IF s.type[n] \in opening THEN 1
                     ELSE IF s.type[n] \in closing THEN -1 ELSE 0
        step(w) ==
            LET ends  == {n \in DOMAIN w.at : w.at[n] = 0 /\ s.type[n] \in closing}
                newly == DOMAIN w.at \ (ends \cup w.body)
                next  == UNION {Succ(s, n) : n \in newly} \cap Nodes(s)
            IN  [body |-> w.body \cup newly,
                 ends |-> w.ends \cup ends,
                 at   |-> [m \in next |->
                             LET from == {n \in newly : m \in Succ(s, n)}
                                 d    == {w.at[n] + change(n) : n \in from}
                             IN  CHOOSE x \in d : \A y \in d : x <= y]]
        walk[k \in Nat] ==
            IF k = 0 THEN [body |-> {}, ends |-> {}, at |-> [n \in S \cap Nodes(s) |-> 0]]
            ELSE step(walk[k - 1])
    IN  walk[Cardinality(Nodes(s)) + 1]

\* loop_block: the body, and the LOOP_END that closes it (none: unpaired).
LoopWalk(s, start) == Walk(s, Succ(s, start), {"LOOP_START"}, {"LOOP_END"})

\* block_join: the branches by their first node, and the joins they close on.
Branches(s, split) == [t \in Succ(s, split) |-> Walk(s, {t}, Splits, Joins)]
JoinsOfBlock(s, split) ==
    LET w == Branches(s, split) IN UNION {w[t].ends : t \in DOMAIN w}

\* Every branch closes on one join, and all on the same.
Paired(s, split) ==
    /\ \A t \in Succ(s, split) : Cardinality(Walk(s, {t}, Splits, Joins).ends) = 1
    /\ Cardinality(JoinsOfBlock(s, split)) = 1

TheJoin(s, split)  == CHOOSE j \in JoinsOfBlock(s, split) : TRUE
BlockBody(s, split) ==
    LET w == Branches(s, split) IN UNION {w[t].body : t \in DOMAIN w}

-----------------------------------------------------------------------------
(***************************************************************************)
(* K2: one START, one END, and the degrees of every node's type.           *)
(***************************************************************************)

DegreesFit(s, n) ==
    LET in  == Cardinality({e \in s.flow : e[2] = n})
        out == Cardinality({e \in s.flow : e[1] = n})
    IN  CASE s.type[n] = "START"   -> in = 0 /\ out = 1
          [] s.type[n] = "END"     -> in = 1 /\ out = 0
          [] s.type[n] \in Splits  -> in = 1 /\ out >= 2
          [] s.type[n] \in Joins   -> in >= 2 /\ out = 1
          [] OTHER                 -> in = 1 /\ out = 1

K2EndpointCounts(s) ==
    If(Cardinality(OfType(s, "START")) # 1, "K2.start-count") \cup
    If(Cardinality(OfType(s, "END")) # 1, "K2.end-count")

K2(s) == K2EndpointCounts(s) \cup AtNodes("K2.degree", {n \in Nodes(s) : ~DegreesFit(s, n)})

(***************************************************************************)
(* K1: splits and joins balance per kind; only then, and when K2 finds     *)
(* nothing (degrees), every split is closed by one join of its kind that   *)
(* closes no other.                                                        *)
(***************************************************************************)

K1Unbalanced(s) ==
    If(\E t \in Splits : Cardinality(OfType(s, t)) # Cardinality(OfType(s, JoinOf[t])),
       "K1.unbalanced")

K1Pairing(s) ==
    LET splits == OfTypes(s, Splits)
        paired == {n \in splits : Paired(s, n)}
        join   == [n \in paired |-> TheJoin(s, n)]
    IN  AtNodes("K1.unpaired", splits \ paired) \cup
        AtNodes("K1.wrong-join", {n \in paired : s.type[join[n]] # JoinOf[s.type[n]]}) \cup
        AtNodes("K1.shared-join",
                {join[n] : n \in {m \in paired : \E o \in paired \ {m} : join[o] = join[m]}})

K1(s, degrees) ==
    IF K1Unbalanced(s) # {} \/ degrees # {} THEN K1Unbalanced(s) ELSE K1Pairing(s)

\* K3: everything is reached from START and reaches END.
K3(s) ==
    IF K2EndpointCounts(s) # {} THEN {}
    ELSE AtNodes("K3.unreachable", Nodes(s) \ Reached(s, s.flow, OfType(s, "START"))) \cup
         AtNodes("K3.dead-end",
                 Nodes(s) \ Reached(s, {<<e[2], e[1]>> : e \in s.flow}, OfType(s, "END")))

-----------------------------------------------------------------------------
(***************************************************************************)
(* The forward must-analysis: what holds on every path before a node, when *)
(* node n adds made[n].  At an AND_JOIN every branch has run, elsewhere    *)
(* only what every way in brings is certain (_meet_at).  A node the        *)
(* topological order does not reach keeps nothing.                         *)
(***************************************************************************)

MeetAt(s, n, coming) ==
    IF s.type[n] = "AND_JOIN" THEN UNION coming
    ELSE {x \in UNION coming : \A c \in coming : x \in c}

\* Kahn's order, as rounds: a node is settled once its predecessors are.
Settled(R, S) ==
    LET round[k \in Nat] ==
            IF k = 0 THEN {}
            ELSE LET T == round[k - 1]
                 IN  T \cup {n \in S : \A e \in R : e[2] = n /\ e[1] \in S => e[1] \in T}
    IN  round[Cardinality(S)]

MustHold(s, scope, made) ==
    LET preds(n) == Pred(s, n) \cap scope
        round[k \in Nat] ==
            IF k = 0 THEN [n \in {} |-> {}]
            ELSE LET b    == round[k - 1]
                     next == {n \in scope \ DOMAIN b : preds(n) \subseteq DOMAIN b}
                 IN  [n \in DOMAIN b \cup next |->
                        IF n \in DOMAIN b THEN b[n]
                        ELSE MeetAt(s, n, {b[p] \cup made[p] : p \in preds(n)})]
        held == round[Cardinality(scope)]
    IN  [n \in scope |-> IF n \in DOMAIN held THEN held[n] ELSE {}]

Writing == {"WRITE", "READ_WRITE"}
Reading == {"READ", "READ_WRITE"}

AccessesOf(s, n) == {a \in s.access : a.node = n}
MustWriting(s)   == {a \in s.access : a.mode \in Writing /\ a.must}
MandatoryWrites(s, n) == {a.element : a \in {b \in MustWriting(s) : b.node = n}}

\* A sub-process writes its mapped outputs back when it joins.
OutputWrites(s, n) ==
    IF n \in DOMAIN s.outputs /\ n \in OfType(s, "SUBPROCESS")
    THEN s.outputs[n] \cap DOMAIN s.element ELSE {}

MustWrittenBefore(s) ==
    MustHold(s, Nodes(s), [n \in Nodes(s) |-> MandatoryWrites(s, n) \cup OutputWrites(s, n)])

MustExecutedBefore(s) == MustHold(s, Nodes(s), [n \in Nodes(s) |-> {n}])

-----------------------------------------------------------------------------
(***************************************************************************)
(* K6: LOOP_START and LOOP_END pair up (a), every LOOP_END decides over an *)
(* INSTANCE element (b) that each way through its body writes (c), and the *)
(* body is not empty (d).  Loops and split blocks do not cross.            *)
(***************************************************************************)

WrittenThroughBody(s, start, end, body) ==
    LET scope == body \cup {start, end}
        made  == [n \in scope |-> IF n = start THEN {} ELSE MandatoryWrites(s, n)]
    IN  MustHold(s, scope, made)[end]

LoopDecisionFindings(d, element) ==
    IF d.cells = <<>>
    THEN (IF element.type # "BOOLEAN" THEN {"K6.discriminator-not-boolean"} ELSE {}) \cup
         (IF d.kind # "BOOLEAN" THEN {"K6.cells-need-boolean"} ELSE {})
    ELSE (CASE KindOf(element.type) = "none" -> {"K6.discriminator-type"}
            [] KindOf(element.type) \notin {"none", d.kind} -> {"K6.kind-mismatch"}
            [] OTHER -> {}) \cup
         PartitionFindings(d.kind, d.cells) \cup
         (IF \A i \in DOMAIN d.cells : d.cells[i].to = 1 THEN {"K6.no-exit-cell"} ELSE {}) \cup
         (IF \A i \in DOMAIN d.cells : d.cells[i].to = 0 THEN {"K6.no-repeat-cell"} ELSE {})

SingleLoopFindings(s, start, end, body) ==
    IF body = {} THEN {<<"K6.empty-body", start>>}
    ELSE IF end \notin DOMAIN s.loop THEN {<<"K6.no-decision", end>>}
    ELSE LET d == s.loop[end]
         IN  IF d.disc \notin DOMAIN s.element THEN {<<"K6.discriminator-missing", end>>}
             ELSE {<<c, end>> : c \in
                     LoopDecisionFindings(d, s.element[d.disc]) \cup
                     (IF s.element[d.disc].own THEN {} ELSE {"K6.discriminator-not-instance"}) \cup
                     (IF d.max = 1 THEN {"K6.max-iterations"} ELSE {}) \cup
                     (IF d.disc \in WrittenThroughBody(s, start, end, body) THEN {}
                      ELSE {"K6.discriminator-not-written"})}

\* Mutant: only the gateways of a block are compared with the body.
CrossesGatewaysOnly(s, start, end, body, split) ==
    (split \in body) # (TheJoin(s, split) \in body)

\* A loop holds both gateways of a block or neither, a branch both ends of a loop.
Crosses(s, start, end, body, split) ==
    \/ (split \in body) # (TheJoin(s, split) \in body)
    \/ \E t \in Succ(s, split) :
         LET members == Branches(s, split)[t].body IN (start \in members) # (end \in members)

\* `blocks' are the findings of K2 and K1.
K6(s, blocks) ==
    LET starts == OfType(s, "LOOP_START")
        ends   == OfType(s, "LOOP_END")
        walk   == [n \in starts |-> LoopWalk(s, n)]
        closed == {n \in starts : walk[n].ends # {}}
        end    == [n \in closed |-> CHOOSE e \in walk[n].ends : TRUE]
        shared == {e \in ends : \E m, n \in closed : m # n /\ end[m] = e /\ end[n] = e}
        own    ==
            AtNodes("K6.decision-not-loop-end", DOMAIN s.loop \ ends) \cup
            If(Cardinality(starts) # Cardinality(ends), "K6.unbalanced") \cup
            AtNodes("K6.start-unpaired", starts \ closed) \cup
            AtNodes("K6.end-claimed-twice", shared) \cup
            AtNodes("K6.end-unpaired", ends \ {end[n] : n \in closed}) \cup
            UNION {SingleLoopFindings(s, n, end[n], walk[n].body) :
                     n \in {m \in closed : end[m] \notin shared}}
    IN  IF own # {} \/ blocks # {} THEN own
        ELSE AtNodes("K6.crosses-branch",
                     {n \in closed : \E x \in OfTypes(s, Splits) :
                                        Crosses(s, n, end[n], walk[n].body, x)})

(***************************************************************************)
(* K4: a sync edge joins steps of different branches of one AND block, and *)
(* makes no cycle with the control flow.                                   *)
(***************************************************************************)

InDifferentAndBranches(s, a, b) ==
    \E x \in OfType(s, "AND_SPLIT") :
        LET w == Branches(s, x)
        IN  \E t, u \in DOMAIN w : t # u /\ a \in w[t].body /\ b \in w[u].body

CycleWithSync(s) == Settled(s.flow \cup s.sync, Nodes(s)) # Nodes(s)

K4(s) ==
    IF s.sync = {} THEN {}
    ELSE LET known  == {e \in s.sync : e[1] \in Nodes(s) /\ e[2] \in Nodes(s)}
             steps  == {e \in known : s.type[e[1]] = "ACTIVITY" /\ s.type[e[2]] = "ACTIVITY"}
         IN  AtNodes("K4.unknown-node", {e[1] : e \in s.sync \ known}) \cup
             AtNodes("K4.not-activity", {e[1] : e \in known \ steps}) \cup
             AtNodes("K4.not-parallel",
                     {e[1] : e \in {f \in steps : ~InDifferentAndBranches(s, f[1], f[2])}}) \cup
             If(CycleWithSync(s), "K4.cycle")

(***************************************************************************)
(* K7: every XOR split partitions an INSTANCE element written before it,   *)
(* one cell per branch, at most one branch empty.  The branch captions on  *)
(* the edges are text and left out.                                        *)
(***************************************************************************)

XorBranchFindings(s, x, d) ==
    LET targets == {d.cells[i].to : i \in DOMAIN d.cells}
        empty   == {i \in DOMAIN d.cells : d.cells[i].to \in OfType(s, "XOR_JOIN")}
    IN  (IF targets # Succ(s, x) \/ Len(d.cells) # Cardinality(Succ(s, x))
         THEN {"K7.targets-mismatch"} ELSE {}) \cup
        (IF Len(d.cells) < 2 THEN {"K7.too-few-branches"} ELSE {}) \cup
        (IF Cardinality(empty) > 1 THEN {"K7.two-empty-branches"} ELSE {})

\* Mutant: the discriminator need not be written before the split.
XorDiscriminatorFindingsUnset(d, element, written) ==
    (IF element.own THEN {} ELSE {"K7.discriminator-not-instance"}) \cup
    (CASE KindOf(element.type) = "none" -> {"K7.discriminator-type"}
       [] KindOf(element.type) \notin {"none", d.kind} -> {"K7.kind-mismatch"}
       [] OTHER -> {})

XorDiscriminatorFindings(d, element, written) ==
    (IF element.own THEN {} ELSE {"K7.discriminator-not-instance"}) \cup
    (CASE KindOf(element.type) = "none" -> {"K7.discriminator-type"}
       [] KindOf(element.type) \notin {"none", d.kind} -> {"K7.kind-mismatch"}
       [] OTHER -> {}) \cup
    (IF d.disc \in written THEN {} ELSE {"K7.discriminator-unset"})

XorSplitFindings(s, x, before) ==
    IF x \notin DOMAIN s.xor THEN {"K7.no-decision"}
    ELSE LET d == s.xor[x]
         IN  XorBranchFindings(s, x, d) \cup
             (IF d.disc \notin DOMAIN s.element THEN {"K7.discriminator-missing"}
              ELSE XorDiscriminatorFindings(d, s.element[d.disc], before[x]) \cup
                   PartitionFindings(d.kind, d.cells))

K7(s) ==
    LET splits == OfType(s, "XOR_SPLIT")
        before == MustWrittenBefore(s)
    IN  AtNodes("K7.decision-not-split", DOMAIN s.xor \ splits) \cup
        UNION {{<<c, x>> : c \in XorSplitFindings(s, x, before)} : x \in splits}

-----------------------------------------------------------------------------
(***************************************************************************)
(* Data flow.  D4: accesses sit on steps and name elements; D3: a declared *)
(* parameter type is the element's.  On a clean structure only, D2: no two *)
(* parallel steps must write one element; D1: a mandatory read is supplied *)
(* on every path, unless a connector supplies it.                          *)
(***************************************************************************)

D4(s) ==
    {<<"D4.unknown-node", a.node>> : a \in {b \in s.access : b.node \notin Nodes(s)}} \cup
    {<<"D4.not-activity", a.node>> :
        a \in {b \in s.access : b.node \in Nodes(s) \ OfType(s, "ACTIVITY")}} \cup
    {<<"D4.unknown-element", a.node>> : a \in {b \in s.access : b.element \notin DOMAIN s.element}}

D3(s) ==
    {<<"D3.param-type", a.node>> :
        a \in {b \in s.access : /\ b.element \in DOMAIN s.element
                                /\ b.type \notin {"none", s.element[b.element].type}}}

\* Mutant: an element is supplied when some path writes it.
D1OnSomePath(s) ==
    {<<"D1.read-before-write", a.node>> :
        a \in {b \in s.access :
                 /\ b.mode \in Reading /\ b.must /\ b.element \in DOMAIN s.element
                 /\ ~s.element[b.element].supplied
                 /\ ~\E w \in MustWriting(s) :
                       w.element = b.element /\ b.node \in ReachedFrom(s, w.node)}}

D1(s) ==
    LET before == MustWrittenBefore(s)
    IN  {<<"D1.read-before-write", a.node>> :
            a \in {b \in s.access :
                     /\ b.mode \in Reading /\ b.must /\ b.element \in DOMAIN s.element
                     /\ ~s.element[b.element].supplied
                     /\ b.element \notin before[b.node]}}

\* _parallel_under_and: their innermost common split is an AND split.
ParallelUnderAnd(s, a, b) ==
    LET after  == [x \in OfTypes(s, Splits) |-> ReachedFrom(s, x)]
        common == {x \in DOMAIN after : a \in after[x] /\ b \in after[x]}
        inner  == {x \in common : \A y \in common \ {x} : x \in after[y]}
    IN  \E x \in inner : s.type[x] = "AND_SPLIT"

MustWriters(s, e) ==
    {n \in Nodes(s) : e \in MandatoryWrites(s, n) \cup OutputWrites(s, n)}

D2(s) ==
    {<<"D2.parallel-writes", a>> :
        a \in {m \in Nodes(s) : \E e \in DOMAIN s.element : \E b \in MustWriters(s, e) :
                  /\ m \in MustWriters(s, e) /\ m < b
                  /\ b \notin ReachedFrom(s, m) /\ m \notin ReachedFrom(s, b)
                  /\ ParallelUnderAnd(s, m, b)}}

\* `structure' are the findings of K2, K1 and K3 (_structure_broken).
DataFlow(s, structure) ==
    LET form == D4(s) \cup D3(s)
    IN  IF form # {} \/ structure # {} THEN form ELSE D2(s) \cup D1(s)

\* Z3: a staff rule refers back to steps that ran on every path before it.
Z3(s) ==
    LET before == MustExecutedBefore(s)
    IN  UNION {AtNodes("Z3.reference-not-before",
                       IF s.staff[n] \subseteq before[n] THEN {} ELSE {n}) :
                 n \in DOMAIN s.staff \cap Nodes(s)}

\* The steps the editor offers a rule on n to refer to; Z3 accepts any node before n.
PerformerReferenceCandidates(s, n) == MustExecutedBefore(s)[n] \cap OfType(s, "ACTIVITY")

\* Z4: services sit on steps; a step worked by a system has no staff rule.
Z4(s) ==
    AtNodes("Z4.not-activity", s.automatic \ OfType(s, "ACTIVITY")) \cup
    AtNodes("Z4.automatic-with-staff", s.automatic \cap OfType(s, "ACTIVITY") \cap DOMAIN s.staff)

-----------------------------------------------------------------------------
\* validate, for the rule groups this module holds.
Findings(s) ==
    LET degrees   == K2(s)
        blocks    == degrees \cup K1(s, degrees)
        structure == blocks \cup K3(s)
    IN  structure \cup K6(s, blocks) \cup K4(s) \cup K7(s) \cup DataFlow(s, structure) \cup
        Z3(s) \cup Z4(s)

Correct(s) == Findings(s) = {}

\* raise_if_findings_added: an edit is refused for what it adds only.
NothingAdded(before, after) ==
    LET known == Findings(before) IN \A f \in Findings(after) : f \in known

\* check_executable (B2): every interactive step has a staff rule.
Executable(s) == OfType(s, "ACTIVITY") \ s.automatic \subseteq DOMAIN s.staff

=============================================================================
