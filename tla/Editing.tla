------------------------------- MODULE Editing -------------------------------
(***************************************************************************)
(* A schema from its first draft to its cases.  An editor applies the      *)
(* operations of procworks.operations, each of which stores its candidate  *)
(* when raise_if_findings_added lets it pass and changes nothing           *)
(* otherwise; a graph may also be submitted as a whole (BPMN import), and  *)
(* a release asks for a clean schema.  Cases then run on what was          *)
(* released, one request at a time: the rules of SchemaRules are meant to  *)
(* guarantee them something, and the properties say what.                  *)
(***************************************************************************)
EXTENDS CaseRuns

CONSTANTS
    Drafts,        \* [model, left]: a clean draft to begin with, and the bound
                   \* on the edits of it
    Submissions,   \* the graphs handed in for import
    Partition,     \* data type -> the partitions offered for it, `to' to be set
    LoopPartition, \* data type -> the loop partitions offered for it
    NewAccesses,   \* [element, mode, must]: the accesses an editor connects
    MaxNodes       \* bound: nodes of a schema

VARIABLES
    model,   \* the schema
    left,    \* edits left
    phase,   \* submitted, refused, draft, released, running
    findings, \* the codes a submitted graph was answered with
    run       \* the case that runs on the released schema

vars == <<model, left, phase, findings, run>>

NoRun == [c |-> [state |-> "NEW"], why |-> "", again |-> {}]

\* The ids an edit draws are drawn once (ids.new_id); it needs at most ten.
Fresh == 100 - 10 * left

Init ==
    /\ \/ /\ phase = "draft"
          /\ \E d \in Drafts : model = d.model /\ left = d.left
       \/ phase = "submitted" /\ model \in Submissions /\ left = 0
    /\ findings = {}
    /\ run = NoRun

\* A submitted graph becomes a draft when nothing is wrong with it.
Import ==
    /\ phase = "submitted"
    /\ findings' = {f[1] : f \in Findings(model)}
    /\ phase' = IF findings' = {} THEN "draft" ELSE "refused"
    /\ UNCHANGED <<model, left, run>>

Editable == phase = "draft" /\ left > 0

\* What every operation ends with; Edit judges the candidate.
Commit(candidate) ==
    /\ model' = candidate
    /\ left' = left - 1
    /\ UNCHANGED <<phase, findings, run>>

EditSerialInsert == \E a \in Nodes(model) : \E b \in Succ(model, a) :
    Editable /\ MaySerialInsert(model, a, b) /\ Commit(SerialInsert(model, Fresh, a, b))

EditParallelInsert == \E a \in Nodes(model) :
    Editable /\ MayParallelInsert(model, a, 2) /\ Commit(ParallelInsert(model, Fresh, a, 2))

EditConditionalInsert == \E a \in Nodes(model), e \in DOMAIN model.element :
    \E cells \in Partition[model.element[e].type] :
        /\ Editable /\ MayConditionalInsert(model, a, e, cells)
        /\ Commit(ConditionalInsert(model, Fresh, a, e, cells))

EditInsertLoop == \E a \in Nodes(model), e \in DOMAIN model.element :
    \E cells \in LoopPartition[model.element[e].type] :
        /\ Editable /\ MayInsertLoop(model, a, e, cells)
        /\ Commit(InsertLoop(model, Fresh, a, e, 1, cells, 2))

EditLoopDecision == \E n \in DOMAIN model.loop, e \in DOMAIN model.element, max \in {0, 2} :
    \E cells \in LoopPartition[model.element[e].type] :
        /\ Editable /\ MaySetLoopDecision(model, n, e, cells)
        /\ Commit(SetLoopDecision(model, n, e, 0, cells, max))

EditAddSync == \E a, b \in OfType(model, "ACTIVITY") :
    Editable /\ MayAddSync(model, a, b) /\ Commit(AddSync(model, a, b))

EditRemoveSync == \E e \in model.sync :
    Editable /\ MayRemoveSync(model, e[1], e[2]) /\ Commit(RemoveSync(model, e[1], e[2]))

EditInsertBetween == \E a, b \in OfType(model, "ACTIVITY") :
    /\ Editable /\ MayInsertBetween(model, {a}, {b})
    /\ Commit(InsertBetween(model, Fresh, {a}, {b}))

EditMove == \E n, a \in Nodes(model) :
    Editable /\ MayMove(model, n, a) /\ Commit(Move(model, n, a))

EditDelete == \E n \in Nodes(model) :
    /\ Editable /\ MayDelete(model, n)
    \* Bound: `flow' is a set, so no AND block is left with two empty branches.
    /\ model.type[n] \in {"ACTIVITY", "SUBPROCESS"} \/ Gap(model, n) \notin model.flow
    /\ Commit(Delete(model, n))

EditRemoveEmptyBranch == \E x \in Nodes(model) :
    Editable /\ MayRemoveEmptyBranch(model, x) /\ Commit(RemoveEmptyBranch(model, x))

EditInsertSubprocess == \E a \in Nodes(model), outs \in SUBSET DOMAIN model.element :
    Editable /\ Anchor(model, a) /\ Commit(InsertSubprocess(model, Fresh, a, outs))

EditRebind == \E n \in Nodes(model), outs \in SUBSET DOMAIN model.element :
    Editable /\ MayRebind(model, n) /\ Commit(Rebind(model, n, outs))

EditConvert == \E n \in Nodes(model), outs \in SUBSET DOMAIN model.element :
    Editable /\ MayConvert(model, n) /\ Commit(Convert(model, n, outs))

EditElement ==
    \/ \E t \in DOMAIN Partition :
          Editable /\ MayAddElement(model, "new") /\ Commit(AddElement(model, "new", t))
    \/ \E e \in DOMAIN model.element :
          /\ Editable
          /\ \/ \E t \in DOMAIN Partition : Commit(RetypeElement(model, e, t))
             \/ Commit(ResetElementSource(model, e))
             \/ Commit(DeleteElement(model, e))

EditConnect == \E n \in Nodes(model), a \in NewAccesses :
    LET access == [node |-> n, type |-> "none"] @@ a
    IN  Editable /\ MayConnect(model, access) /\ Commit(Connect(model, access))

EditDisconnect == \E a \in model.access, mode \in {"any", "WRITE", "READ"} :
    /\ Editable /\ MayDisconnect(model, a.node, a.element, mode)
    /\ Commit(Disconnect(model, a.node, a.element, mode))

EditStaff == \E n \in Nodes(model) :
    /\ Editable
    /\ \/ MayAssignStaff(model, n) /\
          \E refs \in {{}} \cup {{m} : m \in Nodes(model)} :
              Commit(AssignStaff(model, n, refs))
       \/ MayClearStaff(model, n) /\ Commit(ClearStaff(model, n))

EditService == \E n \in Nodes(model), automatic \in BOOLEAN :
    Editable /\ MayBindService(model, n) /\ Commit(BindService(model, n, automatic))

Operation ==
    \/ EditSerialInsert \/ EditParallelInsert \/ EditConditionalInsert \/ EditInsertLoop
    \/ EditLoopDecision \/ EditAddSync \/ EditRemoveSync \/ EditInsertBetween
    \/ EditMove \/ EditDelete \/ EditRemoveEmptyBranch
    \/ EditInsertSubprocess \/ EditRebind \/ EditConvert
    \/ EditElement \/ EditConnect \/ EditDisconnect \/ EditStaff \/ EditService

\* The candidate is stored when it adds no finding.
Edit ==
    /\ Operation
    /\ Cardinality(Nodes(model')) <= MaxNodes
    /\ NothingAdded(model, model')

-----------------------------------------------------------------------------
(***************************************************************************)
(* A release wants a clean and executable schema; cases run on it.         *)
(***************************************************************************)

Release ==
    /\ phase = "draft" /\ Correct(model) /\ Executable(model)
    /\ phase' = "released"
    /\ UNCHANGED <<model, left, findings, run>>

StartCase ==
    /\ phase = "released"
    /\ phase' = "running"
    /\ \E v \in {model} : run' = Started(v)
    /\ UNCHANGED <<model, left, findings>>

\* A request the engine refuses leaves the case as it was; the reason is kept.
CompleteStep ==
    /\ phase = "running" /\ run.why = ""
    /\ \E v \in {model} : \E n \in OpenSteps(v, run.c) :
       \E S \in SUBSET MayWrite(v, n) : \E vals \in [S -> CaseValues] :
           /\ MayComplete(v, run.c, n, vals)
           /\ run' = LET r == Completed(v, run.c, n, vals)
                     IN  IF r.why = "" THEN r ELSE [run EXCEPT !.why = r.why]
    /\ UNCHANGED <<model, left, phase, findings>>

Next ==
    Import \/ Edit \/ Release \/ StartCase \/ CompleteStep

Spec == Init /\ [][Next]_vars

-----------------------------------------------------------------------------
(***************************************************************************)
(* What block-structured means, said without a walk: a graph that shrinks  *)
(* to one edge from START to END when, again and again, a step gives way   *)
(* to its two edges, a block whose branches are all edges to an edge, and  *)
(* a loop around an edge that stands for something to an edge.  An edge is *)
(* [id, from, to, full]; ids keep parallel edges apart.                    *)
(***************************************************************************)

InitialEdges(s) == {[id |-> f, from |-> f[1], to |-> f[2], full |-> FALSE] : f \in s.flow}

\* The edges i into and o out of what one edge can stand for: a step, a block
\* of edges, a loop around a full edge.
Gives(s, edges, i, o) ==
    LET inside == {e \in edges : e.from = i.to /\ e.to = o.from}
    IN  /\ \A e \in edges : (e.to = i.to => e = i) /\ (e.from = o.from => e = o)
        /\ \/ i.to = o.from /\ s.type[i.to] \in {"ACTIVITY", "SUBPROCESS"}
           \/ /\ i.to # o.from
              /\ \A e \in edges : e.from = i.to \/ e.to = o.from => e \in inside
              /\ \/ /\ s.type[i.to] \in Splits /\ s.type[o.from] = JoinOf[s.type[i.to]]
                    /\ Cardinality(inside) >= 2
                 \/ /\ s.type[i.to] = "LOOP_START" /\ s.type[o.from] = "LOOP_END"
                    /\ \A e \in inside : e.full
                    /\ Cardinality(inside) = 1

Shrunk(edges, i, o) ==
    {e \in edges : {e.from, e.to} \cap {i.to, o.from} = {}} \cup
    {[id |-> i.id, from |-> i.from, to |-> o.to, full |-> TRUE]}

\* One shrink after the other, as long as there is one.
ShrunkOnce(s, edges) ==
    LET pairs == {p \in edges \X edges : Gives(s, edges, p[1], p[2])}
    IN  CHOOSE g \in {Shrunk(edges, p[1], p[2]) : p \in pairs} \cup
                     (IF pairs = {} THEN {edges} ELSE {}) : TRUE

Reduced(s) ==
    LET after[k \in Nat] == IF k = 0 THEN InitialEdges(s) ELSE ShrunkOnce(s, after[k - 1])
    IN  after[Cardinality(Nodes(s))]

\* START -> END is left, and every other node went with a shrink.
BlockStructured(s) ==
    /\ \A n \in Nodes(s) : \E f \in s.flow : n \in {f[1], f[2]}
    /\ {<<s.type[e.from], s.type[e.to]>> : e \in Reduced(s)} = {<<"START", "END">>}

StructuralCodes ==
    {"K1.unbalanced", "K1.unpaired", "K1.wrong-join", "K1.shared-join", "K2.start-count",
     "K2.end-count", "K2.degree", "K3.unreachable", "K3.dead-end", "K6.unbalanced",
     "K6.start-unpaired", "K6.end-claimed-twice", "K6.end-unpaired", "K6.empty-body",
     "K6.crosses-branch"}

LoopDecisionCodes ==
    {"K6.decision-not-loop-end", "K6.no-decision", "K6.discriminator-missing",
     "K6.discriminator-not-written"}

BlocksIntact(found) ==
    \A f \in found : f[1] \notin StructuralCodes \cup {"K7.targets-mismatch"}

FirstOfBranch(n) == model.type[Gap(model, n)[1]] = "XOR_SPLIT" /\ ~SoleBranchContent(model, n)

Running == phase = "running"

-----------------------------------------------------------------------------
(***************************************************************************)
(* Properties.                                                             *)
(***************************************************************************)

\* The rules K1, K2, K3 and K6 of validator.validate tell nested blocks from other
\* graphs: a graph they pass, and any draft an editor makes, is block-structured, so
\* crossing blocks, a loop that leaves its branch or an unreachable part never get in;
\* and they find nothing wrong with the structure of a graph that is.
AcceptedIffBlockStructured ==
    phase \in {"draft", "refused"} =>
        IF BlockStructured(model) THEN findings \cap StructuralCodes = {}
        ELSE findings \cap (StructuralCodes \cup LoopDecisionCodes) # {}

\* Inserting a step on any edge or an AND block behind any node, moving any step
\* anywhere and deleting any step, block or loop the operations allow leaves blocks,
\* loops and the partitions of XOR splits intact: the commit check never refuses them
\* for the structure -- but for the deletion of what stands first in a longer branch of
\* an XOR split, whose cell goes on naming it (delete_node).
EditsKeepBlocks ==
    Editable =>
        LET candidates ==
                {SerialInsert(model, 99, e[1], e[2]) :
                    e \in {f \in model.flow : MaySerialInsert(model, f[1], f[2])}} \cup
                {ParallelInsert(model, 96, a, 2) :
                    a \in {n \in Nodes(model) : MayParallelInsert(model, n, 2)}} \cup
                {Move(model, p[1], p[2]) :
                    p \in {q \in Nodes(model) \X Nodes(model) : MayMove(model, q[1], q[2])}} \cup
                {Delete(model, d) : d \in {n \in Nodes(model) : MayDelete(model, n) /\ ~FirstOfBranch(n)}}
        IN  \A candidate \in candidates : BlocksIntact(Findings(candidate))

\* A case on a released schema always has a step to work on until it is
\* completed, and the engine never refuses an advance for a missing value, for
\* want of a matching branch or for a loop that repeats without work: what K1
\* to K7 promise (validator.py on K1, stage 2).
ReleasedSchemasRun ==
    Running => /\ run.why = ""
               /\ run.c.state = "RUNNING" => OpenSteps(model, run.c) # {}
               /\ run.c.state = "COMPLETED" => OpenSteps(model, run.c) = {}

ReadsSupplied(open) == \A n \in open : \A a \in AccessesOf(model, n) :
    a.mode = "READ" /\ a.must /\ ~model.element[a.element].supplied => run.c.data[a.element] # Unset

NoConcurrentWrites(open) == \A m, n \in open : m # n => MustWrite(model, m) \cap MustWrite(model, n) = {}

RefersToWhatRan(open) == \A n \in open \cap DOMAIN model.staff :
    \A m \in model.staff[n] : run.c.ns[m] = "COMPLETED"

\* Whichever way a case of a released schema took, a step that can be worked on finds a
\* value for everything it must read, unless a connector supplies it (D1), no other open
\* step must write what it must write, so that a value does not depend on who is faster
\* (D2), and every node its staff rule refers to has run (Z3).  That it also has a
\* performer is not claimed: Z3 lets a rule refer to START, a gateway, a sub-process or
\* an automatic step too, whatever PerformerReferenceCandidates offers, and a later
\* conversion or service binding of a step leaves the rules that refer to it.
StepsFindWhatTheyNeed ==
    Running => LET open == OpenSteps(model, run.c)
               IN  ReadsSupplied(open) /\ NoConcurrentWrites(open) /\ RefersToWhatRan(open)

=============================================================================
