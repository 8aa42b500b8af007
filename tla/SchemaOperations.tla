-------------------------- MODULE SchemaOperations --------------------------
(***************************************************************************)
(* The change operations of procworks.operations on a schema value.  Each  *)
(* operation X has the requirements MayX, which the code raises an error   *)
(* for, and the candidate X it hands to raise_if_findings_added; whether   *)
(* the candidate is stored is the caller's decision (module Editing).      *)
(* `id' is the first of the fresh ids the operation draws.  Labels, forms, *)
(* branch captions, connectors and the annotations that hang off a node id *)
(* travel with it and are left out.                                        *)
(***************************************************************************)
EXTENDS SchemaRules, TLC

TheSucc(s, n) == CHOOSE m \in Succ(s, n) : TRUE
ThePred(s, n) == CHOOSE m \in Pred(s, n) : TRUE
Serial(s, n)  == Cardinality(Succ(s, n)) = 1 /\ Cardinality(Pred(s, n)) = 1

\* _require_insert_anchor with _single_outgoing.
Anchor(s, n) == n \in Nodes(s) /\ s.type[n] # "END" /\ Cardinality(Succ(s, n)) = 1

EmptySchema ==
    [type |-> 1 :> "START" @@ 2 :> "END", flow |-> {<<1, 2>>}, sync |-> {},
     xor |-> << >>, loop |-> << >>, element |-> << >>, access |-> {},
     staff |-> << >>, automatic |-> {}, outputs |-> << >>]

Only(f, S) == [x \in DOMAIN f \cap S |-> f[x]]

\* Edges of either kind that touch none of the nodes in S.
Untouched(R, S) == {e \in R : e[1] \notin S /\ e[2] \notin S}

\* _retarget_xor_branch: the first cell that opened at `old' opens at `new'.
Retargeted(d, old, new) ==
    LET i == FirstOf({j \in DOMAIN d.cells : d.cells[j].to = old})
    IN  IF i = 0 THEN d ELSE [d EXCEPT !.cells[i].to = new]

Retarget(s, split, old, new) ==
    IF split \in DOMAIN s.xor THEN [s EXCEPT !.xor[split] = Retargeted(@, old, new)] ELSE s

\* _drop_nodes: the nodes with everything that hangs off them, not their edges.
Drop(s, gone) ==
    LET kept == Nodes(s) \ gone
    IN  [s EXCEPT !.type = Only(@, kept), !.staff = Only(@, kept), !.automatic = @ \ gone,
                  !.outputs = Only(@, kept), !.xor = Only(@, kept), !.loop = Only(@, kept),
                  !.access = {a \in @ : a.node \notin gone}]

-----------------------------------------------------------------------------
(***************************************************************************)
(* Insertions.                                                             *)
(***************************************************************************)

\* A step on the edge a -> b; at a branch start the branch's cell follows it.
MaySerialInsert(s, a, b) == a \in Nodes(s) /\ s.type[a] # "END" /\ b \in Succ(s, a)

\* Mutant: the branch's cell stays at the node behind the new step.
SerialInsertKeepsTarget(s, id, a, b) ==
    [s EXCEPT !.type = @ @@ id :> "ACTIVITY",
              !.flow = (@ \ {<<a, b>>}) \cup {<<a, id>>, <<id, b>>}]

SerialInsert(s, id, a, b) ==
    Retarget([s EXCEPT !.type = @ @@ id :> "ACTIVITY",
                       !.flow = (@ \ {<<a, b>>}) \cup {<<a, id>>, <<id, b>>}],
             a, b, id)

\* _insert_block and the block half of conditional_insert: split, join, then
\* one step per branch.
Block(s, id, a, split, k) ==
    LET steps == (id + 2)..(id + 1 + k)
    IN  [s EXCEPT !.type = @ @@ id :> split @@ (id + 1) :> JoinOf[split]
                             @@ [n \in steps |-> "ACTIVITY"],
                  !.flow = (@ \ {<<a, TheSucc(s, a)>>}) \cup
                           {<<a, id>>, <<id + 1, TheSucc(s, a)>>} \cup
                           ({id} \X steps) \cup (steps \X {id + 1})]

MayParallelInsert(s, a, k) == k >= 2 /\ Anchor(s, a)
ParallelInsert(s, id, a, k) == Block(s, id, a, "AND_SPLIT", k)

\* The discriminator exists and is partitionable; K7 judges the partition.
MayConditionalInsert(s, a, e, cells) ==
    /\ Len(cells) >= 2
    /\ Anchor(s, a)
    /\ e \in DOMAIN s.element
    /\ KindOf(s.element[e].type) # "none"

ConditionalInsert(s, id, a, e, cells) ==
    [Block(s, id, a, "XOR_SPLIT", Len(cells)) EXCEPT
        !.xor = @ @@ id :> [disc  |-> e,
                            kind  |-> KindOf(s.element[e].type),
                            cells |-> [i \in DOMAIN cells |->
                                         [cells[i] EXCEPT !.to = id + 1 + i]]]]

\* _build_loop_decision: the boolean shorthand without cells, else a partition.
MayDecideLoop(s, e, cells) ==
    /\ e \in DOMAIN s.element
    /\ s.element[e].own
    /\ IF cells = <<>> THEN s.element[e].type = "BOOLEAN"
       ELSE KindOf(s.element[e].type) # "none"

LoopDecision(s, e, repeat, cells, max) ==
    [disc   |-> e,
     kind   |-> IF cells = <<>> THEN "BOOLEAN" ELSE KindOf(s.element[e].type),
     cells  |-> cells,
     repeat |-> repeat,
     max    |-> max]

\* LOOP_START, one step that must write the discriminator, LOOP_END.
MayInsertLoop(s, a, e, cells) == Anchor(s, a) /\ MayDecideLoop(s, e, cells)

InsertLoop(s, id, a, e, repeat, cells, max) ==
    [s EXCEPT !.type = @ @@ id :> "LOOP_START" @@ (id + 1) :> "ACTIVITY"
                         @@ (id + 2) :> "LOOP_END",
              !.flow = (@ \ {<<a, TheSucc(s, a)>>}) \cup
                       {<<a, id>>, <<id, id + 1>>, <<id + 1, id + 2>>,
                        <<id + 2, TheSucc(s, a)>>},
              !.loop = @ @@ (id + 2) :> LoopDecision(s, e, repeat, cells, max),
              !.access = @ \cup {[node |-> id + 1, element |-> e, mode |-> "WRITE",
                                  must |-> TRUE, type |-> "none"]}]

MaySetLoopDecision(s, n, e, cells) == n \in OfType(s, "LOOP_END") /\ MayDecideLoop(s, e, cells)
SetLoopDecision(s, n, e, repeat, cells, max) ==
    [s EXCEPT !.loop = n :> LoopDecision(s, e, repeat, cells, max) @@ @]

-----------------------------------------------------------------------------
(***************************************************************************)
(* Sync edges.                                                             *)
(***************************************************************************)

MayAddSync(s, a, b) == {a, b} \subseteq Nodes(s) /\ a # b /\ <<a, b>> \notin s.sync
AddSync(s, a, b)    == [s EXCEPT !.sync = @ \cup {<<a, b>>}]

MayRemoveSync(s, a, b) == <<a, b>> \in s.sync
RemoveSync(s, a, b)    == [s EXCEPT !.sync = @ \ {<<a, b>>}]

\* _and_block_of: the AND splits whose block covers the members; the smallest
\* one is the innermost.
Covering(s, members) ==
    {x \in OfType(s, "AND_SPLIT") : /\ members \subseteq BlockBody(s, x)
                                    /\ JoinsOfBlock(s, x) # {}}

InnermostAndBlock(s, members) ==
    CHOOSE x \in Covering(s, members) :
        \A y \in Covering(s, members) :
            Cardinality(BlockBody(s, x)) <= Cardinality(BlockBody(s, y))

MayInsertBetween(s, sources, targets) ==
    /\ sources # {} /\ targets # {}
    /\ sources \cup targets \subseteq OfType(s, "ACTIVITY")
    /\ Covering(s, sources \cup targets) # {}

\* The new step is a branch of its own, ordered by sync edges only.
InsertBetween(s, id, sources, targets) ==
    LET x == InnermostAndBlock(s, sources \cup targets)
    IN  [s EXCEPT !.type = @ @@ id :> "ACTIVITY",
                  !.flow = @ \cup {<<x, id>>, <<id, TheJoin(s, x)>>},
                  !.sync = @ \cup (sources \X {id}) \cup ({id} \X targets)]

-----------------------------------------------------------------------------
(***************************************************************************)
(* Moving and deleting.                                                    *)
(***************************************************************************)

\* The node is all there is between a loop's delimiters, or a block's gateways.
SoleLoopContent(s, n) ==
    s.type[ThePred(s, n)] = "LOOP_START" /\ s.type[TheSucc(s, n)] = "LOOP_END"

SoleBranchContent(s, n) ==
    /\ s.type[ThePred(s, n)] \in Splits
    /\ s.type[TheSucc(s, n)] \in Joins
    /\ Paired(s, ThePred(s, n))
    /\ TheJoin(s, ThePred(s, n)) = TheSucc(s, n)

\* _require_no_empty_branch
HasEmptyBranch(s, split, join) ==
    /\ split \in DOMAIN s.xor
    /\ \E i \in DOMAIN s.xor[split].cells : s.xor[split].cells[i].to = join

MayMove(s, n, a) ==
    /\ n \in OfTypes(s, {"ACTIVITY", "SUBPROCESS"})
    /\ a \in Nodes(s) \ {n} /\ s.type[a] # "END"
    /\ Serial(s, n)
    /\ ~SoleLoopContent(s, n)
    /\ SoleBranchContent(s, n) =>
          /\ s.type[ThePred(s, n)] = "XOR_SPLIT"
          /\ ~HasEmptyBranch(s, ThePred(s, n), TheSucc(s, n))
    /\ Cardinality(Succ(s, a)) = 1

\* Out of its place, the gap closed and the branch it opened retargeted; then
\* behind the anchor.  Every edge of the node goes, its sync edges included.
Move(s, n, a) ==
    LET p == ThePred(s, n)
        q == TheSucc(s, n)
        out == Retarget([s EXCEPT !.flow = Untouched(@, {n}) \cup {<<p, q>>},
                                  !.sync = Untouched(@, {n})], p, n, q)
        b == TheSucc(out, a)
    IN  [out EXCEPT !.flow = (@ \ {<<a, b>>}) \cup {<<a, n>>, <<n, b>>}]

\* Cut the nodes in `gone' out and join what is left of the gap.
Cut(s, gone, p, q) ==
    Drop([s EXCEPT !.flow = Untouched(@, gone) \cup {<<p, q>>}, !.sync = Untouched(@, gone)],
         gone)

\* _dissolve_gateway: a block down to one branch gives way to that branch.
Dissolve(s, split, join, gone) ==
    LET p    == ThePred(s, split)
        q    == TheSucc(s, join)
        head == TheSucc(s, split)
        tail == ThePred(s, join)
        gates == {split, join}
    IN  Drop([s EXCEPT !.flow = Untouched(@, gates) \cup {<<p, head>>, <<tail, q>>},
                       !.sync = Untouched(@, gates)],
             gates \cup gone)

\* _empty_out_xor_branch: the branch stays, as an edge from split to join.
EmptyOutXorBranch(s, n) ==
    LET p == ThePred(s, n)
        q == TheSucc(s, n)
    IN  Cut(Retarget(s, p, n, q), {n}, p, q)

\* _remove_and_branch: the branch goes, and the block with it when one is left.
RemoveAndBranch(s, n) ==
    LET p   == ThePred(s, n)
        q   == TheSucc(s, n)
        out == [s EXCEPT !.flow = Untouched(@, {n}), !.sync = Untouched(@, {n})]
    IN  IF Cardinality(Succ(out, p)) >= 2 THEN Drop(out, {n}) ELSE Dissolve(out, p, q, {n})

MayDelete(s, n) ==
    /\ n \in Nodes(s)
    /\ s.type[n] \notin {"START", "END", "LOOP_END"} \cup Joins
    /\ s.type[n] \in Splits => Paired(s, n)
    /\ s.type[n] \in {"ACTIVITY", "SUBPROCESS"} =>
          /\ Serial(s, n)
          /\ SoleBranchContent(s, n) /\ s.type[ThePred(s, n)] = "XOR_SPLIT" =>
                ~HasEmptyBranch(s, ThePred(s, n), TheSucc(s, n))

\* A loop or a block goes with its content, a step alone or, when the loop it
\* is in would be left empty, with that loop.
Extent(s, n) ==
    CASE s.type[n] = "LOOP_START" ->
           LET end == CHOOSE e \in LoopWalk(s, n).ends : TRUE
           IN  [first |-> n, last |-> end, gone |-> LoopWalk(s, n).body \cup {n, end}]
      [] s.type[n] \in Splits ->
           [first |-> n, last |-> TheJoin(s, n), gone |-> BlockBody(s, n) \cup {n, TheJoin(s, n)}]
      [] OTHER ->
           IF SoleLoopContent(s, n)
           THEN [first |-> ThePred(s, n), last |-> TheSucc(s, n),
                 gone  |-> {ThePred(s, n), n, TheSucc(s, n)}]
           ELSE [first |-> n, last |-> n, gone |-> {n}]

\* The pair of nodes a deletion joins.
Gap(s, n) == <<ThePred(s, Extent(s, n).first), TheSucc(s, Extent(s, n).last)>>

Delete(s, n) ==
    IF s.type[n] \in {"ACTIVITY", "SUBPROCESS"} /\ SoleBranchContent(s, n)
    THEN IF s.type[ThePred(s, n)] = "XOR_SPLIT" THEN EmptyOutXorBranch(s, n)
         ELSE RemoveAndBranch(s, n)
    ELSE Cut(s, Extent(s, n).gone, Gap(s, n)[1], Gap(s, n)[2])

\* The edge split -> join and its cell go; a last branch left is kept inline.
MayRemoveEmptyBranch(s, x) ==
    /\ x \in OfType(s, "XOR_SPLIT")
    /\ Paired(s, x)
    /\ HasEmptyBranch(s, x, TheJoin(s, x))

RemoveEmptyBranch(s, x) ==
    LET j   == TheJoin(s, x)
        out == [s EXCEPT !.flow = @ \ {<<x, j>>},
                         !.xor[x].cells = SelectSeq(@, LAMBDA c : c.to # j)]
    IN  IF Cardinality(Succ(out, x)) >= 2 THEN out ELSE Dissolve(out, x, j, {})

-----------------------------------------------------------------------------
(***************************************************************************)
(* Data, staff rules and services.                                         *)
(***************************************************************************)

MayAddElement(s, e)    == e \notin DOMAIN s.element
AddElement(s, e, type) ==
    [s EXCEPT !.element = @ @@ e :> [type |-> type, own |-> TRUE, supplied |-> FALSE]]

\* update_data_element (a name is text) and reset_data_element_source.
RetypeElement(s, e, type)  == [s EXCEPT !.element[e].type = type]
ResetElementSource(s, e)   == [s EXCEPT !.element[e].own = TRUE, !.element[e].supplied = FALSE]

DeleteElement(s, e) ==
    [s EXCEPT !.element = Only(@, DOMAIN @ \ {e}), !.access = {a \in @ : a.element # e}]

\* An identical access is refused.
MayConnect(s, a) ==
    a.node \in OfType(s, "ACTIVITY") /\ a.element \in DOMAIN s.element /\ a \notin s.access
Connect(s, a) == [s EXCEPT !.access = @ \cup {a}]

\* `mode' is one mode, or "any" for every access of the element at the step.
Matching(s, n, e, mode) ==
    {a \in s.access : a.node = n /\ a.element = e /\ mode \in {"any", a.mode}}
MayDisconnect(s, n, e, mode) == Matching(s, n, e, mode) # {}
Disconnect(s, n, e, mode)    == [s EXCEPT !.access = @ \ Matching(s, n, e, mode)]

\* assign_staff_rule, clear_staff_rule: `refs' are the steps the rule refers to.
MayAssignStaff(s, n)     == n \in OfType(s, "ACTIVITY")
AssignStaff(s, n, refs)  == [s EXCEPT !.staff = n :> refs @@ @]
MayClearStaff(s, n)      == n \in DOMAIN s.staff
ClearStaff(s, n)         == [s EXCEPT !.staff = Only(@, DOMAIN @ \ {n})]

\* assign_service, unassign_service, set_automation: what counts is whether the
\* step is worked by an external system afterwards.
MayBindService(s, n)         == n \in OfType(s, "ACTIVITY")
BindService(s, n, automatic) ==
    [s EXCEPT !.automatic = IF automatic THEN @ \cup {n} ELSE @ \ {n}]

-----------------------------------------------------------------------------
(***************************************************************************)
(* Sub-processes, as far as this schema goes: `outs' are the elements the  *)
(* binding's output mapping names.                                         *)
(***************************************************************************)

InsertSubprocess(s, id, a, outs) ==
    LET b == TheSucc(s, a)
    IN  [s EXCEPT !.type = @ @@ id :> "SUBPROCESS",
                  !.flow = (@ \ {<<a, b>>}) \cup {<<a, id>>, <<id, b>>},
                  !.outputs = @ @@ id :> outs]

\* set_subprocess_mapping and set_subprocess_binding.
MayRebind(s, n)    == n \in OfType(s, "SUBPROCESS")
Rebind(s, n, outs) == [s EXCEPT !.outputs = n :> outs @@ @]

\* The step becomes a black box: its accesses, rule and service go.
MayConvert(s, n)    == n \in OfType(s, "ACTIVITY")
Convert(s, n, outs) ==
    [s EXCEPT !.type[n] = "SUBPROCESS", !.outputs = @ @@ n :> outs,
              !.access = {a \in @ : a.node # n},
              !.staff = Only(@, DOMAIN @ \ {n}), !.automatic = @ \ {n}]

=============================================================================
