---------------------------- MODULE Composition ----------------------------
(***************************************************************************)
(* Processes that call processes: sub-process bindings, follow-up links    *)
(* and templates (procworks.operations, the rules H1-H3 and F1-F4 of       *)
(* procworks.validator) and what the engine then does with them            *)
(* (procworks.execution).                                                  *)
(*                                                                         *)
(* A schema's body is a sequence of steps; what only some paths of the     *)
(* real graph write is written by a step that may leave it out.  A value   *)
(* is the type it has.  Modellers edit the drafts of `store' one request   *)
(* at a time, and cases run on the released schemas: `stack' is one such   *)
(* case with the sub-processes it is waiting in, `lineage' what it         *)
(* descends from.  Of the follow-ups an end starts, one is followed; the   *)
(* others share nothing with it.  No edit falls beside a case: it may      *)
(* change drafts only, and a case reads no draft.                          *)
(***************************************************************************)
EXTENDS Naturals, SequencesExt

CONSTANTS
    SchemaId, TemplateId,
    Type,          \* data types
    InitialStores, \* what is stored at the start
    Mappings,      \* the mappings a request may ask for
    Conditions,    \* the conditions a request may ask for: what they read, and whether they parse
    MaxEdits       \* edits, per behaviour

VARIABLES
    store,      \* schema id -> schema
    templates,  \* template id -> blueprint
    left,       \* edits left
    stack,      \* the case that runs: its frames, the innermost last
    lineage     \* the schemas whose cases led to it

vars == <<store, templates, left, stack, lineage>>

\* A schema is found by its id; a pinned version must be the stored one.
Resolve(to, versions) ==
    {store[i] : i \in {j \in {to} \cap DOMAIN store : versions = {} \/ store[j].version \in versions}}

When(cond, finding) == IF cond THEN {finding} ELSE {}

Elements(s) == DOMAIN s.type
StepsOf(s)  == DOMAIN s.body
CallsOf(s)  == {i \in StepsOf(s) : s.body[i].bind # {}}
Binding(s, i) == CHOOSE b \in s.body[i].bind : TRUE

-----------------------------------------------------------------------------
(***************************************************************************)
(* What is written for certain.                                            *)
(***************************************************************************)

Outputs(s, i) == UNION {Range(b.out) \cap Elements(s) : b \in s.body[i].bind}

WrittenBefore(s, i) == UNION {s.body[j].must \cup Outputs(s, j) : j \in 1..(i - 1)}
WrittenAtEnd(s)     == WrittenBefore(s, Len(s.body) + 1)

D1(s) ==
    {<<"D1.read-before-write", s.body[i].id, e>> :
        <<i, e>> \in {<<j, x>> \in StepsOf(s) \X Elements(s) :
                        x \in s.body[j].reads \ (s.supplied \cup WrittenBefore(s, j))}}

-----------------------------------------------------------------------------
(***************************************************************************)
(* Sub-processes.                                                          *)
(***************************************************************************)

\* Mutant: the check of the parent's side is missing.
UnsuppliedInputsNone(s, i, b) == {}

UnsuppliedInputs(s, i, b) ==
    {e \in Range(b.in) \cap Elements(s) : e \notin s.supplied \cup WrittenBefore(s, i)}

\* The part that needs no other schema.
CallFindingsLocal(s, i) ==
    LET b == Binding(s, i)
    IN  {<<"H2.unknown-parent-element", s.body[i].id, e>> :
            e \in (Range(b.in) \cup Range(b.out)) \ Elements(s)}
        \cup {<<"H2.input-not-written", s.body[i].id, e>> : e \in UnsuppliedInputs(s, i, b)}

\* Elements of s mapped onto elements of t that are of another type, or unknown there.
Mistyped(s, t, mapping) ==
    {e \in DOMAIN mapping : \/ e \notin Elements(t)
                            \/ /\ mapping[e] \in Elements(s)
                               /\ t.type[e] # s.type[mapping[e]]}

\* Mutant: any stored schema will do as a target.
NotReleasedIgnored(t) == FALSE

NotReleased(t) == t.state # "RELEASED"

\* The part that looks at the sub-process; without a target there is nothing to compare.
CallFindingsTarget(s, i) ==
    LET b == Binding(s, i)
        found == Resolve(b.to, {b.version})
    IN  When(found = {}, <<"H1.target-missing", s.body[i].id, b.to>>)
        \cup UNION {When(NotReleased(t), <<"H1.target-not-released", s.body[i].id, b.to>>)
                    \cup {<<"H2.type-mismatch", s.body[i].id, e>> :
                        e \in Mistyped(s, t, b.in) \cup Mistyped(s, t, b.out)}
                    \cup {<<"H2.output-not-written", s.body[i].id, e>> :
                        e \in (DOMAIN b.out \cap Elements(t)) \ WrittenAtEnd(t)} : t \in found}

\* The schemas called from those in S, through at most k more calls.
Called(S) ==
    LET From(T) == UNION {{Binding(t, i).to : i \in CallsOf(t)} :
                            t \in UNION {Resolve(j, {}) : j \in T}}
        Reach[k \in 0..Cardinality(SchemaId)] ==
            IF k = 0 THEN S ELSE LET T == Reach[k - 1] IN T \cup From(T)
    IN  Reach[Cardinality(SchemaId)]

CycleFindings(id, s) ==
    When(id \in Called({Binding(s, i).to : i \in CallsOf(s)}), <<"H3.cycle", 0, id>>)

-----------------------------------------------------------------------------
(***************************************************************************)
(* Follow-ups.                                                             *)
(***************************************************************************)

UnwrittenAtEnd(s, names) == names \ (s.supplied \cup WrittenAtEnd(s))

ConditionFindings(s, l) ==
    IF l.cond = {} THEN {<<"F4.no-condition", l.id, "">>}
    ELSE UNION {IF ~c.parses THEN {<<"F4.invalid-condition", l.id, "">>}
                ELSE IF c.reads \subseteq Elements(s)
                THEN {<<"F4.condition-not-written", l.id, e>> : e \in UnwrittenAtEnd(s, c.reads)}
                ELSE {<<"F4.unknown-element", l.id, e>> : e \in c.reads \ Elements(s)} : c \in l.cond}

LinkFindingsLocal(s, l) ==
    {<<"F2.unknown-source", l.id, e>> : e \in Range(l.handover) \ Elements(s)}
    \cup IF l.trigger = "CONDITIONAL" THEN ConditionFindings(s, l)
         ELSE When(l.cond # {}, <<"F4.condition-ignored", l.id, "">>)

LinkFindingsTarget(s, l) ==
    LET found == Resolve(l.to, l.version)
    IN  When(found = {}, <<"F1.no-released-version", l.id, l.to>>)
        \cup UNION {When(NotReleased(t), <<"F1.not-released", l.id, l.to>>)
                    \cup {<<"F2.type-mismatch", l.id, e>> : e \in Mistyped(s, t, l.handover)} :
                       t \in found}

-----------------------------------------------------------------------------
(***************************************************************************)
(* Findings, with the other schemas at hand (`resolved') or without.       *)
(***************************************************************************)

Findings(id, s, resolved) ==
    D1(s)
    \cup UNION {CallFindingsLocal(s, i) \cup IF resolved THEN CallFindingsTarget(s, i) ELSE {} :
                   i \in CallsOf(s)}
    \cup UNION {LinkFindingsLocal(s, l) \cup IF resolved THEN LinkFindingsTarget(s, l) ELSE {} :
                   l \in Range(s.links)}
    \cup IF resolved THEN CycleFindings(id, s) ELSE {}

\* An edit may keep what the draft was stored with, but add nothing.
NothingAdded(id, before, after, resolved) ==
    LET found == [s \in {before, after} |-> Findings(id, s, resolved)]
    IN  found[after] \subseteq found[before]

Fresh == 100 + left

-----------------------------------------------------------------------------
(***************************************************************************)
(* The operations on a draft: the candidate each hands to the check.       *)
(***************************************************************************)

Step(id, binds) == [id |-> id, reads |-> {}, must |-> {}, may |-> {}, bind |-> binds]

\* Behind the i-th step, behind START for 0.
InsertSubprocess(s, i, b) == [s EXCEPT !.body = InsertAt(@, i + 1, Step(Fresh, {b}))]

SetSubprocessMapping(s, i, in, out) ==
    [s EXCEPT !.body[i].bind = {[b EXCEPT !.in = in, !.out = out] : b \in @}]

\* What the activity read and wrote itself is dropped.
ConvertActivity(s, i, b)      == [s EXCEPT !.body[i] = Step(@.id, {b})]
SetSubprocessBinding(s, i, b) == [s EXCEPT !.body[i].bind = {b}]

LinkFollowUp(s, l)    == [s EXCEPT !.links = Append(@, l)]
UnlinkFollowUp(s, id) == [s EXCEPT !.links = SelectSeq(@, LAMBDA l : l.id # id)]

DeleteStep(s, i)         == [s EXCEPT !.body = RemoveAt(@, i)]
RetypeElement(s, e, t)   == [s EXCEPT !.type[e] = t]
DisconnectWrite(s, i, e) == [s EXCEPT !.body[i].must = @ \ {e}]

-----------------------------------------------------------------------------
(***************************************************************************)
(* The requests.                                                           *)
(***************************************************************************)

NoData == [e \in {} |-> ""]
Idle   == stack = <<>>

Init ==
    /\ store \in InitialStores
    /\ templates = [i \in {} |-> store]
    /\ left = MaxEdits
    /\ stack = <<>> /\ lineage = {}

\* No finding at all, whichever edit or older version of the rules left it.
Releasable(id) == Findings(id, store[id], TRUE) = {}

\* R0, the check of the operation and the save of its candidate.
Commit(id, candidate, resolved) ==
    /\ NothingAdded(id, store[id], candidate, resolved)
    /\ store' = [store EXCEPT ![id] = candidate]
    /\ left' = left - 1
    /\ UNCHANGED <<templates, stack, lineage>>

Drafts == {id \in DOMAIN store : Idle /\ left > 0 /\ store[id].state = "ENTWURF"}

Bindings == {[to |-> i, version |-> v, in |-> m.in, out |-> m.out] :
                i \in DOMAIN store, v \in {1, 2}, m \in Mappings}

PostSubprocess == \E id \in Drafts : \E i \in 0..Len(store[id].body), b \in Bindings :
    Commit(id, InsertSubprocess(store[id], i, b), TRUE)

PostSubprocessMapping == \E id \in Drafts : \E i \in CallsOf(store[id]), m \in Mappings :
    Commit(id, SetSubprocessMapping(store[id], i, m.in, m.out), TRUE)

PostConvertToSubprocess ==
    \E id \in Drafts : \E i \in StepsOf(store[id]) \ CallsOf(store[id]), b \in Bindings :
        Commit(id, ConvertActivity(store[id], i, b), TRUE)

PostSubprocessBinding == \E id \in Drafts : \E i \in CallsOf(store[id]), b \in Bindings :
    Commit(id, SetSubprocessBinding(store[id], i, b), TRUE)

PostLinkFollowUp ==
    \E id \in Drafts : \E to \in DOMAIN store, v \in {{}, {1}, {2}}, m \in Mappings :
    \E trigger \in {"ON_COMPLETE", "CONDITIONAL"}, cond \in {{}} \cup {{c} : c \in Conditions} :
        Commit(id, LinkFollowUp(store[id],
                     [id |-> Fresh, to |-> to, version |-> v, trigger |-> trigger, cond |-> cond,
                      handover |-> m.in]), TRUE)

\* The remaining edits run without a resolver: they see no other schema.
DeleteFollowUp == \E id \in Drafts : \E l \in Range(store[id].links) :
    Commit(id, UnlinkFollowUp(store[id], l.id), FALSE)

DeleteNode == \E id \in Drafts : \E i \in StepsOf(store[id]) :
    Commit(id, DeleteStep(store[id], i), FALSE)

PutDataElement == \E id \in Drafts : \E e \in Elements(store[id]), t \in Type :
    Commit(id, RetypeElement(store[id], e, t), FALSE)

DisconnectData == \E id \in Drafts : \E i \in StepsOf(store[id]) : \E e \in store[id].body[i].must :
    Commit(id, DisconnectWrite(store[id], i, e), FALSE)

PostRelease(id) ==
    /\ Idle /\ store[id].state = "ENTWURF"
    /\ Releasable(id)
    /\ store' = [store EXCEPT ![id].state = "RELEASED"]
    /\ UNCHANGED <<templates, left, stack, lineage>>

\* snapshot_for_template: a clean first draft, without a finding of its own.
SaveTemplate(id, tid) ==
    LET blueprint == [store[id] EXCEPT !.state = "ENTWURF", !.version = 1]
    IN  /\ Idle /\ left > 0
        /\ tid \notin DOMAIN templates
        /\ Findings(tid, blueprint, FALSE) = {}
        /\ templates' = tid :> blueprint @@ templates
        /\ left' = left - 1
        /\ UNCHANGED <<store, stack, lineage>>

\* Checked against the blueprint, which carries whatever the draft will.
InstantiateTemplate(tid, id) ==
    /\ Idle /\ left > 0
    /\ id \notin DOMAIN store
    /\ NothingAdded(id, templates[tid], templates[tid], FALSE)
    /\ store' = id :> templates[tid] @@ store
    /\ left' = left - 1
    /\ UNCHANGED <<templates, stack, lineage>>

DeleteTemplate(tid) ==
    /\ Idle /\ left > 0
    /\ templates' = [i \in DOMAIN templates \ {tid} |-> templates[i]]
    /\ left' = left - 1
    /\ UNCHANGED <<store, stack, lineage>>

-----------------------------------------------------------------------------
(***************************************************************************)
(* Cases.                                                                  *)
(***************************************************************************)

Top    == Last(stack)
TopOf  == store[Top.schema]
AtStep == Top.at \in StepsOf(TopOf)
AtCall == AtStep /\ Top.at \in CallsOf(TopOf)
AtEnd  == Top.at = Len(TopOf.body) + 1

\* The values of `data' a mapping hands over; what is not there is left out.
Handed(mapping, data) ==
    [e \in {x \in DOMAIN mapping : mapping[x] \in DOMAIN data} |-> data[mapping[e]]]

Frame(id, data) == [schema |-> id, at |-> 1, data |-> data]

Undisturbed == UNCHANGED <<store, templates, left>>

StartCase(id) ==
    /\ Idle /\ store[id].state = "RELEASED"
    /\ stack' = <<Frame(id, NoData)>>
    /\ UNCHANGED lineage /\ Undisturbed

\* A step is completed with its mandatory writes and any of the others.
CompleteStep ==
    /\ ~Idle /\ AtStep /\ ~AtCall
    /\ \E more \in SUBSET TopOf.body[Top.at].may :
         LET brought == TopOf.body[Top.at].must \cup more
         IN  stack' = [stack EXCEPT ![Len(stack)] =
                         [@ EXCEPT !.at = @ + 1,
                                   !.data = [e \in brought |-> TopOf.type[e]] @@ @]]
    /\ UNCHANGED lineage /\ Undisturbed

\* _handle_subprocess; instantiate refuses a schema that is not released.
CallSubprocess ==
    /\ ~Idle /\ AtCall
    /\ LET b == Binding(TopOf, Top.at)
       IN  /\ \E t \in Resolve(b.to, {b.version}) : t.state = "RELEASED"
           /\ stack' = Append(stack, Frame(b.to, Handed(b.in, Top.data)))
    /\ UNCHANGED lineage /\ Undisturbed

\* evaluate_condition has a value for every name it may come across.
Decided(l, data) == l.trigger = "CONDITIONAL" => \A c \in l.cond : c.reads \subseteq DOMAIN data

\* Otherwise ExecutionError: the step whose completion ended the case is undone.
EndsDecided == AtEnd /\ \A l \in Range(TopOf.links) : Decided(l, Top.data)

\* A conditional follow-up may fire whenever it has a condition.
FollowUp ==
    /\ ~Idle /\ EndsDecided
    /\ \E l \in Range(TopOf.links) :
         /\ l.trigger = "CONDITIONAL" => l.cond # {}
         /\ \E t \in Resolve(l.to, l.version) : t.state = "RELEASED"
         /\ stack' = <<Frame(l.to, Handed(l.handover, Top.data))>>
    /\ lineage' = lineage \cup {f.schema : f \in Range(stack)}
    /\ Undisturbed

\* _join_subprocess: what the child has of its outputs is written back.
Joined(parent, out, data) ==
    LET there == {e \in DOMAIN out : e \in DOMAIN data}
    IN  [parent EXCEPT !.at = @ + 1,
                       !.data = [p \in {out[e] : e \in there} |->
                                   data[CHOOSE e \in there : out[e] = p]] @@ @]

ReturnToParent ==
    /\ ~Idle /\ EndsDecided /\ Len(stack) > 1
    /\ LET parent == stack[Len(stack) - 1]
           b == Binding(store[parent.schema], parent.at)
       IN  stack' = Append(SubSeq(stack, 1, Len(stack) - 2), Joined(parent, b.out, Top.data))
    /\ UNCHANGED lineage /\ Undisturbed

EndCase ==
    /\ ~Idle /\ EndsDecided /\ Len(stack) = 1
    /\ stack' = <<>> /\ lineage' = {}
    /\ Undisturbed

-----------------------------------------------------------------------------
Next ==
    \/ PostSubprocess \/ PostSubprocessMapping \/ PostConvertToSubprocess
    \/ PostSubprocessBinding \/ PostLinkFollowUp \/ DeleteFollowUp \/ DeleteNode
    \/ PutDataElement \/ DisconnectData
    \/ \E id \in DOMAIN store : PostRelease(id) \/ StartCase(id)
    \/ \E id \in DOMAIN store, tid \in TemplateId : SaveTemplate(id, tid)
    \/ \E tid \in DOMAIN templates : DeleteTemplate(tid) \/ \E id \in SchemaId : InstantiateTemplate(tid, id)
    \/ CompleteStep \/ CallSubprocess \/ FollowUp \/ ReturnToParent \/ EndCase

Spec == Init /\ [][Next]_vars

-----------------------------------------------------------------------------
(***************************************************************************)
(* Properties.                                                             *)
(***************************************************************************)

\* What a released process and its sub-processes pass each other arrives, on
\* every path: an activity finds what it must read and a sub-process every
\* mapped input the process itself produces (D1, H2), an ended sub-process has
\* every mapped output (H2), and a value sits only in elements of its type (H2,
\* F2) -- whatever edits, seeing the other schemas or not, led to the releases.
CallsPassData ==
    ~Idle =>
        /\ \A e \in DOMAIN Top.data : e \in Elements(TopOf) /\ Top.data[e] = TopOf.type[e]
        /\ AtCall => \A b \in TopOf.body[Top.at].bind :
             Range(b.in) \ TopOf.supplied \subseteq DOMAIN Top.data
        /\ AtStep => TopOf.body[Top.at].reads \ TopOf.supplied \subseteq DOMAIN Top.data
        /\ AtEnd /\ Len(stack) > 1 =>
             LET parent == stack[Len(stack) - 1]
             IN  DOMAIN Binding(store[parent.schema], parent.at).out \subseteq DOMAIN Top.data

NoProcessContainsItself ==
    \A k \in DOMAIN stack :
        /\ stack[k].schema \notin lineage
        /\ \A j \in 1..(k - 1) : stack[j].schema # stack[k].schema

WrittenConditionsDecided ==
    ~Idle /\ AtEnd => \A l \in Range(TopOf.links) : \A c \in l.cond :
        l.trigger = "CONDITIONAL" => c.reads \ TopOf.supplied \subseteq DOMAIN Top.data

\* Every case can come to its end.  A process contains itself neither as a
\* sub-process nor, further on, as a follow-up of its follow-ups, so that a case
\* which starts others comes to an end of them (H3, and F1 for the links); and when
\* a case ends, every conditional follow-up can be decided as far as it reads what
\* the process itself writes, so that its last step can be completed (F4).
CasesCanEnd == NoProcessContainsItself /\ WrittenConditionsDecided

=============================================================================
