------------------------------ MODULE Migration ------------------------------
(***************************************************************************)
(* A case moves between two versions of its schema.  The revision is the   *)
(* released schema after some edits (module Editing), released in turn; a  *)
(* case runs on either of the two and may be moved to the other one when   *)
(* the criteria M0 to M5 of procworks.migration find nothing, forwards or, *)
(* after a release by mistake, backwards.  A migration carries the         *)
(* markings over by id and evaluates nothing: the case goes on with its    *)
(* next completion.                                                        *)
(*                                                                         *)
(* Both versions are released here and were released under today's rules,  *)
(* so M1 finds nothing; a case with ad-hoc deltas is never moved (M5) and  *)
(* has none here.                                                          *)
(***************************************************************************)
EXTENDS CaseRuns

CONSTANTS Drafts, Partition, LoopPartition, NewAccesses, MaxNodes

VARIABLES
    model, left, phase, findings, run,  \* of Editing: the revision and its edits
    base,   \* the released schema that is revised
    on,     \* the version the case runs on: "base" or "revision"
    moved   \* how the case moved: not yet, before a branch was deselected
            \* ("early"), or later

vars == <<model, left, phase, findings, run, base, on, moved>>

Revision == INSTANCE Editing WITH Submissions <- {}

Version(which) == IF which = "base" THEN base ELSE model
Other == IF on = "base" THEN "revision" ELSE "base"

-----------------------------------------------------------------------------
(***************************************************************************)
(* The criteria: what they find wrong with moving case c from v to t.      *)
(***************************************************************************)

Frozen(c) == {n \in DOMAIN c.ns : c.ns[n] \in {"COMPLETED", "RUNNING", "SKIPPED"}}
Done(c) == {n \in DOMAIN c.ns : c.ns[n] = "COMPLETED"}

InternalEdges(v, S) == {e \in v.flow \cup v.sync : e[1] \in S /\ e[2] \in S}

\* Mutant: only the nodes of the executed region are compared.
M2NodesOnly(c, v, t) ==
    {<<"M2.step-removed", n>> : n \in Frozen(c) \ Nodes(t)} \cup
    {<<"M2.step-changed", n>> : n \in {m \in Frozen(c) \cap Nodes(t) : t.type[m] # v.type[m]}}

\* The executed region is the same in both versions.
M2(c, v, t) ==
    {<<"M2.step-removed", n>> : n \in Frozen(c) \ Nodes(t)} \cup
    {<<"M2.step-changed", n>> : n \in {m \in Frozen(c) \cap Nodes(t) : t.type[m] # v.type[m]}} \cup
    {<<"M2.path-changed", e>> :
        e \in (InternalEdges(v, Frozen(c)) \ InternalEdges(t, Frozen(c))) \cup
              (InternalEdges(t, Frozen(c)) \ InternalEdges(v, Frozen(c)))}

\* Mutant: a completed step may get other successors.
M3RunningOnly(c, v, t) ==
    {<<"M3.running-removed", n>> :
        n \in {m \in DOMAIN c.ns : c.ns[m] = "RUNNING" /\ m \notin Steps(t)}}

\* Completed nodes keep their successors, running ones stay executable.
M3(c, v, t) ==
    {<<"M3.rewired", n>> :
        n \in {m \in Done(c) \cap Nodes(t) : Succ(v, m) # Succ(t, m)}} \cup
    {<<"M3.running-removed", n>> :
        n \in {m \in DOMAIN c.ns : c.ns[m] = "RUNNING" /\ m \notin Steps(t)}}

Valued(c) == {e \in DOMAIN c.data : c.data[e] # Unset}

\* What the target must read and nobody can supply any more: the reader ran,
\* or a writer did.
MissingMandatory(c, t, given) ==
    LET pastWriters == {a.element : a \in {b \in t.access : b.mode \in Writing
                                                            /\ b.node \in Done(c)}}
    IN  {a.element : a \in {b \in t.access : /\ b.must /\ b.mode \in Reading
                                             /\ b.element \notin Valued(c) \cup given
                                             /\ b.node \in Frozen(c) \/ b.element \in pastWriters}}

Migratable(c, v, t, given) ==
    M2(c, v, t) = {} /\ M3(c, v, t) = {} /\ MissingMandatory(c, t, given) = {}

Known(f, default) == [x \in DOMAIN default |-> IF x \in DOMAIN f THEN f[x] ELSE default[x]]

\* The markings of what both versions know; the rest starts unmarked.
Migrated(c, t, values) ==
    LET fresh == On(t)!NewCase([e \in DOMAIN t.element |-> Unset])
    IN  [fresh EXCEPT !.state       = c.state,
                      !.ns          = Known(c.ns, @),
                      !.es          = Known(c.es, @),
                      !.data        = Known(values @@ c.data, @),
                      !.claimed     = Known(c.claimed, @),
                      !.detail      = Known(c.detail, @),
                      !.corrected   = Known(c.corrected, @),
                      !.completions = Known(c.completions, @),
                      !.iterations  = Known(c.iterations, @),
                      !.round       = Known(c.round, @)]

-----------------------------------------------------------------------------
(***************************************************************************)
(* The state machine: edits, the release, and a case that moves once.      *)
(***************************************************************************)

Init ==
    /\ Revision!Init
    /\ base = model
    /\ on = "base"
    /\ moved = "no"

\* The revision is a copy of the released schema with the same ids.
Revise ==
    /\ Revision!Edit \/ Revision!Release
    /\ UNCHANGED <<base, on, moved>>

\* Cases start on either version once the revision is released.
StartCase ==
    /\ phase = "released"
    /\ phase' = "running"
    /\ on' \in {"base", "revision"}
    /\ \E v \in {IF on' = "base" THEN base ELSE model} : run' = Started(v)
    /\ UNCHANGED <<model, left, findings, base, moved>>

Going == phase = "running" /\ run.why = "" /\ run.c.state = "RUNNING"

StartStep ==
    /\ Going
    /\ \E v \in {Version(on)} : \E n \in OpenSteps(v, run.c) :
          /\ run.c.ns[n] = "ACTIVATED"
          /\ run' = [run EXCEPT !.c = On(v)!StartActivity(run.c, n, "nobody")]
    /\ UNCHANGED <<model, left, phase, findings, base, on, moved>>

CompleteStep ==
    /\ Going
    /\ \E v \in {Version(on)} : \E n \in OpenSteps(v, run.c) :
       \E S \in SUBSET MayWrite(v, n) : \E vals \in [S -> CaseValues] :
           /\ MayComplete(v, run.c, n, vals)
           /\ run' = LET r == Completed(v, run.c, n, vals)
                     IN  IF r.why = "" THEN r ELSE [run EXCEPT !.why = r.why]
    /\ UNCHANGED <<model, left, phase, findings, base, on, moved>>

\* migrate_instance, with start values for what the case lacks (_mapping_for
\* drops the others).
Migrate ==
    /\ Going /\ moved = "no"
    /\ \E v \in {Version(on)}, t \in {Version(Other)} :
       \E given \in SUBSET MissingMandatory(run.c, t, {}) :
           /\ Migratable(run.c, v, t, given)
           /\ \E values \in [given -> CaseValues] :
                 run' = [run EXCEPT !.c = Migrated(run.c, t, values)]
    /\ on' = Other
    /\ moved' = IF \E n \in Frozen(run.c) : run.c.ns[n] = "SKIPPED" THEN "late" ELSE "early"
    /\ UNCHANGED <<model, left, phase, findings, base>>

Next == Revise \/ StartCase \/ StartStep \/ CompleteStep \/ Migrate

Spec == Init /\ [][Next]_vars

-----------------------------------------------------------------------------
(***************************************************************************)
(* Properties.                                                             *)
(***************************************************************************)

PastProducible(v) == \A n \in Nodes(v) :
    LET done    == {m \in Pred(v, n) : run.c.ns[m] = "COMPLETED"}
        skipped == {m \in Pred(v, n) : run.c.ns[m] = "SKIPPED"}
    IN  /\ run.c.ns[n] \in {"ACTIVATED", "RUNNING", "COMPLETED"} /\ Pred(v, n) # {} =>
              /\ done # {}
              /\ Pred(v, n) = done \cup skipped
              /\ v.type[n] = "AND_JOIN" => skipped = {}
        /\ run.c.ns[n] = "SKIPPED" => \A m \in done : v.type[m] = "XOR_SPLIT"

ReadsSupplied(v) == \A n \in OpenSteps(v, run.c) : \A a \in AccessesOf(v, n) :
    a.mode = "READ" /\ a.must /\ ~v.element[a.element].supplied => run.c.data[a.element] # Unset

\* A moved case looks like one that ran on its version from the start.  What it has
\* reached it has reached through completed predecessors, an AND join through all of
\* them, and nothing is reached or waited for behind a node that is skipped (M2 and M3,
\* "the past stays producible").  A step it can work on finds a value for whatever it
\* must read, unless a connector supplies it: the start values asked for at the
\* migration fill every gap between what the case wrote and what the version it moved
\* to reads (M4).
MovedCaseIsSound ==
    moved # "no" => \A v \in {Version(on)} : PastProducible(v) /\ ReadsSupplied(v)

\* The edits after which an early move leaves a case waiting: a sync edge
\* from a step that will not signal it, and a step turned into a sub-process.
KeepsSteps == base.sync = model.sync /\ \A n \in Steps(base) \cap Steps(model) : base.type[n] = model.type[n]

\* A case that is moved before a branch of it is deselected, between versions
\* with the same sync edges and the same kinds of steps, has a step to work on
\* until it is completed: no marking is carried over that nobody will change.
EarlyMovesGoOn ==
    moved = "early" /\ KeepsSteps /\ Going => OpenSteps(Version(on), run.c) # {}

=============================================================================
