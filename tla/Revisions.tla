------------------------------ MODULE Revisions ------------------------------
(***************************************************************************)
(* The versions of a process: drafts, releases and revisions, requested by *)
(* several clients at once (api_changes.post_new_revision,                 *)
(* api_modelling.post_release, post_library_flag for the edits of a        *)
(* draft), and what is derived from the family a schema belongs to: where  *)
(* its cases may move and what the library of sub-processes offers.        *)
(*                                                                         *)
(* Every request is a unit of work on a READ COMMITTED database: it reads  *)
(* what others have committed, a save is conditional on the version read   *)
(* and holds its row until the unit ends, and a conflict starts the unit   *)
(* again.  What is inside a schema is left to module Editing.              *)
(***************************************************************************)
EXTENDS Naturals, FiniteSets

CONSTANTS
    Request,
    Id,        \* the ids of schemas, the fresh ones too
    None,
    Named,     \* the ids a client may ask for (new_schema_id)
    Families,  \* the stored schemas to begin with
    Retries    \* unit_of_work.DEFAULT_RETRIES

ASSUME RevisionTypes == Id \subseteq Nat /\ Named \subseteq Id /\ None \notin Id /\ Retries \in Nat

VARIABLES
    stored,   \* id -> [version, of, state, name, library, lock]
    claims,   \* id_claim: the ids that were drawn and used
    unit      \* the unit of work of each request, each in a process of its own

vars == <<stored, claims, unit>>

OnceReleased == {"RELEASED", "DEPRECATED", "ARCHIVED"}
OpenStates   == {"ENTWURF", "REVIEW"}
Lifecycle    == OnceReleased \cup OpenStates

Schema == [version : Nat \ {0}, of : Id \cup {None}, state : Lifecycle, name : {"p", "q"},
           library : BOOLEAN, lock : Nat \ {0}]

Versions(all) == DOMAIN all \subseteq Id /\ \A i \in DOMAIN all : all[i] \in Schema

Fresh == [kind |-> "none", schema |-> None, at |-> "new", copy |-> [i \in {} |-> None],
          here |-> None, held |-> {}, todo |-> {}, seen |-> [i \in {} |-> None],
          named |-> None, next |-> 0, id |-> None, claim |-> None, attempt |-> 0, answer |-> ""]

Ended(answer) == [Fresh EXCEPT !.at = "ended", !.answer = answer]

-----------------------------------------------------------------------------
(***************************************************************************)
(* Families, over any set of stored schemas.                               *)
(***************************************************************************)

Known(all, i) == i \in DOMAIN all
Closed(all, S) == \A i \in S : Known(all, all[i].of) => all[i].of \in S

\* i with its ancestors.
Lineage(all, i) ==
    {a \in DOMAIN all : \A S \in SUBSET DOMAIN all : i \in S /\ Closed(all, S) => a \in S}

FamilyRoot(all, i) == CHOOSE a \in Lineage(all, i) : ~Known(all, all[a].of)

Family(all, i) == {j \in DOMAIN all : FamilyRoot(all, j) = FamilyRoot(all, i)}

\* No schema is deleted, and only a hand-edited store has a lineage that goes in a circle.
ASSUME FamiliesGrown == \A all \in Families :
    /\ Versions(all) /\ IsFiniteSet(DOMAIN all)
    /\ \A i \in DOMAIN all : /\ all[i].of \in DOMAIN all \cup {None}
                             /\ \E a \in Lineage(all, i) : all[a].of = None

Siblings(all, i, states) == {j \in Family(all, i) : all[j].state \in states}

\* new_revision: why it is refused, "" when it is not.
RevisionRefusal(all, i) ==
    LET newer(states) == {j \in Siblings(all, i, states) : all[j].version > all[i].version}
    IN  IF all[i].state # "RELEASED" THEN "LC.not-released"
        ELSE IF newer(OnceReleased) # {} THEN "LC.not-latest"
        ELSE IF newer(OpenStates) # {} THEN "LC.open-revision"
        ELSE ""

\* release: a version number is released once.
ReleaseRefusal(all, i) ==
    IF all[i].state \notin OpenStates THEN "LC.not-draft"
    ELSE IF \E j \in Siblings(all, i, OnceReleased) \ {i} : all[j].version = all[i].version
    THEN "LC.version-taken"
    ELSE ""

EditRefusal(all, i) == IF all[i].state # "ENTWURF" THEN "R0.not-draft" ELSE ""

Refusal(kind, all, i) ==
    CASE kind = "revise"  -> RevisionRefusal(all, i)
      [] kind = "release" -> ReleaseRefusal(all, i)
      [] kind = "edit"    -> EditRefusal(all, i)

-----------------------------------------------------------------------------
(***************************************************************************)
(* What is derived from the versions.                                      *)
(***************************************************************************)

\* Mutant: only the direct predecessor.
PredecessorIdsDirect(all, t) == {all[t].of} \cap DOMAIN all

\* The versions whose cases may move to t; a lineage that ends above version 1
\* goes on with the lower versions of the same name.
PredecessorIds(all, t) ==
    LET root == FamilyRoot(all, t)
    IN  (Lineage(all, t) \ {t}) \cup
        {j \in DOMAIN all \ {t} : /\ all[root].of = None /\ all[root].version > 1
                                  /\ all[j].name = all[root].name
                                  /\ all[j].version < all[root].version}

Successors(all, i) ==
    {t \in DOMAIN all \ {i} : all[t].state = "RELEASED" /\ i \in PredecessorIds(all, t)}

\* latest_successor: where "migrate to the new version" takes a case of i.
LatestSuccessor(all, i) ==
    IF Successors(all, i) = {} THEN None
    ELSE CHOOSE t \in Successors(all, i) :
            \A u \in Successors(all, i) : all[u].version <= all[t].version

SupersededByRelease(all) ==
    {i \in DOMAIN all : \E t \in DOMAIN all \ {i} :
        all[t].state = "RELEASED" /\ i \in Lineage(all, t)}

SubprocessLibrary(all) ==
    {i \in DOMAIN all : /\ all[i].library /\ all[i].state = "RELEASED"
                        /\ i \notin SupersededByRelease(all)}

-----------------------------------------------------------------------------
(***************************************************************************)
(* The steps of a request.                                                 *)
(***************************************************************************)

Init ==
    /\ stored \in Families
    /\ claims = DOMAIN stored
    \* _reserve_stored_ids lifts the counter of each process behind what is stored.
    /\ unit = [r \in Request |-> [Fresh EXCEPT !.next = 1 + Cardinality(DOMAIN stored)]]

Go(r, u) == unit' = [unit EXCEPT ![r] = u] /\ UNCHANGED <<stored, claims>>

Locked(r, i)  == \E q \in Request \ {r} : i \in unit[q].held

\* Mutant: the save does not ask for the version read.
UnchangedNot(r, i) == TRUE

Unchanged(r, i) == stored[i].lock = unit[r].copy[i].lock
With(f, i, v) == [j \in DOMAIN f \cup {i} |-> IF j = i THEN v ELSE f[j]]

Arrive(r) == \E kind \in {"revise", "release", "edit"}, i \in DOMAIN stored :
    /\ unit[r].at = "new"
    /\ \E id \in {None} \cup (IF kind = "revise" THEN Named ELSE {}) :
          Go(r, [unit[r] EXCEPT !.kind = kind, !.schema = i, !.named = id, !.at = "load"])

Load(r) ==
    /\ unit[r].at = "load"
    /\ Go(r, [unit[r] EXCEPT !.copy = With(@, unit[r].schema, stored[unit[r].schema]),
                             !.here = unit[r].schema,
                             !.at = CASE @ = "load" /\ unit[r].kind = "revise" -> "claim schema"
                                      [] @ = "load" /\ unit[r].kind = "release" -> "walk"
                                      [] OTHER -> "decide"])

\* The unit is rolled back and repeated from its start, a few times.
Again(r, answer) ==
    IF unit[r].attempt = Retries THEN Ended(answer)
    ELSE [Fresh EXCEPT !.kind = unit[r].kind, !.schema = unit[r].schema, !.at = "load",
                       !.named = unit[r].named, !.next = unit[r].next,
                       !.attempt = unit[r].attempt + 1]

\* The conditional save of a row, which is then held; a lost one starts again.
Claim(r, i, next) ==
    /\ ~Locked(r, i)
    /\ IF Unchanged(r, i)
       THEN Go(r, [unit[r] EXCEPT !.held = @ \cup {i}, !.at = next])
       ELSE Go(r, Again(r, "conflict"))

ClaimSchema(r) ==
    unit[r].at = "claim schema" /\ Claim(r, unit[r].schema, "walk")

\* _lineage_root: up to the first version, one load after the other.
Walk(r) ==
    /\ unit[r].at = "walk"
    /\ LET parent == unit[r].copy[unit[r].here].of
       IN  IF Known(stored, parent)
           THEN Go(r, [unit[r] EXCEPT !.copy = With(@, parent, stored[parent]), !.here = parent])
           ELSE Go(r, [unit[r] EXCEPT !.at = IF unit[r].here = unit[r].schema
                                             THEN "list" ELSE "claim root"])

\* Mutant: the family is read without a claim on its first version.
ClaimRootNot(r) ==
    unit[r].at = "claim root" /\ Go(r, [unit[r] EXCEPT !.at = "list"])

ClaimRoot(r) ==
    unit[r].at = "claim root" /\ Claim(r, unit[r].here, "list")

\* _claim_family reads the stored schemas behind the claim, one by one.
List(r) ==
    /\ unit[r].at = "list"
    /\ Go(r, [unit[r] EXCEPT !.todo = DOMAIN stored, !.at = "read"])

Read(r) ==
    /\ unit[r].at = "read"
    /\ IF unit[r].todo = {} THEN Go(r, [unit[r] EXCEPT !.at = "decide"])
       ELSE LET i == CHOOSE j \in unit[r].todo : \A k \in unit[r].todo : j <= k
            IN  Go(r, [unit[r] EXCEPT !.seen = With(@, i, stored[i]), !.todo = @ \ {i}])

\* The schema itself is judged as it was loaded.
Decide(r) ==
    /\ unit[r].at = "decide"
    /\ LET all == With(unit[r].seen, unit[r].schema, unit[r].copy[unit[r].schema])
           why == Refusal(unit[r].kind, all, unit[r].schema)
       IN  Go(r, IF why = ""
                 THEN [unit[r] EXCEPT !.seen = Fresh.seen,
                                      !.at = IF unit[r].kind = "revise" THEN "draw" ELSE "save"]
                 ELSE Ended(why))

\* IdSequence.new: the counter moves, past what the guard finds stored.
Draw(r) ==
    /\ unit[r].at = "draw"
    /\ IF unit[r].named # None
       THEN Go(r, [unit[r] EXCEPT !.id = unit[r].named, !.at = "insert"])
       ELSE \E n \in Id \ DOMAIN stored :
              /\ n >= unit[r].next /\ unit[r].next..(n - 1) \subseteq DOMAIN stored
              /\ Go(r, [unit[r] EXCEPT !.id = n, !.next = n + 1, !.at = "claim id"])

\* An insert that waits for the unit which has inserted the same; a taken number is lost.
ClaimId(r) ==
    /\ unit[r].at = "claim id"
    /\ \A q \in Request : unit[q].claim # unit[r].id
    /\ Go(r, IF unit[r].id \in claims THEN [unit[r] EXCEPT !.at = "draw"]
             ELSE [unit[r] EXCEPT !.claim = unit[r].id, !.at = "insert"])

\* A new object is inserted, never put over another.
Insert(r) ==
    /\ unit[r].at = "insert"
    /\ ~Locked(r, unit[r].id)
    /\ Go(r, IF unit[r].id \in DOMAIN stored THEN Again(r, "conflict")
             ELSE [unit[r] EXCEPT !.held = @ \cup {unit[r].id}, !.at = "commit"])

Save(r) ==
    unit[r].at = "save" /\ Claim(r, unit[r].schema, "commit")

Awaited(r) ==
    CASE unit[r].at \in {"claim schema", "save"} -> {unit[r].schema}
      [] unit[r].at = "claim root"               -> {unit[r].here}
      [] unit[r].at = "insert"                   -> {unit[r].id}
      [] OTHER                                   -> {}

\* A revision takes the schema before the root, a release after it.  Of two
\* units that wait for each other the database rolls one back.
Victim(r) ==
    /\ \E q \in Request \ {r} : Awaited(r) \cap unit[q].held # {} /\ Awaited(q) \cap unit[r].held # {}
    /\ Go(r, Again(r, "unavailable"))

\* The rows held get their next lock version; what was claimed only keeps its content.
Commit(r) ==
    /\ unit[r].at = "commit"
    /\ LET i     == unit[r].schema
           saved == [j \in DOMAIN stored |->
                       IF j \in unit[r].held THEN [stored[j] EXCEPT !.lock = @ + 1] ELSE stored[j]]
       IN  stored' = CASE unit[r].kind = "revise" ->
                            With(saved, unit[r].id, [unit[r].copy[i] EXCEPT !.version = @ + 1, !.of = i,
                                                  !.state = "ENTWURF", !.lock = 1])
                       [] unit[r].kind = "release" -> [saved EXCEPT ![i].state = "RELEASED"]
                       [] unit[r].kind = "edit"    -> [saved EXCEPT ![i].library = ~@]
    /\ claims' = claims \cup ({unit[r].claim} \ {None})
    /\ unit' = [unit EXCEPT ![r] = Ended("done")]

Step(r) ==
    \/ Arrive(r) \/ Load(r) \/ ClaimSchema(r) \/ Walk(r) \/ ClaimRoot(r) \/ List(r) \/ Read(r)
    \/ Decide(r) \/ Draw(r) \/ ClaimId(r) \/ Insert(r) \/ Save(r) \/ Victim(r) \/ Commit(r)

\* Nothing is left to do.
Finished == (\A r \in Request : unit[r].at = "ended") /\ UNCHANGED vars

Next == (\E r \in Request : Step(r)) \/ Finished

Spec == Init /\ [][Next]_vars

-----------------------------------------------------------------------------
(***************************************************************************)
(* Properties.                                                             *)
(***************************************************************************)

Clash(all, i) ==
    \E j \in Siblings(all, i, OnceReleased) \ {i} : all[j].version = all[i].version

\* A family goes from one released version to the next, one at a time.  "A version number
\* is released once per family" (operations.release): of two clients that release two
\* drafts of the same number at once, left behind by an old store, one is refused.  And a
\* revision is made from the newest released version and only while nobody else's is open
\* ("LC.not-latest", "LC.open-revision"), also when it is asked for of sibling versions
\* at once.
VersionsOneByOne ==
    [][/\ \A i \in DOMAIN stored :
             stored[i].state \in OpenStates /\ stored'[i].state = "RELEASED" => ~Clash(stored', i)
       /\ \A i \in DOMAIN stored' \ DOMAIN stored :
             \A j \in Family(stored', i) \ {i} : stored'[j].version < stored'[i].version]_vars

\* What is stored is not replaced.  A released version never changes again (R0): an
\* edit decided on the draft does not overtake the release.  And a new schema never
\* takes another one's place: of two processes that draw the same number, or a client
\* that asks for it, one gets it (IdSequence.new, the claim, and the insert).
NothingIsReplaced ==
    [][\A i \in DOMAIN stored :
          /\ <<stored'[i].version, stored'[i].of>> = <<stored[i].version, stored[i].of>>
          /\ stored[i].state \in OnceReleased =>
                [stored'[i] EXCEPT !.lock = 1] = [stored[i] EXCEPT !.lock = 1]]_vars

\* Not so in a store from before the lineage was recorded and numbers were unique.
Orderly == \A i \in DOMAIN stored : /\ stored[i].version > 1 => stored[i].of # None
                                    /\ stored[i].state = "RELEASED" => ~Clash(stored, i)

TypeOK ==
    /\ Versions(stored) /\ claims \subseteq Id
    /\ DOMAIN unit = Request
    /\ \A r \in Request :
          /\ DOMAIN unit[r] = DOMAIN Fresh
          /\ Versions(unit[r].copy) /\ Versions(unit[r].seen)
          /\ {unit[r].schema, unit[r].here, unit[r].named, unit[r].id, unit[r].claim} \subseteq Id \cup {None}
          /\ unit[r].held \cup unit[r].todo \subseteq Id
          /\ unit[r].next \in Nat /\ unit[r].attempt \in 0..Retries

\* Cases are led to the newest released version of the family, and that version
\* alone decides what the library offers of it, whatever order the versions were
\* revised and released in.
NewestDecides ==
    TypeOK /\ (Orderly => \A i \in DOMAIN stored : stored[i].state = "RELEASED" =>
        LET released == Siblings(stored, i, {"RELEASED"})
            newest   == CHOOSE t \in released : \A u \in released :
                            stored[u].version <= stored[t].version
        IN  /\ i # newest /\ i \in Lineage(stored, newest) => LatestSuccessor(stored, i) = newest
            /\ i \in SubprocessLibrary(stored) /\ i \in Lineage(stored, newest) => i = newest)

=============================================================================
