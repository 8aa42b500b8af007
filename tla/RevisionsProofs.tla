--------------------------- MODULE RevisionsProofs ---------------------------
(***************************************************************************)
(* The versions of a process, for any stored families, requests and ids:   *)
(* what is stored is not replaced, and a family goes from one released     *)
(* version to the next one at a time.                                      *)
(***************************************************************************)
EXTENDS Revisions, FiniteSetTheorems, WellFoundedInduction, TLAPS

\* A store whose lineages all end at a first version.
Parents(all) == \A i \in DOMAIN all : all[i].of \in DOMAIN all \cup {None}
IsRoot(all, a) == a \in DOMAIN all /\ ~Known(all, all[a].of)
Rooted(all) == \A i \in DOMAIN all : \E a \in Lineage(all, i) : IsRoot(all, a)
Sound(all) == Versions(all) /\ IsFiniteSet(DOMAIN all) /\ Parents(all) /\ Rooted(all)

Same(u, i) == stored[i].lock = u.copy[i].lock

\* Where a request is.
Early  == {"load", "claim schema", "walk", "claim root", "list"}
Behind == {"list", "read", "decide", "draw", "claim id", "insert", "save", "commit"}
Places == Early \cup Behind \cup {"new", "ended"}

Parts == {"kind", "schema", "at", "copy", "here", "held", "todo", "seen", "named", "next", "id",
          "claim", "attempt", "answer"}

Typed(u) ==
    /\ DOMAIN u = Parts /\ u.at \in Places
    /\ Versions(u.copy) /\ Versions(u.seen)
    /\ {u.schema, u.here, u.named, u.id, u.claim} \subseteq Id \cup {None}
    /\ u.held \subseteq Id /\ u.todo \subseteq Id
    /\ u.next \in Nat /\ u.attempt \in 0..Retries

\* What is asked, and where that leads.
Asks(u) ==
    u.at \notin {"new", "ended"} =>
        /\ u.kind \in {"revise", "release", "edit"} /\ u.schema \in DOMAIN stored
        /\ u.at # "load" => u.schema \in DOMAIN u.copy
        /\ u.at \in {"claim schema", "draw", "claim id", "insert"} => u.kind = "revise"
        /\ u.at \in {"walk", "claim root", "list", "read"} => u.kind # "edit"
        /\ u.at = "save" => u.kind # "revise"
        /\ u.at \in {"claim id", "insert"} => u.id \in Id

\* A copy is older than what is stored, or it is what is stored.
Copied(u) ==
    \A i \in DOMAIN u.copy :
        /\ i \in DOMAIN stored /\ u.copy[i].lock <= stored[i].lock
        /\ u.copy[i].version = stored[i].version /\ u.copy[i].of = stored[i].of
        /\ Same(u, i) => u.copy[i] = stored[i]

\* A row that is held is as it was read, or it is the new one.
Holds(u) ==
    /\ u.at \in {"new", "ended", "load"} => u.held = {}
    /\ \A i \in u.held :
        \/ i \in DOMAIN u.copy /\ i \in DOMAIN stored /\ Same(u, i)
        \/ u.at = "commit" /\ u.kind = "revise" /\ i = u.id /\ i \notin DOMAIN stored
    /\ u.kind = "revise" /\ u.at \in (Behind \cup {"walk", "claim root"}) => u.schema \in u.held
    /\ u.at = "commit" => (IF u.kind = "revise" THEN u.id ELSE u.schema) \in u.held
    /\ u.at = "commit" /\ u.kind = "revise" => u.id \notin DOMAIN stored

\* The walk leads to the first version, which is claimed -- or is the schema that is
\* released, and then it is claimed last.
Walked(u) ==
    u.kind \in {"revise", "release"} =>
        /\ u.at \in {"claim schema", "walk", "claim root"} \cup Behind => u.here \in DOMAIN u.copy
        /\ u.at \in {"claim schema", "walk", "claim root"} \cup Behind =>
               u.here \in Lineage(stored, u.schema)
        /\ u.at \in {"claim root"} \cup Behind => IsRoot(stored, u.here)
        /\ u.at \in Behind => u.here \in u.held \/ (u.kind = "release" /\ u.here = u.schema)

\* As long as the first version is as it was read, what was read behind it is what is
\* stored of the family.
Seen(u) ==
    /\ u.at \in Early \cup {"new", "ended"} => DOMAIN u.seen = {}
    /\ u.at = "decide" /\ u.kind = "edit" => DOMAIN u.seen = {}
    /\ u.at \in {"read", "decide"} /\ u.kind # "edit" =>
        LET D == DOMAIN u.seen \cup u.todo
        IN  /\ u.at = "decide" => u.todo = {}
            /\ D \subseteq DOMAIN stored /\ u.schema \in D
            /\ \A i \in D : stored[i].of \in D \cup {None}
            /\ \A i \in DOMAIN u.seen : /\ u.seen[i].version = stored[i].version
                                        /\ u.seen[i].of = stored[i].of
            /\ Same(u, u.here) =>
                   \A j \in Family(stored, u.schema) :
                       j \in D /\ (j \in DOMAIN u.seen => u.seen[j].state = stored[j].state)

\* What was decided holds of what is stored.
Judged(u) ==
    /\ u.kind = "revise" /\ u.at \in {"draw", "claim id", "insert", "commit"} =>
        \A j \in Family(stored, u.schema) : stored[j].version <= stored[u.schema].version
    /\ u.kind = "release" /\ u.at \in {"save", "commit"} =>
        /\ u.copy[u.schema].state \in OpenStates
        /\ Same(u, u.here) =>
               \A j \in Siblings(stored, u.schema, OnceReleased) \ {u.schema} :
                   stored[j].version # stored[u.schema].version
    /\ u.kind = "edit" /\ u.at \in {"save", "commit"} => u.copy[u.schema].state = "ENTWURF"

Fits(u) == /\ Typed(u) /\ Asks(u) /\ Copied(u) /\ Holds(u) /\ Walked(u) /\ Seen(u) /\ Judged(u)

Apart == \A q, r \in Request : q # r => unit[q].held \cap unit[r].held = {}

IInv ==
    /\ Sound(stored) /\ claims \subseteq Id
    /\ unit = [r \in Request |-> unit[r]]
    /\ \A r \in Request : Fits(unit[r])
    /\ Apart

-----------------------------------------------------------------------------
(***************************************************************************)
(* Lineages.                                                               *)
(***************************************************************************)

(* A lineage holds its schema and goes on with each predecessor.           *)
LEMMA LineageGoesUp ==
    ASSUME NEW all, NEW i \in DOMAIN all
    PROVE  /\ i \in Lineage(all, i) /\ Lineage(all, i) \subseteq DOMAIN all
           /\ Closed(all, Lineage(all, i))
BY DEF Lineage, Closed, Known

(* Whatever is closed and holds the schema holds its lineage.              *)
LEMMA LineageIsLeast ==
    ASSUME NEW all, NEW i, NEW S, S \subseteq DOMAIN all, i \in S, Closed(all, S)
    PROVE  Lineage(all, i) \subseteq S
BY DEF Lineage

(* The lineage of an ancestor is part of the lineage.                      *)
LEMMA AncestorsOfAncestors ==
    ASSUME NEW all, NEW i \in DOMAIN all, NEW a \in Lineage(all, i)
    PROVE  Lineage(all, a) \subseteq Lineage(all, i)
BY LineageGoesUp, LineageIsLeast

(* A schema that is not the first version: its lineage is its own and its  *)
(* predecessor's.                                                          *)
LEMMA LineageFromPredecessor ==
    ASSUME NEW all, NEW i \in DOMAIN all, Known(all, all[i].of)
    PROVE  Lineage(all, i) \subseteq {i} \cup Lineage(all, all[i].of)
<1> DEFINE p == all[i].of
<1>1. p \in DOMAIN all
    BY DEF Known
<1>2. p \in Lineage(all, p) /\ Closed(all, Lineage(all, p)) /\ Lineage(all, p) \subseteq DOMAIN all
    BY <1>1, LineageGoesUp
<1>3. Closed(all, {i} \cup Lineage(all, p))
    BY <1>2 DEF Closed
<1> QED BY <1>1, <1>2, <1>3, LineageIsLeast

(* The lineage of a first version is itself.                               *)
LEMMA LineageOfRoot ==
    ASSUME NEW all, NEW a, IsRoot(all, a)
    PROVE  Lineage(all, a) = {a}
<1>1. Closed(all, {a}) /\ a \in DOMAIN all
    BY DEF IsRoot, Closed
<1> QED BY <1>1, LineageGoesUp, LineageIsLeast

(* A lineage has one first version at most.                                *)
LEMMA OneRoot ==
    ASSUME NEW all, NEW i \in DOMAIN all, NEW a \in Lineage(all, i), NEW b \in Lineage(all, i),
           IsRoot(all, a), IsRoot(all, b)
    PROVE  a = b
<1> DEFINE S == {x \in Lineage(all, i) : a \in Lineage(all, x)}
<1>1. Closed(all, S)
    <2> SUFFICES ASSUME NEW x \in S, Known(all, all[x].of) PROVE all[x].of \in S
        BY DEF Closed
    <2>1. x \in DOMAIN all /\ a \in Lineage(all, x) /\ x # a
        BY LineageGoesUp DEF IsRoot
    <2>2. a \in Lineage(all, all[x].of)
        BY <2>1, LineageFromPredecessor
    <2>3. all[x].of \in Lineage(all, i)
        BY LineageGoesUp DEF Closed
    <2> QED BY <2>2, <2>3
<1>2. i \in S /\ S \subseteq DOMAIN all
    BY LineageGoesUp
<1>3. b \in S
    BY <1>1, <1>2, LineageIsLeast
<1>4. a \in Lineage(all, b)
    BY <1>3
<1> QED BY <1>4, LineageOfRoot

(* The first version of a family.                                          *)
LEMMA RootOf ==
    ASSUME NEW all, NEW i \in DOMAIN all, NEW a \in Lineage(all, i), IsRoot(all, a)
    PROVE  FamilyRoot(all, i) = a
<1>1. \A b \in Lineage(all, i) : ~Known(all, all[b].of) => b = a
    BY LineageGoesUp, OneRoot DEF IsRoot
<1>2. ~Known(all, all[a].of)
    BY DEF IsRoot
<1> QED BY <1>1, <1>2 DEF FamilyRoot

(* An ancestor is of the same family.                                      *)
LEMMA RootOfAncestor ==
    ASSUME NEW all, Rooted(all), NEW i \in DOMAIN all, NEW a \in Lineage(all, i)
    PROVE  FamilyRoot(all, a) = FamilyRoot(all, i)
<1>1. a \in DOMAIN all
    BY LineageGoesUp
<1>2. PICK b \in Lineage(all, a) : IsRoot(all, b)
    BY <1>1 DEF Rooted
<1>3. b \in Lineage(all, i)
    BY <1>2, AncestorsOfAncestors
<1> QED BY <1>1, <1>2, <1>3, RootOf

(* The first version of a sound store is one.                              *)
LEMMA RootIsRoot ==
    ASSUME NEW all, Rooted(all), NEW i \in DOMAIN all
    PROVE  /\ FamilyRoot(all, i) \in Lineage(all, i) /\ IsRoot(all, FamilyRoot(all, i))
           /\ FamilyRoot(all, i) \in DOMAIN all
<1>1. PICK a \in Lineage(all, i) : IsRoot(all, a)
    BY DEF Rooted
<1>2. FamilyRoot(all, i) = a
    BY <1>1, RootOf
<1> QED BY <1>1, <1>2 DEF IsRoot

\* Some of the versions of a store, with their predecessors, whatever else they say.
Part(some, all) ==
    /\ DOMAIN some \subseteq DOMAIN all
    /\ \A i \in DOMAIN some : some[i].of = all[i].of /\ all[i].of \in DOMAIN some \cup {None}

(* They have the lineages and the families they have in the store.         *)
LEMMA PartOfLineage ==
    ASSUME NEW some, NEW all, Part(some, all), None \notin DOMAIN all, NEW i \in DOMAIN some
    PROVE  Lineage(some, i) = Lineage(all, i)
<1>1. i \in DOMAIN all
    BY DEF Part
<1>2. Lineage(all, i) \subseteq Lineage(some, i)
    <2>1. Closed(all, Lineage(some, i))
        BY LineageGoesUp DEF Closed, Known, Part
    <2>2. i \in Lineage(some, i) /\ Lineage(some, i) \subseteq DOMAIN all
        BY LineageGoesUp DEF Part
    <2> QED BY <2>1, <2>2, LineageIsLeast
<1>3. Lineage(some, i) \subseteq Lineage(all, i)
    <2> DEFINE S == Lineage(all, i) \cap DOMAIN some
    <2>1. Closed(some, S)
        BY <1>1, LineageGoesUp DEF Closed, Known, Part
    <2>2. i \in S
        BY <1>1, LineageGoesUp
    <2>3. S \subseteq DOMAIN some
        OBVIOUS
    <2> HIDE DEF S
    <2>4. Lineage(some, i) \subseteq S
        BY <2>1, <2>2, <2>3, LineageIsLeast
    <2> QED BY <2>4 DEF S
<1> QED BY <1>2, <1>3

LEMMA PartOfFamily ==
    ASSUME NEW some, NEW all, Part(some, all), None \notin DOMAIN all, Rooted(all),
           NEW i \in DOMAIN some
    PROVE  FamilyRoot(some, i) = FamilyRoot(all, i) /\ \E a \in Lineage(some, i) : IsRoot(some, a)
<1>1. i \in DOMAIN all
    BY DEF Part
<1>2. PICK a \in Lineage(all, i) : IsRoot(all, a)
    BY <1>1 DEF Rooted
<1>3. a \in Lineage(some, i) /\ a \in DOMAIN some
    BY <1>2, PartOfLineage, LineageGoesUp
<1>4. IsRoot(some, a)
    BY <1>2, <1>3 DEF IsRoot, Known, Part
<1> QED BY <1>1, <1>2, <1>3, <1>4, RootOf

-----------------------------------------------------------------------------
(***************************************************************************)
(* Steps of one request that store nothing.                                *)
(***************************************************************************)

(* What fits what is stored goes on fitting as long as nothing is stored.  *)
LEMMA StoredStays ==
    ASSUME stored' = stored, NEW u, Fits(u)
    PROVE  Fits(u)'
BY DEF Fits, Typed, Asks, Copied, Holds, Walked, Seen, Judged, Same

(* The unit of a request after a step.                                     *)
LEMMA UnitFits ==
    ASSUME NEW r, NEW s, s = unit'[r], Fits(s)'
    PROVE  Fits(unit[r])'
<1>1. Typed(unit[r])'
    BY DEF Fits, Typed
<1>2. Asks(unit[r])'
    BY DEF Fits, Asks
<1>3. Copied(unit[r])'
    BY DEF Fits, Copied, Same
<1>4. Holds(unit[r])'
    BY DEF Fits, Holds, Same
<1>5. Walked(unit[r])'
    BY DEF Fits, Walked
<1>6. Seen(unit[r])'
    BY DEF Fits, Seen, Same
<1>7. Judged(unit[r])'
    BY DEF Fits, Judged, Same
<1> QED BY <1>1, <1>2, <1>3, <1>4, <1>5, <1>6, <1>7 DEF Fits

(* A step of one request keeps the others' fits.                           *)
LEMMA GoKeeps ==
    ASSUME IInv, NEW r \in Request, NEW v, Go(r, v), Fits(v),
           \A q \in Request \ {r} : unit[q].held \cap v.held = {}
    PROVE  IInv'
<1>1. unit' = [unit EXCEPT ![r] = v] /\ stored' = stored /\ claims' = claims
    BY DEF Go
<1>2. /\ unit' = [q \in Request |-> unit'[q]] /\ unit'[r] = v
      /\ \A q \in Request : q # r => unit'[q] = unit[q]
    BY <1>1 DEF IInv
<1>3. Sound(stored)' /\ (claims \subseteq Id)'
    BY <1>1 DEF IInv, Sound, Versions, Parents, Rooted, IsRoot
<1>4. ASSUME NEW q \in Request PROVE Fits(unit[q])'
    <2>1. ASSUME NEW s, s = unit'[q], Fits(s) PROVE Fits(unit[q])'
        <3>1. Fits(s)'
            BY <1>1, <2>1, StoredStays
        <3> QED BY <2>1, <3>1, UnitFits
    <2>2. Fits(unit'[q])
        BY <1>2 DEF IInv
    <2> QED BY <2>1, <2>2
<1>5. Apart'
    BY <1>2 DEF IInv, Apart
<1> QED BY <1>2, <1>3, <1>4, <1>5 DEF IInv

(* A unit of work that begins, ends or begins again holds nothing.         *)
LEMMA FreshFits ==
    ASSUME NEW u, DOMAIN u = Parts, u.at \in {"new", "load", "ended"},
           u.copy = Fresh.copy, u.seen = Fresh.seen, u.held = {}, u.todo = {},
           u.here = None, u.id = None, u.claim = None,
           {u.schema, u.named} \subseteq Id \cup {None}, u.next \in Nat, u.attempt \in 0..Retries,
           u.at = "load" => u.kind \in {"revise", "release", "edit"} /\ u.schema \in DOMAIN stored
    PROVE  Fits(u)
<1>1. DOMAIN u.copy = {} /\ DOMAIN u.seen = {}
    BY DEF Fresh
<1>2. Typed(u)
    BY <1>1 DEF Typed, Versions, Places, Early, Behind
<1>3. Asks(u) /\ Copied(u) /\ Holds(u) /\ Walked(u) /\ Seen(u) /\ Judged(u)
    BY <1>1 DEF Asks, Copied, Holds, Walked, Seen, Judged, Early, Behind
<1> QED BY <1>2, <1>3 DEF Fits

LEMMA EndedFits ==
    ASSUME NEW answer
    PROVE  Fits(Ended(answer)) /\ Ended(answer).held = {}
<1> DEFINE u == Ended(answer)
<1>1. /\ DOMAIN u = Parts /\ u.at = "ended" /\ u.copy = Fresh.copy /\ u.seen = Fresh.seen
      /\ u.held = {} /\ u.todo = {} /\ u.here = None /\ u.id = None /\ u.claim = None
      /\ u.schema = None /\ u.named = None /\ u.next = 0 /\ u.attempt = 0
    BY DEF Ended, Fresh, Parts
<1> HIDE DEF u
<1>2. Fits(u)
    BY <1>1, FreshFits, RevisionTypes
<1> QED BY <1>1, <1>2 DEF u

(* The unit is rolled back and repeated.                                   *)
LEMMA AgainFits ==
    ASSUME IInv, NEW r \in Request, unit[r].at \notin {"new", "ended"}, NEW answer
    PROVE  Fits(Again(r, answer)) /\ Again(r, answer).held = {}
<1>1. CASE unit[r].attempt = Retries
    BY <1>1, EndedFits DEF Again
<1>2. CASE unit[r].attempt # Retries
    <2> DEFINE v == Again(r, answer)
    <2>1. /\ DOMAIN v = Parts /\ v.at = "load" /\ v.copy = Fresh.copy /\ v.seen = Fresh.seen
          /\ v.held = {} /\ v.todo = {} /\ v.here = None /\ v.id = None /\ v.claim = None
          /\ v.schema = unit[r].schema /\ v.named = unit[r].named /\ v.next = unit[r].next
          /\ v.attempt = unit[r].attempt + 1 /\ v.kind = unit[r].kind
        BY <1>2 DEF Again, Fresh, Parts
    <2>2. /\ {v.schema, v.named} \subseteq Id \cup {None} /\ v.next \in Nat
          /\ v.attempt \in 0..Retries
          /\ v.kind \in {"revise", "release", "edit"} /\ v.schema \in DOMAIN stored
        <3>1. /\ {unit[r].schema, unit[r].named} \subseteq Id \cup {None} /\ unit[r].next \in Nat
              /\ unit[r].attempt \in 0..Retries
              /\ unit[r].kind \in {"revise", "release", "edit"} /\ unit[r].schema \in DOMAIN stored
            BY DEF IInv, Fits, Typed, Asks
        <3>2. unit[r].attempt + 1 \in 0..Retries
            BY <1>2, <3>1, RevisionTypes
        <3> QED BY <2>1, <3>1, <3>2
    <2> HIDE DEF v
    <2>3. Fits(v)
        BY <2>1, <2>2, FreshFits
    <2> QED BY <2>1, <2>3 DEF v
<1> QED BY <1>1, <1>2

\* A unit of work of which only some fields may have changed.
Changed(u, v, fields) == DOMAIN v = Parts /\ \A f \in Parts \ fields : v[f] = u[f]

\* What was read is what was read before and i as it is stored.
ReadsToo(before, after, i) ==
    /\ DOMAIN after = DOMAIN before \cup {i} /\ after[i] = stored[i]
    /\ \A j \in DOMAIN before : j # i => after[j] = before[j]

(* The unit begins with one of the stored schemas.                         *)
LEMMA ArriveFits ==
    ASSUME Sound(stored), NEW u, Fits(u), u.at = "new",
           NEW kind \in {"revise", "release", "edit"}, NEW i \in DOMAIN stored,
           NEW id \in Id \cup {None},
           NEW v, Changed(u, v, {"kind", "schema", "named", "at"}),
           v.kind = kind, v.schema = i, v.named = id, v.at = "load"
    PROVE  Fits(v) /\ v.held = {}
<1>1. DOMAIN u = Parts
    BY DEF Fits, Typed
<1>2. /\ DOMAIN v = Parts /\ v.kind = kind /\ v.schema = i /\ v.named = id /\ v.at = "load"
      /\ v.copy = u.copy /\ v.seen = u.seen /\ v.held = u.held /\ v.todo = u.todo
      /\ v.here = u.here /\ v.id = u.id /\ v.claim = u.claim /\ v.next = u.next
      /\ v.attempt = u.attempt
    BY <1>1 DEF Changed, Parts
<1>3. u.held = {} /\ DOMAIN u.seen = {}
    BY DEF Fits, Holds, Seen
<1>4. i \in Id
    BY DEF Sound, Versions
<1>5. Typed(v)
    BY <1>2, <1>4 DEF Fits, Typed, Places, Early
<1>6. Asks(v) /\ Holds(v) /\ Walked(v) /\ Seen(v) /\ Judged(v)
    BY <1>2, <1>3 DEF Asks, Holds, Walked, Seen, Judged, Early, Behind
<1>7. Copied(v)
    BY <1>2 DEF Fits, Copied, Same
<1> QED BY <1>2, <1>3, <1>5, <1>6, <1>7 DEF Fits

(* A copy that is read now is what is stored.                              *)
LEMMA ReadIsCopied ==
    ASSUME Sound(stored), NEW u, Copied(u), NEW p \in DOMAIN stored,
           NEW v, ReadsToo(u.copy, v.copy, p)
    PROVE  Copied(v)
<1>1. stored[p].lock \in Nat
    BY DEF Sound, Versions, Schema
<1> SUFFICES ASSUME NEW i \in DOMAIN v.copy
             PROVE  /\ i \in DOMAIN stored /\ v.copy[i].lock <= stored[i].lock
                    /\ v.copy[i].version = stored[i].version /\ v.copy[i].of = stored[i].of
                    /\ Same(v, i) => v.copy[i] = stored[i]
    BY DEF Copied
<1>2. CASE i = p
    <2>1. v.copy[i] = stored[i]
        BY <1>2 DEF ReadsToo
    <2> QED BY <1>1, <1>2, <2>1
<1>3. CASE i # p
    BY <1>3 DEF Copied, Same, ReadsToo
<1> QED BY <1>2, <1>3

(* The schema is read as it is stored.                                     *)
LEMMA LoadFits ==
    ASSUME Sound(stored), NEW u, Fits(u), u.at = "load",
           NEW v, Changed(u, v, {"copy", "here", "at"}), v.here = u.schema,
           \/ v.at = "claim schema" /\ u.kind = "revise"
           \/ v.at = "walk" /\ u.kind = "release"
           \/ v.at = "decide" /\ u.kind = "edit",
           ReadsToo(u.copy, v.copy, u.schema)
    PROVE  Fits(v) /\ v.held = {}
<1>1. /\ DOMAIN u = Parts /\ u.held = {} /\ DOMAIN u.seen = {} /\ u.schema \in DOMAIN stored
      /\ u.kind \in {"revise", "release", "edit"}
    BY DEF Fits, Typed, Holds, Seen, Asks, Early
<1>2. /\ DOMAIN v = Parts /\ v.kind = u.kind /\ v.schema = u.schema /\ v.named = u.named
      /\ v.seen = u.seen /\ v.held = u.held /\ v.todo = u.todo
      /\ v.here = u.schema /\ v.id = u.id /\ v.claim = u.claim /\ v.next = u.next
      /\ v.attempt = u.attempt
    BY <1>1 DEF Changed, Parts
<1>4. /\ DOMAIN v.copy = DOMAIN u.copy \cup {u.schema} /\ v.copy[u.schema] = stored[u.schema]
      /\ \A j \in DOMAIN u.copy : j # u.schema => v.copy[j] = u.copy[j]
    BY <1>2 DEF ReadsToo
<1>5. u.schema \in Id /\ stored[u.schema] \in Schema
    BY <1>1 DEF Sound, Versions
<1>6. Typed(v)
    <2>1. Versions(v.copy)
        BY <1>4, <1>5 DEF Fits, Typed, Versions
    <2> QED BY <1>2, <1>5, <2>1 DEF Fits, Typed, Places, Early, Behind
<1>7. Copied(v)
    BY <1>1, ReadIsCopied DEF Fits
<1>8. Asks(v) /\ Holds(v) /\ Seen(v) /\ Judged(v)
    BY <1>1, <1>2, <1>4 DEF Asks, Holds, Seen, Judged, Early, Behind
<1>9. Walked(v)
    <2>1. v.schema \in Lineage(stored, v.schema)
        BY <1>1, <1>2, LineageGoesUp
    <2> QED BY <1>2, <1>4, <2>1 DEF Walked, Behind
<1> QED BY <1>1, <1>2, <1>6, <1>7, <1>8, <1>9 DEF Fits

(* A row that is as it was read is held from now on.                       *)
LEMMA ClaimFits ==
    ASSUME Sound(stored), NEW u, Fits(u), NEW i, i \in DOMAIN u.copy, Same(u, i), NEW next,
           \/ u.at = "claim schema" /\ next = "walk" /\ i = u.schema
           \/ u.at = "claim root" /\ next = "list" /\ i = u.here
           \/ u.at = "save" /\ next = "commit" /\ i = u.schema,
           NEW v, Changed(u, v, {"held", "at"}), v.held = u.held \cup {i}, v.at = next
    PROVE  Fits(v) /\ v.held = u.held \cup {i}
<1>1. DOMAIN u = Parts /\ i \in DOMAIN stored /\ i \in Id
    BY DEF Fits, Typed, Copied, Versions
<1>2. /\ DOMAIN v = Parts /\ v.kind = u.kind /\ v.schema = u.schema /\ v.named = u.named
      /\ v.copy = u.copy /\ v.at = next
      /\ v.seen = u.seen /\ v.held = u.held \cup {i} /\ v.todo = u.todo
      /\ v.here = u.here /\ v.id = u.id /\ v.claim = u.claim /\ v.next = u.next
      /\ v.attempt = u.attempt
    BY <1>1 DEF Changed, Parts
<1>3. Typed(v)
    <2>1. v.at \in Places /\ v.held \subseteq Id
        BY <1>1, <1>2 DEF Fits, Typed, Places, Early, Behind
    <2>2. Typed(u)
        BY DEF Fits
    <2>3. /\ u.held \subseteq Id /\ u.todo \subseteq Id
          /\ u.next \in Nat /\ u.attempt \in 0..Retries
        BY DEF Fits, Typed
    <2>4. Versions(v.copy) /\ Versions(v.seen)
        BY <1>2, <2>2 DEF Typed
    <2>5. {v.schema, v.here, v.named, v.id, v.claim} \subseteq Id \cup {None}
        BY <1>2, <2>2 DEF Typed
    <2> QED BY <1>2, <2>1, <2>3, <2>4, <2>5 DEF Typed
<1>4. Asks(v)
    BY <1>2 DEF Fits, Asks
<1>5. Copied(v)
    BY <1>2 DEF Fits, Copied, Same
<1>6. Holds(v)
    <2>1. \A j \in u.held : j \in DOMAIN u.copy /\ j \in DOMAIN stored /\ Same(u, j)
        BY DEF Fits, Holds
    <2>2. \A j \in v.held : j \in DOMAIN v.copy /\ j \in DOMAIN stored /\ Same(v, j)
        BY <1>1, <1>2, <2>1 DEF Same
    <2>3. v.kind = "revise" /\ v.at \in (Behind \cup {"walk", "claim root"}) => v.schema \in v.held
        BY <1>2 DEF Fits, Holds, Asks, Behind
    <2>4. v.at = "commit" => v.kind # "revise" /\ v.schema \in v.held
        BY <1>2 DEF Fits, Asks
    <2>5. v.at \notin {"new", "ended", "load"}
        BY <1>2
    <2> QED BY <2>2, <2>3, <2>4, <2>5 DEF Holds
<1>7. Walked(v)
    BY <1>2 DEF Fits, Walked, Behind, Asks
<1>8. Seen(v)
    BY <1>2 DEF Fits, Seen, Early
<1>9. Judged(v)
    BY <1>2 DEF Fits, Judged, Same, Asks
<1> QED BY <1>2, <1>3, <1>4, <1>5, <1>6, <1>7, <1>8, <1>9 DEF Fits

(* The next version up is read.                                            *)
LEMMA WalkUpFits ==
    ASSUME Sound(stored), NEW u, Fits(u), u.at = "walk",
           NEW p, p = u.copy[u.here].of, Known(stored, p),
           NEW v, Changed(u, v, {"copy", "here"}), ReadsToo(u.copy, v.copy, p), v.here = p
    PROVE  Fits(v) /\ v.held = u.held
<1>1. /\ DOMAIN u = Parts /\ p \in DOMAIN stored /\ p \in Id /\ stored[p] \in Schema
      /\ u.kind \in {"revise", "release"} /\ u.schema \in DOMAIN stored
    BY DEF Fits, Typed, Copied, Versions, Known, Sound, Asks
<1>2. /\ DOMAIN v = Parts /\ v.kind = u.kind /\ v.schema = u.schema /\ v.named = u.named
      /\ v.at = u.at
      /\ v.seen = u.seen /\ v.held = u.held /\ v.todo = u.todo
      /\ v.here = p /\ v.id = u.id /\ v.claim = u.claim /\ v.next = u.next
      /\ v.attempt = u.attempt
    BY <1>1 DEF Changed, Parts
<1>3. /\ DOMAIN v.copy = DOMAIN u.copy \cup {p} /\ v.copy[p] = stored[p]
      /\ \A j \in DOMAIN u.copy : j # p => v.copy[j] = u.copy[j]
    BY <1>2 DEF ReadsToo
<1>4. Typed(v)
    <2>1. Versions(v.copy)
        BY <1>1, <1>3 DEF Fits, Typed, Versions
    <2> QED BY <1>1, <1>2, <2>1 DEF Fits, Typed
<1>5. Asks(v)
    BY <1>2, <1>3 DEF Fits, Asks
<1>6. Copied(v)
    BY <1>1, ReadIsCopied DEF Fits
<1>7. Holds(v)
    BY <1>2, <1>3 DEF Fits, Holds, Same
<1>8. Walked(v)
    <2>1. u.here \in Lineage(stored, u.schema) /\ stored[u.here].of = p
        BY <1>1 DEF Fits, Walked, Copied
    <2>2. p \in Lineage(stored, u.schema)
        BY <1>1, <2>1, LineageGoesUp DEF Closed
    <2> QED BY <1>2, <1>3, <2>2 DEF Walked, Behind
<1>9. Seen(v) /\ Judged(v)
    BY <1>2 DEF Fits, Seen, Judged, Early
<1> QED BY <1>2, <1>4, <1>5, <1>6, <1>7, <1>8, <1>9 DEF Fits

(* The walk has arrived at the first version.                              *)
LEMMA WalkEndsFits ==
    ASSUME Sound(stored), NEW u, Fits(u), u.at = "walk", ~Known(stored, u.copy[u.here].of),
           NEW v, Changed(u, v, {"at"}),
           v.at \in {"list", "claim root"}, v.at = "list" => u.here = u.schema
    PROVE  Fits(v) /\ v.held = u.held
<1>1. DOMAIN u = Parts /\ u.kind \in {"revise", "release"} /\ u.schema \in DOMAIN stored
    BY DEF Fits, Typed, Asks
<1>2. /\ DOMAIN v = Parts /\ v.kind = u.kind /\ v.schema = u.schema /\ v.named = u.named
      /\ v.copy = u.copy
      /\ v.seen = u.seen /\ v.held = u.held /\ v.todo = u.todo
      /\ v.here = u.here /\ v.id = u.id /\ v.claim = u.claim /\ v.next = u.next
      /\ v.attempt = u.attempt
    BY <1>1 DEF Changed, Parts
<1>3. Typed(v) /\ Asks(v)
    <2>1. v.at \in Places /\ v.at \notin {"new", "ended", "load"}
        BY DEF Places, Early, Behind
    <2>2. Typed(v)
        BY <1>2, <2>1 DEF Fits, Typed
    <2>3. u.schema \in DOMAIN u.copy
        BY DEF Fits, Asks
    <2> QED BY <1>1, <1>2, <2>1, <2>2, <2>3 DEF Asks
<1>4. Copied(v)
    BY <1>2 DEF Fits, Copied, Same
<1>5. Holds(v)
    <2>1. \A j \in u.held : j \in DOMAIN u.copy /\ j \in DOMAIN stored /\ Same(u, j)
        BY DEF Fits, Holds
    <2>2. u.kind = "revise" => u.schema \in u.held
        BY DEF Fits, Holds, Behind
    <2> QED BY <1>2, <2>1, <2>2 DEF Holds, Same
<1>6. Walked(v)
    <2>1. u.here \in DOMAIN u.copy /\ u.here \in Lineage(stored, u.schema)
        BY <1>1 DEF Fits, Walked
    <2>2. IsRoot(stored, u.here)
        BY <2>1 DEF Fits, Copied, IsRoot
    <2>3. u.kind = "revise" => u.schema \in u.held
        BY DEF Fits, Holds, Behind
    <2> QED BY <1>1, <1>2, <2>1, <2>2, <2>3 DEF Walked, Behind
<1>7. Seen(v) /\ Judged(v)
    BY <1>2 DEF Fits, Seen, Judged, Early
<1> QED BY <1>2, <1>3, <1>4, <1>5, <1>6, <1>7 DEF Fits

(* The list of what is stored holds the family.                            *)
LEMMA ListFits ==
    ASSUME Sound(stored), NEW u, Fits(u), u.at = "list",
           NEW v, Changed(u, v, {"todo", "at"}), v.todo = DOMAIN stored, v.at = "read"
    PROVE  Fits(v) /\ v.held = u.held
<1>1. DOMAIN u = Parts /\ u.kind \in {"revise", "release"} /\ u.schema \in DOMAIN stored
    BY DEF Fits, Typed, Asks
<1>2. /\ DOMAIN v = Parts /\ v.kind = u.kind /\ v.schema = u.schema /\ v.named = u.named
      /\ v.copy = u.copy /\ v.at = "read"
      /\ v.seen = u.seen /\ v.held = u.held /\ v.todo = DOMAIN stored
      /\ v.here = u.here /\ v.id = u.id /\ v.claim = u.claim /\ v.next = u.next
      /\ v.attempt = u.attempt
    BY <1>1 DEF Changed, Parts
<1>3. Typed(v) /\ Asks(v)
    BY <1>1, <1>2 DEF Fits, Typed, Asks, Places, Behind, Sound, Versions
<1>4. Copied(v)
    BY <1>2 DEF Fits, Copied, Same
<1>5. Holds(v)
    BY <1>2 DEF Fits, Holds, Same, Behind
<1>6. Walked(v)
    BY <1>2 DEF Fits, Walked, Behind
<1>7. Seen(v)
    <2>1. DOMAIN u.seen = {}
        BY DEF Fits, Seen, Early
    <2>2. \A i \in DOMAIN stored : stored[i].of \in DOMAIN stored \cup {None}
        BY DEF Sound, Parents
    <2>3. \A j \in Family(stored, u.schema) : j \in DOMAIN stored
        BY DEF Family
    <2> QED BY <1>1, <1>2, <2>1, <2>2, <2>3 DEF Seen, Early
<1>8. Judged(v)
    BY <1>2 DEF Judged
<1> QED BY <1>2, <1>3, <1>4, <1>5, <1>6, <1>7, <1>8 DEF Fits

(* One more of the listed schemas is read.                                 *)
LEMMA ReadFits ==
    ASSUME Sound(stored), NEW u, Fits(u), u.at = "read", NEW i, i \in u.todo,
           NEW v, Changed(u, v, {"seen", "todo"}), ReadsToo(u.seen, v.seen, i),
           v.todo = u.todo \ {i}
    PROVE  Fits(v) /\ v.held = u.held
<1>1. /\ DOMAIN u = Parts /\ u.kind \in {"revise", "release"} /\ u.schema \in DOMAIN stored
      /\ i \in DOMAIN stored
    BY DEF Fits, Typed, Asks, Seen
<1>2. /\ DOMAIN v = Parts /\ v.kind = u.kind /\ v.schema = u.schema /\ v.named = u.named
      /\ v.copy = u.copy /\ v.at = u.at
      /\ v.held = u.held /\ v.todo = u.todo \ {i}
      /\ v.here = u.here /\ v.id = u.id /\ v.claim = u.claim /\ v.next = u.next
      /\ v.attempt = u.attempt
    BY <1>1 DEF Changed, Parts
<1>3. /\ DOMAIN v.seen = DOMAIN u.seen \cup {i} /\ v.seen[i] = stored[i]
      /\ \A j \in DOMAIN u.seen : j # i => v.seen[j] = u.seen[j]
    BY DEF ReadsToo
<1>4. Typed(v)
    <2>1. Versions(v.seen)
        BY <1>1, <1>3 DEF Fits, Typed, Versions, Sound
    <2> QED BY <1>2, <2>1 DEF Fits, Typed
<1>5. Asks(v)
    BY <1>2 DEF Fits, Asks
<1>6. Copied(v)
    BY <1>2 DEF Fits, Copied, Same
<1>7. Holds(v)
    BY <1>2 DEF Fits, Holds, Same
<1>8. Walked(v)
    BY <1>2 DEF Fits, Walked
<1>9. Seen(v)
    <2> DEFINE D == DOMAIN u.seen \cup u.todo
               E == DOMAIN v.seen \cup v.todo
    <2>1. E = D
        BY <1>2, <1>3
    <2>2. /\ D \subseteq DOMAIN stored /\ u.schema \in D
          /\ \A j \in D : stored[j].of \in D \cup {None}
        BY <1>1 DEF Fits, Seen
    <2>3. \A j \in DOMAIN v.seen : /\ v.seen[j].version = stored[j].version
                                   /\ v.seen[j].of = stored[j].of
        BY <1>1, <1>3 DEF Fits, Seen
    <2>4. Same(v, v.here) => Same(u, u.here)
        BY <1>2 DEF Same
    <2>5. ASSUME Same(v, v.here), NEW j \in Family(stored, v.schema)
          PROVE  j \in E /\ (j \in DOMAIN v.seen => v.seen[j].state = stored[j].state)
        <3>1. j \in D /\ (j \in DOMAIN u.seen => u.seen[j].state = stored[j].state)
            BY <1>1, <1>2, <2>4, <2>5 DEF Fits, Seen
        <3> QED BY <1>3, <2>1, <3>1
    <2> HIDE DEF D
    <2> QED BY <1>2, <2>1, <2>2, <2>3, <2>5 DEF Seen, Early
<1>10. Judged(v)
    BY <1>2 DEF Judged
<1> QED BY <1>2, <1>4, <1>5, <1>6, <1>7, <1>8, <1>9, <1>10 DEF Fits

(* All of them are read.                                                   *)
LEMMA ReadEndsFits ==
    ASSUME Sound(stored), NEW u, Fits(u), u.at = "read", u.todo = {},
           NEW v, Changed(u, v, {"at"}), v.at = "decide"
    PROVE  Fits(v) /\ v.held = u.held
<1>1. /\ DOMAIN u = Parts /\ u.kind \in {"revise", "release"}
    BY DEF Fits, Typed, Asks
<1>2. /\ DOMAIN v = Parts /\ v.kind = u.kind /\ v.schema = u.schema /\ v.named = u.named
      /\ v.copy = u.copy /\ v.seen = u.seen /\ v.held = u.held /\ v.todo = u.todo
      /\ v.here = u.here /\ v.id = u.id /\ v.claim = u.claim /\ v.next = u.next
      /\ v.attempt = u.attempt
    BY <1>1 DEF Changed, Parts
<1>3. Typed(v) /\ Asks(v)
    BY <1>2 DEF Fits, Typed, Asks, Places, Behind
<1>4. Copied(v)
    BY <1>2 DEF Fits, Copied, Same
<1>5. Holds(v)
    BY <1>2 DEF Fits, Holds, Same, Behind
<1>6. Walked(v)
    BY <1>2 DEF Fits, Walked, Behind
<1>7. Seen(v)
    BY <1>1, <1>2 DEF Fits, Seen, Early, Same
<1>8. Judged(v)
    BY <1>2 DEF Judged
<1> QED BY <1>2, <1>3, <1>4, <1>5, <1>6, <1>7, <1>8 DEF Fits

\* What was read, the schema itself as it was loaded.
Judges(u, all) ==
    /\ DOMAIN all = DOMAIN u.seen \cup {u.schema} /\ all[u.schema] = u.copy[u.schema]
    /\ \A j \in DOMAIN u.seen : j # u.schema => all[j] = u.seen[j]

(* What a request judges has the families that are stored.                 *)
LEMMA JudgesFamily ==
    ASSUME Sound(stored), NEW u, Fits(u), u.at = "decide", u.kind # "edit",
           NEW all, Judges(u, all)
    PROVE  /\ DOMAIN all \subseteq DOMAIN stored
           /\ \A j \in DOMAIN all : all[j].version = stored[j].version /\ all[j].state \in Lifecycle
           /\ Same(u, u.here) =>
                \A j \in Family(stored, u.schema) :
                    /\ j \in Family(all, u.schema)
                    /\ j # u.schema => all[j].state = stored[j].state
<1> DEFINE D == DOMAIN u.seen
<1>1. /\ D \subseteq DOMAIN stored /\ u.schema \in D
      /\ \A i \in D : stored[i].of \in D \cup {None}
      /\ \A i \in D : u.seen[i].version = stored[i].version /\ u.seen[i].of = stored[i].of
      /\ Same(u, u.here) =>
             \A j \in Family(stored, u.schema) : j \in D /\ u.seen[j].state = stored[j].state
    BY DEF Fits, Seen, Typed
<1>2. /\ u.copy[u.schema].version = stored[u.schema].version
      /\ u.copy[u.schema].of = stored[u.schema].of
      /\ u.copy[u.schema].state \in Lifecycle
    BY DEF Fits, Copied, Asks, Typed, Versions, Schema
<1>3. \A j \in D : u.seen[j].state \in Lifecycle
    BY DEF Fits, Typed, Versions, Schema
<1>4. DOMAIN all = D
    BY <1>1 DEF Judges
<1>5. \A j \in DOMAIN all : /\ all[j].version = stored[j].version /\ all[j].of = stored[j].of
                            /\ all[j].state \in Lifecycle
    BY <1>1, <1>2, <1>3, <1>4 DEF Judges
<1>6. Part(all, stored)
    BY <1>1, <1>4, <1>5 DEF Part
<1>7. None \notin DOMAIN stored /\ Rooted(stored)
    BY RevisionTypes DEF Sound, Versions
<1>8. \A j \in DOMAIN all : FamilyRoot(all, j) = FamilyRoot(stored, j)
    BY <1>6, <1>7, PartOfFamily
<1>9. ASSUME Same(u, u.here), NEW j \in Family(stored, u.schema)
      PROVE  j \in Family(all, u.schema) /\ (j # u.schema => all[j].state = stored[j].state)
    <2>1. j \in D /\ u.seen[j].state = stored[j].state
        BY <1>1, <1>9
    <2>2. FamilyRoot(stored, j) = FamilyRoot(stored, u.schema)
        BY <1>9 DEF Family
    <2>3. FamilyRoot(all, j) = FamilyRoot(all, u.schema)
        BY <1>1, <1>4, <1>8, <2>1, <2>2
    <2>4. j \in Family(all, u.schema)
        BY <1>4, <2>1, <2>3 DEF Family
    <2> QED BY <2>1, <2>4 DEF Judges
<1> QED BY <1>1, <1>4, <1>5, <1>9

(* None is above the highest.                                              *)
LEMMA NoneAbove ==
    ASSUME Sound(stored), NEW i \in DOMAIN stored, NEW S, S \subseteq DOMAIN stored,
           \A j \in S : ~(stored[j].version > stored[i].version)
    PROVE  \A j \in S : stored[j].version <= stored[i].version
<1>1. \A j \in DOMAIN stored : stored[j].version \in Nat
    BY DEF Sound, Versions, Schema
<1> QED BY <1>1

At(u, place) == u.at = place

(* A request that is not refused may do what it asks for.                  *)
LEMMA NotRefused ==
    ASSUME Sound(stored), NEW u, Fits(u), At(u, "decide"), NEW all, Judges(u, all),
           Refusal(u.kind, all, u.schema) = ""
    PROVE  /\ u.kind = "revise" =>
                \A j \in Family(stored, u.schema) : stored[j].version <= stored[u.schema].version
           /\ u.kind = "release" =>
                /\ u.copy[u.schema].state \in OpenStates
                /\ Same(u, u.here) =>
                     \A j \in Siblings(stored, u.schema, OnceReleased) \ {u.schema} :
                        stored[j].version # stored[u.schema].version
           /\ u.kind = "edit" => u.copy[u.schema].state = "ENTWURF"
<1>0. /\ u.kind \in {"revise", "release", "edit"} /\ all[u.schema] = u.copy[u.schema]
      /\ u.schema \in DOMAIN stored /\ u.schema \in DOMAIN all
    BY DEF Fits, Asks, Judges, At
<1>1. CASE u.kind = "revise"
    <2>1. RevisionRefusal(all, u.schema) = ""
        BY <1>1 DEF Refusal
    <2>2. /\ {j \in Siblings(all, u.schema, OnceReleased) :
                  all[j].version > all[u.schema].version} = {}
          /\ {j \in Siblings(all, u.schema, OpenStates) :
                  all[j].version > all[u.schema].version} = {}
        BY <2>1 DEF RevisionRefusal
    <2>3. Same(u, u.here) /\ u.kind # "edit"
        BY <1>1 DEF Fits, Walked, Holds, Behind, At
    <2>4. \A j \in Family(stored, u.schema) : j \in Family(all, u.schema)
        BY <2>3, JudgesFamily DEF At
    <2>5. \A j \in DOMAIN all : all[j].version = stored[j].version /\ all[j].state \in Lifecycle
        BY <2>3, JudgesFamily DEF At
    <2>6. \A j \in Family(all, u.schema) : ~(all[j].version > all[u.schema].version)
        BY <2>2, <2>5 DEF Siblings, Lifecycle, Family
    <2>7. \A j \in Family(stored, u.schema) : ~(stored[j].version > stored[u.schema].version)
        BY <1>0, <2>4, <2>5, <2>6 DEF Family
    <2>8. Family(stored, u.schema) \subseteq DOMAIN stored
        BY DEF Family
    <2>9. \A j \in Family(stored, u.schema) : stored[j].version <= stored[u.schema].version
        BY <1>0, <2>7, <2>8, NoneAbove
    <2> QED BY <1>1, <2>9
<1>2. CASE u.kind = "release"
    <2>1. ReleaseRefusal(all, u.schema) = ""
        BY <1>2 DEF Refusal
    <2>2. /\ u.copy[u.schema].state \in OpenStates
          /\ ~\E j \in Siblings(all, u.schema, OnceReleased) \ {u.schema} :
                all[j].version = all[u.schema].version
        BY <1>0, <2>1 DEF ReleaseRefusal
    <2>3. \A j \in DOMAIN all : all[j].version = stored[j].version
        BY <1>2, JudgesFamily DEF At
    <2>4. Same(u, u.here) =>
             \A j \in Family(stored, u.schema) :
                 /\ j \in Family(all, u.schema)
                 /\ j # u.schema => all[j].state = stored[j].state
        BY <1>2, JudgesFamily DEF At
    <2>5. ASSUME Same(u, u.here), NEW j \in Siblings(stored, u.schema, OnceReleased) \ {u.schema}
          PROVE  stored[j].version # stored[u.schema].version
        <3>1. j \in Family(stored, u.schema) /\ stored[j].state \in OnceReleased /\ j # u.schema
            BY DEF Siblings
        <3>2. j \in Family(all, u.schema) /\ all[j].state = stored[j].state
            BY <2>5, <2>4, <3>1
        <3>3. j \in DOMAIN all
            BY <3>2 DEF Family
        <3>4. all[j].version = stored[j].version /\ all[u.schema].version = stored[u.schema].version
            BY <1>0, <2>3, <3>3
        <3>5. j \in Siblings(all, u.schema, OnceReleased) \ {u.schema}
            BY <3>1, <3>2 DEF Siblings
        <3> QED BY <2>2, <3>4, <3>5
    <2> QED BY <1>2, <2>2, <2>5
<1>3. CASE u.kind = "edit"
    BY <1>0, <1>3 DEF Refusal, EditRefusal
<1> QED BY <1>0, <1>1, <1>2, <1>3

(* It goes on to draw the id of the new version, or to the save.           *)
LEMMA DecideFits ==
    ASSUME Sound(stored), NEW u, Fits(u), u.at = "decide", NEW all, Judges(u, all),
           Refusal(u.kind, all, u.schema) = "",
           NEW v, Changed(u, v, {"seen", "at"}), v.seen = Fresh.seen,
           \/ v.at = "draw" /\ u.kind = "revise"
           \/ v.at = "save" /\ u.kind # "revise"
    PROVE  Fits(v) /\ v.held = u.held
<1>1. /\ DOMAIN u = Parts /\ u.kind \in {"revise", "release", "edit"} /\ u.schema \in DOMAIN stored
      /\ u.schema \in DOMAIN u.copy
    BY DEF Fits, Typed, Asks
<1>2. /\ DOMAIN v = Parts /\ v.kind = u.kind /\ v.schema = u.schema /\ v.named = u.named
      /\ v.copy = u.copy /\ v.held = u.held /\ v.todo = u.todo
      /\ v.here = u.here /\ v.id = u.id /\ v.claim = u.claim /\ v.next = u.next
      /\ v.attempt = u.attempt
    BY <1>1 DEF Changed, Parts
<1>3. DOMAIN v.seen = {}
    BY DEF Fresh
<1>4. Typed(v) /\ Asks(v)
    <2>1. Versions(v.seen)
        BY <1>3 DEF Versions
    <2>2. v.at \in Places /\ v.at \notin {"new", "ended", "load"}
        BY DEF Places, Behind
    <2> QED BY <1>1, <1>2, <2>1, <2>2 DEF Fits, Typed, Asks
<1>5. Copied(v)
    BY <1>2 DEF Fits, Copied, Same
<1>6. Holds(v)
    <2>1. \A j \in u.held : j \in DOMAIN u.copy /\ j \in DOMAIN stored /\ Same(u, j)
        BY DEF Fits, Holds
    <2>2. u.kind = "revise" => u.schema \in u.held
        BY DEF Fits, Holds, Behind
    <2> QED BY <1>2, <2>1, <2>2 DEF Holds, Same
<1>7. Walked(v)
    BY <1>2 DEF Fits, Walked, Behind
<1>8. Seen(v)
    BY <1>2, <1>3 DEF Seen
<1>9. Judged(v)
    <2>1. /\ u.kind = "revise" =>
                \A j \in Family(stored, u.schema) : stored[j].version <= stored[u.schema].version
          /\ u.kind = "release" =>
                /\ u.copy[u.schema].state \in OpenStates
                /\ Same(u, u.here) =>
                     \A j \in Siblings(stored, u.schema, OnceReleased) \ {u.schema} :
                        stored[j].version # stored[u.schema].version
          /\ u.kind = "edit" => u.copy[u.schema].state = "ENTWURF"
        BY NotRefused DEF At
    <2>2. Same(v, v.here) => Same(u, u.here)
        BY <1>2 DEF Same
    <2> QED BY <1>2, <2>1, <2>2 DEF Judged
<1> QED BY <1>2, <1>4, <1>5, <1>6, <1>7, <1>8, <1>9 DEF Fits

(* An id is drawn, and claimed.                                            *)
LEMMA DrawFits ==
    ASSUME Sound(stored), NEW u, Fits(u), u.at \in {"draw", "claim id"},
           NEW v, Changed(u, v, {"id", "next", "claim", "at"}),
           v.at \in {"draw", "claim id", "insert"}, v.at # "draw" => v.id \in Id,
           {v.id, v.claim} \subseteq Id \cup {None}, v.next \in Nat
    PROVE  Fits(v) /\ v.held = u.held
<1>1. /\ DOMAIN u = Parts /\ u.kind = "revise" /\ u.schema \in DOMAIN stored
      /\ u.schema \in DOMAIN u.copy
    BY DEF Fits, Typed, Asks
<1>2. /\ DOMAIN v = Parts /\ v.kind = u.kind /\ v.schema = u.schema /\ v.named = u.named
      /\ v.copy = u.copy /\ v.seen = u.seen /\ v.held = u.held /\ v.todo = u.todo
      /\ v.here = u.here /\ v.attempt = u.attempt
    BY <1>1 DEF Changed, Parts
<1>3. Typed(v) /\ Asks(v)
    <2>1. v.at \in Places /\ v.at \notin {"new", "ended", "load"}
        BY DEF Places, Behind
    <2> QED BY <1>1, <1>2, <2>1 DEF Fits, Typed, Asks
<1>4. Copied(v)
    BY <1>2 DEF Fits, Copied, Same
<1>5. Holds(v)
    <2>1. \A j \in u.held : j \in DOMAIN u.copy /\ j \in DOMAIN stored /\ Same(u, j)
        BY DEF Fits, Holds
    <2>2. u.schema \in u.held
        BY <1>1 DEF Fits, Holds, Behind
    <2> QED BY <1>2, <2>1, <2>2 DEF Holds, Same
<1>6. Walked(v)
    BY <1>1, <1>2 DEF Fits, Walked, Behind
<1>7. Seen(v)
    <2>1. v.at \notin Early \cup {"new", "ended", "read", "decide"}
        BY DEF Early
    <2> QED BY <2>1 DEF Seen
<1>8. Judged(v)
    BY <1>1, <1>2 DEF Fits, Judged
<1> QED BY <1>2, <1>3, <1>4, <1>5, <1>6, <1>7, <1>8 DEF Fits

(* The new version is inserted under an id that is free.                   *)
LEMMA InsertFits ==
    ASSUME Sound(stored), NEW u, Fits(u), u.at = "insert", u.id \notin DOMAIN stored,
           NEW v, Changed(u, v, {"held", "at"}), v.held = u.held \cup {u.id}, v.at = "commit"
    PROVE  Fits(v) /\ v.held = u.held \cup {u.id}
<1>1. /\ DOMAIN u = Parts /\ u.kind = "revise" /\ u.schema \in DOMAIN stored /\ u.id \in Id
      /\ u.schema \in DOMAIN u.copy
    BY DEF Fits, Typed, Asks
<1>2. /\ DOMAIN v = Parts /\ v.kind = u.kind /\ v.schema = u.schema /\ v.named = u.named
      /\ v.copy = u.copy /\ v.seen = u.seen /\ v.todo = u.todo
      /\ v.here = u.here /\ v.attempt = u.attempt /\ v.id = u.id /\ v.claim = u.claim
      /\ v.next = u.next
    BY <1>1 DEF Changed, Parts
<1>3. Typed(v) /\ Asks(v)
    <2>1. v.at \in Places /\ v.held \subseteq Id
        BY <1>1 DEF Fits, Typed, Places, Behind
    <2> QED BY <1>1, <1>2, <2>1 DEF Fits, Typed, Asks
<1>4. Copied(v)
    BY <1>2 DEF Fits, Copied, Same
<1>5. Holds(v)
    <2>1. \A j \in u.held : j \in DOMAIN u.copy /\ j \in DOMAIN stored /\ Same(u, j)
        BY DEF Fits, Holds
    <2>2. u.schema \in u.held
        BY <1>1 DEF Fits, Holds, Behind
    <2>3. \A j \in u.held : Same(v, j)
        BY <1>2, <2>1 DEF Same
    <2> QED BY <1>1, <1>2, <2>1, <2>2, <2>3 DEF Holds
<1>6. Walked(v)
    BY <1>1, <1>2 DEF Fits, Walked, Behind
<1>7. Seen(v)
    BY DEF Seen, Early
<1>8. Judged(v)
    BY <1>1, <1>2 DEF Fits, Judged
<1> QED BY <1>2, <1>3, <1>4, <1>5, <1>6, <1>7, <1>8 DEF Fits

-----------------------------------------------------------------------------
(***************************************************************************)
(* The actions that store nothing.                                         *)
(***************************************************************************)

(* What a request holds already, the others do not.                        *)
LEMMA HeldApart ==
    ASSUME IInv, NEW r \in Request, NEW S, S \subseteq unit[r].held
    PROVE  \A q \in Request \ {r} : unit[q].held \cap S = {}
BY DEF IInv, Apart

LEMMA ArriveKeeps ==
    ASSUME IInv, NEW r \in Request, Arrive(r)
    PROVE  IInv'
<1>0. PICK kind \in {"revise", "release", "edit"}, i \in DOMAIN stored :
          /\ unit[r].at = "new"
          /\ \E id \in {None} \cup (IF kind = "revise" THEN Named ELSE {}) :
                Go(r, [unit[r] EXCEPT !.kind = kind, !.schema = i, !.named = id, !.at = "load"])
    BY DEF Arrive
<1>1. PICK id \in {None} \cup (IF kind = "revise" THEN Named ELSE {}) :
          Go(r, [unit[r] EXCEPT !.kind = kind, !.schema = i, !.named = id, !.at = "load"])
    BY <1>0
<1> DEFINE v == [unit[r] EXCEPT !.kind = kind, !.schema = i, !.named = id, !.at = "load"]
<1>2. DOMAIN unit[r] = Parts /\ Fits(unit[r]) /\ Sound(stored)
    BY DEF IInv, Fits, Typed
<1>3. /\ v.kind = kind /\ v.schema = i /\ v.named = id /\ v.at = "load"
    BY <1>2 DEF Parts
<1>4. Changed(unit[r], v, {"kind", "schema", "named", "at"})
    BY <1>2 DEF Parts, Changed
<1>5. Go(r, v)
    BY <1>1
<1>6. id \in Id \cup {None}
    BY RevisionTypes
<1> HIDE DEF v
<1>7. Fits(v) /\ v.held = {}
    BY <1>0, <1>2, <1>3, <1>4, <1>6, ArriveFits
<1> QED BY <1>5, <1>7, GoKeeps

LEMMA LoadKeeps ==
    ASSUME IInv, NEW r \in Request, Load(r)
    PROVE  IInv'
<1> DEFINE u == unit[r]
           v == [u EXCEPT !.copy = With(@, u.schema, stored[u.schema]), !.here = u.schema,
                          !.at = CASE @ = "load" /\ u.kind = "revise" -> "claim schema"
                                   [] @ = "load" /\ u.kind = "release" -> "walk"
                                   [] OTHER -> "decide"]
<1>1. u.at = "load" /\ Go(r, v)
    BY DEF Load
<1>2. DOMAIN u = Parts /\ Fits(u) /\ Sound(stored) /\ u.kind \in {"revise", "release", "edit"}
    BY <1>1 DEF IInv, Fits, Typed, Asks
<1>3. /\ v.here = u.schema /\ v.copy = With(u.copy, u.schema, stored[u.schema])
      /\ v.at = CASE u.at = "load" /\ u.kind = "revise" -> "claim schema"
                  [] u.at = "load" /\ u.kind = "release" -> "walk"
                  [] OTHER -> "decide"
    BY <1>2 DEF Parts
<1>4. Changed(u, v, {"copy", "here", "at"})
    BY <1>2 DEF Parts, Changed
<1> HIDE DEF v
<1>5. ReadsToo(u.copy, v.copy, u.schema)
    BY <1>3 DEF ReadsToo, With
<1>6. \/ v.at = "claim schema" /\ u.kind = "revise"
      \/ v.at = "walk" /\ u.kind = "release"
      \/ v.at = "decide" /\ u.kind = "edit"
    BY <1>1, <1>2, <1>3
<1> HIDE DEF u
<1>7. Fits(v) /\ v.held = {}
    BY <1>1, <1>2, <1>3, <1>4, <1>5, <1>6, LoadFits
<1> QED BY <1>1, <1>7, GoKeeps

LEMMA AgainKeeps ==
    ASSUME IInv, NEW r \in Request, unit[r].at \notin {"new", "ended"}, NEW answer,
           Go(r, Again(r, answer))
    PROVE  IInv'
BY AgainFits, GoKeeps

LEMMA ClaimKeeps ==
    ASSUME IInv, NEW r \in Request, NEW i, NEW next, Claim(r, i, next), i \in DOMAIN unit[r].copy,
           \/ unit[r].at = "claim schema" /\ next = "walk" /\ i = unit[r].schema
           \/ unit[r].at = "claim root" /\ next = "list" /\ i = unit[r].here
           \/ unit[r].at = "save" /\ next = "commit" /\ i = unit[r].schema
    PROVE  IInv'
<1>1. CASE Unchanged(r, i)
    <2> DEFINE u == unit[r]
               v == [u EXCEPT !.held = @ \cup {i}, !.at = next]
    <2>1. DOMAIN u = Parts /\ Fits(u) /\ Sound(stored)
        BY DEF IInv, Fits, Typed
    <2>2. v.held = u.held \cup {i} /\ v.at = next
        BY <2>1 DEF Parts
    <2>3. Changed(u, v, {"held", "at"})
        BY <2>1 DEF Parts, Changed
    <2>4. Go(r, v) /\ ~Locked(r, i)
        BY <1>1 DEF Claim
    <2>5. Same(u, i)
        BY <1>1 DEF Unchanged, Same
    <2> HIDE DEF v
    <2>6. Fits(v) /\ v.held = u.held \cup {i}
        BY <2>1, <2>2, <2>3, <2>5, ClaimFits
    <2>7. \A q \in Request \ {r} : unit[q].held \cap v.held = {}
        BY <2>4, <2>6 DEF Locked, IInv, Apart
    <2> QED BY <2>4, <2>6, <2>7, GoKeeps
<1>2. CASE ~Unchanged(r, i)
    BY <1>2, AgainKeeps DEF Claim
<1> QED BY <1>1, <1>2

LEMMA ClaimSchemaKeeps ==
    ASSUME IInv, NEW r \in Request, ClaimSchema(r)
    PROVE  IInv'
<1>1. unit[r].at = "claim schema" /\ Claim(r, unit[r].schema, "walk")
    BY DEF ClaimSchema
<1>2. unit[r].schema \in DOMAIN unit[r].copy
    BY <1>1 DEF IInv, Fits, Asks
<1> QED BY <1>1, <1>2, ClaimKeeps

LEMMA ClaimRootKeeps ==
    ASSUME IInv, NEW r \in Request, ClaimRoot(r)
    PROVE  IInv'
<1>1. unit[r].at = "claim root" /\ Claim(r, unit[r].here, "list")
    BY DEF ClaimRoot
<1>2. unit[r].kind \in {"revise", "release", "edit"} /\ unit[r].kind # "edit"
    BY <1>1 DEF IInv, Fits, Asks
<1>3. unit[r].here \in DOMAIN unit[r].copy
    BY <1>1, <1>2 DEF IInv, Fits, Walked
<1> QED BY <1>1, <1>3, ClaimKeeps

LEMMA SaveKeeps ==
    ASSUME IInv, NEW r \in Request, Save(r)
    PROVE  IInv'
<1>1. unit[r].at = "save" /\ Claim(r, unit[r].schema, "commit")
    BY DEF Save
<1>2. unit[r].schema \in DOMAIN unit[r].copy
    BY <1>1 DEF IInv, Fits, Asks
<1> QED BY <1>1, <1>2, ClaimKeeps

LEMMA WalkKeeps ==
    ASSUME IInv, NEW r \in Request, Walk(r)
    PROVE  IInv'
<1> DEFINE u == unit[r]
           p == u.copy[u.here].of
<1>1. u.at = "walk"
    BY DEF Walk
<1>2. DOMAIN u = Parts /\ Fits(u) /\ Sound(stored)
    BY DEF IInv, Fits, Typed
<1>3. CASE Known(stored, p)
    <2> DEFINE v == [u EXCEPT !.copy = With(@, p, stored[p]), !.here = p]
    <2>1. Go(r, v)
        BY <1>3 DEF Walk
    <2>2. v.here = p /\ v.copy = With(u.copy, p, stored[p])
        BY <1>2 DEF Parts
    <2>3. Changed(u, v, {"copy", "here"})
        BY <1>2 DEF Parts, Changed
    <2> HIDE DEF v
    <2>4. ReadsToo(u.copy, v.copy, p)
        BY <2>2 DEF ReadsToo, With
    <2>5. Fits(v) /\ v.held = u.held
        BY <1>1, <1>2, <1>3, <2>2, <2>3, <2>4, WalkUpFits
    <2> QED BY <2>1, <2>5, HeldApart, GoKeeps
<1>4. CASE ~Known(stored, p)
    <2> DEFINE v == [u EXCEPT !.at = IF u.here = u.schema THEN "list" ELSE "claim root"]
    <2>1. Go(r, v)
        BY <1>4 DEF Walk
    <2>2. v.at = IF u.here = u.schema THEN "list" ELSE "claim root"
        BY <1>2 DEF Parts
    <2>3. Changed(u, v, {"at"})
        BY <1>2 DEF Parts, Changed
    <2> HIDE DEF v
    <2>4. v.at \in {"list", "claim root"} /\ (v.at = "list" => u.here = u.schema)
        BY <2>2
    <2>5. Fits(v) /\ v.held = u.held
        BY <1>1, <1>2, <1>4, <2>3, <2>4, WalkEndsFits
    <2> QED BY <2>1, <2>5, HeldApart, GoKeeps
<1> QED BY <1>3, <1>4

LEMMA ListKeeps ==
    ASSUME IInv, NEW r \in Request, List(r)
    PROVE  IInv'
<1> DEFINE u == unit[r]
           v == [u EXCEPT !.todo = DOMAIN stored, !.at = "read"]
<1>1. u.at = "list" /\ Go(r, v)
    BY DEF List
<1>2. DOMAIN u = Parts /\ Fits(u) /\ Sound(stored)
    BY DEF IInv, Fits, Typed
<1>3. v.todo = DOMAIN stored /\ v.at = "read"
    BY <1>2 DEF Parts
<1>4. Changed(u, v, {"todo", "at"})
    BY <1>2 DEF Parts, Changed
<1> HIDE DEF v
<1>5. Fits(v) /\ v.held = u.held
    BY <1>1, <1>2, <1>3, <1>4, ListFits
<1> QED BY <1>1, <1>5, HeldApart, GoKeeps

(* A set of numbers has a least one.                                       *)
LEMMA Smallest ==
    ASSUME NEW T, T \subseteq Nat, T # {}
    PROVE  \E x \in T : \A y \in T : x <= y
<1> DEFINE R == {ss \in Nat \X Nat : ss[1] < ss[2]}
<1>1. R = OpToRel(<, Nat)
    BY Zenon DEF OpToRel
<1>2. IsWellFoundedOn(R, Nat)
    BY <1>1, NatLessThanWellFounded DEF OpToRel
<1> HIDE DEF R
<1>3. PICK x \in T : \A y \in T : ~(<<y, x>> \in R)
    BY <1>2, WFMin
<1>4. \A y \in T : ~(y < x)
    BY <1>3 DEF R
<1> QED BY <1>4

LEMMA ReadKeeps ==
    ASSUME IInv, NEW r \in Request, Read(r)
    PROVE  IInv'
<1> DEFINE u == unit[r]
<1>1. u.at = "read"
    BY DEF Read
<1>2. DOMAIN u = Parts /\ Fits(u) /\ Sound(stored) /\ u.todo \subseteq Id
    BY DEF IInv, Fits, Typed
<1>3. CASE u.todo = {}
    <2> DEFINE v == [u EXCEPT !.at = "decide"]
    <2>1. Go(r, v)
        BY <1>3 DEF Read
    <2>2. v.at = "decide"
        BY <1>2 DEF Parts
    <2>3. Changed(u, v, {"at"})
        BY <1>2 DEF Parts, Changed
    <2> HIDE DEF v
    <2>4. Fits(v) /\ v.held = u.held
        BY <1>1, <1>2, <1>3, <2>2, <2>3, ReadEndsFits
    <2> QED BY <2>1, <2>4, HeldApart, GoKeeps
<1>4. CASE u.todo # {}
    <2> DEFINE i == CHOOSE j \in u.todo : \A k \in u.todo : j <= k
               v == [u EXCEPT !.seen = With(@, i, stored[i]), !.todo = @ \ {i}]
    <2>1. Go(r, v)
        BY <1>4 DEF Read
    <2>2. i \in u.todo
        <3>1. u.todo \subseteq Nat
            BY <1>2, RevisionTypes
        <3>2. \E j \in u.todo : \A k \in u.todo : j <= k
            BY <1>4, <3>1, Smallest
        <3> QED BY <3>2
    <2> HIDE DEF i
    <2>3. v.todo = u.todo \ {i} /\ v.seen = With(u.seen, i, stored[i])
        BY <1>2 DEF Parts
    <2>4. Changed(u, v, {"seen", "todo"})
        BY <1>2 DEF Parts, Changed
    <2> HIDE DEF v
    <2>5. ReadsToo(u.seen, v.seen, i)
        BY <2>3 DEF ReadsToo, With
    <2>6. Fits(v) /\ v.held = u.held
        BY <1>1, <1>2, <2>2, <2>3, <2>4, <2>5, ReadFits
    <2> QED BY <2>1, <2>6, HeldApart, GoKeeps
<1> QED BY <1>3, <1>4

LEMMA DecideKeeps ==
    ASSUME IInv, NEW r \in Request, Decide(r)
    PROVE  IInv'
<1> DEFINE u == unit[r]
           all == With(u.seen, u.schema, u.copy[u.schema])
           why == Refusal(u.kind, all, u.schema)
           v == [u EXCEPT !.seen = Fresh.seen, !.at = IF u.kind = "revise" THEN "draw" ELSE "save"]
<1>1. u.at = "decide" /\ Go(r, IF why = "" THEN v ELSE Ended(why))
    BY DEF Decide
<1>2. DOMAIN u = Parts /\ Fits(u) /\ Sound(stored)
    BY DEF IInv, Fits, Typed
<1>3. CASE why = ""
    <2>1. v.seen = Fresh.seen /\ v.at = IF u.kind = "revise" THEN "draw" ELSE "save"
        BY <1>2 DEF Parts
    <2>2. Changed(u, v, {"seen", "at"})
        BY <1>2 DEF Parts, Changed
    <2>3. Judges(u, all)
        BY DEF Judges, With
    <2>4. Go(r, v)
        BY <1>1, <1>3
    <2>5. Refusal(u.kind, all, u.schema) = ""
        BY <1>3
    <2> HIDE DEF v, all, u
    <2>6. \/ v.at = "draw" /\ u.kind = "revise"
          \/ v.at = "save" /\ u.kind # "revise"
        BY <2>1
    <2>7. Fits(v) /\ v.held = u.held
        BY <1>1, <1>2, <2>1, <2>2, <2>3, <2>5, <2>6, DecideFits
    <2> QED BY <2>4, <2>7, HeldApart, GoKeeps DEF u
<1>4. CASE why # ""
    <2>1. Go(r, Ended(why))
        BY <1>1, <1>4
    <2> HIDE DEF why
    <2> QED BY <2>1, EndedFits, GoKeeps
<1> QED BY <1>3, <1>4

LEMMA DrawKeeps ==
    ASSUME IInv, NEW r \in Request, Draw(r)
    PROVE  IInv'
<1> DEFINE u == unit[r]
<1>1. u.at = "draw"
    BY DEF Draw
<1>2. /\ DOMAIN u = Parts /\ Fits(u) /\ Sound(stored)
      /\ {u.named, u.claim} \subseteq Id \cup {None} /\ u.next \in Nat
    BY DEF IInv, Fits, Typed
<1>3. CASE u.named # None
    <2> DEFINE v == [u EXCEPT !.id = u.named, !.at = "insert"]
    <2>1. Go(r, v)
        BY <1>3 DEF Draw
    <2>2. v.id = u.named /\ v.at = "insert" /\ v.claim = u.claim /\ v.next = u.next
        BY <1>2 DEF Parts
    <2>3. Changed(u, v, {"id", "next", "claim", "at"})
        BY <1>2 DEF Parts, Changed
    <2> HIDE DEF v
    <2>4. /\ u.at \in {"draw", "claim id"} /\ v.at \in {"draw", "claim id", "insert"}
          /\ v.id \in Id /\ {v.id, v.claim} \subseteq Id \cup {None} /\ v.next \in Nat
        BY <1>1, <1>2, <1>3, <2>2
    <2>5. Fits(v) /\ v.held = u.held
        BY <1>2, <2>3, <2>4, DrawFits
    <2> QED BY <2>1, <2>5, HeldApart, GoKeeps
<1>4. CASE u.named = None
    <2>1. PICK n \in Id \ DOMAIN stored :
              Go(r, [u EXCEPT !.id = n, !.next = n + 1, !.at = "claim id"])
        BY <1>4 DEF Draw
    <2> DEFINE v == [u EXCEPT !.id = n, !.next = n + 1, !.at = "claim id"]
    <2>2. v.id = n /\ v.at = "claim id" /\ v.claim = u.claim /\ v.next = n + 1
        BY <1>2 DEF Parts
    <2>3. Changed(u, v, {"id", "next", "claim", "at"})
        BY <1>2 DEF Parts, Changed
    <2>4. Go(r, v)
        BY <2>1
    <2> HIDE DEF v
    <2>5. n + 1 \in Nat
        BY RevisionTypes
    <2>6. /\ u.at \in {"draw", "claim id"} /\ v.at \in {"draw", "claim id", "insert"}
          /\ v.id \in Id /\ {v.id, v.claim} \subseteq Id \cup {None} /\ v.next \in Nat
        BY <1>1, <1>2, <2>2, <2>5
    <2>7. Fits(v) /\ v.held = u.held
        BY <1>2, <2>3, <2>6, DrawFits
    <2> QED BY <2>4, <2>7, HeldApart, GoKeeps
<1> QED BY <1>3, <1>4

LEMMA ClaimIdKeeps ==
    ASSUME IInv, NEW r \in Request, ClaimId(r)
    PROVE  IInv'
<1> DEFINE u == unit[r]
           taken == [u EXCEPT !.at = "draw"]
           free  == [u EXCEPT !.claim = u.id, !.at = "insert"]
           v == IF u.id \in claims THEN taken ELSE free
<1>1. u.at = "claim id" /\ Go(r, v)
    BY DEF ClaimId
<1>2. /\ DOMAIN u = Parts /\ Fits(u) /\ Sound(stored) /\ u.id \in Id
      /\ {u.named, u.claim} \subseteq Id \cup {None} /\ u.next \in Nat
    BY <1>1 DEF IInv, Fits, Typed, Asks
<1>3. /\ taken.at = "draw" /\ taken.id = u.id /\ taken.claim = u.claim /\ taken.next = u.next
      /\ free.at = "insert" /\ free.id = u.id /\ free.claim = u.id /\ free.next = u.next
    BY <1>2 DEF Parts
<1>4. Changed(u, taken, {"id", "next", "claim", "at"})
    BY <1>2 DEF Parts, Changed
<1>5. Changed(u, free, {"id", "next", "claim", "at"})
    BY <1>2 DEF Parts, Changed
<1> HIDE DEF taken, free
<1>6. Changed(u, v, {"id", "next", "claim", "at"})
    BY <1>4, <1>5
<1>7. /\ u.at \in {"draw", "claim id"} /\ v.at \in {"draw", "claim id", "insert"}
      /\ v.id \in Id /\ {v.id, v.claim} \subseteq Id \cup {None} /\ v.next \in Nat
    BY <1>1, <1>2, <1>3
<1> HIDE DEF v
<1>8. Fits(v) /\ v.held = u.held
    BY <1>2, <1>6, <1>7, DrawFits
<1> QED BY <1>1, <1>8, HeldApart, GoKeeps

LEMMA InsertKeeps ==
    ASSUME IInv, NEW r \in Request, Insert(r)
    PROVE  IInv'
<1> DEFINE u == unit[r]
           v == [u EXCEPT !.held = @ \cup {u.id}, !.at = "commit"]
<1>1. /\ u.at = "insert" /\ ~Locked(r, u.id)
      /\ Go(r, IF u.id \in DOMAIN stored THEN Again(r, "conflict") ELSE v)
    BY DEF Insert
<1>2. DOMAIN u = Parts /\ Fits(u) /\ Sound(stored)
    BY DEF IInv, Fits, Typed
<1>3. CASE u.id \in DOMAIN stored
    BY <1>1, <1>3, AgainKeeps
<1>4. CASE u.id \notin DOMAIN stored
    <2>1. v.held = u.held \cup {u.id} /\ v.at = "commit"
        BY <1>2 DEF Parts
    <2>2. Changed(u, v, {"held", "at"})
        BY <1>2 DEF Parts, Changed
    <2>3. Go(r, v)
        BY <1>1, <1>4
    <2> HIDE DEF v
    <2>4. Fits(v) /\ v.held = u.held \cup {u.id}
        BY <1>1, <1>2, <1>4, <2>1, <2>2, InsertFits
    <2>5. \A q \in Request \ {r} : unit[q].held \cap v.held = {}
        BY <1>1, <2>4 DEF Locked, IInv, Apart
    <2> QED BY <2>3, <2>5, <2>4, GoKeeps
<1> QED BY <1>3, <1>4

LEMMA VictimKeeps ==
    ASSUME IInv, NEW r \in Request, Victim(r)
    PROVE  IInv'
<1>1. Awaited(r) # {} /\ Go(r, Again(r, "unavailable"))
    BY DEF Victim
<1>2. unit[r].at \notin {"new", "ended"}
    BY <1>1 DEF Awaited
<1> QED BY <1>1, <1>2, AgainKeeps

-----------------------------------------------------------------------------
(***************************************************************************)
(* The action that stores.                                                 *)
(***************************************************************************)

New(u) == IF u.kind = "revise" THEN {u.id} ELSE {}

\* What a commit makes of the stored schemas.
Saves(u, old, new) ==
    /\ DOMAIN new = DOMAIN old \cup New(u) /\ New(u) \subseteq Id \ DOMAIN old
    /\ \A j \in DOMAIN old :
          /\ new[j] \in Schema
          /\ new[j].version = old[j].version /\ new[j].of = old[j].of
          /\ new[j].name = old[j].name
          /\ j \in u.held => new[j].lock = old[j].lock + 1
          /\ j \notin u.held => new[j] = old[j]
          /\ new[j].state # old[j].state =>
                /\ u.kind = "release" /\ j = u.schema
                /\ old[j].state \in OpenStates /\ new[j].state = "RELEASED"
          /\ new[j].library # old[j].library => old[j].state = "ENTWURF"
    /\ \A j \in New(u) :
          /\ new[j] \in Schema
          /\ new[j].of = u.schema /\ new[j].version = old[u.schema].version + 1
          /\ new[j].state = "ENTWURF"

(* A store that grows keeps its lineages and its first versions.           *)
LEMMA LineagesStay ==
    ASSUME NEW old, NEW new, Sound(old), None \notin DOMAIN new, DOMAIN old \subseteq DOMAIN new,
           \A j \in DOMAIN old : new[j].of = old[j].of,
           NEW i \in DOMAIN old
    PROVE  /\ Lineage(new, i) = Lineage(old, i) /\ FamilyRoot(new, i) = FamilyRoot(old, i)
           /\ IsRoot(old, i) => IsRoot(new, i)
           /\ \E a \in Lineage(new, i) : IsRoot(new, a)
<1>1. Part(old, new)
    BY DEF Part, Sound, Parents
<1>2. Lineage(new, i) = Lineage(old, i)
    BY <1>1, PartOfLineage
<1>3. ASSUME NEW a, IsRoot(old, a) PROVE IsRoot(new, a)
    BY <1>3 DEF IsRoot, Sound, Parents, Known
<1>4. PICK a \in Lineage(old, i) : IsRoot(old, a)
    BY DEF Sound, Rooted
<1>5. FamilyRoot(old, i) = a
    BY <1>4, RootOf
<1>6. FamilyRoot(new, i) = a
    BY <1>2, <1>3, <1>4, RootOf
<1> QED BY <1>2, <1>3, <1>4, <1>5, <1>6

(* So does a commit, and the new version is of the schema's family.        *)
LEMMA SavesSound ==
    ASSUME NEW old, NEW new, Sound(old), NEW u, Saves(u, old, new), u.schema \in DOMAIN old
    PROVE  /\ Sound(new)
           /\ \A i \in DOMAIN old : /\ Lineage(new, i) = Lineage(old, i)
                                    /\ FamilyRoot(new, i) = FamilyRoot(old, i)
                                    /\ IsRoot(old, i) => IsRoot(new, i)
           /\ \A i \in New(u) : FamilyRoot(new, i) = FamilyRoot(old, u.schema)
<1>1. /\ DOMAIN new = DOMAIN old \cup New(u) /\ New(u) \subseteq Id \ DOMAIN old
      /\ \A j \in DOMAIN old : new[j] \in Schema /\ new[j].of = old[j].of
      /\ \A j \in New(u) : new[j] \in Schema /\ new[j].of = u.schema
    BY DEF Saves
<1>2. Versions(new)
    BY <1>1 DEF Versions, Sound
<1>3. Parents(new)
    BY <1>1 DEF Parents, Sound
<1>4. None \notin DOMAIN new
    BY <1>2, RevisionTypes DEF Versions
<1>5. \A i \in DOMAIN old : /\ Lineage(new, i) = Lineage(old, i)
                            /\ FamilyRoot(new, i) = FamilyRoot(old, i)
                            /\ IsRoot(old, i) => IsRoot(new, i)
                            /\ \E a \in Lineage(new, i) : IsRoot(new, a)
    BY <1>1, <1>4, LineagesStay
<1>6. ASSUME NEW i \in New(u)
      PROVE  u.schema \in Lineage(new, i) /\ Lineage(new, u.schema) \subseteq Lineage(new, i)
    <2>1. i \in DOMAIN new /\ Known(new, new[i].of) /\ new[i].of = u.schema
        BY <1>1 DEF Known
    <2>2. u.schema \in Lineage(new, i)
        BY <2>1, LineageGoesUp DEF Closed
    <2> QED BY <2>1, <2>2, AncestorsOfAncestors
<1>7. Rooted(new)
    <2> SUFFICES ASSUME NEW i \in DOMAIN new PROVE \E a \in Lineage(new, i) : IsRoot(new, a)
        BY DEF Rooted
    <2>1. CASE i \in DOMAIN old
        BY <1>5, <2>1
    <2>2. CASE i \in New(u)
        BY <1>5, <1>6, <2>2
    <2> QED BY <1>1, <2>1, <2>2
<1>8. ASSUME NEW i \in New(u) PROVE FamilyRoot(new, i) = FamilyRoot(old, u.schema)
    <2>1. FamilyRoot(new, u.schema) = FamilyRoot(new, i)
        BY <1>1, <1>6, <1>7, RootOfAncestor
    <2> QED BY <1>5, <2>1
<1>9. IsFiniteSet(DOMAIN new)
    <2>1. IsFiniteSet(New(u))
        BY FS_EmptySet, FS_Singleton DEF New
    <2>2. IsFiniteSet(DOMAIN old)
        BY DEF Sound
    <2>3. IsFiniteSet(DOMAIN old \cup New(u))
        BY <2>1, <2>2, FS_Union
    <2> QED BY <1>1, <2>3
<1> QED BY <1>2, <1>3, <1>5, <1>7, <1>8, <1>9 DEF Sound

(* The rows a commit writes.                                               *)
LEMMA SavedRow ==
    ASSUME NEW s \in Schema
    PROVE  LET b == [s EXCEPT !.lock = @ + 1]
           IN  /\ b \in Schema /\ b.lock = s.lock + 1 /\ b.version = s.version /\ b.of = s.of
               /\ b.state = s.state /\ b.name = s.name /\ b.library = s.library
<1> DEFINE b == [s EXCEPT !.lock = @ + 1]
<1>1. /\ s.version \in Nat \ {0} /\ s.of \in Id \cup {None} /\ s.state \in Lifecycle
      /\ s.name \in {"p", "q"} /\ s.library \in BOOLEAN /\ s.lock \in Nat \ {0}
    BY DEF Schema
<1>2. s.lock + 1 \in Nat \ {0}
    BY <1>1
<1>3. b \in Schema
    BY <1>2 DEF Schema
<1> QED BY <1>3 DEF Schema

LEMMA ReleasedRow ==
    ASSUME NEW s \in Schema
    PROVE  LET b == [s EXCEPT !.state = "RELEASED"]
           IN  /\ b \in Schema /\ b.lock = s.lock /\ b.version = s.version /\ b.of = s.of
               /\ b.state = "RELEASED" /\ b.name = s.name /\ b.library = s.library
BY DEF Schema, Lifecycle, OnceReleased

LEMMA EditedRow ==
    ASSUME NEW s \in Schema
    PROVE  LET b == [s EXCEPT !.library = ~@]
           IN  /\ b \in Schema /\ b.lock = s.lock /\ b.version = s.version /\ b.of = s.of
               /\ b.state = s.state /\ b.name = s.name
BY DEF Schema

LEMMA RevisedRow ==
    ASSUME NEW s \in Schema, NEW i \in Id
    PROVE  LET b == [s EXCEPT !.version = @ + 1, !.of = i, !.state = "ENTWURF", !.lock = 1]
           IN  /\ b \in Schema /\ b.version = s.version + 1 /\ b.of = i /\ b.state = "ENTWURF"
<1> DEFINE b == [s EXCEPT !.version = @ + 1, !.of = i, !.state = "ENTWURF", !.lock = 1]
<1>1. /\ s.version \in Nat \ {0} /\ s.of \in Id \cup {None} /\ s.state \in Lifecycle
      /\ s.name \in {"p", "q"} /\ s.library \in BOOLEAN /\ s.lock \in Nat \ {0}
      /\ s = [f \in {"version", "of", "state", "name", "library", "lock"} |-> s[f]]
    BY DEF Schema
<1>2. /\ b = [f \in {"version", "of", "state", "name", "library", "lock"} |-> b[f]]
      /\ b.version = s.version + 1 /\ b.of = i /\ b.state = "ENTWURF" /\ b.lock = 1
      /\ b.name = s.name /\ b.library = s.library
    BY <1>1
<1> HIDE DEF b
<1>3. b.version \in Nat \ {0} /\ b.lock \in Nat \ {0} /\ b.state \in Lifecycle
    BY <1>1, <1>2 DEF Lifecycle, OpenStates
<1>4. b \in Schema
    BY <1>1, <1>2, <1>3 DEF Schema
<1> QED BY <1>2, <1>4 DEF b

(* What a commit makes of the stored schemas.                              *)
LEMMA CommitSaves ==
    ASSUME IInv, NEW r \in Request, Commit(r)
    PROVE  Saves(unit[r], stored, stored')
<1> DEFINE u == unit[r]
           i == u.schema
           saved == [j \in DOMAIN stored |->
                       IF j \in u.held THEN [stored[j] EXCEPT !.lock = @ + 1] ELSE stored[j]]
           row == [u.copy[i] EXCEPT !.version = @ + 1, !.of = i, !.state = "ENTWURF", !.lock = 1]
<1>1. u.at = "commit"
    BY DEF Commit
<1>2. stored' = CASE u.kind = "revise"  -> With(saved, u.id, row)
                  [] u.kind = "release" -> [saved EXCEPT ![i].state = "RELEASED"]
                  [] u.kind = "edit"    -> [saved EXCEPT ![i].library = ~@]
    BY DEF Commit
<1>3. Fits(u) /\ Sound(stored)
    BY DEF IInv
<1>4. /\ u.kind \in {"revise", "release", "edit"} /\ i \in DOMAIN stored /\ i \in DOMAIN u.copy
      /\ i \in Id /\ u.held \subseteq Id
    BY <1>1, <1>3 DEF Fits, Asks, Typed, Sound, Versions
<1>5. i \in u.held
    BY <1>1, <1>3, <1>4 DEF Fits, Holds, Behind
<1>6. u.copy[i] = stored[i]
    BY <1>1, <1>3, <1>4, <1>5 DEF Fits, Holds, Copied
<1>7. \A j \in DOMAIN stored : stored[j] \in Schema
    BY <1>3 DEF Sound, Versions
<1>8. /\ DOMAIN saved = DOMAIN stored
      /\ \A j \in DOMAIN stored :
            /\ saved[j] \in Schema
            /\ saved[j].version = stored[j].version /\ saved[j].of = stored[j].of
            /\ saved[j].name = stored[j].name
            /\ saved[j].state = stored[j].state /\ saved[j].library = stored[j].library
            /\ j \in u.held => saved[j].lock = stored[j].lock + 1
            /\ j \notin u.held => saved[j] = stored[j]
    BY <1>7, SavedRow
<1> HIDE DEF saved
<1>9. CASE u.kind = "revise"
    <2>1. /\ u.id \in u.held /\ u.id \notin DOMAIN stored
        BY <1>1, <1>3, <1>9 DEF Fits, Holds
    <2>2. row \in Schema /\ row.version = stored[i].version + 1 /\ row.of = i /\ row.state = "ENTWURF"
        <3>1. u.copy[i] \in Schema
            BY <1>4, <1>6, <1>7
        <3>2. /\ row \in Schema /\ row.version = u.copy[i].version + 1 /\ row.of = i
              /\ row.state = "ENTWURF"
            BY <1>4, <3>1, RevisedRow
        <3> QED BY <1>6, <3>2
    <2> HIDE DEF row
    <2>3. stored' = With(saved, u.id, row)
        BY <1>2, <1>9
    <2>4. /\ DOMAIN stored' = DOMAIN stored \cup {u.id} /\ stored'[u.id] = row
          /\ \A j \in DOMAIN stored : stored'[j] = saved[j]
        BY <1>8, <2>1, <2>3 DEF With
    <2>5. New(u) = {u.id} /\ u.id \in Id
        BY <1>4, <1>9, <2>1 DEF New
    <2>6. \A j \in New(u) : /\ stored'[j] \in Schema
                           /\ stored'[j].of = i /\ stored'[j].version = stored[i].version + 1
                           /\ stored'[j].state = "ENTWURF"
        BY <2>2, <2>4, <2>5
    <2>7. DOMAIN stored' = DOMAIN stored \cup New(u) /\ New(u) \subseteq Id \ DOMAIN stored
        BY <2>1, <2>4, <2>5
    <2>8. \A j \in DOMAIN stored :
             /\ stored'[j] \in Schema
             /\ stored'[j].version = stored[j].version /\ stored'[j].of = stored[j].of
             /\ stored'[j].name = stored[j].name
             /\ stored'[j].state = stored[j].state /\ stored'[j].library = stored[j].library
             /\ j \in u.held => stored'[j].lock = stored[j].lock + 1
             /\ j \notin u.held => stored'[j] = stored[j]
        BY <1>8, <2>4
    <2> HIDE DEF u
    <2>9. Saves(u, stored, stored')
        BY <2>6, <2>7, <2>8 DEF Saves
    <2> QED BY <2>9 DEF u
<1>10. CASE u.kind = "release"
    <2>1. stored' = [saved EXCEPT ![i].state = "RELEASED"]
        BY <1>2, <1>10
    <2>2. stored[i].state \in OpenStates
        BY <1>1, <1>3, <1>6, <1>10 DEF Fits, Judged
    <2>3. /\ DOMAIN stored' = DOMAIN stored
          /\ \A j \in DOMAIN stored : j # i => stored'[j] = saved[j]
          /\ stored'[i] = [saved[i] EXCEPT !.state = "RELEASED"]
        BY <1>4, <1>8, <2>1
    <2>4. /\ stored'[i] \in Schema /\ stored'[i].version = saved[i].version
          /\ stored'[i].of = saved[i].of /\ stored'[i].name = saved[i].name
          /\ stored'[i].lock = saved[i].lock /\ stored'[i].library = saved[i].library
          /\ stored'[i].state = "RELEASED"
        BY <1>4, <1>8, <2>3, ReleasedRow
    <2>5. New(u) = {}
        BY <1>10 DEF New
    <2>6. \A j \in DOMAIN stored :
             /\ stored'[j] \in Schema
             /\ stored'[j].version = stored[j].version /\ stored'[j].of = stored[j].of
             /\ stored'[j].name = stored[j].name
             /\ j \in u.held => stored'[j].lock = stored[j].lock + 1
             /\ j \notin u.held => stored'[j] = stored[j]
             /\ stored'[j].library = stored[j].library
             /\ stored'[j].state # stored[j].state => j = i /\ stored'[j].state = "RELEASED"
        <3> SUFFICES ASSUME NEW j \in DOMAIN stored
                     PROVE  /\ stored'[j] \in Schema
                            /\ stored'[j].version = stored[j].version
                            /\ stored'[j].of = stored[j].of /\ stored'[j].name = stored[j].name
                            /\ j \in u.held => stored'[j].lock = stored[j].lock + 1
                            /\ j \notin u.held => stored'[j] = stored[j]
                            /\ stored'[j].library = stored[j].library
                            /\ stored'[j].state # stored[j].state =>
                                  j = i /\ stored'[j].state = "RELEASED"
            OBVIOUS
        <3>1. CASE j = i
            BY <1>4, <1>5, <1>8, <2>4, <3>1
        <3>2. CASE j # i
            BY <1>8, <2>3, <3>2
        <3> QED BY <3>1, <3>2
    <2> HIDE DEF u
    <2>9. Saves(u, stored, stored')
        BY <1>10, <2>2, <2>3, <2>5, <2>6 DEF Saves
    <2> QED BY <2>9 DEF u
<1>11. CASE u.kind = "edit"
    <2>1. stored' = [saved EXCEPT ![i].library = ~@]
        BY <1>2, <1>11
    <2>2. stored[i].state = "ENTWURF"
        BY <1>1, <1>3, <1>6, <1>11 DEF Fits, Judged
    <2>3. /\ DOMAIN stored' = DOMAIN stored
          /\ \A j \in DOMAIN stored : j # i => stored'[j] = saved[j]
          /\ stored'[i] = [saved[i] EXCEPT !.library = ~@]
        BY <1>4, <1>8, <2>1
    <2>4. /\ stored'[i] \in Schema /\ stored'[i].version = saved[i].version
          /\ stored'[i].of = saved[i].of /\ stored'[i].name = saved[i].name
          /\ stored'[i].lock = saved[i].lock /\ stored'[i].state = saved[i].state
        BY <1>4, <1>8, <2>3, EditedRow
    <2>5. New(u) = {}
        BY <1>11 DEF New
    <2>6. \A j \in DOMAIN stored :
             /\ stored'[j] \in Schema
             /\ stored'[j].version = stored[j].version /\ stored'[j].of = stored[j].of
             /\ stored'[j].name = stored[j].name
             /\ j \in u.held => stored'[j].lock = stored[j].lock + 1
             /\ j \notin u.held => stored'[j] = stored[j]
             /\ stored'[j].library # stored[j].library => stored[j].state = "ENTWURF"
             /\ stored'[j].state = stored[j].state
        <3> SUFFICES ASSUME NEW j \in DOMAIN stored
                     PROVE  /\ stored'[j] \in Schema
                            /\ stored'[j].version = stored[j].version
                            /\ stored'[j].of = stored[j].of /\ stored'[j].name = stored[j].name
                            /\ j \in u.held => stored'[j].lock = stored[j].lock + 1
                            /\ j \notin u.held => stored'[j] = stored[j]
                            /\ stored'[j].library # stored[j].library => stored[j].state = "ENTWURF"
                            /\ stored'[j].state = stored[j].state
            OBVIOUS
        <3>1. CASE j = i
            BY <1>4, <1>5, <1>8, <2>2, <2>4, <3>1
        <3>2. CASE j # i
            BY <1>8, <2>3, <3>2
        <3> QED BY <3>1, <3>2
    <2> HIDE DEF u
    <2>9. Saves(u, stored, stored')
        BY <1>11, <2>3, <2>5, <2>6 DEF Saves
    <2> QED BY <2>9 DEF u
<1> QED BY <1>4, <1>9, <1>10, <1>11

(* Whoever has read a family behind its first version ...                  *)
LEMMA HereIsRoot ==
    ASSUME Sound(stored), NEW w, Fits(w), w.kind \in {"revise", "release"}, w.at \in Behind
    PROVE  /\ w.schema \in DOMAIN stored /\ w.here \in DOMAIN w.copy
           /\ FamilyRoot(stored, w.schema) = w.here
<1>1. w.schema \in DOMAIN stored
    BY DEF Fits, Asks, Behind
<1>2. /\ w.here \in DOMAIN w.copy /\ w.here \in Lineage(stored, w.schema)
      /\ IsRoot(stored, w.here)
    BY DEF Fits, Walked
<1> QED BY <1>1, <1>2, RootOf

(* ... is not disturbed by a commit that leaves the first version alone.   *)
LEMMA Elsewhere ==
    ASSUME Sound(stored), NEW u, Fits(u), At(u, "commit"), u.kind # "edit",
           Saves(u, stored, stored'),
           NEW w, Fits(w), w.kind \in {"revise", "release"}, w.at \in Behind, Same(w, w.here)'
    PROVE  FamilyRoot(stored, u.schema) # FamilyRoot(stored, w.schema)
<1>1. u.kind \in {"revise", "release"} /\ u.at \in Behind
    BY DEF Fits, Asks, At, Behind
<1>2. u.here \in u.held /\ u.here \in DOMAIN stored
    <2>1. u.here \in u.held \/ (u.kind = "release" /\ u.here = u.schema)
        BY <1>1 DEF Fits, Walked
    <2>2. u.kind = "release" => u.schema \in u.held
        BY DEF Fits, Holds, At
    <2>3. u.here \in DOMAIN u.copy
        BY <1>1 DEF Fits, Walked
    <2> QED BY <2>1, <2>2, <2>3 DEF Fits, Copied
<1>3. FamilyRoot(stored, u.schema) = u.here /\ FamilyRoot(stored, w.schema) = w.here
    BY <1>1, HereIsRoot
<1>4. w.here \in DOMAIN w.copy
    BY DEF Fits, Walked
<1> SUFFICES ASSUME u.here = w.here PROVE FALSE
    BY <1>3
<1>5. stored'[w.here].lock = w.copy[w.here].lock
    BY DEF Same
<1>6. stored'[w.here].lock = stored[w.here].lock + 1
    BY <1>2 DEF Saves
<1>7. w.copy[w.here].lock <= stored[w.here].lock
    BY <1>4 DEF Fits, Copied
<1>8. stored[w.here].lock \in Nat
    BY <1>2 DEF Sound, Versions, Schema
<1> QED BY <1>5, <1>6, <1>7, <1>8

(* What a commit leaves alone is still what it was.                        *)
LEMMA CopiesStay ==
    ASSUME Sound(stored), NEW u, Saves(u, stored, stored'), NEW w, Fits(w)
    PROVE  Copied(w)' /\ \A i \in DOMAIN w.copy : Same(w, i)' => Same(w, i) /\ i \notin u.held
<1> SUFFICES ASSUME NEW i \in DOMAIN w.copy
             PROVE  /\ i \in DOMAIN stored' /\ w.copy[i].lock <= stored'[i].lock
                    /\ w.copy[i].version = stored'[i].version /\ w.copy[i].of = stored'[i].of
                    /\ Same(w, i)' => /\ w.copy[i] = stored'[i]
                                      /\ Same(w, i) /\ i \notin u.held
    BY DEF Copied
<1>1. /\ i \in DOMAIN stored /\ w.copy[i].lock <= stored[i].lock
      /\ w.copy[i].version = stored[i].version /\ w.copy[i].of = stored[i].of
      /\ stored[i].lock = w.copy[i].lock => w.copy[i] = stored[i]
    BY DEF Fits, Copied, Same
<1>2. /\ i \in DOMAIN stored'
      /\ stored'[i].version = stored[i].version /\ stored'[i].of = stored[i].of
      /\ i \in u.held => stored'[i].lock = stored[i].lock + 1
      /\ i \notin u.held => stored'[i] = stored[i]
    BY <1>1 DEF Saves
<1>3. stored[i].lock \in Nat /\ w.copy[i].lock \in Nat
    BY <1>1 DEF Sound, Fits, Typed, Versions, Schema
<1>4. CASE i \in u.held
    <2> DEFINE a == stored[i].lock
               b == stored'[i].lock
               c == w.copy[i].lock
    <2>1. b = a + 1 /\ a \in Nat /\ c \in Nat /\ c <= a
        BY <1>1, <1>2, <1>3, <1>4
    <2>2. c <= b /\ b # c
        <3> HIDE DEF a, b, c
        <3> QED BY <2>1
    <2> QED BY <1>1, <1>2, <1>4, <2>2 DEF Same
<1>5. CASE i \notin u.held
    BY <1>1, <1>2, <1>5 DEF Same
<1> QED BY <1>4, <1>5

(* The other requests go on fitting what is stored.                        *)
LEMMA OthersFit ==
    ASSUME Sound(stored), NEW u, Fits(u), At(u, "commit"), Saves(u, stored, stored'),
           NEW w, Fits(w), u.held \cap w.held = {}, New(u) \subseteq u.held
    PROVE  Fits(w)'
<1>1. /\ u.schema \in DOMAIN stored /\ u.kind \in {"revise", "release", "edit"}
      /\ u.kind = "edit" => New(u) = {}
    BY DEF Fits, Asks, At, New
<1>2. /\ Sound(stored')
      /\ \A i \in DOMAIN stored : /\ Lineage(stored', i) = Lineage(stored, i)
                                  /\ FamilyRoot(stored', i) = FamilyRoot(stored, i)
                                  /\ IsRoot(stored, i) => IsRoot(stored', i)
      /\ \A i \in New(u) : FamilyRoot(stored', i) = FamilyRoot(stored, u.schema)
    BY <1>1, SavesSound
<1>3. /\ DOMAIN stored' = DOMAIN stored \cup New(u)
      /\ \A j \in DOMAIN stored :
            /\ stored'[j].version = stored[j].version /\ stored'[j].of = stored[j].of
            /\ j \notin u.held => stored'[j] = stored[j]
            /\ stored'[j].state # stored[j].state => u.kind = "release" /\ j = u.schema
      /\ \A j \in New(u) : stored'[j].state = "ENTWURF"
    BY DEF Saves
<1>4. Copied(w)' /\ \A i \in DOMAIN w.copy : Same(w, i)' => Same(w, i) /\ i \notin u.held
    BY CopiesStay
<1>5. Typed(w)'
    BY DEF Fits, Typed
<1>6. Asks(w)'
    BY <1>3 DEF Fits, Asks
<1>7. Holds(w)'
    <2>1. ASSUME NEW i \in w.held
          PROVE  \/ i \in DOMAIN w.copy /\ i \in DOMAIN stored' /\ Same(w, i)'
                 \/ w.at = "commit" /\ w.kind = "revise" /\ i = w.id /\ i \notin DOMAIN stored'
        <3>1. i \notin u.held /\ i \notin New(u)
            BY <2>1
        <3>2. CASE i \in DOMAIN w.copy /\ i \in DOMAIN stored /\ Same(w, i)
            BY <1>3, <3>1, <3>2 DEF Same
        <3>3. CASE w.at = "commit" /\ w.kind = "revise" /\ i = w.id /\ i \notin DOMAIN stored
            BY <1>3, <3>1, <3>3
        <3> QED BY <3>2, <3>3 DEF Fits, Holds
    <2>2. w.at = "commit" /\ w.kind = "revise" => w.id \notin DOMAIN stored'
        <3>1. w.at = "commit" /\ w.kind = "revise" => w.id \in w.held /\ w.id \notin DOMAIN stored
            BY DEF Fits, Holds
        <3> QED BY <1>3, <3>1
    <2> QED BY <2>1, <2>2 DEF Fits, Holds
<1>8. Walked(w)'
    <2>1. CASE /\ w.kind \in {"revise", "release"}
               /\ w.at \in {"claim schema", "walk", "claim root"} \cup Behind
        <3>1. w.schema \in DOMAIN stored /\ w.here \in DOMAIN stored
            BY <2>1, LineageGoesUp DEF Fits, Asks, Behind, Walked
        <3>2. Lineage(stored', w.schema) = Lineage(stored, w.schema)
            BY <1>2, <3>1
        <3>3. IsRoot(stored, w.here) => IsRoot(stored', w.here)
            BY <1>2, <3>1
        <3> QED BY <2>1, <3>2, <3>3 DEF Fits, Walked
    <2>2. CASE ~(/\ w.kind \in {"revise", "release"}
                 /\ w.at \in {"claim schema", "walk", "claim root"} \cup Behind)
        BY <2>2 DEF Walked
    <2> QED BY <2>1, <2>2
<1>9. ASSUME w.kind \in {"revise", "release"}, w.at \in Behind, Same(w, w.here)',
             NEW j \in Family(stored', w.schema)
      PROVE  /\ Same(w, w.here) /\ j \in Family(stored, w.schema)
             /\ stored'[j].version = stored[j].version /\ stored'[j].state = stored[j].state
    <2>1. w.schema \in DOMAIN stored /\ w.here \in DOMAIN w.copy
        BY <1>9, HereIsRoot
    <2>2. Same(w, w.here)
        BY <1>4, <1>9, <2>1
    <2>3. u.kind # "edit" => FamilyRoot(stored, u.schema) # FamilyRoot(stored, w.schema)
        BY <1>9, Elsewhere
    <2>4. j \in DOMAIN stored' /\ FamilyRoot(stored', j) = FamilyRoot(stored, w.schema)
        BY <1>2, <1>9, <2>1 DEF Family
    <2>5. j \notin New(u)
        BY <1>1, <1>2, <2>3, <2>4
    <2>6. j \in DOMAIN stored /\ FamilyRoot(stored, j) = FamilyRoot(stored, w.schema)
        BY <1>2, <1>3, <2>4, <2>5
    <2>7. j \in Family(stored, w.schema)
        BY <2>6 DEF Family
    <2>8. stored'[j].state = stored[j].state
        BY <1>3, <2>3, <2>6
    <2> QED BY <1>3, <2>2, <2>6, <2>7, <2>8
<1>10. Seen(w)'
    <2>1. /\ w.at \in Early \cup {"new", "ended"} => DOMAIN w.seen = {}
          /\ w.at = "decide" /\ w.kind = "edit" => DOMAIN w.seen = {}
        BY DEF Fits, Seen
    <2>2. ASSUME w.at \in {"read", "decide"}, w.kind # "edit"
          PROVE  LET D == DOMAIN w.seen \cup w.todo
                 IN  /\ w.at = "decide" => w.todo = {}
                     /\ D \subseteq DOMAIN stored' /\ w.schema \in D
                     /\ \A i \in D : stored'[i].of \in D \cup {None}
                     /\ \A i \in DOMAIN w.seen : /\ w.seen[i].version = stored'[i].version
                                                 /\ w.seen[i].of = stored'[i].of
                     /\ Same(w, w.here)' =>
                            \A j \in Family(stored', w.schema) :
                                j \in D /\ (j \in DOMAIN w.seen => w.seen[j].state = stored'[j].state)
        <3> DEFINE D == DOMAIN w.seen \cup w.todo
        <3>1. /\ w.at = "decide" => w.todo = {}
              /\ D \subseteq DOMAIN stored /\ w.schema \in D
              /\ \A i \in D : stored[i].of \in D \cup {None}
              /\ \A i \in DOMAIN w.seen : /\ w.seen[i].version = stored[i].version
                                          /\ w.seen[i].of = stored[i].of
              /\ Same(w, w.here) =>
                     \A j \in Family(stored, w.schema) :
                         j \in D /\ (j \in DOMAIN w.seen => w.seen[j].state = stored[j].state)
            BY <2>2 DEF Fits, Seen
        <3>2. w.kind \in {"revise", "release"} /\ w.at \in Behind
            BY <2>2 DEF Fits, Asks, Behind
        <3>3. ASSUME Same(w, w.here)', NEW j \in Family(stored', w.schema)
              PROVE  j \in D /\ (j \in DOMAIN w.seen => w.seen[j].state = stored'[j].state)
            BY <1>9, <3>1, <3>2, <3>3
        <3>4. \A i \in D : i \in DOMAIN stored /\ stored'[i].of = stored[i].of
                                               /\ stored'[i].version = stored[i].version
            BY <1>3, <3>1
        <3> HIDE DEF D
        <3>5. D \subseteq DOMAIN stored' /\ DOMAIN w.seen \subseteq D
            BY <1>3, <3>1 DEF D
        <3> QED BY <3>1, <3>3, <3>4, <3>5 DEF D
    <2> QED BY <2>1, <2>2 DEF Seen
<1>11. Judged(w)'
    <2>1. ASSUME w.kind = "revise", w.at \in {"draw", "claim id", "insert", "commit"},
                 NEW j \in Family(stored', w.schema)
          PROVE  stored'[j].version <= stored'[w.schema].version
        <3>1. w.at \in Behind /\ w.schema \in DOMAIN stored
            BY <2>1 DEF Behind, Fits, Asks
        <3>2. w.here \in w.held /\ w.here \in DOMAIN w.copy /\ w.here \in DOMAIN stored
            BY <2>1, <3>1 DEF Fits, Walked, Copied
        <3>3. Same(w, w.here)'
            <4>1. Same(w, w.here)
                BY <3>2 DEF Fits, Holds
            <4>2. stored'[w.here] = stored[w.here]
                BY <1>3, <3>2
            <4> QED BY <4>1, <4>2 DEF Same
        <3>4. j \in Family(stored, w.schema) /\ stored'[j].version = stored[j].version
            BY <1>9, <2>1, <3>1, <3>3
        <3>5. stored[j].version <= stored[w.schema].version
            BY <2>1, <3>4 DEF Fits, Judged
        <3>6. stored'[w.schema].version = stored[w.schema].version
            BY <1>3, <3>1
        <3> QED BY <3>4, <3>5, <3>6
    <2>2. ASSUME w.kind = "release", w.at \in {"save", "commit"}, Same(w, w.here)',
                 NEW j \in Siblings(stored', w.schema, OnceReleased) \ {w.schema}
          PROVE  stored'[j].version # stored'[w.schema].version
        <3>1. w.at \in Behind /\ w.schema \in DOMAIN stored
            BY <2>2 DEF Behind, Fits, Asks
        <3>2. j \in Family(stored', w.schema) /\ stored'[j].state \in OnceReleased /\ j # w.schema
            BY DEF Siblings
        <3>3. /\ Same(w, w.here) /\ j \in Family(stored, w.schema)
              /\ stored'[j].version = stored[j].version /\ stored'[j].state = stored[j].state
            BY <1>9, <2>2, <3>1, <3>2
        <3>4. j \in Siblings(stored, w.schema, OnceReleased) \ {w.schema}
            BY <3>2, <3>3 DEF Siblings
        <3>5. stored[j].version # stored[w.schema].version
            BY <2>2, <3>3, <3>4 DEF Fits, Judged
        <3>6. stored'[w.schema].version = stored[w.schema].version
            BY <1>3, <3>1
        <3> QED BY <3>3, <3>5, <3>6
    <2>3. /\ w.kind = "release" /\ w.at \in {"save", "commit"} => w.copy[w.schema].state \in OpenStates
          /\ w.kind = "edit" /\ w.at \in {"save", "commit"} => w.copy[w.schema].state = "ENTWURF"
        BY DEF Fits, Judged
    <2> QED BY <2>1, <2>2, <2>3 DEF Judged
<1> QED BY <1>4, <1>5, <1>6, <1>7, <1>8, <1>10, <1>11 DEF Fits

LEMMA EndedFitsAfter ==
    ASSUME NEW answer, NEW u, u = Ended(answer)
    PROVE  Fits(u)' /\ u.held = {}
<1>1. /\ DOMAIN u = Parts /\ u.at = "ended" /\ u.copy = Fresh.copy /\ u.seen = Fresh.seen
      /\ u.held = {} /\ u.todo = {} /\ u.here = None /\ u.id = None /\ u.claim = None
      /\ u.schema = None /\ u.named = None /\ u.next = 0 /\ u.attempt = 0
    BY DEF Ended, Fresh, Parts
<1>2. DOMAIN u.copy = {} /\ DOMAIN u.seen = {}
    BY <1>1 DEF Fresh
<1>3. Typed(u)'
    BY <1>1, <1>2, RevisionTypes DEF Typed, Versions, Places
<1>4. Asks(u)' /\ Copied(u)' /\ Holds(u)' /\ Walked(u)' /\ Seen(u)' /\ Judged(u)'
    BY <1>1, <1>2 DEF Asks, Copied, Holds, Walked, Seen, Judged, Early, Behind
<1> QED BY <1>1, <1>3, <1>4 DEF Fits

LEMMA CommitKeeps ==
    ASSUME IInv, NEW r \in Request, Commit(r)
    PROVE  IInv'
<1> DEFINE u == unit[r]
<1>1. /\ u.at = "commit" /\ claims' = claims \cup ({u.claim} \ {None})
      /\ unit' = [unit EXCEPT ![r] = Ended("done")]
    BY DEF Commit
<1>2. Fits(u) /\ Sound(stored) /\ Saves(u, stored, stored')
    BY CommitSaves DEF IInv
<1>3. /\ unit' = [q \in Request |-> unit'[q]] /\ unit'[r] = Ended("done")
      /\ \A q \in Request : q # r => unit'[q] = unit[q]
    BY <1>1 DEF IInv
<1>4. New(u) \subseteq u.held /\ u.schema \in DOMAIN stored
    BY <1>1, <1>2 DEF Fits, Holds, Asks, New
<1>5. Sound(stored')
    BY <1>2, <1>4, SavesSound
<1>6. Sound(stored)'
    BY <1>5
<1>7. (claims \subseteq Id)'
    BY <1>1, <1>2 DEF IInv, Fits, Typed
<1>8. ASSUME NEW q \in Request PROVE Fits(unit[q])'
    <2>1. CASE q = r
        <3>1. ASSUME NEW s, s = unit'[q] PROVE Fits(unit[q])'
            <4>1. s = Ended("done")
                BY <1>3, <2>1, <3>1
            <4>2. Fits(s)'
                BY <4>1, EndedFitsAfter
            <4> QED BY <3>1, <4>2, UnitFits
        <3> QED BY <3>1
    <2>2. CASE q # r
        <3>1. ASSUME NEW w, w = unit[q] PROVE Fits(unit[q])'
            <4>1. Fits(w) /\ w = unit'[q] /\ u.held \cap w.held = {}
                BY <1>3, <2>2, <3>1 DEF IInv, Apart
            <4>2. ASSUME NEW s, s = unit[r] PROVE Fits(w)'
                <5>1. /\ Fits(s) /\ At(s, "commit") /\ Saves(s, stored, stored')
                      /\ s.held \cap w.held = {} /\ New(s) \subseteq s.held
                    BY <1>1, <1>2, <1>4, <4>1, <4>2 DEF At
                <5> QED BY <1>2, <4>1, <5>1, OthersFit
            <4>3. Fits(w)'
                BY <4>2
            <4> QED BY <4>1, <4>3, UnitFits
        <3> QED BY <3>1
    <2> QED BY <2>1, <2>2
<1>9. Apart'
    <2>1. unit'[r].held = {}
        BY <1>3, EndedFits
    <2> QED BY <1>3, <2>1 DEF IInv, Apart
<1> QED BY <1>3, <1>6, <1>7, <1>8, <1>9 DEF IInv

-----------------------------------------------------------------------------
(***************************************************************************)
(* The specification.                                                      *)
(***************************************************************************)

(* Between its steps, a request fits what is stored: it knows the first    *)
(* version of the family it is about, it holds rows that are as it has     *)
(* read them, and as long as the first version is, what it has decided is  *)
(* right.  So it is after every step.                                      *)
LEMMA StepIInv == IInv /\ [Next]_vars => IInv'
<1> SUFFICES ASSUME IInv, [Next]_vars PROVE IInv'
    OBVIOUS
<1>1. CASE UNCHANGED vars
    <2>1. stored' = stored /\ claims' = claims /\ unit' = unit
        BY <1>1 DEF vars
    <2>2. Sound(stored)' /\ (claims \subseteq Id)' /\ Apart' /\ unit' = [r \in Request |-> unit'[r]]
        BY <2>1 DEF IInv, Sound, Versions, Parents, Rooted, IsRoot, Apart
    <2>3. ASSUME NEW q \in Request PROVE Fits(unit[q])'
        <3>1. ASSUME NEW s, s = unit'[q] PROVE Fits(unit[q])'
            <4>1. Fits(s)
                BY <2>1, <3>1 DEF IInv
            <4>2. Fits(s)'
                BY <2>1, <4>1, StoredStays
            <4> QED BY <3>1, <4>2, UnitFits
        <3> QED BY <3>1
    <2> QED BY <2>2, <2>3 DEF IInv
<1>2. ASSUME NEW r \in Request, Step(r) PROVE IInv'
    BY <1>2, ArriveKeeps, LoadKeeps, ClaimSchemaKeeps, WalkKeeps, ClaimRootKeeps, ListKeeps,
       ReadKeeps, DecideKeeps, DrawKeeps, ClaimIdKeeps, InsertKeeps, SaveKeeps, VictimKeeps,
       CommitKeeps DEF Step
<1> QED BY <1>1, <1>2 DEF Next, Finished

(* The stored families grew from first versions.                           *)
LEMMA InitIInv == Init => IInv
<1> SUFFICES ASSUME Init PROVE IInv
    OBVIOUS
<1>1. stored \in Families /\ claims = DOMAIN stored
    BY DEF Init
<1>2. /\ Versions(stored) /\ Parents(stored)
      /\ \A i \in DOMAIN stored : \E a \in Lineage(stored, i) : stored[a].of = None
    BY <1>1, FamiliesGrown DEF Parents
<1>3. Rooted(stored)
    BY <1>2, LineageGoesUp, RevisionTypes DEF Rooted, IsRoot, Known, Versions
<1>4. Sound(stored) /\ claims \subseteq Id
    BY <1>1, <1>2, <1>3, FamiliesGrown DEF Sound, Versions
<1> DEFINE first == [Fresh EXCEPT !.next = 1 + Cardinality(DOMAIN stored)]
<1>5. unit = [r \in Request |-> first]
    BY DEF Init
<1>6. /\ DOMAIN first = Parts /\ first.at = "new" /\ first.copy = Fresh.copy
      /\ first.seen = Fresh.seen
      /\ first.held = {} /\ first.todo = {} /\ first.here = None /\ first.id = None
      /\ first.claim = None /\ first.schema = None /\ first.named = None
      /\ first.next = 1 + Cardinality(DOMAIN stored) /\ first.attempt = 0
    BY DEF Fresh, Parts
<1> HIDE DEF first
<1>7. first.next \in Nat
    BY <1>1, <1>6, FamiliesGrown, FS_CardinalityType
<1>8. Fits(first)
    BY <1>6, <1>7, FreshFits, RevisionTypes
<1>9. Apart
    BY <1>5, <1>6 DEF Apart
<1> QED BY <1>4, <1>5, <1>8, <1>9 DEF IInv

(* Only a commit changes what is stored.                                   *)
LEMMA OnlyCommitStores ==
    ASSUME [Next]_vars, stored' # stored
    PROVE  \E r \in Request : Commit(r)
<1>1. ~UNCHANGED vars
    BY DEF vars
<1>2. PICK r \in Request : Step(r)
    BY <1>1 DEF Next, Finished
<1>3. \A u : ~Go(r, u)
    BY DEF Go
<1>4. ~Arrive(r) /\ ~Load(r) /\ ~Walk(r) /\ ~List(r)
    BY <1>3, Zenon DEF Arrive, Load, Walk, List
<1>5. ~Read(r) /\ ~Decide(r) /\ ~Draw(r) /\ ~ClaimId(r) /\ ~Insert(r) /\ ~Victim(r)
    BY <1>3, Zenon DEF Read, Decide, Draw, ClaimId, Insert, Victim
<1>6. ~ClaimSchema(r) /\ ~ClaimRoot(r) /\ ~Save(r)
    BY <1>3, Zenon DEF ClaimSchema, ClaimRoot, Save, Claim
<1> QED BY <1>2, <1>4, <1>5, <1>6 DEF Step

(* Two rows of the same content.                                           *)
LEMMA SameContent ==
    ASSUME NEW s \in Schema, NEW t \in Schema, s.version = t.version, s.of = t.of,
           s.state = t.state, s.name = t.name, s.library = t.library
    PROVE  [s EXCEPT !.lock = 1] = [t EXCEPT !.lock = 1]
<1> DEFINE F == {"version", "of", "state", "name", "library", "lock"}
           a == [s EXCEPT !.lock = 1]
           b == [t EXCEPT !.lock = 1]
<1>1. s = [f \in F |-> s[f]] /\ t = [f \in F |-> t[f]]
    BY DEF Schema
<1>2. /\ a = [f \in F |-> a[f]] /\ b = [f \in F |-> b[f]]
      /\ a.version = s.version /\ a.of = s.of /\ a.state = s.state /\ a.name = s.name
      /\ a.library = s.library /\ a.lock = 1
      /\ b.version = t.version /\ b.of = t.of /\ b.state = t.state /\ b.name = t.name
      /\ b.library = t.library /\ b.lock = 1
    BY <1>1
<1> HIDE DEF a, b
<1>3. \A f \in F : a[f] = b[f]
    BY <1>2
<1>4. a = b
    BY <1>2, <1>3
<1> QED BY <1>4 DEF a, b

(* A commit puts nothing in the place of what is stored.                   *)
LEMMA CommitReplacesNothing ==
    ASSUME IInv, NEW r \in Request, Commit(r), NEW i \in DOMAIN stored
    PROVE  /\ <<stored'[i].version, stored'[i].of>> = <<stored[i].version, stored[i].of>>
           /\ stored[i].state \in OnceReleased =>
                 [stored'[i] EXCEPT !.lock = 1] = [stored[i] EXCEPT !.lock = 1]
<1> DEFINE u == unit[r]
<1>1. Saves(u, stored, stored')
    BY CommitSaves
<1>2. /\ stored[i] \in Schema /\ stored'[i] \in Schema
      /\ stored'[i].version = stored[i].version /\ stored'[i].of = stored[i].of
      /\ stored'[i].name = stored[i].name
      /\ stored'[i].state # stored[i].state => stored[i].state \in OpenStates
      /\ stored'[i].library # stored[i].library => stored[i].state = "ENTWURF"
    BY <1>1 DEF Saves, IInv, Sound, Versions
<1>3. stored[i].state \in OnceReleased =>
          stored'[i].state = stored[i].state /\ stored'[i].library = stored[i].library
    BY <1>2 DEF OnceReleased, OpenStates
<1> QED BY <1>2, <1>3, SameContent

(* A commit releases one version of a number, and revises the newest one.  *)
LEMMA CommitGoesOneByOne ==
    ASSUME IInv, NEW r \in Request, Commit(r)
    PROVE  /\ \A i \in DOMAIN stored :
                 stored[i].state \in OpenStates /\ stored'[i].state = "RELEASED" => ~Clash(stored', i)
           /\ \A i \in DOMAIN stored' \ DOMAIN stored :
                 \A j \in Family(stored', i) \ {i} : stored'[j].version < stored'[i].version
<1> DEFINE u == unit[r]
<1>1. Fits(u) /\ u.at = "commit" /\ Sound(stored) /\ Saves(u, stored, stored')
    BY CommitSaves DEF IInv, Commit
<1>2. u.schema \in DOMAIN stored /\ u.schema \in DOMAIN u.copy
    BY <1>1 DEF Fits, Asks
<1>3. /\ \A i \in DOMAIN stored : FamilyRoot(stored', i) = FamilyRoot(stored, i)
      /\ \A i \in New(u) : FamilyRoot(stored', i) = FamilyRoot(stored, u.schema)
    BY <1>1, <1>2, SavesSound
<1>4. /\ DOMAIN stored' = DOMAIN stored \cup New(u)
      /\ \A j \in DOMAIN stored : stored'[j].version = stored[j].version
      /\ \A j \in DOMAIN stored : stored'[j].state # stored[j].state =>
             u.kind = "release" /\ j = u.schema
      /\ \A j \in New(u) : stored'[j].version = stored[u.schema].version + 1
    BY <1>1 DEF Saves
<1>5. ASSUME NEW i \in DOMAIN stored, stored[i].state \in OpenStates, stored'[i].state = "RELEASED",
             NEW j \in Siblings(stored', i, OnceReleased) \ {i}
      PROVE  stored'[j].version # stored'[i].version
    <2>1. u.kind = "release" /\ i = u.schema
        BY <1>4, <1>5 DEF OpenStates
    <2>2. u.schema \in u.held
        BY <1>1, <2>1 DEF Fits, Holds
    <2>3. u.here \in u.held /\ Same(u, u.here)
        <3>1. u.here \in u.held
            BY <1>1, <2>1, <2>2 DEF Fits, Walked, Behind
        <3> QED BY <1>1, <2>1, <3>1 DEF Fits, Holds
    <2>4. \A k \in Siblings(stored, u.schema, OnceReleased) \ {u.schema} :
              stored[k].version # stored[u.schema].version
        BY <1>1, <2>1, <2>3 DEF Fits, Judged
    <2>5. /\ j \in DOMAIN stored' /\ FamilyRoot(stored', j) = FamilyRoot(stored', i)
          /\ stored'[j].state \in OnceReleased /\ j # i
        BY DEF Siblings, Family
    <2>6. New(u) = {}
        BY <2>1 DEF New
    <2>7. j \in DOMAIN stored /\ FamilyRoot(stored, j) = FamilyRoot(stored, i)
        BY <1>3, <1>4, <2>5, <2>6
    <2>8. stored[j].state \in OnceReleased
        BY <1>4, <2>1, <2>5, <2>7
    <2>9. j \in Siblings(stored, u.schema, OnceReleased) \ {u.schema}
        BY <2>1, <2>5, <2>7, <2>8 DEF Siblings, Family
    <2> QED BY <1>4, <2>1, <2>4, <2>7, <2>9
<1>6. ASSUME NEW i \in DOMAIN stored' \ DOMAIN stored, NEW j \in Family(stored', i) \ {i}
      PROVE  stored'[j].version < stored'[i].version
    <2>1. i \in New(u) /\ u.kind = "revise" /\ New(u) = {i}
        BY <1>4 DEF New
    <2>2. j \in DOMAIN stored' /\ FamilyRoot(stored', j) = FamilyRoot(stored', i) /\ j # i
        BY DEF Family
    <2>3. j \in DOMAIN stored /\ FamilyRoot(stored, j) = FamilyRoot(stored, u.schema)
        BY <1>3, <1>4, <2>1, <2>2
    <2>4. \A k \in Family(stored, u.schema) : stored[k].version <= stored[u.schema].version
        BY <1>1, <2>1 DEF Fits, Judged
    <2>5. stored[j].version <= stored[u.schema].version
        BY <2>3, <2>4 DEF Family
    <2>6. stored[j].version \in Nat /\ stored[u.schema].version \in Nat
        BY <1>1, <1>2, <2>3 DEF Sound, Versions, Schema
    <2>7. stored'[j].version = stored[j].version /\ stored'[i].version = stored[u.schema].version + 1
        BY <1>4, <2>1, <2>3
    <2> QED BY <2>5, <2>6, <2>7
<1> QED BY <1>5, <1>6 DEF Clash

-----------------------------------------------------------------------------
(***************************************************************************)
(* The newest released version.                                            *)
(***************************************************************************)

(* Numbers that are finitely many have an upper bound.                     *)
LEMMA Bounded ==
    ASSUME NEW T, T \subseteq Nat, IsFiniteSet(T)
    PROVE  \E x \in Nat : \A y \in T : y <= x
<1> DEFINE Unbounded(S) == IsFiniteSet(S) /\ ~\E x \in Nat : \A y \in S : y <= x
           Bad == {n \in Nat : \E S \in SUBSET Nat : Unbounded(S) /\ Cardinality(S) = n}
<1>1. SUFFICES ASSUME Bad # {} PROVE FALSE
    <2>1. Cardinality(T) \in Nat
        BY FS_CardinalityType
    <2> QED BY <2>1
<1>2. PICK n \in Bad : \A m \in Bad : n <= m
    <2>1. Bad \subseteq Nat
        OBVIOUS
    <2> HIDE DEF Bad
    <2> QED BY <1>1, <2>1, Smallest
<1>3. PICK S \in SUBSET Nat : Unbounded(S) /\ Cardinality(S) = n
    BY <1>2
<1>4. PICK s \in S : TRUE
    BY <1>3
<1>5. IsFiniteSet(S \ {s}) /\ Cardinality(S \ {s}) = n - 1 /\ Cardinality(S \ {s}) \in Nat
    <2>1. IsFiniteSet(S) /\ Cardinality(S) = n
        BY <1>3
    <2>2. IsFiniteSet(S \ {s}) /\ Cardinality(S \ {s}) = Cardinality(S) - 1
        BY <1>4, <2>1, FS_RemoveElement
    <2> QED BY <2>1, <2>2, FS_CardinalityType
<1>6. n - 1 \notin Bad
    <2>1. n \in Nat /\ n - 1 \in Nat
        BY <1>2, <1>5
    <2>2. ~(n <= n - 1)
        BY <2>1
    <2> HIDE DEF Bad
    <2> QED BY <1>2, <2>2
<1>7. ~Unbounded(S \ {s})
    <2>1. S \ {s} \in SUBSET Nat
        BY <1>3
    <2> QED BY <1>5, <1>6, <2>1
<1>8. PICK x \in Nat : \A y \in S \ {s} : y <= x
    BY <1>5, <1>7
<1>9. s \in Nat /\ S \subseteq Nat
    BY <1>3, <1>4
<1>10. \A y \in S : y <= x + s
    <2> SUFFICES ASSUME NEW y \in S PROVE y <= x + s
        OBVIOUS
    <2>1. y \in Nat /\ (y = s \/ y <= x)
        BY <1>8, <1>9
    <2> QED BY <1>9, <2>1
<1>11. x + s \in Nat
    BY <1>9
<1> QED BY <1>3, <1>10, <1>11

(* They have a greatest one.                                               *)
LEMMA Greatest ==
    ASSUME NEW T, T \subseteq Nat, IsFiniteSet(T), T # {}
    PROVE  \E x \in T : \A y \in T : y <= x
<1>1. PICK b \in Nat : \A y \in T : y <= b
    BY Bounded
<1> DEFINE D == {d \in Nat : \E y \in T : d = b - y}
<1>2. D # {} /\ D \subseteq Nat
    <2>1. PICK y \in T : TRUE
        OBVIOUS
    <2>2. y \in Nat /\ y <= b
        BY <1>1, <2>1
    <2>3. b - y \in Nat
        BY <2>2
    <2> QED BY <2>1, <2>3
<1>3. PICK d \in D : \A e \in D : d <= e
    <2> HIDE DEF D
    <2> QED BY <1>2, Smallest
<1>4. PICK x \in T : d = b - x
    BY <1>3
<1>5. \A y \in T : y <= x
    <2> SUFFICES ASSUME NEW y \in T PROVE y <= x
        OBVIOUS
    <2>1. y \in Nat /\ y <= b /\ x \in Nat
        BY <1>1
    <2>2. b - y \in Nat
        BY <2>1
    <2>3. b - x <= b - y
        BY <1>3, <1>4, <2>2
    <2> QED BY <2>1, <2>3
<1> QED BY <1>5

\* A store whose lineages are recorded and whose numbers are released once.
InOrder(all) == \A i \in DOMAIN all : /\ all[i].version > 1 => all[i].of # None
                                      /\ all[i].state = "RELEASED" => ~Clash(all, i)

\* No released version of the family of i has a higher number.
IsNewest(all, i, t) ==
    LET released == Siblings(all, i, {"RELEASED"})
    IN  t \in released /\ \A u \in released : all[u].version <= all[t].version

(* A family with a released version has a newest one, and one only.        *)
LEMMA HasNewest ==
    ASSUME NEW all, Sound(all), NEW i \in DOMAIN all, all[i].state = "RELEASED"
    PROVE  \E t : IsNewest(all, i, t)
<1> DEFINE S == Siblings(all, i, {"RELEASED"})
           V == {all[u].version : u \in S}
<1>1. S \subseteq DOMAIN all /\ i \in S
    BY DEF Siblings, Family
<1>2. \A u \in S : all[u].version \in Nat
    BY <1>1 DEF Sound, Versions, Schema
<1>3. IsFiniteSet(S)
    BY <1>1, FS_Subset DEF Sound
<1>4. IsFiniteSet(V)
    <2> DEFINE f == [u \in S |-> all[u].version]
    <2>1. f \in Surjection(S, V)
        BY DEF Surjection
    <2> HIDE DEF S, V, f
    <2> QED BY <1>3, <2>1, FS_Surjection
<1>5. V \subseteq Nat /\ V # {}
    BY <1>1, <1>2
<1>6. PICK x \in V : \A y \in V : y <= x
    <2> HIDE DEF V
    <2> QED BY <1>4, <1>5, Greatest
<1>7. PICK t \in S : all[t].version = x
    BY <1>6
<1>8. IsNewest(all, i, t)
    BY <1>6, <1>7 DEF IsNewest
<1> QED BY <1>8

LEMMA OneNewest ==
    ASSUME NEW all, Sound(all), InOrder(all), NEW i \in DOMAIN all,
           NEW t, IsNewest(all, i, t), NEW u, IsNewest(all, i, u)
    PROVE  t = u
<1>1. /\ t \in DOMAIN all /\ u \in DOMAIN all
      /\ FamilyRoot(all, t) = FamilyRoot(all, i) /\ FamilyRoot(all, u) = FamilyRoot(all, i)
      /\ all[t].state = "RELEASED" /\ all[u].state = "RELEASED"
      /\ all[u].version <= all[t].version /\ all[t].version <= all[u].version
    BY DEF IsNewest, Siblings, Family
<1>2. all[t].version = all[u].version
    <2>1. all[t].version \in Nat /\ all[u].version \in Nat
        BY <1>1 DEF Sound, Versions, Schema
    <2> QED BY <1>1, <2>1
<1>3. ~Clash(all, t)
    BY <1>1 DEF InOrder
<1>4. u \in Siblings(all, t, OnceReleased)
    BY <1>1 DEF Siblings, Family, OnceReleased
<1> QED BY <1>2, <1>3, <1>4 DEF Clash

(* Where lineages are recorded, the cases of a version move to those that  *)
(* come from it.                                                           *)
LEMMA OnlyDescendants ==
    ASSUME NEW all, Sound(all), InOrder(all), NEW t \in DOMAIN all
    PROVE  PredecessorIds(all, t) = Lineage(all, t) \ {t}
<1>1. FamilyRoot(all, t) \in DOMAIN all
    BY RootIsRoot DEF Sound
<1>2. ~(all[FamilyRoot(all, t)].of = None /\ all[FamilyRoot(all, t)].version > 1)
    BY <1>1 DEF InOrder
<1> QED BY <1>2 DEF PredecessorIds

(* A version the newest one comes from is followed by it and no other.     *)
LEMMA NewestLeads ==
    ASSUME NEW all, Sound(all), InOrder(all), NEW i \in DOMAIN all, all[i].state = "RELEASED",
           NEW t, IsNewest(all, i, t), i # t, i \in Lineage(all, t)
    PROVE  LatestSuccessor(all, i) = t /\ i \notin SubprocessLibrary(all)
<1> DEFINE S == Successors(all, i)
<1>1. t \in DOMAIN all /\ all[t].state = "RELEASED"
    BY DEF IsNewest, Siblings, Family
<1>2. t \in S
    BY <1>1, OnlyDescendants DEF Successors
<1>3. \A u \in S : u \in Siblings(all, i, {"RELEASED"})
    <2> SUFFICES ASSUME NEW u \in S PROVE u \in Siblings(all, i, {"RELEASED"})
        OBVIOUS
    <2>1. u \in DOMAIN all /\ all[u].state = "RELEASED" /\ i \in PredecessorIds(all, u)
        BY DEF Successors
    <2>2. i \in Lineage(all, u)
        BY <2>1, OnlyDescendants
    <2>3. FamilyRoot(all, i) = FamilyRoot(all, u)
        BY <2>1, <2>2, RootOfAncestor DEF Sound
    <2> QED BY <2>1, <2>3 DEF Siblings, Family
<1>4. \A u \in S : all[u].version <= all[t].version
    BY <1>3 DEF IsNewest
<1>5. ASSUME NEW s \in S, \A u \in S : all[u].version <= all[s].version PROVE s = t
    <2>1. s \in Siblings(all, i, {"RELEASED"}) /\ all[t].version <= all[s].version
        BY <1>2, <1>3, <1>5
    <2>2. s \in DOMAIN all /\ all[s].version \in Nat /\ all[t].version \in Nat
        BY <1>1, <2>1 DEF Siblings, Family, Sound, Versions, Schema
    <2>3. \A u \in Siblings(all, i, {"RELEASED"}) : all[u].version \in Nat
        BY DEF Siblings, Family, Sound, Versions, Schema
    <2>4. IsNewest(all, i, s)
        BY <2>1, <2>2, <2>3 DEF IsNewest
    <2> QED BY <2>4, OneNewest
<1>6. LatestSuccessor(all, i) = t
    <2> HIDE DEF S
    <2>1. S # {} /\ (CHOOSE s \in S : \A u \in S : all[u].version <= all[s].version) = t
        BY <1>2, <1>4, <1>5
    <2> QED BY <2>1 DEF LatestSuccessor, S
<1>7. i \in SupersededByRelease(all)
    BY <1>1 DEF SupersededByRelease
<1> QED BY <1>6, <1>7 DEF SubprocessLibrary

(***************************************************************************)
(* The invariant: every request fits what is stored.                       *)
(***************************************************************************)
THEOREM Invariant == Spec => []IInv
<1>1. Init => IInv
    BY InitIInv
<1>2. IInv /\ [Next]_vars => IInv'
    BY StepIInv
<1> QED BY <1>1, <1>2, PTL DEF Spec

(* A family goes from one released version to the next one at a time: of   *)
(* two releases of one number one is refused, and a revision has the       *)
(* highest number of its family when it is stored (operations.new_revision *)
(* and release, judged behind the claim of _claim_family).                 *)
THEOREM OneByOne == Spec => VersionsOneByOne
<1> DEFINE A == /\ \A i \in DOMAIN stored :
                      stored[i].state \in OpenStates /\ stored'[i].state = "RELEASED" =>
                          ~Clash(stored', i)
                /\ \A i \in DOMAIN stored' \ DOMAIN stored :
                      \A j \in Family(stored', i) \ {i} : stored'[j].version < stored'[i].version
<1>1. IInv /\ [Next]_vars => [A]_vars
    <2> SUFFICES ASSUME IInv, [Next]_vars PROVE A
        OBVIOUS
    <2>1. CASE stored' = stored
        BY <2>1 DEF OpenStates
    <2>2. CASE stored' # stored
        BY <2>2, OnlyCommitStores, CommitGoesOneByOne
    <2> QED BY <2>1, <2>2
<1> QED BY <1>1, Invariant, PTL DEF Spec, VersionsOneByOne

(* What is stored keeps its number and its place in the lineage, and what  *)
(* was released keeps all its content, whatever is saved beside it         *)
(* (_require_draft, the conditional save, IdSequence.new).                 *)
THEOREM NothingReplaced == Spec => NothingIsReplaced
<1> DEFINE A == \A i \in DOMAIN stored :
                   /\ <<stored'[i].version, stored'[i].of>> = <<stored[i].version, stored[i].of>>
                   /\ stored[i].state \in OnceReleased =>
                         [stored'[i] EXCEPT !.lock = 1] = [stored[i] EXCEPT !.lock = 1]
<1>1. IInv /\ [Next]_vars => [A]_vars
    <2> SUFFICES ASSUME IInv, [Next]_vars PROVE A
        OBVIOUS
    <2>1. CASE stored' = stored
        BY <2>1
    <2>2. CASE stored' # stored
        BY <2>2, OnlyCommitStores, CommitReplacesNothing
    <2> QED BY <2>1, <2>2
<1> QED BY <1>1, Invariant, PTL DEF Spec, NothingIsReplaced

(* The types, and: cases are led to the newest released version of their   *)
(* family, and that version alone decides what the library offers of it    *)
(* (lifecycle.latest_successor, library's superseded_by_release).          *)
THEOREM NewestLeadsAndDecides == Spec => []NewestDecides
<1>1. IInv => TypeOK
    <2>1. DOMAIN Fresh = Parts
        BY DEF Fresh, Parts
    <2> QED BY <2>1 DEF IInv, Sound, Fits, Typed, TypeOK
<1>2. ASSUME IInv, Orderly, NEW i \in DOMAIN stored, stored[i].state = "RELEASED"
      PROVE  LET released == Siblings(stored, i, {"RELEASED"})
                 newest   == CHOOSE t \in released : \A u \in released :
                                 stored[u].version <= stored[t].version
             IN  /\ i # newest /\ i \in Lineage(stored, newest) => LatestSuccessor(stored, i) = newest
                 /\ i \in SubprocessLibrary(stored) /\ i \in Lineage(stored, newest) => i = newest
    <2> DEFINE newest == CHOOSE t \in Siblings(stored, i, {"RELEASED"}) :
                            \A u \in Siblings(stored, i, {"RELEASED"}) :
                                stored[u].version <= stored[t].version
    <2>1. Sound(stored) /\ InOrder(stored)
        BY <1>2 DEF IInv, Orderly, InOrder
    <2>2. IsNewest(stored, i, newest)
        BY <1>2, <2>1, HasNewest DEF IsNewest
    <2> HIDE DEF newest
    <2>3. i # newest /\ i \in Lineage(stored, newest) =>
              LatestSuccessor(stored, i) = newest /\ i \notin SubprocessLibrary(stored)
        BY <1>2, <2>1, <2>2, NewestLeads
    <2> QED BY <2>3 DEF newest
<1>3. IInv => NewestDecides
    BY <1>1, <1>2 DEF NewestDecides
<1> QED BY <1>3, Invariant, PTL
=============================================================================
