--------------------------- MODULE CaseTreeProofs ---------------------------
(***************************************************************************)
(* Proofs about CaseTree: the tree of cases holds together (TreeSound),    *)
(* for every schema the rules release, every depth of calls and every      *)
(* ad-hoc change.                                                          *)
(*                                                                         *)
(* The engine keeps each case in one place: its front, with everything     *)
(* before it done -- or passed, when the case was advanced along its base  *)
(* schema -- and nothing begun behind it.  Between the cases, a node that  *)
(* is RUNNING and the running child it waits for know each other, but for  *)
(* the children the advance in flight has just created and the one it has  *)
(* just ended.  Both parts need each other: that the join of a child meets *)
(* its parent at the very node it waits at is what the front says, and     *)
(* that nobody else moves the front meanwhile is what the stack says.      *)
(***************************************************************************)
EXTENDS CaseTree, FiniteSetTheorems, SequenceTheorems, TLAPS

-----------------------------------------------------------------------------
(***************************************************************************)
(* The inductive invariant.                                                *)
(***************************************************************************)

\* m stands before n on the path.
Before(path, m, n) == \E i, j \in 1..Len(path) : i < j /\ path[i] = m /\ path[j] = n

LoopTypes     == {"LOOP_START", "LOOP_END"}
HasLoop(path) == \E n \in Nodes(path) : TypeOf[n] \in LoopTypes

\* No ad-hoc change has added a step to a case that has a loop.  See TreeHoldsTogether.
LoopsKeepTheirSteps ==
    \A c \in CaseId : cases[c].state # "ABSENT" /\ HasLoop(cases[c].path)
        => Nodes(cases[c].path) \cap Inserted = {}

\* What every chain is (ChainsKeepTheRules) and an ad-hoc change leaves so.
Regular(path) ==
    /\ Len(path) > 1
    /\ \A i, j \in 1..Len(path) : path[i] = path[j] => i = j
    /\ \A i \in 1..Len(path) :
           /\ TypeOf[path[i]] = "START" <=> i = 1
           /\ TypeOf[path[i]] = "END" <=> i = Len(path)
           /\ TypeOf[path[i]] = "LOOP_END" =>
                  \E j \in 1..Len(path) : j < i /\ TypeOf[path[j]] = "LOOP_START"
    /\ \A i, j \in 1..Len(path) :
           TypeOf[path[i]] = TypeOf[path[j]] /\ TypeOf[path[i]] \in LoopTypes => i = j

\* A path that ad-hoc changes made of the chain: its nodes are in the order of the chain,
\* and when it has a loop it is the chain or lacks one of its nodes.
Varies(path, chain) ==
    /\ Nodes(path) \subseteq Nodes(chain) \cup Inserted
    /\ \A m, n \in Nodes(path) : <<m, n>> \in Edges(chain) => Before(path, m, n)
    /\ HasLoop(path) => path = chain \/ ~(Nodes(chain) \subseteq Nodes(path))

\* A case that exists, whatever it is doing.
Shape(r) ==
    /\ Regular(r.path) /\ Varies(r.path, Chain[r.schema])
    /\ \A n \in Node : r.ns[n] = "none" <=> n \notin Nodes(r.path)
    /\ r.dropped \cap Edges(r.path) = {}
    /\ \A n \in Node :
           /\ r.child[n] # NoCase => TypeOf[n] = "SUBPROCESS" /\ r.ns[n] \in {"RUNNING", "COMPLETED"}
           /\ r.ns[n] = "RUNNING" => r.child[n] # NoCase

\* The engine can follow `using' through a case with that path.
Along(path, using) ==
    /\ Nodes(using) \subseteq Nodes(path)
    /\ \A m, n \in Node : <<m, n>> \in Edges(using) => Before(path, m, n)
    /\ \A n \in Nodes(using) : TypeOf[n] # "END" => \E m \in Node : <<n, m>> \in Edges(using)
    /\ \A n, l, m \in Node : <<n, l>> \in Edges(using) /\ <<n, m>> \in Edges(using) => l = m
    /\ HasLoop(path) => using = path

\* f is how far the case has come.  An advance along the base schema may pass nodes of
\* the variant: they stay NOT_ACTIVATED behind it.
Front(r, f) ==
    LET P == r.path IN
    /\ f \in Nodes(P)
    /\ \A n \in Nodes(P) : /\ Before(P, f, n) => r.ns[n] = "NOT_ACTIVATED"
                           /\ Before(P, n, f) => r.ns[n] \in {"NOT_ACTIVATED", "COMPLETED"}
    /\ \A m, n \in Node : <<m, n>> \in r.signaled =>
           /\ Before(P, m, n) /\ r.ns[m] = "COMPLETED"
           /\ n = f \/ (Before(P, n, f) /\ r.ns[n] = "COMPLETED")
    /\ HasLoop(P) =>
           /\ r.signaled \subseteq Edges(P)
           /\ \A m, n \in Node : <<m, n>> \in Edges(P) /\ Before(P, m, f) =>
                  r.ns[m] = "COMPLETED" /\ <<m, n>> \in r.signaled

\* At f the case waits for a person or for a child, or has ended; the engine has work
\* at f.
Rests(r, f) ==
    \/ /\ r.state = "RUNNING"
       /\ \/ r.ns[f] = "ACTIVATED" /\ TypeOf[f] = "ACTIVITY"
          \/ r.ns[f] = "RUNNING"
    \/ r.state = "COMPLETED" /\ TypeOf[f] = "END" /\ r.ns[f] = "COMPLETED"

Moves(r, f, using) ==
    /\ r.state = "RUNNING"
    /\ \/ r.ns[f] = "ACTIVATED" /\ f \in Nodes(using)
       \/ /\ r.ns[f] = "NOT_ACTIVATED"
          /\ \E m \in Node : <<m, f>> \in Edges(using) /\ <<m, f>> \in r.signaled

AtRest(r)           == Shape(r) /\ \E f \in Node : Front(r, f) /\ Rests(r, f)
InAdvance(r, using) == Shape(r) /\ \E f \in Node : Front(r, f) /\ (Rests(r, f) \/ Moves(r, f, using))

\* The advance of the case is inside _handle_subprocess of n.
Spawning(r, n, using) ==
    /\ Shape(r) /\ Front(r, n) /\ r.state = "RUNNING" /\ r.ns[n] = "ACTIVATED"
    /\ n \in Nodes(using) /\ TypeOf[n] = "SUBPROCESS"

OnStack(c, stk) == \E i \in 1..Len(stk) : stk[i].case = c
Fresh(c, stk)   == \E i \in 2..Len(stk) : stk[i].case = c

Linked(w, k) ==
    /\ w[w[k].parent].child[w[k].pnode] = k
    /\ w[w[k].parent].ns[w[k].pnode] = "RUNNING"

\* Parents and children know each other.
Family(w) ==
    /\ \A c \in CaseId, n \in Node :
           w[c].state = "ABSENT" => w[c].child[n] = NoCase /\ w[c].ns[n] # "RUNNING"
    /\ \A c \in CaseId : w[c].state # "ABSENT" =>
           IF c = Root THEN w[c].parent = NoCase
           ELSE /\ w[c].parent \in CaseId /\ w[w[c].parent].state # "ABSENT"
                /\ w[c].pnode \in Nodes(w[w[c].parent].path) /\ TypeOf[w[c].pnode] = "SUBPROCESS"
    /\ \A c \in CaseId, n \in Node : w[c].child[n] # NoCase =>
           LET k == w[c].child[n]
           IN  w[k].state # "ABSENT" /\ w[k].parent = c /\ w[k].pnode = n /\ k # Root

\* A waiting node waits for a case that runs, or that the advance in flight has ended;
\* a running case is waited for, unless the advance in flight has just created it.
Waiting(w, stk) ==
    /\ \A c \in CaseId, n \in Node : w[c].ns[n] = "RUNNING" =>
           \/ w[w[c].child[n]].state = "RUNNING"
           \/ Len(stk) = 1 /\ w[c].child[n] = stk[1].case
    /\ \A k \in CaseId \ {Root} :
           w[k].state = "RUNNING" \/ (stk # <<>> /\ k = stk[1].case)
               => Fresh(k, stk) \/ Linked(w, k)

\* The advances in flight: each but the outermost is that of a child being spawned.
Advances(w, stk) ==
    \A i \in 1..Len(stk) :
        /\ w[stk[i].case].state # "ABSENT"
        /\ Along(w[stk[i].case].path, stk[i].using)
        /\ \A j \in 1..Len(stk) : stk[i].case = stk[j].case => i = j
        /\ i > 1 => /\ stk[i].case # Root /\ w[stk[i].case].parent = stk[i - 1].case
                    /\ Spawning(w[stk[i - 1].case], w[stk[i].case].pnode, stk[i - 1].using)
        /\ i = Len(stk) => InAdvance(w[stk[i].case], stk[i].using)

Tree(w, stk) ==
    /\ Family(w) /\ Waiting(w, stk) /\ Advances(w, stk)
    /\ \A c \in CaseId : w[c].state # "ABSENT" /\ ~OnStack(c, stk) => AtRest(w[c])

\* When the engine is about to fail on a marking (Unmarked), the copy is lost anyway.
IInv ==
    /\ Tree(cases, <<>>)
    /\ ~Busy => work = cases
    /\ walk # NoCase => stack = <<>>
    /\ stack # <<>> => origin # NoCase
    /\ Tree(work, stack) \/ (stack # <<>> /\ Unmarked)

-----------------------------------------------------------------------------
(***************************************************************************)
(* Paths: what an insertion and a deletion make of them.                   *)
(***************************************************************************)

Concatenation(q, s, t) ==
    /\ q \in Seq(Node) /\ Len(q) = Len(s) + Len(t)
    /\ \A k \in 1..(Len(s) + Len(t)) : q[k] = IF k <= Len(s) THEN s[k] ELSE t[k - Len(s)]

\* Where the elements of two joined sequences stand.
LEMMA Concatenated ==
    ASSUME NEW s \in Seq(Node), NEW t \in Seq(Node)
    PROVE  Concatenation(s \o t, s, t)
<1>1. s \o t \in Seq(Node)
  BY ConcatProperties
<1>2. Len(s \o t) = Len(s) + Len(t)
  BY ConcatProperties
<1>3. \A k \in 1..(Len(s) + Len(t)) : (s \o t)[k] = IF k <= Len(s) THEN s[k] ELSE t[k - Len(s)]
  BY ConcatProperties, Zenon
<1> QED BY <1>1, <1>2, <1>3 DEF Concatenation

\* x stands behind position i of path; position i of path is taken out: where the nodes
\* of one path stand in the other.
Inserts(q, path, i, x) ==
    /\ q \in Seq(Node) /\ Len(q) = Len(path) + 1 /\ Len(path) \in Nat
    /\ q[i + 1] = x
    /\ \A k \in 1..Len(q) :
           \/ k = i + 1
           \/ k <= i /\ k \in 1..Len(path) /\ q[k] = path[k]
           \/ k > i + 1 /\ k - 1 \in 1..Len(path) /\ q[k] = path[k - 1]
    /\ \A k \in 1..Len(path) : IF k <= i THEN q[k] = path[k] ELSE q[k + 1] = path[k]

Deletes(q, path, i) ==
    /\ q \in Seq(Node) /\ Len(q) = Len(path) - 1 /\ Len(path) \in Nat
    /\ \A k \in 1..Len(q) :
           /\ k \in 1..Len(path) /\ k + 1 \in 1..Len(path)
           /\ IF k < i THEN q[k] = path[k] ELSE q[k] = path[k + 1]
    /\ \A k \in 1..Len(path) : /\ k < i => q[k] = path[k]
                               /\ k > i => q[k - 1] = path[k]

\* Putting x behind position i moves what stands behind it by one.
LEMMA InsertedPath ==
    ASSUME NEW path \in Seq(Node), NEW x \in Node, NEW i \in 1..(Len(path) - 1),
           NEW q, q = SubSeq(path, 1, i) \o <<x>> \o SubSeq(path, i + 1, Len(path))
    PROVE  Inserts(q, path, i, x)
<1> DEFINE before == SubSeq(path, 1, i)
           after  == SubSeq(path, i + 1, Len(path))
<1>1. /\ before \in Seq(Node) /\ Len(before) = i
      /\ \A k \in 1..i : before[k] = path[k]
  <2>1. \A k \in 1..i : path[k] \in Node
    BY LenProperties
  <2> QED BY <2>1, SubSeqProperties, LenProperties
<1>2. /\ after \in Seq(Node) /\ Len(after) = Len(path) - i
      /\ \A k \in 1..(Len(path) - i) : after[k] = path[k + i]
  <2>1. \A k \in (i + 1)..Len(path) : path[k] \in Node
    BY LenProperties
  <2>2. /\ after \in Seq(Node)
        /\ Len(after) = IF i + 1 <= Len(path) THEN Len(path) - (i + 1) + 1 ELSE 0
        /\ \A k \in 1..(Len(path) - (i + 1) + 1) : after[k] = path[(i + 1) + k - 1]
    BY <2>1, SubSeqProperties, LenProperties
  <2> QED BY <2>2, LenProperties
<1> HIDE DEF before, after
<1>3. /\ before \o <<x>> \in Seq(Node) /\ Len(before \o <<x>>) = i + 1
      /\ \A k \in 1..i : (before \o <<x>>)[k] = path[k]
      /\ (before \o <<x>>)[i + 1] = x
  <2>1. <<x>> \in Seq(Node) /\ Len(<<x>>) = 1 /\ <<x>>[1] = x
    OBVIOUS
  <2> QED BY <1>1, <2>1, ConcatProperties
<1>4. /\ q = (before \o <<x>>) \o after
      /\ q \in Seq(Node) /\ Len(q) = (i + 1) + (Len(path) - i)
      /\ \A k \in 1..((i + 1) + (Len(path) - i)) :
             q[k] = IF k <= i + 1 THEN (before \o <<x>>)[k] ELSE after[k - (i + 1)]
  <2>1. q = (before \o <<x>>) \o after
    BY DEF before, after
  <2>2. Concatenation(q, before \o <<x>>, after)
    BY <2>1, <1>2, <1>3, Concatenated
  <2> QED BY <2>1, <2>2, <1>2, <1>3 DEF Concatenation
<1>5. \A k \in (i + 1)..Len(path) : q[k + 1] = path[k]
  <2> TAKE k \in (i + 1)..Len(path)
  <2>1. q[k + 1] = after[(k + 1) - (i + 1)]
    <3>1. k + 1 \in 1..((i + 1) + (Len(path) - i)) /\ ~(k + 1 <= i + 1)
      BY LenProperties
    <3> QED BY <3>1, <1>4, Zenon
  <2>2. (k + 1) - (i + 1) = k - i /\ k - i \in 1..(Len(path) - i)
    BY LenProperties
  <2> QED BY <1>2, <2>1, <2>2
<1>6. /\ q \in Seq(Node) /\ Len(q) = Len(path) + 1 /\ Len(path) \in Nat
      /\ \A k \in 1..i : q[k] = path[k]
      /\ q[i + 1] = x
  <2>1. ASSUME NEW k \in 1..(i + 1) PROVE q[k] = (before \o <<x>>)[k]
    <3>1. k \in 1..((i + 1) + (Len(path) - i)) /\ k <= i + 1
      BY LenProperties
    <3> QED BY <3>1, <1>4, Zenon
  <2>2. i + 1 \in 1..(i + 1) /\ \A k \in 1..i : k \in 1..(i + 1)
    OBVIOUS
  <2>3. Len(path) \in Nat /\ Len(q) = Len(path) + 1
    BY <1>4, LenProperties
  <2> QED BY <2>1, <2>2, <2>3, <1>3, <1>4
<1>7. ASSUME NEW k \in 1..Len(q)
      PROVE  \/ k = i + 1
             \/ k <= i /\ k \in 1..Len(path) /\ q[k] = path[k]
             \/ k > i + 1 /\ k - 1 \in 1..Len(path) /\ q[k] = path[k - 1]
  <2>1. CASE k <= i
    BY <2>1, <1>6
  <2>2. CASE k > i + 1
    <3>1. k - 1 \in (i + 1)..Len(path) /\ (k - 1) + 1 = k
      BY <2>2, <1>6
    <3>2. q[(k - 1) + 1] = path[k - 1]
      BY <3>1, <1>5
    <3> QED BY <3>1, <3>2, <2>2, <1>6
  <2> QED BY <2>1, <2>2, <1>6
<1>8. ASSUME NEW k \in 1..Len(path)
      PROVE  IF k <= i THEN q[k] = path[k] ELSE q[k + 1] = path[k]
  <2>1. CASE k <= i
    BY <2>1, <1>6
  <2>2. CASE ~(k <= i)
    <3>1. k \in (i + 1)..Len(path)
      BY <2>2, <1>6
    <3> QED BY <3>1, <2>2, <1>5
  <2> QED BY <2>1, <2>2
<1> QED BY <1>6, <1>7, <1>8 DEF Inserts

\* Taking position i out moves what stands behind it back by one.
LEMMA DeletedPath ==
    ASSUME NEW path \in Seq(Node), NEW i \in 2..(Len(path) - 1),
           NEW q, q = SubSeq(path, 1, i - 1) \o SubSeq(path, i + 1, Len(path))
    PROVE  Deletes(q, path, i)
<1> DEFINE before == SubSeq(path, 1, i - 1)
           after  == SubSeq(path, i + 1, Len(path))
<1>1. /\ before \in Seq(Node) /\ Len(before) = i - 1
      /\ \A k \in 1..(i - 1) : before[k] = path[k]
  <2>1. \A k \in 1..(i - 1) : path[k] \in Node
    BY LenProperties
  <2>2. /\ before \in Seq(Node)
        /\ Len(before) = IF 1 <= i - 1 THEN (i - 1) - 1 + 1 ELSE 0
        /\ \A k \in 1..((i - 1) - 1 + 1) : before[k] = path[1 + k - 1]
    BY <2>1, SubSeqProperties, LenProperties
  <2> QED BY <2>2, LenProperties
<1>2. /\ after \in Seq(Node) /\ Len(after) = Len(path) - i
      /\ \A k \in 1..(Len(path) - i) : after[k] = path[k + i]
  <2>1. \A k \in (i + 1)..Len(path) : path[k] \in Node
    BY LenProperties
  <2>2. /\ after \in Seq(Node)
        /\ Len(after) = IF i + 1 <= Len(path) THEN Len(path) - (i + 1) + 1 ELSE 0
        /\ \A k \in 1..(Len(path) - (i + 1) + 1) : after[k] = path[(i + 1) + k - 1]
    BY <2>1, SubSeqProperties, LenProperties
  <2> QED BY <2>2, LenProperties
<1> HIDE DEF before, after
<1>3. /\ q = before \o after
      /\ q \in Seq(Node) /\ Len(q) = (i - 1) + (Len(path) - i)
      /\ \A k \in 1..((i - 1) + (Len(path) - i)) :
             q[k] = IF k <= i - 1 THEN before[k] ELSE after[k - (i - 1)]
  <2>1. q = before \o after
    BY DEF before, after
  <2>2. Concatenation(q, before, after)
    BY <2>1, <1>1, <1>2, Concatenated
  <2> QED BY <2>1, <2>2, <1>1, <1>2 DEF Concatenation
<1>4. \A k \in i..(Len(path) - 1) : q[k] = path[k + 1]
  <2> TAKE k \in i..(Len(path) - 1)
  <2>1. q[k] = after[k - (i - 1)]
    <3>1. k \in 1..((i - 1) + (Len(path) - i)) /\ ~(k <= i - 1)
      BY LenProperties
    <3> QED BY <3>1, <1>3, Zenon
  <2>2. k - (i - 1) \in 1..(Len(path) - i) /\ (k - (i - 1)) + i = k + 1
    BY LenProperties
  <2> QED BY <1>2, <2>1, <2>2
<1>5. /\ q \in Seq(Node) /\ Len(q) = Len(path) - 1 /\ Len(path) \in Nat
      /\ \A k \in 1..(i - 1) : q[k] = path[k]
  <2>1. ASSUME NEW k \in 1..(i - 1) PROVE q[k] = path[k]
    <3>1. k \in 1..((i - 1) + (Len(path) - i)) /\ k <= i - 1
      BY LenProperties
    <3>2. q[k] = before[k]
      BY <3>1, <1>3, Zenon
    <3> QED BY <3>2, <1>1
  <2>2. Len(path) \in Nat /\ Len(q) = Len(path) - 1
    BY <1>3, LenProperties
  <2> QED BY <2>1, <2>2, <1>3
<1>6. ASSUME NEW k \in 1..Len(q)
      PROVE  /\ k \in 1..Len(path) /\ k + 1 \in 1..Len(path)
             /\ IF k < i THEN q[k] = path[k] ELSE q[k] = path[k + 1]
  BY <1>4, <1>5
<1>7. ASSUME NEW k \in 1..Len(path)
      PROVE  (k < i => q[k] = path[k]) /\ (k > i => q[k - 1] = path[k])
  <2>1. CASE k < i
    BY <2>1, <1>5
  <2>2. CASE k > i
    <3>1. k - 1 \in i..(Len(path) - 1) /\ (k - 1) + 1 = k
      BY <2>2, <1>5
    <3>2. q[k - 1] = path[(k - 1) + 1]
      BY <3>1, <1>4
    <3> QED BY <3>1, <3>2, <2>2
  <2> QED BY <2>1, <2>2, <1>5
<1> QED BY <1>5, <1>6, <1>7 DEF Deletes

\* An inserted activity keeps a path regular and its loop as it is,
LEMMA InsertedRegular ==
    ASSUME NEW path \in Seq(Node), NEW x, NEW i \in 1..(Len(path) - 1), NEW q,
           Inserts(q, path, i, x), Regular(path), x \notin Nodes(path), TypeOf[x] = "ACTIVITY"
    PROVE  /\ Regular(q) /\ Nodes(q) = Nodes(path) \cup {x}
           /\ HasLoop(q) <=> HasLoop(path)
<1>0. \A k \in 1..Len(path) : TypeOf[path[k]] = "LOOP_END" =>
          \E j \in 1..Len(path) : j < k /\ TypeOf[path[j]] = "LOOP_START"
  BY DEF Regular
<1> USE DEF Inserts
<1>1. Nodes(q) = Nodes(path) \cup {x}
  <2>1. ASSUME NEW n \in Nodes(q) PROVE n \in Nodes(path) \cup {x}
    BY <2>1 DEF Nodes
  <2>2. ASSUME NEW n \in Nodes(path) PROVE n \in Nodes(q)
    <3>1. PICK k \in 1..Len(path) : n = path[k]
      BY <2>2 DEF Nodes
    <3>2. IF k <= i THEN k \in 1..Len(q) /\ n = q[k] ELSE k + 1 \in 1..Len(q) /\ n = q[k + 1]
      BY <3>1
    <3> QED BY <3>2 DEF Nodes
  <2>3. x \in Nodes(q)
    BY DEF Nodes
  <2> QED BY <2>1, <2>2, <2>3
<1>a. ASSUME NEW k \in 1..Len(q), k # i + 1
      PROVE  /\ k <= i => k \in 1..Len(path) /\ q[k] = path[k]
             /\ ~(k <= i) => k - 1 \in 1..Len(path) /\ q[k] = path[k - 1]
             /\ q[k] \in Nodes(path)
  <2>1. /\ k <= i => k \in 1..Len(path) /\ q[k] = path[k]
        /\ ~(k <= i) => k - 1 \in 1..Len(path) /\ q[k] = path[k - 1]
    BY <1>a
  <2> QED BY <2>1 DEF Nodes
<1>b. ASSUME NEW k \in 1..Len(q), k # i + 1
      PROVE  \E m \in 1..Len(path) : q[k] = path[m] /\ (k <= i => m = k) /\ (k > i => m = k - 1)
  BY <1>b, <1>a
<1>2. ASSUME NEW k \in 1..Len(q), NEW l \in 1..Len(q), q[k] = q[l] PROVE k = l
  <2>1. CASE k = i + 1 \/ l = i + 1
    BY <2>1, <1>2, <1>a
  <2>2. CASE k # i + 1 /\ l # i + 1
    <3>1. PICK m \in 1..Len(path) : q[k] = path[m] /\ (k <= i => m = k) /\ (k > i => m = k - 1)
      BY <2>2, <1>b
    <3>2. PICK o \in 1..Len(path) : q[l] = path[o] /\ (l <= i => o = l) /\ (l > i => o = l - 1)
      BY <2>2, <1>b
    <3>3. path[m] = path[o]
      BY <3>1, <3>2, <1>2
    <3>4. m = o
      BY <3>3 DEF Regular
    <3> QED BY <3>1, <3>2, <3>4, <2>2
  <2> QED BY <2>1, <2>2
<1>3. ASSUME NEW k \in 1..Len(q)
      PROVE  /\ TypeOf[q[k]] = "START" <=> k = 1
             /\ TypeOf[q[k]] = "END" <=> k = Len(q)
  <2>1. CASE k = i + 1
    BY <2>1
  <2>2. CASE k # i + 1 /\ k <= i
    <3>1. k \in 1..Len(path) /\ q[k] = path[k]
      BY <2>2, <1>a
    <3>2. (TypeOf[path[k]] = "START" <=> k = 1) /\ (TypeOf[path[k]] = "END" <=> k = Len(path))
      BY <3>1 DEF Regular
    <3>3. k # Len(path) /\ k # Len(q)
      BY <2>2
    <3> QED BY <3>1, <3>2, <3>3
  <2>3. CASE k # i + 1 /\ ~(k <= i)
    <3>1. k - 1 \in 1..Len(path) /\ q[k] = path[k - 1]
      BY <2>3, <1>a
    <3>2. /\ TypeOf[path[k - 1]] = "START" <=> k - 1 = 1
          /\ TypeOf[path[k - 1]] = "END" <=> k - 1 = Len(path)
      BY <3>1 DEF Regular
    <3>3. k - 1 # 1 /\ k # 1 /\ (k - 1 = Len(path) <=> k = Len(q))
      BY <2>3
    <3> QED BY <3>1, <3>2, <3>3
  <2> QED BY <2>1, <2>2, <2>3
<1>4. \A k \in 1..Len(q) : TypeOf[q[k]] = "LOOP_END" =>
          \E j \in 1..Len(q) : j < k /\ TypeOf[q[j]] = "LOOP_START"
  <2> SUFFICES ASSUME NEW k \in 1..Len(q), TypeOf[q[k]] = "LOOP_END"
               PROVE  \E j \in 1..Len(q) : j < k /\ TypeOf[q[j]] = "LOOP_START"
    OBVIOUS
  <2> DEFINE m == IF k <= i THEN k ELSE k - 1
  <2>1. k # i + 1 /\ m \in 1..Len(path) /\ TypeOf[path[m]] = "LOOP_END"
    <3>1. k # i + 1
      OBVIOUS
    <3> QED BY <3>1
  <2>2. PICK j \in 1..Len(path) : j < m /\ TypeOf[path[j]] = "LOOP_START"
    <3> HIDE DEF m, Inserts
    <3> QED BY <2>1, <1>0
  <2> DEFINE l == IF j <= i THEN j ELSE j + 1
  <2>3. l \in 1..Len(q) /\ q[l] = path[j]
    OBVIOUS
  <2>4. l < k
    BY <2>1, <2>2
  <2> QED BY <2>2, <2>3, <2>4
<1>5. ASSUME NEW k \in 1..Len(q), NEW l \in 1..Len(q), TypeOf[q[k]] = TypeOf[q[l]],
             TypeOf[q[k]] \in LoopTypes
      PROVE  k = l
  <2>1. k # i + 1 /\ l # i + 1
    BY <1>5 DEF LoopTypes
  <2>2. PICK m \in 1..Len(path) : q[k] = path[m] /\ (k <= i => m = k) /\ (k > i => m = k - 1)
    BY <2>1, <1>b
  <2>3. PICK o \in 1..Len(path) : q[l] = path[o] /\ (l <= i => o = l) /\ (l > i => o = l - 1)
    BY <2>1, <1>b
  <2>4. m = o
    BY <2>2, <2>3, <1>5 DEF Regular
  <2> QED BY <2>1, <2>2, <2>3, <2>4
<1>6. Len(q) > 1
  BY DEF Regular
<1>7. HasLoop(q) <=> HasLoop(path)
  <2> HIDE DEF Inserts
  <2>1. TypeOf[x] \notin LoopTypes
    BY DEF LoopTypes
  <2> QED BY <2>1, <1>1 DEF HasLoop
<1> QED BY <1>1, <1>2, <1>3, <1>4, <1>5, <1>6, <1>7 DEF Regular

\* and so does a deleted one.
LEMMA DeletedRegular ==
    ASSUME NEW path \in Seq(Node), NEW i \in 2..(Len(path) - 1), NEW q,
           Deletes(q, path, i), Regular(path), TypeOf[path[i]] = "ACTIVITY"
    PROVE  /\ Regular(q) /\ Nodes(q) = Nodes(path) \ {path[i]}
           /\ HasLoop(q) <=> HasLoop(path)
<1>0. TypeOf[path[i]] # "LOOP_START"
  OBVIOUS
<1>b0. \A k \in 1..Len(path) : TypeOf[path[k]] = "LOOP_END" =>
          \E j \in 1..Len(path) : j < k /\ TypeOf[path[j]] = "LOOP_START"
  BY DEF Regular
<1> USE DEF Deletes
<1>1. Nodes(q) = Nodes(path) \ {path[i]}
  <2>1. ASSUME NEW n \in Nodes(q) PROVE n \in Nodes(path) \ {path[i]}
    <3>1. PICK k \in 1..Len(q) : n = q[k]
      BY <2>1 DEF Nodes
    <3>2. PICK m \in 1..Len(path) : n = path[m] /\ m # i
      BY <3>1
    <3> QED BY <3>2 DEF Nodes, Regular
  <2>2. ASSUME NEW n \in Nodes(path), n # path[i] PROVE n \in Nodes(q)
    <3>1. PICK k \in 1..Len(path) : n = path[k] /\ k # i
      BY <2>2 DEF Nodes
    <3>2. IF k < i THEN k \in 1..Len(q) /\ n = q[k] ELSE k - 1 \in 1..Len(q) /\ n = q[k - 1]
      BY <3>1
    <3> QED BY <3>2 DEF Nodes
  <2> QED BY <2>1, <2>2
<1>a. ASSUME NEW k \in 1..Len(q)
      PROVE  /\ k < i => k \in 1..Len(path) /\ q[k] = path[k]
             /\ ~(k < i) => k + 1 \in 1..Len(path) /\ q[k] = path[k + 1]
  OBVIOUS
<1>b. ASSUME NEW k \in 1..Len(q)
      PROVE  \E m \in 1..Len(path) : q[k] = path[m] /\ (k < i => m = k) /\ (k >= i => m = k + 1)
  <2>1. CASE k < i
    BY <2>1, <1>a
  <2>2. CASE ~(k < i)
    BY <2>2, <1>a
  <2> QED BY <2>1, <2>2
<1>2. ASSUME NEW k \in 1..Len(q), NEW l \in 1..Len(q), q[k] = q[l] PROVE k = l
  <2>1. PICK m \in 1..Len(path) : q[k] = path[m] /\ (k < i => m = k) /\ (k >= i => m = k + 1)
    BY <1>b
  <2>2. PICK o \in 1..Len(path) : q[l] = path[o] /\ (l < i => o = l) /\ (l >= i => o = l + 1)
    BY <1>b
  <2>3. m = o
    BY <2>1, <2>2, <1>2 DEF Regular
  <2> QED BY <2>1, <2>2, <2>3
<1>3. \A k \in 1..Len(q) : /\ TypeOf[q[k]] = "START" <=> k = 1
                           /\ TypeOf[q[k]] = "END" <=> k = Len(q)
  BY DEF Regular
<1>4. \A k \in 1..Len(q) : TypeOf[q[k]] = "LOOP_END" =>
          \E j \in 1..Len(q) : j < k /\ TypeOf[q[j]] = "LOOP_START"
  <2> SUFFICES ASSUME NEW k \in 1..Len(q), TypeOf[q[k]] = "LOOP_END"
               PROVE  \E j \in 1..Len(q) : j < k /\ TypeOf[q[j]] = "LOOP_START"
    OBVIOUS
  <2> DEFINE m == IF k < i THEN k ELSE k + 1
  <2>1. m \in 1..Len(path) /\ TypeOf[path[m]] = "LOOP_END"
    OBVIOUS
  <2>2. PICK j \in 1..Len(path) : j < m /\ TypeOf[path[j]] = "LOOP_START"
    <3> HIDE DEF m, Deletes
    <3> QED BY <2>1, <1>b0
  <2> DEFINE l == IF j < i THEN j ELSE j - 1
  <2>3. j # i
    <3> HIDE DEF Deletes
    <3> QED BY <1>0, <2>2
  <2>4. l \in 1..Len(q) /\ q[l] = path[j]
    <3>1. CASE j < i
      BY <3>1
    <3>2. CASE j > i
      <4>1. l = j - 1 /\ q[j - 1] = path[j]
        BY <3>2
      <4>2. j - 1 \in 1..Len(q)
        BY <3>2
      <4> HIDE DEF l
      <4> QED BY <4>1, <4>2
    <3> QED BY <2>3, <3>1, <3>2
  <2>5. l < k
    BY <2>1, <2>2, <2>3
  <2> QED BY <2>2, <2>4, <2>5
<1>5. ASSUME NEW k \in 1..Len(q), NEW l \in 1..Len(q), TypeOf[q[k]] = TypeOf[q[l]],
             TypeOf[q[k]] \in LoopTypes
      PROVE  k = l
  <2>1. PICK m \in 1..Len(path) : q[k] = path[m] /\ (k < i => m = k) /\ (k >= i => m = k + 1)
    BY <1>b
  <2>2. PICK o \in 1..Len(path) : q[l] = path[o] /\ (l < i => o = l) /\ (l >= i => o = l + 1)
    BY <1>b
  <2>3. m = o
    BY <2>1, <2>2, <1>5 DEF Regular
  <2> QED BY <2>1, <2>2, <2>3
<1>6. Len(q) > 1
  BY DEF Regular
<1>7. HasLoop(q) <=> HasLoop(path)
  <2> HIDE DEF Deletes
  <2>1. TypeOf[path[i]] \notin LoopTypes
    BY DEF LoopTypes
  <2>2. ASSUME NEW n \in Nodes(path), TypeOf[n] \in LoopTypes PROVE n \in Nodes(q)
    BY <2>1, <2>2, <1>1
  <2>3. Nodes(q) \subseteq Nodes(path)
    BY <1>1
  <2> QED BY <2>2, <2>3 DEF HasLoop
<1>8. Regular(q)
  <2> HIDE DEF Deletes
  <2> QED BY <1>2, <1>3, <1>4, <1>5, <1>6 DEF Regular
<1> QED BY <1>1, <1>7, <1>8

-----------------------------------------------------------------------------
(***************************************************************************)
(* The order in which the nodes of a path stand.                           *)
(***************************************************************************)

(***************************************************************************)
(* The order of a path, and its edges.                                     *)
(***************************************************************************)

\* Before is the strict order in which the nodes stand, edges join neighbours, and the
\* types say where a node stands.
Ordered(path) ==
    /\ Nodes(path) \subseteq Node
    /\ \A m, n \in Nodes(path) : m = n \/ Before(path, m, n) \/ Before(path, n, m)
    /\ \A m, n : Before(path, m, n) =>
           m \in Nodes(path) /\ n \in Nodes(path) /\ m # n /\ ~Before(path, n, m)
    /\ \A l, m, n : Before(path, l, m) /\ Before(path, m, n) => Before(path, l, n)
    /\ \A m, n : <<m, n>> \in Edges(path) =>
           /\ Before(path, m, n)
           /\ \A k : /\ Before(path, m, k) => k = n \/ Before(path, n, k)
                     /\ Before(path, k, n) => k = m \/ Before(path, k, m)
    /\ \A n \in Nodes(path) :
           /\ TypeOf[n] # "END" => \E m \in Node : <<n, m>> \in Edges(path)
           /\ TypeOf[n] # "START" => \E m \in Node : <<m, n>> \in Edges(path)
           /\ TypeOf[n] = "START" => \A m : ~Before(path, m, n)
           /\ TypeOf[n] = "END" => \A m : ~Before(path, n, m)
           /\ TypeOf[n] = "LOOP_END" =>
                  \E m \in Nodes(path) : TypeOf[m] = "LOOP_START" /\ Before(path, m, n)
    /\ \A m, n \in Nodes(path) : TypeOf[m] = TypeOf[n] /\ TypeOf[m] \in LoopTypes => m = n
    /\ \E n \in Nodes(path) : TypeOf[n] = "START"

\* A regular path is ordered.
LEMMA Order ==
    ASSUME NEW path \in Seq(Node), Regular(path)
    PROVE  Ordered(path)
<1> Len(path) \in Nat /\ Len(path) > 1 /\ \A i \in 1..Len(path) : path[i] \in Node
  BY LenProperties DEF Regular
<1>a. \A i, j \in 1..Len(path) : path[i] = path[j] => i = j
  BY DEF Regular
<1>1. Nodes(path) \subseteq Node
  BY DEF Nodes
<1>2. ASSUME NEW m \in Nodes(path), NEW n \in Nodes(path)
      PROVE  m = n \/ Before(path, m, n) \/ Before(path, n, m)
  BY DEF Nodes, Before
<1>3. ASSUME NEW m, NEW n, Before(path, m, n)
      PROVE  m \in Nodes(path) /\ n \in Nodes(path) /\ m # n /\ ~Before(path, n, m)
  <2>1. PICK i, j \in 1..Len(path) : i < j /\ path[i] = m /\ path[j] = n
    BY <1>3 DEF Before
  <2>2. m \in Nodes(path) /\ n \in Nodes(path)
    BY <2>1 DEF Nodes
  <2>3. m # n
    BY <2>1, <1>a
  <2>4. ASSUME Before(path, n, m) PROVE FALSE
    <3>1. PICK k, l \in 1..Len(path) : k < l /\ path[k] = n /\ path[l] = m
      BY <2>4 DEF Before
    <3>2. k = j /\ l = i
      BY <3>1, <2>1, <1>a
    <3> QED BY <3>1, <3>2, <2>1
  <2> QED BY <2>2, <2>3, <2>4
<1>4. ASSUME NEW l, NEW m, NEW n, Before(path, l, m), Before(path, m, n)
      PROVE  Before(path, l, n)
  <2>1. PICK i, j \in 1..Len(path) : i < j /\ path[i] = l /\ path[j] = m
    BY <1>4 DEF Before
  <2>2. PICK g, h \in 1..Len(path) : g < h /\ path[g] = m /\ path[h] = n
    BY <1>4 DEF Before
  <2>3. j = g
    BY <2>1, <2>2, <1>a
  <2> QED BY <2>1, <2>2, <2>3 DEF Before
<1>5. ASSUME NEW m, NEW n, <<m, n>> \in Edges(path)
      PROVE  /\ Before(path, m, n)
             /\ \A k : /\ Before(path, m, k) => k = n \/ Before(path, n, k)
                       /\ Before(path, k, n) => k = m \/ Before(path, k, m)
  <2>1. PICK i \in 1..(Len(path) - 1) : m = path[i] /\ n = path[i + 1]
    BY <1>5 DEF Edges
  <2>2. i \in 1..Len(path) /\ i + 1 \in 1..Len(path) /\ i < i + 1
    OBVIOUS
  <2>3. ASSUME NEW k, Before(path, m, k) PROVE k = n \/ Before(path, n, k)
    <3>1. PICK g, h \in 1..Len(path) : g < h /\ path[g] = m /\ path[h] = k
      BY <2>3 DEF Before
    <3>2. g = i
      BY <3>1, <2>1, <2>2, <1>a
    <3>3. h = i + 1 \/ i + 1 < h
      BY <3>1, <3>2
    <3> QED BY <3>1, <3>3, <2>1, <2>2 DEF Before
  <2>4. ASSUME NEW k, Before(path, k, n) PROVE k = m \/ Before(path, k, m)
    <3>1. PICK g, h \in 1..Len(path) : g < h /\ path[g] = k /\ path[h] = n
      BY <2>4 DEF Before
    <3>2. h = i + 1
      BY <3>1, <2>1, <2>2, <1>a
    <3>3. g = i \/ g < i
      BY <3>1, <3>2
    <3> QED BY <3>1, <3>3, <2>1, <2>2 DEF Before
  <2> QED BY <2>1, <2>2, <2>3, <2>4 DEF Before
<1>6. ASSUME NEW n \in Nodes(path)
      PROVE  /\ TypeOf[n] # "END" => \E m \in Node : <<n, m>> \in Edges(path)
             /\ TypeOf[n] # "START" => \E m \in Node : <<m, n>> \in Edges(path)
             /\ TypeOf[n] = "START" => \A m : ~Before(path, m, n)
             /\ TypeOf[n] = "END" => \A m : ~Before(path, n, m)
             /\ TypeOf[n] = "LOOP_END" =>
                    \E m \in Nodes(path) : TypeOf[m] = "LOOP_START" /\ Before(path, m, n)
  <2>1. PICK i \in 1..Len(path) : n = path[i]
    BY DEF Nodes
  <2>2. ASSUME TypeOf[n] # "END" PROVE \E m \in Node : <<n, m>> \in Edges(path)
    <3>1. i \in 1..(Len(path) - 1) /\ i + 1 \in 1..Len(path)
      BY <2>1, <2>2 DEF Regular
    <3>2. <<path[i], path[i + 1]>> \in Edges(path)
      BY <3>1 DEF Edges
    <3> QED BY <3>1, <3>2, <2>1
  <2>3. ASSUME TypeOf[n] # "START" PROVE \E m \in Node : <<m, n>> \in Edges(path)
    <3>1. i - 1 \in 1..(Len(path) - 1) /\ i - 1 \in 1..Len(path) /\ (i - 1) + 1 = i
      BY <2>1, <2>3 DEF Regular
    <3>2. <<path[i - 1], path[(i - 1) + 1]>> \in Edges(path)
      BY <3>1 DEF Edges
    <3> QED BY <3>1, <3>2, <2>1
  <2>4. ASSUME TypeOf[n] = "START", NEW m, Before(path, m, n) PROVE FALSE
    <3>1. PICK g, h \in 1..Len(path) : g < h /\ path[g] = m /\ path[h] = n
      BY <2>4 DEF Before
    <3>2. h = 1
      BY <3>1, <2>4 DEF Regular
    <3> QED BY <3>1, <3>2
  <2>5. ASSUME TypeOf[n] = "END", NEW m, Before(path, n, m) PROVE FALSE
    <3>1. PICK g, h \in 1..Len(path) : g < h /\ path[g] = n /\ path[h] = m
      BY <2>5 DEF Before
    <3>2. g = Len(path)
      BY <3>1, <2>5 DEF Regular
    <3> QED BY <3>1, <3>2
  <2>6. ASSUME TypeOf[n] = "LOOP_END"
        PROVE  \E m \in Nodes(path) : TypeOf[m] = "LOOP_START" /\ Before(path, m, n)
    <3>1. PICK j \in 1..Len(path) : j < i /\ TypeOf[path[j]] = "LOOP_START"
      BY <2>1, <2>6 DEF Regular
    <3> QED BY <3>1, <2>1 DEF Nodes, Before
  <2> QED BY <2>2, <2>3, <2>4, <2>5, <2>6
<1>7. ASSUME NEW m \in Nodes(path), NEW n \in Nodes(path), TypeOf[m] = TypeOf[n],
             TypeOf[m] \in LoopTypes
      PROVE  m = n
  BY <1>7 DEF Nodes, Regular
<1>8. \E n \in Nodes(path) : TypeOf[n] = "START"
  <2>1. 1 \in 1..Len(path) /\ TypeOf[path[1]] = "START"
    BY DEF Regular
  <2> QED BY <2>1 DEF Nodes
<1>9. \A l, m, n : Before(path, l, m) /\ Before(path, m, n) => Before(path, l, n)
  BY <1>4
<1>10. \A m, n : <<m, n>> \in Edges(path) =>
           /\ Before(path, m, n)
           /\ \A k : /\ Before(path, m, k) => k = n \/ Before(path, n, k)
                     /\ Before(path, k, n) => k = m \/ Before(path, k, m)
  BY <1>5
<1>11. \A m, n : Before(path, m, n) =>
           m \in Nodes(path) /\ n \in Nodes(path) /\ m # n /\ ~Before(path, n, m)
  BY <1>3
<1>12. \A m, n \in Nodes(path) : TypeOf[m] = TypeOf[n] /\ TypeOf[m] \in LoopTypes => m = n
  BY <1>7
<1> QED BY <1>1, <1>2, <1>6, <1>8, <1>9, <1>10, <1>11, <1>12 DEF Ordered

\* A chain of a schema is regular, is a variant of itself, and can be followed.
LEMMA ChainRegular ==
    ASSUME NEW s \in Schema
    PROVE  /\ Chain[s] \in Seq(Node) /\ Regular(Chain[s])
           /\ Varies(Chain[s], Chain[s]) /\ Nodes(Chain[s]) \cap Inserted = {}
<1>1. Chain[s] \in Seq(Node)
  BY TreeTypes
<1>2. Regular(Chain[s])
  BY TreeTypes, ChainsKeepTheRules DEF Regular, LoopTypes
<1>3. Ordered(Chain[s])
  BY <1>1, <1>2, Order
<1>4. Varies(Chain[s], Chain[s])
  BY <1>3 DEF Varies, Ordered
<1>5. Nodes(Chain[s]) \cap Inserted = {}
  BY ChainsKeepTheRules DEF Nodes
<1> QED BY <1>1, <1>2, <1>4, <1>5

\* A regular path can be followed,
LEMMA AlongItself ==
    ASSUME NEW path \in Seq(Node), Regular(path)
    PROVE  Along(path, path)
<1>1. Ordered(path)
  BY Order
<1>2. ASSUME NEW n, NEW l, NEW m, <<n, l>> \in Edges(path), <<n, m>> \in Edges(path)
      PROVE  l = m
  BY <1>1, <1>2 DEF Ordered
<1> QED BY <1>1, <1>2 DEF Along, Ordered

\* and a variant can be followed along its chain when it has all its nodes.
LEMMA AlongChain ==
    ASSUME NEW path \in Seq(Node), NEW s \in Schema, Regular(path), Varies(path, Chain[s]),
           Nodes(Chain[s]) \subseteq Nodes(path)
    PROVE  Along(path, Chain[s])
<1>1. Along(Chain[s], Chain[s]) /\ Ordered(Chain[s])
  BY ChainRegular, AlongItself, Order
<1>2. ASSUME NEW m, NEW n, <<m, n>> \in Edges(Chain[s]) PROVE Before(path, m, n)
  BY <1>1, <1>2 DEF Varies, Ordered
<1>3. HasLoop(path) => Chain[s] = path
  BY DEF Varies
<1> QED BY <1>1, <1>2, <1>3 DEF Along

-----------------------------------------------------------------------------
(***************************************************************************)
(* The order after an ad-hoc change.                                       *)
(***************************************************************************)

\* An insertion keeps the order and splits one edge.
LEMMA InsertedOrder ==
    ASSUME NEW path \in Seq(Node), NEW x, NEW i \in 1..(Len(path) - 1), NEW q,
           Inserts(q, path, i, x), Regular(path), x \notin Nodes(path), TypeOf[x] = "ACTIVITY"
    PROVE  /\ \A m, n \in Nodes(path) : Before(q, m, n) <=> Before(path, m, n)
           /\ <<path[i], path[i + 1]>> \notin Edges(q)
           /\ Edges(q) \subseteq Edges(path) \cup {<<path[i], x>>, <<x, path[i + 1]>>}
<1>r. Regular(q) /\ Nodes(q) = Nodes(path) \cup {x}
  BY InsertedRegular
<1> Len(path) \in Nat /\ Len(q) = Len(path) + 1 /\ q \in Seq(Node) /\ q[i + 1] = x
  BY DEF Inserts
<1>a. \A k \in 1..Len(path) : IF k <= i THEN q[k] = path[k] ELSE q[k + 1] = path[k]
  BY DEF Inserts
<1>b. /\ Regular(q) /\ Ordered(q) /\ Ordered(path) /\ Nodes(q) = Nodes(path) \cup {x}
  BY <1>r, Order
<1>c. ASSUME NEW k \in 1..Len(path)
      PROVE  \E g \in 1..Len(q) : q[g] = path[k] /\ (k <= i => g = k) /\ (~(k <= i) => g = k + 1)
  <2>1. CASE k <= i
    BY <2>1, <1>a
  <2>2. CASE ~(k <= i)
    <3>1. k + 1 \in 1..Len(q) /\ q[k + 1] = path[k]
      BY <2>2, <1>a
    <3> QED BY <3>1, <2>2
  <2> QED BY <2>1, <2>2
<1>1. ASSUME NEW m, NEW n, Before(path, m, n) PROVE Before(q, m, n)
  <2>1. PICK k, l \in 1..Len(path) : k < l /\ path[k] = m /\ path[l] = n
    BY <1>1 DEF Before
  <2>2. PICK g \in 1..Len(q) : q[g] = m /\ (k <= i => g = k) /\ (~(k <= i) => g = k + 1)
    BY <2>1, <1>c
  <2>3. PICK h \in 1..Len(q) : q[h] = n /\ (l <= i => h = l) /\ (~(l <= i) => h = l + 1)
    BY <2>1, <1>c
  <2>4. g < h
    BY <2>1, <2>2, <2>3
  <2> QED BY <2>2, <2>3, <2>4 DEF Before
<1>2. ASSUME NEW m \in Nodes(path), NEW n \in Nodes(path), Before(q, m, n)
      PROVE  Before(path, m, n)
  BY <1>1, <1>2, <1>b DEF Ordered
<1>3. <<path[i], path[i + 1]>> \notin Edges(q)
  <2>1. SUFFICES ASSUME <<path[i], path[i + 1]>> \in Edges(q) PROVE FALSE
    OBVIOUS
  <2>2. Before(q, path[i], x) /\ Before(q, x, path[i + 1])
    <3>1. i \in 1..Len(q) /\ i + 1 \in 1..Len(q) /\ i + 2 \in 1..Len(q) /\ i < i + 1 /\ i + 1 < i + 2
      OBVIOUS
    <3>2. q[i] = path[i]
      BY <1>a
    <3>3. q[i + 2] = path[i + 1]
      <4>1. i + 1 \in 1..Len(path) /\ ~(i + 1 <= i) /\ (i + 1) + 1 = i + 2
        OBVIOUS
      <4> QED BY <4>1, <1>a
    <3> QED BY <3>1, <3>2, <3>3 DEF Before
  <2>3. x = path[i + 1] \/ Before(q, path[i + 1], x)
    BY <2>1, <2>2, <1>b DEF Ordered
  <2> QED BY <2>2, <2>3, <1>b DEF Ordered
<1>4. ASSUME NEW e \in Edges(q) PROVE e \in Edges(path) \cup {<<path[i], x>>, <<x, path[i + 1]>>}
  <2>1. PICK k \in 1..(Len(q) - 1) : e = <<q[k], q[k + 1]>>
    BY DEF Edges
  <2>2. CASE k < i
    <3>1. q[k] = path[k] /\ q[k + 1] = path[k + 1] /\ k \in 1..(Len(path) - 1)
      BY <2>2, <1>a
    <3> QED BY <3>1, <2>1 DEF Edges
  <2>3. CASE k = i
    <3>1. q[i] = path[i]
      BY <1>a
    <3> QED BY <3>1, <2>1, <2>3
  <2>4. CASE k = i + 1
    <3>1. q[(i + 1) + 1] = path[i + 1]
      <4>1. i + 1 \in 1..Len(path) /\ ~(i + 1 <= i)
        OBVIOUS
      <4> QED BY <4>1, <1>a
    <3> QED BY <3>1, <2>1, <2>4
  <2>5. CASE k > i + 1
    <3>1. k - 1 \in 1..(Len(path) - 1) /\ ~(k - 1 <= i) /\ k \in 1..Len(path) /\ ~(k <= i) /\ (k - 1) + 1 = k
      BY <2>5
    <3>2. q[(k - 1) + 1] = path[k - 1] /\ q[k + 1] = path[k]
      <4>1. q[(k - 1) + 1] = path[k - 1]
        <5>1. k - 1 \in 1..Len(path)
          BY <3>1
        <5> QED BY <5>1, <3>1, <1>a, Zenon
      <4>2. q[k + 1] = path[k]
        BY <3>1, <1>a, Zenon
      <4> QED BY <4>1, <4>2
    <3>3. e = <<path[k - 1], path[(k - 1) + 1]>>
      BY <3>1, <3>2, <2>1
    <3> QED BY <3>1, <3>3 DEF Edges
  <2> QED BY <2>2, <2>3, <2>4, <2>5
<1> QED BY <1>1, <1>2, <1>3, <1>4

\* A deletion keeps the order and merges two edges.
LEMMA DeletedOrder ==
    ASSUME NEW path \in Seq(Node), NEW i \in 2..(Len(path) - 1), NEW q,
           Deletes(q, path, i), Regular(path), TypeOf[path[i]] = "ACTIVITY"
    PROVE  /\ \A m, n \in Nodes(q) : Before(q, m, n) <=> Before(path, m, n)
           /\ LET split == {<<path[i - 1], path[i]>>, <<path[i], path[i + 1]>>}
              IN  /\ Edges(path) \ split \subseteq Edges(q)
                  /\ Edges(q) \subseteq (Edges(path) \ split) \cup {<<path[i - 1], path[i + 1]>>}
<1> Len(path) \in Nat /\ Len(q) = Len(path) - 1 /\ q \in Seq(Node)
  BY DEF Deletes
<1>a. \A k \in 1..Len(path) : (k < i => q[k] = path[k]) /\ (k > i => q[k - 1] = path[k])
  BY DEF Deletes
<1>b. /\ Regular(q) /\ Ordered(q) /\ Ordered(path) /\ Nodes(q) = Nodes(path) \ {path[i]}
  BY DeletedRegular, Order
<1>c. ASSUME NEW k \in 1..Len(path), k # i
      PROVE  \E g \in 1..Len(q) : q[g] = path[k] /\ (k < i => g = k) /\ (~(k < i) => g = k - 1)
  <2>1. CASE k < i
    BY <2>1, <1>a
  <2>2. CASE ~(k < i)
    <3>1. k - 1 \in 1..Len(q) /\ q[k - 1] = path[k]
      BY <1>c, <2>2, <1>a
    <3> QED BY <3>1, <2>2
  <2> QED BY <2>1, <2>2
<1>1. ASSUME NEW m \in Nodes(q), NEW n \in Nodes(q), Before(path, m, n) PROVE Before(q, m, n)
  <2>1. PICK k, l \in 1..Len(path) : k < l /\ path[k] = m /\ path[l] = n
    BY <1>1 DEF Before
  <2>2. k # i /\ l # i
    BY <2>1, <1>b
  <2>3. PICK g \in 1..Len(q) : q[g] = m /\ (k < i => g = k) /\ (~(k < i) => g = k - 1)
    BY <2>1, <2>2, <1>c
  <2>4. PICK h \in 1..Len(q) : q[h] = n /\ (l < i => h = l) /\ (~(l < i) => h = l - 1)
    BY <2>1, <2>2, <1>c
  <2>5. g < h
    BY <2>1, <2>2, <2>3, <2>4
  <2> QED BY <2>3, <2>4, <2>5 DEF Before
<1>2. ASSUME NEW m \in Nodes(q), NEW n \in Nodes(q), Before(q, m, n)
      PROVE  Before(path, m, n)
  BY <1>1, <1>2, <1>b DEF Ordered
<1> DEFINE split == {<<path[i - 1], path[i]>>, <<path[i], path[i + 1]>>}
<1>3. ASSUME NEW e \in Edges(path), e \notin split PROVE e \in Edges(q)
  <2>1. PICK k \in 1..(Len(path) - 1) : e = <<path[k], path[k + 1]>>
    BY DEF Edges
  <2>2. k # i - 1 /\ k # i
    BY <2>1, <1>3
  <2>3. CASE k < i - 1
    <3>1. k \in 1..Len(path) /\ k + 1 \in 1..Len(path) /\ k < i /\ k + 1 < i
          /\ k \in 1..(Len(q) - 1)
      BY <2>3
    <3>2. q[k] = path[k] /\ q[k + 1] = path[k + 1]
      BY <3>1, <1>a
    <3> QED BY <3>1, <3>2, <2>1 DEF Edges
  <2>4. CASE k > i
    <3>1. k - 1 \in 1..(Len(q) - 1) /\ k \in 1..Len(path) /\ k + 1 \in 1..Len(path)
          /\ k + 1 > i /\ (k + 1) - 1 = k /\ (k - 1) + 1 = k
      BY <2>4
    <3>2. q[k - 1] = path[k] /\ q[(k + 1) - 1] = path[k + 1]
      BY <3>1, <2>4, <1>a
    <3>3. e = <<q[k - 1], q[(k - 1) + 1]>>
      BY <3>1, <3>2, <2>1
    <3> QED BY <3>1, <3>3 DEF Edges
  <2> QED BY <2>2, <2>3, <2>4
<1>4. ASSUME NEW e \in Edges(q)
      PROVE  e \in (Edges(path) \ split) \cup {<<path[i - 1], path[i + 1]>>}
  <2>1. PICK k \in 1..(Len(q) - 1) : e = <<q[k], q[k + 1]>>
    BY DEF Edges
  <2>2. e \notin split
    <3>1. q[k] \in Nodes(q) /\ q[k + 1] \in Nodes(q)
      BY DEF Nodes
    <3> QED BY <3>1, <2>1, <1>b
  <2>3. CASE k < i - 1
    <3>1. k \in 1..Len(path) /\ k + 1 \in 1..Len(path) /\ k < i /\ k + 1 < i
          /\ k \in 1..(Len(path) - 1)
      BY <2>3
    <3>2. q[k] = path[k] /\ q[k + 1] = path[k + 1]
      BY <3>1, <1>a
    <3> QED BY <3>1, <3>2, <2>1, <2>2 DEF Edges
  <2>4. CASE k = i - 1
    <3>1. q[i - 1] = path[i - 1]
      BY <1>a
    <3>2. i + 1 \in 1..Len(path) /\ i + 1 > i /\ (i + 1) - 1 = i /\ (i - 1) + 1 = i
      OBVIOUS
    <3>3. q[(i + 1) - 1] = path[i + 1]
      BY <3>2, <1>a
    <3>4. e = <<path[i - 1], path[i + 1]>>
      BY <3>1, <3>2, <3>3, <2>1, <2>4
    <3> QED BY <3>4
  <2>5. CASE k > i - 1
    <3>1. k + 1 \in 1..(Len(path) - 1) /\ k + 1 > i /\ k + 2 \in 1..Len(path) /\ k + 2 > i
          /\ (k + 1) - 1 = k /\ (k + 2) - 1 = k + 1 /\ (k + 1) + 1 = k + 2
      BY <2>5
    <3>2. q[(k + 1) - 1] = path[k + 1] /\ q[(k + 2) - 1] = path[k + 2]
      BY <3>1, <1>a
    <3>3. e = <<path[k + 1], path[(k + 1) + 1]>>
      BY <3>1, <3>2, <2>1
    <3> QED BY <3>1, <3>3, <2>2 DEF Edges
  <2> QED BY <2>3, <2>4, <2>5
<1> QED BY <1>1, <1>2, <1>3, <1>4

-----------------------------------------------------------------------------
(***************************************************************************)
(* An ad-hoc change of a case that rests.                                  *)
(***************************************************************************)

-----------------------------------------------------------------------------
(***************************************************************************)
(* Ad-hoc changes leave a case at rest.                                    *)
(***************************************************************************)

\* The fields of a case.
LEMMA CaseFields ==
    ASSUME NEW r \in Case
    PROVE  /\ r.path \in Seq(Node) /\ r.schema \in Schema /\ r.ns \in [Node -> States]
           /\ r.child \in [Node -> CaseId \cup {NoCase}]
           /\ r.signaled \subseteq Node \X Node /\ r.dropped \subseteq Node \X Node
           /\ Nodes(r.path) \subseteq Node
<1>1. r.path \in Seq(Node)
  BY DEF Case
<1>2. Nodes(r.path) \subseteq Node
  BY <1>1, LenProperties DEF Nodes
<1> QED BY <1>1, <1>2 DEF Case

\* What AdhocInsert and AdhocDelete store for the case r.
CaseWith(r, i, x) ==
    LET path  == r.path
        edge  == <<path[i], path[i + 1]>>
        split == {<<path[i], x>>, <<x, path[i + 1]>>}
    IN  [r EXCEPT !.path = SubSeq(path, 1, i) \o <<x>> \o SubSeq(path, i + 1, Len(path)),
                  !.ns[x] = "NOT_ACTIVATED",
                  !.dropped = (@ \cup {edge}) \ split]

CaseWithout(r, i, x) ==
    LET path  == r.path
        edge  == <<path[i - 1], path[i + 1]>>
        split == {<<path[i - 1], x>>, <<x, path[i + 1]>>}
    IN  [r EXCEPT !.path = SubSeq(path, 1, i - 1) \o SubSeq(path, i + 1, Len(path)),
                  !.ns[x] = "none",
                  !.signaled = @ \ (split \cup {edge}),
                  !.dropped = (@ \cup split) \ {edge}]

\* Neither change moves a case that rests.
LEMMA InsertedAtRest ==
    ASSUME NEW r \in Case, AtRest(r), ~HasLoop(r.path), NEW x \in Inserted \ Nodes(r.path),
           NEW i \in 1..(Len(r.path) - 1), NEW t, t = CaseWith(r, i, x)
    PROVE  AtRest(t) /\ Nodes(r.path) \subseteq Nodes(t.path)
<1> DEFINE path  == r.path
           q     == SubSeq(path, 1, i) \o <<x>> \o SubSeq(path, i + 1, Len(path))
           edge  == <<path[i], path[i + 1]>>
           split == {<<path[i], x>>, <<x, path[i + 1]>>}
<1>1. /\ t.path = q /\ t.ns = [r.ns EXCEPT ![x] = "NOT_ACTIVATED"]
      /\ t.dropped = (r.dropped \cup {edge}) \ split
      /\ t.signaled = r.signaled /\ t.child = r.child /\ t.state = r.state /\ t.schema = r.schema
  BY DEF Case, CaseWith
<1>2. /\ path \in Seq(Node) /\ r.ns \in [Node -> States] /\ x \in Node /\ x \notin Nodes(path)
      /\ TypeOf[x] = "ACTIVITY" /\ Nodes(path) \subseteq Node /\ r.schema \in Schema
  BY CaseFields, TreeTypes
<1>3. Regular(path) /\ Ordered(path) /\ Varies(path, Chain[r.schema])
  BY <1>2, Order DEF AtRest, Shape
<1>4. Inserts(q, path, i, x)
  BY <1>2, InsertedPath
<1> HIDE DEF q
<1>5. Regular(q) /\ Nodes(q) = Nodes(path) \cup {x} /\ ~HasLoop(q)
  BY <1>2, <1>3, <1>4, InsertedRegular
<1>6. /\ \A m, n \in Nodes(path) : Before(q, m, n) <=> Before(path, m, n)
      /\ edge \notin Edges(q)
      /\ Edges(q) \subseteq Edges(path) \cup split
  BY <1>2, <1>3, <1>4, InsertedOrder
<1>7. q \in Seq(Node) /\ Ordered(q)
  BY <1>4, <1>5, Order DEF Inserts
<1>8. x \notin Nodes(Chain[r.schema])
  BY <1>2, ChainRegular
<1>9. Shape(t)
  <2>1. Varies(q, Chain[r.schema])
    <3>1. Nodes(q) \subseteq Nodes(Chain[r.schema]) \cup Inserted
      BY <1>3, <1>5 DEF Varies
    <3>2. ASSUME NEW m \in Nodes(q), NEW n \in Nodes(q), <<m, n>> \in Edges(Chain[r.schema])
          PROVE  Before(q, m, n)
      <4>1. m \in Nodes(Chain[r.schema]) /\ n \in Nodes(Chain[r.schema])
        BY <1>2, <3>2, ChainRegular, Order DEF Ordered
      <4>2. m \in Nodes(path) /\ n \in Nodes(path)
        BY <4>1, <1>5, <1>8
      <4> QED BY <4>2, <3>2, <1>3, <1>6 DEF Varies
    <3> QED BY <3>1, <3>2, <1>5 DEF Varies
  <2>2. ASSUME NEW n \in Node PROVE t.ns[n] = "none" <=> n \notin Nodes(q)
    BY <1>1, <1>2, <1>5 DEF AtRest, Shape
  <2>3. t.dropped \cap Edges(q) = {}
    BY <1>1, <1>6 DEF AtRest, Shape
  <2>4. ASSUME NEW n \in Node
        PROVE  /\ t.child[n] # NoCase => TypeOf[n] = "SUBPROCESS" /\ t.ns[n] \in {"RUNNING", "COMPLETED"}
               /\ t.ns[n] = "RUNNING" => t.child[n] # NoCase
    BY <1>1, <1>2 DEF AtRest, Shape
  <2> QED BY <1>1, <1>5, <2>1, <2>2, <2>3, <2>4 DEF Shape
<1>10. PICK f \in Node : Front(r, f) /\ Rests(r, f)
  BY DEF AtRest
<1>11. f \in Nodes(path) /\ f # x
  BY <1>2, <1>10 DEF Front
<1>12. Front(t, f)
  <2>1. ASSUME NEW n \in Nodes(q)
        PROVE  /\ Before(q, f, n) => t.ns[n] = "NOT_ACTIVATED"
               /\ Before(q, n, f) => t.ns[n] \in {"NOT_ACTIVATED", "COMPLETED"}
    BY <1>1, <1>2, <1>5, <1>6, <1>10, <1>11 DEF Front
  <2>2. ASSUME NEW m \in Node, NEW n \in Node, <<m, n>> \in t.signaled
        PROVE  /\ Before(q, m, n) /\ t.ns[m] = "COMPLETED"
               /\ n = f \/ (Before(q, n, f) /\ t.ns[n] = "COMPLETED")
    <3>1. /\ Before(path, m, n) /\ r.ns[m] = "COMPLETED"
          /\ n = f \/ (Before(path, n, f) /\ r.ns[n] = "COMPLETED")
      BY <1>1, <1>10, <2>2 DEF Front
    <3>2. m \in Nodes(path) /\ n \in Nodes(path)
      BY <3>1, <1>3 DEF Ordered
    <3> QED BY <3>1, <3>2, <1>1, <1>2, <1>6, <1>11
  <2> QED BY <1>1, <1>5, <1>11, <2>1, <2>2 DEF Front
<1>13. Rests(t, f)
  BY <1>1, <1>2, <1>10, <1>11 DEF Rests
<1> QED BY <1>1, <1>5, <1>9, <1>12, <1>13 DEF AtRest

\* See InsertedAtRest; a step of a loop may be deleted, too.
LEMMA DeletedAtRest ==
    ASSUME NEW r \in Case, AtRest(r), NEW i \in 2..(Len(r.path) - 1), NEW x \in Deletable,
           r.path[i] = x, r.ns[x] = "NOT_ACTIVATED",
           HasLoop(r.path) => Nodes(r.path) \cap Inserted = {}, NEW t, t = CaseWithout(r, i, x)
    PROVE  AtRest(t) /\ Nodes(t.path) = Nodes(r.path) \ {x}
<1> DEFINE path  == r.path
           q     == SubSeq(path, 1, i - 1) \o SubSeq(path, i + 1, Len(path))
           edge  == <<path[i - 1], path[i + 1]>>
           split == {<<path[i - 1], x>>, <<x, path[i + 1]>>}
<1>1. /\ t.path = q /\ t.ns = [r.ns EXCEPT ![x] = "none"]
      /\ t.dropped = (r.dropped \cup split) \ {edge}
      /\ t.signaled = r.signaled \ (split \cup {edge})
      /\ t.child = r.child /\ t.state = r.state /\ t.schema = r.schema
  BY DEF Case, CaseWithout
<1>2. /\ path \in Seq(Node) /\ r.ns \in [Node -> States] /\ x \in Node
      /\ TypeOf[x] = "ACTIVITY" /\ Nodes(path) \subseteq Node /\ r.schema \in Schema
  BY CaseFields, TreeTypes
<1>3. Regular(path) /\ Ordered(path) /\ Varies(path, Chain[r.schema])
  BY <1>2, Order DEF AtRest, Shape
<1>4. Deletes(q, path, i)
  BY <1>2, DeletedPath
<1> HIDE DEF q
<1>5. Regular(q) /\ Nodes(q) = Nodes(path) \ {x} /\ (HasLoop(q) <=> HasLoop(path))
  BY <1>2, <1>3, <1>4, DeletedRegular
<1>6. /\ \A m, n \in Nodes(q) : Before(q, m, n) <=> Before(path, m, n)
      /\ Edges(path) \ split \subseteq Edges(q)
      /\ Edges(q) \subseteq (Edges(path) \ split) \cup {edge}
  BY <1>2, <1>3, <1>4, DeletedOrder
<1>7. q \in Seq(Node) /\ Ordered(q)
  BY <1>4, <1>5, Order DEF Deletes
<1>8. x \in Nodes(path) /\ <<path[i - 1], x>> \in Edges(path)
  <2>1. i \in 1..Len(path) /\ i - 1 \in 1..(Len(path) - 1) /\ (i - 1) + 1 = i
    BY <1>2, LenProperties
  <2>2. <<path[i - 1], path[(i - 1) + 1]>> \in Edges(path)
    BY <2>1 DEF Edges
  <2> QED BY <2>1, <2>2 DEF Nodes
<1>9. Shape(t)
  <2>1. Varies(q, Chain[r.schema])
    <3>1. Nodes(q) \subseteq Nodes(Chain[r.schema]) \cup Inserted
      BY <1>3, <1>5 DEF Varies
    <3>2. ASSUME NEW m \in Nodes(q), NEW n \in Nodes(q), <<m, n>> \in Edges(Chain[r.schema])
          PROVE  Before(q, m, n)
      BY <3>2, <1>3, <1>5, <1>6 DEF Varies
    <3>3. ASSUME HasLoop(q) PROVE x \in Nodes(Chain[r.schema])
      BY <3>3, <1>3, <1>5, <1>8 DEF Varies
    <3> QED BY <3>1, <3>2, <3>3, <1>5 DEF Varies
  <2>2. ASSUME NEW n \in Node PROVE t.ns[n] = "none" <=> n \notin Nodes(q)
    BY <1>1, <1>2, <1>5 DEF AtRest, Shape
  <2>3. t.dropped \cap Edges(q) = {}
    BY <1>1, <1>6 DEF AtRest, Shape
  <2>4. ASSUME NEW n \in Node
        PROVE  /\ t.child[n] # NoCase => TypeOf[n] = "SUBPROCESS" /\ t.ns[n] \in {"RUNNING", "COMPLETED"}
               /\ t.ns[n] = "RUNNING" => t.child[n] # NoCase
    BY <1>1, <1>2 DEF AtRest, Shape
  <2> QED BY <1>1, <1>5, <2>1, <2>2, <2>3, <2>4 DEF Shape
<1>10. PICK f \in Node : Front(r, f) /\ Rests(r, f)
  BY DEF AtRest
<1>11. f \in Nodes(path) /\ f # x
  BY <1>2, <1>10 DEF Front, Rests
<1>12. Front(t, f)
  <2>1. ASSUME NEW n \in Nodes(q)
        PROVE  /\ Before(q, f, n) => t.ns[n] = "NOT_ACTIVATED"
               /\ Before(q, n, f) => t.ns[n] \in {"NOT_ACTIVATED", "COMPLETED"}
    BY <1>1, <1>2, <1>5, <1>6, <1>10, <1>11 DEF Front
  <2>2. ASSUME NEW m \in Node, NEW n \in Node, <<m, n>> \in t.signaled
        PROVE  /\ Before(q, m, n) /\ t.ns[m] = "COMPLETED"
               /\ n = f \/ (Before(q, n, f) /\ t.ns[n] = "COMPLETED")
    <3>1. /\ Before(path, m, n) /\ r.ns[m] = "COMPLETED"
          /\ n = f \/ (Before(path, n, f) /\ r.ns[n] = "COMPLETED")
      BY <1>1, <1>10, <2>2 DEF Front
    <3>2. m \in Nodes(q) /\ n \in Nodes(q)
      BY <3>1, <1>3, <1>5, <1>11 DEF Ordered
    <3> QED BY <3>1, <3>2, <1>1, <1>2, <1>5, <1>6, <1>11
  <2>3. ASSUME HasLoop(q)
        PROVE  /\ t.signaled \subseteq Edges(q)
               /\ \A m, n \in Node : <<m, n>> \in Edges(q) /\ Before(q, m, f) =>
                      t.ns[m] = "COMPLETED" /\ <<m, n>> \in t.signaled
    <3>1. /\ r.signaled \subseteq Edges(path)
          /\ \A m, n \in Node : <<m, n>> \in Edges(path) /\ Before(path, m, f) =>
                 r.ns[m] = "COMPLETED" /\ <<m, n>> \in r.signaled
      BY <2>3, <1>5, <1>10 DEF Front
    <3>2. t.signaled \subseteq Edges(q)
      BY <3>1, <1>1, <1>6
    <3>3. ASSUME NEW m \in Node, NEW n \in Node, <<m, n>> \in Edges(q), Before(q, m, f)
          PROVE  t.ns[m] = "COMPLETED" /\ <<m, n>> \in t.signaled
      <4>1. m \in Nodes(q) /\ f \in Nodes(q) /\ Before(path, m, f) /\ m # x /\ n # x
        BY <3>3, <1>5, <1>6, <1>7, <1>11 DEF Ordered
      <4>2. ~Before(path, x, f)
        <5>1. SUFFICES ASSUME Before(path, x, f) PROVE FALSE
          OBVIOUS
        <5>2. PICK m2 \in Node : <<x, m2>> \in Edges(path)
          BY <1>3, <1>8, <1>2 DEF Ordered
        <5> QED BY <5>1, <5>2, <3>1, <1>2
      <4>3. m # path[i - 1]
        BY <4>1, <4>2, <1>3, <1>8, <1>11 DEF Ordered
      <4>4. <<m, n>> \in Edges(path) /\ <<m, n>> \notin split \cup {edge}
        BY <4>1, <4>3, <3>3, <1>6
      <4> QED BY <4>1, <4>4, <3>1, <1>1, <1>2
    <3> QED BY <3>2, <3>3
  <2> QED BY <1>1, <1>5, <1>11, <2>1, <2>2, <2>3 DEF Front
<1>13. Rests(t, f)
  BY <1>1, <1>2, <1>10, <1>11 DEF Rests
<1> QED BY <1>1, <1>5, <1>9, <1>12, <1>13 DEF AtRest

-----------------------------------------------------------------------------
(***************************************************************************)
(* The engine works at the front.                                          *)
(***************************************************************************)

-----------------------------------------------------------------------------
(***************************************************************************)
(* The engine's operators on one case.                                     *)
(***************************************************************************)

\* An edge is a pair of nodes of the path.
LEMMA EdgeEnds ==
    ASSUME NEW using \in Seq(Node), NEW e \in Edges(using)
    PROVE  /\ e = <<e[1], e[2]>> /\ e[1] \in Nodes(using) /\ e[2] \in Nodes(using)
           /\ e[1] \in Node /\ e[2] \in Node
<1>1. PICK i \in 1..(Len(using) - 1) : e = <<using[i], using[i + 1]>>
  BY DEF Edges
<1>2. i \in 1..Len(using) /\ i + 1 \in 1..Len(using)
  BY LenProperties
<1>3. using[i] \in Node /\ using[i + 1] \in Node
  BY <1>2, LenProperties
<1> QED BY <1>1, <1>2, <1>3 DEF Nodes

\* Everything but the front is done or not begun.
LEMMA OnlyFront ==
    ASSUME NEW r \in Case, Shape(r), NEW f \in Node, Front(r, f), NEW n \in Node, n # f
    PROVE  r.ns[n] \notin {"ACTIVATED", "RUNNING"}
<1>1. Ordered(r.path)
  BY CaseFields, Order DEF Shape
<1>2. CASE n \in Nodes(r.path)
  BY <1>1, <1>2 DEF Front, Ordered
<1>3. CASE n \notin Nodes(r.path)
  BY <1>3 DEF Shape
<1> QED BY <1>2, <1>3

\* Only the front can fire,
LEMMA FireableAtFront ==
    ASSUME NEW r \in Case, NEW using \in Seq(Node), Shape(r),
           NEW f \in Node, Front(r, f), Rests(r, f) \/ Moves(r, f, using),
           NEW n \in Node, Fireable(r, n, using)
    PROVE  n = f /\ r.state = "RUNNING"
<1>1. n = f
  BY OnlyFront DEF Fireable
<1> QED BY <1>1 DEF Fireable, Rests, Moves

\* and only the front can become ready.
LEMMA EvaluableAtFront ==
    ASSUME NEW r \in Case, NEW using \in Seq(Node), Shape(r),
           NEW f \in Node, Front(r, f), Rests(r, f) \/ Moves(r, f, using),
           NEW n \in Node, Evaluable(r, n, using)
    PROVE  n = f /\ r.state = "RUNNING"
<1>1. PICK e \in Edges(using) : e[2] = n /\ e \in r.signaled
  BY DEF Evaluable
<1>2. <<e[1], n>> \in r.signaled /\ e[1] \in Node
  BY <1>1, EdgeEnds
<1>3. n = f \/ r.ns[n] = "COMPLETED"
  BY <1>2 DEF Front
<1>4. n = f
  BY <1>3 DEF Evaluable
<1> QED BY <1>4 DEF Evaluable, Rests, Moves

\* A fixpoint: the case waits for a person, for a child, or has ended.
LEMMA QuietRests ==
    ASSUME NEW r \in Case, NEW using \in Seq(Node), InAdvance(r, using),
           \A n \in Node : ~Fireable(r, n, using) /\ ~Evaluable(r, n, using)
    PROVE  AtRest(r)
<1>1. PICK f \in Node : Front(r, f) /\ (Rests(r, f) \/ Moves(r, f, using))
  BY DEF InAdvance
<1>2. ASSUME Moves(r, f, using) PROVE Rests(r, f)
  <2>1. CASE r.ns[f] = "ACTIVATED" /\ f \in Nodes(using)
    <3>1. r.child[f] = NoCase
      BY <2>1 DEF InAdvance, Shape
    <3>2. TypeOf[f] = "ACTIVITY"
      BY <2>1, <3>1 DEF Fireable
    <3> QED BY <2>1, <3>2, <1>2 DEF Moves, Rests
  <2>2. CASE ~(r.ns[f] = "ACTIVATED" /\ f \in Nodes(using))
    <3>1. PICK m \in Node : r.ns[f] = "NOT_ACTIVATED" /\ <<m, f>> \in Edges(using) /\ <<m, f>> \in r.signaled
      BY <1>2, <2>2 DEF Moves
    <3>2. f \in Nodes(using)
      BY <3>1, EdgeEnds
    <3>3. Evaluable(r, f, using)
      BY <3>1, <3>2 DEF Evaluable
    <3> QED BY <3>3
  <2> QED BY <2>1, <2>2
<1> QED BY <1>1, <1>2 DEF AtRest, InAdvance

\* The fields the invariant is about.
Agrees(t, r) ==
    /\ t.state = r.state /\ t.schema = r.schema /\ t.path = r.path /\ t.child = r.child
    /\ t.ns = r.ns /\ t.signaled = r.signaled /\ t.dropped = r.dropped
    /\ t.parent = r.parent /\ t.pnode = r.pnode

\* Cases that agree on these fields rest, advance and spawn alike.
LEMMA Agreeing ==
    ASSUME NEW r, NEW t, Agrees(t, r)
    PROVE  /\ Shape(t) <=> Shape(r)
           /\ AtRest(t) <=> AtRest(r)
           /\ \A using : InAdvance(t, using) <=> InAdvance(r, using)
           /\ \A n, using : Spawning(t, n, using) <=> Spawning(r, n, using)
<1>1. Shape(t) <=> Shape(r)
  BY DEF Agrees, Shape
<1>2. \A f : Front(t, f) <=> Front(r, f)
  BY DEF Agrees, Front
<1>3. \A f : Rests(t, f) <=> Rests(r, f)
  BY DEF Agrees, Rests
<1>4. \A f, using : Moves(t, f, using) <=> Moves(r, f, using)
  BY DEF Agrees, Moves
<1>5. AtRest(t) <=> AtRest(r)
  BY <1>1, <1>2, <1>3 DEF AtRest
<1>6. \A using : InAdvance(t, using) <=> InAdvance(r, using)
  BY <1>1, <1>2, <1>3, <1>4 DEF InAdvance
<1>7. \A n, using : Spawning(t, n, using) <=> Spawning(r, n, using)
  BY <1>1, <1>2 DEF Spawning, Agrees
<1> QED BY <1>1, <1>5, <1>6, <1>7

\* t is r with f marked and the edges from f signaled.
Completes(t, r, f, using) ==
    /\ t.state = r.state /\ t.schema = r.schema /\ t.path = r.path /\ t.child = r.child
    /\ t.ns = [r.ns EXCEPT ![f] = "COMPLETED"]
    /\ t.signaled = r.signaled \cup EdgesFrom(f, using)
    /\ t.dropped = r.dropped \ EdgesFrom(f, using)
    /\ t.parent = r.parent /\ t.pnode = r.pnode

\* A completed front hands over to the next node of the schema the engine follows.
LEMMA CompletedFront ==
    ASSUME NEW r \in Case, NEW using \in Seq(Node), NEW f \in Node, NEW t,
           Shape(r), Front(r, f), r.state = "RUNNING", Along(r.path, using),
           f \in Nodes(using), TypeOf[f] # "END", Completes(t, r, f, using)
    PROVE  /\ InAdvance(t, using)
           /\ \A n \in Node : t.ns[n] # "RUNNING"
<1> DEFINE path == r.path
<1>1. /\ path \in Seq(Node) /\ Ordered(path) /\ Nodes(path) \subseteq Node
      /\ r.ns \in [Node -> States] /\ f \in Nodes(path)
  BY CaseFields, Order DEF Shape, Front
<1>2. PICK m \in Node : <<f, m>> \in Edges(using)
  BY DEF Along
<1>3. EdgesFrom(f, using) = {<<f, m>>}
  <2>1. ASSUME NEW e \in EdgesFrom(f, using) PROVE e = <<f, m>>
    <3>1. e \in Edges(using) /\ e = <<f, e[2]>> /\ e[2] \in Node
      BY <2>1, EdgeEnds DEF EdgesFrom
    <3>2. e[2] = m
      BY <3>1, <1>2 DEF Along
    <3> QED BY <3>1, <3>2
  <2>2. <<f, m>> \in EdgesFrom(f, using)
    BY <1>2 DEF EdgesFrom
  <2> QED BY <2>1, <2>2
<1>4. Before(path, f, m) /\ m \in Nodes(path) /\ m # f
  BY <1>1, <1>2 DEF Along, Ordered
<1>5. /\ t.state = "RUNNING" /\ t.schema = r.schema /\ t.path = path /\ t.child = r.child
      /\ t.ns = [r.ns EXCEPT ![f] = "COMPLETED"]
      /\ t.signaled = r.signaled \cup {<<f, m>>} /\ t.dropped \subseteq r.dropped
  BY <1>3 DEF Completes
<1>6. Shape(t)
  <2>1. ASSUME NEW n \in Node
        PROVE  /\ t.ns[n] = "none" <=> n \notin Nodes(path)
               /\ t.child[n] # NoCase => TypeOf[n] = "SUBPROCESS" /\ t.ns[n] \in {"RUNNING", "COMPLETED"}
               /\ t.ns[n] = "RUNNING" => t.child[n] # NoCase
    BY <1>1, <1>5 DEF Shape
  <2>2. t.dropped \cap Edges(path) = {}
    BY <1>5 DEF Shape
  <2> QED BY <2>1, <2>2, <1>5 DEF Shape
<1>7. Front(t, m)
  <2>1. ASSUME NEW n \in Nodes(path)
        PROVE  /\ Before(path, m, n) => t.ns[n] = "NOT_ACTIVATED"
               /\ Before(path, n, m) => t.ns[n] \in {"NOT_ACTIVATED", "COMPLETED"}
    <3>1. n # f => /\ t.ns[n] = r.ns[n]
                   /\ Before(path, f, n) => r.ns[n] = "NOT_ACTIVATED"
                   /\ Before(path, n, f) => r.ns[n] \in {"NOT_ACTIVATED", "COMPLETED"}
      BY <1>1, <1>5 DEF Front
    <3>2. t.ns[f] = "COMPLETED"
      BY <1>1, <1>5
    <3>3. Before(path, m, n) => n # f /\ Before(path, f, n)
      BY <1>1, <1>4 DEF Ordered
    <3>4. n = f \/ Before(path, f, n) \/ Before(path, n, f)
      BY <1>1 DEF Ordered
    <3> QED BY <3>1, <3>2, <3>3, <3>4
  <2>2. ASSUME NEW a \in Node, NEW b \in Node, <<a, b>> \in t.signaled
        PROVE  /\ Before(path, a, b) /\ t.ns[a] = "COMPLETED"
               /\ b = m \/ (Before(path, b, m) /\ t.ns[b] = "COMPLETED")
    <3>1. CASE <<a, b>> = <<f, m>>
      BY <3>1, <1>1, <1>4, <1>5
    <3>2. CASE <<a, b>> \in r.signaled
      <4>1. /\ Before(path, a, b) /\ r.ns[a] = "COMPLETED"
            /\ b = f \/ (Before(path, b, f) /\ r.ns[b] = "COMPLETED")
        BY <3>2 DEF Front
      <4>2. Before(path, b, f) => Before(path, b, m)
        BY <1>1, <1>4 DEF Ordered
      <4> QED BY <4>1, <4>2, <1>1, <1>4, <1>5
    <3> QED BY <3>1, <3>2, <2>2, <1>5
  <2>3. ASSUME HasLoop(path)
        PROVE  /\ t.signaled \subseteq Edges(path)
               /\ \A a, b \in Node : <<a, b>> \in Edges(path) /\ Before(path, a, m) =>
                      t.ns[a] = "COMPLETED" /\ <<a, b>> \in t.signaled
    <3>1. using = path
      BY <2>3 DEF Along
    <3>2. t.signaled \subseteq Edges(path)
      BY <3>1, <2>3, <1>2, <1>5 DEF Front
    <3>3. ASSUME NEW a \in Node, NEW b \in Node, <<a, b>> \in Edges(path), Before(path, a, m)
          PROVE  t.ns[a] = "COMPLETED" /\ <<a, b>> \in t.signaled
      <4>1. a = f \/ Before(path, a, f)
        BY <3>1, <3>3, <1>1, <1>2 DEF Ordered
      <4>2. CASE a = f
        <5>1. b = m
          BY <4>2, <3>1, <3>3, <1>2 DEF Along
        <5> QED BY <4>2, <5>1, <1>1, <1>5
      <4>3. CASE Before(path, a, f)
        BY <4>3, <2>3, <3>3, <1>1, <1>5 DEF Front
      <4> QED BY <4>1, <4>2, <4>3
    <3> QED BY <3>2, <3>3
  <2> QED BY <1>4, <1>5, <2>1, <2>2, <2>3 DEF Front
<1>8. Moves(t, m, using)
  <2>1. r.ns[m] = "NOT_ACTIVATED"
    BY <1>4 DEF Front
  <2> QED BY <2>1, <1>1, <1>2, <1>4, <1>5 DEF Moves
<1>9. ASSUME NEW n \in Node PROVE t.ns[n] # "RUNNING"
  BY <1>1, <1>5, OnlyFront
<1> QED BY <1>6, <1>7, <1>8, <1>9 DEF InAdvance

-----------------------------------------------------------------------------
(***************************************************************************)
(* What the engine does at the front: mark it, go back to the LOOP_START.  *)
(***************************************************************************)

\* Only the marking of the front changes, to one that is not RUNNING.
Marks(t, r, f, s) ==
    /\ t.schema = r.schema /\ t.path = r.path /\ t.child = r.child
    /\ t.signaled = r.signaled /\ t.dropped = r.dropped
    /\ t.ns = [r.ns EXCEPT ![f] = s]

\* The front stays the front.
LEMMA MarkedFront ==
    ASSUME NEW r \in Case, NEW f \in Node, NEW t, NEW s, s \in {"ACTIVATED", "COMPLETED"},
           Shape(r), Front(r, f), r.ns[f] \in {"NOT_ACTIVATED", "ACTIVATED"}, Marks(t, r, f, s)
    PROVE  Shape(t) /\ Front(t, f) /\ \A n \in Node : t.ns[n] # "RUNNING"
<1> USE DEF Marks
<1>1. /\ r.ns \in [Node -> States] /\ f \in Nodes(r.path) /\ Ordered(r.path)
  BY CaseFields, Order DEF Shape, Front
<1>2. Shape(t)
  <2>1. ASSUME NEW n \in Node
        PROVE  /\ t.ns[n] = "none" <=> n \notin Nodes(r.path)
               /\ t.child[n] # NoCase => TypeOf[n] = "SUBPROCESS" /\ t.ns[n] \in {"RUNNING", "COMPLETED"}
               /\ t.ns[n] = "RUNNING" => t.child[n] # NoCase
    BY <1>1 DEF Shape
  <2> QED BY <2>1 DEF Shape
<1>3. Front(t, f)
  <2>1. ASSUME NEW n \in Nodes(r.path)
        PROVE  /\ Before(r.path, f, n) => t.ns[n] = "NOT_ACTIVATED"
               /\ Before(r.path, n, f) => t.ns[n] \in {"NOT_ACTIVATED", "COMPLETED"}
    BY <1>1 DEF Front, Ordered
  <2>2. ASSUME NEW m \in Node, NEW n \in Node, <<m, n>> \in r.signaled
        PROVE  /\ Before(r.path, m, n) /\ t.ns[m] = "COMPLETED"
               /\ n = f \/ (Before(r.path, n, f) /\ t.ns[n] = "COMPLETED")
    BY <1>1, <2>2 DEF Front, Ordered
  <2>3. ASSUME HasLoop(r.path), NEW m \in Node, NEW n \in Node, <<m, n>> \in Edges(r.path),
               Before(r.path, m, f)
        PROVE  t.ns[m] = "COMPLETED" /\ <<m, n>> \in r.signaled
    BY <1>1, <2>3 DEF Front, Ordered
  <2> QED BY <1>1, <2>1, <2>2, <2>3 DEF Front
<1>4. ASSUME NEW n \in Node PROVE t.ns[n] # "RUNNING"
  BY <1>1, OnlyFront
<1> QED BY <1>2, <1>3, <1>4

\* What the engine takes for the loop block are the nodes from the LOOP_START to the
\* LOOP_END.
LEMMA LoopBlockIs ==
    ASSUME NEW path \in Seq(Node), Regular(path),
           NEW ls \in Nodes(path), TypeOf[ls] = "LOOP_START",
           NEW le \in Nodes(path), TypeOf[le] = "LOOP_END"
    PROVE  \A n : n \in LoopBlock(path) <=>
                      n \in Nodes(path) /\ ~Before(path, n, ls) /\ ~Before(path, le, n)
<1> DEFINE first == CHOOSE i \in 1..Len(path) : TypeOf[path[i]] = "LOOP_START"
           last  == CHOOSE i \in 1..Len(path) : TypeOf[path[i]] = "LOOP_END"
<1>1. first \in 1..Len(path) /\ TypeOf[path[first]] = "LOOP_START"
  <2>1. \E i \in 1..Len(path) : TypeOf[path[i]] = "LOOP_START"
    BY DEF Nodes
  <2> QED BY <2>1
<1>2. last \in 1..Len(path) /\ TypeOf[path[last]] = "LOOP_END"
  <2>1. \E i \in 1..Len(path) : TypeOf[path[i]] = "LOOP_END"
    BY DEF Nodes
  <2> QED BY <2>1
<1>3. LoopBlock(path) = {path[i] : i \in first..last}
  BY DEF LoopBlock
<1> HIDE DEF first, last
<1>4. Ordered(path) /\ Len(path) \in Nat /\ \A i, j \in 1..Len(path) : path[i] = path[j] => i = j
  BY Order, LenProperties DEF Regular
<1>5. path[first] = ls /\ path[last] = le
  <2>1. path[first] \in Nodes(path) /\ path[last] \in Nodes(path)
    BY <1>1, <1>2 DEF Nodes
  <2> QED BY <2>1, <1>1, <1>2, <1>4 DEF Ordered, LoopTypes
<1>6. ASSUME NEW n \in LoopBlock(path)
      PROVE  n \in Nodes(path) /\ ~Before(path, n, ls) /\ ~Before(path, le, n)
  <2>1. PICK i \in first..last : n = path[i]
    BY <1>3
  <2>2. i \in 1..Len(path) /\ first <= i /\ i <= last
    BY <1>1, <1>2
  <2>3. n \in Nodes(path)
    BY <2>1, <2>2 DEF Nodes
  <2>4. ASSUME Before(path, n, ls) PROVE FALSE
    <3>1. PICK g, h \in 1..Len(path) : g < h /\ path[g] = n /\ path[h] = ls
      BY <2>4 DEF Before
    <3>2. g = i /\ h = first
      BY <3>1, <2>1, <2>2, <1>1, <1>4, <1>5
    <3> QED BY <3>1, <3>2, <2>2
  <2>5. ASSUME Before(path, le, n) PROVE FALSE
    <3>1. PICK g, h \in 1..Len(path) : g < h /\ path[g] = le /\ path[h] = n
      BY <2>5 DEF Before
    <3>2. g = last /\ h = i
      BY <3>1, <2>1, <2>2, <1>2, <1>4, <1>5
    <3> QED BY <3>1, <3>2, <2>2
  <2> QED BY <2>3, <2>4, <2>5
<1>7. ASSUME NEW n \in Nodes(path), ~Before(path, n, ls), ~Before(path, le, n)
      PROVE  n \in LoopBlock(path)
  <2>1. PICK i \in 1..Len(path) : n = path[i]
    BY DEF Nodes
  <2>2. ~(i < first)
    BY <2>1, <1>1, <1>5, <1>7 DEF Before
  <2>3. ~(last < i)
    BY <2>1, <1>2, <1>5, <1>7 DEF Before
  <2>4. i \in first..last
    BY <2>2, <2>3, <1>1, <1>2
  <2> QED BY <2>1, <2>4, <1>3
<1> QED BY <1>6, <1>7

\* The LOOP_END at the front sends the case back to its LOOP_START.
LEMMA ResetFront ==
    ASSUME NEW r \in Case, NEW f \in Node, Shape(r), Front(r, f), r.state = "RUNNING",
           r.ns[f] = "ACTIVATED", TypeOf[f] = "LOOP_END"
    PROVE  LET t == ResetLoopBlock(r, r.path)
           IN  InAdvance(t, r.path) /\ \A n \in Node : t.ns[n] # "RUNNING"
<1> DEFINE path  == r.path
           block == LoopBlock(path)
           t     == ResetLoopBlock(r, path)
<1>1. /\ path \in Seq(Node) /\ Ordered(path) /\ Regular(path) /\ Nodes(path) \subseteq Node
      /\ r.ns \in [Node -> States] /\ r.child \in [Node -> CaseId \cup {NoCase}]
      /\ f \in Nodes(path)
  BY CaseFields, Order DEF Shape, Front
<1>2. PICK ls \in Nodes(path) : TypeOf[ls] = "LOOP_START" /\ Before(path, ls, f)
  BY <1>1 DEF Ordered
<1>3. \A n : n \in block <=> n \in Nodes(path) /\ ~Before(path, n, ls) /\ ~Before(path, f, n)
  BY <1>1, <1>2, LoopBlockIs
<1>4. /\ t.state = "RUNNING" /\ t.schema = r.schema /\ t.path = path
      /\ t.ns = [n \in Node |-> IF n \in block THEN "NOT_ACTIVATED" ELSE r.ns[n]]
      /\ t.child = [n \in Node |-> IF n \in block THEN NoCase ELSE r.child[n]]
      /\ t.signaled = r.signaled \ LoopEdges(path) /\ t.dropped \subseteq r.dropped
  BY DEF ResetLoopBlock, Case
<1> HIDE DEF t, block
<1>5. /\ r.signaled \subseteq Edges(path)
      /\ \A m, n \in Node : <<m, n>> \in Edges(path) /\ Before(path, m, f) =>
             r.ns[m] = "COMPLETED" /\ <<m, n>> \in r.signaled
  <2>1. HasLoop(path)
    BY <1>1 DEF HasLoop, LoopTypes
  <2> QED BY <2>1 DEF Front
<1>6. \A m, n : <<m, n>> \in LoopEdges(path) <=> <<m, n>> \in Edges(path) /\ m \in block /\ n \in block
  BY DEF LoopEdges, block
<1>7. ls \in block /\ ls \in Node /\ ls # f
  BY <1>1, <1>2, <1>3 DEF Ordered
<1>8. Shape(t)
  <2>1. ASSUME NEW n \in Node
        PROVE  /\ t.ns[n] = "none" <=> n \notin Nodes(path)
               /\ t.child[n] # NoCase => TypeOf[n] = "SUBPROCESS" /\ t.ns[n] \in {"RUNNING", "COMPLETED"}
               /\ t.ns[n] = "RUNNING" => t.child[n] # NoCase
    BY <1>1, <1>3, <1>4 DEF Shape
  <2>2. t.dropped \cap Edges(path) = {}
    BY <1>4 DEF Shape
  <2> QED BY <2>1, <2>2, <1>4 DEF Shape
<1>9. ASSUME NEW m \in Nodes(path), Before(path, m, ls)
      PROVE  m \notin block /\ m \in Node /\ Before(path, m, f) /\ t.ns[m] = r.ns[m]
  BY <1>9, <1>1, <1>2, <1>3, <1>4 DEF Ordered
<1>10. Front(t, ls)
  <2>1. ASSUME NEW n \in Nodes(path)
        PROVE  /\ Before(path, ls, n) => t.ns[n] = "NOT_ACTIVATED"
               /\ Before(path, n, ls) => t.ns[n] \in {"NOT_ACTIVATED", "COMPLETED"}
    <3>1. CASE Before(path, n, ls)
      <4>1. ~Before(path, ls, n)
        BY <3>1, <1>1 DEF Ordered
      <4> QED BY <3>1, <4>1, <1>9 DEF Front
    <3>2. CASE ~Before(path, n, ls) /\ ~Before(path, f, n)
      BY <3>2, <1>1, <1>3, <1>4
    <3>3. CASE ~Before(path, n, ls) /\ Before(path, f, n)
      BY <3>3, <1>1, <1>3, <1>4 DEF Front
    <3> QED BY <3>1, <3>2, <3>3
  <2>2. ASSUME NEW m \in Node, NEW n \in Node, <<m, n>> \in t.signaled
        PROVE  /\ Before(path, m, n) /\ t.ns[m] = "COMPLETED"
               /\ n = ls \/ (Before(path, n, ls) /\ t.ns[n] = "COMPLETED")
    <3>1. /\ <<m, n>> \in Edges(path) /\ ~(m \in block /\ n \in block)
          /\ Before(path, m, n) /\ r.ns[m] = "COMPLETED"
          /\ n = f \/ (Before(path, n, f) /\ r.ns[n] = "COMPLETED")
          /\ m \in Nodes(path) /\ n \in Nodes(path)
      BY <2>2, <1>1, <1>4, <1>5, <1>6 DEF Front, Ordered
    <3>2. ~Before(path, f, n) /\ ~Before(path, f, m)
      BY <3>1, <1>1 DEF Ordered
    <3>3. Before(path, m, ls)
      <4>1. CASE m \notin block
        BY <4>1, <3>1, <3>2, <1>3
      <4>2. CASE n \notin block
        BY <4>2, <3>1, <3>2, <1>1, <1>3 DEF Ordered
      <4> QED BY <4>1, <4>2, <3>1
    <3>4. n = ls \/ Before(path, n, ls)
      BY <3>1, <3>3, <1>1 DEF Ordered
    <3>5. Before(path, n, ls) => r.ns[n] = "COMPLETED"
      BY <3>1, <1>1, <1>2 DEF Ordered
    <3> QED BY <3>1, <3>3, <3>4, <3>5, <1>9
  <2>3. t.signaled \subseteq Edges(path)
    BY <1>4, <1>5
  <2>4. ASSUME NEW m \in Node, NEW n \in Node, <<m, n>> \in Edges(path), Before(path, m, ls)
        PROVE  t.ns[m] = "COMPLETED" /\ <<m, n>> \in t.signaled
    <3>1. m \in Nodes(path)
      BY <2>4, <1>1 DEF Ordered
    <3>2. m \notin block /\ Before(path, m, f) /\ t.ns[m] = r.ns[m]
      BY <3>1, <2>4, <1>9
    <3> QED BY <3>2, <2>4, <1>4, <1>5, <1>6
  <2> QED BY <1>4, <2>1, <2>2, <2>3, <2>4 DEF Front
<1>11. Moves(t, ls, path)
  <2>1. PICK m \in Node : <<m, ls>> \in Edges(path)
    BY <1>1, <1>2 DEF Ordered
  <2>2. Before(path, m, ls) /\ m \in Nodes(path)
    BY <2>1, <1>1 DEF Ordered
  <2>3. <<m, ls>> \in t.signaled
    BY <2>1, <2>2, <1>4, <1>5, <1>6, <1>7, <1>9
  <2> QED BY <2>1, <2>3, <1>4, <1>7 DEF Moves
<1>12. ASSUME NEW n \in Node PROVE t.ns[n] # "RUNNING"
  BY <1>4, OnlyFront
<1>13. InAdvance(t, path)
  BY <1>7, <1>8, <1>10, <1>11 DEF InAdvance
<1> QED BY <1>12, <1>13 DEF t

\* A new case stands at its START.
LEMMA NewCaseMoves ==
    ASSUME NEW s \in Schema, NEW parent \in CaseId \cup {NoCase}, NEW n \in Node \cup {NoNode}
    PROVE  /\ NewCase(s, parent, n) \in Case
           /\ InAdvance(NewCase(s, parent, n), Chain[s])
<1> DEFINE r    == NewCase(s, parent, n)
           path == Chain[s]
<1>1. path \in Seq(Node) /\ Regular(path) /\ Ordered(path) /\ Varies(path, path)
  BY ChainRegular, Order
<1>2. /\ r.state = "RUNNING" /\ r.schema = s /\ r.path = path /\ r.signaled = {} /\ r.dropped = {}
      /\ r.child = [m \in Node |-> NoCase]
      /\ r.ns = [m \in Node |-> IF m \notin Nodes(path) THEN "none"
                                ELSE IF TypeOf[m] = "START" THEN "ACTIVATED" ELSE "NOT_ACTIVATED"]
  BY DEF NewCase
<1>3. r \in Case
  <2>1. r.ns \in [Node -> States]
    BY <1>2 DEF States
  <2>2. 0 \in 0..MaxRounds
    BY TreeTypes
  <2> QED BY <1>1, <1>2, <2>1, <2>2 DEF NewCase, Case
<1> HIDE DEF r
<1>4. Shape(r)
  BY <1>1, <1>2 DEF Shape
<1>5. PICK f \in Nodes(path) : TypeOf[f] = "START"
  BY <1>1 DEF Ordered
<1>6. f \in Node /\ \A m : ~Before(path, m, f)
  BY <1>1, <1>5 DEF Ordered
<1>7. Front(r, f)
  <2>1. ASSUME NEW m \in Nodes(path), Before(path, f, m) PROVE r.ns[m] = "NOT_ACTIVATED"
    <3>1. TypeOf[m] # "START" /\ m \in Node
      BY <2>1, <1>1 DEF Ordered
    <3> QED BY <3>1, <1>2
  <2> QED BY <2>1, <1>2, <1>5, <1>6 DEF Front
<1>8. Moves(r, f, path)
  BY <1>2, <1>5, <1>6 DEF Moves
<1> QED BY <1>3, <1>4, <1>6, <1>7, <1>8 DEF InAdvance, r

-----------------------------------------------------------------------------
(***************************************************************************)
(* Types of the stack and of what the engine makes of a case.              *)
(***************************************************************************)

-----------------------------------------------------------------------------
(***************************************************************************)
(* Types.                                                                  *)
(***************************************************************************)

Kin(w) == \A c \in CaseId : w[c].parent # NoCase => w[c].pnode \in Node

\* A node is joined under the pnode of a case that has a parent.
TypeInv ==
    /\ TypeOK /\ Kin(cases) /\ Kin(work)
    /\ \A i \in 2..Len(stack) : work[stack[i].case].parent # NoCase

\* The frames of the stack name cases and schemas.
LEMMA Frames ==
    ASSUME TypeOK
    PROVE  /\ Len(stack) \in Nat
           /\ \A i \in 1..Len(stack) : stack[i].case \in CaseId /\ stack[i].using \in Seq(Node)
           /\ stack # <<>> => /\ Len(stack) \in 1..Len(stack)
                              /\ Top.case \in CaseId /\ Top.using \in Seq(Node)
                              /\ work[Top.case] \in Case
<1> DEFINE F == [case : CaseId, using : Seq(Node)]
<1>1. stack \in Seq(F) /\ Len(stack) \in Nat
  BY LenProperties DEF TypeOK
<1>2. \A i \in 1..Len(stack) : stack[i] \in F
  BY <1>1, LenProperties
<1>3. \A i \in 1..Len(stack) : stack[i].case \in CaseId /\ stack[i].using \in Seq(Node)
  BY <1>2
<1>4. stack # <<>> => Len(stack) \in 1..Len(stack)
  BY <1>1, EmptySeq
<1>5. work \in [CaseId -> Case]
  BY DEF TypeOK
<1> QED BY <1>1, <1>3, <1>4, <1>5 DEF Top

\* The stack without its last frame, and with one more.
PoppedFrom(s, stk) ==
    /\ s \in Seq([case : CaseId, using : Seq(Node)]) /\ s # <<>>
    /\ Len(s) = Len(stk) - 1 /\ \A i \in 1..Len(s) : s[i] = stk[i]

PushedOn(s, stk, c, using) ==
    /\ s \in Seq([case : CaseId, using : Seq(Node)]) /\ s # <<>>
    /\ Len(s) = Len(stk) + 1 /\ Len(stk) \in Nat
    /\ s[Len(stk) + 1].case = c /\ s[Len(stk) + 1].using = using
    /\ \A i \in 1..Len(stk) : s[i] = stk[i]

\* The copy of the stack the end of a spawn leaves, and the one a spawn makes.
LEMMA Popped ==
    ASSUME TypeOK, Len(stack) > 1, NEW s, s = SubSeq(stack, 1, Len(stack) - 1)
    PROVE  PoppedFrom(s, stack)
<1> DEFINE F == [case : CaseId, using : Seq(Node)]
<1>1. stack \in Seq(F) /\ Len(stack) \in Nat
  BY LenProperties DEF TypeOK
<1>2. \A i \in 1..(Len(stack) - 1) : stack[i] \in F
  <2>1. \A i \in 1..Len(stack) : stack[i] \in F
    BY <1>1, ElementOfSeq
  <2> QED BY <2>1, <1>1
<1> HIDE DEF F
<1>3. /\ s \in Seq(F)
      /\ Len(s) = IF 1 <= Len(stack) - 1 THEN (Len(stack) - 1) - 1 + 1 ELSE 0
      /\ \A i \in 1..((Len(stack) - 1) - 1 + 1) : s[i] = stack[1 + i - 1]
  BY <1>1, <1>2, SubSeqProperties
<1>4. Len(s) = Len(stack) - 1 /\ Len(s) > 0
  BY <1>1, <1>3
<1>5. s # <<>>
  <2>1. Len(<<>>) = 0
    BY EmptySeq
  <2>2. ASSUME s = <<>> PROVE FALSE
    <3>1. Len(s) = 0
      BY <2>1, <2>2, Zenon
    <3> QED BY <3>1, <1>4
  <2> QED BY <2>2
<1>6. ASSUME NEW i \in 1..Len(s) PROVE s[i] = stack[i]
  BY <1>1, <1>3, <1>4
<1> QED BY <1>3, <1>4, <1>5, <1>6 DEF F, PoppedFrom

\* See Popped.
LEMMA Pushed ==
    ASSUME TypeOK, NEW c \in CaseId, NEW using \in Seq(Node)
    PROVE  PushedOn(Append(stack, [case |-> c, using |-> using]), stack, c, using)
<1> DEFINE F == [case : CaseId, using : Seq(Node)]
           s == Append(stack, [case |-> c, using |-> using])
<1>1. stack \in Seq(F) /\ Len(stack) \in Nat
  BY LenProperties DEF TypeOK
<1>2. [case |-> c, using |-> using] \in F
  OBVIOUS
<1> HIDE DEF F
<1>3. /\ s \in Seq(F) /\ s # <<>> /\ Len(s) = Len(stack) + 1
      /\ \A i \in 1..Len(stack) : s[i] = stack[i]
      /\ s[Len(stack) + 1] = [case |-> c, using |-> using]
  BY <1>1, <1>2, AppendProperties
<1> HIDE DEF s
<1>4. PushedOn(s, stack, c, using)
  BY <1>1, <1>3 DEF F, PushedOn
<1> QED BY <1>4 DEF s

\* A stack of one frame.
LEMMA Single ==
    ASSUME NEW c \in CaseId, NEW using \in Seq(Node), NEW s, s = <<[case |-> c, using |-> using]>>
    PROVE  /\ s \in Seq([case : CaseId, using : Seq(Node)]) /\ Len(s) = 1 /\ s # <<>>
           /\ s[1].case = c /\ s[1].using = using
OBVIOUS

\* The types of what the engine makes of a case.
LEMMA CompletedCase ==
    ASSUME NEW r \in Case, NEW f \in Node, NEW using \in Seq(Node)
    PROVE  /\ CompleteNode(r, f, using) \in Case
           /\ Completes(CompleteNode(r, f, using), r, f, using)
           /\ Join(r, f, using) \in Case
           /\ Completes(Join(r, f, using), r, f, using)
<1>1. EdgesFrom(f, using) \subseteq Node \X Node
  <2>1. ASSUME NEW e \in EdgesFrom(f, using) PROVE e \in Node \X Node
    BY <2>1, EdgeEnds DEF EdgesFrom
  <2> QED BY <2>1
<1> DEFINE t == CompleteNode(r, f, using)
<1>2. t \in Case /\ Completes(t, r, f, using)
  BY <1>1 DEF Case, CompleteNode, Completes, States
<1>3. Join(r, f, using) = [t EXCEPT !.unaudited = @ \cup {f}]
  BY DEF Join
<1> HIDE DEF t
<1>4. /\ Join(r, f, using) \in Case
      /\ Agrees(Join(r, f, using), t)
  <2>1. Join(r, f, using) \in Case
    <3>1. t.unaudited \cup {f} \in SUBSET Node
      BY <1>2 DEF Case
    <3> QED BY <3>1, <1>2, <1>3 DEF Case
  <2>2. Agrees(Join(r, f, using), t)
    BY <1>2, <1>3 DEF Case, Agrees
  <2> QED BY <2>1, <2>2
<1>5. Completes(Join(r, f, using), r, f, using)
  BY <1>2, <1>4 DEF Completes, Agrees
<1> QED BY <1>2, <1>4, <1>5 DEF t

\* See CompletedCase.
LEMMA ResetCase ==
    ASSUME NEW r \in Case, r.rounds < MaxRounds, NEW using \in Seq(Node)
    PROVE  /\ ResetLoopBlock(r, using) \in Case
           /\ ResetLoopBlock(r, using).parent = r.parent
           /\ ResetLoopBlock(r, using).pnode = r.pnode
<1> DEFINE block == LoopBlock(using)
           ns2 == [n \in Node |-> IF n \in block THEN "NOT_ACTIVATED" ELSE r.ns[n]]
           ch2 == [n \in Node |-> IF n \in block THEN NoCase ELSE r.child[n]]
<1>1. ns2 \in [Node -> States] /\ ch2 \in [Node -> CaseId \cup {NoCase}]
  BY DEF Case, States
<1>2. r.rounds + 1 \in 0..MaxRounds
  BY TreeTypes DEF Case
<1>3. ResetLoopBlock(r, using) = [r EXCEPT !.ns = ns2, !.signaled = @ \ LoopEdges(using),
              !.dropped = @ \ LoopEdges(using), !.child = ch2, !.rounds = @ + 1]
  BY DEF ResetLoopBlock
<1> HIDE DEF ns2, ch2, block
<1>4. ResetLoopBlock(r, using) \in Case
  <2> DEFINE signaled == r.signaled \ LoopEdges(using)
             dropped  == r.dropped \ LoopEdges(using)
  <2>1. signaled \in SUBSET (Node \X Node) /\ dropped \in SUBSET (Node \X Node)
    BY DEF Case
  <2>2. ResetLoopBlock(r, using) = [r EXCEPT !.ns = ns2, !.signaled = signaled,
              !.dropped = dropped, !.child = ch2, !.rounds = r.rounds + 1]
    BY <1>3
  <2> HIDE DEF signaled, dropped
  <2> DEFINE one == [r EXCEPT !.ns = ns2, !.signaled = signaled, !.dropped = dropped]
  <2>3. one \in Case
    BY <2>1, <1>1 DEF Case
  <2>4. ResetLoopBlock(r, using) = [one EXCEPT !.child = ch2, !.rounds = r.rounds + 1]
    BY <2>2 DEF Case
  <2> HIDE DEF one
  <2> QED BY <2>3, <2>4, <1>1, <1>2 DEF Case
<1>5. /\ ResetLoopBlock(r, using).parent = r.parent
      /\ ResetLoopBlock(r, using).pnode = r.pnode
  BY <1>3 DEF Case
<1> QED BY <1>4, <1>5

\* The same place in the tree.
SameKin(t, r) == t.parent = r.parent /\ t.pnode = r.pnode

\* See CompletedCase.
LEMMA WaitingCase ==
    ASSUME TypeOK, NEW r \in Case, NEW n \in Node, NEW new \in CaseId, NEW using \in Seq(Node)
    PROVE  /\ [r EXCEPT !.ns[n] = "RUNNING", !.child[n] = new] \in Case
           /\ WaitFor(r, n, new, using) \in Case
           /\ SameKin(WaitFor(r, n, new, using), r)
<1> DEFINE waiting == [r EXCEPT !.ns[n] = "RUNNING", !.child[n] = new]
<1>1. waiting \in Case /\ waiting.parent = r.parent /\ waiting.pnode = r.pnode
  BY DEF Case, States
<1>2. WaitFor(r, n, new, using) = IF work[new].state = "COMPLETED" THEN Join(waiting, n, using) ELSE waiting
  BY DEF WaitFor
<1> HIDE DEF waiting
<1>3. Join(waiting, n, using) \in Case /\ Completes(Join(waiting, n, using), waiting, n, using)
  BY <1>1, CompletedCase
<1>4. WaitFor(r, n, new, using) \in Case /\ SameKin(WaitFor(r, n, new, using), r)
  BY <1>1, <1>2, <1>3 DEF Completes, SameKin
<1> QED BY <1>1, <1>4 DEF waiting

-----------------------------------------------------------------------------
(***************************************************************************)
(* Types: every action keeps them.                                         *)
(***************************************************************************)

\* A step of the case on top of the stack keeps the types, if it keeps its place.
LEMMA TypedStep ==
    ASSUME TypeInv, NEW c \in CaseId, NEW t \in Case, t.parent = work[c].parent,
           t.pnode = work[c].pnode, Step(c, t)
    PROVE  TypeInv'
<1>1. /\ work \in [CaseId -> Case] /\ work' = [work EXCEPT ![c] = t] /\ work' \in [CaseId -> Case]
      /\ UNCHANGED <<cases, stack, origin, baseline, walk, refusal>>
  BY DEF TypeInv, TypeOK, Step
<1>2. ASSUME NEW d \in CaseId PROVE work'[d].parent = work[d].parent /\ work'[d].pnode = work[d].pnode
  BY <1>1
<1>3. TypeOK'
  BY <1>1 DEF TypeInv, TypeOK
<1>4. Kin(cases)' /\ Kin(work)'
  BY <1>1, <1>2 DEF TypeInv, Kin
<1>5. ASSUME NEW i \in 2..Len(stack) PROVE work'[stack[i].case].parent # NoCase
  <2>1. stack[i].case \in CaseId
    BY Frames DEF TypeInv
  <2> QED BY <2>1, <1>2 DEF TypeInv
<1> QED BY <1>1, <1>3, <1>4, <1>5 DEF TypeInv

\* Requests,
LEMMA TypedRequests ==
    ASSUME TypeInv,
           \/ Instantiate
           \/ \E c \in CaseId, n \in Node : CompleteActivity(c, n)
           \/ \E c \in CaseId, x \in Inserted : AdhocInsert(c, x)
           \/ \E c \in CaseId, x \in Deletable : AdhocDelete(c, x)
    PROVE  TypeInv'
<1>1. /\ TypeOK /\ cases \in [CaseId -> Case] /\ work \in [CaseId -> Case]
      /\ Inserted \subseteq Node /\ Deletable \subseteq Node
  BY TreeTypes DEF TypeInv, TypeOK
<1>2. ASSUME NEW c \in CaseId, NEW w \in Case, NEW using \in Seq(Node), NEW ready \in SUBSET Node,
             w.parent # NoCase => w.pnode \in Node, Open(c, w, using, ready)
      PROVE  TypeInv'
  <2>1. /\ work' = [work EXCEPT ![c] = w] /\ work' \in [CaseId -> Case]
        /\ stack' = <<[case |-> c, using |-> using]>>
        /\ origin' = c /\ baseline' = ready /\ refusal' = "" /\ cases' = cases /\ walk' = walk
    BY <1>1, <1>2 DEF Open
  <2>2. stack' \in Seq([case : CaseId, using : Seq(Node)]) /\ Len(stack') = 1
    <3>1. \A s : s = <<[case |-> c, using |-> using]>> =>
              s \in Seq([case : CaseId, using : Seq(Node)]) /\ Len(s) = 1
      BY Single
    <3> QED BY <3>1, <2>1, Zenon
  <2>3. TypeOK'
    BY <2>1, <2>2, <1>1 DEF TypeOK
  <2>4. Kin(cases)' /\ Kin(work)'
    BY <2>1, <1>1, <1>2 DEF TypeInv, Kin
  <2> QED BY <2>2, <2>3, <2>4 DEF TypeInv
<1>3. CASE Instantiate
  <2>1. /\ Open(Root, NewCase(RootSchema, NoCase, NoNode), Chain[RootSchema], {})
        /\ Chain[RootSchema] \in Seq(Node) /\ Root \in CaseId /\ RootSchema \in Schema
    BY <1>3, TreeTypes DEF Instantiate
  <2>2. NewCase(RootSchema, NoCase, NoNode) \in Case
    BY <2>1, NewCaseMoves
  <2>3. NewCase(RootSchema, NoCase, NoNode).parent = NoCase
    BY DEF NewCase
  <2> QED BY <2>1, <2>2, <2>3, <1>2
<1>4. ASSUME NEW c \in CaseId, NEW n \in Node, CompleteActivity(c, n) PROVE TypeInv'
  <2>1. Open(c, CompleteNode(cases[c], n, cases[c].path), cases[c].path, Baseline(c, n))
    BY <1>4 DEF CompleteActivity
  <2>2. cases[c] \in Case /\ cases[c].path \in Seq(Node) /\ Nodes(cases[c].path) \subseteq Node
    BY <1>1, CaseFields
  <2>3. /\ CompleteNode(cases[c], n, cases[c].path) \in Case
        /\ Completes(CompleteNode(cases[c], n, cases[c].path), cases[c], n, cases[c].path)
    BY <2>2, CompletedCase
  <2>4. Baseline(c, n) \subseteq Node
    BY <2>2 DEF Baseline, ReadySteps
  <2>5. CompleteNode(cases[c], n, cases[c].path).parent # NoCase
            => CompleteNode(cases[c], n, cases[c].path).pnode \in Node
    BY <2>3 DEF Completes, TypeInv, Kin
  <2> HIDE DEF CompleteNode
  <2> QED BY <2>1, <2>2, <2>3, <2>4, <2>5, <1>2
<1>5. ASSUME NEW c \in CaseId, NEW t \in Case, StoreChange(c, t),
             t.parent = cases[c].parent, t.pnode = cases[c].pnode, stack = <<>>
      PROVE  TypeInv'
  <2>1. /\ cases' = [cases EXCEPT ![c] = t] /\ cases' \in [CaseId -> Case] /\ work' = cases' /\ refusal' = ""
        /\ UNCHANGED <<stack, origin, baseline, walk>>
    BY <1>1, <1>5 DEF StoreChange
  <2>2. TypeOK'
    BY <2>1 DEF TypeInv, TypeOK
  <2>3. Kin(cases)' /\ Kin(work)'
    BY <2>1, <1>1, <1>5 DEF TypeInv, Kin
  <2>4. Len(stack') = 0
    BY <2>1, <1>5
  <2> QED BY <2>2, <2>3, <2>4 DEF TypeInv
<1>6. ASSUME NEW c \in CaseId, NEW x \in Inserted, AdhocInsert(c, x) PROVE TypeInv'
  <2> DEFINE path == cases[c].path
             After(i) == [cases[c] EXCEPT
               !.path = SubSeq(path, 1, i) \o <<x>> \o SubSeq(path, i + 1, Len(path)),
               !.ns[x] = "NOT_ACTIVATED",
               !.dropped = (@ \cup {<<path[i], path[i + 1]>>}) \ {<<path[i], x>>, <<x, path[i + 1]>>}]
  <2>1. PICK i \in 1..(Len(path) - 1) : StoreChange(c, After(i)) /\ stack = <<>>
    BY <1>6, Zenon DEF AdhocInsert, Busy
  <2>2. cases[c] \in Case /\ path \in Seq(Node) /\ x \in Node
    BY <1>1, CaseFields
  <2>3. SubSeq(path, 1, i) \o <<x>> \o SubSeq(path, i + 1, Len(path)) \in Seq(Node)
    BY <2>2, InsertedPath DEF Inserts
  <2>4. /\ [cases[c].ns EXCEPT ![x] = "NOT_ACTIVATED"] \in [Node -> States]
        /\ (cases[c].dropped \cup {<<path[i], path[i + 1]>>}) \ {<<path[i], x>>, <<x, path[i + 1]>>}
               \in SUBSET (Node \X Node)
    <3>1. i \in 1..Len(path) /\ i + 1 \in 1..Len(path)
      BY <2>2, LenProperties
    <3>2. path[i] \in Node /\ path[i + 1] \in Node
      BY <2>2, <3>1, ElementOfSeq
    <3> QED BY <2>2, <3>2, CaseFields DEF States
  <2>5. After(i) \in Case
    BY <2>2, <2>3, <2>4 DEF Case
  <2>6. After(i).parent = cases[c].parent /\ After(i).pnode = cases[c].pnode
    BY <2>2 DEF Case
  <2> HIDE DEF After
  <2> QED BY <2>1, <2>5, <2>6, <1>5
<1>7. ASSUME NEW c \in CaseId, NEW x \in Deletable, AdhocDelete(c, x) PROVE TypeInv'
  <2> DEFINE path == cases[c].path
             Split(i) == {<<path[i - 1], x>>, <<x, path[i + 1]>>}
             Joint(i) == <<path[i - 1], path[i + 1]>>
             After(i) == [cases[c] EXCEPT
               !.path = SubSeq(path, 1, i - 1) \o SubSeq(path, i + 1, Len(path)),
               !.ns[x] = "none",
               !.signaled = @ \ (Split(i) \cup {Joint(i)}),
               !.dropped = (@ \cup Split(i)) \ {Joint(i)}]
  <2>1. PICK i \in 2..(Len(path) - 1) : StoreChange(c, After(i)) /\ stack = <<>>
    BY <1>7, Zenon DEF AdhocDelete, Busy
  <2>2. cases[c] \in Case /\ path \in Seq(Node) /\ x \in Node
    BY <1>1, CaseFields
  <2>3. SubSeq(path, 1, i - 1) \o SubSeq(path, i + 1, Len(path)) \in Seq(Node)
    BY <2>2, DeletedPath DEF Deletes
  <2>4. /\ [cases[c].ns EXCEPT ![x] = "none"] \in [Node -> States]
        /\ cases[c].signaled \ (Split(i) \cup {Joint(i)}) \in SUBSET (Node \X Node)
        /\ (cases[c].dropped \cup Split(i)) \ {Joint(i)} \in SUBSET (Node \X Node)
    <3>1. i - 1 \in 1..Len(path) /\ i + 1 \in 1..Len(path)
      BY <2>2, LenProperties
    <3>2. path[i - 1] \in Node /\ path[i + 1] \in Node
      BY <2>2, <3>1, ElementOfSeq
    <3> QED BY <2>2, <3>2, CaseFields DEF States
  <2> HIDE DEF Split, Joint
  <2>5. After(i) \in Case
    BY <2>2, <2>3, <2>4 DEF Case
  <2>6. After(i).parent = cases[c].parent /\ After(i).pnode = cases[c].pnode
    BY <2>2 DEF Case
  <2> HIDE DEF After
  <2> QED BY <2>1, <2>5, <2>6, <1>5
<1> QED BY <1>3, <1>4, <1>6, <1>7

\* the engine inside a case,
LEMMA TypedEngine ==
    ASSUME TypeInv, NEW n \in Node, Fire(n) \/ Evaluate(n) \/ Spawn(n)
    PROVE  TypeInv'
<1> DEFINE c == Top.case
           r == work[c]
           using == Top.using
<1>1. /\ TypeOK /\ stack # <<>> /\ c \in CaseId /\ using \in Seq(Node) /\ r \in Case
  <2>1. stack # <<>> /\ TypeOK
    BY DEF Fire, Evaluate, Spawn, TypeInv
  <2> QED BY <2>1, Frames
<1>2. CASE Evaluate(n)
  <2> DEFINE t == [r EXCEPT !.ns[n] = "ACTIVATED", !.announced = @ \ {n}]
  <2>1. Step(c, t)
    BY <1>2 DEF Evaluate
  <2>2. t \in Case /\ t.parent = r.parent /\ t.pnode = r.pnode
    BY <1>1 DEF Case, States
  <2> HIDE DEF c, t
  <2> QED BY <1>1, <2>1, <2>2, TypedStep
<1>3. CASE Fire(n)
  <2>1. CASE Step(c, CompleteNode(r, n, using))
    <3> DEFINE t == CompleteNode(r, n, using)
    <3>1. t \in Case /\ t.parent = r.parent /\ t.pnode = r.pnode
      <4> HIDE DEF c, r, using
      <4>1. t \in Case /\ Completes(t, r, n, using)
        BY <1>1, CompletedCase
      <4> QED BY <4>1 DEF Completes
    <3> HIDE DEF c, t
    <3> QED BY <1>1, <2>1, <3>1, TypedStep DEF t
  <2>2. CASE r.rounds < MaxRounds /\ Step(c, ResetLoopBlock(r, using))
    <3> DEFINE t == ResetLoopBlock(r, using)
    <3>1. t \in Case /\ t.parent = r.parent /\ t.pnode = r.pnode
      BY <1>1, <2>2, ResetCase
    <3> HIDE DEF c, t
    <3> QED BY <1>1, <2>2, <3>1, TypedStep DEF t
  <2>3. CASE Step(c, [r EXCEPT !.ns[n] = "COMPLETED", !.state = "COMPLETED"])
    <3> DEFINE t == [r EXCEPT !.ns[n] = "COMPLETED", !.state = "COMPLETED"]
    <3>1. t \in Case /\ t.parent = r.parent /\ t.pnode = r.pnode
      BY <1>1 DEF Case, States
    <3> HIDE DEF c, t
    <3> QED BY <1>1, <2>3, <3>1, TypedStep DEF t
  <2> QED BY <1>3, <2>1, <2>2, <2>3 DEF Fire
<1>4. CASE Spawn(n)
  <2>1. PICK new \in CaseId :
           /\ TypeOf[n] = "SUBPROCESS"
           /\ work' = [work EXCEPT ![new] = NewCase(Target[n], c, n)]
           /\ stack' = Append(stack, [case |-> new, using |-> Chain[Target[n]]])
           /\ work[new].state = "ABSENT"
           /\ UNCHANGED <<cases, origin, baseline, walk, refusal>>
    BY <1>4 DEF Spawn
  <2>2. Target[n] \in Schema /\ Chain[Target[n]] \in Seq(Node)
    BY <2>1, TreeTypes
  <2>3. NewCase(Target[n], c, n) \in Case
    BY <1>1, <2>2, NewCaseMoves
  <2>4. NewCase(Target[n], c, n).parent = c /\ NewCase(Target[n], c, n).pnode = n /\ c # NoCase
    BY <1>1, TreeTypes DEF NewCase
  <2> HIDE DEF c, r, using
  <2>5. PushedOn(stack', stack, new, Chain[Target[n]])
    BY <1>1, <2>1, <2>2, Pushed
  <2>6. TypeOK'
    BY <1>1, <2>1, <2>3, <2>5 DEF TypeOK, PushedOn
  <2>7. work'[new].parent # NoCase /\ \A d \in CaseId \ {new} : work'[d] = work[d]
    BY <1>1, <2>1, <2>4 DEF TypeOK
  <2>8. Kin(cases)' /\ Kin(work)'
    BY <1>1, <2>1, <2>4 DEF TypeInv, TypeOK, Kin
  <2>9. ASSUME NEW i \in 2..Len(stack') PROVE work'[stack'[i].case].parent # NoCase
    <3>1. CASE i = Len(stack) + 1
      BY <3>1, <2>5, <2>7 DEF PushedOn
    <3>2. CASE i \in 2..Len(stack)
      <4>1. stack'[i] = stack[i] /\ stack[i].case \in CaseId /\ work[stack[i].case].parent # NoCase
        BY <3>2, <2>5, <1>1, Frames DEF TypeInv, PushedOn
      <4> QED BY <4>1, <2>7
    <3> QED BY <3>1, <3>2, <2>5 DEF PushedOn
  <2> QED BY <2>6, <2>8, <2>9 DEF TypeInv
<1> QED BY <1>2, <1>3, <1>4

\* The copy after a spawn: the child is announced, its parent waits for it or joins it.
LEMMA SpawnedCopy ==
    ASSUME TypeOK, Spawned, Kin(work), work[Top.case].parent # NoCase
    PROVE  LET new == Top.case
               n   == work[new].pnode
               frame == stack[Len(stack) - 1]
               seen  == [work[new] EXCEPT !.announced = ReadySteps(work[new])]
               first == [work EXCEPT ![new] = seen]
           IN  /\ new \in CaseId /\ frame.case \in CaseId /\ frame.using \in Seq(Node) /\ n \in Node
               /\ Len(stack) > 1 /\ Quiet /\ ~Unmarked
               /\ seen \in Case /\ Agrees(seen, work[new])
               /\ first \in [CaseId -> Case]
               /\ work' = [first EXCEPT ![frame.case] = WaitFor(work[frame.case], n, new, frame.using)]
               /\ work' \in [CaseId -> Case]
               /\ stack' = SubSeq(stack, 1, Len(stack) - 1)
               /\ UNCHANGED <<cases, origin, baseline, walk, refusal>>
<1> DEFINE new == Top.case
           n   == work[new].pnode
           frame == stack[Len(stack) - 1]
           seen  == [work[new] EXCEPT !.announced = ReadySteps(work[new])]
           first == [work EXCEPT ![new] = seen]
<1>1. Len(stack) > 1 /\ Len(stack) \in Nat /\ Quiet /\ ~Unmarked
  BY Frames DEF Spawned
<1>2. Len(stack) \in 1..Len(stack) /\ Len(stack) - 1 \in 1..Len(stack)
  BY <1>1
<1>3. /\ new \in CaseId /\ frame.case \in CaseId /\ frame.using \in Seq(Node)
      /\ work[new] \in Case /\ work \in [CaseId -> Case]
  <2>1. stack[Len(stack)].case \in CaseId /\ work \in [CaseId -> Case]
    BY <1>2, Frames DEF TypeOK
  <2> QED BY <2>1, <1>2, Frames DEF Top
<1>4. n \in Node
  BY <1>3 DEF Kin
<1>5. seen \in Case /\ Agrees(seen, work[new])
  <2>1. ReadySteps(work[new]) \in SUBSET Node
    BY <1>3, CaseFields DEF ReadySteps
  <2>2. seen \in Case
    BY <2>1, <1>3 DEF Case
  <2>3. Agrees(seen, work[new])
    BY <1>3 DEF Case, Agrees
  <2> QED BY <2>2, <2>3
<1>6. /\ work' = [first EXCEPT ![frame.case] = WaitFor(work[frame.case], n, new, frame.using)]
      /\ stack' = SubSeq(stack, 1, Len(stack) - 1)
      /\ UNCHANGED <<cases, origin, baseline, walk, refusal>>
  <2>1. work' = [work EXCEPT
                    ![new].announced = ReadySteps(work[new]),
                    ![frame.case] = WaitFor(work[frame.case], n, new, frame.using)]
    BY DEF Spawned
  <2>2. work' = [first EXCEPT ![frame.case] = WaitFor(work[frame.case], n, new, frame.using)]
    BY <2>1
  <2> QED BY <2>2 DEF Spawned
<1> HIDE DEF new, n, frame, seen
<1>7. first \in [CaseId -> Case]
  BY <1>3, <1>5
<1>8. WaitFor(work[frame.case], n, new, frame.using) \in Case
  <2>1. work[frame.case] \in Case
    BY <1>3
  <2> QED BY <2>1, <1>3, <1>4, WaitingCase
<1>9. work' \in [CaseId -> Case]
  <2> HIDE DEF first
  <2> QED BY <1>3, <1>6, <1>7, <1>8
<1> QED BY <1>1, <1>3, <1>4, <1>5, <1>6, <1>7, <1>9 DEF new, n, frame, seen

\* the way back from a spawn,
LEMMA TypedSpawned ==
    ASSUME TypeInv, Spawned
    PROVE  TypeInv'
<1> DEFINE new == Top.case
           n   == work[new].pnode
           frame == stack[Len(stack) - 1]
           seen  == [work[new] EXCEPT !.announced = ReadySteps(work[new])]
           first == [work EXCEPT ![new] = seen]
<1>1. TypeOK /\ Kin(work) /\ Len(stack) \in Nat /\ Len(stack) > 1
  BY Frames DEF TypeInv, Spawned
<1>2. work[Top.case].parent # NoCase
  BY <1>1 DEF TypeInv, Top
<1>3. /\ new \in CaseId /\ frame.case \in CaseId /\ frame.using \in Seq(Node) /\ n \in Node
      /\ seen \in Case /\ Agrees(seen, work[new])
      /\ first \in [CaseId -> Case]
      /\ work' = [first EXCEPT ![frame.case] = WaitFor(work[frame.case], n, new, frame.using)]
      /\ work' \in [CaseId -> Case]
      /\ stack' = SubSeq(stack, 1, Len(stack) - 1)
      /\ UNCHANGED <<cases, origin, baseline, walk, refusal>>
  BY <1>1, <1>2, SpawnedCopy
<1>4. \A c \in CaseId : first[c].parent = work[c].parent /\ first[c].pnode = work[c].pnode
  BY <1>1, <1>3 DEF Agrees, TypeOK
<1> HIDE DEF new, n, frame, seen, first
<1>5. ASSUME NEW c \in CaseId PROVE work'[c].parent = work[c].parent /\ work'[c].pnode = work[c].pnode
  <2> DEFINE t == WaitFor(work[frame.case], n, new, frame.using)
  <2>1. /\ work[frame.case] \in Case /\ TypeOK /\ n \in Node /\ new \in CaseId
        /\ frame.using \in Seq(Node)
    BY <1>1, <1>3 DEF TypeOK
  <2>2. SameKin(t, work[frame.case])
    BY <2>1, WaitingCase
  <2> HIDE DEF t
  <2> QED BY <2>2, <1>3, <1>4 DEF t, SameKin
<1>6. PoppedFrom(stack', stack)
  BY <1>1, <1>3, Popped
<1>7. TypeOK'
  BY <1>1, <1>3, <1>6 DEF TypeOK, PoppedFrom
<1>8. Kin(cases)' /\ Kin(work)'
  BY <1>3, <1>5 DEF TypeInv, Kin
<1>9. ASSUME NEW i \in 2..Len(stack') PROVE work'[stack'[i].case].parent # NoCase
  <2>1. i \in 2..Len(stack) /\ i \in 1..Len(stack) /\ stack'[i] = stack[i]
    BY <1>1, <1>6 DEF PoppedFrom
  <2>2. stack[i].case \in CaseId
    BY <2>1, <1>1, Frames
  <2> QED BY <2>1, <2>2, <1>5 DEF TypeInv
<1> QED BY <1>7, <1>8, <1>9 DEF TypeInv

\* the way up to the parent,
LEMMA TypedPropagate ==
    ASSUME TypeInv, Propagate
    PROVE  TypeInv'
<1> DEFINE c == Top.case
           parent == work[c].parent
           n == work[c].pnode
           using == Chain[work[parent].schema]
           t == Join(work[parent], n, using)
<1>1. TypeOK /\ stack # <<>> /\ Kin(work) /\ work \in [CaseId -> Case]
  <2>1. Len(<<>>) = 0
    BY EmptySeq
  <2>2. stack # <<>>
    BY <2>1 DEF Propagate
  <2> QED BY <2>2 DEF TypeInv, TypeOK
<1>2. c \in CaseId /\ work[c] \in Case
  BY <1>1, Frames
<1>3. parent \in CaseId /\ n \in Node
  BY <1>1, <1>2 DEF Propagate, Joinable, Case, Kin
<1>4. using \in Seq(Node) /\ work[parent] \in Case
  BY <1>1, <1>3, CaseFields, TreeTypes
<1>5. /\ work' = [work EXCEPT ![parent] = t]
      /\ stack' = <<[case |-> parent, using |-> using]>>
      /\ UNCHANGED <<cases, origin, baseline, walk, refusal>>
  BY DEF Propagate
<1> HIDE DEF c, parent, n, using
<1>6. t \in Case /\ Completes(t, work[parent], n, using)
  BY <1>3, <1>4, CompletedCase
<1>7. t.parent = work[parent].parent /\ t.pnode = work[parent].pnode
  BY <1>6 DEF Completes
<1> HIDE DEF t
<1>8. stack' \in Seq([case : CaseId, using : Seq(Node)]) /\ Len(stack') = 1
  BY <1>3, <1>4, <1>5, Single
<1>9. TypeOK'
  BY <1>1, <1>3, <1>5, <1>6, <1>8 DEF TypeOK
<1>10. Kin(cases)' /\ Kin(work)'
  BY <1>1, <1>3, <1>5, <1>7 DEF TypeInv, Kin
<1> QED BY <1>8, <1>9, <1>10 DEF TypeInv

\* and the end of a request keep the types.
LEMMA TypedBoundary ==
    ASSUME TypeInv, AfterAdvance \/ AuditJoin \/ Commit \/ Crash \/ RollBack \/ UNCHANGED vars
    PROVE  TypeInv'
<1>1. TypeOK /\ Kin(work) /\ Kin(cases) /\ work \in [CaseId -> Case] /\ cases \in [CaseId -> Case]
  BY DEF TypeInv, TypeOK
<1>2. <<>> \in Seq([case : CaseId, using : Seq(Node)]) /\ Len(<<>>) = 0
  BY EmptySeq
<1>3. CASE AfterAdvance
  <2>1. /\ work' = [work EXCEPT ![origin].announced = @ \cup (ReadySteps(work[origin]) \ baseline)]
        /\ stack' = <<>> /\ walk' = origin /\ UNCHANGED <<cases, origin, baseline, refusal>>
    BY <1>3 DEF AfterAdvance
  <2>2. work' \in [CaseId -> Case] /\ \A c \in CaseId : work'[c].parent = work[c].parent /\ work'[c].pnode = work[c].pnode
    <3>1. CASE origin \in CaseId
      <4> DEFINE t == [work[origin] EXCEPT !.announced = @ \cup (ReadySteps(work[origin]) \ baseline)]
      <4>1. work[origin] \in Case
        BY <3>1, <1>1
      <4>2. work[origin].announced \cup (ReadySteps(work[origin]) \ baseline) \in SUBSET Node
        BY <4>1, CaseFields DEF Case, ReadySteps
      <4>3. t \in Case /\ t.parent = work[origin].parent /\ t.pnode = work[origin].pnode
        BY <4>1, <4>2 DEF Case
      <4>4. work' = [work EXCEPT ![origin] = t]
        BY <2>1
      <4> HIDE DEF t
      <4> QED BY <4>3, <4>4, <3>1, <1>1
    <3>2. CASE origin \notin CaseId
      BY <2>1, <3>2, <1>1
    <3> QED BY <3>1, <3>2
  <2>3. Kin(work)' /\ Kin(cases)'
    BY <2>1, <2>2, <1>1 DEF Kin
  <2>4. TypeOK'
    BY <2>1, <2>2, <1>1, <1>2 DEF TypeOK
  <2> QED BY <2>1, <2>3, <2>4, <1>2 DEF TypeInv
<1>4. CASE AuditJoin
  <2> DEFINE parent == work[walk].parent
             t == [work[parent] EXCEPT !.unaudited = @ \ {work[walk].pnode}]
  <2>1. /\ work' = [work EXCEPT ![parent] = t]
        /\ walk' = parent /\ UNCHANGED <<cases, stack, origin, baseline, refusal>>
    BY <1>4 DEF AuditJoin
  <2>2. walk \in CaseId /\ parent \in CaseId
    <3>1. walk \in CaseId
      BY <1>1, <1>4 DEF AuditJoin, TypeOK
    <3>2. work[walk] \in Case /\ parent # NoCase
      BY <3>1, <1>1, <1>4 DEF AuditJoin, JoinSeen
    <3> QED BY <3>1, <3>2 DEF Case
  <2>3. t \in Case /\ t.parent = work[parent].parent /\ t.pnode = work[parent].pnode
    <3>1. work[parent] \in Case
      BY <2>2, <1>1
    <3>2. work[parent].unaudited \ {work[walk].pnode} \in SUBSET Node
      BY <3>1 DEF Case
    <3> QED BY <3>1, <3>2 DEF Case
  <2> HIDE DEF parent, t
  <2>4. work' \in [CaseId -> Case] /\ \A c \in CaseId : work'[c].parent = work[c].parent /\ work'[c].pnode = work[c].pnode
    BY <2>1, <2>2, <2>3, <1>1
  <2>5. Kin(work)' /\ Kin(cases)'
    BY <2>1, <2>4, <1>1 DEF Kin
  <2>6. TypeOK'
    BY <2>1, <2>2, <2>4, <1>1 DEF TypeOK
  <2>7. ASSUME NEW i \in 2..Len(stack) PROVE work'[stack[i].case].parent # NoCase
    <3>1. i \in 1..Len(stack)
      BY <1>1, Frames
    <3>2. stack[i].case \in CaseId
      BY <3>1, <1>1, Frames
    <3> QED BY <3>2, <2>4 DEF TypeInv
  <2> QED BY <2>1, <2>5, <2>6, <2>7 DEF TypeInv
<1>5. CASE Commit \/ Crash \/ RollBack
  <2>1. /\ cases' \in {cases, work} /\ work' \in {cases, work} /\ stack' = <<>>
        /\ walk' = NoCase /\ origin' = NoCase /\ baseline' = {} /\ refusal' \in {"", "key-error"}
    BY <1>5 DEF Commit, Crash, RollBack, EndRequest
  <2>2. TypeOK'
    BY <2>1, <1>1, <1>2 DEF TypeOK
  <2>3. Kin(work)' /\ Kin(cases)'
    BY <2>1, <1>1 DEF Kin
  <2>4. Len(stack') = 0
    BY <2>1, <1>2, Zenon
  <2> QED BY <2>2, <2>3, <2>4 DEF TypeInv
<1>6. CASE UNCHANGED vars
  BY <1>6 DEF vars, TypeInv, TypeOK, Kin
<1> QED BY <1>3, <1>4, <1>5, <1>6

\* The types are inductive.
LEMMA TypeInvariant == Spec => []TypeInv
<1>1. Init => TypeInv
  <2> SUFFICES ASSUME Init PROVE TypeInv
    OBVIOUS
  <2>1. AbsentCase \in Case /\ AbsentCase.parent = NoCase
    <3>1. NewCase(RootSchema, NoCase, NoNode) \in Case
      BY NewCaseMoves, TreeTypes
    <3>2. NewCase(RootSchema, NoCase, NoNode).parent = NoCase
      BY DEF NewCase
    <3> QED BY <3>1, <3>2 DEF AbsentCase, Case
  <2>2. cases \in [CaseId -> Case] /\ work \in [CaseId -> Case]
    BY <2>1 DEF Init
  <2>3. stack \in Seq([case : CaseId, using : Seq(Node)]) /\ Len(stack) = 0
    BY EmptySeq DEF Init
  <2>4. TypeOK
    BY <2>2, <2>3 DEF Init, TypeOK
  <2>5. Kin(cases) /\ Kin(work)
    BY <2>1 DEF Init, Kin
  <2> QED BY <2>3, <2>4, <2>5 DEF TypeInv
<1>2. TypeInv /\ [Next]_vars => TypeInv'
  <2> SUFFICES ASSUME TypeInv, [Next]_vars PROVE TypeInv'
    OBVIOUS
  <2>1. CASE \E n \in Node : Fire(n) \/ Evaluate(n) \/ Spawn(n)
    BY <2>1, TypedEngine
  <2>2. CASE Spawned
    BY <2>2, TypedSpawned
  <2>3. CASE Propagate
    BY <2>3, TypedPropagate
  <2>4. CASE AfterAdvance \/ AuditJoin \/ Commit \/ Crash \/ RollBack \/ UNCHANGED vars
    BY <2>4, TypedBoundary
  <2>5. CASE \/ Instantiate
             \/ \E c \in CaseId, n \in Node : CompleteActivity(c, n)
             \/ \E c \in CaseId, x \in Inserted : AdhocInsert(c, x)
             \/ \E c \in CaseId, x \in Deletable : AdhocDelete(c, x)
    BY <2>5, TypedRequests
  <2> QED BY <2>1, <2>2, <2>3, <2>4, <2>5 DEF Next, Engine
<1> QED BY <1>1, <1>2, PTL DEF Spec

\* The stored cases, the copy of the request and the stack of advances keep their types:
\* the engine never joins a case under a node it does not have (_handle_subprocess).
THEOREM TypeCorrect == Spec => []TypeOK
<1>1. TypeInv => TypeOK
  BY DEF TypeInv
<1> QED BY <1>1, TypeInvariant, PTL

-----------------------------------------------------------------------------
(***************************************************************************)
(* The tree: steps of the engine inside the case on top of the stack.      *)
(***************************************************************************)

-----------------------------------------------------------------------------
(***************************************************************************)
(* The tree of cases, one kind of step at a time.                          *)
(***************************************************************************)

\* The index of the top frame.
LEMMA OneOrMore ==
    ASSUME NEW n \in Nat, n \in 1..n
    PROVE  n = 1 \/ n > 1
OBVIOUS

\* A case whose front is not RUNNING waits nowhere.
LEMMA NoneRunning ==
    ASSUME NEW r \in Case, Shape(r), NEW f \in Node, Front(r, f), r.ns[f] # "RUNNING"
    PROVE  \A n \in Node : r.ns[n] # "RUNNING"
<1> TAKE n \in Node
<1>1. CASE n = f
  BY <1>1
<1>2. CASE n # f
  BY <1>2, OnlyFront
<1> QED BY <1>1, <1>2

\* What every case of a tree has: a shape, and a child where it waits.
LEMMA Shaped ==
    ASSUME NEW w \in [CaseId -> Case], NEW stk \in Seq([case : CaseId, using : Seq(Node)]),
           Tree(w, stk), NEW c \in CaseId
    PROVE  /\ w[c].state # "ABSENT" => Shape(w[c])
           /\ \A n \in Node : w[c].ns[n] = "RUNNING" =>
                  w[c].child[n] \in CaseId /\ w[c].child[n] # NoCase
<1>1. ASSUME w[c].state # "ABSENT" PROVE Shape(w[c])
  <2>1. CASE ~OnStack(c, stk)
    BY <1>1, <2>1 DEF Tree, AtRest
  <2>2. CASE OnStack(c, stk)
    <3>1. PICK i \in 1..Len(stk) : stk[i].case = c
      BY <2>2 DEF OnStack
    <3>2. CASE i = Len(stk)
      BY <3>1, <3>2 DEF Tree, Advances, InAdvance
    <3>3. CASE i # Len(stk)
      <4>1. i + 1 \in 1..Len(stk) /\ i + 1 > 1 /\ (i + 1) - 1 = i
        BY <3>3, LenProperties
      <4>2. Spawning(w[stk[(i + 1) - 1].case], w[stk[i + 1].case].pnode, stk[(i + 1) - 1].using)
        BY <4>1 DEF Tree, Advances
      <4> QED BY <4>1, <4>2, <3>1 DEF Spawning
    <3> QED BY <3>2, <3>3
  <2> QED BY <2>1, <2>2
<1>2. ASSUME NEW n \in Node, w[c].ns[n] = "RUNNING"
      PROVE  w[c].child[n] \in CaseId /\ w[c].child[n] # NoCase
  <2>1. w[c].state # "ABSENT"
    BY <1>2 DEF Tree, Family
  <2>2. w[c].child[n] # NoCase
    BY <2>1, <1>1, <1>2 DEF Shape
  <2> QED BY <2>2 DEF Case
<1> QED BY <1>1, <1>2

\* The case on top of the stack takes a step of its own.
LEMMA TreeStep ==
    ASSUME TypeInv, Tree(work, stack), stack # <<>>,
           NEW t \in Case, t.state \in {"RUNNING", "COMPLETED"}, SameKin(t, work[Top.case]),
           t.path = work[Top.case].path, InAdvance(t, Top.using),
           \A n \in Node : /\ work[Top.case].ns[n] # "RUNNING" /\ t.ns[n] # "RUNNING"
                           /\ t.child[n] \in {NoCase, work[Top.case].child[n]},
           NEW w, w = [work EXCEPT ![Top.case] = t]
    PROVE  Tree(w, stack)
<1> DEFINE c == Top.case
<1>1. /\ work \in [CaseId -> Case] /\ Len(stack) \in Nat /\ Len(stack) \in 1..Len(stack)
      /\ c \in CaseId /\ c = stack[Len(stack)].case /\ Top = stack[Len(stack)]
      /\ \A i \in 1..Len(stack) : stack[i].case \in CaseId
  BY Frames DEF TypeInv, TypeOK, Top
<1>2. w[c] = t /\ \A d \in CaseId \ {c} : w[d] = work[d]
  BY <1>1
<1>3. Family(work) /\ Waiting(work, stack) /\ Advances(work, stack)
  BY DEF Tree
<1>4. work[c].state # "ABSENT"
  BY <1>1, <1>3 DEF Advances
<1>5. ASSUME NEW d \in CaseId
      PROVE  /\ w[d].parent = work[d].parent /\ w[d].pnode = work[d].pnode
             /\ w[d].path = work[d].path
             /\ w[d].state = "ABSENT" <=> work[d].state = "ABSENT"
             /\ w[d].state = "RUNNING" => work[d].state = "RUNNING" \/ d = c
  BY <1>2, <1>4 DEF SameKin
<1> HIDE DEF c
<1>6. Family(w)
  <2>1. ASSUME NEW d \in CaseId, NEW n \in Node, w[d].state = "ABSENT"
        PROVE  w[d].child[n] = NoCase /\ w[d].ns[n] # "RUNNING"
    BY <2>1, <1>2, <1>3, <1>4, <1>5 DEF Family
  <2>2. ASSUME NEW d \in CaseId, w[d].state # "ABSENT"
        PROVE  IF d = Root THEN w[d].parent = NoCase
               ELSE /\ w[d].parent \in CaseId /\ w[w[d].parent].state # "ABSENT"
                    /\ w[d].pnode \in Nodes(w[w[d].parent].path) /\ TypeOf[w[d].pnode] = "SUBPROCESS"
    BY <2>2, <1>3, <1>5 DEF Family
  <2>3. ASSUME NEW d \in CaseId, NEW n \in Node, w[d].child[n] # NoCase
        PROVE  LET k == w[d].child[n]
               IN  w[k].state # "ABSENT" /\ w[k].parent = d /\ w[k].pnode = n /\ k # Root
    <3>1. w[d].child[n] = work[d].child[n]
      BY <2>3, <1>2 DEF c
    <3>2. w[d].child[n] \in CaseId
      BY <2>3, <3>1, <1>1 DEF Case
    <3> QED BY <2>3, <3>1, <3>2, <1>3, <1>5 DEF Family
  <2> QED BY <2>1, <2>2, <2>3 DEF Family
<1>7. Waiting(w, stack)
  <2>1. ASSUME NEW d \in CaseId, NEW n \in Node, w[d].ns[n] = "RUNNING"
        PROVE  \/ w[w[d].child[n]].state = "RUNNING"
               \/ Len(stack) = 1 /\ w[d].child[n] = stack[1].case
    <3>1. d # c /\ w[d] = work[d]
      BY <2>1, <1>2
    <3>2. \/ work[work[d].child[n]].state = "RUNNING"
          \/ Len(stack) = 1 /\ work[d].child[n] = stack[1].case
      BY <2>1, <3>1, <1>3 DEF Waiting
    <3>3. CASE work[d].child[n] # c
      <4>2. work[d].child[n] \in CaseId
        BY <2>1, <3>1, <1>1, Shaped DEF TypeInv, TypeOK
      <4> QED BY <3>1, <3>2, <3>3, <4>2, <1>2
    <3>4. CASE work[d].child[n] = c
      <4>1. work[c].parent = d /\ work[c].pnode = n
        <5>1. work[d].child[n] # NoCase
          BY <3>4, <1>1, TreeTypes
        <5>2. Family(work)
          BY <1>3
        <5> QED BY <3>4, <5>1, <5>2 DEF Family
      <4>2. Len(stack) = 1
        <5>1. SUFFICES ASSUME Len(stack) # 1 PROVE FALSE
          OBVIOUS
        <5>2. Len(stack) > 1
          <6>1. Len(stack) = 1 \/ Len(stack) > 1
            BY <1>1, OneOrMore
          <6> QED BY <6>1, <5>1
        <5>3. stack[Len(stack) - 1].case = d /\ Spawning(work[d], n, stack[Len(stack) - 1].using)
          BY <5>2, <4>1, <1>1, <1>3 DEF Advances
        <5> QED BY <5>3, <2>1, <3>1 DEF Spawning
      <4> QED BY <4>2, <3>1, <3>4, <1>1
    <3> QED BY <3>3, <3>4
  <2>2. ASSUME NEW k \in CaseId \ {Root},
               w[k].state = "RUNNING" \/ (stack # <<>> /\ k = stack[1].case)
        PROVE  Fresh(k, stack) \/ Linked(w, k)
    <3>1. work[k].state = "RUNNING" \/ k = stack[1].case \/ k = c
      BY <2>2, <1>5
    <3>2. Fresh(k, stack) \/ Linked(work, k)
      <4>1. CASE k = c /\ Len(stack) > 1
        <5>1. Len(stack) \in 2..Len(stack)
          BY <4>1, <1>1
        <5> QED BY <5>1, <4>1, <1>1 DEF Fresh
      <4>2. CASE ~(k = c /\ Len(stack) > 1)
        <5>1. work[k].state = "RUNNING" \/ k = stack[1].case
          BY <4>2, <3>1, <1>1
        <5> QED BY <5>1, <1>3 DEF Waiting
      <4> QED BY <4>1, <4>2
    <3>3. ASSUME Linked(work, k) PROVE Linked(w, k)
      <4>1. work[k].parent \in CaseId /\ work[k].pnode \in Node
        <5>1. work[k].state # "ABSENT"
          BY <2>2, <1>1, <1>3, <1>5 DEF Advances
        <5>2. work[k].parent \in CaseId /\ work[k].parent # NoCase
          BY <5>1, <1>3, TreeTypes DEF Family
        <5> QED BY <5>2 DEF TypeInv, Kin
      <4>2. work[k].parent # c
        BY <3>3, <4>1 DEF Linked, c
      <4> QED BY <3>3, <4>1, <4>2, <1>2, <1>5 DEF Linked
    <3> QED BY <3>2, <3>3
  <2> QED BY <2>1, <2>2 DEF Waiting
<1>8. Advances(w, stack)
  <2>1. ASSUME NEW i \in 1..Len(stack)
        PROVE  /\ w[stack[i].case].state # "ABSENT"
               /\ Along(w[stack[i].case].path, stack[i].using)
               /\ \A j \in 1..Len(stack) : stack[i].case = stack[j].case => i = j
    BY <1>1, <1>3, <1>5 DEF Advances
  <2>2. ASSUME NEW i \in 1..Len(stack), i > 1
        PROVE  /\ stack[i].case # Root /\ w[stack[i].case].parent = stack[i - 1].case
               /\ Spawning(w[stack[i - 1].case], w[stack[i].case].pnode, stack[i - 1].using)
    <3>1. i - 1 \in 1..Len(stack) /\ i - 1 # Len(stack)
      BY <2>2, <1>1
    <3>2. stack[i - 1].case # c
      BY <3>1, <1>1, <1>3 DEF Advances
    <3> QED BY <2>2, <3>1, <3>2, <1>1, <1>2, <1>3, <1>5 DEF Advances
  <2>3. InAdvance(w[stack[Len(stack)].case], stack[Len(stack)].using)
    BY <1>1, <1>2
  <2> QED BY <2>1, <2>2, <2>3 DEF Advances
<1>9. ASSUME NEW d \in CaseId, w[d].state # "ABSENT", ~OnStack(d, stack) PROVE AtRest(w[d])
  <2>1. d # c
    BY <1>9, <1>1 DEF OnStack
  <2> QED BY <2>1, <1>9, <1>2 DEF Tree
<1> QED BY <1>6, <1>7, <1>8, <1>9 DEF Tree

\* Stamps, mails and audit entries do not touch the tree.
LEMMA TreeAgreeing ==
    ASSUME NEW w \in [CaseId -> Case], NEW v \in [CaseId -> Case],
           NEW stk \in Seq([case : CaseId, using : Seq(Node)]),
           Tree(w, stk), \A c \in CaseId : Agrees(v[c], w[c])
    PROVE  Tree(v, stk)
<1>1. /\ \A i \in 1..Len(stk) : stk[i].case \in CaseId
      /\ \A i \in 1..Len(stk) : i > 1 => i - 1 \in 1..Len(stk)
  <2>1. Len(stk) \in Nat
    BY LenProperties
  <2>2. \A i \in 1..Len(stk) : i > 1 => i - 1 \in 1..Len(stk)
    BY <2>1
  <2>3. \A i \in 1..Len(stk) : stk[i] \in [case : CaseId, using : Seq(Node)]
    BY ElementOfSeq
  <2> QED BY <2>2, <2>3
<1>2. ASSUME NEW c \in CaseId
      PROVE  /\ v[c].state = w[c].state /\ v[c].path = w[c].path /\ v[c].child = w[c].child
             /\ v[c].ns = w[c].ns /\ v[c].parent = w[c].parent /\ v[c].pnode = w[c].pnode
             /\ AtRest(v[c]) <=> AtRest(w[c])
             /\ \A using : InAdvance(v[c], using) <=> InAdvance(w[c], using)
             /\ \A n, using : Spawning(v[c], n, using) <=> Spawning(w[c], n, using)
  <2>1. Agrees(v[c], w[c])
    OBVIOUS
  <2>2. /\ AtRest(v[c]) <=> AtRest(w[c])
        /\ \A using : InAdvance(v[c], using) <=> InAdvance(w[c], using)
        /\ \A n, using : Spawning(v[c], n, using) <=> Spawning(w[c], n, using)
    BY <2>1, Agreeing
  <2> QED BY <2>1, <2>2 DEF Agrees
<1>3. Family(w) /\ Waiting(w, stk) /\ Advances(w, stk)
  BY DEF Tree
<1>4. ASSUME NEW c \in CaseId, NEW n \in Node, w[c].child[n] # NoCase PROVE w[c].child[n] \in CaseId
  BY <1>4 DEF Case
<1> HIDE DEF Agrees
<1>8. \A c \in CaseId : /\ v[c].state = w[c].state /\ v[c].path = w[c].path
                        /\ v[c].child = w[c].child /\ v[c].ns = w[c].ns
                        /\ v[c].parent = w[c].parent /\ v[c].pnode = w[c].pnode
  BY <1>2
<1>5. Family(v)
  <2>1. ASSUME NEW d \in CaseId, NEW n \in Node, v[d].state = "ABSENT"
        PROVE  v[d].child[n] = NoCase /\ v[d].ns[n] # "RUNNING"
    BY <2>1, <1>3, <1>8 DEF Family
  <2>2. ASSUME NEW d \in CaseId, v[d].state # "ABSENT"
        PROVE  IF d = Root THEN v[d].parent = NoCase
               ELSE /\ v[d].parent \in CaseId /\ v[v[d].parent].state # "ABSENT"
                    /\ v[d].pnode \in Nodes(v[v[d].parent].path) /\ TypeOf[v[d].pnode] = "SUBPROCESS"
    BY <2>2, <1>3, <1>8 DEF Family
  <2>3. ASSUME NEW d \in CaseId, NEW n \in Node, v[d].child[n] # NoCase
        PROVE  LET k == v[d].child[n]
               IN  v[k].state # "ABSENT" /\ v[k].parent = d /\ v[k].pnode = n /\ k # Root
    <3>1. w[d].child[n] \in CaseId /\ v[d].child[n] = w[d].child[n]
      BY <2>3, <1>4, <1>8
    <3>2. LET k == w[d].child[n]
          IN  w[k].state # "ABSENT" /\ w[k].parent = d /\ w[k].pnode = n /\ k # Root
      BY <2>3, <3>1, <1>3 DEF Family
    <3> HIDE DEF Family
    <3> QED BY <3>1, <3>2, <1>8
  <2> QED BY <2>1, <2>2, <2>3 DEF Family
<1>6. Waiting(v, stk)
  <2>1. ASSUME NEW c \in CaseId, NEW n \in Node, v[c].ns[n] = "RUNNING"
        PROVE  \/ v[v[c].child[n]].state = "RUNNING"
               \/ Len(stk) = 1 /\ v[c].child[n] = stk[1].case
    <3>1. w[c].child[n] \in CaseId
      BY <2>1, <1>2, Shaped
    <3> QED BY <2>1, <3>1, <1>3, <1>8 DEF Waiting
  <2>2. ASSUME NEW k \in CaseId \ {Root},
               v[k].state = "RUNNING" \/ (stk # <<>> /\ k = stk[1].case)
        PROVE  Fresh(k, stk) \/ Linked(v, k)
    <3>1. Fresh(k, stk) \/ Linked(w, k)
      BY <2>2, <1>2, <1>3 DEF Waiting
    <3>2. w[k].parent \in CaseId
      <4>1. w[k].state # "ABSENT"
        <5>1. stk # <<>> => 1 \in 1..Len(stk)
          <6>1. stk # <<>> => Len(stk) \in Nat \ {0}
            BY EmptySeq
          <6> QED BY <6>1
        <5> QED BY <2>2, <5>1, <1>2, <1>3 DEF Advances
      <4> QED BY <4>1, <1>3 DEF Family
    <3> QED BY <3>1, <3>2, <1>2 DEF Linked
  <2> QED BY <2>1, <2>2 DEF Waiting
<1>7. Advances(v, stk)
  BY <1>1, <1>2, <1>3 DEF Advances
<1> QED BY <1>2, <1>5, <1>6, <1>7 DEF Tree

\* A SUBPROCESS at the front of the top case spawns its child.
LEMMA TreeSpawn ==
    ASSUME TypeInv, Tree(work, stack), NEW n \in Node, Spawn(n)
    PROVE  Tree(work', stack')
<1> DEFINE c == Top.case
           using == Top.using
<1>1. PICK new \in CaseId :
         /\ stack # <<>> /\ ~Unmarked /\ Fireable(work[c], n, using)
         /\ TypeOf[n] = "SUBPROCESS" /\ work[new].state = "ABSENT" /\ new # Root
         /\ work' = [work EXCEPT ![new] = NewCase(Target[n], c, n)]
         /\ stack' = Append(stack, [case |-> new, using |-> Chain[Target[n]]])
  BY DEF Spawn
<1>2. /\ TypeOK /\ work \in [CaseId -> Case] /\ Len(stack) \in Nat /\ Len(stack) \in 1..Len(stack)
      /\ c \in CaseId /\ using \in Seq(Node) /\ c = stack[Len(stack)].case
      /\ using = stack[Len(stack)].using /\ work[c] \in Case
      /\ \A i \in 1..Len(stack) : stack[i].case \in CaseId
      /\ stack \in Seq([case : CaseId, using : Seq(Node)])
  BY <1>1, Frames DEF TypeInv, TypeOK, Top
<1> HIDE DEF c, using
<1>3. Target[n] \in Schema /\ Chain[Target[n]] \in Seq(Node)
  BY <1>1, TreeTypes
<1> DEFINE r == NewCase(Target[n], c, n)
<1>4. r \in Case /\ InAdvance(r, Chain[Target[n]])
  BY <1>2, <1>3, NewCaseMoves
<1>5. /\ r.parent = c /\ r.pnode = n /\ r.state = "RUNNING" /\ r.path = Chain[Target[n]]
      /\ \A m \in Node : r.child[m] = NoCase /\ r.ns[m] # "RUNNING"
  BY DEF NewCase
<1>6. PushedOn(stack', stack, new, Chain[Target[n]])
  BY <1>1, <1>2, <1>3, Pushed
<1> DEFINE w == work'
           stk == stack'
<1>7. w[new] = r /\ \A d \in CaseId \ {new} : w[d] = work[d]
  BY <1>1, <1>2
<1> HIDE DEF r, w, stk
<1>8. Family(work) /\ Waiting(work, stack) /\ Advances(work, stack)
  BY DEF Tree
<1>9. /\ Shape(work[c]) /\ work[c].state = "RUNNING" /\ work[c].ns[n] = "ACTIVATED"
      /\ n \in Nodes(using) /\ Front(work[c], n)
      /\ \A m \in Node : work[c].ns[m] # "RUNNING"
  <2>1. InAdvance(work[c], using)
    BY <1>2, <1>8 DEF Advances
  <2>2. PICK f \in Node : Front(work[c], f) /\ (Rests(work[c], f) \/ Moves(work[c], f, using))
    BY <2>1 DEF InAdvance
  <2>3. Shape(work[c])
    BY <2>1 DEF InAdvance
  <2>4. n = f /\ work[c].state = "RUNNING"
    BY <1>1, <1>2, <2>2, <2>3, FireableAtFront
  <2>5. n \in Nodes(using) /\ work[c].ns[n] = "ACTIVATED"
    BY <1>1 DEF Fireable
  <2>6. \A m \in Node : work[c].ns[m] # "RUNNING"
    BY <1>2, <2>2, <2>3, <2>4, <2>5, NoneRunning
  <2> QED BY <2>2, <2>3, <2>4, <2>5, <2>6
<1>10. n \in Nodes(work[c].path) /\ c # new
  BY <1>1, <1>9 DEF Front
<1>11. \A i \in 1..Len(stack) : stk[i] = stack[i] /\ stack[i].case # new
  <2>1. \A i \in 1..Len(stack) : stk[i] = stack[i]
    BY <1>6 DEF PushedOn, stk
  <2>2. \A i \in 1..Len(stack) : work[stack[i].case].state # "ABSENT"
    BY <1>8 DEF Advances
  <2> QED BY <2>1, <2>2, <1>1
<1>12. Len(stk) = Len(stack) + 1 /\ stk[Len(stack) + 1].case = new
       /\ stk[Len(stack) + 1].using = Chain[Target[n]]
  BY <1>6 DEF PushedOn, stk
<1>13. Family(w)
  <2>1. ASSUME NEW d \in CaseId, NEW m \in Node, w[d].state = "ABSENT"
        PROVE  w[d].child[m] = NoCase /\ w[d].ns[m] # "RUNNING"
    BY <2>1, <1>5, <1>7, <1>8 DEF Family
  <2>2. ASSUME NEW d \in CaseId, w[d].state # "ABSENT"
        PROVE  IF d = Root THEN w[d].parent = NoCase
               ELSE /\ w[d].parent \in CaseId /\ w[w[d].parent].state # "ABSENT"
                    /\ w[d].pnode \in Nodes(w[w[d].parent].path) /\ TypeOf[w[d].pnode] = "SUBPROCESS"
    <3>1. CASE d = new
      BY <3>1, <1>1, <1>2, <1>5, <1>7, <1>9, <1>10
    <3>2. CASE d # new
      BY <3>2, <2>2, <1>1, <1>7, <1>8 DEF Family
    <3> QED BY <3>1, <3>2
  <2>3. ASSUME NEW d \in CaseId, NEW m \in Node, w[d].child[m] # NoCase
        PROVE  LET k == w[d].child[m]
               IN  w[k].state # "ABSENT" /\ w[k].parent = d /\ w[k].pnode = m /\ k # Root
    <3>1. d # new /\ w[d].child[m] = work[d].child[m]
      BY <2>3, <1>5, <1>7
    <3>2. w[d].child[m] \in CaseId
      BY <2>3, <3>1, <1>2 DEF Case
    <3> QED BY <2>3, <3>1, <3>2, <1>1, <1>7, <1>8 DEF Family
  <2> QED BY <2>1, <2>2, <2>3 DEF Family
<1>14. Waiting(w, stk)
  <2>1. ASSUME NEW d \in CaseId, NEW m \in Node, w[d].ns[m] = "RUNNING"
        PROVE  w[w[d].child[m]].state = "RUNNING"
    <3>1. d # new /\ w[d] = work[d] /\ work[d].child[m] \in CaseId
      BY <2>1, <1>2, <1>5, <1>7, Shaped
    <3>2. \/ work[work[d].child[m]].state = "RUNNING"
          \/ Len(stack) = 1 /\ work[d].child[m] = stack[1].case
      BY <2>1, <3>1, <1>8 DEF Waiting
    <3>3. work[work[d].child[m]].state = "RUNNING"
      BY <3>2, <1>2, <1>9
    <3> QED BY <3>1, <3>3, <1>1, <1>7
  <2>2. ASSUME NEW k \in CaseId \ {Root},
               w[k].state = "RUNNING" \/ (stk # <<>> /\ k = stk[1].case)
        PROVE  Fresh(k, stk) \/ Linked(w, k)
    <3>1. CASE k = new
      <4>1. Len(stack) + 1 \in 2..Len(stk)
        BY <1>2, <1>12
      <4> QED BY <4>1, <3>1, <1>12 DEF Fresh
    <3>2. CASE k # new
      <4>1. work[k].state = "RUNNING" \/ k = stack[1].case
        BY <2>2, <3>2, <1>2, <1>7, <1>11
      <4>2. Fresh(k, stack) \/ Linked(work, k)
        BY <4>1, <1>1, <1>8 DEF Waiting
      <4>3. ASSUME Fresh(k, stack) PROVE Fresh(k, stk)
        <5>1. PICK i \in 2..Len(stack) : stack[i].case = k
          BY <4>3 DEF Fresh
        <5>2. i \in 1..Len(stack) /\ i \in 2..Len(stk)
          BY <1>2, <1>12
        <5> QED BY <5>1, <5>2, <1>11 DEF Fresh
      <4>4. ASSUME Linked(work, k) PROVE Linked(w, k)
        <5>1. work[k].state # "ABSENT"
          BY <4>1, <1>2, <1>8 DEF Advances
        <5>2. work[k].parent \in CaseId /\ work[work[k].parent].state # "ABSENT"
          BY <5>1, <1>8 DEF Family
        <5> QED BY <4>4, <5>2, <3>2, <1>1, <1>7 DEF Linked
      <4> QED BY <4>2, <4>3, <4>4
    <3> QED BY <3>1, <3>2
  <2> QED BY <2>1, <2>2 DEF Waiting
<1>15. Advances(w, stk)
  <2>1. ASSUME NEW i \in 1..Len(stk)
        PROVE  \/ i = Len(stack) + 1
               \/ i \in 1..Len(stack) /\ stk[i] = stack[i] /\ stack[i].case \in CaseId
                  /\ stack[i].case # new /\ w[stack[i].case] = work[stack[i].case]
    <3>1. i = Len(stack) + 1 \/ i \in 1..Len(stack)
      BY <1>2, <1>12
    <3> QED BY <3>1, <1>2, <1>7, <1>11
  <2>2. Along(r.path, Chain[Target[n]])
    BY <1>3, <1>5, AlongItself, ChainRegular
  <2>3. ASSUME NEW i \in 1..Len(stk)
        PROVE  /\ w[stk[i].case].state # "ABSENT"
               /\ Along(w[stk[i].case].path, stk[i].using)
    BY <2>1, <2>2, <1>5, <1>7, <1>8, <1>12 DEF Advances
  <2>4. ASSUME NEW i \in 1..Len(stk), NEW j \in 1..Len(stk), stk[i].case = stk[j].case
        PROVE  i = j
    BY <2>1, <2>4, <1>8, <1>12 DEF Advances
  <2>5. ASSUME NEW i \in 1..Len(stk), i > 1
        PROVE  /\ stk[i].case # Root /\ w[stk[i].case].parent = stk[i - 1].case
               /\ Spawning(w[stk[i - 1].case], w[stk[i].case].pnode, stk[i - 1].using)
    <3>1. CASE i = Len(stack) + 1
      <4>1. i - 1 = Len(stack) /\ stk[i - 1] = stack[Len(stack)]
        BY <3>1, <1>2, <1>11
      <4>2. stk[i - 1].case = c /\ stk[i - 1].using = using /\ stk[i].case = new
        BY <3>1, <4>1, <1>2, <1>12
      <4>3. Spawning(work[c], n, using)
        BY <1>1, <1>9 DEF Spawning
      <4> QED BY <4>2, <4>3, <1>1, <1>2, <1>5, <1>7, <1>10
    <3>2. CASE i # Len(stack) + 1
      <4>1. i \in 1..Len(stack) /\ i - 1 \in 1..Len(stack)
        BY <3>2, <2>1, <2>5
      <4>2. /\ stk[i] = stack[i] /\ w[stack[i].case] = work[stack[i].case]
            /\ stk[i - 1] = stack[i - 1] /\ w[stack[i - 1].case] = work[stack[i - 1].case]
        BY <4>1, <1>2, <1>7, <1>11
      <4> QED BY <4>1, <4>2, <2>5, <1>8 DEF Advances
    <3> QED BY <3>1, <3>2
  <2>6. InAdvance(w[stk[Len(stk)].case], stk[Len(stk)].using)
    BY <1>4, <1>7, <1>12
  <2> QED BY <2>3, <2>4, <2>5, <2>6 DEF Advances
<1>16. ASSUME NEW d \in CaseId, w[d].state # "ABSENT", ~OnStack(d, stk) PROVE AtRest(w[d])
  <2>1. Len(stack) + 1 \in 1..Len(stk) /\ \A i \in 1..Len(stack) : i \in 1..Len(stk)
    BY <1>2, <1>12
  <2>2. d # new /\ ~OnStack(d, stack)
    BY <2>1, <1>11, <1>12, <1>16 DEF OnStack
  <2> QED BY <2>2, <1>7, <1>16 DEF Tree
<1> QED BY <1>13, <1>14, <1>15, <1>16 DEF Tree, w, stk

-----------------------------------------------------------------------------
(***************************************************************************)
(* The tree: the way back from a child, spawned or ended.                  *)
(***************************************************************************)

\* Another marking of the front leaves it the front.
LEMMA RemarkedFront ==
    ASSUME NEW r \in Case, Shape(r), NEW f \in Node, Front(r, f),
           r.ns[f] # "COMPLETED", NEW t, NEW s,
           t.path = r.path, t.signaled = r.signaled, t.ns = [r.ns EXCEPT ![f] = s]
    PROVE  Front(t, f)
<1>1. /\ r.ns \in [Node -> States] /\ f \in Nodes(r.path) /\ Ordered(r.path)
  BY CaseFields, Order DEF Shape, Front
<1>2. ASSUME NEW n \in Nodes(r.path)
      PROVE  /\ Before(r.path, f, n) => t.ns[n] = "NOT_ACTIVATED"
             /\ Before(r.path, n, f) => t.ns[n] \in {"NOT_ACTIVATED", "COMPLETED"}
  BY <1>1 DEF Front, Ordered
<1>3. ASSUME NEW m \in Node, NEW n \in Node, <<m, n>> \in r.signaled
      PROVE  /\ Before(r.path, m, n) /\ t.ns[m] = "COMPLETED"
             /\ n = f \/ (Before(r.path, n, f) /\ t.ns[n] = "COMPLETED")
  BY <1>1, <1>3 DEF Front, Ordered
<1>4. ASSUME HasLoop(r.path), NEW m \in Node, NEW n \in Node, <<m, n>> \in Edges(r.path),
             Before(r.path, m, f)
      PROVE  t.ns[m] = "COMPLETED" /\ <<m, n>> \in r.signaled
  BY <1>1, <1>4 DEF Front, Ordered
<1> QED BY <1>1, <1>2, <1>3, <1>4 DEF Front

\* The parent behind a spawn: it waits at n for a child that runs, and has passed n when
\* the child has ended.
LEMMA WaitedParent ==
    ASSUME TypeOK, NEW r \in Case, NEW using \in Seq(Node), Along(r.path, using),
           NEW n \in Node, Spawning(r, n, using), NEW new \in CaseId
    PROVE  LET t == WaitFor(r, n, new, using)
           IN  /\ t \in Case /\ SameKin(t, r) /\ t.path = r.path /\ t.state = "RUNNING"
               /\ InAdvance(t, using)
               /\ t.child = [r.child EXCEPT ![n] = new]
               /\ \A m \in Node : m # n => t.ns[m] # "RUNNING"
               /\ t.ns[n] = "RUNNING" <=> work[new].state # "COMPLETED"
<1> DEFINE t == WaitFor(r, n, new, using)
           waiting == [r EXCEPT !.ns[n] = "RUNNING", !.child[n] = new]
<1>1. waiting \in Case /\ t \in Case /\ SameKin(t, r)
  BY WaitingCase
<1>2. t = IF work[new].state = "COMPLETED" THEN Join(waiting, n, using) ELSE waiting
  BY DEF WaitFor
<1>3. /\ waiting.state = "RUNNING" /\ waiting.path = r.path /\ waiting.schema = r.schema
      /\ waiting.signaled = r.signaled /\ waiting.dropped = r.dropped
      /\ waiting.ns = [r.ns EXCEPT ![n] = "RUNNING"]
      /\ waiting.child = [r.child EXCEPT ![n] = new]
  BY DEF Spawning, Case
<1>4. /\ r.ns \in [Node -> States] /\ r.child \in [Node -> CaseId \cup {NoCase}]
  BY CaseFields
<1>5. /\ Shape(r) /\ Front(r, n) /\ r.ns[n] = "ACTIVATED" /\ TypeOf[n] = "SUBPROCESS"
      /\ n \in Nodes(using) /\ new # NoCase /\ n \in Nodes(r.path)
  BY TreeTypes DEF Spawning, Front
<1> HIDE DEF t, waiting
<1>6. Shape(waiting)
  <2>1. ASSUME NEW m \in Node
        PROVE  /\ waiting.ns[m] = "none" <=> m \notin Nodes(r.path)
               /\ waiting.child[m] # NoCase =>
                      TypeOf[m] = "SUBPROCESS" /\ waiting.ns[m] \in {"RUNNING", "COMPLETED"}
               /\ waiting.ns[m] = "RUNNING" => waiting.child[m] # NoCase
    BY <1>3, <1>4, <1>5 DEF Shape
  <2> QED BY <2>1, <1>3, <1>5 DEF Shape
<1>7. Front(waiting, n)
  BY <1>3, <1>5, RemarkedFront
<1>8. CASE work[new].state = "COMPLETED"
  <2>1. Completes(t, waiting, n, using)
    BY <1>1, <1>2, <1>8, CompletedCase
  <2>2. InAdvance(t, using) /\ \A m \in Node : t.ns[m] # "RUNNING"
    BY <2>1, <1>1, <1>3, <1>5, <1>6, <1>7, CompletedFront
  <2>3. t.path = r.path /\ t.state = "RUNNING" /\ t.child = [r.child EXCEPT ![n] = new]
    BY <2>1, <1>3 DEF Completes
  <2> QED BY <2>2, <2>3, <1>1, <1>8 DEF t
<1>9. CASE work[new].state # "COMPLETED"
  <2>1. t = waiting /\ waiting.ns[n] = "RUNNING"
    BY <1>2, <1>3, <1>4, <1>9
  <2>2. Rests(waiting, n)
    BY <2>1, <1>3 DEF Rests
  <2>3. InAdvance(waiting, using)
    BY <2>2, <1>6, <1>7 DEF InAdvance
  <2>4. \A m \in Node : m # n => waiting.ns[m] # "RUNNING"
    BY <1>1, <1>6, <1>7, OnlyFront
  <2> QED BY <2>1, <2>3, <2>4, <1>1, <1>3, <1>9 DEF t
<1> QED BY <1>8, <1>9

\* The child rests: it is linked to its parent, or has already joined it.
LEMMA TreeSpawned ==
    ASSUME TypeInv, Tree(work, stack), Spawned
    PROVE  Tree(work', stack')
<1> DEFINE new   == Top.case
           n     == work[new].pnode
           frame == stack[Len(stack) - 1]
           p     == frame.case
           seen  == [work[new] EXCEPT !.announced = ReadySteps(work[new])]
           first == [work EXCEPT ![new] = seen]
           t     == WaitFor(work[p], n, new, frame.using)
<1>1. /\ TypeOK /\ Kin(work) /\ work \in [CaseId -> Case] /\ Len(stack) \in Nat
      /\ \A i \in 1..Len(stack) : stack[i].case \in CaseId
      /\ stack \in Seq([case : CaseId, using : Seq(Node)])
      /\ Family(work) /\ Waiting(work, stack) /\ Advances(work, stack)
  BY Frames DEF TypeInv, TypeOK, Tree
<1>2. /\ Len(stack) > 1 /\ Len(stack) \in 1..Len(stack) /\ Len(stack) - 1 \in 1..Len(stack)
      /\ Len(stack) - 1 # Len(stack) /\ Len(stack) # 1 /\ 1 \in 1..Len(stack)
  BY <1>1 DEF Spawned
<1>3. /\ new = stack[Len(stack)].case /\ new \in CaseId /\ p \in CaseId /\ p # new
      /\ work[new].state # "ABSENT" /\ work[p].state # "ABSENT" /\ new # Root
      /\ work[new].parent = p /\ p # NoCase
      /\ Along(work[p].path, frame.using) /\ Spawning(work[p], n, frame.using)
      /\ InAdvance(work[new], Top.using)
  BY <1>1, <1>2, TreeTypes DEF Advances, Top
<1>4. /\ frame.using \in Seq(Node) /\ n \in Node /\ seen \in Case /\ Agrees(seen, work[new])
      /\ Quiet /\ first \in [CaseId -> Case]
      /\ work' = [first EXCEPT ![p] = t] /\ work' \in [CaseId -> Case]
      /\ stack' = SubSeq(stack, 1, Len(stack) - 1)
  BY <1>1, <1>3, SpawnedCopy
<1>5. PoppedFrom(stack', stack)
  BY <1>1, <1>2, <1>4, Popped
<1> DEFINE w   == work'
           stk == stack'
<1>6. first[new] = seen /\ \A d \in CaseId \ {new} : first[d] = work[d]
  BY <1>1, <1>3
<1> HIDE DEF new, n, frame, p, seen, first, w, stk
<1>7. w[new] = seen /\ w[p] = t /\ \A d \in CaseId \ {new, p} : w[d] = work[d]
  BY <1>3, <1>4, <1>6 DEF w
<1>8. /\ t \in Case /\ SameKin(t, work[p]) /\ t.path = work[p].path /\ t.state = "RUNNING"
      /\ InAdvance(t, frame.using)
      /\ t.child = [work[p].child EXCEPT ![n] = new]
      /\ \A m \in Node : m # n => t.ns[m] # "RUNNING"
      /\ t.ns[n] = "RUNNING" <=> work[new].state # "COMPLETED"
  <2>1. work[p] \in Case
    BY <1>1, <1>3
  <2> QED BY <2>1, <1>1, <1>3, <1>4, WaitedParent
<1> HIDE DEF t
<1>9. /\ work[p].state = "RUNNING" /\ work[p].child \in [Node -> CaseId \cup {NoCase}]
      /\ \A m \in Node : work[p].ns[m] # "RUNNING"
  <2>1. work[p] \in Case
    BY <1>1, <1>3
  <2>2. Shape(work[p]) /\ Front(work[p], n) /\ work[p].ns[n] = "ACTIVATED" /\ work[p].state = "RUNNING"
    BY <1>3 DEF Spawning
  <2>3. \A m \in Node : work[p].ns[m] # "RUNNING"
    BY <2>1, <2>2, <1>4, NoneRunning
  <2> QED BY <2>1, <2>2, <2>3, CaseFields
<1>10. ASSUME NEW d \in CaseId
       PROVE  /\ w[d].parent = work[d].parent /\ w[d].pnode = work[d].pnode
              /\ w[d].path = work[d].path /\ w[d].state = work[d].state
  <2>1. CASE d = new
    BY <2>1, <1>4, <1>7 DEF Agrees
  <2>2. CASE d = p
    BY <2>2, <1>7, <1>8, <1>9 DEF SameKin
  <2>3. CASE d \notin {new, p}
    BY <2>3, <1>7
  <2> QED BY <2>1, <2>2, <2>3
<1>11. ASSUME NEW d \in CaseId, d # p
       PROVE  w[d].child = work[d].child /\ w[d].ns = work[d].ns
  BY <1>4, <1>7, <1>11 DEF Agrees
<1>12. /\ \A i \in 1..Len(stk) : i \in 1..Len(stack) /\ i # Len(stack) /\ stk[i] = stack[i]
       /\ Len(stk) = Len(stack) - 1 /\ stk[1] = stack[1] /\ stk # <<>>
       /\ \A i \in 1..Len(stk) : stack[i].case # new
  <2>1. /\ Len(stk) = Len(stack) - 1 /\ stk # <<>> /\ \A i \in 1..Len(stk) : stk[i] = stack[i]
    BY <1>5 DEF PoppedFrom, stk
  <2>2. \A i \in 1..Len(stk) : i \in 1..Len(stack) /\ i # Len(stack)
    BY <2>1, <1>1, <1>2
  <2>3. 1 \in 1..Len(stk)
    BY <2>1, <1>1, <1>2
  <2>4. \A i \in 1..Len(stk) : stack[i].case # new
    BY <2>2, <1>1, <1>2, <1>3 DEF Advances
  <2> QED BY <2>1, <2>2, <2>3, <2>4
<1>13. Family(w)
  <2>1. ASSUME NEW d \in CaseId, NEW m \in Node, w[d].state = "ABSENT"
        PROVE  w[d].child[m] = NoCase /\ w[d].ns[m] # "RUNNING"
    <3>1. d # p /\ work[d].state = "ABSENT"
      BY <2>1, <1>3, <1>10
    <3> QED BY <3>1, <1>1, <1>11 DEF Family
  <2>2. ASSUME NEW d \in CaseId, w[d].state # "ABSENT"
        PROVE  IF d = Root THEN w[d].parent = NoCase
               ELSE /\ w[d].parent \in CaseId /\ w[w[d].parent].state # "ABSENT"
                    /\ w[d].pnode \in Nodes(w[w[d].parent].path) /\ TypeOf[w[d].pnode] = "SUBPROCESS"
    BY <2>2, <1>1, <1>10 DEF Family
  <2>3. ASSUME NEW d \in CaseId, NEW m \in Node, w[d].child[m] # NoCase
        PROVE  LET k == w[d].child[m]
               IN  w[k].state # "ABSENT" /\ w[k].parent = d /\ w[k].pnode = m /\ k # Root
    <3>1. CASE d = p /\ m = n
      <4>1. w[d].child[m] = new
        BY <3>1, <1>4, <1>7, <1>8, <1>9
      <4> QED BY <4>1, <3>1, <1>3, <1>10 DEF n
    <3>2. CASE ~(d = p /\ m = n)
      <4>1. w[d].child[m] = work[d].child[m]
        BY <3>2, <1>4, <1>7, <1>8, <1>9, <1>11
      <4>2. work[d].child[m] \in CaseId
        BY <4>1, <2>3, <1>1 DEF Case
      <4> QED BY <4>1, <4>2, <2>3, <1>1, <1>10 DEF Family
    <3> QED BY <3>1, <3>2
  <2> QED BY <2>1, <2>2, <2>3 DEF Family
<1>14. Waiting(w, stk)
  <2>1. ASSUME NEW d \in CaseId, NEW m \in Node, w[d].ns[m] = "RUNNING"
        PROVE  w[w[d].child[m]].state = "RUNNING"
    <3>1. CASE d = p
      <4>1. m = n /\ work[new].state # "COMPLETED"
        BY <3>1, <2>1, <1>7, <1>8
      <4>2. w[d].child[m] = new
        BY <3>1, <4>1, <1>4, <1>7, <1>8, <1>9
      <4>3. work[new].state = "RUNNING"
        BY <4>1, <1>1, <1>3 DEF Case
      <4> QED BY <4>2, <4>3, <1>3, <1>10
    <3>2. CASE d # p
      <4>1. work[d].ns[m] = "RUNNING" /\ w[d].child[m] = work[d].child[m]
        BY <3>2, <2>1, <1>11
      <4>2. work[d].child[m] \in CaseId
        BY <4>1, <1>1, Shaped
      <4>3. work[work[d].child[m]].state = "RUNNING"
        BY <4>1, <1>1, <1>2 DEF Waiting
      <4> QED BY <4>1, <4>2, <4>3, <1>10
    <3> QED BY <3>1, <3>2
  <2>2. ASSUME NEW k \in CaseId \ {Root},
               w[k].state = "RUNNING" \/ (stk # <<>> /\ k = stk[1].case)
        PROVE  Fresh(k, stk) \/ Linked(w, k)
    <3>1. work[k].state = "RUNNING" \/ k = stack[1].case
      BY <2>2, <1>10, <1>12
    <3>2. CASE k = new
      <4>1. work[new].state # "COMPLETED"
        BY <3>1, <3>2, <1>1, <1>2, <1>3 DEF Advances
      <4>2. w[p].child[n] = new /\ w[p].ns[n] = "RUNNING"
        BY <4>1, <1>4, <1>7, <1>8, <1>9
      <4> QED BY <3>2, <4>2, <1>3, <1>10 DEF Linked, n
    <3>3. CASE k # new
      <4>1. Fresh(k, stack) \/ Linked(work, k)
        BY <3>1, <1>1, <1>2 DEF Waiting
      <4>2. ASSUME Fresh(k, stack) PROVE Fresh(k, stk)
        <5>1. PICK i \in 2..Len(stack) : stack[i].case = k
          BY <4>2 DEF Fresh
        <5>2. i # Len(stack)
          BY <5>1, <3>3, <1>3
        <5>3. i \in 2..Len(stk) /\ i \in 1..Len(stk)
          <6>1. Len(stk) = Len(stack) - 1 /\ Len(stack) \in Nat
            BY <1>1, <1>12
          <6> QED BY <6>1, <5>2
        <5> QED BY <5>1, <5>3, <1>12 DEF Fresh
      <4>3. ASSUME Linked(work, k) PROVE Linked(w, k)
        <5>1. work[k].state # "ABSENT"
          BY <3>1, <1>1, <1>2 DEF Advances
        <5>2. work[k].parent \in CaseId /\ work[k].pnode \in Node
          BY <5>1, <1>1, TreeTypes DEF Family, Kin
        <5>3. work[k].parent # p
          BY <4>3, <5>2, <1>9 DEF Linked
        <5> QED BY <4>3, <5>2, <5>3, <1>10, <1>11 DEF Linked
      <4> QED BY <4>1, <4>2, <4>3
    <3> QED BY <3>2, <3>3
  <2> QED BY <2>1, <2>2 DEF Waiting
<1>15. Advances(w, stk)
  <2>1. ASSUME NEW i \in 1..Len(stk)
        PROVE  /\ w[stk[i].case].state # "ABSENT"
               /\ Along(w[stk[i].case].path, stk[i].using)
               /\ \A j \in 1..Len(stk) : stk[i].case = stk[j].case => i = j
    <3>1. /\ stk[i] = stack[i] /\ i \in 1..Len(stack) /\ stack[i].case \in CaseId
          /\ \A j \in 1..Len(stk) : stk[j] = stack[j] /\ j \in 1..Len(stack)
      BY <1>1, <1>12
    <3>2. /\ work[stack[i].case].state # "ABSENT"
          /\ Along(work[stack[i].case].path, stack[i].using)
          /\ \A j \in 1..Len(stack) : stack[i].case = stack[j].case => i = j
      BY <3>1, <1>1 DEF Advances
    <3>3. w[stk[i].case].state # "ABSENT" /\ Along(w[stk[i].case].path, stk[i].using)
      BY <3>1, <3>2, <1>10
    <3> QED BY <3>1, <3>2, <3>3
  <2>2. ASSUME NEW i \in 1..Len(stk), i > 1
        PROVE  /\ stk[i].case # Root /\ w[stk[i].case].parent = stk[i - 1].case
               /\ Spawning(w[stk[i - 1].case], w[stk[i].case].pnode, stk[i - 1].using)
    <3>1. i - 1 \in 1..Len(stk) /\ i - 1 # Len(stack) - 1 /\ i \in 1..Len(stack)
      BY <2>2, <1>1, <1>12
    <3>2. stack[i - 1].case \notin {new, p} /\ stk[i - 1] = stack[i - 1] /\ stk[i] = stack[i]
      BY <3>1, <1>1, <1>2, <1>12 DEF Advances, p, frame
    <3>3. stack[i - 1].case \in CaseId /\ stack[i].case \in CaseId
      BY <3>1, <1>1, <1>12
    <3>4. w[stack[i - 1].case] = work[stack[i - 1].case]
      BY <3>2, <3>3, <1>7
    <3>5. /\ stack[i].case # Root /\ work[stack[i].case].parent = stack[i - 1].case
          /\ Spawning(work[stack[i - 1].case], work[stack[i].case].pnode, stack[i - 1].using)
      BY <2>2, <3>1, <1>1 DEF Advances
    <3>6. /\ w[stack[i].case].parent = work[stack[i].case].parent
          /\ w[stack[i].case].pnode = work[stack[i].case].pnode
      BY <3>3, <1>10
    <3> QED BY <3>2, <3>4, <3>5, <3>6
  <2>3. InAdvance(w[stk[Len(stk)].case], stk[Len(stk)].using)
    <3>1. Len(stk) = Len(stack) - 1 /\ Len(stk) \in 1..Len(stk)
      BY <1>1, <1>2, <1>12
    <3>2. stk[Len(stk)] = frame
      BY <3>1, <1>12 DEF frame
    <3> QED BY <3>2, <1>7, <1>8 DEF p
  <2> QED BY <2>1, <2>2, <2>3 DEF Advances
<1>16. ASSUME NEW d \in CaseId, w[d].state # "ABSENT", ~OnStack(d, stk) PROVE AtRest(w[d])
  <2>1. CASE d = new
    <3>1. work[new] \in Case /\ Top.using \in Seq(Node)
      BY <1>1, <1>2, <1>3, Frames DEF Spawned
    <3>2. \A m \in Node : ~Fireable(work[new], m, Top.using) /\ ~Evaluable(work[new], m, Top.using)
      BY <1>4 DEF Quiet, new
    <3>3. AtRest(work[new])
      BY <3>1, <3>2, <1>3, QuietRests
    <3> QED BY <2>1, <3>3, <1>4, <1>7, Agreeing
  <2>2. CASE d # new
    <3>1. Len(stack) - 1 \in 1..Len(stk)
      BY <1>1, <1>2, <1>12
    <3>2. d # p
      BY <3>1, <1>16, <1>12 DEF OnStack, p, frame
    <3>3. ~OnStack(d, stack)
      <4>1. SUFFICES ASSUME NEW i \in 1..Len(stack), stack[i].case = d PROVE FALSE
        BY DEF OnStack
      <4>2. i # Len(stack)
        BY <4>1, <2>2, <1>3
      <4>3. i \in 1..Len(stk)
        BY <4>2, <1>1, <1>12
      <4> QED BY <4>1, <4>3, <1>12, <1>16 DEF OnStack
    <3> QED BY <2>2, <3>2, <3>3, <1>7, <1>16 DEF Tree
  <2> QED BY <2>1, <2>2
<1> QED BY <1>13, <1>14, <1>15, <1>16 DEF Tree, w, stk

\* The case on top of the stack.
LEMMA TopCase ==
    ASSUME TypeInv, Tree(work, stack), stack # <<>>
    PROVE  /\ Top.case \in CaseId /\ Top.using \in Seq(Node) /\ work[Top.case] \in Case
           /\ work \in [CaseId -> Case]
           /\ Len(stack) \in Nat /\ Len(stack) \in 1..Len(stack)
           /\ work[Top.case].state # "ABSENT"
           /\ Along(work[Top.case].path, Top.using)
           /\ InAdvance(work[Top.case], Top.using)
<1>1. /\ Len(stack) \in Nat /\ Len(stack) \in 1..Len(stack)
      /\ Top.case \in CaseId /\ Top.using \in Seq(Node) /\ work[Top.case] \in Case
      /\ work \in [CaseId -> Case] /\ Top = stack[Len(stack)]
  BY Frames DEF TypeInv, TypeOK, Top
<1>2. Advances(work, stack)
  BY DEF Tree
<1> QED BY <1>1, <1>2 DEF Advances

\* A step of the engine inside the case on top leaves the tree as it is.
LEMMA TreeEvaluate ==
    ASSUME TypeInv, Tree(work, stack), NEW n \in Node, Evaluate(n)
    PROVE  Tree(work', stack')
<1> DEFINE c == Top.case
           using == Top.using
           r == work[c]
           t == [r EXCEPT !.ns[n] = "ACTIVATED", !.announced = @ \ {n}]
<1>1. /\ stack # <<>> /\ Evaluable(r, n, using)
      /\ work' = [work EXCEPT ![c] = t] /\ stack' = stack
  BY DEF Evaluate, Step
<1>2. /\ c \in CaseId /\ using \in Seq(Node) /\ r \in Case /\ InAdvance(r, using)
  BY <1>1, TopCase
<1> HIDE DEF c, using, r
<1>3. /\ t \in Case /\ t.state = r.state /\ t.schema = r.schema /\ t.path = r.path
      /\ t.child = r.child /\ t.signaled = r.signaled /\ t.dropped = r.dropped
      /\ t.ns = [r.ns EXCEPT ![n] = "ACTIVATED"] /\ SameKin(t, r)
  BY <1>2 DEF Case, States, SameKin
<1> HIDE DEF t
<1>4. PICK f \in Node : Shape(r) /\ Front(r, f) /\ (Rests(r, f) \/ Moves(r, f, using))
  BY <1>2 DEF InAdvance
<1>5. n = f /\ r.state = "RUNNING"
  BY <1>1, <1>2, <1>4, EvaluableAtFront
<1>6. r.ns[n] = "NOT_ACTIVATED" /\ n \in Nodes(using)
  BY <1>1 DEF Evaluable
<1>7. Shape(t) /\ Front(t, n) /\ \A m \in Node : t.ns[m] # "RUNNING"
  <2>1. /\ "ACTIVATED" \in {"ACTIVATED", "COMPLETED"}
        /\ r.ns[n] \in {"NOT_ACTIVATED", "ACTIVATED"} /\ Shape(r) /\ Front(r, n)
    BY <1>4, <1>5, <1>6
  <2>2. Marks(t, r, n, "ACTIVATED")
    BY <1>3 DEF Marks
  <2> QED BY <2>1, <2>2, <1>2, MarkedFront
<1>8. \A m \in Node : r.ns[m] # "RUNNING"
  BY <1>2, <1>4, <1>5, <1>6, NoneRunning
<1>9. InAdvance(t, using)
  <2>1. t.ns[n] = "ACTIVATED"
    BY <1>2, <1>3, CaseFields
  <2>2. Moves(t, n, using)
    BY <2>1, <1>3, <1>5, <1>6 DEF Moves
  <2> QED BY <2>2, <1>7 DEF InAdvance
<1>10. Tree([work EXCEPT ![c] = t], stack)
  BY <1>1, <1>2, <1>3, <1>5, <1>7, <1>8, <1>9, TreeStep DEF c, using, r
<1> QED BY <1>1, <1>10

\* See TreeEvaluate.
LEMMA TreeFire ==
    ASSUME TypeInv, Tree(work, stack), NEW n \in Node, Fire(n)
    PROVE  Tree(work', stack')
<1> DEFINE c == Top.case
           using == Top.using
           r == work[c]
           ended == [r EXCEPT !.ns[n] = "COMPLETED", !.state = "COMPLETED"]
<1>1. PICK t : /\ stack # <<>> /\ Fireable(r, n, using)
               /\ work' = [work EXCEPT ![c] = t] /\ stack' = stack
               /\ \/ TypeOf[n] \in {"START", "LOOP_START", "LOOP_END"} /\ t = CompleteNode(r, n, using)
                  \/ TypeOf[n] = "LOOP_END" /\ r.rounds < MaxRounds /\ t = ResetLoopBlock(r, using)
                  \/ TypeOf[n] = "END" /\ t = ended
  BY DEF Fire, Step
<1>2. /\ c \in CaseId /\ using \in Seq(Node) /\ r \in Case /\ InAdvance(r, using)
      /\ Along(r.path, using)
  BY <1>1, TopCase
<1> HIDE DEF c, using, r, ended
<1>4. PICK f \in Node : Shape(r) /\ Front(r, f) /\ (Rests(r, f) \/ Moves(r, f, using))
  BY <1>2 DEF InAdvance
<1>5. n = f /\ r.state = "RUNNING"
  BY <1>1, <1>2, <1>4, FireableAtFront
<1>6. /\ r.ns[n] = "ACTIVATED" /\ n \in Nodes(using) /\ n \in Nodes(r.path)
      /\ r.ns \in [Node -> States] /\ r.path \in Seq(Node)
  BY <1>1, <1>2, <1>4, <1>5, CaseFields DEF Fireable, Front
<1>7. \A m \in Node : r.ns[m] # "RUNNING"
  BY <1>2, <1>4, <1>5, <1>6, NoneRunning
<1>8. /\ t \in Case /\ t.state \in {"RUNNING", "COMPLETED"} /\ SameKin(t, r) /\ t.path = r.path
      /\ InAdvance(t, using)
      /\ \A m \in Node : t.ns[m] # "RUNNING" /\ t.child[m] \in {NoCase, r.child[m]}
  <2>1. CASE TypeOf[n] \in {"START", "LOOP_START", "LOOP_END"} /\ t = CompleteNode(r, n, using)
    <3>1. t \in Case /\ Completes(t, r, n, using) /\ TypeOf[n] # "END"
      BY <2>1, <1>2, CompletedCase
    <3>2. InAdvance(t, using) /\ \A m \in Node : t.ns[m] # "RUNNING"
      BY <3>1, <1>2, <1>4, <1>5, <1>6, CompletedFront
    <3> QED BY <3>1, <3>2, <1>5 DEF Completes, SameKin
  <2>2. CASE TypeOf[n] = "LOOP_END" /\ r.rounds < MaxRounds /\ t = ResetLoopBlock(r, using)
    <3>1. using = r.path
      BY <2>2, <1>2, <1>6 DEF Along, HasLoop, LoopTypes
    <3>2. InAdvance(t, using) /\ \A m \in Node : t.ns[m] # "RUNNING"
      BY <2>2, <3>1, <1>2, <1>4, <1>5, <1>6, ResetFront
    <3>3. t \in Case /\ SameKin(t, r)
      BY <2>2, <1>2, ResetCase DEF SameKin
    <3>4. /\ t.path = r.path /\ t.state = r.state
          /\ \A m \in Node : t.child[m] \in {NoCase, r.child[m]}
      BY <2>2, <1>2 DEF ResetLoopBlock, Case
    <3> QED BY <3>2, <3>3, <3>4, <1>5
  <2>3. CASE TypeOf[n] = "END" /\ t = ended
    <3>1. /\ t \in Case /\ t.state = "COMPLETED" /\ t.schema = r.schema /\ t.path = r.path
          /\ t.child = r.child /\ t.signaled = r.signaled /\ t.dropped = r.dropped
          /\ t.ns = [r.ns EXCEPT ![n] = "COMPLETED"] /\ SameKin(t, r)
      BY <2>3, <1>2 DEF Case, States, SameKin, ended
    <3>2. Shape(t) /\ Front(t, n) /\ \A m \in Node : t.ns[m] # "RUNNING"
      <4>1. /\ "COMPLETED" \in {"ACTIVATED", "COMPLETED"}
            /\ r.ns[n] \in {"NOT_ACTIVATED", "ACTIVATED"} /\ Shape(r) /\ Front(r, n)
        BY <1>4, <1>5, <1>6
      <4>2. Marks(t, r, n, "COMPLETED")
        BY <3>1 DEF Marks
      <4> QED BY <4>1, <4>2, <1>2, MarkedFront
    <3>3. t.ns[n] = "COMPLETED"
      BY <3>1, <1>6
    <3>4. Rests(t, n)
      BY <3>1, <3>3, <2>3 DEF Rests
    <3>5. InAdvance(t, using)
      BY <3>2, <3>4 DEF InAdvance
    <3> QED BY <3>1, <3>2, <3>5
  <2> QED BY <1>1, <2>1, <2>2, <2>3
<1>9. Tree([work EXCEPT ![c] = t], stack)
  BY <1>1, <1>2, <1>7, <1>8, TreeStep DEF c, using, r
<1> QED BY <1>1, <1>9

\* A case that has ended waits for nobody.
LEMMA EndedWaitsForNobody ==
    ASSUME NEW r \in Case, NEW using, InAdvance(r, using), r.state = "COMPLETED"
    PROVE  \A n \in Node : r.ns[n] # "RUNNING"
<1>1. PICK f \in Node : Front(r, f) /\ (Rests(r, f) \/ Moves(r, f, using))
  BY DEF InAdvance
<1>2. r.ns[f] # "RUNNING" /\ Shape(r)
  BY <1>1 DEF InAdvance, Rests, Moves
<1> QED BY <1>1, <1>2, NoneRunning

\* The family looks only at the places in the tree, the paths and who exists.
LEMMA SameFamily ==
    ASSUME NEW w \in [CaseId -> Case], NEW v, Family(w),
           \A c \in CaseId : /\ v[c].state = w[c].state /\ v[c].path = w[c].path
                             /\ v[c].child = w[c].child
                             /\ v[c].parent = w[c].parent /\ v[c].pnode = w[c].pnode
                             /\ w[c].state = "ABSENT" => v[c].ns = w[c].ns
    PROVE  Family(v)
<1>1. ASSUME NEW c \in CaseId, NEW n \in Node, v[c].state = "ABSENT"
      PROVE  v[c].child[n] = NoCase /\ v[c].ns[n] # "RUNNING"
  BY <1>1 DEF Family
<1>2. ASSUME NEW c \in CaseId, v[c].state # "ABSENT"
      PROVE  IF c = Root THEN v[c].parent = NoCase
             ELSE /\ v[c].parent \in CaseId /\ v[v[c].parent].state # "ABSENT"
                  /\ v[c].pnode \in Nodes(v[v[c].parent].path) /\ TypeOf[v[c].pnode] = "SUBPROCESS"
  BY <1>2 DEF Family
<1>3. ASSUME NEW c \in CaseId, NEW n \in Node, v[c].child[n] # NoCase
      PROVE  LET k == v[c].child[n]
             IN  v[k].state # "ABSENT" /\ v[k].parent = c /\ v[k].pnode = n /\ k # Root
  <2>1. w[c].child[n] \in CaseId /\ v[c].child[n] = w[c].child[n]
    BY <1>3 DEF Case
  <2> QED BY <1>3, <2>1 DEF Family
<1> QED BY <1>1, <1>2, <1>3 DEF Family

\* A case that has ended joins the parent that waits for it, which is advanced along the
\* base schema -- and fails there when an ad-hoc change took out one of its nodes.
LEMMA TreePropagate ==
    ASSUME TypeInv, Tree(work, stack), Propagate
    PROVE  stack' # <<>> /\ (Tree(work', stack') \/ Unmarked')
<1> DEFINE c == Top.case
           p == work[c].parent
           n == work[c].pnode
           using == Chain[work[p].schema]
           t == Join(work[p], n, using)
           w == work'
           stk == stack'
<1>1. /\ Len(stack) = 1 /\ Quiet /\ Joinable(c) /\ stack # <<>>
      /\ w = [work EXCEPT ![p] = t] /\ stk = <<[case |-> p, using |-> using]>>
  <2>1. Len(stack) = 1
    BY DEF Propagate
  <2>2. stack # <<>>
    BY <2>1, EmptySeq
  <2> QED BY <2>1, <2>2 DEF Propagate
<1>2. /\ TypeOK /\ work \in [CaseId -> Case] /\ Kin(work) /\ c \in CaseId /\ work[c] \in Case
      /\ c = stack[1].case /\ Top.using \in Seq(Node) /\ InAdvance(work[c], Top.using)
      /\ 1 \in 1..Len(stack)
  BY <1>1, TopCase DEF TypeInv, TypeOK, Top
<1> HIDE DEF c, w, stk
<1>3. /\ work[c].state = "COMPLETED" /\ p \in CaseId /\ n \in Node /\ work[p].child[n] = c
      /\ work[p] \in Case
  BY <1>1, <1>2 DEF Joinable, Case, Kin
<1>4. using \in Seq(Node) /\ work[p].schema \in Schema
  BY <1>3, TreeTypes, CaseFields
<1> HIDE DEF p, n, using
<1>5. t \in Case /\ Completes(t, work[p], n, using)
  BY <1>3, <1>4, CompletedCase
<1> HIDE DEF t
<1>6. Family(work) /\ Waiting(work, stack) /\ Advances(work, stack)
  BY DEF Tree
<1>7. \A d : OnStack(d, stack) => d = c
  BY <1>1, <1>2 DEF OnStack
<1>8. \A d : ~Fresh(d, stack)
  BY <1>1 DEF Fresh
<1>9. /\ c # Root /\ work[c].parent = p /\ work[c].pnode = n
      /\ work[p].state # "ABSENT" /\ TypeOf[n] = "SUBPROCESS"
  <2>1. c # Root
    BY <1>2, <1>3, <1>6, TreeTypes DEF Family
  <2> QED BY <2>1, <1>2, <1>3, <1>6 DEF Family, p, n
<1>10. work[p].ns[n] = "RUNNING"
  <2>1. Linked(work, c)
    BY <1>1, <1>2, <1>6, <1>8, <1>9 DEF Waiting
  <2> QED BY <2>1, <1>9 DEF Linked
<1>11. p # c
  BY <1>2, <1>3, <1>10, EndedWaitsForNobody
<1>12. AtRest(work[p])
  BY <1>3, <1>7, <1>9, <1>11 DEF Tree
<1>13. /\ Shape(work[p]) /\ Front(work[p], n) /\ work[p].state = "RUNNING"
       /\ \A m \in Node : m # n => work[p].ns[m] # "RUNNING"
  <2>1. PICK f \in Node : Front(work[p], f) /\ Rests(work[p], f)
    BY <1>12 DEF AtRest
  <2>2. Shape(work[p])
    BY <1>12 DEF AtRest
  <2>3. n = f
    BY <2>1, <2>2, <1>3, <1>10, OnlyFront
  <2>4. \A m \in Node : m # f => work[p].ns[m] # "RUNNING"
    BY <2>1, <2>2, <1>3, OnlyFront
  <2>5. work[p].state = "RUNNING"
    BY <2>1, <2>3, <1>10 DEF Rests
  <2> QED BY <2>1, <2>2, <2>3, <2>4, <2>5
<1>14. n \in Nodes(work[p].path) /\ n \in Nodes(using)
  <2>1. n \in Nodes(work[p].path) /\ Varies(work[p].path, using)
    BY <1>13 DEF Front, Shape, using
  <2>2. n \notin Inserted
    BY <1>9, TreeTypes
  <2> QED BY <2>1, <2>2 DEF Varies
<1>15. /\ w[p] = t /\ \A d \in CaseId \ {p} : w[d] = work[d]
  BY <1>1, <1>2, <1>3 DEF p
<1>16. /\ stk # <<>> /\ Len(stk) = 1 /\ stk[1].case = p /\ stk[1].using = using
  BY <1>1, <1>3, <1>4, Single DEF p, using
<1>17. /\ t.path = work[p].path /\ t.state = work[p].state /\ t.child = work[p].child
       /\ t.parent = work[p].parent /\ t.pnode = work[p].pnode
       /\ t.ns = [work[p].ns EXCEPT ![n] = "COMPLETED"]
  BY <1>5 DEF Completes
<1>18. CASE Nodes(using) \subseteq Nodes(work[p].path)
  <2>1. Along(work[p].path, using)
    BY <1>3, <1>4, <1>13, <1>18, AlongChain, CaseFields DEF Shape, using
  <2>2. InAdvance(t, using) /\ \A m \in Node : t.ns[m] # "RUNNING"
    BY <2>1, <1>3, <1>4, <1>5, <1>9, <1>13, <1>14, CompletedFront
  <2>3. \A d \in CaseId : /\ w[d].state = work[d].state /\ w[d].path = work[d].path
                          /\ w[d].child = work[d].child
                          /\ w[d].parent = work[d].parent /\ w[d].pnode = work[d].pnode
                          /\ d # p => w[d].ns = work[d].ns
    BY <1>15, <1>17
  <2>4. Family(w)
    BY <2>3, <1>2, <1>6, <1>9, SameFamily
  <2>5. Waiting(w, stk)
    <3>1. ASSUME NEW d \in CaseId, NEW m \in Node, w[d].ns[m] = "RUNNING"
          PROVE  w[w[d].child[m]].state = "RUNNING"
      <4>1. d # p /\ work[d].ns[m] = "RUNNING"
        BY <3>1, <2>2, <2>3, <1>15
      <4>2. work[d].child[m] \in CaseId /\ work[d].child[m] # NoCase
        BY <4>1, <1>2, Shaped DEF TypeOK
      <4>3. work[d].child[m] # c
        BY <4>1, <4>2, <1>6, <1>9 DEF Family
      <4>4. work[work[d].child[m]].state = "RUNNING"
        BY <4>1, <4>3, <1>2, <1>6 DEF Waiting
      <4> QED BY <4>2, <4>4, <2>3
    <3>2. ASSUME NEW k \in CaseId \ {Root},
                 w[k].state = "RUNNING" \/ (stk # <<>> /\ k = stk[1].case)
          PROVE  Linked(w, k)
      <4>1. work[k].state = "RUNNING"
        BY <3>2, <2>3, <1>13, <1>16
      <4>2. Linked(work, k)
        BY <4>1, <1>6, <1>8 DEF Waiting
      <4>3. work[k].parent \in CaseId /\ work[k].pnode \in Node
        BY <4>1, <1>2, <1>6, TreeTypes DEF Family, Kin
      <4>4. work[k].parent # p
        BY <4>1, <4>2, <4>3, <1>3, <1>13 DEF Linked
      <4> QED BY <4>2, <4>3, <4>4, <2>3 DEF Linked
    <3> QED BY <3>1, <3>2 DEF Waiting
  <2>6. Advances(w, stk)
    <3>1. \A i \in 1..Len(stk) : i = 1
      BY <1>16
    <3>2. Along(w[p].path, using) /\ InAdvance(w[p], using) /\ w[p].state # "ABSENT"
      BY <2>1, <2>2, <1>9, <1>15, <1>17
    <3> QED BY <3>1, <3>2, <1>16 DEF Advances
  <2>7. ASSUME NEW d \in CaseId, w[d].state # "ABSENT", ~OnStack(d, stk) PROVE AtRest(w[d])
    <3>1. d # p
      BY <2>7, <1>16 DEF OnStack
    <3>2. CASE d = c
      <4>1. \A m \in Node : ~Fireable(work[c], m, Top.using) /\ ~Evaluable(work[c], m, Top.using)
        BY <1>1 DEF Quiet, c
      <4>2. AtRest(work[c])
        BY <4>1, <1>2, QuietRests
      <4> QED BY <3>1, <3>2, <4>2, <1>15
    <3>3. CASE d # c
      <4>1. AtRest(work[d])
        BY <3>1, <3>3, <2>7, <1>7, <1>15 DEF Tree
      <4> QED BY <3>1, <4>1, <1>15
    <3> QED BY <3>2, <3>3
  <2> QED BY <2>4, <2>5, <2>6, <2>7, <1>16 DEF Tree, w, stk
<1>19. CASE ~(Nodes(using) \subseteq Nodes(work[p].path))
  <2>1. PICK m \in Nodes(using) : m \notin Nodes(work[p].path)
    BY <1>19
  <2>2. m \in Node
    BY <1>4, <2>1 DEF Nodes
  <2>3. work[p].ns[m] = "none" /\ m # n
    BY <2>1, <2>2, <1>13, <1>14 DEF Shape
  <2>4. w[p].ns[m] = "none"
    BY <2>2, <2>3, <1>3, <1>15, <1>17, CaseFields
  <2>5. stk[Len(stk)].case = p /\ stk[Len(stk)].using = using
    BY <1>16
  <2> QED BY <2>1, <2>4, <2>5, <1>16 DEF Unmarked, Top, w, stk
<1> QED BY <1>18, <1>19

-----------------------------------------------------------------------------
(***************************************************************************)
(* The tree: requests, their end, and the boundary.                        *)
(***************************************************************************)

\* Nothing is in flight.
LEMMA EmptyStack ==
    /\ <<>> \in Seq([case : CaseId, using : Seq(Node)]) /\ Len(<<>>) = 0
    /\ \A c : ~OnStack(c, <<>>) /\ ~Fresh(c, <<>>)
    /\ \A w : Advances(w, <<>>)
<1>1. <<>> \in Seq([case : CaseId, using : Seq(Node)]) /\ Len(<<>>) = 0
  BY EmptySeq
<1> QED BY <1>1 DEF OnStack, Fresh, Advances

\* The outermost advance is over and joins nobody: the tree is at rest.
LEMMA TreeSettled ==
    ASSUME TypeInv, Tree(work, stack), Len(stack) = 1, Quiet, ~Joinable(Top.case)
    PROVE  Tree(work, <<>>)
<1> DEFINE c == Top.case
<1>1. stack # <<>>
  BY EmptySeq
<1>2. /\ work \in [CaseId -> Case] /\ c \in CaseId /\ work[c] \in Case /\ work[c].state # "ABSENT"
      /\ Top.using \in Seq(Node) /\ InAdvance(work[c], Top.using) /\ c = stack[1].case
      /\ ~Joinable(c)
  BY <1>1, TopCase DEF Top
<1>3. \A m \in Node : ~Fireable(work[c], m, Top.using) /\ ~Evaluable(work[c], m, Top.using)
  BY DEF Quiet
<1>4. AtRest(work[c])
  BY <1>2, <1>3, QuietRests
<1> HIDE DEF c
<1>5. Family(work) /\ Waiting(work, stack)
  BY DEF Tree
<1>6. ASSUME NEW d \in CaseId, NEW m \in Node, work[d].ns[m] = "RUNNING"
      PROVE  work[work[d].child[m]].state = "RUNNING"
  <2>1. work[d].child[m] \in CaseId /\ work[d].child[m] # NoCase
    BY <1>2, <1>6, Shaped DEF TypeInv, TypeOK
  <2>2. CASE work[d].child[m] = c
    <3>1. work[c].parent = d /\ work[c].pnode = m
      BY <2>1, <2>2, <1>5, <1>6 DEF Family
    <3>2. work[c].state # "COMPLETED"
      BY <3>1, <2>2, <1>2, <1>6, TreeTypes DEF Joinable
    <3> QED BY <3>2, <2>2, <1>2 DEF Case
  <2>3. CASE work[d].child[m] # c
    BY <2>3, <1>2, <1>5, <1>6 DEF Waiting
  <2> QED BY <2>2, <2>3
<1>7. ASSUME NEW k \in CaseId \ {Root}, work[k].state = "RUNNING" PROVE Linked(work, k)
  <2>1. ~Fresh(k, stack)
    BY DEF Fresh
  <2> QED BY <2>1, <1>5, <1>7 DEF Waiting
<1>8. Waiting(work, <<>>)
  BY <1>6, <1>7 DEF Waiting
<1>9. ASSUME NEW d \in CaseId, work[d].state # "ABSENT" PROVE AtRest(work[d])
  <2>1. d # c => ~OnStack(d, stack)
    BY <1>2 DEF OnStack
  <2> QED BY <2>1, <1>4, <1>9 DEF Tree
<1> QED BY <1>5, <1>8, <1>9, EmptyStack DEF Tree

\* What the boundary stamps, mails and audits leaves the tree as it is.
LEMMA TreeBoundary ==
    ASSUME TypeInv, TypeInv', Tree(work, <<>>), NEW c, NEW t,
           c \in CaseId => Agrees(t, work[c]),
           work' = [work EXCEPT ![c] = t]
    PROVE  Tree(work', <<>>)
<1>1. work \in [CaseId -> Case] /\ work' \in [CaseId -> Case]
  BY DEF TypeInv, TypeOK
<1>2. ASSUME NEW d \in CaseId PROVE Agrees(work'[d], work[d])
  <2>1. CASE d = c
    BY <2>1, <1>1
  <2>2. CASE d # c
    <3>1. work'[d] = work[d]
      BY <2>2, <1>1
    <3> QED BY <3>1 DEF Agrees
  <2> QED BY <2>1, <2>2
<1> QED BY <1>1, <1>2, EmptyStack, TreeAgreeing

\* A request opens the advance of one case.
LEMMA TreeOpened ==
    ASSUME NEW w \in [CaseId -> Case], Tree(w, <<>>), NEW c \in CaseId, NEW t \in Case,
           NEW using \in Seq(Node), InAdvance(t, using), Along(t.path, using), t.state = "RUNNING",
           \A n \in Node : t.ns[n] # "RUNNING" /\ w[c].ns[n] # "RUNNING",
           \/ /\ c = Root /\ w[c].state = "ABSENT" /\ t.parent = NoCase
              /\ \A n \in Node : t.child[n] = NoCase
           \/ /\ w[c].state = "RUNNING" /\ SameKin(t, w[c])
              /\ t.path = w[c].path /\ t.child = w[c].child,
           NEW v, v = [w EXCEPT ![c] = t],
           NEW stk, stk = <<[case |-> c, using |-> using]>>
    PROVE  Tree(v, stk)
<1>1. v[c] = t /\ \A d \in CaseId \ {c} : v[d] = w[d]
  OBVIOUS
<1>2. Len(stk) = 1 /\ stk # <<>> /\ stk[1].case = c /\ stk[1].using = using
  BY Single
<1>3. /\ Family(w) /\ Waiting(w, <<>>)
      /\ \A d \in CaseId : w[d].state # "ABSENT" => AtRest(w[d])
  BY EmptyStack DEF Tree
<1>4. ASSUME NEW d \in CaseId, w[d].state # "ABSENT"
      PROVE  /\ v[d].parent = w[d].parent /\ v[d].pnode = w[d].pnode
             /\ v[d].path = w[d].path /\ v[d].state # "ABSENT"
  BY <1>1, <1>4 DEF SameKin
<1>5. Family(v)
  <2>1. ASSUME NEW d \in CaseId, NEW m \in Node, v[d].state = "ABSENT"
        PROVE  v[d].child[m] = NoCase /\ v[d].ns[m] # "RUNNING"
    BY <2>1, <1>1, <1>3 DEF Family
  <2>2. ASSUME NEW d \in CaseId, v[d].state # "ABSENT"
        PROVE  IF d = Root THEN v[d].parent = NoCase
               ELSE /\ v[d].parent \in CaseId /\ v[v[d].parent].state # "ABSENT"
                    /\ v[d].pnode \in Nodes(v[v[d].parent].path) /\ TypeOf[v[d].pnode] = "SUBPROCESS"
    <3>1. CASE w[d].state # "ABSENT"
      BY <3>1, <1>3, <1>4 DEF Family
    <3>2. CASE w[d].state = "ABSENT"
      <4>1. d = c
        BY <3>2, <2>2, <1>1
      <4> QED BY <4>1, <3>2, <1>1
    <3> QED BY <3>1, <3>2
  <2>3. ASSUME NEW d \in CaseId, NEW m \in Node, v[d].child[m] # NoCase
        PROVE  LET k == v[d].child[m]
               IN  v[k].state # "ABSENT" /\ v[k].parent = d /\ v[k].pnode = m /\ k # Root
    <3>1. v[d].child[m] = w[d].child[m]
      BY <2>3, <1>1
    <3>2. w[d].child[m] \in CaseId
      BY <2>3, <3>1 DEF Case
    <3> QED BY <2>3, <3>1, <3>2, <1>3, <1>4 DEF Family
  <2> QED BY <2>1, <2>2, <2>3 DEF Family
<1>6. Waiting(v, stk)
  <2>1. ASSUME NEW d \in CaseId, NEW m \in Node, v[d].ns[m] = "RUNNING"
        PROVE  v[v[d].child[m]].state = "RUNNING"
    <3>1. d # c /\ v[d] = w[d]
      BY <2>1, <1>1
    <3>2. w[d].child[m] \in CaseId
      BY <2>1, <3>1, EmptyStack, Shaped
    <3>3. w[w[d].child[m]].state = "RUNNING"
      BY <2>1, <3>1, <1>3, EmptyStack DEF Waiting
    <3> QED BY <3>1, <3>2, <3>3, <1>1
  <2>2. ASSUME NEW k \in CaseId \ {Root},
               v[k].state = "RUNNING" \/ (stk # <<>> /\ k = stk[1].case)
        PROVE  Linked(v, k)
    <3>1. w[k].state = "RUNNING"
      BY <2>2, <1>1, <1>2
    <3>2. Linked(w, k)
      BY <3>1, <1>3, EmptyStack DEF Waiting
    <3>3. w[k].parent \in CaseId /\ TypeOf[w[k].pnode] = "SUBPROCESS"
          /\ w[k].pnode \in Nodes(w[w[k].parent].path)
      BY <3>1, <1>3 DEF Family
    <3>4. w[k].pnode \in Node
      BY <3>3, CaseFields
    <3>5. w[k].parent # c
      BY <3>2, <3>3, <3>4 DEF Linked
    <3> QED BY <3>1, <3>2, <3>3, <3>5, <1>1, <1>4 DEF Linked
  <2> QED BY <2>1, <2>2 DEF Waiting
<1>7. Advances(v, stk)
  <2>1. \A i \in 1..Len(stk) : i = 1
    BY <1>2
  <2>2. v[c].state # "ABSENT" /\ Along(v[c].path, using) /\ InAdvance(v[c], using)
    BY <1>1
  <2> QED BY <2>1, <2>2, <1>2 DEF Advances
<1>8. ASSUME NEW d \in CaseId, v[d].state # "ABSENT", ~OnStack(d, stk) PROVE AtRest(v[d])
  <2>1. d # c
    BY <1>2, <1>8 DEF OnStack
  <2> QED BY <2>1, <1>1, <1>3, <1>8
<1> QED BY <1>5, <1>6, <1>7, <1>8 DEF Tree

\* An ad-hoc change keeps the calls of its case.
LEMMA TreeChanged ==
    ASSUME NEW w \in [CaseId -> Case], Tree(w, <<>>), NEW c \in CaseId, NEW t \in Case,
           w[c].state # "ABSENT", AtRest(t), t.state = w[c].state, SameKin(t, w[c]),
           t.child = w[c].child,
           \A n \in Node : /\ t.ns[n] = "RUNNING" <=> w[c].ns[n] = "RUNNING"
                           /\ TypeOf[n] = "SUBPROCESS" /\ n \in Nodes(w[c].path)
                                  => n \in Nodes(t.path),
           NEW v, v = [w EXCEPT ![c] = t]
    PROVE  Tree(v, <<>>)
<1>1. v[c] = t /\ \A d \in CaseId \ {c} : v[d] = w[d]
  OBVIOUS
<1>3. /\ Family(w) /\ Waiting(w, <<>>)
      /\ \A d \in CaseId : w[d].state # "ABSENT" => AtRest(w[d])
  BY EmptyStack DEF Tree
<1>4. ASSUME NEW d \in CaseId
      PROVE  /\ v[d].parent = w[d].parent /\ v[d].pnode = w[d].pnode /\ v[d].state = w[d].state
             /\ v[d].child = w[d].child
             /\ \A n \in Node : /\ v[d].ns[n] = "RUNNING" <=> w[d].ns[n] = "RUNNING"
                                /\ TypeOf[n] = "SUBPROCESS" /\ n \in Nodes(w[d].path)
                                       => n \in Nodes(v[d].path)
  BY <1>1 DEF SameKin
<1>5. Family(v)
  <2>1. ASSUME NEW d \in CaseId, NEW m \in Node, v[d].state = "ABSENT"
        PROVE  v[d].child[m] = NoCase /\ v[d].ns[m] # "RUNNING"
    BY <2>1, <1>3, <1>4 DEF Family
  <2>2. ASSUME NEW d \in CaseId, v[d].state # "ABSENT"
        PROVE  IF d = Root THEN v[d].parent = NoCase
               ELSE /\ v[d].parent \in CaseId /\ v[v[d].parent].state # "ABSENT"
                    /\ v[d].pnode \in Nodes(v[v[d].parent].path) /\ TypeOf[v[d].pnode] = "SUBPROCESS"
    <3>1. CASE d = Root
      BY <3>1, <2>2, <1>3, <1>4 DEF Family
    <3>2. CASE d # Root
      <4>1. /\ w[d].parent \in CaseId /\ w[w[d].parent].state # "ABSENT"
            /\ w[d].pnode \in Nodes(w[w[d].parent].path) /\ TypeOf[w[d].pnode] = "SUBPROCESS"
        BY <3>2, <2>2, <1>3, <1>4 DEF Family
      <4>2. w[d].pnode \in Node
        BY <4>1, CaseFields
      <4> QED BY <3>2, <4>1, <4>2, <1>4
    <3> QED BY <3>1, <3>2
  <2>3. ASSUME NEW d \in CaseId, NEW m \in Node, v[d].child[m] # NoCase
        PROVE  LET k == v[d].child[m]
               IN  v[k].state # "ABSENT" /\ v[k].parent = d /\ v[k].pnode = m /\ k # Root
    <3>1. w[d].child[m] \in CaseId /\ v[d].child[m] = w[d].child[m]
      BY <2>3, <1>4 DEF Case
    <3> QED BY <2>3, <3>1, <1>3, <1>4 DEF Family
  <2> QED BY <2>1, <2>2, <2>3 DEF Family
<1>6. Waiting(v, <<>>)
  <2>1. ASSUME NEW d \in CaseId, NEW m \in Node, v[d].ns[m] = "RUNNING"
        PROVE  v[v[d].child[m]].state = "RUNNING"
    <3>1. w[d].ns[m] = "RUNNING" /\ v[d].child[m] = w[d].child[m]
      BY <2>1, <1>4
    <3>2. w[d].child[m] \in CaseId
      BY <3>1, EmptyStack, Shaped
    <3>3. w[w[d].child[m]].state = "RUNNING"
      BY <3>1, <1>3, EmptyStack DEF Waiting
    <3> QED BY <3>1, <3>2, <3>3, <1>4
  <2>2. ASSUME NEW k \in CaseId \ {Root}, v[k].state = "RUNNING" PROVE Linked(v, k)
    <3>1. w[k].state = "RUNNING"
      BY <2>2, <1>4
    <3>2. Linked(w, k)
      BY <3>1, <1>3, EmptyStack DEF Waiting
    <3>3. w[k].parent \in CaseId /\ w[k].pnode \in Nodes(w[w[k].parent].path)
      BY <3>1, <1>3 DEF Family
    <3>4. w[k].pnode \in Node
      BY <3>3, CaseFields
    <3> QED BY <3>2, <3>3, <3>4, <1>4 DEF Linked
  <2> QED BY <2>1, <2>2 DEF Waiting
<1>8. ASSUME NEW d \in CaseId, v[d].state # "ABSENT" PROVE AtRest(v[d])
  BY <1>1, <1>3, <1>8
<1> QED BY <1>5, <1>6, <1>8, EmptyStack DEF Tree

\* What holds between two requests.
LEMMA TreeAtRest ==
    ASSUME TypeInv, IInv, ~Busy
    PROVE  /\ cases \in [CaseId -> Case] /\ work = cases /\ stack = <<>> /\ walk = NoCase
           /\ Tree(cases, <<>>)
           /\ \A c \in CaseId : cases[c].state # "ABSENT" => AtRest(cases[c])
<1>1. /\ cases \in [CaseId -> Case] /\ work = cases /\ stack = <<>> /\ walk = NoCase
      /\ Tree(cases, <<>>)
  BY DEF TypeInv, TypeOK, IInv, Busy
<1> QED BY <1>1, EmptyStack DEF Tree

\* A request that advances a case has the tree before it.
LEMMA TreeInstantiate ==
    ASSUME TypeInv, IInv, Instantiate
    PROVE  Tree(work', stack') /\ stack' # <<>> /\ origin' \in CaseId
<1> DEFINE t == NewCase(RootSchema, NoCase, NoNode)
           using == Chain[RootSchema]
<1>1. /\ ~Busy /\ cases[Root].state = "ABSENT"
      /\ work' = [work EXCEPT ![Root] = t] /\ stack' = <<[case |-> Root, using |-> using]>>
      /\ origin' = Root
  BY DEF Instantiate, Open
<1>2. Root \in CaseId /\ RootSchema \in Schema /\ using \in Seq(Node)
  BY TreeTypes
<1>3. t \in Case /\ InAdvance(t, using)
  BY <1>2, NewCaseMoves
<1>4. /\ t.parent = NoCase /\ t.state = "RUNNING" /\ t.path = using
      /\ \A m \in Node : t.child[m] = NoCase /\ t.ns[m] # "RUNNING"
  BY DEF NewCase
<1> HIDE DEF t, using
<1>5. Along(t.path, using)
  BY <1>2, <1>4, AlongItself, ChainRegular DEF using
<1>6. /\ cases \in [CaseId -> Case] /\ work = cases /\ Tree(cases, <<>>)
  BY <1>1, TreeAtRest
<1>7. \A m \in Node : cases[Root].ns[m] # "RUNNING"
  BY <1>1, <1>2, <1>6 DEF Tree, Family
<1>8. Tree(work', stack')
  BY <1>1, <1>2, <1>3, <1>4, <1>5, <1>6, <1>7, TreeOpened
<1>9. stack' # <<>>
  BY <1>1, <1>2, Single
<1> QED BY <1>1, <1>2, <1>8, <1>9

\* See TreeInstantiate.
LEMMA TreeComplete ==
    ASSUME TypeInv, IInv, NEW c \in CaseId, NEW n \in Node, CompleteActivity(c, n)
    PROVE  Tree(work', stack') /\ stack' # <<>> /\ origin' \in CaseId
<1> DEFINE r == cases[c]
           using == r.path
           t == CompleteNode(r, n, using)
<1>1. /\ ~Busy /\ r.state = "RUNNING" /\ n \in Nodes(r.path) /\ TypeOf[n] = "ACTIVITY"
      /\ r.ns[n] = "ACTIVATED"
      /\ work' = [work EXCEPT ![c] = t] /\ stack' = <<[case |-> c, using |-> using]>>
      /\ origin' = c
  BY DEF CompleteActivity, Open, ReadySteps
<1>2. /\ cases \in [CaseId -> Case] /\ work = cases /\ Tree(cases, <<>>) /\ AtRest(r)
  BY <1>1, TreeAtRest
<1>3. r \in Case /\ using \in Seq(Node)
  BY <1>2, CaseFields
<1> HIDE DEF r
<1>4. PICK f \in Node : Shape(r) /\ Front(r, f) /\ Rests(r, f)
  BY <1>2 DEF AtRest
<1>5. n = f
  BY <1>1, <1>3, <1>4, OnlyFront
<1>6. t \in Case /\ Completes(t, r, n, using)
  BY <1>3, CompletedCase
<1> HIDE DEF using, t
<1>7. Along(r.path, using)
  BY <1>3, <1>4, AlongItself DEF Shape, using
<1>8. InAdvance(t, using) /\ \A m \in Node : t.ns[m] # "RUNNING"
  <2>1. n \in Nodes(using) /\ TypeOf[n] # "END"
    BY <1>1 DEF using
  <2> QED BY <2>1, <1>1, <1>3, <1>4, <1>5, <1>6, <1>7, CompletedFront
<1>9. \A m \in Node : r.ns[m] # "RUNNING"
  BY <1>1, <1>3, <1>4, <1>5, NoneRunning
<1>10. /\ t.state = "RUNNING" /\ SameKin(t, r) /\ t.path = r.path /\ t.child = r.child
  BY <1>1, <1>6 DEF Completes, SameKin
<1>11. Tree(work', stack')
  BY <1>1, <1>2, <1>3, <1>6, <1>7, <1>8, <1>9, <1>10, TreeOpened DEF r
<1>12. stack' # <<>>
  BY <1>1, <1>3, Single
<1> QED BY <1>1, <1>11, <1>12

\* No released schema has a loop.
NoLoops == \A s \in Schema : ~HasLoop(Chain[s])

\* A variant of a chain without a loop has no loop: an ad-hoc change inserts activities.
LEMMA LoopFree ==
    ASSUME NEW r \in Case, Shape(r), NoLoops
    PROVE  ~HasLoop(r.path)
<1>1. Nodes(r.path) \subseteq Nodes(Chain[r.schema]) \cup Inserted /\ r.schema \in Schema
  BY CaseFields DEF Shape, Varies
<1>2. \A n \in Inserted : TypeOf[n] \notin LoopTypes
  BY TreeTypes DEF LoopTypes
<1> QED BY <1>1, <1>2 DEF NoLoops, HasLoop

\* An insertion leaves the tree as it is, unless it adds a step to a case that has a
\* loop.
LEMMA TreeInsert ==
    ASSUME TypeInv, TypeInv', IInv, LoopsKeepTheirSteps' \/ NoLoops,
           NEW c \in CaseId, NEW x \in Inserted, AdhocInsert(c, x)
    PROVE  /\ Tree(cases', <<>>) /\ work' = cases'
           /\ UNCHANGED <<stack, origin, walk>> /\ ~Busy
<1> DEFINE r == cases[c]
           path == r.path
           q(i) == SubSeq(path, 1, i) \o <<x>> \o SubSeq(path, i + 1, Len(path))
<1>1. PICK i \in 1..(Len(path) - 1) :
         /\ ~Busy /\ r.state # "ABSENT" /\ x \in Inserted \ Nodes(path)
         /\ r.ns[path[i + 1]] = "NOT_ACTIVATED"
         /\ StoreChange(c, CaseWith(r, i, x))
  BY DEF AdhocInsert, CaseWith
<1>2. /\ cases \in [CaseId -> Case] /\ work = cases /\ Tree(cases, <<>>) /\ AtRest(r)
  BY <1>1, TreeAtRest
<1>3. /\ r \in Case /\ path \in Seq(Node) /\ x \in Node /\ TypeOf[x] = "ACTIVITY"
      /\ r.ns \in [Node -> States]
  BY <1>2, CaseFields, TreeTypes
<1> DEFINE t == CaseWith(r, i, x)
<1>4. /\ cases' = [cases EXCEPT ![c] = t] /\ work' = cases'
      /\ UNCHANGED <<stack, origin, walk>>
  BY <1>1 DEF StoreChange
<1>5. cases'[c] = t /\ t \in Case
  <2>1. cases' \in [CaseId -> Case]
    BY DEF TypeInv, TypeOK
  <2> QED BY <2>1, <1>2, <1>4
<1>6. /\ t.path = q(i) /\ t.ns = [r.ns EXCEPT ![x] = "NOT_ACTIVATED"]
      /\ t.state = r.state /\ t.child = r.child /\ SameKin(t, r)
  BY <1>3 DEF Case, SameKin, CaseWith
<1>7. Regular(path)
  BY <1>2 DEF AtRest, Shape
<1>8. Inserts(q(i), path, i, x)
  BY <1>3, InsertedPath
<1>9. Nodes(q(i)) = Nodes(path) \cup {x} /\ (HasLoop(q(i)) <=> HasLoop(path))
  <2> HIDE DEF q, r
  <2>1. x \notin Nodes(path)
    BY <1>1
  <2> QED BY <2>1, <1>3, <1>7, <1>8, InsertedRegular
<1>10. ~HasLoop(path)
  <2> HIDE DEF q
  <2>1. x \in Nodes(cases'[c].path) /\ cases'[c].state # "ABSENT"
    BY <1>1, <1>5, <1>6, <1>9
  <2>2. LoopsKeepTheirSteps' => ~HasLoop(cases'[c].path)
    BY <2>1 DEF LoopsKeepTheirSteps
  <2>3. NoLoops => ~HasLoop(path)
    BY <1>2, <1>3, LoopFree DEF AtRest
  <2> QED BY <2>2, <2>3, <1>5, <1>6, <1>9
<1>11. AtRest(t)
  BY <1>1, <1>2, <1>3, <1>10, InsertedAtRest
<1> HIDE DEF r, q
<1>12. ASSUME NEW n \in Node
       PROVE  /\ t.ns[n] = "RUNNING" <=> r.ns[n] = "RUNNING"
              /\ n \in Nodes(r.path) => n \in Nodes(t.path)
  <2>1. r.ns[x] # "RUNNING"
    <3>1. r.ns[x] = "none"
      BY <1>1, <1>2, <1>3 DEF AtRest, Shape
    <3> QED BY <3>1
  <2> QED BY <2>1, <1>3, <1>6, <1>9
<1>13. Tree(cases', <<>>)
  <2> HIDE DEF t
  <2> QED BY <1>1, <1>2, <1>4, <1>5, <1>6, <1>11, <1>12, TreeChanged DEF r
<1> QED BY <1>1, <1>4, <1>13

\* See TreeInsert; a deletion may change the body of a loop.
LEMMA TreeDelete ==
    ASSUME TypeInv, TypeInv', IInv, LoopsKeepTheirSteps \/ NoLoops, NEW c \in CaseId, NEW x \in Deletable,
           AdhocDelete(c, x)
    PROVE  /\ Tree(cases', <<>>) /\ work' = cases'
           /\ UNCHANGED <<stack, origin, walk>> /\ ~Busy
<1> DEFINE r == cases[c]
           path == r.path
           q(i) == SubSeq(path, 1, i - 1) \o SubSeq(path, i + 1, Len(path))
<1>1. PICK i \in 2..(Len(path) - 1) :
         /\ ~Busy /\ r.state # "ABSENT" /\ path[i] = x
         /\ r.ns[x] = "NOT_ACTIVATED"
         /\ StoreChange(c, CaseWithout(r, i, x))
  BY DEF AdhocDelete, CaseWithout
<1>2. /\ cases \in [CaseId -> Case] /\ work = cases /\ Tree(cases, <<>>) /\ AtRest(r)
  BY <1>1, TreeAtRest
<1>3. /\ r \in Case /\ path \in Seq(Node) /\ x \in Node /\ TypeOf[x] = "ACTIVITY"
      /\ r.ns \in [Node -> States]
  BY <1>2, CaseFields, TreeTypes
<1> DEFINE t == CaseWithout(r, i, x)
<1>4. /\ cases' = [cases EXCEPT ![c] = t] /\ work' = cases'
      /\ UNCHANGED <<stack, origin, walk>>
  BY <1>1 DEF StoreChange
<1>5. cases'[c] = t /\ t \in Case
  <2>1. cases' \in [CaseId -> Case]
    BY DEF TypeInv, TypeOK
  <2> QED BY <2>1, <1>2, <1>4
<1>6. /\ t.path = q(i) /\ t.ns = [r.ns EXCEPT ![x] = "none"]
      /\ t.state = r.state /\ t.child = r.child /\ SameKin(t, r)
  BY <1>3 DEF Case, SameKin, CaseWithout
<1>7. HasLoop(path) => Nodes(path) \cap Inserted = {}
  <2> HIDE DEF r
  <2>1. NoLoops => ~HasLoop(path)
    BY <1>2, <1>3, LoopFree DEF AtRest
  <2> QED BY <2>1, <1>1 DEF LoopsKeepTheirSteps, r
<1>8. AtRest(t) /\ Nodes(t.path) = Nodes(r.path) \ {x}
  <2> HIDE DEF r, q
  <2>1. /\ i \in 2..(Len(r.path) - 1) /\ r.path[i] = x /\ r.ns[x] = "NOT_ACTIVATED"
        /\ HasLoop(r.path) => Nodes(r.path) \cap Inserted = {}
    BY <1>1, <1>7
  <2>2. t = CaseWithout(r, i, x) /\ x \in Deletable
    OBVIOUS
  <2>3. r \in Case /\ AtRest(r)
    BY <1>2, <1>3
  <2> HIDE DEF t
  <2> QED BY <2>1, <2>2, <2>3, DeletedAtRest
<1> HIDE DEF r, q
<1>9. ASSUME NEW n \in Node
      PROVE  /\ t.ns[n] = "RUNNING" <=> r.ns[n] = "RUNNING"
             /\ TypeOf[n] = "SUBPROCESS" /\ n \in Nodes(r.path) => n \in Nodes(t.path)
  BY <1>1, <1>3, <1>6, <1>8
<1>10. Tree(cases', <<>>)
  <2> HIDE DEF t
  <2> QED BY <1>1, <1>2, <1>4, <1>5, <1>6, <1>8, <1>9, TreeChanged DEF r
<1> QED BY <1>1, <1>4, <1>10

-----------------------------------------------------------------------------
(***************************************************************************)
(* The inductive invariant.                                                *)
(***************************************************************************)

\* A case that does not exist yet.
LEMMA AbsentFacts ==
    /\ AbsentCase.parent = NoCase /\ AbsentCase.state = "ABSENT"
    /\ \A n \in Node : AbsentCase.child[n] = NoCase /\ AbsentCase.ns[n] # "RUNNING"
<1> DEFINE r == NewCase(RootSchema, NoCase, NoNode)
<1>1. r.parent = NoCase /\ \A n \in Node : r.child[n] = NoCase /\ r.ns[n] # "RUNNING"
  BY DEF NewCase
<1>2. r \in Case
  BY NewCaseMoves, TreeTypes
<1>3. AbsentCase = [r EXCEPT !.state = "ABSENT"]
  BY DEF AbsentCase
<1> HIDE DEF r
<1> QED BY <1>1, <1>2, <1>3 DEF Case

\* Stamps and audit entries are not among the fields the tree is about.
LEMMA Restamped ==
    ASSUME NEW r \in Case, NEW S
    PROVE  /\ Agrees([r EXCEPT !.announced = @ \cup S], r)
           /\ Agrees([r EXCEPT !.unaudited = @ \ S], r)
BY DEF Agrees, Case

\* Without cases there is no tree.
LEMMA TreeInit == Init => IInv
<1> SUFFICES ASSUME Init PROVE IInv
  OBVIOUS
<1>1. /\ \A c \in CaseId : cases[c] = AbsentCase
      /\ work = cases /\ stack = <<>> /\ walk = NoCase
  BY DEF Init
<1>2. /\ \A c \in CaseId : cases[c].state = "ABSENT"
      /\ \A c \in CaseId, n \in Node : cases[c].child[n] = NoCase /\ cases[c].ns[n] # "RUNNING"
  BY <1>1, AbsentFacts
<1>3. Family(cases)
  BY <1>2 DEF Family
<1>4. Waiting(cases, <<>>)
  BY <1>2 DEF Waiting
<1>5. Tree(cases, <<>>)
  BY <1>2, <1>3, <1>4, EmptyStack DEF Tree
<1> QED BY <1>1, <1>5 DEF IInv, Busy

\* Every step keeps the tree together.
LEMMA TreeNext ==
    ASSUME TypeInv, TypeInv', IInv, [Next]_vars,
           (LoopsKeepTheirSteps /\ LoopsKeepTheirSteps') \/ NoLoops
    PROVE  IInv'
<1>1. ASSUME Instantiate \/ \E c \in CaseId, n \in Node : CompleteActivity(c, n)
      PROVE  IInv'
  <2>1. ~Busy /\ UNCHANGED <<cases, walk>>
    BY <1>1 DEF Instantiate, CompleteActivity, Open
  <2>2. Tree(work', stack') /\ stack' # <<>> /\ origin' \in CaseId
    BY <1>1, TreeInstantiate, TreeComplete
  <2>3. Tree(cases, <<>>) /\ walk = NoCase
    BY <2>1, TreeAtRest
  <2> QED BY <2>1, <2>2, <2>3, TreeTypes DEF IInv, Busy
<1>2. ASSUME \/ \E c \in CaseId, x \in Inserted : AdhocInsert(c, x)
             \/ \E c \in CaseId, x \in Deletable : AdhocDelete(c, x)
      PROVE  IInv'
  <2>1. Tree(cases', <<>>) /\ work' = cases' /\ UNCHANGED <<stack, origin, walk>> /\ ~Busy
    BY <1>2, TreeInsert, TreeDelete
  <2>2. stack' = <<>> /\ walk' = NoCase
    BY <2>1, TreeAtRest
  <2> QED BY <2>1, <2>2 DEF IInv
<1>3. ASSUME \E n \in Node : Fire(n) \/ Evaluate(n) \/ Spawn(n)
      PROVE  IInv'
  <2>1. stack # <<>> /\ ~Unmarked /\ UNCHANGED <<cases, origin, walk>>
    BY <1>3 DEF Fire, Evaluate, Spawn, Step
  <2>2. Tree(work, stack) /\ walk = NoCase /\ origin # NoCase
    BY <2>1 DEF IInv
  <2>3. Tree(work', stack')
    BY <1>3, <2>2, TreeFire, TreeEvaluate, TreeSpawn
  <2>4. stack' # <<>>
    <3>1. CASE \E n \in Node : Fire(n) \/ Evaluate(n)
      BY <2>1, <3>1 DEF Fire, Evaluate, Step
    <3>2. CASE \E n \in Node : Spawn(n)
      <4>1. PICK n \in Node, new \in CaseId :
               /\ TypeOf[n] = "SUBPROCESS"
               /\ stack' = Append(stack, [case |-> new, using |-> Chain[Target[n]]])
        BY <3>2 DEF Spawn
      <4>2. Chain[Target[n]] \in Seq(Node)
        BY <4>1, TreeTypes
      <4> QED BY <4>1, <4>2, Pushed DEF TypeInv, PushedOn
    <3> QED BY <1>3, <3>1, <3>2
  <2> QED BY <2>1, <2>2, <2>3, <2>4 DEF IInv, Busy
<1>4. ASSUME Spawned PROVE IInv'
  <2>1. /\ Len(stack) > 1 /\ ~Unmarked /\ UNCHANGED <<cases, origin, walk>>
        /\ stack' = SubSeq(stack, 1, Len(stack) - 1)
    BY <1>4 DEF Spawned
  <2>2. stack # <<>> /\ stack' # <<>>
    BY <2>1, Popped, EmptySeq DEF TypeInv, PoppedFrom
  <2>3. Tree(work, stack) /\ walk = NoCase /\ origin # NoCase
    BY <2>1, <2>2 DEF IInv
  <2>4. Tree(work', stack')
    BY <1>4, <2>3, TreeSpawned
  <2> QED BY <2>1, <2>2, <2>3, <2>4 DEF IInv, Busy
<1>5. ASSUME Propagate PROVE IInv'
  <2>1. Len(stack) = 1 /\ ~Unmarked /\ UNCHANGED <<cases, origin, walk>>
    BY <1>5 DEF Propagate
  <2>2. stack # <<>>
    BY <2>1, EmptySeq
  <2>3. Tree(work, stack) /\ walk = NoCase /\ origin # NoCase
    BY <2>1, <2>2 DEF IInv
  <2>4. stack' # <<>> /\ (Tree(work', stack') \/ Unmarked')
    BY <1>5, <2>3, TreePropagate
  <2> QED BY <2>1, <2>3, <2>4 DEF IInv, Busy
<1>6. ASSUME AfterAdvance PROVE IInv'
  <2> DEFINE t == [work[origin] EXCEPT
                      !.announced = @ \cup (ReadySteps(work[origin]) \ baseline)]
  <2>1. /\ Len(stack) = 1 /\ Quiet /\ ~Unmarked /\ ~Joinable(Top.case)
        /\ work' = [work EXCEPT ![origin] = t]
        /\ stack' = <<>> /\ walk' = origin /\ UNCHANGED <<cases, origin>>
    BY <1>6 DEF AfterAdvance
  <2>2. stack # <<>>
    BY <2>1, EmptySeq
  <2>3. Tree(work, stack) /\ origin # NoCase
    BY <2>1, <2>2 DEF IInv
  <2>4. Tree(work, <<>>)
    BY <2>1, <2>3, TreeSettled
  <2>5. origin \in CaseId => Agrees(t, work[origin])
    <3>1. origin \in CaseId => work[origin] \in Case
      BY DEF TypeInv, TypeOK
    <3> QED BY <3>1, Restamped
  <2> HIDE DEF t
  <2>6. Tree(work', <<>>)
    BY <2>1, <2>4, <2>5, TreeBoundary
  <2> QED BY <2>1, <2>3, <2>6 DEF IInv, Busy
<1>7. ASSUME AuditJoin PROVE IInv'
  <2> DEFINE parent == work[walk].parent
             t == [work[parent] EXCEPT !.unaudited = @ \ {work[walk].pnode}]
  <2>1. /\ walk # NoCase /\ parent # NoCase
        /\ work' = [work EXCEPT ![parent] = t]
        /\ walk' = parent /\ UNCHANGED <<cases, stack, origin>>
    BY <1>7 DEF AuditJoin, JoinSeen
  <2>2. stack = <<>> /\ Tree(work, <<>>)
    BY <2>1 DEF IInv
  <2>3. parent \in CaseId => Agrees(t, work[parent])
    <3>1. parent \in CaseId => work[parent] \in Case
      BY DEF TypeInv, TypeOK
    <3> QED BY <3>1, Restamped
  <2> HIDE DEF parent, t
  <2>4. Tree(work', <<>>)
    BY <2>1, <2>2, <2>3, TreeBoundary
  <2> QED BY <2>1, <2>2, <2>4 DEF IInv, Busy
<1>8. ASSUME Commit PROVE IInv'
  <2>1. walk # NoCase /\ cases' = work /\ work' = work /\ stack' = <<>> /\ walk' = NoCase
    BY <1>8 DEF Commit, EndRequest
  <2>2. Tree(work, <<>>)
    BY <2>1 DEF IInv
  <2> QED BY <2>1, <2>2 DEF IInv
<1>9. ASSUME Crash \/ RollBack PROVE IInv'
  BY <1>9 DEF Crash, RollBack, EndRequest, IInv
<1>10. ASSUME UNCHANGED vars PROVE IInv'
  BY <1>10 DEF vars, IInv, Busy, Unmarked, Top
<1> QED BY <1>1, <1>2, <1>3, <1>4, <1>5, <1>6, <1>7, <1>8, <1>9, <1>10 DEF Next, Engine

\* The invariant is inductive while no change adds a step to a case that has a loop,
LEMMA TreeInvariant == Spec /\ []LoopsKeepTheirSteps => []IInv
<1>1. TypeInv /\ TypeInv' /\ IInv /\ LoopsKeepTheirSteps /\ LoopsKeepTheirSteps' /\ [Next]_vars
          => IInv'
  BY TreeNext
<1> QED BY <1>1, TreeInit, TypeInvariant, PTL DEF Spec

\* and in any case when the schemas have no loops.
LEMMA LoopFreeTreeInvariant ==
    ASSUME NoLoops
    PROVE  Spec => []IInv
<1>1. TypeInv /\ TypeInv' /\ IInv /\ [Next]_vars => IInv'
  BY TreeNext
<1> QED BY <1>1, TreeInit, TypeInvariant, PTL DEF Spec

-----------------------------------------------------------------------------
(***************************************************************************)
(* What the invariant says at rest.                                        *)
(***************************************************************************)

Existing(w) == {c \in CaseId : w[c].state # "ABSENT"}
Finite      == IsFiniteSet(Existing(cases)) /\ IsFiniteSet(Existing(work))

\* A step adds at most the case it writes.
LEMMA OneMore ==
    ASSUME NEW w \in [CaseId -> Case], IsFiniteSet(Existing(w)), NEW c, NEW t,
           NEW v, v = [w EXCEPT ![c] = t]
    PROVE  IsFiniteSet(Existing(v))
<1>1. Existing(v) \subseteq Existing(w) \cup {c}
  BY DEF Existing
<1>2. IsFiniteSet(Existing(w) \cup {c})
  BY FS_AddElement
<1> QED BY <1>1, <1>2, FS_Subset

\* Only finitely many cases exist.
LEMMA FinitelyMany == Spec => []Finite
<1>1. Init => Finite
  <2> SUFFICES ASSUME Init PROVE Finite
    OBVIOUS
  <2>1. Existing(cases) = {} /\ work = cases
    BY AbsentFacts DEF Init, Existing
  <2> QED BY <2>1, FS_EmptySet DEF Finite
<1>2. TypeInv /\ Finite /\ [Next]_vars => Finite'
  <2> SUFFICES ASSUME TypeInv, Finite, [Next]_vars PROVE Finite'
    OBVIOUS
  <2>1. /\ cases \in [CaseId -> Case] /\ work \in [CaseId -> Case]
        /\ IsFiniteSet(Existing(cases)) /\ IsFiniteSet(Existing(work))
    BY DEF TypeInv, TypeOK, Finite
  <2> SUFFICES IsFiniteSet(Existing(cases')) /\ IsFiniteSet(Existing(work'))
    BY DEF Finite, Existing
  <2>2. ASSUME cases' = cases, NEW c, NEW t, work' = [work EXCEPT ![c] = t]
        PROVE  IsFiniteSet(Existing(cases')) /\ IsFiniteSet(Existing(work'))
    BY <2>1, <2>2, OneMore
  <2>3. ASSUME work' = cases', NEW c, NEW t, cases' = [cases EXCEPT ![c] = t]
        PROVE  IsFiniteSet(Existing(cases')) /\ IsFiniteSet(Existing(work'))
    BY <2>1, <2>3, OneMore
  <2>4. ASSUME Instantiate \/ \E c \in CaseId, n \in Node : CompleteActivity(c, n)
        PROVE  IsFiniteSet(Existing(cases')) /\ IsFiniteSet(Existing(work'))
    <3>1. PICK c, t : cases' = cases /\ work' = [work EXCEPT ![c] = t]
      BY <2>4, Zenon DEF Instantiate, CompleteActivity, Open
    <3> QED BY <3>1, <2>2
  <2>5. ASSUME NEW c \in CaseId, NEW x \in Inserted \cup Deletable,
               AdhocInsert(c, x) \/ AdhocDelete(c, x)
        PROVE  IsFiniteSet(Existing(cases')) /\ IsFiniteSet(Existing(work'))
    <3>1. PICK t : work' = cases' /\ cases' = [cases EXCEPT ![c] = t]
      BY <2>5, Zenon DEF AdhocInsert, AdhocDelete, StoreChange
    <3> QED BY <3>1, <2>3
  <2>6. ASSUME NEW n \in Node, Fire(n) \/ Evaluate(n) \/ Spawn(n)
        PROVE  IsFiniteSet(Existing(cases')) /\ IsFiniteSet(Existing(work'))
    <3>1. PICK c, t : cases' = cases /\ work' = [work EXCEPT ![c] = t]
      BY <2>6, Zenon DEF Fire, Evaluate, Spawn, Step
    <3> QED BY <3>1, <2>2
  <2>7. ASSUME Spawned PROVE IsFiniteSet(Existing(cases')) /\ IsFiniteSet(Existing(work'))
    <3> DEFINE new == Top.case
               seen == [work[new] EXCEPT !.announced = ReadySteps(work[new])]
               first == [work EXCEPT ![new] = seen]
    <3>1. /\ Len(stack) > 1 /\ TypeOK /\ Kin(work) /\ UNCHANGED cases
      BY <2>7 DEF TypeInv, Spawned
    <3>2. work[new].parent # NoCase
      <4>1. Len(stack) \in 2..Len(stack)
        BY <3>1, Frames
      <4> QED BY <4>1 DEF TypeInv, Top
    <3>3. first \in [CaseId -> Case] /\ \E c, t : work' = [first EXCEPT ![c] = t]
      <4> HIDE DEF seen
      <4>1. first \in [CaseId -> Case]
        BY <2>7, <3>1, <3>2, SpawnedCopy DEF seen
      <4>2. work' = [first EXCEPT ![stack[Len(stack) - 1].case] =
                         WaitFor(work[stack[Len(stack) - 1].case], work[new].pnode, new,
                                 stack[Len(stack) - 1].using)]
        BY <2>7, <3>1, <3>2, SpawnedCopy DEF seen
      <4> QED BY <4>1, <4>2, Zenon
    <3>4. IsFiniteSet(Existing(first))
      <4> HIDE DEF seen
      <4> QED BY <2>1, OneMore
    <3> HIDE DEF first
    <3> QED BY <2>1, <3>1, <3>3, <3>4, OneMore
  <2>8. ASSUME Propagate \/ AfterAdvance \/ AuditJoin
        PROVE  IsFiniteSet(Existing(cases')) /\ IsFiniteSet(Existing(work'))
    <3>1. PICK c, t : cases' = cases /\ work' = [work EXCEPT ![c] = t]
      BY <2>8, Zenon DEF Propagate, AfterAdvance, AuditJoin
    <3> QED BY <3>1, <2>2
  <2>9. ASSUME Commit \/ Crash \/ RollBack \/ UNCHANGED vars
        PROVE  IsFiniteSet(Existing(cases')) /\ IsFiniteSet(Existing(work'))
    BY <2>1, <2>9 DEF Commit, Crash, RollBack, vars
  <2> QED BY <2>4, <2>5, <2>6, <2>7, <2>8, <2>9 DEF Next, Engine
<1> QED BY <1>1, <1>2, TypeInvariant, PTL DEF Spec

\* A finite set in which every element has a child in it, and a parent at most one, has
\* no element without a parent.
LEMMA NoRoot ==
    ASSUME NEW R, IsFiniteSet(R), NEW root \in R, NEW parent,
           \A c \in R : \E k \in R : k # root /\ parent[k] = c
    PROVE  FALSE
<1> DEFINE g == [c \in R |-> CHOOSE k \in R : k # root /\ parent[k] = c]
<1>1. \A c \in R : g[c] \in R \ {root} /\ parent[g[c]] = c
  OBVIOUS
<1>2. g \in [R -> R \ {root}]
  BY <1>1
<1> HIDE DEF g
<1>3. Cardinality(R \ {root}) < Cardinality(R) /\ IsFiniteSet(R \ {root})
  <2>1. /\ IsFiniteSet(R \ {root}) /\ Cardinality(R) \in Nat
        /\ Cardinality(R \ {root}) = IF root \in R THEN Cardinality(R) - 1 ELSE Cardinality(R)
    BY FS_RemoveElement, FS_CardinalityType, Zenon
  <2> QED BY <2>1
<1>4. PICK c, d \in R : c # d /\ g[c] = g[d]
  BY <1>2, <1>3, FS_PigeonHole
<1> QED BY <1>1, <1>4

\* What the invariant says of the stored cases.
LEMMA Sound ==
    ASSUME TypeInv, IInv, Finite
    PROVE  TreeSound
<1>1. /\ cases \in [CaseId -> Case] /\ Tree(cases, <<>>) /\ TypeOK
      /\ Family(cases) /\ Waiting(cases, <<>>)
      /\ \A c \in CaseId : cases[c].state # "ABSENT" => AtRest(cases[c])
  BY EmptyStack DEF TypeInv, TypeOK, IInv, Tree
<1>2. ASSUME NEW c \in CaseId, NEW n \in Node, cases[c].ns[n] = "RUNNING"
      PROVE  /\ cases[c].child[n] \in CaseId /\ cases[c].child[n] # NoCase
             /\ cases[cases[c].child[n]].state = "RUNNING"
             /\ cases[cases[c].child[n]].parent = c /\ cases[cases[c].child[n]].pnode = n
             /\ cases[c].child[n] # Root /\ cases[c].state = "RUNNING"
  <2>1. cases[c].child[n] \in CaseId /\ cases[c].child[n] # NoCase
    BY <1>1, <1>2, EmptyStack, Shaped
  <2>2. cases[cases[c].child[n]].state = "RUNNING"
    BY <1>1, <1>2, EmptyStack DEF Waiting
  <2>3. /\ cases[cases[c].child[n]].parent = c /\ cases[cases[c].child[n]].pnode = n
        /\ cases[c].child[n] # Root
    BY <2>1, <1>1 DEF Family
  <2>4. AtRest(cases[c])
    BY <1>1, <1>2 DEF Family
  <2>5. cases[c].state = "RUNNING"
    <3>1. PICK f \in Node : Shape(cases[c]) /\ Front(cases[c], f) /\ Rests(cases[c], f)
      BY <2>4 DEF AtRest
    <3>2. cases[c].ns[f] = "RUNNING"
      BY <3>1, <1>1, <1>2, NoneRunning
    <3> QED BY <3>1, <3>2 DEF Rests
  <2> QED BY <2>1, <2>2, <2>3, <2>5
<1>3. WaitsForLiveChild
  BY <1>2 DEF WaitsForLiveChild, SubNodes
<1>4. NoOrphan
  <2> SUFFICES ASSUME NEW c \in CaseId \ {Root}, cases[c].state = "RUNNING"
               PROVE  LET parent == cases[c].parent
                      IN  /\ cases[parent].state = "RUNNING"
                          /\ cases[parent].child[cases[c].pnode] = c
                          /\ cases[parent].ns[cases[c].pnode] = "RUNNING"
    BY DEF NoOrphan
  <2>1. Linked(cases, c)
    BY <1>1, EmptyStack DEF Waiting
  <2>2. /\ cases[c].parent \in CaseId /\ cases[c].pnode \in Nodes(cases[cases[c].parent].path)
    BY <1>1 DEF Family
  <2>3. cases[c].pnode \in Node
    BY <2>2, <1>1, CaseFields
  <2> QED BY <2>1, <2>2, <2>3, <1>2 DEF Linked
<1>5. NoStuckTree
  <2> SUFFICES ASSUME cases[Root].state = "RUNNING",
                      \A c \in CaseId : cases[c].state = "RUNNING" => ReadySteps(cases[c]) = {}
               PROVE  FALSE
    BY DEF NoStuckTree
  <2> DEFINE R == {c \in CaseId : cases[c].state = "RUNNING"}
             parent == [c \in CaseId |-> cases[c].parent]
  <2>1. IsFiniteSet(R) /\ Root \in R
    <3>1. R \subseteq Existing(cases)
      BY DEF Existing
    <3> QED BY <3>1, FS_Subset, TreeTypes DEF Finite
  <2>2. ASSUME NEW c \in R PROVE \E k \in R : k # Root /\ parent[k] = c
    <3>1. c \in CaseId /\ cases[c].state = "RUNNING"
      OBVIOUS
    <3>2. PICK f \in Node : Front(cases[c], f) /\ Rests(cases[c], f)
      BY <3>1, <1>1 DEF AtRest
    <3>3. f \notin ReadySteps(cases[c])
      BY <3>1
    <3>4. cases[c].ns[f] = "RUNNING"
      BY <3>1, <3>2, <3>3 DEF Rests, Front, ReadySteps
    <3> QED BY <3>1, <3>4, <1>2
  <2> HIDE DEF R, parent
  <2> QED BY <2>1, <2>2, NoRoot
<1> QED BY <1>1, <1>3, <1>4, <1>5 DEF TreeSound

\* The tree holds together between requests (_handle_subprocess, _propagate_completion,
\* reset_loop_block): a RUNNING SUBPROCESS node waits for a child that still runs and
\* knows it, a running child is the one its running parent waits for, and while the root
\* runs some case has a step somebody can work on -- through spawns at any depth, joins
\* up the tree, repetitions, ad-hoc changes, failures and crashes of a request.
\* The hypothesis cannot go: _propagate_completion advances a parent along the base
\* schema, so a step inserted behind a waiting call is passed and stays NOT_ACTIVATED
\* inside the loop; when the loop repeats, an activity completed along the variant and a
\* join along the base schema put the case in two places, and it ends while a child
\* runs, or waits with no step ready.
THEOREM TreeHoldsTogether == Spec /\ []LoopsKeepTheirSteps => []TreeSound
<1>1. TypeInv /\ IInv /\ Finite => TreeSound
  BY Sound
<1> QED BY <1>1, TypeInvariant, TreeInvariant, FinitelyMany, PTL

\* Nothing has to be assumed of the behaviours when there is nothing to insert, or when
\* the schemas have no loop: then steps are inserted and deleted at will, passed by the
\* joins, and the tree still holds together (see TreeHoldsTogether).
THEOREM LoopFreeTreesHoldTogether ==
    ASSUME Inserted = {} \/ NoLoops
    PROVE  Spec => []TreeSound
<1>1. TypeInv /\ IInv /\ Finite => TreeSound
  BY Sound
<1>2. CASE NoLoops
  BY <1>1, <1>2, TypeInvariant, LoopFreeTreeInvariant, FinitelyMany, PTL
<1>3. CASE Inserted = {}
  <2>1. LoopsKeepTheirSteps
    BY <1>3 DEF LoopsKeepTheirSteps
  <2> QED BY <1>1, <2>1, TypeInvariant, TreeInvariant, FinitelyMany, PTL
<1> QED BY <1>2, <1>3

=============================================================================
