--------------------------- MODULE RequestsProofs ---------------------------
(***************************************************************************)
(* Requests for any number of requests, objects, keys, repetitions and     *)
(* faults: types, the locks, keyed requests carried out once, external     *)
(* effects made once, and the serial order of SerialChanges.               *)
(***************************************************************************)
EXTENDS Requests, TLAPS

\* A copy of the stored version has the stored content.
Copied(o, x) ==
    /\ x \in ObjectRecord
    /\ x.version <= stored[o].version
    /\ x.version = stored[o].version => x.work = stored[o].work

\* What a unit holds at each point, and why it may go on.
Shape(r, u) ==
    /\ u \in UnitRecord
    /\ u.saved \subseteq Touched(r)
    /\ u.at \in {"new", "arrived"} => u.pos = 1
    /\ u.at \notin {"save", "chain", "commit"} => u.saved = {}
    /\ u.at # "save" => u.refused = {}
    /\ u.at # "commit" => u.seq = 0
    /\ u.at \notin {"load", "save", "chain", "commit"} => ~u.holds
    /\ u.holds => KeyOf[r] # None /\ keys[KeyOf[r]] = None
    /\ u.at \in {"load", "save", "chain"} /\ KeyOf[r] # None => u.holds
    /\ u.at = "load" =>
           \A i \in DOMAIN Path(r) : i < u.pos => Copied(Path(r)[i], u.copy[Path(r)[i]])
    /\ u.at \in {"save", "chain"} =>
           /\ u.answer \in Outcomes
           /\ \A o \in Touched(r) : Copied(o, u.copy[o])
           /\ u.answer = "done" => \A o \in Touched(r) : Permits(r, u.copy[o].work)
    /\ u.at = "save" =>
           \A i \in DOMAIN Path(r) : i < u.pos => Path(r)[i] \in u.saved \cup u.refused
    /\ u.at = "chain" => u.saved = Touched(r)
    /\ u.at = "commit" =>
           \/ u.saved = {} /\ u.seq = 0 /\ u.answer \in {"refused", "replayed", "reused"}
           \/ /\ u.saved = Touched(r) /\ u.seq = Len(chain) + 1 /\ u.answer \in Outcomes
              /\ u.answer = "done" => \A o \in Touched(r) : Permits(r, u.copy[o].work)
              /\ KeyOf[r] # None => u.holds
    /\ \A o \in u.saved : u.copy[o] = stored[o]

Shapes == \A r \in Request : Shape(r, unit[r])

\* No lock has two holders.
Apart(r, u, t, w) ==
    /\ u.saved \cap w.saved = {}
    /\ ~(u.seq # 0 /\ w.seq # 0)
    /\ ~(u.holds /\ w.holds /\ KeyOf[r] = KeyOf[t])

AllApart == \A r, t \in Request : r # t => Apart(r, unit[r], t, unit[t])

InChain(r) == \E i \in DOMAIN chain : chain[i].by = r

\* What is in the chain, and what each request will be, or has been, told.
Told(r, u) ==
    /\ u.at \notin {"deliver", "ended"} => ~InChain(r)
    /\ u.at \in {"deliver", "ended"} /\ u.answer \in Outcomes => Committed(r, u.answer)
    /\ u.at \in {"deliver", "ended"} /\ u.answer \in {"refused", "reused", "conflict", "unavailable"}
           => ~InChain(r)
    /\ u.at \in {"commit", "deliver", "ended"} /\ u.answer = "replayed"
           => \E t \in Request : SameRequest(r, t) /\ Committed(t, "done")

AllTold == \A r \in Request : Told(r, unit[r])

\* A key stands for a committed request, and for as long as one can be repeated.
KeysTrue ==
    /\ \A k \in Key : keys[k] # None =>
           \E t \in Request : KeyOf[t] = k /\ ChangeOf[t] = keys[k] /\ Committed(t, "done")
    /\ \A r, t \in Request :
           Committed(r, "done") /\ SameRequest(r, t) /\ unit[t].at # "ended"
               => keys[KeyOf[r]] = ChangeOf[r]

AnnouncedTrue == \A r \in announced : \E what \in Outcomes : Committed(r, what)

\* An effect made rules out a repetition until the unit is at its end.
EffectsMade ==
    \A r \in Request :
        /\ effects[r] <= 1
        /\ unit[r].at \in {"new", "arrived", "load"} => effects[r] = 0
        /\ unit[r].at \in {"save", "chain"} /\ effects[r] = 1 => unit[r].irreversible

IInv == /\ TypeOK /\ Shapes /\ AllApart /\ AllTold /\ KeysTrue /\ KeyedOnce
        /\ AnnouncedTrue /\ EffectsMade

-----------------------------------------------------------------------------
LEMMA PathFacts ==
  ASSUME NEW r \in Request
  PROVE  /\ ChangeOf[r] \in Change
         /\ Path(r) \in Seq(Object) /\ DOMAIN Path(r) = 1..Len(Path(r))
         /\ Touched(r) \subseteq Object /\ Touched(r) # {}
<1>1. ChangeOf[r] \in Change
  BY RequestTypes
<1>2. Path(r) \in Seq(Object) /\ Path(r) # <<>>
  BY <1>1, RequestTypes DEF Path
<1>3. Len(Path(r)) \in Nat /\ Len(Path(r)) # 0 /\ DOMAIN Path(r) = 1..Len(Path(r))
  BY <1>2
<1>4. \A i \in DOMAIN Path(r) : Path(r)[i] \in Object
  BY <1>2, <1>3
<1>5. Path(r)[1] \in Touched(r)
  BY <1>3 DEF Touched
<1> QED BY <1>1, <1>2, <1>3, <1>4, <1>5 DEF Touched

Ats == {"new", "arrived", "load", "save", "chain", "commit", "deliver", "ended"}

\* A unit that has read, written and reserved nothing.
Bare(v) == /\ v \in UnitRecord /\ v.pos = 1
           /\ v.saved = {} /\ v.refused = {} /\ v.seq = 0 /\ ~v.holds

LEMMA BareFacts ==
  ASSUME NEW at \in Ats, NEW answer \in Replies \cup {None}, NEW n \in Nat
  PROVE  /\ Bare([Fresh EXCEPT !.at = at, !.answer = answer])
         /\ [Fresh EXCEPT !.at = at, !.answer = answer].at = at
         /\ [Fresh EXCEPT !.at = at, !.answer = answer].answer = answer
         /\ Bare([Fresh EXCEPT !.at = at, !.attempt = n])
         /\ [Fresh EXCEPT !.at = at, !.attempt = n].at = at
<1>1. Fresh \in UnitRecord
  <2>1. [o \in Object |-> None] \in [Object -> ObjectRecord \cup {None}]
    OBVIOUS
  <2> QED BY <2>1 DEF Fresh, UnitRecord
<1>2. [Fresh EXCEPT !.at = at, !.answer = answer] \in UnitRecord
  BY <1>1 DEF UnitRecord, Ats
<1>3. [Fresh EXCEPT !.at = at, !.attempt = n] \in UnitRecord
  BY <1>1 DEF UnitRecord, Ats
<1>4. Fresh.pos = 1 /\ Fresh.saved = {} /\ Fresh.refused = {} /\ Fresh.seq = 0 /\ Fresh.holds = FALSE
  BY DEF Fresh
<1> QED BY <1>1, <1>2, <1>3, <1>4 DEF UnitRecord, Bare

\* The same without the number of attempts.
LEMMA BareAnswer ==
  ASSUME NEW at \in Ats, NEW answer \in Replies \cup {None}
  PROVE  /\ Bare([Fresh EXCEPT !.at = at, !.answer = answer])
         /\ [Fresh EXCEPT !.at = at, !.answer = answer].at = at
         /\ [Fresh EXCEPT !.at = at, !.answer = answer].answer = answer
<1>1. 0 \in Nat
  OBVIOUS
<1> QED BY <1>1, BareFacts

LEMMA InitIInv == Init => IInv
<1> SUFFICES ASSUME Init PROVE IInv
  OBVIOUS
<1>1. Fresh \in UnitRecord /\ Fresh.at = "new" /\ Fresh.saved = {} /\ Fresh.refused = {}
      /\ Fresh.seq = 0 /\ Fresh.holds = FALSE /\ Fresh.pos = 1
  <2>1. [o \in Object |-> None] \in [Object -> ObjectRecord \cup {None}]
    OBVIOUS
  <2> QED BY <2>1 DEF Fresh, UnitRecord
<1>2. \A r \in Request : unit[r] = Fresh /\ effects[r] = 0
  BY DEF Init
<1>3. chain = <<>> /\ DOMAIN chain = {} /\ announced = {}
  BY DEF Init
<1>4. TypeOK
  <2>1. [version |-> 1, work |-> <<>>] \in ObjectRecord
    BY DEF ObjectRecord
  <2>2. stored \in [Object -> ObjectRecord]
    BY <2>1 DEF Init
  <2>3. unit \in [Request -> UnitRecord] /\ effects \in [Request -> Nat]
    BY <1>1 DEF Init
  <2>4. chain \in Seq(EventRecord) /\ keys \in [Key -> Change \cup {None}]
    BY DEF Init
  <2>5. announced \subseteq Request /\ faults \in 0..MaxFaults
    BY RequestTypes DEF Init
  <2> QED BY <2>2, <2>3, <2>4, <2>5 DEF TypeOK
<1>5. Shapes
  BY <1>1, <1>2 DEF Shapes, Shape
<1>6. AllApart
  BY <1>1, <1>2 DEF AllApart, Apart
<1>7. AllTold
  BY <1>1, <1>2, <1>3 DEF AllTold, Told, InChain
<1>8. KeysTrue /\ KeyedOnce /\ AnnouncedTrue
  <2>1. \A k \in Key : keys[k] = None
    BY DEF Init
  <2>2. \A r \in Request : ~Committed(r, "done")
    BY <1>3 DEF Committed
  <2> QED BY <1>3, <2>1, <2>2 DEF KeysTrue, KeyedOnce, AnnouncedTrue
<1>9. EffectsMade
  BY <1>1, <1>2 DEF EffectsMade
<1> QED BY <1>4, <1>5, <1>6, <1>7, <1>8, <1>9 DEF IInv

-----------------------------------------------------------------------------
(***************************************************************************)
(* Steps of one unit that commit nothing.                                  *)
(***************************************************************************)

\* If a unit goes on within its own bounds and takes no lock another one holds, the
\* others do not notice.
LEMMA LocalStep ==
  ASSUME IInv, NEW r \in Request, NEW v,
         unit' = [unit EXCEPT ![r] = v], UNCHANGED <<stored, chain, keys>>,
         Shape(r, v), Told(r, v),
         \A t \in Request : t # r => Apart(r, v, t, unit[t]),
         unit[r].at = "ended" => v.at = "ended"
  PROVE  /\ unit' \in [Request -> UnitRecord]
         /\ Shapes' /\ AllApart' /\ AllTold' /\ KeysTrue' /\ KeyedOnce'
<1>1. unit \in [Request -> UnitRecord] /\ v \in UnitRecord
  BY DEF IInv, TypeOK, Shape
<1>2. unit' \in [Request -> UnitRecord]
  BY <1>1
<1>3. \A t \in Request : unit'[t] = IF t = r THEN v ELSE unit[t]
  BY <1>1
<1>4. Shapes'
  <2> SUFFICES ASSUME NEW t \in Request PROVE Shape(t, unit[t])'
    BY DEF Shapes
  <2>1. Shape(t, unit'[t])
    BY <1>3 DEF IInv, Shapes
  <2> QED BY <2>1 DEF Shape, Copied
<1>5. AllApart'
  <2> SUFFICES ASSUME NEW s \in Request, NEW t \in Request, s # t
               PROVE  Apart(s, unit'[s], t, unit'[t])
    BY DEF AllApart, Apart
  <2>1. CASE s = r
    BY <1>3, <2>1
  <2>2. CASE t = r
    <3>1. Apart(r, v, s, unit[s])
      BY <2>2
    <3>2. Apart(s, unit[s], r, v)
      BY <3>1 DEF Apart
    <3> QED BY <1>3, <2>2, <3>2
  <2>3. CASE s # r /\ t # r
    BY <1>3, <2>3 DEF IInv, AllApart
  <2> QED BY <2>1, <2>2, <2>3
<1>6. \A t, what : Committed(t, what)' <=> Committed(t, what)
  BY DEF Committed
<1>7. AllTold'
  <2> SUFFICES ASSUME NEW t \in Request PROVE Told(t, unit[t])'
    BY DEF AllTold
  <2>1. Told(t, unit'[t])
    BY <1>3 DEF IInv, AllTold
  <2> QED BY <2>1 DEF Told, InChain, Committed
<1>8. KeysTrue'
  BY <1>3, <1>6 DEF IInv, KeysTrue
<1>9. KeyedOnce'
  BY <1>6 DEF IInv, KeyedOnce
<1> QED BY <1>2, <1>4, <1>5, <1>7, <1>8, <1>9

LEMMA QuietStep ==
  ASSUME IInv, NEW r \in Request, NEW v,
         unit' = [unit EXCEPT ![r] = v], UNCHANGED <<stored, chain, keys, effects, announced>>,
         faults' \in 0..MaxFaults,
         Shape(r, v), Told(r, v),
         \A t \in Request : t # r => Apart(r, v, t, unit[t]),
         unit[r].at # "ended",
         v.at \in {"new", "arrived", "load"} => effects[r] = 0,
         v.at \in {"save", "chain"} /\ effects[r] = 1 => v.irreversible
  PROVE  IInv'
<1>1. /\ unit' \in [Request -> UnitRecord]
      /\ Shapes' /\ AllApart' /\ AllTold' /\ KeysTrue' /\ KeyedOnce'
  BY LocalStep
<1>2. TypeOK'
  BY <1>1 DEF IInv, TypeOK
<1>3. AnnouncedTrue'
  BY DEF IInv, AnnouncedTrue, Committed
<1>4. EffectsMade'
  <2>1. \A t \in Request : unit'[t] = IF t = r THEN v ELSE unit[t]
    BY DEF IInv, TypeOK
  <2> QED BY <2>1 DEF IInv, EffectsMade
<1> QED BY <1>1, <1>2, <1>3, <1>4 DEF IInv

\* A unit that is rolled back, or has nothing to keep, gives everything back.
LEMMA BareStep ==
  ASSUME IInv, NEW r \in Request, NEW v,
         unit' = [unit EXCEPT ![r] = v], UNCHANGED <<stored, chain, keys, effects, announced>>,
         faults' \in 0..MaxFaults,
         Bare(v), v.at \in {"new", "arrived", "deliver", "ended"}, Told(r, v),
         unit[r].at # "ended",
         v.at \in {"new", "arrived"} => effects[r] = 0
  PROVE  IInv'
<1>1. Shape(r, v)
  BY DEF Bare, Shape
<1>2. \A t \in Request : t # r => Apart(r, v, t, unit[t])
  BY DEF Bare, Apart
<1> QED BY <1>1, <1>2, QuietStep

LEMMA ArriveKeeps ==
  ASSUME IInv, NEW r \in Request, Arrive(r)
  PROVE  IInv'
<1> DEFINE v == [unit[r] EXCEPT !.at = "arrived"]
<1>1. unit[r] \in UnitRecord /\ Shape(r, unit[r]) /\ Told(r, unit[r])
  BY DEF IInv, TypeOK, Shapes, AllTold
<1>2. unit[r].at = "new" /\ unit' = [unit EXCEPT ![r] = v]
  BY DEF Arrive
<1>3. v \in UnitRecord /\ v.at = "arrived" /\ v.answer = unit[r].answer /\ v.pos = unit[r].pos
      /\ v.saved = unit[r].saved /\ v.refused = unit[r].refused /\ v.seq = unit[r].seq
      /\ v.holds = unit[r].holds
  BY <1>1 DEF UnitRecord
<1> HIDE DEF v
<1>4. Bare(v)
  BY <1>1, <1>2, <1>3 DEF Shape, Bare
<1>5. Told(r, v)
  BY <1>1, <1>2, <1>3 DEF Told
<1>6. effects[r] = 0
  BY <1>2 DEF IInv, EffectsMade
<1>7. faults' \in 0..MaxFaults
  BY DEF Arrive, IInv, TypeOK
<1> QED BY <1>2, <1>3, <1>4, <1>5, <1>6, <1>7, BareStep DEF Arrive
LEMMA ReserveKeeps ==
  ASSUME IInv, NEW r \in Request, Reserve(r)
  PROVE  IInv'
<1> DEFINE k == KeyOf[r]
           taken == [unit[r] EXCEPT !.at = "load", !.holds = k # None]
           found == [unit[r] EXCEPT !.at = "commit",
                        !.answer = IF keys[k] = ChangeOf[r] THEN "replayed" ELSE "reused"]
<1>1. unit[r] \in UnitRecord /\ Shape(r, unit[r]) /\ Told(r, unit[r]) /\ unit[r].at = "arrived"
      /\ effects[r] = 0
  BY DEF IInv, TypeOK, Shapes, AllTold, EffectsMade, Reserve
<1>2. unit[r].pos = 1 /\ unit[r].saved = {} /\ unit[r].refused = {} /\ unit[r].seq = 0
      /\ ~unit[r].holds /\ ~InChain(r)
  BY <1>1 DEF Shape, Told
<1>3. faults' \in 0..MaxFaults /\ UNCHANGED <<stored, chain, keys, effects, announced>>
  BY DEF Reserve, IInv, TypeOK
<1>4. CASE k = None \/ keys[k] = None
  <2>1. unit' = [unit EXCEPT ![r] = taken]
    BY <1>4 DEF Reserve
  <2>2. taken \in UnitRecord /\ taken.at = "load" /\ taken.holds = (k # None) /\ taken.pos = 1
        /\ taken.saved = {} /\ taken.refused = {} /\ taken.seq = 0
    BY <1>1, <1>2 DEF UnitRecord
  <2> HIDE DEF taken
  <2>3. Shape(r, taken)
    <3>1. \A i \in DOMAIN Path(r) : ~(i < taken.pos)
      BY <2>2, PathFacts
    <3>2. taken.holds => KeyOf[r] # None /\ keys[KeyOf[r]] = None
      BY <1>4, <2>2
    <3> QED BY <2>2, <3>1, <3>2 DEF Shape
  <2>4. Told(r, taken)
    BY <1>2, <2>2 DEF Told
  <2>5. ASSUME NEW t \in Request, t # r
        PROVE  Apart(r, taken, t, unit[t])
    <3>1. ~(k # None /\ KeyOf[t] = k /\ unit[t].holds)
      BY <1>1, <2>5 DEF Reserve, Waits, WaitsFor, WaitsForKey
    <3> QED BY <2>2, <3>1 DEF Apart
  <2> QED BY <1>1, <1>3, <2>1, <2>2, <2>3, <2>4, <2>5, QuietStep
<1>5. CASE ~(k = None \/ keys[k] = None)
  <2>1. unit' = [unit EXCEPT ![r] = found]
    BY <1>5 DEF Reserve
  <2>2. found \in UnitRecord /\ found.at = "commit" /\ found.pos = 1
        /\ found.saved = {} /\ found.refused = {} /\ found.seq = 0 /\ ~found.holds
        /\ found.answer = IF keys[k] = ChangeOf[r] THEN "replayed" ELSE "reused"
    BY <1>1, <1>2 DEF UnitRecord, Replies, Outcomes
  <2> HIDE DEF found
  <2>3. Shape(r, found)
    BY <2>2 DEF Shape
  <2>4. Told(r, found)
    <3>1. CASE keys[k] = ChangeOf[r]
      <4>1. k \in Key
        BY <1>5, RequestTypes
      <4>2. PICK t \in Request : KeyOf[t] = k /\ ChangeOf[t] = keys[k] /\ Committed(t, "done")
        BY <1>5, <4>1 DEF IInv, KeysTrue
      <4>3. SameRequest(r, t)
        BY <1>5, <3>1, <4>2 DEF SameRequest
      <4> QED BY <1>2, <2>2, <4>2, <4>3 DEF Told
    <3>2. CASE keys[k] # ChangeOf[r]
      BY <1>2, <2>2, <3>2 DEF Told
    <3> QED BY <3>1, <3>2
  <2>5. \A t \in Request : t # r => Apart(r, found, t, unit[t])
    BY <2>2 DEF Apart
  <2> QED BY <1>1, <1>3, <2>1, <2>2, <2>3, <2>4, <2>5, QuietStep
<1> QED BY <1>4, <1>5

LEMMA LoadKeeps ==
  ASSUME IInv, NEW r \in Request, Load(r)
  PROVE  IInv'
<1> DEFINE u == unit[r]
           o == Path(r)[u.pos]
           v == [u EXCEPT !.copy = [u.copy EXCEPT ![o] = stored[o]], !.pos = u.pos + 1]
<1>1. u \in UnitRecord /\ Shape(r, u) /\ Told(r, u) /\ u.at = "load" /\ effects[r] = 0
      /\ stored \in [Object -> ObjectRecord]
  BY DEF IInv, TypeOK, Shapes, AllTold, EffectsMade, Load
<1>2. faults' \in 0..MaxFaults /\ UNCHANGED <<stored, chain, keys, effects, announced>>
  BY DEF Load, IInv, TypeOK
<1>3. unit' = [unit EXCEPT ![r] = v]
  BY DEF Load
<1>4. u.pos \in DOMAIN Path(r) /\ o \in Object /\ u.pos \in Nat \ {0}
  BY <1>1, PathFacts DEF Load, Touched, UnitRecord
<1>5. u.copy \in [Object -> ObjectRecord \cup {None}]
  BY <1>1 DEF UnitRecord
<1>6. [u.copy EXCEPT ![o] = stored[o]] \in [Object -> ObjectRecord \cup {None}]
  BY <1>1, <1>4, <1>5
<1>7. v \in UnitRecord /\ v.at = "load" /\ v.pos = u.pos + 1 /\ v.saved = u.saved
      /\ v.refused = u.refused /\ v.seq = u.seq /\ v.holds = u.holds /\ v.answer = u.answer
      /\ v.copy = [u.copy EXCEPT ![o] = stored[o]]
  <2> DEFINE c == [u.copy EXCEPT ![o] = stored[o]]
             n == u.pos + 1
             w == [u EXCEPT !.copy = c, !.pos = n]
  <2>1. c \in [Object -> ObjectRecord \cup {None}] /\ n \in Nat \ {0}
    BY <1>4, <1>6
  <2> HIDE DEF c, n, u
  <2>2. w \in UnitRecord /\ w.at = u.at /\ w.pos = n /\ w.saved = u.saved
        /\ w.refused = u.refused /\ w.seq = u.seq /\ w.holds = u.holds
        /\ w.answer = u.answer /\ w.copy = c
    BY <1>1, <2>1 DEF UnitRecord
  <2>3. v = w
    BY DEF c, n
  <2> HIDE DEF v, w
  <2>4. v \in UnitRecord /\ v.at = "load" /\ v.pos = n /\ v.saved = u.saved
        /\ v.refused = u.refused /\ v.seq = u.seq /\ v.holds = u.holds
        /\ v.answer = u.answer /\ v.copy = c
    BY <1>1, <2>2, <2>3
  <2> QED BY <2>4 DEF c, n
<1>8. Copied(o, stored[o])
  BY <1>1, <1>4 DEF Copied, ObjectRecord
<1>9. ASSUME NEW i \in DOMAIN Path(r), i < v.pos
      PROVE  Copied(Path(r)[i], v.copy[Path(r)[i]])
  <2>1. Path(r)[i] \in Object /\ i \in Nat
    BY PathFacts DEF Touched
  <2>2. CASE Path(r)[i] = o
    BY <1>5, <1>7, <1>8, <2>1, <2>2
  <2>3. CASE Path(r)[i] # o
    <3>1. i # u.pos /\ i < u.pos
      BY <1>4, <1>7, <1>9, <2>1, <2>3
    <3>2. Copied(Path(r)[i], u.copy[Path(r)[i]])
      BY <1>1, <3>1 DEF Shape
    <3>3. v.copy[Path(r)[i]] = u.copy[Path(r)[i]]
      BY <1>5, <1>7, <2>1, <2>3
    <3> QED BY <3>2, <3>3
  <2> QED BY <2>2, <2>3
<1> HIDE DEF v, o
<1>10. Shape(r, v)
  BY <1>1, <1>7, <1>9 DEF Shape
<1>11. Told(r, v)
  BY <1>1, <1>7 DEF Told
<1>12. \A t \in Request : t # r => Apart(r, v, t, unit[t])
  BY <1>7 DEF Apart, IInv, AllApart
<1> QED BY <1>1, <1>2, <1>3, <1>7, <1>10, <1>11, <1>12, QuietStep
LEMMA DecideKeeps ==
  ASSUME IInv, NEW r \in Request, Decide(r)
  PROVE  IInv'
<1> DEFINE u == unit[r]
           permitted == \A o \in Touched(r) : Permits(r, u.copy[o].work)
           out == permitted /\ ChangeOf[r] \in CallsOut
<1>1. u \in UnitRecord /\ Shape(r, u) /\ Told(r, u) /\ u.at = "load" /\ effects[r] = 0
      /\ effects \in [Request -> Nat]
  BY DEF IInv, TypeOK, Shapes, AllTold, EffectsMade, Decide
<1>2. \A o \in Touched(r) : Copied(o, u.copy[o])
  <2> SUFFICES ASSUME NEW i \in DOMAIN Path(r) PROVE Copied(Path(r)[i], u.copy[Path(r)[i]])
    BY DEF Touched
  <2>1. u.pos \notin DOMAIN Path(r) /\ u.pos \in Nat \ {0}
    BY <1>1 DEF Decide, UnitRecord
  <2>2. i < u.pos
    BY <2>1, PathFacts
  <2> QED BY <1>1, <2>2 DEF Shape
<1>3. PICK answer \in {"done", "refused", "failed"}, irreversible \in BOOLEAN :
          /\ answer = "done" => permitted
          /\ irreversible <=> out
          /\ unit' = [unit EXCEPT ![r] =
                 [u EXCEPT !.at = IF answer = "refused" THEN "commit" ELSE "save",
                           !.pos = 1, !.irreversible = irreversible, !.answer = answer]]
  BY DEF Decide
<1> DEFINE place == IF answer = "refused" THEN "commit" ELSE "save"
           v == [u EXCEPT !.at = place, !.pos = 1, !.irreversible = irreversible,
                     !.answer = answer]
<1>6. unit' = [unit EXCEPT ![r] = v]
  BY <1>3
<1> HIDE DEF permitted, out, u
<1>4. place \in {"commit", "save"}
  OBVIOUS
<1> HIDE DEF place
<1>5. /\ v \in UnitRecord /\ v.at = place /\ v.pos = 1
      /\ v.saved = u.saved /\ v.refused = u.refused /\ v.seq = u.seq /\ v.holds = u.holds
      /\ v.copy = u.copy /\ v.answer = answer /\ v.irreversible = irreversible
  <2>1. answer \in Replies \cup {None} /\ place \in Ats
    BY <1>4 DEF Replies, Outcomes, Ats
  <2>2. PICK n \in Nat \ {0} : n = 1
    OBVIOUS
  <2> DEFINE w == [u EXCEPT !.at = place, !.pos = n]
             x == [w EXCEPT !.irreversible = irreversible]
             y == [x EXCEPT !.answer = answer]
  <2>3. v = y
    BY <2>2
  <2> HIDE DEF v
  <2>4. w \in UnitRecord /\ w.at = place /\ w.pos = n
        /\ w.saved = u.saved /\ w.refused = u.refused /\ w.seq = u.seq /\ w.holds = u.holds
        /\ w.copy = u.copy
    BY <1>1, <2>1 DEF UnitRecord, Ats
  <2> HIDE DEF w
  <2>5. x \in UnitRecord /\ x.at = place /\ x.pos = n
        /\ x.saved = u.saved /\ x.refused = u.refused /\ x.seq = u.seq /\ x.holds = u.holds
        /\ x.copy = u.copy /\ x.irreversible = irreversible
    BY <2>4 DEF UnitRecord
  <2> HIDE DEF x
  <2>6. y \in UnitRecord /\ y.at = place /\ y.pos = n
        /\ y.saved = u.saved /\ y.refused = u.refused /\ y.seq = u.seq /\ y.holds = u.holds
        /\ y.copy = u.copy /\ y.answer = answer /\ y.irreversible = irreversible
    BY <2>1, <2>5 DEF UnitRecord
  <2> HIDE DEF y
  <2> QED BY <2>2, <2>3, <2>6
<1> USE DEF u
<1>7. effects' = IF out THEN [effects EXCEPT ![r] = @ + 1] ELSE effects
  BY DEF Decide, permitted, out
<1>8. UNCHANGED <<stored, chain, keys, announced, faults>>
  BY DEF Decide
<1> HIDE DEF v
<1>9. Shape(r, v)
  <2>1. u.saved = {} /\ u.refused = {} /\ u.seq = 0 /\ (KeyOf[r] # None => u.holds)
        /\ (u.holds => KeyOf[r] # None /\ keys[KeyOf[r]] = None)
    BY <1>1 DEF Shape
  <2>2. \A i \in DOMAIN Path(r) : ~(i < v.pos)
    BY <1>5, PathFacts
  <2>3. v.answer = "done" => \A o \in Touched(r) : Permits(r, v.copy[o].work)
    BY <1>3, <1>5 DEF permitted
  <2>4. \A o \in Touched(r) : Copied(o, v.copy[o])
    BY <1>2, <1>5
  <2> QED BY <1>5, <2>1, <2>2, <2>3, <2>4 DEF Shape, Outcomes, place
<1>10. Told(r, v)
  BY <1>1, <1>4, <1>5 DEF Told
<1>11. \A t \in Request : t # r => Apart(r, v, t, unit[t])
  BY <1>5 DEF Apart, IInv, AllApart
<1>12. /\ unit' \in [Request -> UnitRecord]
       /\ Shapes' /\ AllApart' /\ AllTold' /\ KeysTrue' /\ KeyedOnce'
  BY <1>1, <1>6, <1>8, <1>9, <1>10, <1>11, LocalStep
<1>13. TypeOK'
  <2>1. effects' \in [Request -> Nat]
    BY <1>1, <1>7
  <2> QED BY <1>8, <1>12, <2>1 DEF IInv, TypeOK
<1>14. AnnouncedTrue'
  BY <1>8 DEF IInv, AnnouncedTrue, Committed
<1>15. EffectsMade'
  <2>1. \A t \in Request : unit'[t] = IF t = r THEN v ELSE unit[t]
    BY <1>6 DEF IInv, TypeOK
  <2>2. \A t \in Request : effects'[t] = IF t = r /\ out THEN 1 ELSE effects[t]
    BY <1>1, <1>7
  <2> QED BY <1>1, <1>3, <1>4, <1>5, <2>1, <2>2 DEF IInv, EffectsMade
<1> QED BY <1>12, <1>13, <1>14, <1>15 DEF IInv

LEMMA SaveKeeps ==
  ASSUME IInv, NEW r \in Request, Save(r)
  PROVE  IInv'
<1> DEFINE u == unit[r]
           o == Path(r)[u.pos]
<1>1. u \in UnitRecord /\ Shape(r, u) /\ Told(r, u) /\ u.at = "save"
      /\ stored \in [Object -> ObjectRecord]
  BY DEF IInv, TypeOK, Shapes, AllTold, Save
<1>2. faults' \in 0..MaxFaults /\ UNCHANGED <<stored, chain, keys, effects, announced>>
  BY DEF Save, IInv, TypeOK
<1>3. u.pos \in DOMAIN Path(r) /\ u.pos \in Nat \ {0} /\ o \in Touched(r) /\ o \in Object
  BY <1>1, PathFacts DEF Save, Touched, UnitRecord
<1>4. Copied(o, u.copy[o])
  BY <1>1, <1>3 DEF Shape
<1>5. effects[r] = 1 => u.irreversible
  BY <1>1 DEF IInv, EffectsMade
<1>6. ASSUME NEW v \in UnitRecord, unit' = [unit EXCEPT ![r] = v],
             NEW saved \in SUBSET Object, NEW refused \in SUBSET Object,
             v.at = "save", v.pos = u.pos + 1, v.copy = u.copy, v.saved = saved,
             v.refused = refused, v.holds = u.holds, v.seq = u.seq,
             v.irreversible = u.irreversible, v.answer = u.answer,
             u.saved \subseteq saved, u.refused \subseteq refused, o \in saved \cup refused,
             saved \subseteq u.saved \cup {o},
             o \in saved => u.copy[o] = stored[o] /\ \A t \in Request : t # r => o \notin unit[t].saved
      PROVE  IInv'
  <2>1. Shape(r, v)
    <3>1. \A i \in DOMAIN Path(r) : i < v.pos => Path(r)[i] \in saved \cup refused
      <4> SUFFICES ASSUME NEW i \in DOMAIN Path(r), i < v.pos
                   PROVE  Path(r)[i] \in saved \cup refused
        OBVIOUS
      <4>1. i < u.pos \/ i = u.pos
        BY <1>3, <1>6, PathFacts
      <4> QED BY <1>1, <1>6, <4>1 DEF Shape
    <3>2. saved \subseteq Touched(r) /\ \A x \in saved : u.copy[x] = stored[x]
      BY <1>1, <1>3, <1>6 DEF Shape
    <3> QED BY <1>1, <1>6, <3>1, <3>2 DEF Shape
  <2>2. Told(r, v)
    BY <1>1, <1>6 DEF Told
  <2>3. \A t \in Request : t # r => Apart(r, v, t, unit[t])
    <3> SUFFICES ASSUME NEW t \in Request, t # r PROVE Apart(r, v, t, unit[t])
      OBVIOUS
    <3>1. Apart(r, u, t, unit[t])
      BY DEF IInv, AllApart
    <3> QED BY <1>6, <3>1 DEF Apart
  <2> QED BY <1>1, <1>2, <1>5, <1>6, <2>1, <2>2, <2>3, QuietStep
<1>7. CASE FreshCopy(r, o)
  <2> DEFINE v == [u EXCEPT !.saved = u.saved \cup {o}, !.pos = u.pos + 1]
  <2>1. unit' = [unit EXCEPT ![r] = v]
    BY <1>7 DEF Save, Saved
  <2>2. u.copy[o] = stored[o]
    <3>1. u.copy[o].version = stored[o].version /\ u.copy[o].work = stored[o].work
      BY <1>4, <1>7 DEF FreshCopy, Copied
    <3>2. u.copy[o] \in ObjectRecord /\ stored[o] \in ObjectRecord
      BY <1>1, <1>3, <1>4 DEF Copied
    <3> QED BY <3>1, <3>2 DEF ObjectRecord
  <2>3. \A t \in Request : t # r => o \notin unit[t].saved
    BY <1>1, <1>3 DEF Save, Waits, WaitsFor, WaitsForRow
  <2> DEFINE saved == u.saved \cup {o}
             n == u.pos + 1
             w == [u EXCEPT !.saved = saved, !.pos = n]
  <2>4. saved \in SUBSET Object /\ n \in Nat \ {0} /\ u.refused \in SUBSET Object
    BY <1>1, <1>3 DEF UnitRecord
  <2>5. v = w
    OBVIOUS
  <2>6. o \in saved /\ u.saved \subseteq saved
    OBVIOUS
  <2> HIDE DEF saved, n, v
  <2>7. w \in UnitRecord /\ w.at = "save" /\ w.pos = n /\ w.copy = u.copy /\ w.saved = saved
        /\ w.refused = u.refused /\ w.holds = u.holds /\ w.seq = u.seq
        /\ w.irreversible = u.irreversible /\ w.answer = u.answer
    BY <1>1, <2>4 DEF UnitRecord
  <2> HIDE DEF w
  <2>8. n = u.pos + 1 /\ saved \subseteq u.saved \cup {o}
    BY DEF n, saved
  <2> QED BY <1>6, <2>1, <2>2, <2>3, <2>4, <2>5, <2>6, <2>7, <2>8
<1>8. CASE ~FreshCopy(r, o)
  <2> DEFINE refused == u.refused \cup {o}
             n == u.pos + 1
             w == [u EXCEPT !.refused = refused, !.pos = n]
  <2>1. unit' = [unit EXCEPT ![r] = w]
    BY <1>8 DEF Save, Refused
  <2>2. refused \in SUBSET Object /\ n \in Nat \ {0} /\ u.saved \in SUBSET Object
    BY <1>1, <1>3 DEF UnitRecord
  <2>3. o \in refused /\ u.refused \subseteq refused /\ n = u.pos + 1
    OBVIOUS
  <2> HIDE DEF refused, n
  <2>4. w \in UnitRecord /\ w.at = "save" /\ w.pos = n /\ w.copy = u.copy /\ w.saved = u.saved
        /\ w.refused = refused /\ w.holds = u.holds /\ w.seq = u.seq
        /\ w.irreversible = u.irreversible /\ w.answer = u.answer
    BY <1>1, <2>2 DEF UnitRecord
  <2> HIDE DEF w
  <2>5. o \in u.saved => u.copy[o] = stored[o] /\ \A t \in Request : t # r => o \notin unit[t].saved
    BY <1>1 DEF Shape, IInv, AllApart, Apart
  <2> QED BY <1>6, <2>1, <2>2, <2>3, <2>4, <2>5
<1> QED BY <1>7, <1>8

LEMMA FlushKeeps ==
  ASSUME IInv, NEW r \in Request, Flush(r)
  PROVE  IInv'
<1> DEFINE u == unit[r]
           v == [u EXCEPT !.at = "chain"]
<1>1. u \in UnitRecord /\ Shape(r, u) /\ Told(r, u) /\ u.at = "save"
  BY DEF IInv, TypeOK, Shapes, AllTold, Flush
<1>2. faults' \in 0..MaxFaults /\ UNCHANGED <<stored, chain, keys, effects, announced>>
  BY DEF Flush, IInv, TypeOK
<1>3. unit' = [unit EXCEPT ![r] = v]
  BY DEF Flush
<1>4. u.refused = {} /\ u.saved = Touched(r)
  <2>1. u.refused = {} /\ u.pos \notin DOMAIN Path(r) /\ u.pos \in Nat \ {0}
    BY <1>1 DEF Flush, Noted, UnitRecord
  <2>2. \A i \in DOMAIN Path(r) : i < u.pos
    BY <2>1, PathFacts
  <2>3. \A i \in DOMAIN Path(r) : Path(r)[i] \in u.saved
    BY <1>1, <2>1, <2>2 DEF Shape
  <2> QED BY <1>1, <2>1, <2>3 DEF Touched, Shape
<1>5. effects[r] = 1 => u.irreversible
  BY <1>1 DEF IInv, EffectsMade
<1>6. v \in UnitRecord /\ v.at = "chain" /\ v.saved = u.saved /\ v.refused = u.refused
      /\ v.holds = u.holds /\ v.seq = u.seq /\ v.irreversible = u.irreversible
      /\ v.answer = u.answer /\ v.copy = u.copy
  BY <1>1 DEF UnitRecord
<1> HIDE DEF v
<1>7. Shape(r, v)
  BY <1>1, <1>4, <1>6 DEF Shape
<1>8. Told(r, v)
  BY <1>1, <1>6 DEF Told
<1>9. \A t \in Request : t # r => Apart(r, v, t, unit[t])
  BY <1>6 DEF Apart, IInv, AllApart
<1> QED BY <1>1, <1>2, <1>3, <1>5, <1>6, <1>7, <1>8, <1>9, QuietStep

LEMMA ChainEndKeeps ==
  ASSUME IInv, NEW r \in Request, ChainEnd(r)
  PROVE  IInv'
<1> DEFINE u == unit[r]
           n == Len(chain) + 1
           v == [u EXCEPT !.at = "commit", !.seq = n]
<1>1. u \in UnitRecord /\ Shape(r, u) /\ Told(r, u) /\ u.at = "chain"
  BY DEF IInv, TypeOK, Shapes, AllTold, ChainEnd
<1>2. faults' \in 0..MaxFaults /\ UNCHANGED <<stored, chain, keys, effects, announced>>
  BY DEF ChainEnd, IInv, TypeOK
<1>3. unit' = [unit EXCEPT ![r] = v]
  BY DEF ChainEnd
<1>4. n \in Nat \ {0}
  BY DEF IInv, TypeOK
<1>5. n = Len(chain) + 1
  OBVIOUS
<1> HIDE DEF n
<1>6. v \in UnitRecord /\ v.at = "commit" /\ v.saved = u.saved /\ v.refused = u.refused
      /\ v.holds = u.holds /\ v.seq = n /\ v.answer = u.answer /\ v.copy = u.copy
  BY <1>1, <1>4 DEF UnitRecord
<1> HIDE DEF v
<1>7. Shape(r, v)
  BY <1>1, <1>5, <1>6 DEF Shape
<1>8. Told(r, v)
  BY <1>1, <1>6 DEF Told, Shape, Outcomes
<1>9. ASSUME NEW t \in Request, t # r
      PROVE  Apart(r, v, t, unit[t])
  <2>1. Apart(r, u, t, unit[t])
    BY <1>9 DEF IInv, AllApart
  <2>2. unit[t].seq = 0
    BY <1>1, <1>9 DEF ChainEnd, Waits, WaitsFor, WaitsForChain
  <2> QED BY <1>6, <2>1, <2>2 DEF Apart
<1> QED BY <1>1, <1>2, <1>3, <1>6, <1>7, <1>8, <1>9, QuietStep

-----------------------------------------------------------------------------
(***************************************************************************)
(* The commit.                                                             *)
(***************************************************************************)

\* What a commit adds to the chain.
LEMMA Chained ==
  ASSUME chain \in Seq(EventRecord), NEW e \in EventRecord, chain' = Append(chain, e)
  PROVE  /\ chain' \in Seq(EventRecord)
         /\ \A t, what : Committed(t, what)' <=> Committed(t, what) \/ (t = e.by /\ what = e.what)
         /\ \A t : InChain(t)' <=> InChain(t) \/ t = e.by
<1>1. DOMAIN chain' = DOMAIN chain \cup {Len(chain) + 1} /\ chain' \in Seq(EventRecord)
  OBVIOUS
<1>2. \A i \in DOMAIN chain : chain'[i] = chain[i]
  OBVIOUS
<1>3. chain'[Len(chain) + 1] = e
  OBVIOUS
<1> QED BY <1>1, <1>2, <1>3 DEF Committed, InChain

\* An older copy stays older, and a copy of the stored version is the stored content.
LEMMA CopiedKeeps ==
  ASSUME NEW o \in Object, NEW x, Copied(o, x), stored[o] \in ObjectRecord,
         \/ stored'[o] = stored[o]
         \/ stored'[o] \in ObjectRecord /\ stored'[o].version = stored[o].version + 1
  PROVE  Copied(o, x)'
BY DEF Copied, ObjectRecord

LEMMA ApplyKeeps ==
  ASSUME IInv, NEW r \in Request, unit[r].at = "commit", Apply(r),
         NEW v, Bare(v), v.at \in {"deliver", "ended"},
         v.answer \in {"unknown", "lost", unit[r].answer},
         unit' = [unit EXCEPT ![r] = v], UNCHANGED <<effects, announced>>,
         faults' \in 0..MaxFaults
  PROVE  IInv'
<1> DEFINE u == unit[r]
           done == u.answer = "done"
<1>1. u \in UnitRecord /\ Shape(r, u) /\ Told(r, u) /\ ~InChain(r)
      /\ stored \in [Object -> ObjectRecord] /\ chain \in Seq(EventRecord)
      /\ keys \in [Key -> Change \cup {None}] /\ unit \in [Request -> UnitRecord]
  BY DEF IInv, TypeOK, Shapes, AllTold, Told
<1>2. CASE u.saved = {}
  <2>1. u.answer \in {"refused", "replayed", "reused"}
    BY <1>1, <1>2, PathFacts DEF Shape
  <2>2. stored' = stored /\ chain' = chain /\ keys' = keys
    BY <1>1, <1>2, <2>1 DEF Apply
  <2>3. Told(r, v)
    <3>1. v.answer \notin Outcomes
      BY <2>1 DEF Outcomes
    <3>2. v.answer = "replayed" => \E t \in Request : SameRequest(r, t) /\ Committed(t, "done")
      BY <1>1 DEF Told
    <3> QED BY <1>1, <3>1, <3>2 DEF Told
  <2> QED BY <2>2, <2>3, BareStep
<1>3. CASE u.saved # {}
  <2> DEFINE e == [seq |-> u.seq, by |-> r, what |-> u.answer]
             entry == [by |-> r, what |-> u.answer]
  <2>1. /\ u.saved = Touched(r) /\ u.seq = Len(chain) + 1 /\ u.answer \in Outcomes
        /\ KeyOf[r] # None => u.holds
    BY <1>1, <1>3 DEF Shape
  <2>2. u.saved \subseteq Object /\ \A o \in u.saved : u.copy[o] = stored[o]
    BY <1>1, <2>1, PathFacts DEF Shape
  <2>3. e \in EventRecord /\ entry \in EntryRecord /\ e.by = r /\ e.what = u.answer
    BY <1>1, <2>1 DEF EventRecord, EntryRecord
  <2>4. chain' = Append(chain, e)
    BY <1>3 DEF Apply
  <2>5. /\ chain' \in Seq(EventRecord)
        /\ \A t, what : Committed(t, what)' <=> Committed(t, what) \/ (t = r /\ what = u.answer)
        /\ \A t : InChain(t)' <=> InChain(t) \/ t = r
    <3> HIDE DEF e
    <3> QED BY <1>1, <2>3, <2>4, Chained
  <2>6. \A o \in Object :
           stored'[o] = IF o \in u.saved
                        THEN [version |-> stored[o].version + 1, work |-> Append(stored[o].work, entry)]
                        ELSE stored[o]
    BY <2>2 DEF Apply
  <2>7. \A o \in Object : /\ stored'[o] \in ObjectRecord
                          /\ o \notin u.saved => stored'[o] = stored[o]
                          /\ o \in u.saved => stored'[o].version = stored[o].version + 1
    <3> HIDE DEF entry
    <3> SUFFICES ASSUME NEW o \in Object
                 PROVE  /\ stored'[o] \in ObjectRecord
                        /\ o \notin u.saved => stored'[o] = stored[o]
                        /\ o \in u.saved => stored'[o].version = stored[o].version + 1
      OBVIOUS
    <3>1. stored[o] \in ObjectRecord /\ stored[o].version \in Nat /\ stored[o].work \in Seq(EntryRecord)
      BY <1>1 DEF ObjectRecord
    <3>2. Append(stored[o].work, entry) \in Seq(EntryRecord)
      BY <2>3, <3>1
    <3> DEFINE n == stored[o].version + 1
               work == Append(stored[o].work, entry)
    <3>3. stored'[o] = IF o \in u.saved THEN [version |-> n, work |-> work] ELSE stored[o]
      BY <2>6
    <3>4. n \in Nat /\ work \in Seq(EntryRecord) /\ n = stored[o].version + 1
      BY <3>1, <3>2
    <3> HIDE DEF n, work
    <3>5. [version |-> n, work |-> work] \in ObjectRecord /\ [version |-> n, work |-> work].version = n
      BY <3>4 DEF ObjectRecord
    <3> QED BY <3>1, <3>3, <3>4, <3>5
  <2>8. stored' \in [Object -> ObjectRecord]
    <3> DEFINE F(o) == IF o \in u.saved
                       THEN [version |-> u.copy[o].version + 1, work |-> Append(u.copy[o].work, entry)]
                       ELSE stored[o]
    <3>1. stored' = [o \in Object |-> F(o)]
      BY DEF Apply
    <3> HIDE DEF F
    <3>2. \A o \in Object : F(o) \in ObjectRecord
      BY <2>7, <3>1
    <3> QED BY <3>1, <3>2
  <2>9. KeyOf[r] \in Key \cup {None} /\ ChangeOf[r] \in Change /\ None \notin Change
        /\ (u.holds => KeyOf[r] \in Key /\ keys[KeyOf[r]] = None)
    BY <1>1, RequestTypes DEF Shape
  <2>10. \A k \in Key : keys'[k] = IF u.holds /\ u.answer = "done" /\ k = KeyOf[r]
                                   THEN ChangeOf[r] ELSE keys[k]
    BY <1>1 DEF Apply, Reference
  <2>11. keys' \in [Key -> Change \cup {None}]
    BY <1>1, <2>9 DEF Apply, Reference
  <2>12. \A t \in Request : unit'[t] = IF t = r THEN v ELSE unit[t]
    BY <1>1
  <2>13. TypeOK'
    <3>1. unit' \in [Request -> UnitRecord]
      BY <1>1 DEF Bare
    <3> QED BY <2>5, <2>8, <2>11, <3>1 DEF IInv, TypeOK
  <2> HIDE DEF e, entry
  <2>14. Shapes'
    <3> SUFFICES ASSUME NEW t \in Request PROVE Shape(t, unit[t])'
      BY DEF Shapes
    <3>1. CASE t = r
      <4>1. unit'[t] = v
        BY <2>12, <3>1
      <4> QED BY <4>1 DEF Bare, Shape
    <3>2. CASE t # r
      <4> DEFINE w == unit[t]
      <4>1. Shape(t, w) /\ Apart(r, u, t, w) /\ unit'[t] = w
        BY <2>12, <3>2 DEF IInv, Shapes, AllApart
      <4>2. w.holds => KeyOf[t] # None /\ keys'[KeyOf[t]] = None
        <5>1. KeyOf[t] \in Key \cup {None}
          BY RequestTypes
        <5> QED BY <2>10, <4>1, <5>1 DEF Shape, Apart
      <4>3. \A o \in Object : Copied(o, w.copy[o]) => Copied(o, w.copy[o])'
        <5> SUFFICES ASSUME NEW o \in Object, Copied(o, w.copy[o])
                     PROVE  Copied(o, w.copy[o])'
          OBVIOUS
        <5>1. stored[o] \in ObjectRecord
          BY <1>1
        <5>2. PICK x : x = w.copy[o]
          OBVIOUS
        <5>3. w.copy[o]' = x
          BY <4>1, <5>2
        <5>4. Copied(o, x)'
          BY <2>7, <5>1, <5>2, CopiedKeeps
        <5> QED BY <5>3, <5>4 DEF Copied
      <4>4. \A o \in Touched(t) : o \in Object
        BY PathFacts
      <4>5. \A i \in DOMAIN Path(t) : Path(t)[i] \in Object
        BY <4>4 DEF Touched
      <4>6. \A o \in w.saved : w.copy[o] = stored'[o]
        BY <2>7, <4>1, <4>4 DEF Shape, Apart
      <4>7. ~(w.seq # 0)
        BY <1>1, <2>1, <4>1 DEF Apart
      <4>8. w.at = "commit" =>
               w.saved = {} /\ w.seq = 0 /\ w.answer \in {"refused", "replayed", "reused"}
        BY <1>1, <4>1, <4>7 DEF Shape
      <4> QED BY <4>1, <4>2, <4>3, <4>4, <4>5, <4>6, <4>8 DEF Shape
    <3> QED BY <3>1, <3>2
  <2>15. AllApart'
    <3> SUFFICES ASSUME NEW s \in Request, NEW t \in Request, s # t
                 PROVE  Apart(s, unit'[s], t, unit'[t])
      BY DEF AllApart, Apart
    <3> QED BY <2>12 DEF IInv, AllApart, Apart, Bare
  <2>16. AllTold'
    <3> SUFFICES ASSUME NEW t \in Request PROVE Told(t, unit[t])'
      BY DEF AllTold
    <3>1. CASE t = r
      <4>1. unit'[t] = v /\ v.answer \in {"unknown", "lost"} \cup Outcomes
        BY <2>1, <2>12, <3>1
      <4>2. v.answer \in Outcomes => Committed(t, v.answer)'
        BY <2>5, <3>1 DEF Outcomes
      <4>3. v.answer \notin {"refused", "reused", "conflict", "unavailable", "replayed"}
        BY <4>1 DEF Outcomes
      <4> QED BY <4>1, <4>2, <4>3 DEF Told
    <3>2. CASE t # r
      <4>1. unit'[t] = unit[t] /\ Told(t, unit[t])
        BY <2>12, <3>2 DEF IInv, AllTold
      <4>2. InChain(t)' <=> InChain(t)
        BY <2>5, <3>2
      <4>3. \A s, what : Committed(s, what) => Committed(s, what)'
        BY <2>5
      <4>4. PICK answer : answer = unit[t].answer
        OBVIOUS
      <4>5. unit'[t].answer = answer /\ (Committed(t, answer) => Committed(t, answer)')
        BY <4>1, <4>3, <4>4
      <4> QED BY <4>1, <4>2, <4>3, <4>4, <4>5 DEF Told
    <3> QED BY <3>1, <3>2
  <2>17. KeysTrue'
    <3>1. ASSUME NEW k \in Key, keys'[k] # None
          PROVE  \E t \in Request : KeyOf[t] = k /\ ChangeOf[t] = keys'[k] /\ Committed(t, "done")'
      <4>1. CASE u.holds /\ u.answer = "done" /\ k = KeyOf[r]
        BY <2>5, <2>10, <4>1
      <4>2. CASE ~(u.holds /\ u.answer = "done" /\ k = KeyOf[r])
        <5>1. keys'[k] = keys[k]
          BY <2>10, <4>2
        <5> QED BY <2>5, <3>1, <5>1 DEF IInv, KeysTrue
      <4> QED BY <4>1, <4>2
    <3>2. ASSUME NEW s \in Request, NEW t \in Request, Committed(s, "done")', SameRequest(s, t),
                 unit'[t].at # "ended"
          PROVE  keys'[KeyOf[s]] = ChangeOf[s]
      <4>1. KeyOf[s] \in Key
        BY <3>2, RequestTypes DEF SameRequest
      <4>2. CASE Committed(s, "done")
        <5>1. unit[t].at # "ended"
          BY <2>12, <3>2
        <5>2. keys[KeyOf[s]] = ChangeOf[s] /\ ChangeOf[s] \in Change
          BY <3>2, <4>2, <5>1, RequestTypes DEF IInv, KeysTrue
        <5> QED BY <2>9, <2>10, <4>1, <5>2
      <4>3. CASE ~Committed(s, "done")
        <5>1. s = r /\ u.answer = "done"
          BY <2>5, <3>2, <4>3
        <5>2. u.holds
          BY <2>1, <3>2, <5>1 DEF SameRequest
        <5> QED BY <2>10, <4>1, <5>1, <5>2
      <4> QED BY <4>2, <4>3
    <3> QED BY <3>1, <3>2 DEF KeysTrue, SameRequest
  <2>18. KeyedOnce'
    <3>1. ASSUME NEW t \in Request, t # r, SameRequest(r, t), u.answer = "done"
          PROVE  ~Committed(t, "done")
      <4>1. SUFFICES ASSUME Committed(t, "done") PROVE FALSE
        OBVIOUS
      <4>2. SameRequest(t, r)
        BY <3>1 DEF SameRequest
      <4>3. keys[KeyOf[t]] = ChangeOf[t]
        BY <4>1, <4>2 DEF IInv, KeysTrue
      <4>4. u.holds /\ KeyOf[t] = KeyOf[r] /\ ChangeOf[t] = ChangeOf[r]
        BY <2>1, <3>1 DEF SameRequest
      <4> QED BY <2>9, <4>3, <4>4
    <3> SUFFICES ASSUME NEW s \in Request, NEW t \in Request, s # t, SameRequest(s, t),
                        Committed(s, "done")', Committed(t, "done")'
                 PROVE  FALSE
      BY DEF KeyedOnce, SameRequest
    <3>2. SameRequest(t, s)
      BY DEF SameRequest
    <3>3. ~(Committed(s, "done") /\ Committed(t, "done"))
      BY DEF IInv, KeyedOnce
    <3>4. CASE ~Committed(s, "done")
      BY <2>5, <3>1, <3>4
    <3>5. CASE ~Committed(t, "done")
      BY <2>5, <3>1, <3>2, <3>5
    <3> QED BY <3>3, <3>4, <3>5
  <2>19. AnnouncedTrue'
    BY <2>5 DEF IInv, AnnouncedTrue
  <2>20. EffectsMade'
    BY <2>12 DEF IInv, EffectsMade
  <2> QED BY <2>13, <2>14, <2>15, <2>16, <2>17, <2>18, <2>19, <2>20 DEF IInv
<1> QED BY <1>2, <1>3

LEMMA CommitKeeps ==
  ASSUME IInv, NEW r \in Request, Commit(r)
  PROVE  IInv'
<1> DEFINE u == unit[r]
           v == [Fresh EXCEPT !.at = "deliver", !.answer = u.answer]
<1>1. u \in UnitRecord /\ u.at = "commit" /\ Apply(r)
      /\ UNCHANGED <<effects, announced>> /\ faults' \in 0..MaxFaults
  BY DEF IInv, TypeOK, Commit
<1>2. unit' = [unit EXCEPT ![r] = v]
  BY DEF Commit
<1>3. "deliver" \in Ats /\ u.answer \in Replies \cup {None} /\ 0 \in Nat
  BY <1>1 DEF UnitRecord, Ats
<1>4. Bare(v) /\ v.at = "deliver" /\ v.answer = u.answer
  BY <1>3, BareAnswer
<1> HIDE DEF v
<1> QED BY <1>1, <1>2, <1>4, ApplyKeeps

LEMMA DeliverKeeps ==
  ASSUME IInv, NEW r \in Request, Deliver(r)
  PROVE  IInv'
<1> DEFINE u == unit[r]
           v == [Fresh EXCEPT !.at = "ended", !.answer = u.answer]
<1>1. u \in UnitRecord /\ Told(r, u) /\ u.at = "deliver"
      /\ UNCHANGED <<stored, chain, keys, effects, faults>>
  BY DEF IInv, TypeOK, AllTold, Deliver
<1>2. unit' = [unit EXCEPT ![r] = v]
  BY DEF Deliver, Answered
<1>3. "ended" \in Ats /\ u.answer \in Replies \cup {None} /\ 0 \in Nat
  BY <1>1 DEF UnitRecord, Ats
<1>4. Bare(v) /\ v.at = "ended" /\ v.answer = u.answer
  BY <1>3, BareAnswer
<1> HIDE DEF v
<1>5. Shape(r, v)
  BY <1>4 DEF Bare, Shape
<1>6. Told(r, v)
  BY <1>1, <1>4 DEF Told
<1>7. \A t \in Request : t # r => Apart(r, v, t, unit[t])
  BY <1>4 DEF Bare, Apart
<1>8. /\ unit' \in [Request -> UnitRecord]
      /\ Shapes' /\ AllApart' /\ AllTold' /\ KeysTrue' /\ KeyedOnce'
  BY <1>1, <1>2, <1>4, <1>5, <1>6, <1>7, LocalStep
<1>9. announced' = IF u.answer \in Outcomes THEN announced \cup {r} ELSE announced
  BY DEF Deliver
<1>10. TypeOK'
  BY <1>1, <1>8, <1>9 DEF IInv, TypeOK
<1>11. AnnouncedTrue'
  <2>1. \A t, what : Committed(t, what)' <=> Committed(t, what)
    BY <1>1 DEF Committed
  <2>2. u.answer \in Outcomes => Committed(r, u.answer)
    BY <1>1 DEF Told
  <2> QED BY <1>9, <2>1, <2>2 DEF IInv, AnnouncedTrue
<1>12. EffectsMade'
  <2>1. \A t \in Request : unit'[t] = IF t = r THEN v ELSE unit[t]
    BY <1>2 DEF IInv, TypeOK
  <2> QED BY <1>1, <1>4, <2>1 DEF IInv, EffectsMade
<1> QED BY <1>8, <1>10, <1>11, <1>12 DEF IInv

-----------------------------------------------------------------------------
(***************************************************************************)
(* Roll-backs and faults.                                                  *)
(***************************************************************************)
LEMMA EndedKeeps ==
  ASSUME IInv, NEW r \in Request, NEW reply \in {"conflict", "unavailable", "unknown", "lost"},
         Answered(r, reply), unit[r].at \notin {"new", "ended"},
         reply \in {"conflict", "unavailable"} => unit[r].at # "deliver",
         UNCHANGED <<stored, chain, keys, effects, announced>>, faults' \in 0..MaxFaults
  PROVE  IInv'
<1> DEFINE v == [Fresh EXCEPT !.at = "ended", !.answer = reply]
<1>1. unit' = [unit EXCEPT ![r] = v]
  BY DEF Answered
<1>2. "ended" \in Ats /\ reply \in Replies \cup {None} /\ 0 \in Nat
  BY DEF Ats, Replies
<1>3. Bare(v) /\ v.at = "ended" /\ v.answer = reply
  BY <1>2, BareAnswer
<1> HIDE DEF v
<1>4. Told(r, v)
  <2>1. Told(r, unit[r])
    BY DEF IInv, AllTold
  <2> QED BY <1>3, <2>1 DEF Told, Outcomes
<1> QED BY <1>1, <1>3, <1>4, BareStep

LEMMA RolledBackKeeps ==
  ASSUME IInv, NEW r \in Request, NEW reply \in {"conflict", "unavailable"},
         RolledBack(r, reply), unit[r].at \in {"arrived", "save", "chain"},
         UNCHANGED <<stored, chain, keys, effects, announced>>, faults' \in 0..MaxFaults
  PROVE  IInv'
<1> DEFINE u == unit[r]
           n == u.attempt + 1
           v == [Fresh EXCEPT !.at = "arrived", !.attempt = n]
<1>1. u \in UnitRecord /\ Told(r, u)
  BY DEF IInv, TypeOK, AllTold
<1>2. CASE Repeatable(u)
  <2>1. unit' = [unit EXCEPT ![r] = v]
    BY <1>2 DEF RolledBack
  <2>2. "arrived" \in Ats /\ None \in Replies \cup {None} /\ n \in Nat
    BY <1>1 DEF UnitRecord, Ats
  <2> HIDE DEF n
  <2>3. Bare(v) /\ v.at = "arrived"
    BY <2>2, BareFacts
  <2> HIDE DEF v
  <2>4. Told(r, v)
    BY <1>1, <2>3 DEF Told
  <2>5. effects[r] = 0
    <3>1. effects[r] \in Nat /\ effects[r] <= 1
      BY DEF IInv, TypeOK, EffectsMade
    <3>2. ~u.irreversible
      BY <1>2 DEF Repeatable
    <3>3. effects[r] # 1
      BY <3>2 DEF IInv, EffectsMade
    <3> QED BY <3>1, <3>3
  <2> QED BY <2>1, <2>3, <2>4, <2>5, BareStep
<1>3. CASE ~Repeatable(u)
  <2>1. Answered(r, reply)
    BY <1>3 DEF RolledBack
  <2> QED BY <2>1, EndedKeeps
<1> QED BY <1>2, <1>3

LEMMA CollideKeeps ==
  ASSUME IInv, NEW r \in Request, Collide(r)
  PROVE  IInv'
BY RolledBackKeeps DEF Collide, IInv, TypeOK

LEMMA DeadlockVictimKeeps ==
  ASSUME IInv, NEW r \in Request, DeadlockVictim(r)
  PROVE  IInv'
<1>1. unit[r].at \in {"arrived", "save", "chain"}
  BY DEF DeadlockVictim, Waits, WaitsFor, WaitsForKey, WaitsForRow, WaitsForChain
<1>2. RolledBack(r, "unavailable") /\ UNCHANGED <<stored, chain, keys, effects, announced, faults>>
  BY DEF DeadlockVictim
<1>3. faults' \in 0..MaxFaults
  BY <1>2 DEF IInv, TypeOK
<1> QED BY <1>1, <1>2, <1>3, RolledBackKeeps

LEMMA BreakKeeps ==
  ASSUME IInv, NEW r \in Request, Break(r)
  PROVE  IInv'
<1>1. PICK reply \in {"unavailable", "lost"} : Answered(r, reply)
  BY DEF Break
<1>2. unit[r].at \in {"arrived", "load", "save", "chain"}
      /\ UNCHANGED <<stored, chain, keys, effects, announced>>
  BY DEF Break
<1>3. faults' \in 0..MaxFaults
  BY RequestTypes DEF Break, IInv, TypeOK
<1> QED BY <1>1, <1>2, <1>3, EndedKeeps

LEMMA BreakCommitKeeps ==
  ASSUME IInv, NEW r \in Request, BreakCommit(r)
  PROVE  IInv'
<1> DEFINE v(reply) == [Fresh EXCEPT !.at = "ended", !.answer = reply]
<1>1. PICK reply \in {"unknown", "lost"} : Answered(r, reply)
  BY DEF BreakCommit, InDoubt
<1>2. unit[r].at = "commit" /\ UNCHANGED <<effects, announced>>
  BY DEF BreakCommit
<1>3. faults' \in 0..MaxFaults
  BY RequestTypes DEF BreakCommit, IInv, TypeOK
<1>4. CASE Apply(r)
  <2>1. unit' = [unit EXCEPT ![r] = v(reply)]
    BY <1>1 DEF Answered
  <2>2. "ended" \in Ats /\ reply \in Replies \cup {None} /\ 0 \in Nat
    BY DEF Ats, Replies
  <2>3. Bare(v(reply)) /\ v(reply).at = "ended" /\ v(reply).answer = reply
    BY <2>2, BareAnswer
  <2> HIDE DEF v
  <2> QED BY <1>2, <1>3, <1>4, <2>1, <2>3, ApplyKeeps
<1>5. CASE UNCHANGED <<stored, chain, keys>>
  BY <1>1, <1>2, <1>3, <1>5, EndedKeeps
<1> QED BY <1>4, <1>5 DEF BreakCommit

LEMMA BreakDeliveryKeeps ==
  ASSUME IInv, NEW r \in Request, BreakDelivery(r)
  PROVE  IInv'
<1>1. Answered(r, "lost") /\ unit[r].at = "deliver"
      /\ UNCHANGED <<stored, chain, keys, effects, announced>>
  BY DEF BreakDelivery
<1>2. faults' \in 0..MaxFaults
  BY RequestTypes DEF BreakDelivery, IInv, TypeOK
<1> QED BY <1>1, <1>2, EndedKeeps

LEMMA ExpireKeeps ==
  ASSUME IInv, NEW k \in Key, Expire(k)
  PROVE  IInv'
<1>1. UNCHANGED <<stored, chain, unit, effects, announced, faults>>
      /\ \A j \in Key : keys'[j] = IF j = k THEN None ELSE keys[j]
  BY DEF Expire, IInv, TypeOK
<1>2. \A t, what : Committed(t, what)' <=> Committed(t, what)
  BY <1>1 DEF Committed
<1>3. TypeOK'
  <2>1. keys' \in [Key -> Change \cup {None}]
    BY DEF Expire, IInv, TypeOK
  <2> QED BY <1>1, <2>1 DEF IInv, TypeOK
<1>4. Shapes'
  <2> SUFFICES ASSUME NEW t \in Request PROVE Shape(t, unit[t])'
    BY DEF Shapes
  <2>1. Shape(t, unit[t])
    BY DEF IInv, Shapes
  <2>2. unit[t].holds => KeyOf[t] # None /\ keys'[KeyOf[t]] = None
    <3>1. KeyOf[t] \in Key \cup {None}
      BY RequestTypes
    <3> QED BY <1>1, <2>1, <3>1 DEF Shape
  <2> QED BY <1>1, <2>1, <2>2 DEF Shape, Copied
<1>5. AllApart' /\ EffectsMade'
  BY <1>1 DEF IInv, AllApart, Apart, EffectsMade
<1>6. AllTold'
  BY <1>1 DEF IInv, AllTold, Told, InChain, Committed
<1>7. KeysTrue'
  <2>1. ASSUME NEW j \in Key, keys'[j] # None
        PROVE  \E t \in Request : KeyOf[t] = j /\ ChangeOf[t] = keys'[j] /\ Committed(t, "done")'
    BY <1>1, <1>2, <2>1 DEF IInv, KeysTrue
  <2>2. ASSUME NEW s \in Request, NEW t \in Request, Committed(s, "done")', SameRequest(s, t),
               unit'[t].at # "ended"
        PROVE  keys'[KeyOf[s]] = ChangeOf[s]
    <3>1. KeyOf[s] \in Key /\ KeyOf[t] = KeyOf[s] /\ ChangeOf[t] = ChangeOf[s]
      BY <2>2, RequestTypes DEF SameRequest
    <3>2. keys[KeyOf[s]] = ChangeOf[s]
      BY <1>1, <1>2, <2>2 DEF IInv, KeysTrue
    <3>3. KeyOf[s] # k
      BY <1>1, <2>2, <3>1, <3>2 DEF Expire
    <3> QED BY <1>1, <3>1, <3>2, <3>3
  <2> QED BY <2>1, <2>2 DEF KeysTrue, SameRequest
<1>8. KeyedOnce' /\ AnnouncedTrue'
  BY <1>1, <1>2 DEF IInv, KeyedOnce, AnnouncedTrue
<1> QED BY <1>3, <1>4, <1>5, <1>6, <1>7, <1>8 DEF IInv

-----------------------------------------------------------------------------
(***************************************************************************)
(* The theorems.                                                           *)
(***************************************************************************)

\* Whatever the requests, the interleaving and the faults: locks have one holder,
\* keys stand for committed requests, copies are as old as they say (the units and
\* the database of unit_of_work.run and db._write_versioned).
THEOREM Invariant == Spec => []IInv
<1>1. IInv /\ [Next]_vars => IInv'
  <2> SUFFICES ASSUME IInv, [Next]_vars PROVE IInv'
    OBVIOUS
  <2>1. CASE UNCHANGED vars
    BY <2>1 DEF vars, IInv, TypeOK, Shapes, Shape, Copied, AllApart, Apart, AllTold, Told,
                InChain, Committed, KeysTrue, KeyedOnce, AnnouncedTrue, EffectsMade
  <2>2. ASSUME NEW k \in Key, Expire(k) PROVE IInv'
    BY <2>2, ExpireKeeps
  <2>3. ASSUME NEW r \in Request, Arrive(r) \/ Proceed(r) \/ Break(r) \/ BreakCommit(r) \/ BreakDelivery(r)
        PROVE  IInv'
    <3>1. CASE Arrive(r)
      BY <3>1, ArriveKeeps
    <3>2. CASE Break(r)
      BY <3>2, BreakKeeps
    <3>3. CASE BreakCommit(r)
      BY <3>3, BreakCommitKeeps
    <3>4. CASE BreakDelivery(r)
      BY <3>4, BreakDeliveryKeeps
    <3>5. CASE Reserve(r) \/ Load(r) \/ Decide(r)
      BY <3>5, ReserveKeeps, LoadKeeps, DecideKeeps
    <3>6. CASE Save(r) \/ Flush(r) \/ ChainEnd(r)
      BY <3>6, SaveKeeps, FlushKeeps, ChainEndKeeps
    <3>7. CASE Commit(r) \/ Deliver(r) \/ Collide(r) \/ DeadlockVictim(r)
      BY <3>7, CommitKeeps, DeliverKeeps, CollideKeeps, DeadlockVictimKeeps
    <3> QED BY <2>3, <3>1, <3>2, <3>3, <3>4, <3>5, <3>6, <3>7 DEF Proceed
  <2> QED BY <2>1, <2>2, <2>3 DEF Next
<1> QED BY <1>1, InitIInv, PTL DEF Spec

\* The types of the database and the units.
THEOREM TypeCorrect == Spec => []TypeOK
BY Invariant, PTL DEF IInv

\* What must happen once happens once, for any number of submissions and collisions
\* (api._idempotent, unit_of_work.mark_irreversible).
THEOREM RequestsDoneOnce == Spec => []DoneOnce
<1>1. IInv => IrreversibleOnce
  BY DEF IInv, EffectsMade, IrreversibleOnce
<1>2. IInv => DoneOnce
  BY <1>1 DEF IInv, DoneOnce
<1> QED BY <1>2, Invariant, PTL

\* Whoever holds the end of the audit chain waits for nobody (before_commit).
THEOREM LastLock == Spec => []ChainEndNeverWaits
<1>1. IInv => ChainEndNeverWaits
  <2> SUFFICES ASSUME IInv, NEW r \in Request, unit[r].seq # 0 PROVE ~Waits(r)
    BY DEF ChainEndNeverWaits
  <2>1. unit[r].at = "commit"
    BY DEF IInv, Shapes, Shape
  <2> QED BY <2>1 DEF Waits, WaitsFor, WaitsForKey, WaitsForRow, WaitsForChain
<1> QED BY <1>1, Invariant, PTL

\* Answers and announcements agree with what is stored (unit_of_work, _run_after_commit).
THEOREM AnswersTrue == Spec => []OutwardTrue
<1>1. IInv => OutwardTrue
  <2> SUFFICES ASSUME IInv PROVE OutwardTrue
    OBVIOUS
  <2>1. ASSUME NEW r \in Request, unit[r].at = "ended"
        PROVE  CASE unit[r].answer \in Outcomes -> Committed(r, unit[r].answer)
                 [] unit[r].answer = "replayed" -> \E t \in Request : SameRequest(r, t) /\ Committed(t, "done")
                 [] unit[r].answer \in {"refused", "reused", "conflict", "unavailable"} ->
                        \A what \in Outcomes : ~Committed(r, what)
                 [] OTHER -> TRUE
    <3>1. Told(r, unit[r])
      BY DEF IInv, AllTold
    <3>2. unit[r].answer \in Outcomes => Committed(r, unit[r].answer)
      BY <2>1, <3>1 DEF Told
    <3>3. unit[r].answer = "replayed" => \E t \in Request : SameRequest(r, t) /\ Committed(t, "done")
      BY <2>1, <3>1 DEF Told
    <3>4. unit[r].answer \in {"refused", "reused", "conflict", "unavailable"}
             => \A what \in Outcomes : ~Committed(r, what)
      BY <2>1, <3>1 DEF Told, InChain, Committed
    <3> QED BY <3>2, <3>3, <3>4
  <2> QED BY <2>1 DEF OutwardTrue, IInv, AnnouncedTrue
<1> QED BY <1>1, Invariant, PTL

LEMMA ApplyIsDo ==
  ASSUME IInv, NEW r \in Request, unit[r].at = "commit", Apply(r)
  PROVE  [Serial!Next]_<<[o \in Object |-> stored[o].work], chain>>
<1> DEFINE u == unit[r]
           W == [o \in Object |-> stored[o].work]
<1>1. Shape(r, u) /\ ~InChain(r)
  BY DEF IInv, Shapes, AllTold, Told
<1>2. CASE u.saved = {}
  <2>1. u.answer \notin Outcomes
    BY <1>1, <1>2, PathFacts DEF Shape, Outcomes
  <2>2. stored' = [o \in Object |-> stored[o]] /\ chain' = chain
    BY <1>2 DEF Apply
  <2>3. W' = W
    BY <2>2
  <2> QED BY <2>2, <2>3
<1>3. CASE u.saved # {}
  <2>1. /\ u.saved = Touched(r) /\ u.seq = Len(chain) + 1 /\ u.answer \in Outcomes
        /\ u.answer = "done" => \A o \in Touched(r) : Permits(r, u.copy[o].work)
        /\ \A o \in Touched(r) : u.copy[o] = stored[o]
        /\ Touched(r) \subseteq Object
    BY <1>1, <1>3, PathFacts DEF Shape
  <2>2. PICK what \in {"done", "failed"} : what = u.answer
    BY <2>1 DEF Outcomes
  <2> DEFINE entry == [by |-> r, what |-> what]
  <2>3. chain' = Append(chain, [seq |-> Len(chain) + 1, by |-> r, what |-> what])
    BY <1>3, <2>1, <2>2 DEF Apply
  <2>4. \A i \in DOMAIN chain : chain[i].by # r
    BY <1>1 DEF InChain
  <2>5. what = "done" => \A o \in Touched(r) : Permits(r, W[o])
    BY <2>1, <2>2
  <2>6. W' = [o \in Object |-> IF o \in Touched(r) THEN Append(W[o], entry) ELSE W[o]]
    <3>1. \A o \in Object : stored'[o].work = IF o \in Touched(r) THEN Append(W[o], entry) ELSE W[o]
      BY <2>1, <2>2 DEF Apply
    <3> QED BY <3>1
  <2>7. Serial!Do(r, what)
    BY <2>3, <2>4, <2>5, <2>6 DEF Serial!Do
  <2> QED BY <2>7, Zenon DEF Serial!Next
<1> QED BY <1>2, <1>3

\* The units take effect one after the other, each as a whole, decided on the
\* state it replaces, each once in a chain numbered without a gap: Requests
\* implements SerialChanges for any requests, orders of access and faults.
THEOREM TakesEffect == Spec => TakeEffectSerially
<1> DEFINE W == [o \in Object |-> stored[o].work]
<1>1. Init => Serial!Init
  BY DEF Init, Serial!Init
<1>2. IInv /\ [Next]_vars => [Serial!Next]_<<W, chain>>
  <2> SUFFICES ASSUME IInv, [Next]_vars PROVE [Serial!Next]_<<W, chain>>
    OBVIOUS
  <2>1. CASE UNCHANGED <<stored, chain>>
    BY <2>1
  <2>2. ASSUME NEW r \in Request, Commit(r) \/ BreakCommit(r), ~UNCHANGED <<stored, chain>>
        PROVE  [Serial!Next]_<<W, chain>>
    <3>1. unit[r].at = "commit" /\ Apply(r)
      BY <2>2 DEF Commit, BreakCommit
    <3> QED BY <3>1, ApplyIsDo
  <2>3. \/ UNCHANGED <<stored, chain>>
        \/ \E r \in Request : Commit(r) \/ BreakCommit(r)
    <3>1. CASE UNCHANGED vars
      BY <3>1 DEF vars
    <3>2. ASSUME NEW k \in Key, Expire(k) PROVE UNCHANGED <<stored, chain>>
      BY <3>2 DEF Expire
    <3>3. ASSUME NEW r \in Request, Arrive(r) \/ Break(r) \/ BreakDelivery(r) \/ Reserve(r) \/ Load(r)
                   \/ Decide(r) \/ Save(r) \/ Flush(r) \/ ChainEnd(r) \/ Deliver(r) \/ Collide(r)
                   \/ DeadlockVictim(r)
          PROVE  UNCHANGED <<stored, chain>>
      BY <3>3 DEF Arrive, Break, BreakDelivery, Reserve, Load, Decide, Save, Flush, ChainEnd, Deliver,
                  Collide, DeadlockVictim
    <3> QED BY <3>1, <3>2, <3>3 DEF Next, Proceed
  <2> QED BY <2>1, <2>2, <2>3
<1> QED BY <1>1, <1>2, Invariant, PTL DEF Spec, TakeEffectSerially, Serial!Spec
=============================================================================
