------------------------------ MODULE Requests ------------------------------
(***************************************************************************)
(* Requests that change something, on a database: unit_of_work.run with    *)
(* the conditional save (db._write_versioned), the idempotency keys        *)
(* (api._idempotent, db.SqlAlchemyIdempotencyStore) and the audit chain    *)
(* written right before the commit (db.SqlAlchemyAuditLog).                *)
(*                                                                         *)
(* Every request is a transaction at READ COMMITTED: it sees what others   *)
(* have committed, waits for the rows they have written, and its own       *)
(* writes appear at its commit.  A client that got no usable answer sends  *)
(* the same request again: that is another member of Request with the same *)
(* key and the same change, which may arrive while the first still runs.   *)
(***************************************************************************)
EXTENDS Naturals, Sequences, FiniteSets

CONSTANTS
    Request, Object, Change, Key, None,
    ChangeOf,   \* endpoint, path parameters and body of a request
    KeyOf,      \* its Idempotency-Key, or None
    Order,      \* of each change: the objects it loads and saves, in order
    CallsOut,   \* the changes that write to an external system before they save
    RecordsFailure,  \* the changes that put a failed attempt on record before they refuse
    Room,       \* what may have been done to an object before a change is refused
    Retries,    \* DEFAULT_RETRIES
    MaxFaults   \* bound: processes that die, connections that are lost

ASSUME RequestTypes ==
    /\ ChangeOf \in [Request -> Change]
    /\ KeyOf \in [Request -> Key \cup {None}]
    /\ Order \in [Change -> Seq(Object) \ {<<>>}]
    /\ CallsOut \subseteq Change /\ RecordsFailure \subseteq Change
    /\ Room \in [Change -> Nat] /\ Retries \in Nat /\ MaxFaults \in Nat
    /\ None \notin Key \cup Change \cup Object

VARIABLES
    stored,     \* the committed objects, each with its lock_version
    chain,      \* the committed audit events
    keys,       \* the change each key was committed with, or None
    unit,       \* the unit of work of each request
    effects,    \* how often each request has written to the external system
    announced,  \* the requests whose events have been handed to the outside
    faults

vars == <<stored, chain, keys, unit, effects, announced, faults>>

Outcomes == {"done", "failed"}

Replies == Outcomes \cup {"refused", "replayed", "reused", "conflict", "unavailable", "unknown", "lost"}

EntryRecord == [by : Request, what : Outcomes]

ObjectRecord == [version : Nat, work : Seq(EntryRecord)]

EventRecord == [seq : Nat, by : Request, what : Outcomes]

UnitRecord == [at : {"new", "arrived", "load", "save", "chain", "commit", "deliver", "ended"},
               pos : Nat \ {0}, copy : [Object -> ObjectRecord \cup {None}],
               saved : SUBSET Object, refused : SUBSET Object, holds : BOOLEAN, seq : Nat,
               irreversible : BOOLEAN, attempt : Nat, answer : Replies \cup {None}]

\* A fresh unit: nothing read, written or reserved, no lock held.
Fresh == [at |-> "new", pos |-> 1, copy |-> [o \in Object |-> None],
          saved |-> {}, refused |-> {}, holds |-> FALSE, seq |-> 0,
          irreversible |-> FALSE, attempt |-> 0, answer |-> None]

Init ==
    /\ stored = [o \in Object |-> [version |-> 1, work |-> <<>>]]
    /\ chain = <<>>
    /\ keys = [k \in Key |-> None]
    /\ unit = [r \in Request |-> Fresh]
    /\ effects = [r \in Request |-> 0]
    /\ announced = {}
    /\ faults = 0

Path(r) == Order[ChangeOf[r]]

Touched(r) == {Path(r)[i] : i \in DOMAIN Path(r)}

\* What the handlers check, reduced to one kind of guard: how far an object has got.
Permits(r, work) == Cardinality({i \in DOMAIN work : work[i].what = "done"}) < Room[ChangeOf[r]]

SameRequest(r, t) == KeyOf[r] # None /\ KeyOf[r] = KeyOf[t] /\ ChangeOf[r] = ChangeOf[t]

-----------------------------------------------------------------------------
(***************************************************************************)
(* Locks.  A transaction holds the key rows, the object rows and the end   *)
(* of the chain it has written until it ends.                              *)
(***************************************************************************)

\* Mutant: the key's row is looked up instead of inserted, and nobody waits.
WaitsForKeyNever(r, t) == FALSE

WaitsForKey(r, t) == /\ unit[r].at = "arrived" /\ KeyOf[r] # None
                     /\ KeyOf[t] = KeyOf[r] /\ unit[t].holds

WaitsForRow(r, t) == /\ unit[r].at = "save" /\ unit[r].pos \in DOMAIN Path(r)
                     /\ Path(r)[unit[r].pos] \in unit[t].saved

WaitsForChain(r, t) == unit[r].at = "chain" /\ unit[t].seq # 0

WaitsFor(r, t) == r # t /\ (WaitsForKey(r, t) \/ WaitsForRow(r, t) \/ WaitsForChain(r, t))

Waits(r) == \E t \in Request : WaitsFor(r, t)

\* A request waits for one row at a time, so such a set consists of circles.
Deadlocked(R) == \A r \in R : /\ \E t \in R : WaitsFor(r, t)
                              /\ \E t \in R : WaitsFor(t, r)

-----------------------------------------------------------------------------
(***************************************************************************)
(* The steps of a unit.                                                    *)
(***************************************************************************)

Arrive(r) ==
    /\ unit[r].at = "new"
    /\ unit' = [unit EXCEPT ![r].at = "arrived"]
    /\ UNCHANGED <<stored, chain, keys, effects, announced, faults>>

\* reserve: insert the key's row, or find what it was committed with.
Reserve(r) ==
    /\ unit[r].at = "arrived" /\ ~Waits(r)
    /\ LET k == KeyOf[r]
           free == k = None \/ keys[k] = None
       IN  unit' = [unit EXCEPT ![r] =
               IF free THEN [@ EXCEPT !.at = "load", !.holds = k # None]
               ELSE [@ EXCEPT !.at = "commit",
                              !.answer = IF keys[k] = ChangeOf[r] THEN "replayed" ELSE "reused"]]
    /\ UNCHANGED <<stored, chain, keys, effects, announced, faults>>

Load(r) ==
    /\ unit[r].at = "load" /\ unit[r].pos \in DOMAIN Path(r)
    /\ LET o == Path(r)[unit[r].pos] IN
       unit' = [unit EXCEPT ![r].copy = [@ EXCEPT ![o] = stored[o]], ![r].pos = @ + 1]
    /\ UNCHANGED <<stored, chain, keys, effects, announced, faults>>

\* The decision on what was loaded, and the external write, which may fail; a
\* failure that goes on record is saved like a change, and then answered.
Decide(r) ==
    /\ unit[r].at = "load" /\ unit[r].pos \notin DOMAIN Path(r)
    /\ LET permitted == \A o \in Touched(r) : Permits(r, unit[r].copy[o].work)
           out == permitted /\ ChangeOf[r] \in CallsOut
           answers == (IF permitted THEN {"done"} ELSE {"refused"})
                      \cup (IF out THEN {"refused"} ELSE {})
                      \cup (IF ChangeOf[r] \in RecordsFailure THEN {"failed"} ELSE {})
       IN  /\ \E answer \in answers :
                 unit' = [unit EXCEPT ![r] =
                     [@ EXCEPT !.at = IF answer = "refused" THEN "commit" ELSE "save",
                               !.pos = 1, !.irreversible = out, !.answer = answer]]
           /\ effects' = IF out THEN [effects EXCEPT ![r] = @ + 1] ELSE effects
    /\ UNCHANGED <<stored, chain, keys, announced, faults>>

\* The version an object is saved on must still be the stored one.
FreshCopy(r, o) == stored[o].version = unit[r].copy[o].version

Saved(u, o) == [u EXCEPT !.saved = @ \cup {o}, !.pos = @ + 1]

Refused(u, o) == [u EXCEPT !.refused = @ \cup {o}, !.pos = @ + 1]

\* A refused save is noted, and the code in between may swallow the exception.
Save(r) ==
    /\ unit[r].at = "save" /\ unit[r].pos \in DOMAIN Path(r) /\ ~Waits(r)
    /\ LET o == Path(r)[unit[r].pos] IN
       unit' = [unit EXCEPT ![r] = IF FreshCopy(r, o) THEN Saved(@, o) ELSE Refused(@, o)]
    /\ UNCHANGED <<stored, chain, keys, effects, announced, faults>>

\* Mutant: only an exception that arrives counts.
NotedIgnored(u) == FALSE

Noted(u) == u.refused # {}

\* Everything is flushed; the chain is written last.
Flush(r) ==
    /\ unit[r].at = "save" /\ unit[r].pos \notin DOMAIN Path(r)
    /\ ~Noted(unit[r])
    /\ unit' = [unit EXCEPT ![r].at = "chain"]
    /\ UNCHANGED <<stored, chain, keys, effects, announced, faults>>

ChainEnd(r) ==
    /\ unit[r].at = "chain" /\ ~Waits(r)
    /\ unit' = [unit EXCEPT ![r].at = "commit", ![r].seq = Len(chain) + 1]
    /\ UNCHANGED <<stored, chain, keys, effects, announced, faults>>

Reference(r) == ChangeOf[r]

\* Everything the unit wrote becomes visible at once.
Apply(r) ==
    LET u == unit[r]
        entry == [by |-> r, what |-> u.answer]
    IN  /\ stored' = [o \in Object |->
               IF o \in u.saved
               THEN [version |-> u.copy[o].version + 1, work |-> Append(u.copy[o].work, entry)]
               ELSE stored[o]]
        /\ chain' = IF u.saved = {} THEN chain
                    ELSE Append(chain, [seq |-> u.seq, by |-> r, what |-> u.answer])
        \* A failure abandons its reservation.
        /\ keys' = IF u.holds /\ u.answer = "done" THEN [keys EXCEPT ![KeyOf[r]] = Reference(r)]
                   ELSE keys

\* Mutant: the hook that gives the reservation back does not run.
AnsweredHolding(r, reply) ==
    unit' = [unit EXCEPT ![r] = [Fresh EXCEPT !.at = "ended", !.answer = reply, !.holds = unit[r].holds]]

Answered(r, reply) == unit' = [unit EXCEPT ![r] = [Fresh EXCEPT !.at = "ended", !.answer = reply]]

Commit(r) ==
    /\ unit[r].at = "commit"
    /\ Apply(r)
    /\ unit' = [unit EXCEPT ![r] = [Fresh EXCEPT !.at = "deliver", !.answer = unit[r].answer]]
    /\ UNCHANGED <<effects, announced, faults>>

\* The after_commit steps, then the answer.
Deliver(r) ==
    /\ unit[r].at = "deliver"
    /\ announced' = IF unit[r].answer \in Outcomes THEN announced \cup {r} ELSE announced
    /\ Answered(r, unit[r].answer)
    /\ UNCHANGED <<stored, chain, keys, effects, faults>>

-----------------------------------------------------------------------------
(***************************************************************************)
(* Conflicts, deadlocks, lost connections, dead processes.                 *)
(***************************************************************************)

Repeatable(u) == u.attempt < Retries /\ ~u.irreversible

\* run: the rolled-back unit is repeated as a fresh one, or the caller is told.
RolledBack(r, reply) ==
    IF Repeatable(unit[r])
    THEN unit' = [unit EXCEPT ![r] = [Fresh EXCEPT !.at = "arrived", !.attempt = unit[r].attempt + 1]]
    ELSE Answered(r, reply)

Collide(r) ==
    /\ unit[r].at = "save" /\ Noted(unit[r])
    /\ RolledBack(r, "conflict")
    /\ UNCHANGED <<stored, chain, keys, effects, announced, faults>>

\* The database aborts one of the transactions that wait in a circle.
DeadlockVictim(r) ==
    /\ Waits(r) /\ \E R \in SUBSET Request : r \in R /\ Deadlocked(R)
    /\ RolledBack(r, "unavailable")
    /\ UNCHANGED <<stored, chain, keys, effects, announced, faults>>

\* The connection is lost, or the process dies, before COMMIT was sent.
Break(r) ==
    /\ unit[r].at \in {"arrived", "load", "save", "chain"} /\ faults < MaxFaults
    /\ \E reply \in {"unavailable", "lost"} : Answered(r, reply)
    /\ faults' = faults + 1
    /\ UNCHANGED <<stored, chain, keys, effects, announced>>

\* Mutant: answered as an outage, "please retry shortly".
InDoubtOutage == {"unavailable", "lost"}

InDoubt == {"unknown", "lost"}

\* During COMMIT nobody can tell whether it was carried out.
BreakCommit(r) ==
    /\ unit[r].at = "commit" /\ faults < MaxFaults
    /\ Apply(r) \/ UNCHANGED <<stored, chain, keys>>
    /\ \E reply \in InDoubt : Answered(r, reply)
    /\ faults' = faults + 1
    /\ UNCHANGED <<effects, announced>>

BreakDelivery(r) ==
    /\ unit[r].at = "deliver" /\ faults < MaxFaults
    /\ Answered(r, "lost")
    /\ faults' = faults + 1
    /\ UNCHANGED <<stored, chain, keys, effects, announced>>

\* After 24 hours a key is free again; no client still repeats its request then.
Expire(k) ==
    /\ keys[k] # None
    /\ \A r \in Request : KeyOf[r] = k /\ ChangeOf[r] = keys[k] => unit[r].at = "ended"
    /\ keys' = [keys EXCEPT ![k] = None]
    /\ UNCHANGED <<stored, chain, unit, effects, announced, faults>>

Proceed(r) ==
    \/ Reserve(r) \/ Load(r) \/ Decide(r) \/ Save(r) \/ Flush(r) \/ ChainEnd(r)
    \/ Commit(r) \/ Deliver(r) \/ Collide(r) \/ DeadlockVictim(r)

Next ==
    \/ \E r \in Request : Arrive(r) \/ Proceed(r) \/ Break(r) \/ BreakCommit(r) \/ BreakDelivery(r)
    \/ \E k \in Key : Expire(k)

Spec == Init /\ [][Next]_vars

\* A process runs on with every request it has taken until it dies.
FairSpec == Spec /\ \A r \in Request : WF_vars(Proceed(r))

-----------------------------------------------------------------------------
(***************************************************************************)
(* Properties.                                                             *)
(***************************************************************************)

\* The types of the database and the units (db.InstanceRow, unit_of_work.UnitOfWork).
TypeOK ==
    /\ stored \in [Object -> ObjectRecord]
    /\ chain \in Seq(EventRecord)
    /\ keys \in [Key -> Change \cup {None}]
    /\ unit \in [Request -> UnitRecord]
    /\ effects \in [Request -> Nat]
    /\ announced \subseteq Request
    /\ faults \in 0..MaxFaults

Committed(r, what) == \E i \in DOMAIN chain : chain[i].by = r /\ chain[i].what = what

KeyedOnce ==
    \A r, t \in Request :
        r # t /\ SameRequest(r, t) => ~(Committed(r, "done") /\ Committed(t, "done"))

IrreversibleOnce == \A r \in Request : effects[r] <= 1

\* What a client or an external system must see once happens once: a request sent
\* again under its key is carried out once, however often it was sent, while the
\* first still ran, after a conflict, or after a commit nobody knew the outcome of
\* (api._idempotent), and a unit that wrote outside is never repeated, however it
\* collides with others (unit_of_work.mark_irreversible).
DoneOnce == KeyedOnce /\ IrreversibleOnce

\* What leaves the system is true of what is stored: an answer that says the
\* change was made, one that says nothing was saved, and every event handed
\* out (unit_of_work: "must neither announce something that is then rolled
\* back nor be repeated when the unit is").
OutwardTrue ==
    /\ \A r \in Request : unit[r].at = "ended" =>
           CASE unit[r].answer \in Outcomes -> Committed(r, unit[r].answer)
             [] unit[r].answer = "replayed" -> \E t \in Request : SameRequest(r, t) /\ Committed(t, "done")
             [] unit[r].answer \in {"refused", "reused", "conflict", "unavailable"} ->
                    \A what \in Outcomes : ~Committed(r, what)
             [] OTHER -> TRUE
    /\ \A r \in announced : \E what \in Outcomes : Committed(r, what)

\* Whoever holds the end of the audit chain waits for nobody, so no circle of
\* waiting units goes through the one lock every writer needs
\* (unit_of_work.before_commit).
ChainEndNeverWaits == \A r \in Request : unit[r].seq # 0 => ~Waits(r)

\* Of finitely many requests none stays under way: conflicts, deadlocks and
\* waits for a key end with an answer, unless the process dies (unit_of_work.run).
EveryRequestEnds == <>[](\A r \in Request : unit[r].at \in {"new", "ended"})

Serial == INSTANCE SerialChanges WITH
    Touches <- Touched, work <- [o \in Object |-> stored[o].work]

\* The units take effect as wholes, one after the other: no save replaces
\* another, nothing is decided on a state that has changed, and the audit chain
\* has every change once, numbered without a gap (unit_of_work: "All or
\* nothing", "Conditional save").
TakeEffectSerially == Serial!Spec
=============================================================================
