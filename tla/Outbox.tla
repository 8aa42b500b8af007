------------------------------- MODULE Outbox -------------------------------
(***************************************************************************)
(* The two outboxes: webhook events, pushes of automatic steps and test    *)
(* pings (outbox.OutboxDispatcher), and the mails of steps that became     *)
(* ready (mail_runtime.MailOutboxDispatcher), delivered by dispatchers     *)
(* that run after every commit in every API process.                       *)
(*                                                                         *)
(* A dispatcher reserves an entry, looks at what it got, sends, and        *)
(* records the outcome; each of these is a step, the others run in         *)
(* between, the process may die between any two of them, or stall until    *)
(* its lease has run out and another one has taken the entry over.         *)
(***************************************************************************)
EXTENDS LeasedEntries, FiniteSets

CONSTANTS
    Entry, Dispatcher, Subscription, None,
    Kind,         \* of each entry: an "event" of a subscription, a "push", a "test" ping, a "mail"
    MaxAttempts,  \* max_attempts of an event or a mail
    Threshold,    \* circuit_threshold
    MaxStored,    \* bound: entries stored at a time
    MaxFaults     \* bound: processes that die, or stall until their lease has run out

ASSUME OutboxTypes ==
    /\ Kind \in [Entry -> {"event", "push", "test", "mail"}]
    /\ MaxAttempts \in Nat \ {0} /\ Threshold \in Nat \ {0} /\ MaxFaults \in Nat
    /\ MaxStored \in Nat
    /\ None \notin Entry \cup Subscription

\* Pushes and pings have one attempt: the outbox never repeats them.
Budget(e) == IF Kind[e] \in {"event", "mail"} THEN MaxAttempts ELSE 1

VARIABLES
    entry,      \* the stored entries
    active,     \* the subscriptions that exist
    dispatch,   \* what each dispatcher is doing
    circuit,    \* the circuit breaker of the target's host, one in each process
    sent,       \* the attempts made of each entry, by number
    accepted,   \* entries the receiver has accepted
    faults      \* how many processes have died or stalled

vars == <<entry, active, dispatch, circuit, sent, accepted, faults>>

\* Of a mail, SENT is the DELIVERED and DROPPED the DISCARDED of the others.
ClosedStates == {"DELIVERED", "DEAD", "DISCARDED"}

EntryRecord == [state : {"ABSENT", "UNCOMMITTED"} \cup OpenStates \cup ClosedStates,
                sub : Subscription \cup {None}, attempts : Nat, leased : BOOLEAN, due : BOOLEAN]

NoEntry == [state |-> "ABSENT", sub |-> None, attempts |-> 0, leased |-> FALSE, due |-> FALSE]

DispatchRecord == [at : {"idle", "reserved", "sending", "refused", "sent"},
                   entry : Entry \cup {None}, attempt : Nat, ok : BOOLEAN]

Idle == [at |-> "idle", entry |-> None, attempt |-> 0, ok |-> FALSE]

Init ==
    /\ entry = [e \in Entry |-> NoEntry]
    /\ active = Subscription
    /\ dispatch = [d \in Dispatcher |-> Idle]
    /\ circuit = [d \in Dispatcher |-> [failures |-> 0, open |-> FALSE]]
    /\ sent = [e \in Entry |-> {}]
    /\ accepted = {}
    /\ faults = 0

-----------------------------------------------------------------------------
(***************************************************************************)
(* Entries come to be.                                                     *)
(***************************************************************************)

Absent(e) == /\ entry[e].state = "ABSENT"
             /\ Cardinality({f \in Entry : entry[f].state # "ABSENT"}) < MaxStored

\* emit, in the unit of work of the change it announces.
Emit(e, s) ==
    /\ Kind[e] = "event" /\ Absent(e) /\ s \in active
    /\ entry' = [entry EXCEPT ![e] = [NoEntry EXCEPT !.state = "UNCOMMITTED", !.sub = s]]
    /\ UNCHANGED <<active, dispatch, circuit, sent, accepted, faults>>

\* enqueue, with the change that made a step ready: the entry is one activation of it
\* (dedup_key), which is queued once.
Enqueue(e) ==
    /\ Kind[e] = "mail" /\ Absent(e)
    /\ entry' = [entry EXCEPT ![e] = [NoEntry EXCEPT !.state = "UNCOMMITTED"]]
    /\ UNCHANGED <<active, dispatch, circuit, sent, accepted, faults>>

Commit(e) ==
    /\ entry[e].state = "UNCOMMITTED"
    /\ entry' = [entry EXCEPT ![e].state = "PENDING", ![e].due = TRUE]
    /\ UNCHANGED <<active, dispatch, circuit, sent, accepted, faults>>

RollBack(e) ==
    /\ entry[e].state = "UNCOMMITTED"
    /\ entry' = [entry EXCEPT ![e] = NoEntry]
    /\ UNCHANGED <<active, dispatch, circuit, sent, accepted, faults>>

\* push_once, test_delivery: stored already reserved (_reserve_new).
DeliverNow(d, e, s) ==
    /\ dispatch[d].at = "idle" /\ Absent(e) /\ Kind[e] \in {"push", "test"}
    /\ s \in IF Kind[e] = "push" THEN {None} ELSE active
    /\ entry' = [entry EXCEPT ![e] = Claimed([NoEntry EXCEPT !.state = "PENDING", !.sub = s])]
    /\ dispatch' = [dispatch EXCEPT ![d] =
           [at |-> IF Kind[e] = "push" /\ circuit[d].open THEN "refused" ELSE "sending",
            entry |-> e, attempt |-> 1, ok |-> FALSE]]
    /\ UNCHANGED <<active, circuit, sent, accepted, faults>>

\* The subscription goes, and with it every entry of it that could still be sent.
Unsubscribe(s) ==
    /\ s \in active
    /\ active' = active \ {s}
    /\ entry' = [e \in Entry |-> IF entry[e].sub = s /\ IsOpen(entry[e])
                                 THEN Settled(entry[e], "DISCARDED") ELSE entry[e]]
    /\ UNCHANGED <<dispatch, circuit, sent, accepted, faults>>

-----------------------------------------------------------------------------
(***************************************************************************)
(* dispatch_pending.                                                       *)
(***************************************************************************)

\* claim_entry.
Reserve(d, e) ==
    /\ dispatch[d].at = "idle" /\ Claimable(entry[e])
    /\ entry' = [entry EXCEPT ![e] = Claimed(@)]
    /\ dispatch' = [dispatch EXCEPT ![d] =
           [at |-> "reserved", entry |-> e, attempt |-> Claimed(entry[e]).attempts, ok |-> FALSE]]
    /\ UNCHANGED <<active, circuit, sent, accepted, faults>>

\* An entry of a host whose circuit is open is skipped.
Claim(d, e) == Kind[e] # "mail" /\ ~circuit[d].open /\ Reserve(d, e)

ClaimMail(d, e) == Kind[e] = "mail" /\ Reserve(d, e)

\* finish_entry: x is stored if d still holds its reservation, and dropped otherwise.
Finish(d, x) ==
    LET e == dispatch[d].entry IN
    /\ entry' = IF Held(entry[e], dispatch[d].attempt) THEN [entry EXCEPT ![e] = x] ELSE entry
    /\ dispatch' = [dispatch EXCEPT ![d] = Idle]

Overdrawn(d) == dispatch[d].attempt > Budget(dispatch[d].entry)

\* _bury_abandoned.
Bury(d) ==
    LET e == dispatch[d].entry IN
    /\ dispatch[d].at = "reserved" /\ Overdrawn(d)
    /\ Finish(d, [Settled(entry[e], "DEAD") EXCEPT !.attempts = Budget(e)])
    /\ UNCHANGED <<active, circuit, sent, accepted, faults>>

Orphan(d) == entry[dispatch[d].entry].sub \notin active \cup {None}

DropOrphan(d) ==
    LET e == dispatch[d].entry IN
    /\ dispatch[d].at = "reserved" /\ ~Overdrawn(d) /\ Orphan(d)
    /\ Finish(d, [Settled(entry[e], "DISCARDED") EXCEPT !.attempts = dispatch[d].attempt - 1])
    /\ UNCHANGED <<active, circuit, sent, accepted, faults>>

Proceed(d) ==
    /\ dispatch[d].at = "reserved" /\ ~Overdrawn(d) /\ ~Orphan(d)
    /\ dispatch' = [dispatch EXCEPT ![d].at = "sending"]
    /\ UNCHANGED <<entry, active, circuit, sent, accepted, faults>>

\* _deliver: the call to the receiver.  It may accept and yet the call may fail.
Send(d) ==
    LET e == dispatch[d].entry IN
    /\ dispatch[d].at = "sending"
    /\ sent' = [sent EXCEPT ![e] = @ \cup {dispatch[d].attempt}]
    /\ \E ok \in BOOLEAN :
           /\ dispatch' = [dispatch EXCEPT ![d].at = "sent", ![d].ok = ok]
           /\ accepted' \in {accepted \cup {e}} \cup (IF ok THEN {} ELSE {accepted})
    /\ UNCHANGED <<entry, active, circuit, faults>>

Outcome(d) ==
    LET e == dispatch[d].entry IN
    IF dispatch[d].ok THEN "DELIVERED"
    ELSE IF dispatch[d].attempt >= Budget(e) THEN "DEAD" ELSE "FAILED"

\* _record_circuit.
Recorded(c, ok) ==
    LET failures == IF c.failures < Threshold THEN c.failures + 1 ELSE Threshold IN
    IF ok THEN [failures |-> 0, open |-> FALSE]
    ELSE [failures |-> failures, open |-> failures >= Threshold]

\* The outcome, kept or dropped, and the circuit breaker.
Record(d) ==
    /\ dispatch[d].at = "sent" /\ Kind[dispatch[d].entry] # "mail"
    /\ Finish(d, Settled(entry[dispatch[d].entry], Outcome(d)))
    /\ circuit' = [circuit EXCEPT ![d] = Recorded(@, dispatch[d].ok)]
    /\ UNCHANGED <<active, sent, accepted, faults>>

\* A mail server has no circuit.
RecordMail(d) ==
    /\ dispatch[d].at = "sent" /\ Kind[dispatch[d].entry] = "mail"
    /\ Finish(d, Settled(entry[dispatch[d].entry], Outcome(d)))
    /\ UNCHANGED <<active, circuit, sent, accepted, faults>>

\* Without a mail server the mail is dropped for good: nothing is sent.
DropMail(d) ==
    /\ dispatch[d].at = "sending" /\ Kind[dispatch[d].entry] = "mail"
    /\ Finish(d, Settled(entry[dispatch[d].entry], "DISCARDED"))
    /\ UNCHANGED <<active, circuit, sent, accepted, faults>>

\* push_once with an open circuit: an attempt that never leaves the process.
Refuse(d) ==
    /\ dispatch[d].at = "refused"
    /\ Finish(d, Settled(entry[dispatch[d].entry], "DEAD"))
    /\ UNCHANGED <<active, circuit, sent, accepted, faults>>

-----------------------------------------------------------------------------
(***************************************************************************)
(* Time and failure.                                                       *)
(***************************************************************************)

\* Mutant: a reservation never runs out, only a back-off does.
TimeUpBackOff(e) == IsOpen(entry[e]) /\ ~entry[e].due /\ ~entry[e].leased

TimeUp(e) == IsOpen(entry[e]) /\ ~entry[e].due

\* The lease covers the delivery and a margin: it runs out on a live holder only if
\* that process stalls.
Stalls(e) == entry[e].leased /\ \E d \in Dispatcher :
                 dispatch[d].entry = e /\ dispatch[d].attempt = entry[e].attempts

TimePasses(e) ==
    /\ TimeUp(e) /\ ~Stalls(e)
    /\ entry' = [entry EXCEPT ![e] = Lapse(@)]
    /\ UNCHANGED <<active, dispatch, circuit, sent, accepted, faults>>

Stall(e) ==
    /\ TimeUp(e) /\ Stalls(e)
    /\ faults < MaxFaults /\ faults' = faults + 1
    /\ entry' = [entry EXCEPT ![e] = Lapse(@)]
    /\ UNCHANGED <<active, dispatch, circuit, sent, accepted>>

CoolDown(d) ==
    /\ circuit[d].open
    /\ circuit' = [circuit EXCEPT ![d].open = FALSE]
    /\ UNCHANGED <<entry, active, dispatch, sent, accepted, faults>>

\* A process dies; the breaker of the new one is closed.
Crash(d) ==
    /\ faults < MaxFaults /\ faults' = faults + 1
    /\ dispatch' = [dispatch EXCEPT ![d] = Idle]
    /\ circuit' = [circuit EXCEPT ![d] = [failures |-> 0, open |-> FALSE]]
    /\ UNCHANGED <<entry, active, sent, accepted>>

Work(d) == \/ Bury(d) \/ DropOrphan(d) \/ Proceed(d) \/ Send(d) \/ Record(d) \/ Refuse(d)
           \/ RecordMail(d) \/ DropMail(d)

Next ==
    \/ \E e \in Entry : Enqueue(e) \/ Commit(e) \/ RollBack(e) \/ TimePasses(e) \/ Stall(e)
    \/ \E e \in Entry, s \in Subscription : Emit(e, s)
    \/ \E d \in Dispatcher, e \in Entry, s \in Subscription \cup {None} : DeliverNow(d, e, s)
    \/ \E s \in Subscription : Unsubscribe(s)
    \/ \E d \in Dispatcher, e \in Entry : Claim(d, e) \/ ClaimMail(d, e)
    \/ \E d \in Dispatcher : Work(d) \/ CoolDown(d) \/ Crash(d)

Spec == Init /\ [][Next]_vars

\* A live process finishes a delivery, time passes, and dispatches keep coming.  They
\* run behind commits that announce an event or make a step ready (api._emit_event,
\* api._notify_ready) and, for mails, at an administrator's word: on a system that has
\* fallen silent the last assumption does not hold.
FairSpec ==
    /\ Spec
    /\ \A d \in Dispatcher : WF_vars(Work(d)) /\ WF_vars(CoolDown(d))
    /\ \A e \in Entry : WF_vars(TimePasses(e)) /\ SF_vars(\E d \in Dispatcher : Claim(d, e) \/ ClaimMail(d, e))

-----------------------------------------------------------------------------
(***************************************************************************)
(* Properties.                                                             *)
(***************************************************************************)

TypeOK ==
    /\ entry \in [Entry -> EntryRecord]
    /\ active \subseteq Subscription
    /\ dispatch \in [Dispatcher -> DispatchRecord]
    /\ circuit \in [Dispatcher -> [failures : 0..Threshold, open : BOOLEAN]]
    /\ sent \in [Entry -> SUBSET Nat]
    /\ accepted \subseteq Entry
    /\ faults \in 0..MaxFaults

Underway(d) == dispatch[d].at \in {"reserved", "sending"}

\* "One delivery per lease": no two dispatchers are about to make the same attempt of
\* an entry, and none is about to make one that was made before, whatever leases have
\* run out and whichever process has died.
OneDeliveryPerLease ==
    \A c \in Dispatcher : Underway(c) =>
        /\ dispatch[c].attempt \notin sent[dispatch[c].entry]
        /\ \A d \in Dispatcher \ {c} :
              Underway(d) /\ dispatch[d].entry = dispatch[c].entry
                  => dispatch[d].attempt # dispatch[c].attempt

Fate(e) == CASE entry[e].state \in {"ABSENT", "UNCOMMITTED"} -> "none"
             [] IsOpen(entry[e]) -> "open"
             [] entry[e].state = "DELIVERED" -> "delivered"
             [] entry[e].state = "DEAD" -> "dead"
             [] entry[e].state = "DISCARDED" -> "discarded"

Promise == INSTANCE EventDelivery
           WITH BudgetOf <- Budget, fate <- [e \in Entry |-> Fate(e)], made <- sent

\* The dispatchers implement the promise of EventDelivery: attempts within the budget,
\* delivered only if accepted, a sealed fate is final -- a late outcome of a reservation
\* that was taken over, or of a subscription that is gone, changes nothing.
PromiseKept == Promise!Spec

\* Every stored entry is delivered, given up or discarded in the end: no lost lease,
\* open circuit or dead process leaves one behind.
EntryClosed == \A e \in Entry : IsOpen(entry[e]) ~> entry[e].state \in ClosedStates
=============================================================================
