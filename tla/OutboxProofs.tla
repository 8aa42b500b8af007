---------------------------- MODULE OutboxProofs ----------------------------
(***************************************************************************)
(* Outbox for any number of entries, dispatchers, attempts and faults: its *)
(* types, one delivery for each lease, and the promise of EventDelivery.   *)
(***************************************************************************)
EXTENDS Outbox, TLAPS

Stored(x) == x.state \notin {"ABSENT", "UNCOMMITTED"}

Working(d) == dispatch[d].at # "idle"

\* A dispatcher works on a stored entry, and an attempt it is about to make is within
\* the budget.
Reservations ==
    \A d \in Dispatcher : Working(d) =>
        /\ dispatch[d].entry \in Entry
        /\ Stored(entry[dispatch[d].entry])
        /\ dispatch[d].attempt >= 1
        /\ dispatch[d].at = "sending" => dispatch[d].attempt <= Budget(dispatch[d].entry)
        /\ dispatch[d].at = "sent" /\ dispatch[d].ok => dispatch[d].entry \in accepted

\* While an entry is open its counter is ahead of every attempt made or reserved.
Counted ==
    \A e \in Entry : IsOpen(entry[e]) =>
        /\ \A n \in sent[e] : n <= entry[e].attempts
        /\ \A d \in Dispatcher : Working(d) /\ dispatch[d].entry = e
               => dispatch[d].attempt <= entry[e].attempts

Unsent == \A e \in Entry : ~Stored(entry[e]) => sent[e] = {}

WithinBudget == \A e \in Entry : sent[e] \subseteq 1..Budget(e)

\* OneDeliveryPerLease is inductive only with the counter: a new reservation takes a
\* number nobody has because the stored counter is ahead of all of them.
IInv == /\ TypeOK /\ Reservations /\ Counted /\ Unsent /\ WithinBudget
        /\ OneDeliveryPerLease

-----------------------------------------------------------------------------
LEMMA BudgetType == \A e \in Entry : Budget(e) \in Nat /\ Budget(e) >= 1
  BY OutboxTypes DEF Budget

\* What the store does with an entry keeps it one.
LEMMA EntryTypes ==
  ASSUME NEW x \in EntryRecord
  PROVE  /\ Claimed(x) \in EntryRecord
         /\ Lapse(x) \in EntryRecord
         /\ \A f \in OpenStates \cup ClosedStates : Settled(x, f) \in EntryRecord
         /\ \A n \in Nat, f \in ClosedStates : [Settled(x, f) EXCEPT !.attempts = n] \in EntryRecord
<1>1. Claimed(x) \in EntryRecord
  <2>1. x.attempts \in Nat /\ x.attempts + 1 \in Nat
    BY DEF EntryRecord
  <2> DEFINE n == x.attempts + 1
  <2>2. \A k \in Nat : [x EXCEPT !.attempts = k, !.leased = TRUE, !.due = FALSE] \in EntryRecord
    BY DEF EntryRecord
  <2>3. [x EXCEPT !.attempts = n, !.leased = TRUE, !.due = FALSE] \in EntryRecord
    BY <2>1, <2>2
  <2> QED BY <2>3, Zenon DEF Claimed
<1>2. Lapse(x) \in EntryRecord
  BY DEF EntryRecord, Lapse
<1>3. ASSUME NEW f \in OpenStates \cup ClosedStates
      PROVE  Settled(x, f) \in EntryRecord
  BY DEF EntryRecord, Settled
<1>4. ASSUME NEW n \in Nat, NEW f \in ClosedStates
      PROVE  [Settled(x, f) EXCEPT !.attempts = n] \in EntryRecord
  BY DEF EntryRecord, Settled
<1> QED BY <1>1, <1>2, <1>3, <1>4

\* What the store does with an entry, field by field.
LEMMA EntryFields ==
  ASSUME NEW x \in EntryRecord
  PROVE  /\ Claimed(x).state = x.state /\ Claimed(x).attempts = x.attempts + 1
         /\ Lapse(x).state = x.state /\ Lapse(x).attempts = x.attempts
         /\ \A f \in OpenStates \cup ClosedStates :
               Settled(x, f).state = f /\ Settled(x, f).attempts = x.attempts
         /\ \A n \in Nat, f \in ClosedStates : [Settled(x, f) EXCEPT !.attempts = n].state = f
<1>1. Claimed(x).state = x.state /\ Claimed(x).attempts = x.attempts + 1
  BY DEF EntryRecord, Claimed
<1>2. Lapse(x).state = x.state /\ Lapse(x).attempts = x.attempts
  BY DEF EntryRecord, Lapse
<1>3. ASSUME NEW f \in OpenStates \cup ClosedStates
      PROVE  Settled(x, f).state = f /\ Settled(x, f).attempts = x.attempts
  BY DEF EntryRecord, Settled
<1>4. ASSUME NEW n \in Nat, NEW f \in ClosedStates
      PROVE  [Settled(x, f) EXCEPT !.attempts = n].state = f
  BY DEF EntryRecord, Settled
<1> QED BY <1>1, <1>2, <1>3, <1>4

LEMMA NoEntryType == /\ NoEntry \in EntryRecord /\ NoEntry.state = "ABSENT"
                     /\ NoEntry.attempts = 0
  BY DEF NoEntry, EntryRecord

LEMMA InitIInv == Init => IInv
<1> SUFFICES ASSUME Init PROVE IInv
  OBVIOUS
<1>1. TypeOK
  <2>1. Idle \in DispatchRecord
    BY DEF Idle, DispatchRecord
  <2> QED BY <2>1, NoEntryType, OutboxTypes DEF Init, TypeOK
<1>2. \A d \in Dispatcher : dispatch[d].at = "idle"
  BY DEF Init, Idle
<1>3. \A e \in Entry : entry[e].state = "ABSENT" /\ sent[e] = {}
  BY NoEntryType DEF Init
<1> QED
  BY <1>1, <1>2, <1>3 DEF IInv, Reservations, Counted, Unsent, WithinBudget,
     OneDeliveryPerLease, Working, Underway, IsOpen, OpenStates

-----------------------------------------------------------------------------
(***************************************************************************)
(* Every step keeps the invariant.                                         *)
(***************************************************************************)

\* A stored entry that keeps its state (a lapse), while everything else stays.
LEMMA LapseKeeps ==
  ASSUME IInv, NEW e \in Entry, IsOpen(entry[e]),
         entry' = [entry EXCEPT ![e] = Lapse(@)],
         UNCHANGED <<active, dispatch, circuit, sent, accepted>>, faults' \in 0..MaxFaults
  PROVE  IInv'
<1>1. TypeOK'
  BY EntryTypes DEF IInv, TypeOK
<1>2. \A i \in Entry : /\ entry'[i].state = entry[i].state
                       /\ entry'[i].attempts = entry[i].attempts
  BY EntryFields DEF IInv, TypeOK
<1>3. Reservations' /\ Counted' /\ Unsent' /\ WithinBudget' /\ OneDeliveryPerLease'
  BY <1>2 DEF IInv, TypeOK, Reservations, Counted, Unsent, WithinBudget, OneDeliveryPerLease,
     Working, Underway, Stored, IsOpen
<1> QED BY <1>1, <1>3 DEF IInv

\* finish_entry, whatever is to be stored: the reservation is given back.
LEMMA FinishKeeps ==
  ASSUME IInv, NEW d \in Dispatcher, Working(d), NEW x \in EntryRecord, Finish(d, x),
         Stored(x), IsOpen(x) => x.attempts = dispatch[d].attempt,
         circuit' \in [Dispatcher -> [failures : 0..Threshold, open : BOOLEAN]],
         UNCHANGED <<active, sent, accepted, faults>>
  PROVE  IInv'
<1> DEFINE e == dispatch[d].entry
<1>1. e \in Entry /\ Stored(entry[e])
  BY DEF IInv, Reservations
<1>2. TypeOK'
  BY <1>1 DEF IInv, TypeOK, Finish, Idle, DispatchRecord
<1>3. \A c \in Dispatcher : /\ c # d => dispatch'[c] = dispatch[c]
                            /\ c = d => dispatch'[c].at = "idle"
  BY DEF IInv, TypeOK, Finish, Idle
<1>4. \A i \in Entry : \/ entry'[i] = entry[i]
                       \/ i = e /\ entry'[i] = x /\ Held(entry[e], dispatch[d].attempt)
  BY <1>1 DEF IInv, TypeOK, Finish
<1>5. Reservations'
  BY <1>3, <1>4 DEF IInv, Reservations, Working, Stored
<1>6. Counted'
  <2> SUFFICES ASSUME NEW i \in Entry, IsOpen(entry'[i])
               PROVE  /\ \A n \in sent[i] : n <= entry'[i].attempts
                      /\ \A c \in Dispatcher : Working(c)' /\ dispatch'[c].entry = i
                             => dispatch'[c].attempt <= entry'[i].attempts
    BY DEF Counted
  <2>1. IsOpen(entry[i]) /\ entry'[i].attempts = entry[i].attempts
    BY <1>4 DEF Held
  <2> QED BY <2>1, <1>3 DEF IInv, Counted, Working
<1>7. Unsent' /\ WithinBudget'
  BY <1>1, <1>4 DEF IInv, Unsent, WithinBudget, Stored
<1>8. OneDeliveryPerLease'
  BY <1>3 DEF IInv, OneDeliveryPerLease, Underway
<1> QED BY <1>2, <1>5, <1>6, <1>7, <1>8 DEF IInv

\* The actions before anything is sent: nobody works on an entry that is not stored.
LEMMA BirthKeeps ==
  ASSUME IInv, NEW e \in Entry, ~Stored(entry[e]), NEW x \in EntryRecord,
         entry' = [entry EXCEPT ![e] = x],
         UNCHANGED <<active, dispatch, circuit, sent, accepted, faults>>
  PROVE  IInv'
<1>1. TypeOK'
  BY DEF IInv, TypeOK
<1>2. sent[e] = {} /\ \A d \in Dispatcher : Working(d) => dispatch[d].entry # e
  BY DEF IInv, Unsent, Reservations
<1>3. \A i \in Entry : i # e => entry'[i] = entry[i]
  BY DEF IInv, TypeOK
<1>4. Reservations' /\ Counted' /\ Unsent' /\ WithinBudget' /\ OneDeliveryPerLease'
  BY <1>2, <1>3 DEF IInv, TypeOK, Reservations, Counted, Unsent, WithinBudget,
     OneDeliveryPerLease, Working, Underway, Stored
<1> QED BY <1>1, <1>4 DEF IInv

LEMMA DeliverNowKeeps ==
  ASSUME IInv, NEW d \in Dispatcher, NEW e \in Entry, NEW s \in Subscription \cup {None},
         DeliverNow(d, e, s)
  PROVE  IInv'
<1> DEFINE y == [NoEntry EXCEPT !.state = "PENDING", !.sub = s]
           x == Claimed(y)
<1>1. x \in EntryRecord /\ x.state = "PENDING" /\ x.attempts = 1
  <2>1. y \in EntryRecord /\ y.state = "PENDING" /\ y.attempts = 0
    BY DEF NoEntry, EntryRecord, OpenStates
  <2> HIDE DEF y
  <2> QED BY <2>1, EntryTypes, EntryFields
<1>2. /\ entry[e].state = "ABSENT" /\ entry' = [entry EXCEPT ![e] = x]
      /\ UNCHANGED <<active, circuit, sent, accepted, faults>>
      /\ dispatch[d].at = "idle"
  BY DEF DeliverNow, Absent
<1>3. /\ dispatch'[d].at \in {"refused", "sending"} /\ dispatch'[d].entry = e
      /\ dispatch'[d].attempt = 1 /\ dispatch'[d] \in DispatchRecord
      /\ \A c \in Dispatcher : c # d => dispatch'[c] = dispatch[c]
      /\ dispatch' \in [Dispatcher -> DispatchRecord]
  BY DEF DeliverNow, DispatchRecord, IInv, TypeOK
<1>4. TypeOK'
  BY <1>1, <1>2, <1>3 DEF IInv, TypeOK
<1>5. sent[e] = {} /\ \A c \in Dispatcher : Working(c) => dispatch[c].entry # e
  BY <1>2 DEF IInv, Unsent, Reservations, Stored
<1>6. /\ entry'[e].state = "PENDING" /\ entry'[e].attempts = 1
      /\ \A i \in Entry : i # e => entry'[i] = entry[i]
  BY <1>1, <1>2 DEF IInv, TypeOK
<1>7. Reservations'
  <2> SUFFICES ASSUME NEW c \in Dispatcher, Working(c)'
               PROVE  Reservations!(c)!2'
    BY DEF Reservations
  <2> QED BY <1>2, <1>3, <1>6, BudgetType DEF IInv, Reservations, Working, Stored
<1>8. Counted'
  BY <1>2, <1>3, <1>5, <1>6 DEF IInv, Counted, Working
<1>9. Unsent' /\ WithinBudget'
  BY <1>2, <1>6 DEF IInv, Unsent, WithinBudget, Stored
<1>10. OneDeliveryPerLease'
  BY <1>2, <1>3, <1>5 DEF IInv, OneDeliveryPerLease, Underway, Working
<1> QED BY <1>4, <1>7, <1>8, <1>9, <1>10 DEF IInv

\* A new reservation takes the next number, which nobody has.
LEMMA ReserveKeeps ==
  ASSUME IInv, NEW d \in Dispatcher, NEW e \in Entry, Reserve(d, e)
  PROVE  IInv'
<1> DEFINE n == entry[e].attempts + 1
<1>1. /\ entry'[e].state = entry[e].state /\ entry'[e].attempts = n
      /\ entry' \in [Entry -> EntryRecord]
      /\ \A i \in Entry : i # e => entry'[i] = entry[i]
      /\ n \in Nat /\ n >= 1
  <2>1. entry[e] \in EntryRecord /\ entry[e].attempts \in Nat
    BY DEF IInv, TypeOK, EntryRecord
  <2>2. Claimed(entry[e]) \in EntryRecord
    BY <2>1, EntryTypes
  <2> QED BY <2>1, <2>2, EntryFields DEF Reserve, IInv, TypeOK
<1>2. /\ dispatch' = [dispatch EXCEPT ![d] =
             [at |-> "reserved", entry |-> e, attempt |-> n, ok |-> FALSE]]
      /\ dispatch[d].at = "idle" /\ IsOpen(entry[e])
      /\ UNCHANGED <<active, circuit, sent, accepted, faults>>
  <2>1. entry[e] \in EntryRecord
    BY DEF IInv, TypeOK
  <2> QED BY <2>1, EntryFields DEF Reserve, Claimable
<1>3. TypeOK'
  BY <1>1, <1>2 DEF IInv, TypeOK, DispatchRecord
<1>4. /\ dispatch'[d].at = "reserved" /\ dispatch'[d].entry = e /\ dispatch'[d].attempt = n
      /\ \A c \in Dispatcher : c # d => dispatch'[c] = dispatch[c]
  BY <1>2 DEF IInv, TypeOK
<1>5. /\ \A k \in sent[e] : k \in Nat /\ k < n
      /\ \A c \in Dispatcher : Working(c) /\ dispatch[c].entry = e
             => dispatch[c].attempt \in Nat /\ dispatch[c].attempt < n
  BY <1>2 DEF IInv, TypeOK, Counted, DispatchRecord, EntryRecord
<1>6. Reservations'
  BY <1>1, <1>2, <1>4 DEF IInv, Reservations, Working, Stored, IsOpen, OpenStates
<1>7. Counted'
  <2> SUFFICES ASSUME NEW i \in Entry, IsOpen(entry'[i])
               PROVE  /\ \A k \in sent[i] : k <= entry'[i].attempts
                      /\ \A c \in Dispatcher : Working(c)' /\ dispatch'[c].entry = i
                             => dispatch'[c].attempt <= entry'[i].attempts
    BY <1>2 DEF Counted
  <2>1. CASE i = e
    BY <2>1, <1>1, <1>4, <1>5 DEF Working
  <2>2. CASE i # e
    BY <2>2, <1>1, <1>4 DEF IInv, Counted, Working
  <2> QED BY <2>1, <2>2
<1>8. Unsent' /\ WithinBudget'
  BY <1>1, <1>2 DEF IInv, Unsent, WithinBudget, Stored
<1>9. OneDeliveryPerLease'
  <2> SUFFICES ASSUME NEW c \in Dispatcher, Underway(c)'
               PROVE  /\ dispatch'[c].attempt \notin sent[dispatch'[c].entry]
                      /\ \A b \in Dispatcher \ {c} :
                            Underway(b)' /\ dispatch'[b].entry = dispatch'[c].entry
                                => dispatch'[b].attempt # dispatch'[c].attempt
    BY <1>2 DEF OneDeliveryPerLease
  <2>1. CASE c = d
    BY <2>1, <1>4, <1>5 DEF Underway, Working
  <2>2. CASE c # d
    <3>1. Underway(c) /\ dispatch'[c] = dispatch[c]
      BY <2>2, <1>4 DEF Underway
    <3>2. dispatch[c].attempt \notin sent[dispatch[c].entry]
      BY <3>1 DEF IInv, OneDeliveryPerLease
    <3>3. ASSUME NEW b \in Dispatcher \ {c}, Underway(b)', dispatch'[b].entry = dispatch'[c].entry
          PROVE  dispatch'[b].attempt # dispatch'[c].attempt
      <4>1. CASE b = d
        BY <4>1, <3>1, <3>3, <1>4, <1>5 DEF Underway, Working
      <4>2. CASE b # d
        BY <4>2, <3>1, <3>3, <1>4 DEF IInv, OneDeliveryPerLease, Underway
      <4> QED BY <4>1, <4>2
    <3> QED BY <3>1, <3>2, <3>3
  <2> QED BY <2>1, <2>2
<1> QED BY <1>3, <1>6, <1>7, <1>8, <1>9 DEF IInv

LEMMA SendKeeps ==
  ASSUME IInv, NEW d \in Dispatcher, Send(d)
  PROVE  IInv'
<1> DEFINE e == dispatch[d].entry
           n == dispatch[d].attempt
<1>1. /\ dispatch[d].at = "sending" /\ sent' = [sent EXCEPT ![e] = @ \cup {n}]
      /\ UNCHANGED <<entry, active, circuit, faults>>
      /\ e \in Entry /\ Stored(entry[e]) /\ n \in Nat /\ n >= 1 /\ n <= Budget(e)
      /\ IsOpen(entry[e]) => n <= entry[e].attempts
  BY DEF Send, IInv, Reservations, Counted, Working, TypeOK, DispatchRecord
<1>2. PICK ok \in BOOLEAN :
         /\ dispatch' = [dispatch EXCEPT ![d].at = "sent", ![d].ok = ok]
         /\ accepted' \in {accepted \cup {e}} \cup (IF ok THEN {} ELSE {accepted})
  BY DEF Send
<1>3. /\ dispatch'[d].at = "sent" /\ dispatch'[d].ok = ok
      /\ dispatch'[d].entry = e /\ dispatch'[d].attempt = n
      /\ \A c \in Dispatcher : c # d => dispatch'[c] = dispatch[c]
      /\ dispatch' \in [Dispatcher -> DispatchRecord]
  <2> DEFINE r == [dispatch[d] EXCEPT !.at = "sent", !.ok = ok]
  <2>1. dispatch \in [Dispatcher -> DispatchRecord] /\ dispatch[d] \in DispatchRecord
    BY DEF IInv, TypeOK
  <2>2. r \in DispatchRecord /\ r.at = "sent" /\ r.ok = ok /\ r.entry = e /\ r.attempt = n
    BY <2>1 DEF DispatchRecord
  <2>3. dispatch' = [dispatch EXCEPT ![d] = r]
    BY <2>1, <1>2
  <2> HIDE DEF r
  <2> QED BY <2>1, <2>2, <2>3
<1>4. accepted \subseteq accepted' /\ accepted' \subseteq Entry /\ (ok => e \in accepted')
  BY <1>1, <1>2 DEF IInv, TypeOK
<1>5. TypeOK'
  BY <1>1, <1>3, <1>4 DEF IInv, TypeOK
<1>6. Reservations'
  BY <1>1, <1>3, <1>4 DEF IInv, Reservations, Working
<1>7. /\ sent'[e] = sent[e] \cup {n}
      /\ \A i \in Entry : i # e => sent'[i] = sent[i]
  BY <1>1 DEF IInv, TypeOK
<1>8. Counted'
  BY <1>1, <1>3, <1>7 DEF IInv, Counted, Working
<1>9. Unsent' /\ WithinBudget'
  BY <1>1, <1>7, BudgetType DEF IInv, Unsent, WithinBudget
<1>10. OneDeliveryPerLease'
  <2> SUFFICES ASSUME NEW c \in Dispatcher, Underway(c)'
               PROVE  /\ dispatch'[c].attempt \notin sent'[dispatch'[c].entry]
                      /\ \A b \in Dispatcher \ {c} :
                            Underway(b)' /\ dispatch'[b].entry = dispatch'[c].entry
                                => dispatch'[b].attempt # dispatch'[c].attempt
    BY DEF OneDeliveryPerLease
  <2>1. c # d /\ Underway(c) /\ dispatch'[c] = dispatch[c] /\ Underway(d)
    BY <1>1, <1>3 DEF Underway
  <2>2. /\ dispatch[c].attempt \notin sent[dispatch[c].entry]
        /\ dispatch[c].entry = e => dispatch[c].attempt # n
    BY <2>1 DEF IInv, OneDeliveryPerLease
  <2>3. dispatch[c].entry \in Entry
    BY <2>1 DEF IInv, Reservations, Working, Underway
  <2>4. dispatch'[c].attempt \notin sent'[dispatch'[c].entry]
    BY <2>1, <2>2, <2>3, <1>7
  <2>5. ASSUME NEW b \in Dispatcher \ {c}, Underway(b)', dispatch'[b].entry = dispatch'[c].entry
        PROVE  dispatch'[b].attempt # dispatch'[c].attempt
    BY <2>1, <2>5, <1>3 DEF IInv, OneDeliveryPerLease, Underway
  <2> QED BY <2>4, <2>5
<1> QED BY <1>5, <1>6, <1>8, <1>9, <1>10 DEF IInv

LEMMA UnsubscribeKeeps ==
  ASSUME IInv, NEW s \in Subscription, Unsubscribe(s)
  PROVE  IInv'
<1>1. \A i \in Entry : \/ entry'[i] = entry[i]
                       \/ IsOpen(entry[i]) /\ entry'[i] = Settled(entry[i], "DISCARDED")
  BY DEF Unsubscribe
<1>2. \A i \in Entry : Settled(entry[i], "DISCARDED") \in EntryRecord
  BY EntryTypes DEF IInv, TypeOK, ClosedStates
<1>3. \A i \in Entry : Settled(entry[i], "DISCARDED").state = "DISCARDED"
  BY EntryFields DEF IInv, TypeOK, ClosedStates
<1>4. TypeOK'
  <2>1. entry' \in [Entry -> EntryRecord]
    BY <1>2 DEF Unsubscribe, IInv, TypeOK
  <2> QED BY <2>1 DEF Unsubscribe, IInv, TypeOK
<1>5. UNCHANGED <<dispatch, circuit, sent, accepted, faults>>
  BY DEF Unsubscribe
<1>6. \A i \in Entry : /\ IsOpen(entry'[i]) => entry'[i] = entry[i]
                       /\ Stored(entry'[i]) <=> Stored(entry[i])
  BY <1>1, <1>3 DEF IsOpen, OpenStates, Stored
<1>7. Reservations' /\ Counted' /\ Unsent' /\ WithinBudget' /\ OneDeliveryPerLease'
  BY <1>5, <1>6 DEF IInv, Reservations, Counted, Unsent, WithinBudget, OneDeliveryPerLease,
     Working, Underway
<1> QED BY <1>4, <1>7 DEF IInv

\* The steps of one dispatcher that change no stored entry and send nothing.
LEMMA QuietKeeps ==
  ASSUME IInv, NEW d \in Dispatcher, NEW r \in DispatchRecord,
         dispatch' = [dispatch EXCEPT ![d] = r],
         \/ r.at = "idle"
         \/ /\ dispatch[d].at = "reserved" /\ r.at = "sending" /\ r.entry = dispatch[d].entry
            /\ r.attempt = dispatch[d].attempt /\ r.attempt <= Budget(r.entry),
         circuit' \in [Dispatcher -> [failures : 0..Threshold, open : BOOLEAN]],
         faults' \in 0..MaxFaults,
         UNCHANGED <<entry, active, sent, accepted>>
  PROVE  IInv'
<1>1. dispatch'[d] = r /\ \A c \in Dispatcher : c # d => dispatch'[c] = dispatch[c]
  BY DEF IInv, TypeOK
<1>2. TypeOK'
  BY DEF IInv, TypeOK
<1>3. \A c \in Dispatcher : Working(c)' =>
         /\ Working(c) /\ dispatch'[c].entry = dispatch[c].entry
         /\ dispatch'[c].attempt = dispatch[c].attempt
         /\ Underway(c)' => Underway(c)
  BY <1>1 DEF Working, Underway
<1>4. Reservations'
  BY <1>1 DEF IInv, Reservations, Working
<1>5. Counted' /\ Unsent' /\ WithinBudget'
  BY <1>3 DEF IInv, Counted, Unsent, WithinBudget
<1>6. OneDeliveryPerLease'
  <2>1. \A c \in Dispatcher : Underway(c)' => Working(c)'
    BY DEF Underway, Working
  <2> QED BY <1>3, <2>1 DEF IInv, OneDeliveryPerLease
<1> QED BY <1>2, <1>4, <1>5, <1>6 DEF IInv

LEMMA RecordedType ==
  ASSUME NEW c \in [failures : 0..Threshold, open : BOOLEAN], NEW ok \in BOOLEAN
  PROVE  Recorded(c, ok) \in [failures : 0..Threshold, open : BOOLEAN]
  BY OutboxTypes DEF Recorded

THEOREM StepIInv == IInv /\ [Next]_vars => IInv'
<1> SUFFICES ASSUME IInv, [Next]_vars PROVE IInv'
  OBVIOUS
<1>0. TypeOK
  BY DEF IInv
<1>1. CASE UNCHANGED vars
  BY <1>1 DEF vars, IInv, TypeOK, Reservations, Counted, Unsent, WithinBudget,
     OneDeliveryPerLease, Working, Underway
<1>2. ASSUME NEW e \in Entry, Commit(e) PROVE IInv'
  <2>1. [entry[e] EXCEPT !.state = "PENDING", !.due = TRUE] \in EntryRecord
    BY <1>0 DEF TypeOK, EntryRecord, OpenStates
  <2>2. entry' = [entry EXCEPT ![e] = [entry[e] EXCEPT !.state = "PENDING", !.due = TRUE]]
    BY <1>2, <1>0 DEF Commit, TypeOK
  <2> QED BY <1>2, <2>1, <2>2, BirthKeeps DEF Commit, Stored
<1>3. ASSUME NEW e \in Entry, RollBack(e) PROVE IInv'
  BY <1>3, NoEntryType, BirthKeeps DEF RollBack, Stored
<1>4. ASSUME NEW e \in Entry, NEW s \in Subscription, Emit(e, s) PROVE IInv'
  <2> DEFINE x == [NoEntry EXCEPT !.state = "UNCOMMITTED", !.sub = s]
  <2>1. x \in EntryRecord
    BY DEF NoEntry, EntryRecord
  <2>2. /\ ~Stored(entry[e]) /\ entry' = [entry EXCEPT ![e] = x]
        /\ UNCHANGED <<active, dispatch, circuit, sent, accepted, faults>>
    BY <1>4 DEF Emit, Absent, Stored
  <2> HIDE DEF x
  <2> QED BY <2>1, <2>2, BirthKeeps
<1>5. ASSUME NEW e \in Entry, TimePasses(e) \/ Stall(e) PROVE IInv'
  <2>1. /\ IsOpen(entry[e]) /\ entry' = [entry EXCEPT ![e] = Lapse(entry[e])]
        /\ UNCHANGED <<active, dispatch, circuit, sent, accepted>>
    BY <1>5 DEF TimePasses, Stall, TimeUp
  <2>2. faults' \in 0..MaxFaults
    BY <1>5, <1>0, OutboxTypes DEF TimePasses, Stall, TypeOK
  <2> QED BY <2>1, <2>2, LapseKeeps
<1>6. ASSUME NEW d \in Dispatcher, Bury(d) PROVE IInv'
  <2> DEFINE e == dispatch[d].entry
             x == [Settled(entry[e], "DEAD") EXCEPT !.attempts = Budget(e)]
  <2>1. Working(d) /\ e \in Entry /\ entry[e] \in EntryRecord /\ Budget(e) \in Nat
    BY <1>6, BudgetType DEF Bury, Working, IInv, Reservations, TypeOK
  <2>2. x \in EntryRecord /\ x.state = "DEAD"
    BY <2>1, EntryTypes, EntryFields DEF ClosedStates
  <2>3. Stored(x) /\ ~IsOpen(x)
    BY <2>2 DEF Stored, IsOpen, OpenStates
  <2>4. Finish(d, x) /\ UNCHANGED <<active, circuit, sent, accepted, faults>>
    BY <1>6 DEF Bury
  <2> HIDE DEF x
  <2> QED BY <1>0, <2>1, <2>2, <2>3, <2>4, FinishKeeps DEF TypeOK
<1>7. ASSUME NEW d \in Dispatcher, DropOrphan(d) PROVE IInv'
  <2> DEFINE e == dispatch[d].entry
             x == [Settled(entry[e], "DISCARDED") EXCEPT !.attempts = dispatch[d].attempt - 1]
  <2>1. /\ Working(d) /\ e \in Entry /\ entry[e] \in EntryRecord
        /\ dispatch[d].attempt - 1 \in Nat
    BY <1>7 DEF DropOrphan, Working, IInv, Reservations, TypeOK, DispatchRecord
  <2>2. x \in EntryRecord /\ x.state = "DISCARDED"
    BY <2>1, EntryTypes, EntryFields DEF ClosedStates
  <2>3. Stored(x) /\ ~IsOpen(x)
    BY <2>2 DEF Stored, IsOpen, OpenStates
  <2>4. Finish(d, x) /\ UNCHANGED <<active, circuit, sent, accepted, faults>>
    BY <1>7 DEF DropOrphan
  <2> HIDE DEF x
  <2> QED BY <1>0, <2>1, <2>2, <2>3, <2>4, FinishKeeps DEF TypeOK
<1>8. ASSUME NEW d \in Dispatcher, Refuse(d) PROVE IInv'
  <2> DEFINE e == dispatch[d].entry
             x == Settled(entry[e], "DEAD")
  <2>1. Working(d) /\ e \in Entry /\ entry[e] \in EntryRecord
    BY <1>8 DEF Refuse, Working, IInv, Reservations, TypeOK
  <2>2. x \in EntryRecord /\ x.state = "DEAD"
    BY <2>1, EntryTypes, EntryFields DEF ClosedStates
  <2>3. Stored(x) /\ ~IsOpen(x)
    BY <2>2 DEF Stored, IsOpen, OpenStates
  <2>4. Finish(d, x) /\ UNCHANGED <<active, circuit, sent, accepted, faults>>
    BY <1>8 DEF Refuse
  <2> HIDE DEF x
  <2> QED BY <1>0, <2>1, <2>2, <2>3, <2>4, FinishKeeps DEF TypeOK
<1>9. ASSUME NEW d \in Dispatcher, Record(d) \/ RecordMail(d) PROVE IInv'
  <2> DEFINE e == dispatch[d].entry
             f == Outcome(d)
             x == Settled(entry[e], f)
  <2>1. Working(d) /\ e \in Entry /\ entry[e] \in EntryRecord
    BY <1>9 DEF Record, RecordMail, Working, IInv, Reservations, TypeOK
  <2>2. f \in {"DELIVERED", "DEAD", "FAILED"}
    BY DEF Outcome
  <2>3. f \in OpenStates \cup ClosedStates
    BY <2>2 DEF OpenStates, ClosedStates
  <2>4. x \in EntryRecord /\ x.state = f /\ x.attempts = entry[e].attempts
    <3> HIDE DEF f
    <3> QED BY <2>1, <2>3, EntryTypes, EntryFields
  <2>5. Stored(x)
    BY <2>2, <2>4 DEF Stored
  <2>6. /\ Finish(d, x) /\ UNCHANGED <<active, sent, accepted, faults>>
        /\ circuit' \in [Dispatcher -> [failures : 0..Threshold, open : BOOLEAN]]
    BY <1>0, <1>9, RecordedType DEF Record, RecordMail, TypeOK, DispatchRecord
  <2> HIDE DEF x
  <2>7. CASE Held(entry[e], dispatch[d].attempt)
    <3>1. x.attempts = dispatch[d].attempt
      BY <2>4, <2>7 DEF Held
    <3> QED BY <2>1, <2>4, <2>5, <2>6, <3>1, FinishKeeps
  <2>8. CASE ~Held(entry[e], dispatch[d].attempt)
    <3>1. /\ entry' = entry /\ dispatch' = [dispatch EXCEPT ![d] = Idle]
          /\ faults' \in 0..MaxFaults
      BY <1>0, <2>6, <2>8 DEF Finish, TypeOK
    <3>2. Idle \in DispatchRecord /\ Idle.at = "idle"
      BY DEF Idle, DispatchRecord
    <3> QED BY <2>6, <3>1, <3>2, QuietKeeps
  <2> QED BY <2>7, <2>8
<1>10. ASSUME NEW d \in Dispatcher, Proceed(d) PROVE IInv'
  <2> DEFINE r == [dispatch[d] EXCEPT !.at = "sending"]
  <2>1. dispatch[d] \in DispatchRecord /\ dispatch[d].entry \in Entry
    BY <1>0, <1>10 DEF TypeOK, Proceed, IInv, Reservations, Working
  <2>2. /\ r \in DispatchRecord /\ r.at = "sending" /\ r.entry = dispatch[d].entry
        /\ r.attempt = dispatch[d].attempt
    BY <2>1 DEF DispatchRecord
  <2>3. /\ dispatch[d].at = "reserved" /\ dispatch' = [dispatch EXCEPT ![d] = r]
        /\ UNCHANGED <<entry, active, circuit, sent, accepted, faults>>
    BY <1>0, <1>10 DEF Proceed, TypeOK
  <2>4. r.attempt <= Budget(r.entry)
    BY <1>10, <2>1, <2>2, BudgetType DEF Proceed, Overdrawn, DispatchRecord
  <2> HIDE DEF r
  <2> QED BY <1>0, <2>2, <2>3, <2>4, QuietKeeps DEF TypeOK
<1>11. ASSUME NEW d \in Dispatcher, CoolDown(d) PROVE IInv'
  BY <1>11 DEF CoolDown, IInv, TypeOK, Reservations, Counted, Unsent, WithinBudget,
     OneDeliveryPerLease, Working, Underway
<1>12. ASSUME NEW d \in Dispatcher, Crash(d) PROVE IInv'
  <2>1. Idle \in DispatchRecord /\ Idle.at = "idle"
    BY DEF Idle, DispatchRecord
  <2>2. /\ circuit' \in [Dispatcher -> [failures : 0..Threshold, open : BOOLEAN]]
        /\ faults' \in 0..MaxFaults
    BY <1>0, <1>12, OutboxTypes DEF Crash, TypeOK
  <2> QED BY <1>12, <2>1, <2>2, QuietKeeps DEF Crash
<1>13. ASSUME NEW e \in Entry, Enqueue(e) PROVE IInv'
  <2> DEFINE x == [NoEntry EXCEPT !.state = "UNCOMMITTED"]
  <2>1. x \in EntryRecord
    BY DEF NoEntry, EntryRecord
  <2>2. /\ ~Stored(entry[e]) /\ entry' = [entry EXCEPT ![e] = x]
        /\ UNCHANGED <<active, dispatch, circuit, sent, accepted, faults>>
    BY <1>13 DEF Enqueue, Absent, Stored
  <2> HIDE DEF x
  <2> QED BY <2>1, <2>2, BirthKeeps
<1>14. ASSUME NEW d \in Dispatcher, DropMail(d) PROVE IInv'
  <2> DEFINE e == dispatch[d].entry
             x == Settled(entry[e], "DISCARDED")
  <2>1. Working(d) /\ e \in Entry /\ entry[e] \in EntryRecord
    BY <1>14 DEF DropMail, Working, IInv, Reservations, TypeOK
  <2>2. x \in EntryRecord /\ x.state = "DISCARDED"
    BY <2>1, EntryTypes, EntryFields DEF ClosedStates
  <2>3. Stored(x) /\ ~IsOpen(x)
    BY <2>2 DEF Stored, IsOpen, OpenStates
  <2>4. Finish(d, x) /\ UNCHANGED <<active, circuit, sent, accepted, faults>>
    BY <1>14 DEF DropMail
  <2> HIDE DEF x
  <2> QED BY <1>0, <2>1, <2>2, <2>3, <2>4, FinishKeeps DEF TypeOK
<1>15. ASSUME NEW d \in Dispatcher, NEW e \in Entry, Claim(d, e) \/ ClaimMail(d, e) PROVE IInv'
  BY <1>15, ReserveKeeps DEF Claim, ClaimMail
<1> QED
  BY <1>1, <1>2, <1>3, <1>4, <1>5, <1>6, <1>7, <1>8, <1>9, <1>10, <1>11, <1>12,
     <1>13, <1>14, <1>15, DeliverNowKeeps, SendKeeps, UnsubscribeKeeps DEF Next, Work

\* IInv holds in every reachable state.
THEOREM Invariant == Spec => []IInv
  BY InitIInv, StepIInv, PTL DEF Spec

\* The stored entries and the dispatchers' records keep their types.
THEOREM TypeCorrect == Spec => []TypeOK
<1>1. IInv => TypeOK
  BY DEF IInv
<1> QED BY <1>1, Invariant, PTL

\* One delivery for each lease, with any number of dispatchers, deaths and stalls.
THEOREM OneDeliveryForEachLease == Spec => []OneDeliveryPerLease
<1>1. IInv => OneDeliveryPerLease
  BY DEF IInv
<1> QED BY <1>1, Invariant, PTL

-----------------------------------------------------------------------------
(***************************************************************************)
(* The promise of EventDelivery.                                           *)
(***************************************************************************)

Fates == [e \in Entry |-> Fate(e)]

LEMMA FateOf ==
  \A e \in Entry : /\ ~Stored(entry[e]) => Fate(e) = "none"
                   /\ IsOpen(entry[e]) => Fate(e) = "open"
                   /\ entry[e].state = "DELIVERED" => Fate(e) = "delivered"
                   /\ entry[e].state = "DEAD" => Fate(e) = "dead"
                   /\ entry[e].state = "DISCARDED" => Fate(e) = "discarded"
  BY DEF Fate, Stored, IsOpen, OpenStates

\* A stored entry has a fate.
LEMMA StoredFate ==
  ASSUME TypeOK, NEW e \in Entry, Stored(entry[e])
  PROVE  Fate(e) # "none"
<1>1. entry[e].state \in OpenStates \cup ClosedStates
  BY DEF TypeOK, EntryRecord, Stored
<1> QED BY <1>1, FateOf DEF IsOpen, OpenStates, ClosedStates

\* The fates depend on the stored states only.
LEMMA SameStates ==
  ASSUME \A i \in Entry : entry'[i].state = entry[i].state
  PROVE  Fates' = Fates
<1>1. ASSUME NEW i \in Entry PROVE Fate(i)' = Fate(i)
  <2>1. entry'[i].state = entry[i].state
    OBVIOUS
  <2> QED BY <2>1 DEF Fate, IsOpen
<1> QED BY <1>1 DEF Fates

\* An entry that was not stored: it opens, or nothing is to be seen.
LEMMA BirthFate ==
  ASSUME TypeOK, NEW e \in Entry, ~Stored(entry[e]), NEW x \in EntryRecord,
         entry' = [entry EXCEPT ![e] = x]
  PROVE  /\ Fates[e] = "none"
         /\ IsOpen(x) => Fates' = [Fates EXCEPT ![e] = "open"]
         /\ ~Stored(x) => Fates' = Fates
<1>1. entry'[e] = x /\ \A i \in Entry : i # e => entry'[i] = entry[i]
  BY DEF TypeOK
<1>2. Fates[e] = "none"
  BY FateOf DEF Fates
<1>3. ASSUME NEW i \in Entry, i # e PROVE Fate(i)' = Fate(i)
  <2>1. entry'[i] = entry[i]
    BY <1>1, <1>3
  <2> QED BY <2>1 DEF Fate
<1>4. IsOpen(x) => Fate(e)' = "open"
  BY <1>1 DEF Fate, IsOpen, OpenStates
<1>5. ~Stored(x) => Fate(e)' = "none"
  <2> SUFFICES ASSUME ~Stored(x) PROVE Fate(e)' = "none"
    OBVIOUS
  <2>1. entry'[e].state \in {"ABSENT", "UNCOMMITTED"}
    BY <1>1 DEF Stored
  <2> QED BY <2>1 DEF Fate, IsOpen, OpenStates
<1> QED BY <1>2, <1>3, <1>4, <1>5 DEF Fates

\* Giving a reservation back closes the entry, or leaves its fate alone.
LEMMA FinishPromise ==
  ASSUME IInv, NEW d \in Dispatcher, Working(d), NEW x \in EntryRecord, Finish(d, x),
         x.state \in ClosedStates \cup {"FAILED"},
         x.state = "DELIVERED" => dispatch[d].entry \in accepted,
         UNCHANGED <<sent, accepted>>
  PROVE  [Promise!Next]_<<Fates, sent, accepted>>
<1>1. PICK e \in Entry : e = dispatch[d].entry
  BY DEF IInv, Reservations
<1>2. CASE entry' = entry
  BY <1>2 DEF Fates, Fate
<1>3. CASE Held(entry[e], dispatch[d].attempt) /\ entry' = [entry EXCEPT ![e] = x]
  <2>1. /\ entry'[e] = x /\ IsOpen(entry[e])
        /\ \A i \in Entry : i # e => entry'[i] = entry[i]
    BY <1>1, <1>3 DEF IInv, TypeOK, Held
  <2>2. \A i \in Entry : i # e => Fate(i)' = Fate(i)
    BY <2>1 DEF Fate
  <2>3. Fate(e) = "open"
    BY <1>1, <2>1, FateOf
  <2>4. /\ x.state = "FAILED" => Fate(e)' = "open"
        /\ x.state = "DELIVERED" => Fate(e)' = "delivered"
        /\ x.state = "DEAD" => Fate(e)' = "dead"
        /\ x.state = "DISCARDED" => Fate(e)' = "discarded"
    BY <2>1 DEF Fate, IsOpen, OpenStates
  <2>5. Fates' = [Fates EXCEPT ![e] = Fate(e)'] /\ Fates[e] = "open"
    BY <1>1, <2>2, <2>3 DEF Fates
  <2>6. CASE x.state = "FAILED"
    BY <2>2, <2>3, <2>4, <2>6 DEF Fates
  <2>7. CASE x.state \in ClosedStates
    <3>1. Fate(e)' \in Promise!Closed /\ (Fate(e)' = "delivered" => e \in accepted)
      BY <1>1, <2>4, <2>7 DEF ClosedStates, Promise!Closed
    <3>2. Promise!Close(e)
      BY <2>5, <3>1 DEF Promise!Close, Fates
    <3> QED BY <1>1, <3>2 DEF Promise!Next
  <2> QED BY <2>6, <2>7
<1> QED BY <1>1, <1>2, <1>3 DEF Finish

LEMMA InitPromise == Init => Promise!Init
  BY NoEntryType, FateOf DEF Init, Promise!Init, Fates, Stored

\* Every step is a step of the promise, or none.
THEOREM StepPromise == IInv /\ [Next]_vars => [Promise!Next]_<<Fates, sent, accepted>>
<1> SUFFICES ASSUME IInv, [Next]_vars PROVE [Promise!Next]_<<Fates, sent, accepted>>
  OBVIOUS
<1>0. TypeOK
  BY DEF IInv
<1>1. CASE UNCHANGED vars
  BY <1>1 DEF vars, Fates, Fate
<1>2. ASSUME NEW e \in Entry, Commit(e) PROVE [Promise!Next]_<<Fates, sent, accepted>>
  <2>1. Fate(e) = "none" /\ Fate(e)' = "open" /\ \A i \in Entry : i # e => Fate(i)' = Fate(i)
    BY <1>0, <1>2 DEF Commit, Fate, TypeOK, EntryRecord, IsOpen, OpenStates
  <2>2. Promise!Announce(e)
    BY <1>2, <2>1 DEF Commit, Promise!Announce, Fates
  <2> QED BY <2>2 DEF Promise!Next
<1>3. ASSUME NEW e \in Entry, RollBack(e) PROVE UNCHANGED <<Fates, sent, accepted>>
  <2>1. ~Stored(entry[e]) /\ ~Stored(NoEntry)
    BY <1>3, NoEntryType DEF RollBack, Stored
  <2> QED BY <1>0, <1>3, <2>1, NoEntryType, BirthFate DEF RollBack
<1>4. ASSUME NEW e \in Entry, NEW s \in Subscription, Emit(e, s)
      PROVE  UNCHANGED <<Fates, sent, accepted>>
  <2> DEFINE x == [NoEntry EXCEPT !.state = "UNCOMMITTED", !.sub = s]
  <2>1. x \in EntryRecord /\ x.state = "UNCOMMITTED"
    BY DEF NoEntry, EntryRecord
  <2>2. ~Stored(entry[e]) /\ entry' = [entry EXCEPT ![e] = x] /\ UNCHANGED <<sent, accepted>>
    BY <1>4 DEF Emit, Absent, Stored
  <2> HIDE DEF x
  <2>3. ~Stored(x)
    BY <2>1 DEF Stored
  <2> QED BY <1>0, <2>1, <2>2, <2>3, BirthFate
<1>5. ASSUME NEW e \in Entry, TimePasses(e) \/ Stall(e) PROVE UNCHANGED <<Fates, sent, accepted>>
  <2>1. \A i \in Entry : entry'[i].state = entry[i].state
    BY <1>0, <1>5, EntryFields DEF TimePasses, Stall, TypeOK
  <2> QED BY <1>5, <2>1, SameStates DEF TimePasses, Stall
<1>6. ASSUME NEW d \in Dispatcher, Bury(d) PROVE [Promise!Next]_<<Fates, sent, accepted>>
  <2> DEFINE x == [Settled(entry[dispatch[d].entry], "DEAD")
                       EXCEPT !.attempts = Budget(dispatch[d].entry)]
  <2>1. /\ Working(d) /\ entry[dispatch[d].entry] \in EntryRecord
        /\ Budget(dispatch[d].entry) \in Nat
    BY <1>6, BudgetType DEF Bury, Working, IInv, Reservations, TypeOK
  <2>2. x \in EntryRecord /\ x.state = "DEAD"
    BY <2>1, EntryTypes, EntryFields DEF ClosedStates
  <2>3. Finish(d, x) /\ UNCHANGED <<sent, accepted>>
    BY <1>6 DEF Bury
  <2> HIDE DEF x
  <2> QED BY <2>1, <2>2, <2>3, FinishPromise DEF ClosedStates
<1>7. ASSUME NEW d \in Dispatcher, DropOrphan(d) PROVE [Promise!Next]_<<Fates, sent, accepted>>
  <2> DEFINE x == [Settled(entry[dispatch[d].entry], "DISCARDED")
                       EXCEPT !.attempts = dispatch[d].attempt - 1]
  <2>1. /\ Working(d) /\ entry[dispatch[d].entry] \in EntryRecord
        /\ dispatch[d].attempt - 1 \in Nat
    BY <1>7 DEF DropOrphan, Working, IInv, Reservations, TypeOK, DispatchRecord
  <2>2. x \in EntryRecord /\ x.state = "DISCARDED"
    BY <2>1, EntryTypes, EntryFields DEF ClosedStates
  <2>3. Finish(d, x) /\ UNCHANGED <<sent, accepted>>
    BY <1>7 DEF DropOrphan
  <2> HIDE DEF x
  <2> QED BY <2>1, <2>2, <2>3, FinishPromise DEF ClosedStates
<1>8. ASSUME NEW d \in Dispatcher, Refuse(d) PROVE [Promise!Next]_<<Fates, sent, accepted>>
  <2> DEFINE x == Settled(entry[dispatch[d].entry], "DEAD")
  <2>1. Working(d) /\ entry[dispatch[d].entry] \in EntryRecord
    BY <1>8 DEF Refuse, Working, IInv, Reservations, TypeOK
  <2>2. x \in EntryRecord /\ x.state = "DEAD"
    BY <2>1, EntryTypes, EntryFields DEF ClosedStates
  <2>3. Finish(d, x) /\ UNCHANGED <<sent, accepted>>
    BY <1>8 DEF Refuse
  <2> HIDE DEF x
  <2> QED BY <2>1, <2>2, <2>3, FinishPromise DEF ClosedStates
<1>9. ASSUME NEW d \in Dispatcher, Record(d) \/ RecordMail(d)
      PROVE  [Promise!Next]_<<Fates, sent, accepted>>
  <2> DEFINE f == Outcome(d)
             x == Settled(entry[dispatch[d].entry], f)
  <2>1. Working(d) /\ dispatch[d].at = "sent" /\ entry[dispatch[d].entry] \in EntryRecord
    BY <1>9 DEF Record, RecordMail, Working, IInv, Reservations, TypeOK
  <2>2. f \in {"DELIVERED", "DEAD", "FAILED"} /\ (f = "DELIVERED" => dispatch[d].ok)
    BY <1>0 DEF Outcome, TypeOK, DispatchRecord
  <2>3. f = "DELIVERED" => dispatch[d].entry \in accepted
    BY <2>1, <2>2 DEF IInv, Reservations
  <2>4. x \in EntryRecord /\ x.state = f
    <3>1. f \in OpenStates \cup ClosedStates
      BY <2>2 DEF OpenStates, ClosedStates
    <3> HIDE DEF f
    <3> QED BY <2>1, <3>1, EntryTypes, EntryFields
  <2>5. Finish(d, x) /\ UNCHANGED <<sent, accepted>>
    BY <1>9 DEF Record, RecordMail
  <2> HIDE DEF x, f
  <2> QED BY <2>1, <2>2, <2>3, <2>4, <2>5, FinishPromise DEF ClosedStates
<1>10. ASSUME NEW d \in Dispatcher, Send(d) PROVE [Promise!Next]_<<Fates, sent, accepted>>
  <2>1. PICK e \in Entry : e = dispatch[d].entry
    BY <1>10 DEF Send, IInv, Reservations, Working
  <2>2. /\ dispatch[d].attempt \in 1..Budget(e) /\ dispatch[d].attempt \notin sent[e]
        /\ Stored(entry[e])
    BY <1>10, <2>1, BudgetType DEF Send, IInv, Reservations, OneDeliveryPerLease, Working,
       Underway, TypeOK, DispatchRecord
  <2>3. Fates' = Fates /\ Fates[e] # "none"
    <3>1. Fates' = Fates
      BY <1>10, SameStates DEF Send
    <3> QED BY <1>0, <2>2, <3>1, StoredFate DEF Fates
  <2>4. /\ sent' = [sent EXCEPT ![e] = @ \cup {dispatch[d].attempt}]
        /\ accepted' \in {accepted, accepted \cup {e}}
    BY <1>10, <2>1 DEF Send
  <2>5. Promise!Attempt(e)
    BY <2>2, <2>3, <2>4 DEF Promise!Attempt, Fates
  <2> QED BY <2>5 DEF Promise!Next
<1>11. ASSUME NEW d \in Dispatcher, Proceed(d) \/ CoolDown(d) \/ Crash(d)
       PROVE  UNCHANGED <<Fates, sent, accepted>>
  BY <1>11, SameStates DEF Proceed, CoolDown, Crash
<1>12. ASSUME NEW d \in Dispatcher, NEW e \in Entry, NEW s \in Subscription \cup {None},
              DeliverNow(d, e, s)
       PROVE  [Promise!Next]_<<Fates, sent, accepted>>
  <2> DEFINE y == [NoEntry EXCEPT !.state = "PENDING", !.sub = s]
  <2>1. y \in EntryRecord /\ y.state = "PENDING"
    BY DEF NoEntry, EntryRecord, OpenStates
  <2>2. /\ ~Stored(entry[e]) /\ entry' = [entry EXCEPT ![e] = Claimed(y)]
        /\ UNCHANGED <<sent, accepted>>
    BY <1>12 DEF DeliverNow, Absent, Stored
  <2> HIDE DEF y
  <2>3. Claimed(y) \in EntryRecord /\ IsOpen(Claimed(y))
    BY <2>1, EntryTypes, EntryFields DEF IsOpen, OpenStates
  <2>4. Promise!Announce(e)
    BY <1>0, <2>2, <2>3, BirthFate DEF Promise!Announce, Fates
  <2> QED BY <2>4 DEF Promise!Next
<1>13. ASSUME NEW d \in Dispatcher, NEW e \in Entry, Claim(d, e) \/ ClaimMail(d, e)
       PROVE  UNCHANGED <<Fates, sent, accepted>>
  <2>1. \A i \in Entry : entry'[i].state = entry[i].state
    BY <1>0, <1>13, EntryFields DEF Claim, ClaimMail, Reserve, TypeOK
  <2> QED BY <1>13, <2>1, SameStates DEF Claim, ClaimMail, Reserve
<1>14. ASSUME NEW s \in Subscription, Unsubscribe(s)
       PROVE  [Promise!Next]_<<Fates, sent, accepted>>
  <2> DEFINE E == {e \in Entry : entry[e].sub = s}
  <2>1. \A i \in Entry : Settled(entry[i], "DISCARDED").state = "DISCARDED"
    BY <1>0, EntryFields DEF TypeOK, ClosedStates
  <2>2. \A i \in Entry : Fate(i)' = IF i \in E /\ Fate(i) = "open" THEN "discarded" ELSE Fate(i)
    <3> SUFFICES ASSUME NEW i \in Entry
                 PROVE  Fate(i)' = IF i \in E /\ Fate(i) = "open" THEN "discarded" ELSE Fate(i)
      OBVIOUS
    <3>1. CASE i \in E /\ IsOpen(entry[i])
      <4>1. entry'[i].state = "DISCARDED"
        BY <1>14, <2>1, <3>1 DEF Unsubscribe
      <4>2. Fate(i)' = "discarded"
        BY <4>1 DEF Fate, IsOpen, OpenStates
      <4>3. Fate(i) = "open"
        BY <3>1, FateOf
      <4> QED BY <3>1, <4>2, <4>3
    <3>2. CASE ~(i \in E /\ IsOpen(entry[i]))
      <4>1. entry'[i] = entry[i]
        BY <1>14, <3>2 DEF Unsubscribe
      <4>2. Fate(i)' = Fate(i)
        BY <4>1 DEF Fate
      <4>3. Fate(i) = "open" => IsOpen(entry[i])
        BY <1>0 DEF Fate, TypeOK, EntryRecord, IsOpen, OpenStates, ClosedStates
      <4> QED BY <3>2, <4>2, <4>3
    <3> QED BY <3>1, <3>2
  <2>3. Promise!Discard(E)
    BY <1>14, <2>2 DEF Unsubscribe, Promise!Discard, Fates
  <2> QED BY <2>3 DEF Promise!Next
<1>15. ASSUME NEW e \in Entry, Enqueue(e)
       PROVE  UNCHANGED <<Fates, sent, accepted>>
  <2> DEFINE x == [NoEntry EXCEPT !.state = "UNCOMMITTED"]
  <2>1. x \in EntryRecord /\ x.state = "UNCOMMITTED"
    BY DEF NoEntry, EntryRecord
  <2>2. ~Stored(entry[e]) /\ entry' = [entry EXCEPT ![e] = x] /\ UNCHANGED <<sent, accepted>>
    BY <1>15 DEF Enqueue, Absent, Stored
  <2> HIDE DEF x
  <2>3. ~Stored(x)
    BY <2>1 DEF Stored
  <2> QED BY <1>0, <2>1, <2>2, <2>3, BirthFate
<1>16. ASSUME NEW d \in Dispatcher, DropMail(d) PROVE [Promise!Next]_<<Fates, sent, accepted>>
  <2> DEFINE x == Settled(entry[dispatch[d].entry], "DISCARDED")
  <2>1. Working(d) /\ entry[dispatch[d].entry] \in EntryRecord
    BY <1>16 DEF DropMail, Working, IInv, Reservations, TypeOK
  <2>2. x \in EntryRecord /\ x.state = "DISCARDED"
    BY <2>1, EntryTypes, EntryFields DEF ClosedStates
  <2>3. Finish(d, x) /\ UNCHANGED <<sent, accepted>>
    BY <1>16 DEF DropMail
  <2> HIDE DEF x
  <2> QED BY <2>1, <2>2, <2>3, FinishPromise DEF ClosedStates
<1> QED
  BY <1>1, <1>2, <1>3, <1>4, <1>5, <1>6, <1>7, <1>8, <1>9, <1>10, <1>11, <1>12, <1>13, <1>14,
     <1>15, <1>16 DEF Next, Work

\* The dispatchers implement the promise of EventDelivery.
THEOREM PromiseHolds == Spec => PromiseKept
  BY InitPromise, StepPromise, Invariant, PTL DEF Spec, PromiseKept, Promise!Spec, Fates

=============================================================================
