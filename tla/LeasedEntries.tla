---------------------------- MODULE LeasedEntries ----------------------------
(***************************************************************************)
(* The reservation rule of the two outboxes (store._LeasedEntries,         *)
(* db._claim_outbox_row, db._finish_outbox_row), as operators on one       *)
(* stored entry.                                                           *)
(*                                                                         *)
(* A reservation is `next_attempt_at' moved to the end of a lease.  Every  *)
(* reservation ends later than the one before and counts an attempt, so    *)
(* `attempts' together with `leased' stands for the lease itself, and      *)
(* `due' for next_attempt_at having passed.                                *)
(***************************************************************************)
EXTENDS Naturals

OpenStates == {"PENDING", "FAILED"}

IsOpen(x) == x.state \in OpenStates

\* claim: only an open entry that is due.
Claimable(x) == IsOpen(x) /\ x.due

\* Mutant: the attempt is counted when its outcome is recorded.
ClaimedUncounted(x) == [x EXCEPT !.leased = TRUE, !.due = FALSE]

Claimed(x) == [x EXCEPT !.attempts = x.attempts + 1, !.leased = TRUE, !.due = FALSE]

\* Mutant: the outcome is stored although the reservation was lost.
HeldAlways(x, attempt) == TRUE

\* finish: only while the reservation made with this attempt is still the stored one.
Held(x, attempt) == IsOpen(x) /\ x.leased /\ x.attempts = attempt

Settled(x, state) == [x EXCEPT !.state = state, !.leased = FALSE, !.due = FALSE]

\* Time passes the stored next_attempt_at: a back-off is over, or a lease has run out.
Lapse(x) == [x EXCEPT !.due = TRUE]
=============================================================================
