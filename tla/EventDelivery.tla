---------------------------- MODULE EventDelivery ----------------------------
(***************************************************************************)
(* What procworks.outbox promises of every message it stores, whoever      *)
(* delivers it, however often dispatchers overlap or die: it is attempted  *)
(* at most as often as its budget allows, it is called delivered only if   *)
(* the receiver has accepted it, and once its fate is sealed it stays so.  *)
(***************************************************************************)
EXTENDS Naturals

CONSTANTS Entry, BudgetOf(_)

VARIABLES
    fate,       \* "none", "open", or how the entry was closed
    made,       \* the attempts made of each entry, by their number
    accepted    \* entries the receiver has accepted at least once

Closed == {"delivered", "dead", "discarded"}

Init == /\ fate = [e \in Entry |-> "none"]
        /\ made = [e \in Entry |-> {}]
        /\ accepted = {}

\* Committed together with the change it announces.
Announce(e) == /\ fate[e] = "none"
               /\ fate' = [fate EXCEPT ![e] = "open"]
               /\ UNCHANGED <<made, accepted>>

\* An attempt under way when the entry is closed cannot be recalled.
Attempt(e) == /\ fate[e] # "none"
              /\ \E n \in (1..BudgetOf(e)) \ made[e] : made' = [made EXCEPT ![e] = @ \cup {n}]
              /\ accepted' \in {accepted, accepted \cup {e}}
              /\ UNCHANGED fate

Close(e) == /\ fate[e] = "open"
            /\ \E f \in Closed : /\ f = "delivered" => e \in accepted
                                 /\ fate' = [fate EXCEPT ![e] = f]
            /\ UNCHANGED <<made, accepted>>

\* The subscription is deleted: whatever of these is open is discarded.
Discard(E) == /\ fate' = [e \in Entry |-> IF e \in E /\ fate[e] = "open" THEN "discarded" ELSE fate[e]]
              /\ UNCHANGED <<made, accepted>>

Next == \/ \E e \in Entry : Announce(e) \/ Attempt(e) \/ Close(e)
        \/ \E E \in SUBSET Entry : Discard(E)

Spec == Init /\ [][Next]_<<fate, made, accepted>>
=============================================================================
