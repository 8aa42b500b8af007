---------------------------- MODULE SerialChanges ----------------------------
(***************************************************************************)
(* What procworks.unit_of_work promises of the changes requests make, in   *)
(* however many processes they run: each takes effect as a whole, as if    *)
(* the others waited for it, decided on the state it found, and with its   *)
(* entry at the end of one audit chain.                                    *)
(***************************************************************************)
EXTENDS Naturals, Sequences

CONSTANTS Request, Object, Touches(_), Permits(_, _)

VARIABLES
    work,   \* of each stored object: what was done to it, in order
    chain   \* the audit chain

Init == /\ work = [o \in Object |-> <<>>]
        /\ chain = <<>>

\* A request is carried out, or the attempt that failed is put on record.
Do(r, what) ==
    /\ \A i \in DOMAIN chain : chain[i].by # r
    /\ what = "done" => \A o \in Touches(r) : Permits(r, work[o])
    /\ work' = [o \in Object |-> IF o \in Touches(r)
                                 THEN Append(work[o], [by |-> r, what |-> what]) ELSE work[o]]
    /\ chain' = Append(chain, [seq |-> Len(chain) + 1, by |-> r, what |-> what])

Next == \E r \in Request, what \in {"done", "failed"} : Do(r, what)

Spec == Init /\ [][Next]_<<work, chain>>
=============================================================================
