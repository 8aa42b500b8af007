----------------------------- MODULE MCRequests -----------------------------
(***************************************************************************)
(* Four requests for Requests: one sent twice under its key, another one   *)
(* that reuses the key, and one without a key that writes to an external   *)
(* system and saves the two objects in the opposite order.                 *)
(***************************************************************************)
EXTENDS Requests, TLC

CONSTANTS first, again, other, external, a, b, c, key, complete, fetch, report

Changes == (first :> complete) @@ (again :> complete) @@ (other :> fetch) @@ (external :> report)

KeysSent == (first :> key) @@ (again :> key) @@ (other :> key) @@ (external :> None)

Orders == (complete :> <<a, b>>) @@ (fetch :> <<c>>) @@ (report :> <<b, a>>)

Rooms == (complete :> 2) @@ (fetch :> 1) @@ (report :> 1)

=============================================================================
