----------------------------- MODULE MCMigration -----------------------------
(***************************************************************************)
(* Released schemas for Migration, and the edits offered for them.         *)
(***************************************************************************)
EXTENDS Migration

Cell == [open |-> FALSE, finite |-> TRUE, upper |-> 0, truth |-> {}, values |-> {},
         otherwise |-> FALSE, to |-> 0]
YesNo(yes, no)  == << [Cell EXCEPT !.truth = {TRUE}, !.to = yes],
                      [Cell EXCEPT !.truth = {FALSE}, !.to = no] >>

Boolean == [type |-> "BOOLEAN", own |-> TRUE, supplied |-> FALSE]
Must(n, e, mode) == [node |-> n, element |-> e, mode |-> mode, must |-> TRUE, type |-> "none"]

MCPartition     == "BOOLEAN" :> {YesNo(0, 0)}
MCLoopPartition == "BOOLEAN" :> {<<>>}
MCNewAccesses   == [element : {"b", "x"}, mode : {"READ", "WRITE"}, must : {TRUE}]

\* 3 decides b, 5 or 6 is done, and then 8.
Choice == [EmptySchema EXCEPT
    !.type = 1 :> "START" @@ 2 :> "END" @@ 3 :> "ACTIVITY" @@ 4 :> "XOR_SPLIT" @@ 5 :> "ACTIVITY"
             @@ 6 :> "ACTIVITY" @@ 7 :> "XOR_JOIN" @@ 8 :> "ACTIVITY",
    !.flow = {<<1, 3>>, <<3, 4>>, <<4, 5>>, <<5, 7>>, <<4, 6>>, <<6, 7>>, <<7, 8>>, <<8, 2>>},
    !.xor     = 4 :> [disc |-> "b", kind |-> "BOOLEAN", cells |-> YesNo(5, 6)],
    !.element = "b" :> Boolean @@ "x" :> Boolean,
    !.access  = {Must(3, "b", "WRITE")},
    !.staff   = 3 :> {} @@ 5 :> {} @@ 6 :> {} @@ 8 :> {}]

\* 4 and then 5 beside 6, which may write x, 5 must.
Sides == [EmptySchema EXCEPT
    !.type = 1 :> "START" @@ 2 :> "END" @@ 3 :> "AND_SPLIT" @@ 4 :> "ACTIVITY" @@ 5 :> "ACTIVITY"
             @@ 6 :> "ACTIVITY" @@ 7 :> "AND_JOIN" @@ 8 :> "ACTIVITY",
    !.flow = {<<1, 3>>, <<3, 4>>, <<4, 5>>, <<5, 7>>, <<3, 6>>, <<6, 7>>, <<7, 8>>, <<8, 2>>},
    !.element = "b" :> Boolean @@ "x" :> Boolean,
    !.access  = {[Must(4, "x", "WRITE") EXCEPT !.must = FALSE], Must(5, "b", "WRITE"),
                 Must(8, "b", "READ")},
    !.staff   = 4 :> {} @@ 5 :> {} @@ 6 :> {} @@ 8 :> {}]

\* A loop that 4 decides, and 6 behind it.
Round == [EmptySchema EXCEPT
    !.type = 1 :> "START" @@ 2 :> "END" @@ 3 :> "LOOP_START" @@ 4 :> "ACTIVITY" @@ 5 :> "LOOP_END"
             @@ 6 :> "ACTIVITY",
    !.flow = {<<1, 3>>, <<3, 4>>, <<4, 5>>, <<5, 6>>, <<6, 2>>},
    !.loop = 5 :> [disc |-> "b", kind |-> "BOOLEAN", cells |-> <<>>, repeat |-> 1, max |-> 2],
    !.element = "b" :> Boolean @@ "x" :> Boolean,
    !.access  = {Must(4, "b", "WRITE")},
    !.staff   = 4 :> {} @@ 6 :> {}]

MCDrafts == {[model |-> s, left |-> 1] : s \in {Choice, Sides}} \cup
            {[model |-> Round, left |-> 2]}

=============================================================================
