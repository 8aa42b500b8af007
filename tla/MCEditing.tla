------------------------------ MODULE MCEditing ------------------------------
(***************************************************************************)
(* Drafts to edit and graphs to submit for Editing.                        *)
(***************************************************************************)
EXTENDS Editing

Cell == [open |-> FALSE, finite |-> TRUE, upper |-> 0, truth |-> {}, values |-> {},
         otherwise |-> FALSE, to |-> 0]
YesNo(yes, no)  == << [Cell EXCEPT !.truth = {TRUE}, !.to = yes],
                      [Cell EXCEPT !.truth = {FALSE}, !.to = no] >>
Below1(low, up) == << [Cell EXCEPT !.upper = 1, !.to = low], [Cell EXCEPT !.open = TRUE, !.to = up] >>

Boolean == [type |-> "BOOLEAN", own |-> TRUE, supplied |-> FALSE]
Integer == [Boolean EXCEPT !.type = "INTEGER"]
Must(n, e, mode) == [node |-> n, element |-> e, mode |-> mode, must |-> TRUE, type |-> "none"]

MCPartition     == "BOOLEAN" :> {YesNo(0, 0)} @@ "INTEGER" :> {Below1(0, 0)}
MCLoopPartition == "BOOLEAN" :> {<<>>, YesNo(0, 1)} @@ "INTEGER" :> {Below1(1, 0)}
MCNewAccesses   == [element : {"b", "i"}, mode : {"READ", "WRITE"}, must : {TRUE}]

Empty == [EmptySchema EXCEPT !.element = "b" :> Boolean]

\* 3 decides b; the XOR block runs 5, which writes i, and 6, or 7; 9 ends it.  6 is
\* for who worked on 3.
Choice == [EmptySchema EXCEPT
    !.type = 1 :> "START" @@ 2 :> "END" @@ 3 :> "ACTIVITY" @@ 4 :> "XOR_SPLIT" @@ 5 :> "ACTIVITY"
             @@ 6 :> "ACTIVITY" @@ 7 :> "ACTIVITY" @@ 8 :> "XOR_JOIN" @@ 9 :> "ACTIVITY",
    !.flow = {<<1, 3>>, <<3, 4>>, <<4, 5>>, <<5, 6>>, <<6, 8>>, <<4, 7>>, <<7, 8>>, <<8, 9>>,
              <<9, 2>>},
    !.xor     = 4 :> [disc |-> "b", kind |-> "BOOLEAN", cells |-> YesNo(5, 7)],
    !.element = "b" :> Boolean @@ "i" :> Integer,
    !.access  = {Must(3, "b", "WRITE"), Must(5, "i", "WRITE")},
    !.staff   = 3 :> {} @@ 5 :> {} @@ 6 :> {3} @@ 7 :> {} @@ 9 :> {}]

\* 4, worked by a system, and, behind it by a sync edge, 6 in parallel; then a loop
\* that reads what 4 wrote and decides b, for who worked on 4, if anybody did.
Rounds == [EmptySchema EXCEPT
    !.type = 1 :> "START" @@ 2 :> "END" @@ 3 :> "AND_SPLIT" @@ 4 :> "ACTIVITY" @@ 5 :> "ACTIVITY"
             @@ 6 :> "ACTIVITY" @@ 7 :> "AND_JOIN" @@ 8 :> "LOOP_START" @@ 9 :> "ACTIVITY"
             @@ 10 :> "LOOP_END",
    !.flow = {<<1, 3>>, <<3, 4>>, <<4, 7>>, <<3, 5>>, <<5, 6>>, <<6, 7>>, <<7, 8>>, <<8, 9>>,
              <<9, 10>>, <<10, 2>>},
    !.sync = {<<4, 6>>},
    !.loop = 10 :> [disc |-> "b", kind |-> "BOOLEAN", cells |-> <<>>, repeat |-> 1, max |-> 2],
    !.element = "b" :> Boolean @@ "i" :> Integer,
    !.access  = {Must(4, "i", "WRITE"), Must(9, "i", "READ"), Must(9, "b", "WRITE")},
    !.automatic = {4},
    !.staff   = 5 :> {} @@ 6 :> {5} @@ 9 :> {4}]

\* An AND block whose branches are a choice, with an empty branch, and a sub-process
\* that decides b before it.
Calls == [EmptySchema EXCEPT
    !.type = 1 :> "START" @@ 2 :> "END" @@ 3 :> "SUBPROCESS" @@ 4 :> "AND_SPLIT"
             @@ 5 :> "XOR_SPLIT" @@ 6 :> "ACTIVITY" @@ 7 :> "XOR_JOIN" @@ 8 :> "ACTIVITY"
             @@ 9 :> "AND_JOIN",
    !.flow = {<<1, 3>>, <<3, 4>>, <<4, 5>>, <<5, 6>>, <<6, 7>>, <<5, 7>>, <<7, 9>>, <<4, 8>>,
              <<8, 9>>, <<9, 2>>},
    !.xor       = 5 :> [disc |-> "i", kind |-> "THRESHOLD", cells |-> Below1(6, 7)],
    !.element   = "i" :> Integer,
    !.outputs   = 3 :> {"i"},
    !.automatic = {6},
    !.staff     = 8 :> {}]

\* A loop in one branch of a choice, and an AND block in one.
Looping == [EmptySchema EXCEPT
    !.type = 1 :> "START" @@ 2 :> "END" @@ 3 :> "XOR_SPLIT" @@ 4 :> "LOOP_START"
             @@ 5 :> "ACTIVITY" @@ 6 :> "LOOP_END" @@ 7 :> "ACTIVITY" @@ 8 :> "XOR_JOIN",
    !.flow = {<<1, 3>>, <<3, 4>>, <<4, 5>>, <<5, 6>>, <<6, 8>>, <<3, 7>>, <<7, 8>>, <<8, 2>>},
    !.loop = 6 :> [disc |-> "b", kind |-> "BOOLEAN", cells |-> <<>>, repeat |-> 1, max |-> 2],
    !.element = "b" :> Boolean,
    !.access  = {Must(5, "b", "WRITE"), Must(7, "b", "WRITE")}]

Forking == [EmptySchema EXCEPT
    !.type = 1 :> "START" @@ 2 :> "END" @@ 3 :> "XOR_SPLIT" @@ 4 :> "AND_SPLIT"
             @@ 5 :> "ACTIVITY" @@ 6 :> "AND_JOIN" @@ 7 :> "ACTIVITY" @@ 8 :> "XOR_JOIN",
    !.flow = {<<1, 3>>, <<3, 4>>, <<4, 5>>, <<4, 6>>, <<5, 6>>, <<6, 8>>, <<3, 7>>, <<7, 8>>,
              <<8, 2>>}]

\* Two edges of a graph exchange their ends: every degree stays.
Swapped(s) ==
    {[s EXCEPT !.flow = (@ \ {e, f}) \cup {<<e[1], f[2]>>, <<f[1], e[2]>>}] :
       <<e, f>> \in {p \in s.flow \X s.flow :
                       p[1] # p[2] /\ {<<p[1][1], p[2][2]>>, <<p[2][1], p[1][2]>>} \cap s.flow = {}}}

MCDrafts == {[model |-> Empty, left |-> 2], [model |-> Choice, left |-> 1],
             [model |-> Rounds, left |-> 1], [model |-> Calls, left |-> 1]}
MCSubmissions == {Choice, Rounds, Calls} \cup
                 UNION {Swapped(s) : s \in Swapped(Looping) \cup Swapped(Forking)}

=============================================================================
