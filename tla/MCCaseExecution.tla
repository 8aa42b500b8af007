-------------------------- MODULE MCCaseExecution --------------------------
(***************************************************************************)
(* Small schemas for CaseExecution.  A schema is a record; its nodes are   *)
(* listed in schema order, and TLC runs every case with that order and     *)
(* with the reverse one.  What a record does not name is empty.            *)
(***************************************************************************)
EXTENDS Timing

CONSTANT Schema

Base == [list |-> <<>>, type |-> [x \in {} |-> ""], flow |-> {}, sync |-> {},
         loop |-> [x \in {} |-> ""], must |-> [x \in {} |-> {}], may |-> [x \in {} |-> {}],
         reads |-> [x \in {} |-> ""], xor |-> [x \in {} |-> [v \in {} |-> ""]],
         again |-> [x \in {} |-> {}], brake |-> [x \in {} |-> 0],
         staff |-> [x \in {} |-> {}], auto |-> {},
         time |-> [x \in {} |-> 0], lead |-> [x \in {} |-> 0]]

(***************************************************************************)
(* s decides d.  Then a repeats in one branch beside x -> (c | nothing)    *)
(* and z in the other: c, worked by an external system, holds a back by a  *)
(* sync edge into the loop, a holds z back by one out of it.  Behind the   *)
(* join b repeats in a loop inside a loop.  At the end the model carries a *)
(* loop it was stored with before K6a was checked: it starts in a branch   *)
(* of y and ends behind the join.                                          *)
(***************************************************************************)
Parallel == [Base EXCEPT
    !.list  = <<"start", "s", "as", "ls", "a", "le", "x", "c", "xj", "z", "aj",
                "lo", "li", "b", "lie", "loe", "y", "lq", "q", "yj", "lqe", "end">>,
    !.type  = [start |-> "START", s |-> "ACTIVITY", as |-> "AND_SPLIT", ls |-> "LOOP_START",
               a |-> "ACTIVITY", le |-> "LOOP_END", x |-> "XOR_SPLIT", c |-> "ACTIVITY",
               xj |-> "XOR_JOIN", z |-> "ACTIVITY", aj |-> "AND_JOIN",
               lo |-> "LOOP_START", li |-> "LOOP_START", b |-> "ACTIVITY", lie |-> "LOOP_END",
               loe |-> "LOOP_END", y |-> "XOR_SPLIT", lq |-> "LOOP_START", q |-> "ACTIVITY",
               yj |-> "XOR_JOIN", lqe |-> "LOOP_END", end |-> "END"],
    !.flow  = {<<"start", "s">>, <<"s", "as">>, <<"as", "ls">>, <<"ls", "a">>, <<"a", "le">>,
               <<"le", "aj">>, <<"as", "x">>, <<"x", "c">>, <<"x", "xj">>, <<"c", "xj">>,
               <<"xj", "z">>, <<"z", "aj">>, <<"aj", "lo">>, <<"lo", "li">>, <<"li", "b">>,
               <<"b", "lie">>, <<"lie", "loe">>, <<"loe", "y">>, <<"y", "lq">>, <<"y", "yj">>,
               <<"lq", "q">>, <<"q", "yj">>, <<"yj", "lqe">>, <<"lqe", "end">>},
    !.sync  = {<<"c", "a">>, <<"a", "z">>},
    !.loop  = [le |-> "ls", lie |-> "li", loe |-> "lo", lqe |-> "lq"],
    !.must  = [s |-> {"d"}, a |-> {"w"}, b |-> {"w"}, q |-> {"d"}],
    !.reads = [x |-> "d", le |-> "w", lie |-> "w", loe |-> "w", y |-> "w", lqe |-> "d"],
    !.xor   = [x |-> [yes |-> "c", no |-> "xj"], y |-> [yes |-> "lq", no |-> "yj"]],
    !.again = [le |-> {"yes"}, lie |-> {"yes"}, loe |-> {"yes"}, lqe |-> {"yes"}],
    !.brake = [le |-> 2, lie |-> 2, loe |-> 2, lqe |-> 0],
    !.staff = [a |-> {"alice"}, z |-> {"bob"}],
    !.auto  = {"b", "c", "q"},
    !.time  = [s |-> 1, a |-> 6, c |-> 3, z |-> 2, b |-> 2, q |-> 1],
    !.lead  = [z |-> 3]]

-----------------------------------------------------------------------------
At(f, x, default) == IF x \in DOMAIN f THEN f[x] ELSE default
OfType(t) == {n \in DOMAIN Schema.type : Schema.type[n] = t}

MCNode          == DOMAIN Schema.type
MCTypeOf        == [n \in MCNode |-> Schema.type[n]]
MCControlEdge   == Schema.flow
MCSyncEdge      == Schema.sync
MCStartOfLoop   == Schema.loop
MCElement       == {"d", "w"}
MCValue         == {"yes", "no"}
MCMandatory     == [n \in MCNode |-> At(Schema.must, n, {})]
MCWrites        == [n \in MCNode |-> At(Schema.must, n, {}) \cup At(Schema.may, n, {})]
MCDiscriminator == Schema.reads
MCXorTarget     == Schema.xor
MCRepeatOn      == Schema.again
MCMaxIterations == Schema.brake
MCAgent         == {"alice", "bob"}
MCStaffRule     == [n \in OfType("ACTIVITY") |-> At(Schema.staff, n, MCAgent)]
MCAutomatic     == Schema.auto
MCDuration      == [n \in MCNode |-> At(Schema.time, n, 0)]
MCLead          == [n \in MCNode |-> At(Schema.lead, n, 0)]

\* Deadlines around the critical path of the schema, and two T1 refuses.
MCDeadline      == {-1, 11, 21, 22, 101}

\* The branches an edge lies in, and what is certain before a node on the way through
\* `scope', as the validator finds them from the START on.
Preceding(e) == Incoming(e[1])
MCBranches ==
    LET in[e \in ControlEdge] ==
            LET coming == {in[p] : p \in Preceding(e)}
                common == {b \in UNION coming : \A c \in coming : b \in c}
            IN  IF TypeOf[e[1]] = "XOR_SPLIT" THEN common \cup {e} ELSE common
    IN  in

Before(scope) ==
    LET before[n \in scope] ==
            LET coming == {before[e[1]] \cup Made(e[1]) : e \in {i \in Incoming(n) : i[1] \in scope}}
                common == {x \in UNION coming : \A c \in coming : x \in c}
            IN  IF TypeOf[n] = "AND_JOIN" THEN UNION coming ELSE common
    IN  [n \in Node |-> IF n \in scope THEN before[n] ELSE {}]

\* The schema keeps the rules the theorems of CaseExecutionProofs assume: as its last loop is
\* not closed, it keeps both alternatives of Decidable.
Rounds == [end \in LoopEnds |-> Before(LoopBlock(end))]
ASSUME SchemaIsSound ==
    /\ K2Endpoints /\ K4Acyclic /\ LoopsNested /\ Nested(MCBranches)
    /\ Decidable(Before(Node), Rounds) /\ RoundsDecideAfresh(Rounds)

Place(n)  == CHOOSE i \in 1..Len(Schema.list) : Schema.list[i] = n
MCOrders  == {[n \in MCNode |-> Place(n)], [n \in MCNode |-> Len(Schema.list) - Place(n)]}
NothingSet == {[e \in MCElement |-> NoValue]}

=============================================================================
