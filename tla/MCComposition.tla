---------------------------- MODULE MCComposition ----------------------------
(***************************************************************************)
(* Small stores for Composition.  "order" is the draft the modellers work  *)
(* on, "bill" a released process that takes x and returns x for certain    *)
(* and y perhaps.                                                          *)
(***************************************************************************)
EXTENDS Composition

Work(id, reads, must, may) == [Step(id, {}) EXCEPT !.reads = reads, !.must = must, !.may = may]
Call(id, to, in, out) == Step(id, {[to |-> to, version |-> 1, in |-> in, out |-> out]})

Draft == [state |-> "ENTWURF", version |-> 1, body |-> <<>>, type |-> NoData, supplied |-> {},
          links |-> <<>>]

Bill == [Draft EXCEPT
    !.state = "RELEASED",
    !.body  = <<Work(1, {}, {"x"}, {"y"})>>,
    !.type  = "x" :> "INTEGER" @@ "y" :> "STRING"]

\* p is written for certain, q perhaps and then read or not; c comes from outside.
Order == [Draft EXCEPT
    !.body = <<Work(1, {}, {"p"}, {"q"}), Work(2, {"p"}, {}, {})>>,
    !.type = "p" :> "INTEGER" @@ "q" :> "STRING" @@ "c" :> "INTEGER",
    !.supplied = {"c"}]

\* A draft between the two, and one stored before the inputs were checked.
Deliver == [Draft EXCEPT
    !.body = <<Work(1, {}, {"x"}, {}), Call(2, "bill", "x" :> "x", "x" :> "y")>>,
    !.type = "x" :> "INTEGER" @@ "y" :> "INTEGER"]
Old == [Draft EXCEPT
    !.body = <<Call(1, "bill", "x" :> "p", NoData), Work(2, {}, {"p"}, {})>>,
    !.type = "p" :> "INTEGER"]

MCInitialStores == {"bill" :> Bill @@ "order" :> Order,
                    "bill" :> Bill @@ "order" :> Old,
                    "bill" :> Bill @@ "deliver" :> Deliver @@ "order" :> Order}
MCMappings == {[in |-> i, out |-> o] : i \in {NoData, "x" :> "p", "x" :> "q", "x" :> "c"},
                                       o \in {NoData, "x" :> "p", "y" :> "q"}}
MCConditions == {[reads |-> {e}, parses |-> TRUE] : e \in {"p", "q", "c"}}
                \cup {[reads |-> {}, parses |-> FALSE]}
=============================================================================
