---------------------------- MODULE MCCaseTree ----------------------------
(***************************************************************************)
(* Small trees of cases for CaseTree: a root that calls a child that may   *)
(* call a grandchild.                                                      *)
(***************************************************************************)
EXTENDS CaseTree

MCNode == {"start", "ls", "p", "sub", "le", "y", "end", "c", "sub2", "g", "x"}
MCTypeOf == [n \in MCNode |->
    CASE n = "start" -> "START" [] n = "end" -> "END"
      [] n = "ls" -> "LOOP_START" [] n = "le" -> "LOOP_END"
      [] n \in {"sub", "sub2"} -> "SUBPROCESS" [] OTHER -> "ACTIVITY"]
MCSchema == {"root", "called", "inner"}
MCTarget == [n \in {"sub", "sub2"} |-> IF n = "sub" THEN "called" ELSE "inner"]

Calls(root, called, inner) == [s \in MCSchema |->
    CASE s = "root" -> root [] s = "called" -> called [] s = "inner" -> inner]

\* A step and the call repeat, y follows; the child only calls the grandchild.
Rounds == Calls(<<"start", "ls", "p", "sub", "le", "y", "end">>,
                <<"start", "sub2", "end">>, <<"start", "g", "end">>)

\* The call is followed by a step.
Followed == Calls(<<"start", "p", "sub", "y", "end">>,
                  <<"start", "c", "end">>, <<"start", "g", "end">>)

MCCaseId == {"r", "k1", "k2", "k3", "k4"}
Nobody == {}
X == {"x"}
Y == {"y"}
=============================================================================
