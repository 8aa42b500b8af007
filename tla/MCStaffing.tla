---------------------------- MODULE MCStaffing ----------------------------
(***************************************************************************)
(* Two clerks, each the deputy of the other, and the manager of their      *)
(* department; a request, a sub-process that checks it and its approval,   *)
(* in up to two rounds.  In one schema a system makes the request.         *)
(***************************************************************************)
EXTENDS Staffing, TLC

Leaf(kind, ref)    == [kind |-> kind, ref |-> ref, deep |-> TRUE, of |-> <<>>]
Operands(kind, first, second) ==
    [kind |-> kind, ref |-> None, deep |-> FALSE, of |-> <<first, second>>]

Clerks     == Leaf("ROLE", "clerk")
Department == Leaf("ORG_UNIT", "dept")
Manager    == Leaf("AGENT", "cid")
Requester  == Leaf("NODE_PERFORMING_AGENT", "request")
Supervisor == Leaf("NODE_PERFORMING_AGENT_SUPERVISOR", "request")
NobodysBoss == Leaf("NODE_PERFORMING_AGENT_SUPERVISOR", "check")
Another    == Operands("EXCEPT", Clerks, Requester)
BenTheClerk == Operands("AND", Clerks, Leaf("AGENT", "ben"))

MCRule == {Clerks, Department, Manager, Requester, Supervisor, NobodysBoss, Another,
           BenTheClerk, Leaf("AGENT", "ben")}
MCFlow == <<"request", "check", "approve">>

MCOrg ==
    [roles   |-> {"clerk"},
     role    |-> [ann |-> {"clerk"}, ben |-> {"clerk"}, cid |-> {}, dan |-> {}],
     unit    |-> [ann |-> "desk", ben |-> "desk", cid |-> "dept", dan |-> None],
     deputy  |-> [ann |-> "ben", ben |-> "ann", cid |-> None, dan |-> None],
     manager |-> [desk |-> None, dept |-> "cid"],
     parent  |-> [desk |-> "dept", dept |-> None],
     mail    |-> [ann |-> "address", ben |-> "address", cid |-> "address", dan |-> None,
                  clerk |-> None, desk |-> None, dept |-> None]]

Functional == [kind |-> "FUNCTIONAL", rule |-> Department, finite |-> TRUE, after |-> 0]
Informing  == [kind |-> "HIERARCHICAL", rule |-> Manager, finite |-> TRUE, after |-> 5]

MCDraft ==
    [rule      |-> [request |-> Clerks, approve |-> Another],
     stages    |-> [approve |-> <<Functional, Informing>>],
     mail      |-> [approve |-> [mode |-> "TO_ELIGIBLE_AGENTS", deputies |-> TRUE]],
     timed     |-> {"approve"},
     automatic |-> {},
     before    |-> [request |-> {"start"}, check |-> {"start", "request"},
                    approve |-> {"start", "request", "check"}],
     linked    |-> TRUE, own |-> EmptyOrg, draft |-> TRUE]
MCSchemas ==
    {MCDraft, [MCDraft EXCEPT !.linked = FALSE, !.own = MCOrg],
     [MCDraft EXCEPT !.automatic = {"request"}, !.rule = [approve |-> Another]]}

MCOrgChanges ==
    {[on |-> "org", op |-> "set_deputy", id |-> "ben", to |-> "dan"],
     [on |-> "org", op |-> "update_agent", id |-> "ben", roles |-> {}, unit |-> "desk",
      mail |-> "address"]}
MCLocalChanges == {[on |-> "local", op |-> "set_manager", id |-> "desk", to |-> "ben"]}
MCEdits ==
    {[on |-> "edit", op |-> "clear", step |-> "approve"],
     [on |-> "edit", op |-> "escalate", step |-> "request", to |-> {<<Informing>>}],
     [on |-> "edit", op |-> "mail", step |-> "request",
      to |-> {[mode |-> "TO_GROUP_MAILBOX", deputies |-> FALSE]}],
     [on |-> "edit", op |-> "link"], [on |-> "edit", op |-> "unlink"], [on |-> "edit", op |-> "release"],
     [on |-> "edit", op |-> "assign", step |-> "request", rule |-> BenTheClerk],
     [on |-> "edit", op |-> "assign", step |-> "approve", rule |-> Supervisor],
     [on |-> "edit", op |-> "assign", step |-> "approve", rule |-> NobodysBoss]}

Interchangeable == Permutations(Proc) \cup Permutations(Timer)

=============================================================================
