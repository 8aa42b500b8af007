------------------------------ MODULE MCIdentity ------------------------------
(***************************************************************************)
(* Two administrators and a clerk of whom one still has an initial         *)
(* password, and a store nobody was added to yet.                          *)
(***************************************************************************)
EXTENDS Identity, TLC

User(l, person, admin, must) ==
    [login |-> l, hash |-> l, person |-> person, admin |-> admin, must |-> must]

Open(l) == [token |-> l, login |-> l, outlived |-> FALSE]

MCStores ==
    {[users    |-> {User("admin", {}, TRUE, FALSE), User("ada", {"p1"}, TRUE, FALSE)},
      sessions |-> {Open("admin"), Open("ada")}],
     [users    |-> {User("ada", {"p1"}, TRUE, FALSE), User("bea", {"p2"}, FALSE, TRUE)},
      sessions |-> {Open("ada"), Open("bea")}],
     [users    |-> {}, sessions |-> {}]}

Interchangeable == Permutations(Request)
=============================================================================
