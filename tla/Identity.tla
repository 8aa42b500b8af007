------------------------------- MODULE Identity -------------------------------
(***************************************************************************)
(* Logins and their sessions in password mode: opening a session, a        *)
(* password change, a reset, creating and deleting logins, the wipe of an  *)
(* administrative reset and the first administrator a starting process     *)
(* seeds (auth_password.PasswordAuthBackend, db.SqlAlchemyCredentialStore, *)
(* the /auth and /users endpoints of api.py).                              *)
(*                                                                         *)
(* The key derivations run outside the unit of work: a request first       *)
(* checks what is stored, derives, and then decides again in its unit.     *)
(* The database is READ COMMITTED: a unit sees what is committed when it   *)
(* reads, a lock is held until the unit ends, and its changes are seen     *)
(* when it commits.  A password is told apart by its hash, and a hash by   *)
(* the request that derived it.                                            *)
(***************************************************************************)
EXTENDS Naturals, FiniteSets

CONSTANTS
    Login, Person,
    Request,           \* the calls, each made once
    Stores,            \* [users, sessions] to begin with
    DefaultAdmin,      \* auth_password.DEFAULT_ADMIN_LOGIN
    Configured,        \* the PROCWORKS_ADMIN_LOGINs processes start with, {} for none
    Known              \* the persons some organisation knows

\* A stored hash is the one of a request, or the one the store began with.
UserRow == [login : Login, hash : Login \cup Request, person : SUBSET Person,
            admin : BOOLEAN, must : BOOLEAN]

SessionRow == [token : Login \cup Request, login : Login, outlived : BOOLEAN]

ASSUME IdentityTypes ==
    /\ DefaultAdmin \in Login /\ Configured \subseteq SUBSET Login /\ Known \subseteq Person
    /\ Stores \subseteq [users : SUBSET UserRow, sessions : SUBSET SessionRow]

\* A store to begin with has no legacy duplicates, knows no hash of a call yet
\* to come and keeps no session of an access that has ended.
ASSUME StoresConsistent ==
    \A s \in Stores :
        /\ \A u, o \in s.users : u # o => u.login # o.login /\ u.person \cap o.person = {}
        /\ \A u \in s.users : u.hash \notin Request
        /\ \A e \in s.sessions : ~e.outlived

VARIABLES
    users,      \* auth_user: [login, hash, person, admin, must]
    sessions,   \* auth_session: [token, login, outlived]
    req         \* the calls

vars == <<users, sessions, req>>

Row(l) == {u \in users : u.login = l}

Call(kind, by, l, seen) ==
    [kind |-> kind, at |-> "checked", by |-> by, login |-> l, seen |-> seen,
     row |-> {}, outlived |-> FALSE]

Fresh == [Call("none", "", "", {}) EXCEPT !.at = "new"]

\* What a call that has ended leaves: who derived which hash.
Ended(r) == [req EXCEPT ![r] = [Call(@.kind, "", "", {}) EXCEPT !.at = "ended"]]

Init ==
    /\ \E s \in Stores : users = s.users /\ sessions = s.sessions
    /\ req = [r \in Request |-> Fresh]

-----------------------------------------------------------------------------
(***************************************************************************)
(* Who calls.  authenticate reads the login behind the session afresh, and *)
(* get_principal refuses one that still has its initial password.          *)
(***************************************************************************)

Principals == {u \in users : \E s \in sessions : s.login = u.login}

Admins == {u \in users : u.admin}

ActingAdmins == {u \in Principals \cap Admins : ~u.must}

-----------------------------------------------------------------------------
(***************************************************************************)
(* The checks before the key derivation.                                   *)
(***************************************************************************)

Arrives(r, call) ==
    /\ req[r].at = "new"
    /\ req' = [req EXCEPT ![r] = call]
    /\ UNCHANGED <<users, sessions>>

\* verify_login with the right password.
VerifyLogin(r) == \E u \in users : Arrives(r, Call("login", "", u.login, {u}))

\* prepare_password_change with the right current password and a new one that
\* the policy accepts; open to a caller who has to change it.
PreparePasswordChange(r) ==
    \E u \in Principals : Arrives(r, Call("change", u.login, u.login, {u}))

\* check_new_user, and the person the organisation must know.
NewUserAccepted(u) ==
    /\ u.person \subseteq Known
    /\ \A o \in users : o.login # u.login /\ o.person \cap u.person = {}

NewUser(r, l, person, admin) ==
    [login |-> l, hash |-> r, person |-> person, admin |-> admin, must |-> TRUE]

CreateArrives(r) ==
    \E a \in ActingAdmins, l \in Login, admin \in BOOLEAN,
       person \in {{}} \cup {{p} : p \in Person} :
        LET u == NewUser(r, l, person, admin)
        IN  NewUserAccepted(u) /\ Arrives(r, Call("create", a.login, l, {u}))

ResetArrives(r) ==
    \E a \in ActingAdmins, u \in users : Arrives(r, Call("reset", a.login, u.login, {}))

DeleteArrives(r) ==
    \E a \in ActingAdmins, l \in Login : Arrives(r, Call("delete", a.login, l, {}))

WipeArrives(r) == \E a \in ActingAdmins : Arrives(r, Call("wipe", a.login, "", {}))

\* _bootstrap_admin: a configured administrator is seeded whenever it is
\* missing, the default one only when there is no login at all.
StartArrives(r) ==
    \E configured \in Configured :
        LET seeded == IF configured # {} THEN configured
                      ELSE IF users = {} THEN {DefaultAdmin} ELSE {}
        IN  \E l \in seeded :
                Row(l) = {} /\ Arrives(r, Call("start", "", l, {NewUser(r, l, {}, TRUE)}))

-----------------------------------------------------------------------------
(***************************************************************************)
(* Locks: the write gate, which the wipe passes alone, the lock of the     *)
(* admin set and the lock of one login.                                    *)
(***************************************************************************)

Others(r)  == Request \ {r}
InUnit(q)  == req[q].at \in {"admins", "held"}

GateOpen(r) ==
    \A q \in Others(r) : InUnit(q) => req[r].kind # "wipe" /\ req[q].kind # "wipe"

\* Mutant: the last administrator is looked for without the lock.
NoAdminLock(r) == TRUE

AdminLockFree(r) ==
    \A q \in Others(r) : InUnit(q) => req[q].kind \notin {"delete", "wipe"}

\* Mutant: the login is read without holding it.
PlainRead(r) == TRUE

\* A held login has its row in the call; one that is unknown holds nothing.
RowFree(r) ==
    \A q \in Others(r), u \in Row(req[r].login) :
        InUnit(q) /\ req[q].kind # "create" => \A h \in req[q].row : h.login # u.login

\* Mutant: the index of persons does not exist.
InsertLoginsOnly(r) ==
    \A q \in Others(r) : InUnit(q) /\ req[q].kind = "create" => req[q].login # req[r].login

\* add_user waits for an insert of the same login or person that has not
\* committed.
InsertFree(r) ==
    \A q \in Others(r) : InUnit(q) /\ req[q].kind = "create" =>
        \A new \in req[q].row, mine \in req[r].seen :
            new.login # mine.login /\ new.person \cap mine.person = {}

Hold(r, row) == req' = [req EXCEPT ![r].at = "held", ![r].row = row]
Refuse(r)    == req' = Ended(r)

\* Mutant: whoever was verified once.
AnyRow(r, row) == row # {}

\* The login is still there with the hash that was verified.
StillVerified(r, row) == \E u \in row, v \in req[r].seen : u.hash = v.hash

\* open_session, apply_password_change and reset_password read the login
\* under its lock.
LockUser(r) ==
    /\ req[r].at = "checked" /\ req[r].kind \in {"login", "change", "reset"}
    /\ GateOpen(r) /\ RowFree(r)
    /\ LET row == Row(req[r].login)
           ok  == IF req[r].kind = "reset" THEN row # {} ELSE StillVerified(r, row)
       IN  IF ok THEN Hold(r, row) ELSE Refuse(r)
    /\ UNCHANGED <<users, sessions>>

\* _create_user_unit: the rules again, then add_user.
AddUser(r) ==
    /\ req[r].at = "checked" /\ req[r].kind = "create"
    /\ GateOpen(r) /\ InsertFree(r)
    /\ IF \A u \in req[r].seen : NewUserAccepted(u) THEN Hold(r, req[r].seen) ELSE Refuse(r)
    /\ UNCHANGED <<users, sessions>>

LockAdminChanges(r) ==
    /\ req[r].at = "checked" /\ req[r].kind \in {"delete", "wipe"}
    /\ GateOpen(r) /\ AdminLockFree(r)
    /\ req' = [req EXCEPT ![r].at = "admins"]
    /\ UNCHANGED <<users, sessions>>

\* _delete_user_checked; deleting an unknown login does nothing.
LockDeleted(r) ==
    /\ req[r].at = "admins" /\ req[r].kind = "delete"
    /\ RowFree(r)
    /\ LET row  == Row(req[r].login)
           self == req[r].login = req[r].by
           last == row \cap Admins # {} /\ Admins \subseteq row
       IN  IF row # {} /\ (self \/ last) THEN Refuse(r) ELSE Hold(r, row)
    /\ UNCHANGED <<users, sessions>>

\* _wipe_users: the caller and the default login stay, and every
\* administrator when neither of them is one.
ChooseWiped(r) ==
    /\ req[r].at = "admins" /\ req[r].kind = "wipe"
    /\ LET keep == {u \in users : u.login \in {DefaultAdmin, req[r].by}}
           kept == IF keep \cap Admins = {} THEN keep \cup Admins ELSE keep
       IN  Hold(r, users \ kept)
    /\ UNCHANGED <<users, sessions>>

-----------------------------------------------------------------------------
(***************************************************************************)
(* The store parts commit.                                                 *)
(***************************************************************************)

Held(r, kind) == req[r].at = "held" /\ req[r].kind = kind

\* The calls and sessions that the end of a login's access concerns.
MarkOutlived(ended, login, outlived) == outlived \/ login \in ended

EndAccess(r, ended, deleted) ==
    /\ sessions' = {[s EXCEPT !.outlived = MarkOutlived(ended, s.login, @)] :
                        s \in {s \in sessions : s.login \notin deleted}}
    /\ req' = [q \in Request |->
                 IF q # r /\ req[q].kind = "login" /\ req[q].at \in {"checked", "held"}
                 THEN [req[q] EXCEPT !.outlived = MarkOutlived(ended, req[q].login, @)]
                 ELSE Ended(r)[q]]

OpenSession(r) ==
    /\ Held(r, "login")
    /\ sessions' = sessions \cup
         {[token |-> r, login |-> req[r].login, outlived |-> req[r].outlived]}
    /\ req' = Ended(r)
    /\ UNCHANGED users

\* put_user writes the columns that differ from what the unit read.
Written(u, read, hash, must) ==
    [u EXCEPT !.hash = IF hash = read.hash THEN @ ELSE hash,
              !.must = IF must = read.must THEN @ ELSE must]

PutUser(r, must) ==
    users' = {IF \E read \in req[r].row : read.login = u.login
              THEN Written(u, CHOOSE read \in req[r].row : TRUE, r, must)
              ELSE u : u \in users}

ApplyPasswordChange(r) ==
    /\ Held(r, "change")
    /\ PutUser(r, FALSE)
    /\ req' = Ended(r)
    /\ UNCHANGED sessions

ResetPassword(r) ==
    /\ Held(r, "reset")
    /\ PutUser(r, TRUE)
    /\ EndAccess(r, {req[r].login}, {req[r].login})

StoreNewUser(r) ==
    /\ Held(r, "create")
    /\ users' = users \cup req[r].row
    /\ req' = Ended(r)
    /\ UNCHANGED sessions

\* delete_user reads the login again: one that was unknown under the lock may
\* have been created since, and its DELETE waits for whoever holds the row.  The
\* sessions of the login end in the same unit, those of an unknown one too.
DeleteUser(r) ==
    /\ Held(r, "delete") /\ RowFree(r)
    /\ users' = users \ Row(req[r].login)
    /\ EndAccess(r, {u.login : u \in Row(req[r].login)}, {req[r].login})

WipeUsers(r) ==
    /\ Held(r, "wipe")
    /\ LET gone == {u.login : u \in req[r].row}
       IN  /\ users' = {u \in users : u.login \notin gone}
           /\ EndAccess(r, gone, gone)

\* _put_initial_admin, in a transaction of its own.
PutInitialAdmin(r) ==
    /\ req[r].at = "checked" /\ req[r].kind = "start"
    /\ RowFree(r) /\ InsertFree(r)
    /\ users' = (users \ Row(req[r].login)) \cup req[r].seen
    /\ req' = Ended(r)
    /\ UNCHANGED sessions

\* A unit is rolled back: an error, a lost connection, the end of its process.
RollBack(r) ==
    /\ InUnit(r)
    /\ req' = Ended(r)
    /\ UNCHANGED <<users, sessions>>

\* logout; an expired session is removed the same way.
Logout ==
    \E s \in sessions : sessions' = sessions \ {s} /\ UNCHANGED <<users, req>>

Arrive(r) ==
    \/ VerifyLogin(r) \/ PreparePasswordChange(r) \/ CreateArrives(r) \/ ResetArrives(r)
    \/ DeleteArrives(r) \/ WipeArrives(r) \/ StartArrives(r)

Enter(r) ==
    LockUser(r) \/ AddUser(r) \/ LockAdminChanges(r) \/ LockDeleted(r) \/ ChooseWiped(r)

Commit(r) ==
    \/ OpenSession(r) \/ ApplyPasswordChange(r) \/ ResetPassword(r) \/ StoreNewUser(r)
    \/ DeleteUser(r) \/ WipeUsers(r) \/ PutInitialAdmin(r)

Quiet == (\A r \in Request : req[r].at = "ended") /\ UNCHANGED vars

Next ==
    \/ \E r \in Request : Arrive(r) \/ Enter(r) \/ Commit(r) \/ RollBack(r)
    \/ Logout
    \/ Quiet

Spec == Init /\ [][Next]_vars

-----------------------------------------------------------------------------
(***************************************************************************)
(* Properties.                                                             *)
(***************************************************************************)

(* A reset or the deletion of a login ends every access to it, also the    *)
(* one that is just being opened: no session whose password was verified   *)
(* before outlives it (open_session against reset_password, delete_user    *)
(* and _wipe_users).                                                       *)
NoAccessOutlivesItsEnd == \A s \in sessions : ~s.outlived

(* Who works with the system can be administered: administrators deleting  *)
(* each other, a wipe and rolled-back units in any order never take the    *)
(* last one (_delete_user_checked, _wipe_users, lock_admin_changes).       *)
AnAdminRemains == [][Admins # {} => Admins' # {}]_vars

Kinds  == {"login", "change", "reset", "create", "delete", "wipe", "start"}
Places == {"new", "checked", "admins", "held", "ended"}

Calls == [kind : Kinds \cup {"none"}, at : Places, by : Login \cup {""},
          login : Login \cup {""}, seen : SUBSET UserRow, row : SUBSET UserRow,
          outlived : BOOLEAN]

TypeOK ==
    users \subseteq UserRow /\ sessions \subseteq SessionRow /\ req \in [Request -> Calls]

(* The rows are what the tables take, and a person has one login and a     *)
(* login name one row, however many creations run at once (check_new_user, *)
(* add_user).                                                              *)
OneLoginPerPerson ==
    /\ TypeOK
    /\ \A u, o \in users : u # o => u.login # o.login /\ u.person \cap o.person = {}

Derived(kinds) == {r \in Request : req[r].kind \in kinds}

InitialPasswordsMustChange ==
    \A u \in users :
        /\ u.hash \in Derived({"reset", "create", "start"}) => u.must
        /\ u.hash \in Derived({"change"}) => ~u.must

ChangeReplacesWhatWasKnown ==
    \A u \in users' : u.hash \in Derived({"change"}) /\ u.hash \notin {o.hash : o \in users} =>
        \E o \in Row(u.login), v \in req[u.hash].seen : o.hash = v.hash

(* Passwords do not mix: a reset and a change of the same login at once    *)
(* never leave the one's password with the other's forced-change flag, and *)
(* a change replaces the password its caller knew -- it neither undoes a   *)
(* reset nor brings back a deleted login (apply_password_change,           *)
(* reset_password, put_user).                                              *)
PasswordsNeverMix == []InitialPasswordsMustChange /\ [][ChangeReplacesWhatWasKnown]_vars

=============================================================================
