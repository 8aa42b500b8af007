---------------------------- MODULE IdentityProofs ----------------------------
(***************************************************************************)
(* Logins and sessions for any number of calls, logins and persons, and    *)
(* any consistent store: one login per person, no access that outlives its *)
(* end, an administrator that remains, and passwords that never mix.       *)
(***************************************************************************)
EXTENDS Identity, TLAPS

\* A hash somebody works with was derived by a call that has ended.
Used(h) == h \in Request => req[h].at = "ended"

Fits(n, u) == n.login # u.login /\ n.person \cap u.person = {}

\* What a call brings along from before its unit.
Brings(r) ==
    req[r].at \in {"checked", "held"} =>
        /\ req[r].kind \in {"login", "change"} => \A v \in req[r].seen : Used(v.hash)
        /\ req[r].kind \in {"create", "start"} =>
            /\ req[r].seen # {} /\ \A n, m \in req[r].seen : n = m
            /\ \A n \in req[r].seen : n.login = req[r].login /\ n.hash = r /\ n.must
        /\ req[r].kind = "start" => \A n \in req[r].seen : n.person = {} /\ n.admin

\* What a unit that has read may rely on until it commits.
Holds(r) ==
    /\ req[r].at = "admins" => req[r].kind \in {"delete", "wipe"}
    /\ req[r].at = "held" =>
        /\ req[r].kind \in {"login", "change", "reset", "create", "delete", "wipe"}
        /\ req[r].kind \in {"login", "change", "reset"} =>
               req[r].row = Row(req[r].login) /\ req[r].row # {}
        /\ req[r].kind \in {"login", "change"} => StillVerified(r, req[r].row)
        /\ req[r].kind = "login" => ~req[r].outlived
        /\ req[r].kind = "create" =>
               req[r].row = req[r].seen /\ \A n \in req[r].row, u \in users : Fits(n, u)
        /\ req[r].kind = "delete" => \E a \in Admins : a.login # req[r].login
        /\ req[r].kind = "wipe" => \E a \in Admins : \A h \in req[r].row : h.login # a.login

\* A verification whose login has been reset or deleted since is worth nothing.
Overtaken(r) ==
    req[r].kind = "login" /\ req[r].at = "checked" /\ req[r].outlived =>
        \A u \in Row(req[r].login), v \in req[r].seen : u.hash # v.hash

\* Whoever takes logins away was an administrator.
Administered(r) ==
    req[r].kind \in {"delete", "wipe"} /\ req[r].at \in {"checked", "admins", "held"} =>
        Admins # {}

Fit(r) == Brings(r) /\ Holds(r) /\ Overtaken(r) /\ Administered(r)

\* Two units hold different logins, and insert different ones; only one changes
\* the set of administrators, and the wipe is alone.
Apart(q, r) ==
    InUnit(q) /\ InUnit(r) =>
        /\ req[q].kind # "wipe" /\ req[r].kind # "wipe"
        /\ req[q].kind # "delete" \/ req[r].kind # "delete"
        /\ req[q].at = "held" /\ req[r].at = "held" =>
            /\ req[q].kind = "create" /\ req[r].kind = "create" =>
                   \A n \in req[q].row, m \in req[r].row : Fits(n, m)
            /\ req[q].kind # "create" /\ req[r].kind # "create" =>
                   \A h \in req[q].row, g \in req[r].row : h.login # g.login

AllFit == \A r \in Request : Fit(r)
AllApart == \A q, r \in Request : q # r => Apart(q, r)
HashesUsed == \A u \in users : Used(u.hash)

IInv ==
    /\ OneLoginPerPerson
    /\ NoAccessOutlivesItsEnd
    /\ HashesUsed
    /\ InitialPasswordsMustChange
    /\ AllFit
    /\ AllApart

-----------------------------------------------------------------------------

(***************************************************************************)
(* Frames: what leaves the requirements on a call alone.                   *)
(***************************************************************************)

\* Everything of a call but whether its login has been reset or deleted.
Kept(q) ==
    /\ req'[q].at = req[q].at /\ req'[q].kind = req[q].kind
    /\ req'[q].login = req[q].login
    /\ req'[q].seen = req[q].seen /\ req'[q].row = req[q].row

EndedStay == \A s \in Request : req[s].at = "ended" => req'[s].at = "ended"

AdminLoginsStay == \A a \in Admins : \E b \in Admins' : b.login = a.login

AdminStays == Admins # {} => Admins' # {}

(* What a call needs is kept as long as the logins it holds or inserts are *)
(* left alone and administrators stay (the locks of db.py).                *)
LEMMA OtherFits ==
    ASSUME NEW q \in Request, Fit(q), Kept(q), EndedStay, AdminStays,
           req[q].at = "held" /\ req[q].kind \in {"login", "change", "reset"} =>
               /\ Row(req[q].login)' = Row(req[q].login)
               /\ req'[q].outlived = req[q].outlived,
           req[q].at = "held" /\ req[q].kind = "create" =>
               \A n \in req[q].row, u \in users' : Fits(n, u),
           req[q].at = "held" /\ req[q].kind \in {"delete", "wipe"} => AdminLoginsStay,
           Overtaken(q)'
    PROVE  Fit(q)'
<1>1. Brings(q)'
    BY DEF Fit, Brings, Kept, EndedStay, Used
<1>2. Administered(q)'
    BY DEF Fit, Administered, Kept, AdminStays
<1>3. Holds(q)'
    <2>1. req'[q].at = "admins" => req'[q].kind \in {"delete", "wipe"}
        BY DEF Fit, Holds, Kept
    <2> SUFFICES ASSUME req[q].at = "held"
                 PROVE  Holds(q)'
        BY <2>1 DEF Holds, Kept
    <2>2. req'[q].kind \in {"login", "change", "reset", "create", "delete", "wipe"}
        BY DEF Fit, Holds, Kept
    <2>3. req'[q].kind \in {"login", "change", "reset"} =>
              req'[q].row = Row(req[q].login)' /\ req'[q].row # {}
        BY DEF Fit, Holds, Kept
    <2>4. req'[q].kind \in {"login", "change"} => StillVerified(q, req[q].row)'
        BY DEF Fit, Holds, Kept, StillVerified
    <2>5. req'[q].kind = "login" => ~req'[q].outlived
        BY DEF Fit, Holds, Kept
    <2>6. req'[q].kind = "create" =>
              req'[q].row = req'[q].seen /\ \A n \in req'[q].row, u \in users' : Fits(n, u)
        BY DEF Fit, Holds, Kept
    <2>7. req'[q].kind = "delete" => \E a \in Admins' : a.login # req'[q].login
        BY DEF Fit, Holds, Kept, AdminLoginsStay
    <2>8. req'[q].kind = "wipe" => \E a \in Admins' : \A h \in req'[q].row : h.login # a.login
        BY DEF Fit, Holds, Kept, AdminLoginsStay
    <2> QED BY <2>1, <2>2, <2>3, <2>4, <2>5, <2>6, <2>7, <2>8
        DEF Holds, Kept, StillVerified, Row
<1> QED BY <1>1, <1>2, <1>3 DEF Fit

(* Calls that keep their rows stay apart.                                  *)
LEMMA StayApart ==
    ASSUME NEW q \in Request, NEW s \in Request, Kept(q), Kept(s), Apart(q, s)
    PROVE  Apart(q, s)'
BY DEF Apart, Kept, InUnit, Fits

(* A call outside a unit is apart from every other.                        *)
LEMMA OutsideApart ==
    ASSUME NEW q \in Request, NEW s \in Request, ~InUnit(q)' \/ ~InUnit(s)'
    PROVE  Apart(q, s)'
BY DEF Apart, InUnit

(* One call moves on and the logins stay: the others are left as they were.*)
LEMMA CallMoves ==
    ASSUME IInv, NEW r \in Request, NEW x \in Calls, req[r].at # "ended",
           req' = [req EXCEPT ![r] = x], users' = users,
           sessions' \subseteq SessionRow, NoAccessOutlivesItsEnd',
           Fit(r)', \A q \in Request : q # r => Apart(q, r)' /\ Apart(r, q)'
    PROVE  IInv'
<1>1. TypeOK /\ req \in [Request -> Calls]
    BY DEF IInv, OneLoginPerPerson, TypeOK
<1>2. TypeOK' /\ OneLoginPerPerson'
    BY <1>1 DEF IInv, OneLoginPerPerson, TypeOK
<1>3. \A q \in Request : q # r => req'[q] = req[q]
    BY <1>1
<1>4. EndedStay
    BY <1>3 DEF EndedStay
<1>5. \A q \in Request : q # r => Kept(q)
    BY <1>3 DEF Kept
<1>6. Admins' = Admins /\ AdminStays /\ AdminLoginsStay
    BY DEF Admins, AdminStays, AdminLoginsStay
<1>7. ASSUME NEW q \in Request, q # r PROVE Fit(q)'
    <2>1. Fit(q) /\ Overtaken(q)
        BY DEF IInv, AllFit, Fit
    <2>2. Overtaken(q)'
        BY <2>1, <1>3, <1>7 DEF Overtaken, Row
    <2>3. Row(req[q].login)' = Row(req[q].login) /\ req'[q].outlived = req[q].outlived
        BY <1>3, <1>7 DEF Row
    <2>4. req[q].at = "held" /\ req[q].kind = "create" =>
              \A n \in req[q].row, u \in users' : Fits(n, u)
        BY <2>1 DEF Fit, Holds
    <2> QED BY <2>1, <2>2, <2>3, <2>4, <1>4, <1>5, <1>6, <1>7, OtherFits
<1>8. AllApart'
    <2> SUFFICES ASSUME NEW q \in Request, NEW s \in Request, q # s PROVE Apart(q, s)'
        BY DEF AllApart
    <2>1. CASE q = r \/ s = r
        BY <2>1
    <2>2. CASE q # r /\ s # r
        BY <2>2, <1>5, StayApart DEF IInv, AllApart
    <2> QED BY <2>1, <2>2
<1>9. HashesUsed'
    BY <1>4 DEF IInv, HashesUsed, Used, EndedStay
<1>10. InitialPasswordsMustChange'
    <2>1. \A u \in users : u.hash # r
        BY DEF IInv, HashesUsed, Used
    <2>2. \A u \in users : \A kinds : u.hash \in Derived(kinds)' => u.hash \in Derived(kinds)
        BY <2>1, <1>3 DEF Derived
    <2> QED BY <2>2 DEF IInv, InitialPasswordsMustChange
<1> QED BY <1>2, <1>7, <1>8, <1>9, <1>10 DEF IInv, AllFit

-----------------------------------------------------------------------------
(***************************************************************************)
(* Calls that arrive or are refused.                                       *)
(***************************************************************************)

(* A call that has checked fits when it names what is there now.           *)
LEMMA Arriving ==
    ASSUME IInv, NEW r \in Request, NEW x \in Calls, Arrives(r, x),
           x.at = "checked", ~x.outlived,
           x.kind \in {"login", "change"} => x.seen \subseteq users,
           x.kind \in {"create", "start"} =>
               \E n \in UserRow : /\ x.seen = {n} /\ n.login = x.login /\ n.hash = r /\ n.must
                                  /\ x.kind = "start" => n.person = {} /\ n.admin,
           x.kind \in {"delete", "wipe"} => Admins # {}
    PROVE  IInv'
<1>1. /\ req[r].at = "new" /\ req' = [req EXCEPT ![r] = x]
      /\ users' = users /\ sessions' = sessions
    BY DEF Arrives
<1>2. req \in [Request -> Calls] /\ sessions \subseteq SessionRow
    BY DEF IInv, OneLoginPerPerson, TypeOK
<1>3. req'[r] = x /\ \A q \in Request : req[q].at = "ended" => req'[q].at = "ended"
    BY <1>1, <1>2
<1>4. Brings(r)'
    <2>1. x.kind \in {"login", "change"} => \A v \in x.seen : Used(v.hash)'
        BY <1>3 DEF IInv, HashesUsed, Used
    <2> QED BY <2>1, <1>3 DEF Brings
<1>5. Holds(r)' /\ Overtaken(r)'
    BY <1>3 DEF Holds, Overtaken
<1>6. Administered(r)'
    BY <1>1, <1>3 DEF Administered, Admins
<1>7. \A q \in Request : q # r => Apart(q, r)' /\ Apart(r, q)'
    BY <1>3, OutsideApart DEF InUnit
<1>8. NoAccessOutlivesItsEnd' /\ sessions' \subseteq SessionRow
    BY <1>1, <1>2 DEF IInv, NoAccessOutlivesItsEnd
<1> QED BY <1>1, <1>4, <1>5, <1>6, <1>7, <1>8, CallMoves DEF Fit

(* What arrives is a call.                                                 *)
LEMMA CallIsTyped ==
    ASSUME NEW kind \in Kinds, NEW by \in Login \cup {""}, NEW l \in Login \cup {""},
           NEW seen \in SUBSET UserRow
    PROVE  Call(kind, by, l, seen) \in Calls
BY DEF Call, Calls, Places

(* No call that arrives disturbs the others (the checks before the unit).  *)
LEMMA ArriveKeeps ==
    ASSUME IInv, NEW r \in Request, Arrive(r)
    PROVE  IInv' /\ users' = users
<1>1. users \subseteq UserRow /\ (\A u \in users : u.login \in Login)
    BY DEF IInv, OneLoginPerPerson, TypeOK, UserRow
<1>2. Principals \subseteq users /\ ActingAdmins \subseteq users /\ ActingAdmins \subseteq Admins
    BY DEF Principals, ActingAdmins, Admins
<1>3. users' = users
    BY DEF Arrive, VerifyLogin, PreparePasswordChange, CreateArrives, ResetArrives,
           DeleteArrives, WipeArrives, StartArrives, Arrives
<1>4. ASSUME NEW l \in Login, NEW person \in SUBSET Person, NEW admin \in BOOLEAN
      PROVE  /\ NewUser(r, l, person, admin) \in UserRow
             /\ NewUser(r, l, person, admin).login = l /\ NewUser(r, l, person, admin).hash = r
             /\ NewUser(r, l, person, admin).must
             /\ NewUser(r, l, person, admin).person = person
             /\ NewUser(r, l, person, admin).admin = admin
    BY DEF NewUser, UserRow
<1>5. CASE VerifyLogin(r)
    <2>1. PICK u \in users : Arrives(r, Call("login", "", u.login, {u}))
        BY <1>5 DEF VerifyLogin
    <2> DEFINE x == Call("login", "", u.login, {u})
    <2>2. x \in Calls
        BY <1>1, CallIsTyped DEF Kinds
    <2>3. x.at = "checked" /\ ~x.outlived /\ x.kind = "login" /\ x.seen \subseteq users
        BY DEF Call
    <2> HIDE DEF x
    <2> QED BY <2>1, <2>2, <2>3, <1>3, Arriving DEF x
<1>6. CASE PreparePasswordChange(r)
    <2>1. PICK u \in Principals : Arrives(r, Call("change", u.login, u.login, {u}))
        BY <1>6 DEF PreparePasswordChange
    <2> DEFINE x == Call("change", u.login, u.login, {u})
    <2>2. x \in Calls
        BY <1>1, <1>2, CallIsTyped DEF Kinds
    <2>3. x.at = "checked" /\ ~x.outlived /\ x.kind = "change" /\ x.seen \subseteq users
        BY <1>2 DEF Call
    <2>4. Arrives(r, x)
        BY <2>1
    <2> HIDE DEF x
    <2> QED BY <2>2, <2>3, <2>4, <1>3, Arriving
<1>7. CASE CreateArrives(r)
    <2>1. PICK a \in ActingAdmins, l \in Login, admin \in BOOLEAN,
               person \in {{}} \cup {{p} : p \in Person} :
              Arrives(r, Call("create", a.login, l, {NewUser(r, l, person, admin)}))
        BY <1>7 DEF CreateArrives
    <2> DEFINE n == NewUser(r, l, person, admin)
    <2> DEFINE x == Call("create", a.login, l, {n})
    <2>2. n \in UserRow /\ n.login = l /\ n.hash = r /\ n.must
        BY <1>4
    <2> HIDE DEF n
    <2>3. x \in Calls
        BY <1>1, <1>2, <2>2, CallIsTyped DEF Kinds
    <2>4. x.at = "checked" /\ ~x.outlived /\ x.kind = "create" /\ x.seen = {n} /\ x.login = l
        BY DEF Call
    <2>5. Arrives(r, x)
        BY <2>1 DEF n
    <2> HIDE DEF x
    <2> QED BY <2>2, <2>3, <2>4, <2>5, <1>3, Arriving
<1>8. CASE ResetArrives(r)
    <2>1. PICK a \in ActingAdmins, u \in users : Arrives(r, Call("reset", a.login, u.login, {}))
        BY <1>8 DEF ResetArrives
    <2> DEFINE x == Call("reset", a.login, u.login, {})
    <2>2. x \in Calls
        BY <1>1, <1>2, CallIsTyped DEF Kinds
    <2>3. x.at = "checked" /\ ~x.outlived /\ x.kind = "reset"
        BY DEF Call
    <2>4. Arrives(r, x)
        BY <2>1
    <2> HIDE DEF x
    <2> QED BY <2>2, <2>3, <2>4, <1>3, Arriving
<1>9. CASE DeleteArrives(r)
    <2>1. PICK a \in ActingAdmins, l \in Login : Arrives(r, Call("delete", a.login, l, {}))
        BY <1>9 DEF DeleteArrives
    <2> DEFINE x == Call("delete", a.login, l, {})
    <2>2. x \in Calls
        BY <1>1, <1>2, CallIsTyped DEF Kinds
    <2>3. x.at = "checked" /\ ~x.outlived /\ x.kind = "delete" /\ Admins # {}
        BY <1>2 DEF Call
    <2>4. Arrives(r, x)
        BY <2>1
    <2> HIDE DEF x
    <2> QED BY <2>2, <2>3, <2>4, <1>3, Arriving
<1>10. CASE WipeArrives(r)
    <2>1. PICK a \in ActingAdmins : Arrives(r, Call("wipe", a.login, "", {}))
        BY <1>10 DEF WipeArrives
    <2> DEFINE x == Call("wipe", a.login, "", {})
    <2>2. x \in Calls
        BY <1>1, <1>2, CallIsTyped DEF Kinds
    <2>3. x.at = "checked" /\ ~x.outlived /\ x.kind = "wipe" /\ Admins # {}
        BY <1>2 DEF Call
    <2>4. Arrives(r, x)
        BY <2>1
    <2> HIDE DEF x
    <2> QED BY <2>2, <2>3, <2>4, <1>3, Arriving
<1>11. CASE StartArrives(r)
    <2>1. PICK l \in Login : Arrives(r, Call("start", "", l, {NewUser(r, l, {}, TRUE)}))
        BY <1>11, IdentityTypes DEF StartArrives
    <2> DEFINE n == NewUser(r, l, {}, TRUE)
    <2> DEFINE x == Call("start", "", l, {n})
    <2>2. n \in UserRow /\ n.login = l /\ n.hash = r /\ n.must /\ n.person = {} /\ n.admin
        BY DEF NewUser, UserRow
    <2> HIDE DEF n
    <2>3. x \in Calls
        BY <2>2, CallIsTyped DEF Kinds
    <2>4. x.at = "checked" /\ ~x.outlived /\ x.kind = "start" /\ x.seen = {n} /\ x.login = l
        BY DEF Call
    <2>5. Arrives(r, x)
        BY <2>1 DEF n
    <2> HIDE DEF x
    <2> QED BY <2>2, <2>3, <2>4, <2>5, <1>3, Arriving
<1> QED BY <1>3, <1>5, <1>6, <1>7, <1>8, <1>9, <1>10, <1>11 DEF Arrive

(* A call that ends without a write leaves the others as they were.        *)
LEMMA Ends ==
    ASSUME IInv, NEW r \in Request, req[r].at # "ended", req' = Ended(r), users' = users,
           sessions' \subseteq SessionRow, NoAccessOutlivesItsEnd'
    PROVE  IInv'
<1> DEFINE x == [Call(req[r].kind, "", "", {}) EXCEPT !.at = "ended"]
<1>1. req \in [Request -> Calls]
    BY DEF IInv, OneLoginPerPerson, TypeOK
<1>2. req[r].kind \in Kinds \cup {"none"}
    BY <1>1 DEF Calls
<1>3. x \in Calls
    BY <1>2 DEF Call, Calls, Places
<1>4. x.at = "ended"
    BY DEF Call
<1>5. req' = [req EXCEPT ![r] = x]
    BY <1>1 DEF Ended
<1> HIDE DEF x
<1>6. req'[r].at = "ended"
    BY <1>1, <1>4, <1>5
<1>7. Fit(r)'
    BY <1>6 DEF Fit, Brings, Holds, Overtaken, Administered
<1>8. ~InUnit(r)'
    BY <1>6 DEF InUnit
<1>9. \A q \in Request : q # r => Apart(q, r)' /\ Apart(r, q)'
    BY <1>8, OutsideApart
<1> QED BY <1>3, <1>5, <1>7, <1>9, CallMoves

-----------------------------------------------------------------------------
(***************************************************************************)
(* Calls that enter their unit.                                            *)
(***************************************************************************)

\* The units a call has to be apart from once it holds these rows.
ApartWith(r, row) == \A q \in Request : q # r /\ InUnit(q) =>
    /\ req[q].kind # "wipe" /\ req[r].kind # "wipe"
    /\ req[q].kind # "delete" \/ req[r].kind # "delete"
    /\ req[q].at = "held" =>
        /\ req[q].kind = "create" /\ req[r].kind = "create" =>
               \A n \in req[q].row, m \in row : Fits(n, m)
        /\ req[q].kind # "create" /\ req[r].kind # "create" =>
               \A h \in req[q].row, g \in row : h.login # g.login

\* What the rows a unit has read are good for.
Justified(r, row) ==
    /\ req[r].kind \in {"login", "change", "reset"} => row = Row(req[r].login) /\ row # {}
    /\ req[r].kind \in {"login", "change"} => StillVerified(r, row)
    /\ req[r].kind = "create" => row = req[r].seen /\ \A n \in row, u \in users : Fits(n, u)
    /\ req[r].kind = "delete" => \E a \in Admins : a.login # req[r].login
    /\ req[r].kind = "wipe" => \E a \in Admins : \A h \in row : h.login # a.login

(* A unit that holds justified rows, apart from the others, fits.          *)
LEMMA Holding ==
    ASSUME IInv, NEW r \in Request, NEW row \in SUBSET UserRow, Hold(r, row),
           users' = users, sessions' = sessions,
           \/ req[r].at = "checked" /\ req[r].kind \in {"login", "change", "reset", "create"}
           \/ req[r].at = "admins" /\ req[r].kind \in {"delete", "wipe"},
           Justified(r, row), ApartWith(r, row)
    PROVE  IInv'
<1> DEFINE x == [req[r] EXCEPT !.at = "held", !.row = row]
<1>1. req \in [Request -> Calls] /\ sessions \subseteq SessionRow /\ NoAccessOutlivesItsEnd
    BY DEF IInv, OneLoginPerPerson, TypeOK
<1>2. /\ x \in Calls /\ x.at = "held" /\ x.row = row
      /\ x.kind = req[r].kind /\ x.login = req[r].login /\ x.seen = req[r].seen
      /\ x.outlived = req[r].outlived
    BY <1>1 DEF Calls, Places
<1>3. req' = [req EXCEPT ![r] = x]
    BY <1>1 DEF Hold, Calls
<1> HIDE DEF x
<1>4. req'[r] = x /\ \A q \in Request : q # r => req'[q] = req[q]
    BY <1>1, <1>3
<1>5. Fit(r)
    BY DEF IInv, AllFit
<1>6. Brings(r)'
    <2>1. \A h : Used(h) => Used(h)'
        BY <1>4 DEF Used
    <2> QED BY <2>1, <1>2, <1>4, <1>5 DEF Brings, Fit
<1>7. Holds(r)'
    <2>1. req[r].kind = "login" => ~req[r].outlived
        BY <1>5 DEF Fit, Overtaken, Justified, StillVerified
    <2>2. req'[r].at = "held" /\ req'[r].row = row
          /\ req'[r].kind = req[r].kind /\ req'[r].login = req[r].login
          /\ req'[r].seen = req[r].seen /\ req'[r].outlived = req[r].outlived
        BY <1>2, <1>4
    <2>3. req'[r].kind \in {"login", "change", "reset"} =>
              row = Row(req[r].login)' /\ row # {}
        BY <2>2 DEF Justified, Row
    <2>4. req'[r].kind \in {"login", "change"} => \E u \in row, v \in req[r].seen : u.hash = v.hash
        BY <2>2 DEF Justified, StillVerified
    <2>5. req'[r].kind = "create" => row = req[r].seen /\ \A n \in row, u \in users' : Fits(n, u)
        BY <2>2 DEF Justified
    <2>6. req'[r].kind = "delete" => \E a \in Admins' : a.login # req[r].login
        BY <2>2 DEF Justified, Admins
    <2>7. req'[r].kind = "wipe" => \E a \in Admins' : \A h \in row : h.login # a.login
        BY <2>2 DEF Justified, Admins
    <2> QED BY <2>1, <2>2, <2>3, <2>4, <2>5, <2>6, <2>7 DEF Holds, StillVerified, Row
<1>8. Overtaken(r)'
    BY <1>2, <1>4 DEF Overtaken
<1>9. Administered(r)'
    BY <1>2, <1>4, <1>5 DEF Administered, Fit, Admins
<1>10. ASSUME NEW q \in Request, q # r PROVE Apart(q, r)' /\ Apart(r, q)'
    <2>1. req'[q] = req[q]
        BY <1>4, <1>10
    <2>2. InUnit(q)' => InUnit(q)
        BY <2>1 DEF InUnit
    <2>3. InUnit(q) => /\ req[q].kind # "wipe" /\ req[r].kind # "wipe"
                       /\ req[q].kind # "delete" \/ req[r].kind # "delete"
        BY <1>10 DEF ApartWith
    <2>4. InUnit(q) /\ req[q].at = "held" =>
              /\ req[q].kind = "create" /\ req[r].kind = "create" =>
                     \A n \in req[q].row, m \in row : Fits(n, m) /\ Fits(m, n)
              /\ req[q].kind # "create" /\ req[r].kind # "create" =>
                     \A h \in req[q].row, g \in row : h.login # g.login
        BY <1>10 DEF ApartWith, Fits
    <2> QED BY <1>2, <1>4, <2>1, <2>2, <2>3, <2>4 DEF Apart
<1>11. Fit(r)'
    BY <1>6, <1>7, <1>8, <1>9 DEF Fit
<1>12. req[r].at # "ended" /\ sessions' \subseteq SessionRow /\ NoAccessOutlivesItsEnd'
    BY <1>1 DEF NoAccessOutlivesItsEnd
<1> QED BY <1>2, <1>3, <1>10, <1>11, <1>12, CallMoves

(* A call that was wrong, or comes too late, ends.                         *)
LEMMA RefuseKeeps ==
    ASSUME IInv, NEW r \in Request, req[r].at # "ended", Refuse(r),
           UNCHANGED <<users, sessions>>
    PROVE  IInv'
<1>1. sessions' \subseteq SessionRow /\ NoAccessOutlivesItsEnd'
    BY DEF IInv, OneLoginPerPerson, TypeOK, NoAccessOutlivesItsEnd
<1> QED BY <1>1, Ends DEF Refuse

(* A login is opened, changed or reset on the row that is held.            *)
LEMMA LockUserKeeps ==
    ASSUME IInv, NEW r \in Request, LockUser(r)
    PROVE  IInv'
<1> DEFINE row == Row(req[r].login)
<1>1. /\ req[r].at = "checked" /\ req[r].kind \in {"login", "change", "reset"}
      /\ GateOpen(r) /\ RowFree(r) /\ users' = users /\ sessions' = sessions
    BY DEF LockUser
<1>2. row \in SUBSET UserRow
    BY DEF IInv, OneLoginPerPerson, TypeOK, Row
<1>3. CASE Refuse(r)
    BY <1>1, <1>3, RefuseKeeps
<1>4. CASE Hold(r, row) /\ ~Refuse(r)
    <2>1. IF req[r].kind = "reset" THEN row # {} ELSE StillVerified(r, row)
        BY <1>4 DEF LockUser
    <2>2. Justified(r, row)
        BY <1>1, <2>1 DEF Justified, StillVerified
    <2>3. ApartWith(r, row)
        BY <1>1 DEF ApartWith, GateOpen, RowFree, Others
    <2> HIDE DEF row
    <2> QED BY <1>1, <1>2, <1>4, <2>2, <2>3, Holding
<1> QED BY <1>3, <1>4 DEF LockUser

(* A new login is inserted when nobody has it and nobody inserts it.       *)
LEMMA AddUserKeeps ==
    ASSUME IInv, NEW r \in Request, AddUser(r)
    PROVE  IInv'
<1>1. /\ req[r].at = "checked" /\ req[r].kind = "create"
      /\ GateOpen(r) /\ InsertFree(r) /\ users' = users /\ sessions' = sessions
    BY DEF AddUser
<1>2. req[r].seen \in SUBSET UserRow
    BY DEF IInv, OneLoginPerPerson, TypeOK, Calls
<1>3. CASE Refuse(r)
    BY <1>1, <1>3, RefuseKeeps
<1>4. CASE Hold(r, req[r].seen) /\ ~Refuse(r)
    <2>1. \A n \in req[r].seen, u \in users : Fits(n, u)
        BY <1>4 DEF AddUser, NewUserAccepted, Fits
    <2>2. Justified(r, req[r].seen)
        BY <1>1, <2>1 DEF Justified
    <2>3. ApartWith(r, req[r].seen)
        BY <1>1 DEF ApartWith, GateOpen, InsertFree, Others, Fits
    <2> QED BY <1>1, <1>2, <1>4, <2>2, <2>3, Holding
<1> QED BY <1>3, <1>4 DEF AddUser

(* Administrators are deleted by one unit at a time.                       *)
LEMMA LockAdminChangesKeeps ==
    ASSUME IInv, NEW r \in Request, LockAdminChanges(r)
    PROVE  IInv'
<1> DEFINE x == [req[r] EXCEPT !.at = "admins"]
<1>1. /\ req[r].at = "checked" /\ req[r].kind \in {"delete", "wipe"}
      /\ GateOpen(r) /\ AdminLockFree(r) /\ users' = users /\ sessions' = sessions
    BY DEF LockAdminChanges
<1>2. req \in [Request -> Calls] /\ sessions \subseteq SessionRow /\ NoAccessOutlivesItsEnd
    BY DEF IInv, OneLoginPerPerson, TypeOK
<1>3. x \in Calls /\ x.at = "admins" /\ x.kind = req[r].kind
    BY <1>2 DEF Calls, Places
<1>4. req' = [req EXCEPT ![r] = x]
    BY <1>2 DEF LockAdminChanges, Calls
<1> HIDE DEF x
<1>5. req'[r] = x /\ \A q \in Request : q # r => req'[q] = req[q]
    BY <1>2, <1>4
<1>6. Fit(r)'
    <2>1. Brings(r)' /\ Holds(r)' /\ Overtaken(r)'
        BY <1>1, <1>3, <1>5 DEF Brings, Holds, Overtaken
    <2>2. Administered(r)'
        BY <1>1, <1>3, <1>5 DEF Administered, Admins, IInv, AllFit, Fit
    <2> QED BY <2>1, <2>2 DEF Fit
<1>7. ASSUME NEW q \in Request, q # r PROVE Apart(q, r)' /\ Apart(r, q)'
    <2>1. InUnit(q)' => InUnit(q) /\ req'[q] = req[q]
        BY <1>5, <1>7 DEF InUnit
    <2>2. InUnit(q) => req[q].kind \notin {"delete", "wipe"} /\ req[r].kind # "wipe"
        BY <1>1, <1>7 DEF GateOpen, AdminLockFree, Others
    <2> QED BY <1>3, <1>5, <2>1, <2>2 DEF Apart
<1>8. req[r].at # "ended" /\ sessions' \subseteq SessionRow /\ NoAccessOutlivesItsEnd'
    BY <1>1, <1>2 DEF NoAccessOutlivesItsEnd
<1> QED BY <1>1, <1>3, <1>4, <1>6, <1>7, <1>8, CallMoves

(* The last administrator is not deleted, nor the caller's own login.      *)
LEMMA LockDeletedKeeps ==
    ASSUME IInv, NEW r \in Request, LockDeleted(r)
    PROVE  IInv'
<1> DEFINE row == Row(req[r].login)
<1>1. /\ req[r].at = "admins" /\ req[r].kind = "delete"
      /\ RowFree(r) /\ users' = users /\ sessions' = sessions
    BY DEF LockDeleted
<1>2. row \in SUBSET UserRow
    BY DEF IInv, OneLoginPerPerson, TypeOK, Row
<1>3. CASE Refuse(r)
    BY <1>1, <1>3, RefuseKeeps
<1>4. CASE Hold(r, row) /\ ~Refuse(r)
    <2>1. ~(row \cap Admins # {} /\ Admins \subseteq row)
        BY <1>4 DEF LockDeleted
    <2>2. Admins # {}
        BY <1>1 DEF IInv, AllFit, Fit, Administered
    <2>3. \E a \in Admins : a \notin row
        BY <2>1, <2>2
    <2>4. \E a \in Admins : a.login # req[r].login
        BY <2>3 DEF Row, Admins
    <2>5. Justified(r, row)
        BY <1>1, <2>4 DEF Justified
    <2>6. ApartWith(r, row)
        <3>1. \A q \in Request : q # r => Apart(q, r)
            BY DEF IInv, AllApart
        <3>2. InUnit(r)
            BY <1>1 DEF InUnit
        <3>3. \A q \in Request : q # r /\ InUnit(q) /\ req[q].kind # "create" =>
                  \A h \in req[q].row, g \in row : h.login # g.login
            BY <1>1 DEF RowFree, Others
        <3> QED BY <1>1, <3>1, <3>2, <3>3 DEF ApartWith, Apart
    <2> HIDE DEF row
    <2> QED BY <1>1, <1>2, <1>4, <2>5, <2>6, Holding
<1> QED BY <1>3, <1>4 DEF LockDeleted

(* A wipe keeps an administrator.                                          *)
LEMMA ChooseWipedKeeps ==
    ASSUME IInv, NEW r \in Request, ChooseWiped(r)
    PROVE  IInv'
<1> DEFINE keep == {u \in users : u.login \in {DefaultAdmin, req[r].by}}
           kept == IF keep \cap Admins = {} THEN keep \cup Admins ELSE keep
           row == users \ kept
<1>1. /\ req[r].at = "admins" /\ req[r].kind = "wipe"
      /\ users' = users /\ sessions' = sessions /\ Hold(r, row)
    BY DEF ChooseWiped
<1>2. row \in SUBSET UserRow
    BY DEF IInv, OneLoginPerPerson, TypeOK
<1>3. Admins # {} /\ Admins \subseteq users
    BY <1>1 DEF IInv, AllFit, Fit, Administered, Admins
<1>4. \E a \in Admins : a \in kept
    BY <1>3
<1>5. \A a \in Admins, h \in users : h # a => h.login # a.login
    BY <1>3 DEF IInv, OneLoginPerPerson
<1>6. \E a \in Admins : \A h \in row : h.login # a.login
    <2>1. PICK a \in Admins : a \in kept
        BY <1>4
    <2>2. \A h \in row : h \in users /\ h # a
        BY <2>1
    <2> HIDE DEF row, kept, keep
    <2> QED BY <1>5, <2>1, <2>2
<1> HIDE DEF row, kept, keep
<1>7. Justified(r, row)
    BY <1>1, <1>6 DEF Justified
<1>8. ApartWith(r, row)
    <2>1. \A q \in Request : q # r => Apart(q, r)
        BY DEF IInv, AllApart
    <2>2. InUnit(r)
        BY <1>1 DEF InUnit
    <2> QED BY <1>1, <2>1, <2>2 DEF ApartWith, Apart
<1> QED BY <1>1, <1>2, <1>7, <1>8, Holding

(* Entering a unit changes no login.                                       *)
LEMMA EnterKeeps ==
    ASSUME IInv, NEW r \in Request, Enter(r)
    PROVE  IInv' /\ users' = users
<1>1. users' = users
    BY DEF Enter, LockUser, AddUser, LockAdminChanges, LockDeleted, ChooseWiped
<1> QED BY <1>1, LockUserKeeps, AddUserKeeps, LockAdminChangesKeeps, LockDeletedKeeps,
           ChooseWipedKeeps DEF Enter

-----------------------------------------------------------------------------
(***************************************************************************)
(* The end of a call and of the access to a login.                         *)
(***************************************************************************)

\* r ends; of the others, only verifications of one of these logins change.
OnlyEnds(r, logins) ==
    /\ req' \in [Request -> Calls]
    /\ req'[r].at = "ended" /\ req'[r].kind = req[r].kind
    /\ \A q \in Request : q # r =>
        /\ Kept(q)
        /\ req[q].login \notin logins => req'[q].outlived = req[q].outlived

SessionsStayValid == sessions' \subseteq SessionRow /\ \A s \in sessions' : ~s.outlived

(* The record a call leaves behind.                                        *)
LEMMA EndedCall ==
    ASSUME TypeOK, NEW r \in Request
    PROVE  /\ Ended(r) \in [Request -> Calls]
           /\ Ended(r)[r].at = "ended" /\ Ended(r)[r].kind = req[r].kind
           /\ \A q \in Request : q # r => Ended(r)[q] = req[q]
<1> DEFINE x == [Call(req[r].kind, "", "", {}) EXCEPT !.at = "ended"]
<1>1. req \in [Request -> Calls] /\ req[r].kind \in Kinds \cup {"none"}
    BY DEF TypeOK, Calls
<1>2. x \in Calls /\ x.at = "ended" /\ x.kind = req[r].kind
    BY <1>1 DEF Call, Calls, Places
<1>3. Ended(r) = [req EXCEPT ![r] = x]
    BY <1>1 DEF Ended
<1> HIDE DEF x
<1> QED BY <1>1, <1>2, <1>3

(* A call that ends without ending an access leaves the others alone.      *)
LEMMA EndedOnlyEnds ==
    ASSUME TypeOK, NEW r \in Request, req' = Ended(r)
    PROVE  OnlyEnds(r, {})
BY EndedCall DEF OnlyEnds, Kept

(* Ending the access to a login ends its sessions and marks what was       *)
(* verified before.                                                        *)
LEMMA EndAccessOnlyEnds ==
    ASSUME TypeOK, NoAccessOutlivesItsEnd, NEW r \in Request, NEW ended, NEW deleted,
           ended \subseteq deleted, EndAccess(r, ended, deleted)
    PROVE  OnlyEnds(r, ended) /\ SessionsStayValid
<1>1. req \in [Request -> Calls] /\ sessions \subseteq SessionRow
    BY DEF TypeOK
<1>2. SessionsStayValid
    <2>1. \A s \in sessions : s.login \notin deleted =>
              [s EXCEPT !.outlived = MarkOutlived(ended, s.login, s.outlived)] = s
        BY <1>1 DEF MarkOutlived, SessionRow, NoAccessOutlivesItsEnd
    <2>2. sessions' \subseteq sessions
        BY <2>1 DEF EndAccess
    <2> QED BY <1>1, <2>2 DEF SessionsStayValid, NoAccessOutlivesItsEnd
<1>3. ASSUME NEW q \in Request, q # r
      PROVE  /\ req'[q] \in Calls /\ Kept(q)
             /\ req[q].login \notin ended => req'[q].outlived = req[q].outlived
    <2>1. CASE req[q].kind = "login" /\ req[q].at \in {"checked", "held"}
        <3>1. req'[q] = [req[q] EXCEPT !.outlived = MarkOutlived(ended, req[q].login, @)]
            BY <1>3, <2>1 DEF EndAccess
        <3>2. req[q] \in Calls /\ MarkOutlived(ended, req[q].login, req[q].outlived) \in BOOLEAN
            BY <1>1 DEF MarkOutlived, Calls
        <3> QED BY <3>1, <3>2 DEF Kept, Calls, MarkOutlived
    <2>2. CASE ~(req[q].kind = "login" /\ req[q].at \in {"checked", "held"})
        <3>1. req'[q] = req[q]
            BY <1>3, <2>2, EndedCall DEF EndAccess
        <3> QED BY <1>1, <3>1 DEF Kept
    <2> QED BY <2>1, <2>2
<1>4. req'[r] = Ended(r)[r]
    BY DEF EndAccess
<1>5. req' = [q \in Request |-> req'[q]]
    BY DEF EndAccess
<1>6. req'[r] \in Calls /\ req'[r].at = "ended" /\ req'[r].kind = req[r].kind
    BY <1>4, EndedCall
<1>7. req' \in [Request -> Calls]
    BY <1>3, <1>5, <1>6
<1> QED BY <1>2, <1>3, <1>6, <1>7 DEF OnlyEnds

(* What ends with a call keeps the calls apart.                            *)
LEMMA EndKeepsApart ==
    ASSUME IInv, NEW r \in Request, NEW logins, OnlyEnds(r, logins)
    PROVE  AllApart'
<1> SUFFICES ASSUME NEW q \in Request, NEW s \in Request, q # s PROVE Apart(q, s)'
    BY DEF AllApart
<1>1. ~InUnit(r)'
    BY DEF OnlyEnds, InUnit
<1>2. CASE q = r \/ s = r
    BY <1>1, <1>2, OutsideApart
<1>3. CASE q # r /\ s # r
    <2>1. Kept(q) /\ Kept(s) /\ Apart(q, s)
        BY <1>3 DEF OnlyEnds, IInv, AllApart
    <2> QED BY <2>1, StayApart
<1> QED BY <1>2, <1>3

(* Nobody's hash is the one of a call that has not ended.                  *)
LEMMA HashIsNew ==
    ASSUME IInv, NEW r \in Request, req[r].at # "ended"
    PROVE  (\A u \in users : u.hash # r) /\ (\A h : Used(h) => h # r)
BY DEF IInv, HashesUsed, Used

(* A verification is still worth nothing after it was overtaken: its login *)
(* is gone, has a hash derived since, or is as it was.                     *)
LEMMA StaysOvertaken ==
    ASSUME IInv, NEW r \in Request, req[r].at # "ended",
           NEW q \in Request, Kept(q),
           req[q].kind = "login" /\ req[q].at = "checked" =>
               \A u \in Row(req[q].login)' :
                   u.hash = r \/ (u \in users /\ req'[q].outlived = req[q].outlived)
    PROVE  Overtaken(q)'
<1> SUFFICES ASSUME req[q].kind = "login", req[q].at = "checked", req'[q].outlived,
                    NEW u \in Row(req[q].login)', NEW v \in req[q].seen
             PROVE  u.hash # v.hash
    BY DEF Overtaken, Kept, Row
<1>1. CASE u.hash = r
    <2>1. Used(v.hash)
        BY DEF IInv, AllFit, Fit, Brings
    <2> QED BY <1>1, <2>1, HashIsNew
<1>2. CASE u \in users /\ req'[q].outlived = req[q].outlived
    <2>1. u \in Row(req[q].login)
        BY <1>2 DEF Row, Kept
    <2>2. Overtaken(q)
        BY DEF IInv, AllFit, Fit
    <2> QED BY <1>2, <2>1, <2>2 DEF Overtaken
<1> QED BY <1>1, <1>2

(* Initial passwords keep their flag.                                      *)
LEMMA FlagsKeep ==
    ASSUME IInv, NEW r \in Request, NEW logins, OnlyEnds(r, logins),
           \A u \in users' :
               \/ u \in users
               \/ /\ u.hash = r
                  /\ req[r].kind \in {"reset", "create", "start"} => u.must
                  /\ req[r].kind = "change" => ~u.must
    PROVE  InitialPasswordsMustChange'
<1>0. \A q \in Request : req'[q].kind = req[q].kind
    BY DEF OnlyEnds, Kept
<1>1. \A kinds : \A h : h \in Derived(kinds)' => h \in Derived(kinds)
    BY <1>0 DEF Derived
<1>2. SUFFICES ASSUME NEW u \in users'
               PROVE  /\ u.hash \in Derived({"reset", "create", "start"}) => u.must
                      /\ u.hash \in Derived({"change"}) => ~u.must
    BY <1>1 DEF InitialPasswordsMustChange
<1>3. CASE u \in users
    BY <1>3 DEF IInv, InitialPasswordsMustChange
<1>4. CASE u \notin users
    <2>1. /\ u.hash = r
          /\ req[r].kind \in {"reset", "create", "start"} => u.must
          /\ req[r].kind = "change" => ~u.must
        BY <1>4
    <2> QED BY <2>1 DEF Derived
<1> QED BY <1>3, <1>4

(* Everything a call that ends has to leave in order.                      *)
LEMMA CommitKeeps ==
    ASSUME IInv, NEW r \in Request, NEW logins, req[r].at # "ended",
           OnlyEnds(r, logins), SessionsStayValid, AdminStays,
           users' \subseteq UserRow,
           \A u, o \in users' : u # o => Fits(u, o),
           \A u \in users' :
               \/ u \in users
               \/ /\ u.hash = r
                  /\ req[r].kind \in {"reset", "create", "start"} => u.must
                  /\ req[r].kind = "change" => ~u.must,
           \A q \in Request : q # r =>
               /\ req[q].at = "held" /\ req[q].kind \in {"login", "change", "reset"} =>
                      /\ Row(req[q].login)' = Row(req[q].login)
                      /\ req'[q].outlived = req[q].outlived
               /\ req[q].at = "held" /\ req[q].kind = "create" =>
                      \A n \in req[q].row, u \in users' : Fits(n, u)
               /\ req[q].at = "held" /\ req[q].kind \in {"delete", "wipe"} => AdminLoginsStay
               /\ req[q].kind = "login" /\ req[q].at = "checked" =>
                      \A u \in Row(req[q].login)' :
                          u.hash = r \/ (u \in users /\ req'[q].outlived = req[q].outlived)
    PROVE  IInv'
<1>1. EndedStay
    BY DEF EndedStay, OnlyEnds, Kept
<1>2. TypeOK' /\ OneLoginPerPerson' /\ NoAccessOutlivesItsEnd'
    BY DEF OneLoginPerPerson, TypeOK, NoAccessOutlivesItsEnd, SessionsStayValid, OnlyEnds, Fits
<1>3. HashesUsed'
    BY <1>1 DEF HashesUsed, Used, IInv, EndedStay, OnlyEnds
<1>4. InitialPasswordsMustChange'
    BY FlagsKeep
<1>5. Fit(r)'
    BY DEF Fit, OnlyEnds, Brings, Holds, Overtaken, Administered
<1>6. ASSUME NEW q \in Request, q # r PROVE Fit(q)'
    <2>1. Kept(q) /\ Fit(q)
        BY <1>6 DEF OnlyEnds, IInv, AllFit
    <2>2. Overtaken(q)'
        BY <1>6, <2>1, StaysOvertaken
    <2> QED BY <1>1, <1>6, <2>1, <2>2, OtherFits
<1>7. AllApart'
    BY EndKeepsApart
<1> QED BY <1>2, <1>3, <1>4, <1>5, <1>6, <1>7 DEF IInv, AllFit

-----------------------------------------------------------------------------
(***************************************************************************)
(* Commits.                                                                *)
(***************************************************************************)

\* What a step of the calls promises.
Promised == IInv' /\ AdminStays /\ ChangeReplacesWhatWasKnown

(* Logins that stay as they are keep the promises about a step.            *)
LEMMA SameLogins ==
    ASSUME users' \subseteq users, AdminStays
    PROVE  ChangeReplacesWhatWasKnown
BY DEF ChangeReplacesWhatWasKnown

(* A call that writes the row of one login, which no other unit holds and  *)
(* none inserts, leaves everything in order.                               *)
LEMMA WriteKeeps ==
    ASSUME IInv, NEW r \in Request, NEW l, NEW n \in UserRow, NEW logins,
           req[r].at # "ended", OnlyEnds(r, logins), logins \subseteq {l}, SessionsStayValid,
           users' = (users \ Row(l)) \cup {n}, n.login = l, n.hash = r,
           \A u \in users : u.login # l => Fits(n, u),
           n.admin \/ \A u \in Row(l) : ~u.admin,
           req[r].kind \in {"reset", "create", "start"} => n.must,
           req[r].kind = "change" => ~n.must,
           \A q \in Request : q # r /\ req[q].at = "held" =>
               /\ req[q].kind \in {"login", "change", "reset"} => req[q].login # l
               /\ req[q].kind = "create" => \A m \in req[q].row : Fits(m, n)
    PROVE  IInv' /\ AdminStays
<1>1. users \subseteq UserRow /\ \A u, o \in users : u # o => Fits(u, o)
    BY DEF IInv, OneLoginPerPerson, TypeOK, Fits
<1>2. \A u \in users' : u = n \/ (u \in users /\ u.login # l)
    BY DEF Row
<1>3. \A u \in users : u.login # l => u \in users'
    BY DEF Row
<1>4. AdminLoginsStay
    <2> SUFFICES ASSUME NEW a \in Admins PROVE \E b \in Admins' : b.login = a.login
        BY DEF AdminLoginsStay
    <2>1. CASE a.login = l
        <3>1. n.admin
            BY <2>1 DEF Admins, Row
        <3>2. n \in Admins'
            BY <3>1 DEF Admins
        <3> QED BY <2>1, <3>2
    <2>2. CASE a.login # l
        <3>1. a \in Admins'
            BY <1>3, <2>2 DEF Admins
        <3> QED BY <3>1
    <2> QED BY <2>1, <2>2
<1>5. AdminStays
    BY <1>4 DEF AdminStays, AdminLoginsStay
<1>6. users' \subseteq UserRow
    BY <1>1, <1>2
<1>7. \A u, o \in users' : u # o => Fits(u, o)
    BY <1>1, <1>2 DEF Fits
<1>8. \A u \in users' :
               \/ u \in users
               \/ /\ u.hash = r
                  /\ req[r].kind \in {"reset", "create", "start"} => u.must
                  /\ req[r].kind = "change" => ~u.must
    BY <1>2
<1>9. ASSUME NEW q \in Request, q # r
      PROVE  /\ req[q].at = "held" /\ req[q].kind \in {"login", "change", "reset"} =>
                      /\ Row(req[q].login)' = Row(req[q].login)
                      /\ req'[q].outlived = req[q].outlived
             /\ req[q].at = "held" /\ req[q].kind = "create" =>
                      \A m \in req[q].row, u \in users' : Fits(m, u)
             /\ req[q].at = "held" /\ req[q].kind \in {"delete", "wipe"} => AdminLoginsStay
             /\ req[q].kind = "login" /\ req[q].at = "checked" =>
                      \A u \in Row(req[q].login)' :
                          u.hash = r \/ (u \in users /\ req'[q].outlived = req[q].outlived)
    <2>1. req'[q].login = req[q].login /\ (req[q].login # l => req'[q].outlived = req[q].outlived)
        BY <1>9 DEF OnlyEnds, Kept
    <2>2. req[q].login # l => Row(req[q].login)' = Row(req[q].login)
        BY <1>2, <1>3, <2>1 DEF Row
    <2>3. req[q].at = "held" /\ req[q].kind = "create" =>
              \A m \in req[q].row, u \in users' : Fits(m, u)
        BY <1>2, <1>9 DEF IInv, AllFit, Fit, Holds
    <2>4. \A u \in Row(req[q].login)' : u \in users' /\ u.login = req[q].login
        BY <2>1 DEF Row
    <2> QED BY <1>2, <1>4, <1>9, <2>1, <2>2, <2>3, <2>4
<1> QED BY <1>5, <1>6, <1>7, <1>8, <1>9, CommitKeeps

(* Only a change of a password brings in a hash of one.                    *)
LEMMA NoChangeWrites ==
    ASSUME NEW r \in Request, NEW n, NEW l, users' = (users \ Row(l)) \cup {n}, n.hash = r,
           req[r].kind # "change"
    PROVE  ChangeReplacesWhatWasKnown
<1>1. \A u \in users' : u = n \/ u \in users
    OBVIOUS
<1>2. n.hash \notin Derived({"change"})
    BY DEF Derived
<1> QED BY <1>1, <1>2 DEF ChangeReplacesWhatWasKnown

(* put_user writes the row that was read under the lock.                   *)
LEMMA PutUserWrites ==
    ASSUME IInv, NEW r \in Request, req[r].at = "held", req[r].kind \in {"change", "reset"},
           NEW must \in BOOLEAN, PutUser(r, must)
    PROVE  \E o \in users :
             /\ Row(req[r].login) = {o}
             /\ users' = (users \ Row(req[r].login)) \cup {[o EXCEPT !.hash = r, !.must = must]}
<1>1. req[r].row = Row(req[r].login) /\ req[r].row # {}
    BY DEF IInv, AllFit, Fit, Holds
<1>2. PICK o \in Row(req[r].login) : TRUE
    BY <1>1
<1>3. \A u, v \in users : u # v => u.login # v.login
    BY DEF IInv, OneLoginPerPerson
<1>4. Row(req[r].login) = {o} /\ o \in users /\ o.login = req[r].login
    BY <1>2, <1>3 DEF Row
<1>5. (CHOOSE read \in req[r].row : TRUE) = o
    BY <1>1, <1>4
<1>6. o \in UserRow
    BY <1>4 DEF IInv, OneLoginPerPerson, TypeOK
<1>7. Written(o, o, r, must) = [o EXCEPT !.hash = r, !.must = must]
    BY <1>6 DEF Written, UserRow
<1> DEFINE n == [o EXCEPT !.hash = r, !.must = must]
           put(u) == IF \E read \in req[r].row : read.login = u.login
                     THEN Written(u, CHOOSE read \in req[r].row : TRUE, r, must) ELSE u
<1>8. users' = {put(u) : u \in users}
    BY DEF PutUser
<1>9. put(o) = n /\ \A u \in users : u # o => put(u) = u
    <2>1. req[r].row = {o}
        BY <1>1, <1>4
    <2>2. put(o) = n
        BY <1>5, <1>7, <2>1
    <2>3. \A u \in users : u # o => ~\E read \in req[r].row : read.login = u.login
        BY <1>3, <1>4, <2>1
    <2> QED BY <2>2, <2>3
<1> HIDE DEF n, put
<1>10. users' = (users \ {o}) \cup {n}
    BY <1>4, <1>8, <1>9
<1> QED BY <1>4, <1>10 DEF n

(* Another unit holds none of the rows this one has read.                  *)
LEMMA HoldsAlone ==
    ASSUME IInv, NEW r \in Request, req[r].at = "held",
           req[r].kind \in {"login", "change", "reset"},
           NEW q \in Request, q # r, req[q].at = "held",
           req[q].kind \in {"login", "change", "reset"}
    PROVE  req[q].login # req[r].login
<1>1. Apart(q, r) /\ Holds(q) /\ Holds(r)
    BY DEF IInv, AllApart, AllFit, Fit
<1>2. InUnit(q) /\ InUnit(r)
    BY DEF InUnit
<1>3. \A h \in req[q].row, g \in req[r].row : h.login # g.login
    BY <1>1, <1>2 DEF Apart
<1>4. req[q].row = Row(req[q].login) /\ req[q].row # {} /\ req[r].row = Row(req[r].login)
    BY <1>1 DEF Holds
<1> QED BY <1>3, <1>4

(* A session is opened for the login that is held.                         *)
LEMMA OpenSessionKeeps ==
    ASSUME IInv, NEW r \in Request, OpenSession(r)
    PROVE  Promised
<1>1. /\ req[r].at = "held" /\ req[r].kind = "login" /\ req' = Ended(r) /\ users' = users
      /\ sessions' = sessions \cup
           {[token |-> r, login |-> req[r].login, outlived |-> req[r].outlived]}
    BY DEF OpenSession, Held
<1>2. req[r].row = Row(req[r].login) /\ req[r].row # {} /\ ~req[r].outlived
    BY <1>1 DEF IInv, AllFit, Fit, Holds
<1>3. req[r].login \in Login /\ req[r].outlived \in BOOLEAN /\ sessions \subseteq SessionRow
    <2>1. users \subseteq UserRow /\ req \in [Request -> Calls] /\ sessions \subseteq SessionRow
        BY DEF IInv, OneLoginPerPerson, TypeOK
    <2>2. PICK u \in Row(req[r].login) : TRUE
        BY <1>2
    <2>3. u \in UserRow /\ u.login = req[r].login
        BY <2>1, <2>2 DEF Row
    <2> QED BY <2>1, <2>3 DEF UserRow, Calls
<1>4. sessions' \subseteq SessionRow /\ NoAccessOutlivesItsEnd'
    BY <1>1, <1>2, <1>3 DEF IInv, NoAccessOutlivesItsEnd, SessionRow
<1>5. IInv'
    BY <1>1, <1>4, Ends
<1>6. AdminStays
    BY <1>1 DEF AdminStays, Admins
<1> QED BY <1>1, <1>5, <1>6, SameLogins DEF Promised

(* A change writes the new password where the verified one was.            *)
LEMMA ApplyPasswordChangeKeeps ==
    ASSUME IInv, NEW r \in Request, ApplyPasswordChange(r)
    PROVE  Promised
<1> DEFINE l == req[r].login
<1>1. /\ req[r].at = "held" /\ req[r].kind = "change" /\ req' = Ended(r)
      /\ PutUser(r, FALSE) /\ sessions' = sessions
    BY DEF ApplyPasswordChange, Held
<1>2. PICK o \in users : /\ Row(l) = {o}
                         /\ users' = (users \ Row(l)) \cup {[o EXCEPT !.hash = r, !.must = FALSE]}
    BY <1>1, PutUserWrites
<1> DEFINE n == [o EXCEPT !.hash = r, !.must = FALSE]
<1>3. o \in UserRow /\ o.login = l
    BY <1>2 DEF IInv, OneLoginPerPerson, TypeOK, Row
<1>4. /\ n \in UserRow /\ n.login = l /\ n.hash = r /\ ~n.must
      /\ n.person = o.person /\ n.admin = o.admin
    BY <1>3 DEF UserRow
<1>5. users' = (users \ Row(l)) \cup {n}
    BY <1>2
<1> HIDE DEF n
<1>6. TypeOK /\ NoAccessOutlivesItsEnd
    BY DEF IInv, OneLoginPerPerson
<1>7. OnlyEnds(r, {}) /\ SessionsStayValid
    BY <1>1, <1>6, EndedOnlyEnds DEF SessionsStayValid, TypeOK, NoAccessOutlivesItsEnd
<1>8. \A u \in users : u.login # l => Fits(n, u)
    BY <1>3, <1>4 DEF IInv, OneLoginPerPerson, Fits
<1>9. n.admin \/ \A u \in Row(l) : ~u.admin
    BY <1>2, <1>4
<1>10. ASSUME NEW q \in Request, q # r, req[q].at = "held"
       PROVE  /\ req[q].kind \in {"login", "change", "reset"} => req[q].login # l
              /\ req[q].kind = "create" => \A m \in req[q].row : Fits(m, n)
    <2>1. req[q].kind = "create" => \A m \in req[q].row : Fits(m, o)
        BY <1>10 DEF IInv, AllFit, Fit, Holds
    <2> QED BY <1>1, <1>3, <1>4, <1>10, <2>1, HoldsAlone DEF Fits
<1> HIDE DEF l
<1>11. IInv' /\ AdminStays
    BY <1>1, <1>4, <1>5, <1>7, <1>8, <1>9, <1>10, WriteKeeps
<1>12. ChangeReplacesWhatWasKnown
    <2>1. StillVerified(r, Row(l))
        BY <1>1 DEF IInv, AllFit, Fit, Holds, l
    <2>2. \E v \in req[r].seen : o.hash = v.hash
        BY <1>2, <2>1 DEF StillVerified
    <2>3. \A u \in users' : u = n \/ u \in users
        BY <1>5
    <2>4. o \in Row(n.login)
        BY <1>2, <1>4
    <2> QED BY <1>4, <2>2, <2>3, <2>4 DEF ChangeReplacesWhatWasKnown
<1> QED BY <1>11, <1>12 DEF Promised

(* A reset writes an initial password and ends every access.               *)
LEMMA ResetPasswordKeeps ==
    ASSUME IInv, NEW r \in Request, ResetPassword(r)
    PROVE  Promised
<1> DEFINE l == req[r].login
<1>1. /\ req[r].at = "held" /\ req[r].kind = "reset"
      /\ PutUser(r, TRUE) /\ EndAccess(r, {l}, {l})
    BY DEF ResetPassword, Held
<1>2. PICK o \in users : /\ Row(l) = {o}
                         /\ users' = (users \ Row(l)) \cup {[o EXCEPT !.hash = r, !.must = TRUE]}
    BY <1>1, PutUserWrites
<1> DEFINE n == [o EXCEPT !.hash = r, !.must = TRUE]
<1>3. o \in UserRow /\ o.login = l
    BY <1>2 DEF IInv, OneLoginPerPerson, TypeOK, Row
<1>4. /\ n \in UserRow /\ n.login = l /\ n.hash = r /\ n.must
      /\ n.person = o.person /\ n.admin = o.admin
    BY <1>3 DEF UserRow
<1>5. users' = (users \ Row(l)) \cup {n}
    BY <1>2
<1> HIDE DEF n
<1>6. TypeOK /\ NoAccessOutlivesItsEnd
    BY DEF IInv, OneLoginPerPerson
<1>7. OnlyEnds(r, {l}) /\ SessionsStayValid
    BY <1>1, <1>6, EndAccessOnlyEnds
<1>8. \A u \in users : u.login # l => Fits(n, u)
    BY <1>3, <1>4 DEF IInv, OneLoginPerPerson, Fits
<1>9. n.admin \/ \A u \in Row(l) : ~u.admin
    BY <1>2, <1>4
<1>10. ASSUME NEW q \in Request, q # r, req[q].at = "held"
       PROVE  /\ req[q].kind \in {"login", "change", "reset"} => req[q].login # l
              /\ req[q].kind = "create" => \A m \in req[q].row : Fits(m, n)
    <2>1. req[q].kind = "create" => \A m \in req[q].row : Fits(m, o)
        BY <1>10 DEF IInv, AllFit, Fit, Holds
    <2> QED BY <1>1, <1>3, <1>4, <1>10, <2>1, HoldsAlone DEF Fits
<1> HIDE DEF l
<1>11. IInv' /\ AdminStays
    BY <1>1, <1>4, <1>5, <1>7, <1>8, <1>9, <1>10, WriteKeeps
<1>12. ChangeReplacesWhatWasKnown
    BY <1>1, <1>4, <1>5, NoChangeWrites
<1> QED BY <1>11, <1>12 DEF Promised

(* A new login is stored: it takes nobody's name or person.                *)
LEMMA StoreNewUserKeeps ==
    ASSUME IInv, NEW r \in Request, StoreNewUser(r)
    PROVE  Promised
<1> DEFINE l == req[r].login
<1>1. /\ req[r].at = "held" /\ req[r].kind = "create" /\ req' = Ended(r)
      /\ users' = users \cup req[r].row /\ sessions' = sessions
    BY DEF StoreNewUser, Held
<1>2. TypeOK /\ NoAccessOutlivesItsEnd /\ req[r].seen \subseteq UserRow
    BY DEF IInv, OneLoginPerPerson, TypeOK, Calls
<1>3. Brings(r) /\ Holds(r)
    BY DEF IInv, AllFit, Fit
<1>4. req[r].seen # {} /\ \A n, m \in req[r].seen : n = m
    BY <1>1, <1>3 DEF Brings
<1>5. PICK n \in req[r].seen : req[r].seen = {n}
    BY <1>4
<1>6. n \in UserRow /\ n.login = l /\ n.hash = r /\ n.must
    BY <1>1, <1>2, <1>3, <1>5 DEF Brings
<1>7. req[r].row = {n} /\ \A u \in users : Fits(n, u)
    BY <1>1, <1>3, <1>5 DEF Holds
<1>8. Row(l) = {}
    BY <1>6, <1>7 DEF Row, Fits
<1>9. users' = (users \ Row(l)) \cup {n}
    BY <1>1, <1>7, <1>8
<1>10. OnlyEnds(r, {}) /\ SessionsStayValid
    BY <1>1, <1>2, EndedOnlyEnds DEF SessionsStayValid, TypeOK, NoAccessOutlivesItsEnd
<1>11. ASSUME NEW q \in Request, q # r, req[q].at = "held"
       PROVE  /\ req[q].kind \in {"login", "change", "reset"} => req[q].login # l
              /\ req[q].kind = "create" => \A m \in req[q].row : Fits(m, n)
    <2>1. req[q].kind \in {"login", "change", "reset"} => Row(req[q].login) # {}
        BY <1>11 DEF IInv, AllFit, Fit, Holds
    <2>2. Apart(q, r) /\ InUnit(q) /\ InUnit(r)
        BY <1>1, <1>11 DEF IInv, AllApart, InUnit
    <2> QED BY <1>1, <1>7, <1>8, <1>11, <2>1, <2>2 DEF Apart
<1> HIDE DEF l
<1>12. IInv' /\ AdminStays
    BY <1>1, <1>6, <1>7, <1>8, <1>9, <1>10, <1>11, WriteKeeps
<1>13. ChangeReplacesWhatWasKnown
    BY <1>1, <1>6, <1>9, NoChangeWrites
<1> QED BY <1>12, <1>13 DEF Promised

(* The first administrator is seeded where nobody holds the row.           *)
LEMMA PutInitialAdminKeeps ==
    ASSUME IInv, NEW r \in Request, PutInitialAdmin(r)
    PROVE  Promised
<1> DEFINE l == req[r].login
<1>1. /\ req[r].at = "checked" /\ req[r].kind = "start" /\ req' = Ended(r)
      /\ RowFree(r) /\ InsertFree(r)
      /\ users' = (users \ Row(l)) \cup req[r].seen /\ sessions' = sessions
    BY DEF PutInitialAdmin
<1>2. TypeOK /\ NoAccessOutlivesItsEnd /\ req[r].seen \subseteq UserRow
    BY DEF IInv, OneLoginPerPerson, TypeOK, Calls
<1>3. Brings(r)
    BY DEF IInv, AllFit, Fit
<1>4. req[r].seen # {} /\ \A n, m \in req[r].seen : n = m
    BY <1>1, <1>3 DEF Brings
<1>5. PICK n \in req[r].seen : req[r].seen = {n}
    BY <1>4
<1>6. n \in UserRow /\ n.login = l /\ n.hash = r /\ n.must /\ n.person = {} /\ n.admin
    BY <1>1, <1>2, <1>3, <1>5 DEF Brings
<1>7. users' = (users \ Row(l)) \cup {n}
    BY <1>1, <1>5
<1>8. \A u \in users : u.login # l => Fits(n, u)
    BY <1>6 DEF Fits
<1>9. OnlyEnds(r, {}) /\ SessionsStayValid
    BY <1>1, <1>2, EndedOnlyEnds DEF SessionsStayValid, TypeOK, NoAccessOutlivesItsEnd
<1>10. ASSUME NEW q \in Request, q # r, req[q].at = "held"
       PROVE  /\ req[q].kind \in {"login", "change", "reset"} => req[q].login # l
              /\ req[q].kind = "create" => \A m \in req[q].row : Fits(m, n)
    <2>1. req[q].kind \in {"login", "change", "reset"} =>
              req[q].row = Row(req[q].login) /\ req[q].row # {}
        BY <1>10 DEF IInv, AllFit, Fit, Holds
    <2>2. q \in Others(r) /\ InUnit(q)
        BY <1>10 DEF Others, InUnit
    <2>3. req[q].kind # "create" => \A u \in Row(l), h \in req[q].row : h.login # u.login
        BY <1>1, <2>2 DEF RowFree
    <2>4. req[q].kind = "create" => \A m \in req[q].row : Fits(m, n)
        BY <1>1, <1>5, <2>2 DEF InsertFree, Fits
    <2> QED BY <2>1, <2>3, <2>4
<1> HIDE DEF l
<1>11. IInv' /\ AdminStays
    BY <1>1, <1>6, <1>7, <1>8, <1>9, <1>10, WriteKeeps
<1>12. ChangeReplacesWhatWasKnown
    BY <1>1, <1>6, <1>7, NoChangeWrites
<1> QED BY <1>11, <1>12 DEF Promised

(* Logins go and an administrator stays: whoever is left finds its row as  *)
(* it was or gone.                                                         *)
LEMMA RemoveKeeps ==
    ASSUME IInv, NEW r \in Request, NEW logins, req[r].at # "ended",
           OnlyEnds(r, logins), SessionsStayValid,
           users' = {u \in users : u.login \notin logins},
           Admins' # {},
           \A q \in Request : q # r /\ req[q].at = "held" =>
               /\ req[q].kind \in {"login", "change", "reset"} => req[q].login \notin logins
               /\ req[q].kind \notin {"delete", "wipe"}
    PROVE  Promised
<1>1. users' \subseteq users
    OBVIOUS
<1>2. AdminStays
    BY DEF AdminStays
<1>3. \A u, o \in users : u # o => Fits(u, o)
    BY DEF IInv, OneLoginPerPerson, Fits
<1>4. users' \subseteq UserRow
    BY <1>1 DEF IInv, OneLoginPerPerson, TypeOK
<1>5. ASSUME NEW q \in Request, q # r
      PROVE  /\ req[q].at = "held" /\ req[q].kind \in {"login", "change", "reset"} =>
                      /\ Row(req[q].login)' = Row(req[q].login)
                      /\ req'[q].outlived = req[q].outlived
             /\ req[q].at = "held" /\ req[q].kind = "create" =>
                      \A m \in req[q].row, u \in users' : Fits(m, u)
             /\ req[q].at = "held" /\ req[q].kind \in {"delete", "wipe"} => AdminLoginsStay
             /\ req[q].kind = "login" /\ req[q].at = "checked" =>
                      \A u \in Row(req[q].login)' :
                          u.hash = r \/ (u \in users /\ req'[q].outlived = req[q].outlived)
    <2>1. /\ req'[q].login = req[q].login
          /\ req[q].login \notin logins => req'[q].outlived = req[q].outlived
        BY <1>5 DEF OnlyEnds, Kept
    <2>2. req[q].login \notin logins => Row(req[q].login)' = Row(req[q].login)
        BY <2>1 DEF Row
    <2>3. req[q].at = "held" /\ req[q].kind = "create" =>
              \A m \in req[q].row, u \in users' : Fits(m, u)
        BY <1>1 DEF IInv, AllFit, Fit, Holds
    <2>4. \A u \in Row(req[q].login)' : u \in users /\ req[q].login \notin logins
        BY <2>1 DEF Row
    <2> QED BY <1>5, <2>1, <2>2, <2>3, <2>4
<1>6. IInv'
    BY <1>1, <1>2, <1>3, <1>4, <1>5, CommitKeeps
<1> QED BY <1>1, <1>2, <1>6, SameLogins DEF Promised

(* A deletion takes one login, which nobody holds, and not the last        *)
(* administrator.                                                          *)
LEMMA DeleteUserKeeps ==
    ASSUME IInv, NEW r \in Request, DeleteUser(r)
    PROVE  Promised
<1> DEFINE l == req[r].login
           gone == {u.login : u \in Row(l)}
<1>1. /\ req[r].at = "held" /\ req[r].kind = "delete" /\ RowFree(r)
      /\ users' = users \ Row(l) /\ EndAccess(r, gone, {l})
    BY DEF DeleteUser, Held
<1>2. gone \subseteq {l} /\ (gone = {} => Row(l) = {})
    BY DEF Row
<1>3. users' = {u \in users : u.login \notin gone}
    BY <1>1, <1>2 DEF Row
<1>4. TypeOK /\ NoAccessOutlivesItsEnd
    BY DEF IInv, OneLoginPerPerson
<1>5. OnlyEnds(r, gone) /\ SessionsStayValid
    BY <1>1, <1>2, <1>4, EndAccessOnlyEnds
<1>6. Admins' # {}
    <2>1. \E a \in Admins : a.login # l
        BY <1>1 DEF IInv, AllFit, Fit, Holds
    <2> QED BY <1>1, <2>1 DEF Admins, Row
<1>7. ASSUME NEW q \in Request, q # r, req[q].at = "held"
      PROVE  /\ req[q].kind \in {"login", "change", "reset"} => req[q].login \notin gone
             /\ req[q].kind \notin {"delete", "wipe"}
    <2>1. Apart(q, r) /\ InUnit(q) /\ InUnit(r) /\ q \in Others(r)
        BY <1>1, <1>7 DEF IInv, AllApart, InUnit, Others
    <2>2. req[q].kind \notin {"delete", "wipe"}
        BY <1>1, <2>1 DEF Apart
    <2>3. req[q].kind \in {"login", "change", "reset"} =>
              req[q].row = Row(req[q].login) /\ req[q].row # {}
        BY <1>7 DEF IInv, AllFit, Fit, Holds
    <2>4. req[q].kind # "create" => \A u \in Row(l), h \in req[q].row : h.login # u.login
        BY <1>1, <2>1 DEF RowFree
    <2>5. req[q].kind \in {"login", "change", "reset"} => req[q].login # l
        BY <2>3, <2>4
    <2> QED BY <1>2, <2>2, <2>5
<1> HIDE DEF l, gone
<1> QED BY <1>1, <1>3, <1>5, <1>6, <1>7, RemoveKeeps

(* A wipe takes the logins it has chosen, with nobody else at work.        *)
LEMMA WipeUsersKeeps ==
    ASSUME IInv, NEW r \in Request, WipeUsers(r)
    PROVE  Promised
<1> DEFINE gone == {u.login : u \in req[r].row}
<1>1. /\ req[r].at = "held" /\ req[r].kind = "wipe"
      /\ users' = {u \in users : u.login \notin gone} /\ EndAccess(r, gone, gone)
    BY DEF WipeUsers, Held
<1>2. TypeOK /\ NoAccessOutlivesItsEnd
    BY DEF IInv, OneLoginPerPerson
<1>3. OnlyEnds(r, gone) /\ SessionsStayValid
    BY <1>1, <1>2, EndAccessOnlyEnds
<1>4. Admins' # {}
    <2>1. \E a \in Admins : \A h \in req[r].row : h.login # a.login
        BY <1>1 DEF IInv, AllFit, Fit, Holds
    <2> QED BY <1>1, <2>1 DEF Admins
<1>5. \A q \in Request : q # r => req[q].at # "held"
    <2>1. \A q \in Request : q # r => Apart(q, r)
        BY DEF IInv, AllApart
    <2> QED BY <1>1, <2>1 DEF Apart, InUnit
<1> HIDE DEF gone
<1> QED BY <1>1, <1>3, <1>4, <1>5, RemoveKeeps

-----------------------------------------------------------------------------
(***************************************************************************)
(* The specification.                                                      *)
(***************************************************************************)

(* A consistent store nobody has called yet is in order.                   *)
LEMMA InitIInv == Init => IInv
<1> SUFFICES ASSUME Init PROVE IInv
    OBVIOUS
<1>1. PICK s \in Stores : users = s.users /\ sessions = s.sessions
    BY DEF Init
<1>2. users \subseteq UserRow /\ sessions \subseteq SessionRow
    BY <1>1, IdentityTypes
<1>3. \A r \in Request : req[r] = Fresh
    BY DEF Init
<1>4. Fresh \in Calls /\ Fresh.at = "new"
    BY DEF Fresh, Call, Calls, Places
<1>5. OneLoginPerPerson /\ NoAccessOutlivesItsEnd
    BY <1>1, <1>2, <1>4, StoresConsistent
       DEF Init, OneLoginPerPerson, TypeOK, NoAccessOutlivesItsEnd
<1>6. \A u \in users : u.hash \notin Request
    BY <1>1, StoresConsistent
<1>7. HashesUsed /\ InitialPasswordsMustChange
    BY <1>6 DEF HashesUsed, Used, InitialPasswordsMustChange, Derived
<1>8. AllFit /\ AllApart
    BY <1>3, <1>4 DEF AllFit, Fit, Brings, Holds, Overtaken, Administered,
                      AllApart, Apart, InUnit
<1> QED BY <1>5, <1>7, <1>8 DEF IInv

(* Every step of the calls keeps the promises.                             *)
LEMMA StepIInv == IInv /\ [Next]_vars => Promised
<1> SUFFICES ASSUME IInv, [Next]_vars PROVE Promised
    OBVIOUS
<1>1. ASSUME users' = users PROVE AdminStays /\ ChangeReplacesWhatWasKnown
    <2>1. AdminStays
        BY <1>1 DEF AdminStays, Admins
    <2> QED BY <1>1, <2>1, SameLogins
<1>2. ASSUME NEW r \in Request, Arrive(r) PROVE Promised
    BY <1>1, <1>2, ArriveKeeps DEF Promised
<1>3. ASSUME NEW r \in Request, Enter(r) PROVE Promised
    BY <1>1, <1>3, EnterKeeps DEF Promised
<1>4. ASSUME NEW r \in Request, Commit(r) PROVE Promised
    BY <1>4, OpenSessionKeeps, ApplyPasswordChangeKeeps, ResetPasswordKeeps,
       StoreNewUserKeeps, DeleteUserKeeps, WipeUsersKeeps, PutInitialAdminKeeps DEF Commit
<1>5. ASSUME NEW r \in Request, RollBack(r) PROVE Promised
    <2>1. req[r].at # "ended" /\ req' = Ended(r) /\ users' = users /\ sessions' = sessions
        BY <1>5 DEF RollBack, InUnit
    <2>2. sessions' \subseteq SessionRow /\ NoAccessOutlivesItsEnd'
        BY <2>1 DEF IInv, OneLoginPerPerson, TypeOK, NoAccessOutlivesItsEnd
    <2>3. IInv'
        BY <2>1, <2>2, Ends
    <2> QED BY <1>1, <2>1, <2>3 DEF Promised
<1>6. CASE Logout
    <2>1. users' = users /\ req' = req /\ sessions' \subseteq sessions
        BY <1>6 DEF Logout
    <2>2. OneLoginPerPerson' /\ NoAccessOutlivesItsEnd'
        BY <2>1 DEF IInv, OneLoginPerPerson, TypeOK, NoAccessOutlivesItsEnd
    <2>3. HashesUsed' /\ InitialPasswordsMustChange'
        BY <2>1 DEF IInv, HashesUsed, Used, InitialPasswordsMustChange, Derived
    <2>4. AllFit' /\ AllApart'
        BY <2>1 DEF IInv, AllFit, Fit, Brings, Holds, Overtaken, Administered, Used,
                    StillVerified, Row, Admins, AllApart, Apart, InUnit
    <2> QED BY <1>1, <2>1, <2>2, <2>3, <2>4 DEF Promised, IInv
<1>7. CASE UNCHANGED vars
    <2>1. users' = users /\ req' = req /\ sessions' = sessions
        BY <1>7 DEF vars
    <2>2. OneLoginPerPerson' /\ NoAccessOutlivesItsEnd'
        BY <2>1 DEF IInv, OneLoginPerPerson, TypeOK, NoAccessOutlivesItsEnd
    <2>3. HashesUsed' /\ InitialPasswordsMustChange'
        BY <2>1 DEF IInv, HashesUsed, Used, InitialPasswordsMustChange, Derived
    <2>4. AllFit' /\ AllApart'
        BY <2>1 DEF IInv, AllFit, Fit, Brings, Holds, Overtaken, Administered, Used,
                    StillVerified, Row, Admins, AllApart, Apart, InUnit
    <2> QED BY <1>1, <2>1, <2>2, <2>3, <2>4 DEF Promised, IInv
<1> QED BY <1>2, <1>3, <1>4, <1>5, <1>6, <1>7 DEF Next, Quiet

(* The strengthened invariant holds throughout.                            *)
THEOREM Invariant == Spec => []IInv
<1>1. Init => IInv
    BY InitIInv
<1>2. IInv /\ [Next]_vars => IInv'
    BY StepIInv DEF Promised
<1> QED BY <1>1, <1>2, PTL DEF Spec

(* However many calls create, seed, reset and delete logins at once, a     *)
(* login name has one row and a person one login (check_new_user,          *)
(* add_user).                                                              *)
THEOREM OneLoginEach == Spec => []OneLoginPerPerson
<1>1. IInv => OneLoginPerPerson
    BY DEF IInv
<1> QED BY <1>1, Invariant, PTL

(* No session whose password was verified before a reset or the deletion   *)
(* of its login outlives it (open_session, reset_password, delete_user).   *)
THEOREM AccessEnds == Spec => []NoAccessOutlivesItsEnd
<1>1. IInv => NoAccessOutlivesItsEnd
    BY DEF IInv
<1> QED BY <1>1, Invariant, PTL

(* No order of deletions, wipes, seedings and roll-backs takes the last    *)
(* administrator (_delete_user_checked, _wipe_users, lock_admin_changes).  *)
THEOREM AdminStaysForever == Spec => AnAdminRemains
<1>1. IInv /\ [Next]_vars => [Admins # {} => Admins' # {}]_vars
    BY StepIInv DEF Promised, AdminStays
<1> QED BY <1>1, Invariant, PTL DEF Spec, AnAdminRemains

(* A reset and a change of one login never mix, and a change replaces the  *)
(* password its caller knew (apply_password_change, reset_password).       *)
THEOREM PasswordsApart == Spec => PasswordsNeverMix
<1>1. IInv => InitialPasswordsMustChange
    BY DEF IInv
<1>2. IInv /\ [Next]_vars => [ChangeReplacesWhatWasKnown]_vars
    BY StepIInv DEF Promised
<1> QED BY <1>1, <1>2, Invariant, PTL DEF Spec, PasswordsNeverMix
=============================================================================
