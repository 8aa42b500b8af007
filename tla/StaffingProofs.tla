---------------------------- MODULE StaffingProofs ----------------------------
(***************************************************************************)
(* Who works a case, for any organisation, staff rules, requests and       *)
(* timers: a change of the shared organisation gives no finding to the     *)
(* schema that refers to it, every stage of an escalation fires once, and  *)
(* whoever worked a people's step that a rule asks about is on record.     *)
(***************************************************************************)
EXTENDS Staffing, FiniteSetTheorems, WellFoundedInduction, TLAPS

\* A schema is a draft of the path, or was released by the rules.
Sound(s) ==
    /\ DOMAIN s = Fields
    /\ \A i \in DOMAIN Flow :
          s.before[Flow[i]] \cap Activity \subseteq {Flow[j] : j \in 1 .. i - 1}
    /\ ~s.draft => Z3BackRefs(s) = {} /\ Manned(s) \subseteq DOMAIN s.rule

Asked == OrgChanges \cup LocalChanges \cup Edits

\* What a request relies on until it is stored or beaten.
Fit(r) ==
    /\ r # Idle => r.what \in Asked /\ r.kind \in {"org", "schema", "beaten"}
    /\ r.kind = "org" =>
        /\ "org" \in r.saves /\ r.read = org
        /\ r.schema.linked =>
            /\ "schema" \in r.saves /\ r.schema = schema
            /\ FindsNothingNew([y \in {org, r.org} |-> StaffFindings(schema, y)], org, r.org)
    /\ r.kind = "schema" => "schema" \in r.saves /\ "org" \notin r.saves /\ Sound(r.schema)

RequestsFit ==
    /\ request = [p \in Proc |-> request[p]]
    /\ \A p \in Proc : Fit(request[p])

\* Nobody has to be on record for what people do not work, or no rule names.
Excused(n) == n \notin Manned(schema) \/ UsersOf(n) = {}

\* The case on its path: an agent is on record for every step people did that a rule
\* names.
OnRecord(n) == case.by[n] # None \/ Excused(n)

WellFormed(c) ==
    /\ c = [at |-> c.at, by |-> [n \in Node |-> c.by[n]], holder |-> c.holder,
            fired |-> [n \in Activity |-> c.fired[n]], round |-> c.round,
            last |-> c.last, done |-> c.done]
    /\ c.at \in Nat /\ c.round \in Nat /\ \A n \in Activity : c.fired[n] \in Nat

CaseFits ==
    /\ WellFormed(case)
    /\ case.at = 0 => case = NotStarted /\ escalated = <<>>
    /\ case.at > 0 => ~schema.draft /\ \A p \in Proc : request[p] = Idle
    /\ \A i \in DOMAIN Flow : i < case.at => OnRecord(Flow[i])

\* A sweep that is not lost read the case as it is.
SweepsFit ==
    /\ sweep = [t \in Timer |-> sweep[t]]
    /\ \A t \in Timer : sweep[t] \notin {Idle, Lost} =>
        /\ sweep[t].read = case /\ Open
        /\ sweep[t].upto \in Nat /\ sweep[t].upto > case.fired[Step]

Event == [step : Activity, round : Nat, stage : Nat]

\* The stages of this round, of every step.
EventsFit ==
    /\ escalated \in Seq(Event)
    /\ \A k \in DOMAIN escalated : escalated[k].round <= case.round
    /\ \A n \in Activity :
        LET mine == {k \in DOMAIN escalated : /\ escalated[k].step = n
                                             /\ escalated[k].round = case.round}
        IN  /\ {escalated[k].stage : k \in mine} = 1 .. case.fired[n]
            /\ \A k, l \in mine : k < l => escalated[k].stage < escalated[l].stage

IInv == Sound(schema) /\ RequestsFit /\ CaseFits /\ SweepsFit /\ EventsFit

-----------------------------------------------------------------------------

(***************************************************************************)
(* Schemas.                                                                *)
(***************************************************************************)

(* A released schema has no finding of Z3, whatever else it has none of.   *)
LEMMA NoFindings ==
    ASSUME NEW s, NEW o, StaffFindings(s, o) = {}
    PROVE  Z3BackRefs(s) = {}
BY DEF StaffFindings, Resources

(* Whatever an operation stores is a draft of the path or released by the  *)
(* rules; a released schema keeps its staff rules (raise_if_findings_added,*)
(* _require_editable).                                                     *)
LEMMA AcceptedIsSound ==
    ASSUME NEW s, NEW o, NEW c \in LocalChanges \cup Edits, Sound(s),
           NEW x \in AcceptedSchemas(s, o, c)
    PROVE  /\ Sound(x) /\ x.automatic = s.automatic
           /\ ~s.draft => ~x.draft /\ x.rule = s.rule
<1>1. DOMAIN s = Fields
    BY DEF Sound
<1>2. CASE c.on = "local"
    <2>1. x \in LocalResult(s, c)
        BY <1>2 DEF AcceptedSchemas
    <2>2. PICK y : x = [s EXCEPT !.own = y]
        BY <2>1 DEF LocalResult
    <2>3. /\ DOMAIN x = Fields /\ x.automatic = s.automatic /\ x.before = s.before
          /\ x.draft = s.draft /\ x.rule = s.rule
        BY <1>1, <2>2 DEF Fields
    <2>4. Z3BackRefs(x) = Z3BackRefs(s)
        BY <2>3 DEF Z3BackRefs
    <2> QED BY <2>3, <2>4 DEF Sound, Manned
<1>3. CASE c.on # "local"
    <2>1. s.draft /\ x \in Edited(s, o, c)
        BY <1>3 DEF AcceptedSchemas
    <2>2. c \in Edits
        BY <1>3, StaffingConstants
    <2>3. ASSUME c.op # "release"
          PROVE  /\ DOMAIN x = Fields /\ x.automatic = s.automatic
                 /\ x.before = s.before /\ x.draft
        <3>1. CASE c.op = "assign"
            BY <1>1, <2>1, <3>1 DEF Edited, AssignStaffRule, If, Fields
        <3>2. CASE c.op = "clear"
            BY <1>1, <2>1, <3>2 DEF Edited, ClearStaffRule, If, Fields
        <3>3. CASE c.op = "escalate"
            BY <1>1, <2>1, <3>3 DEF Edited, SetEscalationPolicy, Fields
        <3>4. CASE c.op = "mail"
            BY <1>1, <2>1, <3>4 DEF Edited, SetMailBinding, If, Fields
        <3>5. CASE c.op = "link"
            BY <1>1, <2>1, <3>5 DEF Edited, LinkOrgModel, Fields
        <3>6. CASE c.op = "unlink"
            BY <1>1, <2>1, <3>6 DEF Edited, UnlinkOrgModel, Fields
        <3> QED BY <2>2, <2>3, <3>1, <3>2, <3>3, <3>4, <3>5, <3>6, StaffingConstants
    <2>4. CASE c.op # "release"
        BY <2>1, <2>3, <2>4 DEF Sound, Manned
    <2>5. CASE c.op = "release"
        <3>1. x \in Release(s)
            BY <2>1, <2>5 DEF Edited
        <3>2. Activity \ s.automatic \subseteq DOMAIN s.rule /\ x = [s EXCEPT !.draft = FALSE]
            BY <3>1 DEF Release, If
        <3>3. /\ DOMAIN x = Fields /\ x.automatic = s.automatic /\ x.before = s.before
              /\ x.rule = s.rule
            BY <1>1, <3>2 DEF Fields
        <3>4. StaffFindings(x, Hydrated(x, o)) = {}
            BY <2>5 DEF AcceptedSchemas
        <3>5. Z3BackRefs(x) = {}
            BY <3>4, NoFindings
        <3> QED BY <2>1, <3>2, <3>3, <3>5 DEF Sound, Manned
    <2> QED BY <2>4, <2>5
<1> QED BY <1>2, <1>3

-----------------------------------------------------------------------------
(***************************************************************************)
(* Requests.                                                               *)
(***************************************************************************)

(* A request is made of what is stored: it fits (_commit_org_or_422).      *)
LEMMA RequestFits ==
    ASSUME Sound(schema), NEW c \in Asked, NEW r \in RequestsFor(c)
    PROVE  /\ Fit(r) /\ r.what = c /\ r.kind \in {"org", "schema"} /\ r # Idle
           /\ r.kind = "org" => r.schema = schema
           /\ r.kind = "schema" /\ ~schema.draft =>
                  /\ ~r.schema.draft
                  /\ r.schema.rule = schema.rule /\ r.schema.automatic = schema.automatic
<1>1. CASE c.on = "org"
    <2>1. r \in OrgRequests(c)
        BY <1>1 DEF RequestsFor
    <2>2. PICK o \in {x \in Accepted(org, c) : Bears(x)} :
            r = [kind |-> "org", what |-> c, org |-> o, schema |-> schema, read |-> org,
                 saves |-> {"org"} \cup (IF schema.linked THEN {"schema"} ELSE {})]
        BY <2>1 DEF OrgRequests
    <2>3. schema.linked =>
            FindsNothingNew([y \in {org, o} |-> StaffFindings(schema, y)], org, o)
        BY <2>2 DEF Bears
    <2>4. /\ r.kind = "org" /\ r.what = c /\ r.org = o /\ r.schema = schema /\ r.read = org
          /\ "org" \in r.saves /\ (schema.linked => "schema" \in r.saves)
        BY <2>2
    <2> QED BY <2>3, <2>4 DEF Fit, Idle
<1>2. CASE c.on # "org"
    <2>1. c \in LocalChanges \cup Edits
        BY <1>2, StaffingConstants DEF Asked
    <2>2. r \in SchemaRequests(c)
        BY <1>2 DEF RequestsFor
    <2>3. PICK s \in AcceptedSchemas(schema, org, c) :
            r = [kind |-> "schema", what |-> c, org |-> org, schema |-> s, read |-> org,
                 saves |-> {"schema"}]
        BY <2>2 DEF SchemaRequests
    <2>4. /\ Sound(s) /\ s.automatic = schema.automatic
          /\ ~schema.draft => ~s.draft /\ s.rule = schema.rule
        BY <2>1, AcceptedIsSound
    <2>5. /\ r.kind = "schema" /\ r.what = c /\ r.schema = s
          /\ "schema" \in r.saves /\ "org" \notin r.saves
        BY <2>3
    <2> QED BY <2>4, <2>5 DEF Fit, Idle
<1> QED BY <1>1, <1>2

\* What a stored change of the organisation promises the schema that refers to it.
Borne == (org' # org /\ schema.linked /\ ~raced') =>
             FindsNothingNew([o \in {org, org'} |-> StaffFindings(schema, o)], org, org')

(* Storing what fits keeps the schema sound and its findings.              *)
LEMMA StoreKeeps ==
    ASSUME Sound(schema), NEW r, Fit(r), r.kind \in {"org", "schema"}, Store(r)
    PROVE  Sound(schema)' /\ Borne
<1>1. r # Idle
    BY DEF Idle
<1>2. CASE r.kind = "org"
    <2>1. schema' = schema /\ org' = r.org
        BY <1>2 DEF Store, Fit
    <2>2. ~raced' => (schema.linked => r.schema.linked)
        BY <1>2 DEF Store
    <2>3. Sound(schema)'
        BY <2>1 DEF Sound, Manned, Z3BackRefs
    <2> QED BY <1>2, <2>1, <2>2, <2>3 DEF Fit, Borne
<1>3. CASE r.kind = "schema"
    <2>1. schema' = r.schema /\ org' = org
        BY <1>3 DEF Store, Fit
    <2>2. Sound(schema)'
        BY <1>3, <2>1 DEF Sound, Manned, Z3BackRefs, Fit
    <2> QED BY <2>1, <2>2 DEF Borne
<1> QED BY <1>2, <1>3

(* The others' requests are beaten, or what they saw has not changed.      *)
LEMMA OthersFit ==
    ASSUME NEW r, NEW s, Fit(r), r.kind \in {"org", "schema"}, Store(r), Fit(s),
           s.kind \in {"org", "schema"} => s.saves \cap r.saves = {}
    PROVE  Fit(s)'
<1>1. r # Idle
    BY DEF Idle
<1>2. "org" \notin r.saves => org' = org
    BY DEF Store
<1>3. "schema" \notin r.saves => schema' = schema
    BY DEF Store, Fit
<1>4. s.kind = "org" => org' = org /\ (s.schema.linked => schema' = schema)
    BY <1>2, <1>3 DEF Fit
<1> QED BY <1>4 DEF Fit

(* A request is attempted, stored or beaten before a case.                 *)
LEMMA RequestKeeps ==
    ASSUME IInv, NEW p \in Proc, Request(p)
    PROVE  IInv' /\ Borne
<1>1. case.at = 0 /\ (Attempt(p) \/ Commit(p)) /\ UNCHANGED caseVars
    BY DEF Request
<1>2. Sound(schema) /\ RequestsFit
    BY DEF IInv
<1>3. DOMAIN Flow = 1 .. Len(Flow) /\ Len(Flow) \in Nat
    BY StaffingConstants
<1>4. case' = case /\ absent' = absent /\ sweep' = sweep /\ escalated' = escalated
    BY <1>1 DEF caseVars
<1>5. CaseFits'
    <2>1. \A i \in DOMAIN Flow : ~(i < case.at)
        BY <1>1, <1>3
    <2> QED BY <1>1, <1>4, <2>1 DEF IInv, CaseFits, NotStarted
<1>6. SweepsFit' /\ EventsFit'
    <2>1. ~Open
        BY <1>1, <1>3 DEF Open
    <2> QED BY <1>4, <2>1 DEF IInv, SweepsFit, EventsFit, Open
<1>7. CASE Attempt(p)
    <2>1. org' = org /\ schema' = schema
        BY <1>7 DEF Attempt
    <2> DEFINE asked == IF request[p] = Idle THEN OrgChanges \cup LocalChanges \cup Edits
                        ELSE {request[p].what}
               made  == UNION {RequestsFor(c) : c \in asked}
    <2>2. PICK r \in IF made = {} THEN {Idle} ELSE made : request' = [request EXCEPT ![p] = r]
        BY <1>7 DEF Attempt
    <2>3. asked \subseteq Asked
        BY <1>2 DEF Asked, RequestsFit, Fit
    <2> HIDE DEF asked
    <2>4. r = Idle \/ \E c \in Asked : r \in RequestsFor(c)
        BY <2>2, <2>3
    <2>5. Fit(r)
        BY <1>2, <2>4, RequestFits DEF Fit, Idle
    <2>6. \A q \in Proc : Fit(request[q])
        BY <1>2 DEF RequestsFit
    <2>7. \A s : Fit(s) => Fit(s)'
        BY <2>1 DEF Fit
    <2>8. RequestsFit'
        BY <1>2, <2>2, <2>5, <2>6, <2>7 DEF RequestsFit
    <2>9. Sound(schema)' /\ Borne
        BY <1>2, <2>1 DEF Sound, Manned, Z3BackRefs, Borne
    <2> QED BY <1>5, <1>6, <2>8, <2>9 DEF IInv
<1>8. CASE Commit(p)
    <2>1. Pending(p) /\ Store(request[p]) /\ Fit(request[p])
        BY <1>2, <1>8 DEF Commit, RequestsFit
    <2>2. request' = [Beaten(p, request[p].saves) EXCEPT ![p] = Idle]
        BY <1>8 DEF Commit
    <2>3. Sound(schema)' /\ Borne
        BY <1>2, <2>1, StoreKeeps DEF Pending
    <2>4. request'[p] = Idle /\ request' = [q \in Proc |-> request'[q]]
        BY <2>2 DEF Beaten
    <2>5. ASSUME NEW q \in Proc, q # p
          PROVE  \/ request'[q] = request[q] /\
                       (Pending(q) => request[q].saves \cap request[p].saves = {})
                 \/ Pending(q) /\ request'[q] = [kind |-> "beaten", what |-> request[q].what]
        BY <2>2, <2>5 DEF Beaten
    <2>6. ASSUME NEW s, Fit(s), s.kind \in {"org", "schema"} => s.saves \cap request[p].saves = {}
          PROVE  Fit(s)'
        <3>1. request[p].kind \in {"org", "schema"}
            BY <2>1 DEF Pending
        <3> QED BY <2>1, <2>6, <3>1, OthersFit
    <2>7. ASSUME NEW q \in Proc, NEW s, s = request'[q] PROVE Fit(s)'
        <3>1. CASE s = Idle
            BY <3>1 DEF Fit, Idle
        <3>2. CASE q # p /\ s = request[q] /\ (Pending(q) => s.saves \cap request[p].saves = {})
            <4>1. Fit(s) /\ (s.kind \in {"org", "schema"} => s.saves \cap request[p].saves = {})
                BY <1>2, <3>2 DEF RequestsFit, Pending
            <4> QED BY <2>6, <4>1
        <3>3. CASE Pending(q) /\ s = [kind |-> "beaten", what |-> request[q].what]
            <4>1. Fit(request[q]) /\ request[q] # Idle
                BY <1>2, <3>3 DEF RequestsFit, Pending, Idle
            <4>2. s.kind = "beaten" /\ s.what \in Asked
                BY <3>3, <4>1 DEF Fit
            <4> QED BY <4>2 DEF Fit
        <3> QED BY <2>4, <2>5, <2>7, <3>1, <3>2, <3>3
    <2>8. RequestsFit'
        <3>1. \A q \in Proc : Fit(request[q])'
            BY <2>7 DEF Fit
        <3> QED BY <2>4, <3>1 DEF RequestsFit
    <2> QED BY <1>5, <1>6, <2>3, <2>8 DEF IInv
<1> QED BY <1>1, <1>7, <1>8

-----------------------------------------------------------------------------
(***************************************************************************)
(* The case.                                                               *)
(***************************************************************************)

\* The activations of a case go on, or all of them start again in a new round.
SameRound(c) == c.round = case.round /\ \A n \in Activity : c.fired[n] = case.fired[n]
NewRound(c) == c.round = case.round + 1 /\ \A n \in Activity : c.fired[n] = 0

(* What is stored and asked besides the case stays.                        *)
LEMMA OrgStays ==
    ASSUME IInv, UNCHANGED orgVars
    PROVE  RequestsFit' /\ Sound(schema)' /\ Borne
<1>1. org' = org /\ schema' = schema /\ request' = request /\ raced' = raced
    BY DEF orgVars
<1> QED BY <1>1 DEF IInv, RequestsFit, Fit, Sound, Manned, Z3BackRefs, Borne

(* No sweep survives a save of the case.                                   *)
LEMMA SweepsLost ==
    ASSUME SweepsFit, sweep' = SweepsBeaten
    PROVE  SweepsFit'
<1>1. \A t \in Timer : sweep'[t] \in {Idle, Lost}
    BY DEF SweepsBeaten
<1>2. sweep' = [t \in Timer |-> sweep'[t]]
    BY DEF SweepsBeaten
<1> QED BY <1>1, <1>2 DEF SweepsFit

(* The events of the stages fit the round that goes on or begins.          *)
LEMMA EventsOfRound ==
    ASSUME EventsFit, NEW c, SameRound(c) \/ NewRound(c), case.round \in Nat,
           case' = c, escalated' = escalated
    PROVE  EventsFit'
<1>1. CASE SameRound(c)
    BY <1>1 DEF SameRound, EventsFit
<1>2. CASE NewRound(c)
    <2>1. escalated \in Seq(Event) /\ \A k \in DOMAIN escalated :
              escalated[k].round \in Nat /\ escalated[k].round < case.round + 1
        <3>1. /\ escalated \in Seq(Event)
              /\ \A k \in DOMAIN escalated : escalated[k].round <= case.round
            BY DEF EventsFit
        <3>2. \A k \in DOMAIN escalated : escalated[k] \in Event
            BY <3>1
        <3>3. \A k \in DOMAIN escalated : escalated[k].round \in Nat
            BY <3>2 DEF Event
        <3> QED BY <3>1, <3>3
    <2>2. \A k \in DOMAIN escalated' :
              escalated'[k].round <= case'.round /\ escalated'[k].round # case'.round
        BY <1>2, <2>1 DEF NewRound
    <2>3. \A n \in Activity : 1 .. case'.fired[n] = {}
        BY <1>2 DEF NewRound
    <2> QED BY <2>1, <2>2, <2>3 DEF EventsFit
<1> QED BY <1>1, <1>2

(* A save of the open case that records who worked keeps everything.       *)
LEMMA SaveKeeps ==
    ASSUME IInv, case.at > 0, NEW c, Save(c), UNCHANGED <<escalated, orgVars>>,
           WellFormed(c), c.at > 0, SameRound(c) \/ NewRound(c),
           \A n \in Node : c.by[n] = case.by[n] \/ c.by[n] # None,
           \A i \in DOMAIN Flow : i < c.at =>
               i < case.at \/ c.by[Flow[i]] # None \/ Excused(Flow[i])
    PROVE  IInv' /\ Borne
<1>1. /\ case' = c /\ sweep' = SweepsBeaten /\ escalated' = escalated
      /\ org' = org /\ schema' = schema /\ request' = request /\ raced' = raced
    BY DEF Save, orgVars
<1>2. SweepsFit'
    BY <1>1, SweepsLost DEF IInv
<1>3. EventsFit'
    BY <1>1, EventsOfRound DEF IInv, CaseFits, WellFormed
<1>4. RequestsFit' /\ Sound(schema)' /\ Borne
    BY OrgStays
<1>5. CaseFits'
    <2>1. ~schema'.draft /\ \A p \in Proc : request'[p] = Idle
        BY <1>1 DEF IInv, CaseFits
    <2>2. \A n \in Node : Excused(n)' = Excused(n)
        BY <1>1 DEF Excused, Manned, UsersOf
    <2>3. \A i \in DOMAIN Flow : Flow[i] \in Node
        BY StaffingConstants
    <2>4. \A i \in DOMAIN Flow : i < c.at => c.by[Flow[i]] # None \/ Excused(Flow[i])
        BY <2>3 DEF IInv, CaseFits, OnRecord
    <2> QED BY <1>1, <2>1, <2>2, <2>3, <2>4 DEF CaseFits, OnRecord, WellFormed
<1> QED BY <1>2, <1>3, <1>4, <1>5 DEF IInv

(* The case starts with nobody on record and nothing escalated.            *)
LEMMA StartCaseKeeps ==
    ASSUME IInv, StartCase
    PROVE  IInv' /\ Borne
<1> DEFINE c == [case EXCEPT !.at = 1, !.round = 1]
<1>1. /\ case.at = 0 /\ ~schema.draft /\ \A p \in Proc : request[p] = Idle
      /\ case' = c /\ sweep' = SweepsBeaten /\ escalated' = escalated
      /\ org' = org /\ schema' = schema /\ request' = request /\ raced' = raced
    BY DEF StartCase, Save, orgVars
<1>2. case = NotStarted /\ escalated = <<>>
    BY <1>1 DEF IInv, CaseFits
<1>3. /\ WellFormed(c) /\ c.at = 1 /\ c.round = 1
      /\ \A n \in Activity : c.fired[n] = 0
    <2>1. c = [at |-> 1, by |-> [n \in Node |-> None], holder |-> None,
               fired |-> [n \in Activity |-> 0], round |-> 1, last |-> None, done |-> 0]
        <3>1. case = [at |-> 0, by |-> [n \in Node |-> None], holder |-> None,
                      fired |-> [n \in Activity |-> 0], round |-> 0, last |-> None, done |-> 0]
            BY <1>2 DEF NotStarted
        <3>2. /\ c = [i \in {"at", "by", "holder", "fired", "round", "last", "done"} |-> c[i]]
              /\ c.at = 1 /\ c.round = 1 /\ c.by = case.by /\ c.holder = case.holder
              /\ c.fired = case.fired /\ c.last = case.last /\ c.done = case.done
            BY <3>1
        <3>3. /\ case.by = [n \in Node |-> None] /\ case.fired = [n \in Activity |-> 0]
              /\ case.holder = None /\ case.last = None /\ case.done = 0
            BY <3>1
        <3> HIDE DEF c
        <3> QED BY <3>2, <3>3
    <2> HIDE DEF c
    <2>2. /\ c.by = [n \in Node |-> None] /\ c.fired = [n \in Activity |-> 0]
          /\ c.at = 1 /\ c.round = 1
        BY <2>1
    <2>3. c.by = [n \in Node |-> c.by[n]] /\ c.fired = [n \in Activity |-> c.fired[n]]
        BY <2>2
    <2>4. c = [at |-> c.at, by |-> c.by, holder |-> c.holder, fired |-> c.fired,
               round |-> c.round, last |-> c.last, done |-> c.done]
        BY <2>1
    <2>5. \A n \in Activity : c.fired[n] = 0
        BY <2>2
    <2> QED BY <2>2, <2>3, <2>4, <2>5 DEF WellFormed
<1> HIDE DEF c
<1>4. SweepsFit'
    BY <1>1, SweepsLost DEF IInv
<1>5. EventsFit'
    <2>1. NewRound(c) /\ case.round \in Nat
        BY <1>2, <1>3 DEF NewRound, NotStarted
    <2> QED BY <1>1, <2>1, EventsOfRound DEF IInv
<1>6. RequestsFit' /\ Sound(schema)' /\ Borne
    BY OrgStays DEF StartCase
<1>7. CaseFits'
    <2>1. \A i \in DOMAIN Flow : ~(i < 1)
        BY StaffingConstants
    <2> QED BY <1>1, <1>3, <2>1 DEF CaseFits, WellFormed
<1> QED BY <1>4, <1>5, <1>6, <1>7 DEF IInv

(* What the node is at which the case stops, and the open step.            *)
LEMMA CurrentNode ==
    ASSUME IInv, case.at \in DOMAIN Flow
    PROVE  /\ case.at > 0 /\ Step \in Node /\ Step = Flow[case.at] /\ WellFormed(case)
           /\ ~schema.draft
BY StaffingConstants DEF Step, IInv, CaseFits, WellFormed

LEMMA OpenStep ==
    ASSUME IInv, Open
    PROVE  /\ case.at > 0 /\ Step \in Activity /\ Step = Flow[case.at] /\ WellFormed(case)
           /\ ~schema.draft /\ case.at \in DOMAIN Flow
BY CurrentNode DEF Open

(* A step is claimed or given back.                                        *)
LEMMA HolderKeeps ==
    ASSUME IInv, Open, NEW h, Save([case EXCEPT !.holder = h]),
           UNCHANGED <<absent, escalated, orgVars>>
    PROVE  IInv' /\ Borne
<1> DEFINE c == [case EXCEPT !.holder = h]
<1>1. case.at > 0 /\ WellFormed(case)
    BY OpenStep
<1>2. /\ WellFormed(c) /\ c.at = case.at /\ c.by = case.by /\ SameRound(c)
    BY <1>1 DEF WellFormed, SameRound
<1>3. Save(c)
    OBVIOUS
<1> HIDE DEF c
<1> QED BY <1>1, <1>2, <1>3, SaveKeeps

(* A step is done: whoever did it is on record or no rule asks.            *)
LEMMA DoneKeeps ==
    ASSUME IInv, case.at \in DOMAIN Flow, NEW d, WellFormed(d), d.at = case.at, SameRound(d),
           \A n \in Node : d.by[n] = case.by[n] \/ d.by[n] # None,
           d.by[Step] # None \/ Excused(Step),
           NEW c \in {[d EXCEPT !.at = @ + 1]} \cup
               IF d.at = Len(Flow) /\ d.round < MaxRounds
               THEN {[d EXCEPT !.at = 1, !.round = @ + 1, !.fired = [n \in Activity |-> 0]]}
               ELSE {},
           Save(c), UNCHANGED <<absent, escalated, orgVars>>
    PROVE  IInv' /\ Borne
<1>1. case.at > 0 /\ case.at \in Nat /\ Step = Flow[case.at]
    BY CurrentNode DEF WellFormed
<1>2. WellFormed(c) /\ c.at > 0 /\ c.by = d.by /\ (SameRound(c) \/ NewRound(c))
    <2>1. CASE c = [d EXCEPT !.at = @ + 1]
        <3>1. c = [at |-> d.at + 1, by |-> d.by, holder |-> d.holder, fired |-> d.fired,
                   round |-> d.round, last |-> d.last, done |-> d.done]
            BY <2>1 DEF WellFormed
        <3>2. d.by = [n \in Node |-> d.by[n]] /\ d.fired = [n \in Activity |-> d.fired[n]]
            BY DEF WellFormed
        <3>3. /\ c.at = d.at + 1 /\ c.by = d.by /\ c.fired = d.fired /\ c.round = d.round
              /\ c.holder = d.holder /\ c.last = d.last /\ c.done = d.done
            BY <3>1
        <3>4. /\ d.at \in Nat /\ d.round \in Nat /\ d.at > 0
              /\ \A n \in Activity : d.fired[n] \in Nat
            BY <1>1 DEF WellFormed
        <3>5. SameRound(c)
            BY <3>3 DEF SameRound
        <3>6. WellFormed(c)
            <4>1. /\ c.at \in Nat /\ c.round \in Nat /\ \A n \in Activity : c.fired[n] \in Nat
                BY <3>3, <3>4
            <4>2. c = [at |-> c.at, by |-> [n \in Node |-> c.by[n]], holder |-> c.holder,
                       fired |-> [n \in Activity |-> c.fired[n]], round |-> c.round,
                       last |-> c.last, done |-> c.done]
                BY <3>1, <3>2, <3>3
            <4> QED BY <4>1, <4>2 DEF WellFormed
        <3> QED BY <3>3, <3>4, <3>5, <3>6
    <2>2. CASE c = [d EXCEPT !.at = 1, !.round = @ + 1, !.fired = [n \in Activity |-> 0]]
        <3>1. c = [at |-> 1, by |-> d.by, holder |-> d.holder, fired |-> [n \in Activity |-> 0],
                   round |-> d.round + 1, last |-> d.last, done |-> d.done]
            BY <2>2 DEF WellFormed
        <3>2. d.by = [n \in Node |-> d.by[n]] /\ d.round \in Nat
            BY DEF WellFormed
        <3>3. /\ c.at = 1 /\ c.by = d.by /\ c.fired = [n \in Activity |-> 0]
              /\ c.round = d.round + 1
            BY <3>1
        <3>4. c = [at |-> c.at, by |-> c.by, holder |-> c.holder, fired |-> c.fired,
                   round |-> c.round, last |-> c.last, done |-> c.done]
            BY <3>1
        <3>5. NewRound(c)
            BY <3>3 DEF SameRound, NewRound
        <3>6. WellFormed(c)
            <4>1. \A n \in Activity : c.fired[n] = 0
                BY <3>3
            <4>2. /\ c.by = [n \in Node |-> c.by[n]]
                  /\ c.fired = [n \in Activity |-> c.fired[n]]
                BY <3>2, <3>3
            <4> QED BY <3>2, <3>3, <3>4, <4>1, <4>2 DEF WellFormed
        <3> QED BY <3>3, <3>5, <3>6
    <2> QED BY <2>1, <2>2
<1>3. \A i \in DOMAIN Flow : i < c.at =>
          i < case.at \/ c.by[Flow[i]] # None \/ Excused(Flow[i])
    <2>1. c.at = case.at + 1 \/ c.at = 1
        BY <1>1 DEF WellFormed
    <2>2. \A i \in DOMAIN Flow : i \in Nat /\ i >= 1
        BY StaffingConstants
    <2>3. \A i \in DOMAIN Flow : i < c.at => i < case.at \/ i = case.at
        BY <1>1, <2>1, <2>2
    <2> QED BY <1>1, <1>2, <2>3
<1> QED BY <1>1, <1>2, <1>3, SaveKeeps

(* A request beside a case leaves the staff rules of a released schema.    *)
LEMMA BesideKeeps ==
    ASSUME IInv, RequestBesideCase
    PROVE  IInv' /\ Borne
<1>1. case.at > 0 /\ UNCHANGED <<request, caseVars>>
    BY DEF RequestBesideCase
<1>2. PICK c \in Asked : \E r \in RequestsFor(c) : Store(r)
    BY DEF RequestBesideCase, Asked
<1>3. PICK r \in RequestsFor(c) : Store(r)
    BY <1>2
<1>4. /\ Fit(r) /\ r.kind \in {"org", "schema"}
      /\ r.kind = "schema" /\ ~schema.draft =>
             /\ ~r.schema.draft
             /\ r.schema.rule = schema.rule /\ r.schema.automatic = schema.automatic
    BY RequestFits DEF IInv
<1>5. Sound(schema)' /\ Borne
    BY <1>3, <1>4, StoreKeeps DEF IInv
<1>6. ~schema.draft /\ \A p \in Proc : request[p] = Idle
    BY <1>1 DEF IInv, CaseFits
<1>7. ~schema'.draft /\ schema'.rule = schema.rule /\ schema'.automatic = schema.automatic
    BY <1>3, <1>4, <1>6 DEF Store
<1>8. /\ case' = case /\ sweep' = sweep /\ escalated' = escalated /\ absent' = absent
      /\ request' = request
    BY <1>1 DEF caseVars
<1>9. RequestsFit'
    <2>1. \A p \in Proc : request'[p] = Idle
        BY <1>6, <1>8
    <2>2. request' = [p \in Proc |-> request'[p]]
        BY <1>8 DEF IInv, RequestsFit
    <2>3. \A p \in Proc : Fit(request[p])'
        BY <2>1 DEF Fit, Idle
    <2> QED BY <2>2, <2>3 DEF RequestsFit
<1>10. CaseFits'
    <2>1. \A n : Excused(n)' = Excused(n)
        BY <1>7 DEF Excused, Manned, UsersOf
    <2> QED BY <1>1, <1>6, <1>7, <1>8, <2>1 DEF IInv, CaseFits, OnRecord, WellFormed
<1>11. SweepsFit' /\ EventsFit'
    BY <1>8 DEF IInv, SweepsFit, EventsFit, Open, Step
<1> QED BY <1>5, <1>9, <1>10, <1>11 DEF IInv

(* The open step is claimed or given back.                                 *)
LEMMA ClaimKeeps ==
    ASSUME IInv, NEW a \in MayWork, Claim(a)
    PROVE  IInv' /\ Borne
<1>1. Open
    BY DEF MayWork
<1>2. Save([case EXCEPT !.holder = a]) /\ UNCHANGED <<absent, escalated, orgVars>>
    BY DEF Claim
<1> QED BY <1>1, <1>2, HolderKeeps

LEMMA ReturnKeeps ==
    ASSUME IInv, ReturnClaim
    PROVE  IInv' /\ Borne
<1>1. Open /\ Save([case EXCEPT !.holder = None]) /\ UNCHANGED <<absent, escalated, orgVars>>
    BY DEF ReturnClaim
<1> QED BY <1>1, HolderKeeps

(* An agent completes the open step and is on record.                      *)
LEMMA CompleteKeeps ==
    ASSUME IInv, NEW a \in MayWork, Complete(a)
    PROVE  IInv' /\ Borne
<1> DEFINE d == [case EXCEPT !.by[Step] = a, !.holder = None, !.last = a, !.done = @ + 1]
<1>1. Open /\ a # None
    BY DEF MayWork, Complete
<1>2. PICK c \in After(d) : Save(c)
    BY DEF Complete
<1>3. UNCHANGED <<absent, escalated, orgVars>>
    BY DEF Complete
<1>4. WellFormed(case) /\ Step \in Node /\ case.at \in DOMAIN Flow
    BY <1>1, OpenStep, CurrentNode
<1>5. d = [at |-> case.at, by |-> [case.by EXCEPT ![Step] = a], holder |-> None,
           fired |-> case.fired, round |-> case.round, last |-> a, done |-> case.done + 1]
    <2>1. case = [at |-> case.at, by |-> case.by, holder |-> case.holder, fired |-> case.fired,
                  round |-> case.round, last |-> case.last, done |-> case.done]
        BY <1>4 DEF WellFormed
    <2>2. /\ d = [i \in {"at", "by", "holder", "fired", "round", "last", "done"} |-> d[i]]
          /\ d.at = case.at /\ d.by = [case.by EXCEPT ![Step] = a] /\ d.holder = None
          /\ d.fired = case.fired /\ d.round = case.round /\ d.last = a
          /\ d.done = case.done + 1
        BY <2>1
    <2> HIDE DEF d
    <2> QED BY <2>2
<1>6. case.by = [n \in Node |-> case.by[n]] /\ case.fired = [n \in Activity |-> case.fired[n]]
    BY <1>4 DEF WellFormed
<1>7. c \in {[d EXCEPT !.at = @ + 1]} \cup
               IF d.at = Len(Flow) /\ d.round < MaxRounds
               THEN {[d EXCEPT !.at = 1, !.round = @ + 1, !.fired = [n \in Activity |-> 0]]} ELSE {}
    BY <1>2 DEF After
<1> HIDE DEF d
<1>8. /\ d.at = case.at /\ d.round = case.round /\ d.fired = case.fired
      /\ d.by = [case.by EXCEPT ![Step] = a]
    BY <1>5
<1>9. /\ d = [at |-> d.at, by |-> d.by, holder |-> d.holder, fired |-> d.fired,
              round |-> d.round, last |-> d.last, done |-> d.done]
      /\ d.by = [n \in Node |-> d.by[n]]
    BY <1>5, <1>6, <1>8
<1>10. WellFormed(d) /\ SameRound(d)
    BY <1>4, <1>6, <1>8, <1>9 DEF WellFormed, SameRound
<1>11. d.by[Step] # None /\ \A n \in Node : d.by[n] = case.by[n] \/ d.by[n] # None
    BY <1>1, <1>4, <1>6, <1>8
<1> QED BY <1>2, <1>3, <1>4, <1>7, <1>8, <1>10, <1>11, DoneKeeps

(* A node is done and nobody is recorded for it.                           *)
LEMMA DoneByNobodyKeeps ==
    ASSUME IInv, case.at \in DOMAIN Flow, Excused(Step), DoneByNobody
    PROVE  IInv' /\ Borne
<1> DEFINE d == [case EXCEPT !.last = None, !.done = @ + 1]
<1>2. PICK c \in After(d) : Save(c)
    BY DEF DoneByNobody
<1>3. UNCHANGED <<absent, escalated, orgVars>>
    BY DEF DoneByNobody
<1>4. WellFormed(case)
    BY CurrentNode
<1>5. d = [at |-> case.at, by |-> case.by, holder |-> case.holder,
           fired |-> case.fired, round |-> case.round, last |-> None, done |-> case.done + 1]
    <2>1. case = [at |-> case.at, by |-> case.by, holder |-> case.holder, fired |-> case.fired,
                  round |-> case.round, last |-> case.last, done |-> case.done]
        BY <1>4 DEF WellFormed
    <2>2. /\ d = [i \in {"at", "by", "holder", "fired", "round", "last", "done"} |-> d[i]]
          /\ d.at = case.at /\ d.by = case.by /\ d.holder = case.holder
          /\ d.fired = case.fired /\ d.round = case.round /\ d.last = None
          /\ d.done = case.done + 1
        BY <2>1
    <2> HIDE DEF d
    <2> QED BY <2>2
<1>6. c \in {[d EXCEPT !.at = @ + 1]} \cup
               IF d.at = Len(Flow) /\ d.round < MaxRounds
               THEN {[d EXCEPT !.at = 1, !.round = @ + 1, !.fired = [n \in Activity |-> 0]]} ELSE {}
    BY <1>2 DEF After
<1> HIDE DEF d
<1>7. /\ d.at = case.at /\ d.by = case.by /\ d.fired = case.fired /\ d.round = case.round
      /\ d = [at |-> d.at, by |-> d.by, holder |-> d.holder, fired |-> d.fired,
              round |-> d.round, last |-> d.last, done |-> d.done]
    BY <1>5
<1>8. WellFormed(d) /\ SameRound(d)
    BY <1>4, <1>7 DEF WellFormed, SameRound
<1> QED BY <1>2, <1>3, <1>6, <1>7, <1>8, DoneKeeps

(* A supervisor completes the open step: no rule asks who did it.          *)
LEMMA SuperviseKeeps ==
    ASSUME IInv, Supervise
    PROVE  IInv' /\ Borne
<1>1. Open /\ Step \notin schema.automatic /\ DoneByNobody
      /\ (Step \in DOMAIN schema.rule => UsersOf(Step) = {})
    BY DEF Supervise
<1>2. Step \in Activity /\ ~schema.draft /\ case.at \in DOMAIN Flow
    BY <1>1, OpenStep
<1>3. Step \in DOMAIN schema.rule
    BY <1>1, <1>2 DEF IInv, Sound, Manned
<1> QED BY <1>1, <1>2, <1>3, DoneByNobodyKeeps DEF Excused

(* A system completes an automatic step, a child ends: nobody has to be on *)
(* record for it.                                                          *)
LEMMA UnmannedKeeps ==
    ASSUME IInv, SystemCompletes \/ ChildEnds
    PROVE  IInv' /\ Borne
<1>1. case.at \in DOMAIN Flow /\ DoneByNobody /\ Step \notin Manned(schema)
    BY DEF SystemCompletes, ChildEnds, Calls, Open, Manned
<1> QED BY <1>1, DoneByNobodyKeeps DEF Excused

-----------------------------------------------------------------------------
(***************************************************************************)
(* The sweeps.                                                             *)
(***************************************************************************)

(* What a step of a sweep leaves alone, as long as it saves nothing.       *)
LEMMA OnlySweeps ==
    ASSUME IInv, UNCHANGED <<case, escalated, orgVars>>
    PROVE  RequestsFit' /\ Sound(schema)' /\ Borne /\ CaseFits' /\ EventsFit'
<1>1. /\ case' = case /\ escalated' = escalated /\ org' = org
      /\ schema' = schema /\ request' = request /\ raced' = raced
    BY DEF orgVars
<1>2. RequestsFit' /\ Sound(schema)' /\ Borne
    BY OrgStays
<1>3. CaseFits'
    <2>1. \A n : Excused(n)' = Excused(n)
        BY <1>1 DEF Excused, Manned, UsersOf
    <2> QED BY <1>1, <2>1 DEF IInv, CaseFits, OnRecord, WellFormed
<1>4. EventsFit'
    BY <1>1 DEF IInv, EventsFit
<1> QED BY <1>2, <1>3, <1>4

(* A sweep reads the open step as it is.                                   *)
LEMMA SweepReadsKeeps ==
    ASSUME IInv, NEW t \in Timer, SweepReads(t)
    PROVE  IInv' /\ Borne
<1>1. PICK upto \in case.fired[Step] + 1 .. Len(Stages(schema, Step)) :
          sweep' = [sweep EXCEPT ![t] = [kind |-> "read", read |-> case, upto |-> upto]]
    BY DEF SweepReads
<1>2. /\ case' = case /\ escalated' = escalated /\ absent' = absent /\ org' = org
      /\ schema' = schema /\ request' = request /\ raced' = raced /\ Open
      /\ UNCHANGED <<case, escalated, orgVars>>
    BY DEF SweepReads, orgVars
<1>3. RequestsFit' /\ Sound(schema)' /\ Borne /\ CaseFits' /\ EventsFit'
    BY <1>2, OnlySweeps
<1>4. upto \in Nat /\ upto > case.fired[Step]
    <2>1. case.fired[Step] \in Nat
        BY <1>2, OpenStep DEF WellFormed
    <2> QED BY <2>1
<1>5. SweepsFit'
    <2>1. /\ sweep' = [s \in Timer |-> sweep'[s]]
          /\ sweep'[t] = [kind |-> "read", read |-> case, upto |-> upto]
          /\ \A s \in Timer : s # t => sweep'[s] = sweep[s]
        BY <1>1 DEF IInv, SweepsFit
    <2>2. sweep'[t].read = case /\ sweep'[t].upto = upto
        BY <2>1
    <2>3. \A s \in Timer : sweep'[s] \notin {Idle, Lost} =>
              sweep'[s].read = case /\ sweep'[s].upto \in Nat /\ sweep'[s].upto > case.fired[Step]
        BY <1>4, <2>1, <2>2 DEF IInv, SweepsFit
    <2> QED BY <1>2, <2>1, <2>3 DEF SweepsFit, Open, Step
<1> QED BY <1>3, <1>5 DEF IInv

(* A beaten sweep gives up.                                                *)
LEMMA SweepSkipsKeeps ==
    ASSUME IInv, NEW t \in Timer, SweepSkips(t)
    PROVE  IInv' /\ Borne
<1>1. /\ case' = case /\ escalated' = escalated /\ absent' = absent /\ org' = org
      /\ schema' = schema /\ request' = request /\ raced' = raced
      /\ sweep' = [sweep EXCEPT ![t] = Idle] /\ UNCHANGED <<case, escalated, orgVars>>
    BY DEF SweepSkips, orgVars
<1>2. RequestsFit' /\ Sound(schema)' /\ Borne /\ CaseFits' /\ EventsFit'
    BY <1>1, OnlySweeps
<1>3. SweepsFit'
    BY <1>1 DEF IInv, SweepsFit, Open, Step
<1> QED BY <1>2, <1>3 DEF IInv

(* One sequence after another.                                             *)
LEMMA Appended ==
    ASSUME NEW S, NEW a \in Seq(S), NEW b \in Seq(S)
    PROVE  /\ a \o b \in Seq(S) /\ DOMAIN (a \o b) = 1 .. Len(a) + Len(b)
           /\ \A k \in 1 .. Len(a) : (a \o b)[k] = a[k]
           /\ \A k \in Len(a) + 1 .. Len(a) + Len(b) :
                 k - Len(a) \in 1 .. Len(b) /\ (a \o b)[k] = b[k - Len(a)]
OBVIOUS

(* The stages fired by a sweep that read the open step as it is.           *)
LEMMA SweepSavesKeeps ==
    ASSUME IInv, NEW t \in Timer, SweepSaves(t)
    PROVE  IInv' /\ Borne
<1> DEFINE upto == sweep[t].upto
           f    == case.fired[Step]
           L    == Len(escalated)
           c    == Fired(case, upto)
           new  == Events(case, upto)
<1>1. /\ sweep[t].read = case /\ Open /\ upto \in Nat /\ upto > f
    BY DEF SweepSaves, IInv, SweepsFit
<1>2. /\ WellFormed(case) /\ Step \in Activity /\ Step = Flow[case.at] /\ case.at > 0
      /\ f \in Nat /\ case.round \in Nat
    BY <1>1, OpenStep DEF WellFormed
<1>3. /\ case' = c /\ escalated' = escalated \o new
      /\ org' = org /\ schema' = schema /\ request' = request /\ raced' = raced
    BY <1>1 DEF SweepSaves, orgVars
<1>4. /\ sweep' = [SweepsBeaten EXCEPT ![t] = Idle]
    BY DEF SweepSaves
<1>5. c = [at |-> case.at, by |-> case.by, holder |-> case.holder,
           fired |-> [case.fired EXCEPT ![Step] = upto],
           round |-> case.round, last |-> case.last, done |-> case.done]
    <2>1. case = [at |-> case.at, by |-> case.by, holder |-> case.holder, fired |-> case.fired,
                  round |-> case.round, last |-> case.last, done |-> case.done]
        BY <1>2 DEF WellFormed
    <2>2. c = [case EXCEPT !.fired[Step] = upto]
        BY <1>2 DEF Fired
    <2> HIDE DEF c
    <2> QED BY <2>1, <2>2
<1>6. \A i \in 1 .. upto - f : new[i] = [step |-> Step, round |-> case.round, stage |-> f + i]
    BY <1>2 DEF Events
<1>7. DOMAIN new = 1 .. upto - f /\ new \in Seq(Event) /\ Len(new) = upto - f
    <2>1. upto - f \in Nat
        BY <1>1, <1>2
    <2>2. new = [i \in 1 .. upto - f |-> [step |-> Step, round |-> case.round, stage |-> f + i]]
        BY <1>2 DEF Events
    <2>3. \A i \in 1 .. upto - f :
              [step |-> Step, round |-> case.round, stage |-> f + i] \in Event
        BY <1>2, <2>1 DEF Event
    <2> HIDE DEF new, Event
    <2> QED BY <2>1, <2>2, <2>3
<1>8. L = Len(escalated) /\ f = case.fired[Step]
    OBVIOUS
<1> HIDE DEF c, new, L, f, upto
<1>9. /\ c.at = case.at /\ c.by = case.by /\ c.round = case.round
      /\ c.fired = [case.fired EXCEPT ![Step] = upto]
    BY <1>5
<1>10. WellFormed(c)
    <2>1. /\ case.by = [n \in Node |-> case.by[n]]
          /\ case.fired = [n \in Activity |-> case.fired[n]]
        BY <1>2 DEF WellFormed
    <2>2. /\ c.by = [n \in Node |-> c.by[n]] /\ c.fired = [n \in Activity |-> c.fired[n]]
        BY <1>9, <2>1
    <2>3. c = [at |-> c.at, by |-> c.by, holder |-> c.holder, fired |-> c.fired,
               round |-> c.round, last |-> c.last, done |-> c.done]
        BY <1>5
    <2>4. \A n \in Activity : c.fired[n] \in Nat
        BY <1>1, <1>2, <1>9, <2>1 DEF WellFormed
    <2> QED BY <1>2, <1>9, <2>2, <2>3, <2>4 DEF WellFormed
<1>11. RequestsFit' /\ Sound(schema)' /\ Borne
    <2>1. UNCHANGED orgVars
        BY DEF SweepSaves
    <2> HIDE DEF L, f, upto
    <2> QED BY <2>1, OrgStays
<1>12. CaseFits'
    <2>1. \A n : Excused(n)' = Excused(n)
        BY <1>3 DEF Excused, Manned, UsersOf
    <2>2. ~schema'.draft /\ \A p \in Proc : request'[p] = Idle
        BY <1>2, <1>3 DEF IInv, CaseFits
    <2>3. \A i \in DOMAIN Flow : i < c.at => c.by[Flow[i]] # None \/ Excused(Flow[i])
        BY <1>9 DEF IInv, CaseFits, OnRecord
    <2> QED BY <1>2, <1>3, <1>9, <1>10, <2>1, <2>2, <2>3 DEF CaseFits, OnRecord, WellFormed
<1>13. SweepsFit'
    <2>1. \A s \in Timer : sweep'[s] \in {Idle, Lost}
        BY <1>4 DEF SweepsBeaten
    <2>2. sweep' = [s \in Timer |-> sweep'[s]]
        BY <1>4 DEF SweepsBeaten
    <2> QED BY <2>1, <2>2 DEF SweepsFit
<1>14. EventsFit'
    <2>1. /\ escalated \in Seq(Event)
          /\ \A k \in DOMAIN escalated : escalated[k].round <= case.round
          /\ DOMAIN escalated = 1 .. L /\ L \in Nat
        BY <1>8 DEF IInv, EventsFit
    <2>2. /\ escalated' \in Seq(Event)
          /\ \A k \in 1 .. L : escalated'[k] = escalated[k]
          /\ DOMAIN escalated' = 1 .. L + (upto - f)
        <3>1. L = Len(escalated)
            BY <1>8
        <3> QED BY <1>3, <1>7, <2>1, <3>1, Appended
    <2>3. \A k \in L + 1 .. L + (upto - f) :
              escalated'[k] = [step |-> Step, round |-> case.round, stage |-> f + (k - L)]
        <3>1. \A k \in L + 1 .. L + (upto - f) :
                  k - L \in 1 .. upto - f /\ escalated'[k] = new[k - L]
            <4>1. L = Len(escalated)
                BY <1>8
            <4> QED BY <1>3, <1>7, <2>1, <4>1, Appended
        <3> QED BY <1>6, <3>1
    <2>4. \A k \in L + 1 .. L + (upto - f) :
              escalated'[k].step = Step /\ escalated'[k].round = case.round
              /\ escalated'[k].stage = f + (k - L)
        <3> SUFFICES ASSUME NEW k \in L + 1 .. L + (upto - f)
                     PROVE  /\ escalated'[k].step = Step /\ escalated'[k].round = case.round
                            /\ escalated'[k].stage = f + (k - L)
            OBVIOUS
        <3>1. escalated'[k] = [step |-> Step, round |-> case.round, stage |-> f + (k - L)]
            BY <2>3
        <3> QED BY <3>1
    <2>5. \A k \in DOMAIN escalated' : k \in 1 .. L \/ k \in L + 1 .. L + (upto - f)
        BY <1>1, <1>2, <2>1, <2>2
    <2>6. \A k \in DOMAIN escalated' : escalated'[k].round <= case'.round
        <3>1. case'.round = case.round
            BY <1>3, <1>9
        <3> QED BY <1>2, <2>1, <2>2, <2>4, <2>5, <3>1
    <2> DEFINE Mine(n) == {k \in DOMAIN escalated : escalated[k].step = n
                                                   /\ escalated[k].round = case.round}
               More(n) == {k \in DOMAIN escalated' : escalated'[k].step = n
                                                   /\ escalated'[k].round = case'.round}
    <2>7. \A n \in Activity :
              /\ {escalated[k].stage : k \in Mine(n)} = 1 .. case.fired[n]
              /\ \A k, l \in Mine(n) : k < l => escalated[k].stage < escalated[l].stage
        BY DEF IInv, EventsFit
    <2>8. ASSUME NEW n \in Activity, n # Step
          PROVE  /\ {escalated'[k].stage : k \in More(n)} = 1 .. case'.fired[n]
                 /\ \A k, l \in More(n) : k < l => escalated'[k].stage < escalated'[l].stage
        <3>1. More(n) = Mine(n)
            <4>1. case'.round = case.round /\ \A k \in 1 .. L : k \in DOMAIN escalated'
                BY <1>1, <1>2, <1>3, <1>9, <2>1, <2>2
            <4>2. ASSUME NEW k \in More(n) PROVE k \in Mine(n)
                BY <2>1, <2>2, <2>4, <2>5, <2>8, <4>1
            <4>3. ASSUME NEW k \in Mine(n) PROVE k \in More(n)
                BY <2>1, <2>2, <4>1
            <4> QED BY <4>2, <4>3
        <3>2. \A k \in Mine(n) : escalated'[k] = escalated[k]
            BY <2>1, <2>2
        <3>3. case'.fired[n] = case.fired[n]
            BY <1>2, <1>3, <1>9, <2>8 DEF WellFormed
        <3> HIDE DEF Mine, More
        <3>4. {escalated'[k].stage : k \in Mine(n)} = {escalated[k].stage : k \in Mine(n)}
            BY <3>2
        <3> QED BY <2>7, <3>1, <3>2, <3>3, <3>4
    <2>9. /\ {escalated'[k].stage : k \in More(Step)} = 1 .. case'.fired[Step]
          /\ \A k, l \in More(Step) : k < l => escalated'[k].stage < escalated'[l].stage
        <3>1. More(Step) = Mine(Step) \cup (L + 1 .. L + (upto - f))
            <4>1. /\ case'.round = case.round /\ \A k \in 1 .. L : k \in DOMAIN escalated'
                  /\ \A k \in L + 1 .. L + (upto - f) : k \in DOMAIN escalated'
                BY <1>1, <1>2, <1>3, <1>9, <2>1, <2>2
            <4>2. ASSUME NEW k \in More(Step), k \notin L + 1 .. L + (upto - f)
                  PROVE  k \in Mine(Step)
                BY <2>1, <2>2, <2>5, <4>1, <4>2
            <4>3. ASSUME NEW k \in Mine(Step) PROVE k \in More(Step)
                BY <2>1, <2>2, <4>1
            <4>4. \A k \in L + 1 .. L + (upto - f) : k \in More(Step)
                BY <2>4, <4>1
            <4> QED BY <4>2, <4>3, <4>4
        <3>2. \A k \in Mine(Step) : escalated'[k] = escalated[k] /\ k \in 1 .. L
            BY <2>1, <2>2
        <3>3. case'.fired[Step] = upto
            BY <1>2, <1>3, <1>9 DEF WellFormed
        <3>4. \A k \in Mine(Step) : escalated[k].stage \in 1 .. f
            BY <1>2, <1>8, <2>7
        <3>5. \A j \in 1 .. f : \E k \in Mine(Step) : escalated[k].stage = j
            BY <1>2, <1>8, <2>7
        <3> HIDE DEF Mine, More
        <3>6. ASSUME NEW j \in 1 .. upto
              PROVE  \E k \in More(Step) : escalated'[k].stage = j
            <4>1. CASE j <= f
                BY <1>2, <3>1, <3>2, <3>5, <4>1
            <4>2. CASE j > f
                <5>1. L + (j - f) \in L + 1 .. L + (upto - f)
                    BY <1>1, <1>2, <2>1, <4>2
                <5>2. PICK k \in L + 1 .. L + (upto - f) : k = L + (j - f)
                    BY <5>1
                <5>3. f + (k - L) = j
                    BY <1>1, <1>2, <2>1, <5>2
                <5>4. k \in More(Step) /\ escalated'[k].stage = f + (k - L)
                    BY <2>4, <3>1
                <5> QED BY <5>3, <5>4
            <4> QED BY <1>2, <4>1, <4>2
        <3>7. \A k \in More(Step) : escalated'[k].stage \in 1 .. upto
            BY <1>1, <1>2, <2>1, <2>4, <3>1, <3>2, <3>4
        <3>8. {escalated'[k].stage : k \in More(Step)} = 1 .. upto
            BY <3>6, <3>7
        <3>9. ASSUME NEW k \in More(Step), NEW l \in More(Step), k < l
              PROVE  escalated'[k].stage < escalated'[l].stage
            <4>1. CASE k \in Mine(Step) /\ l \in Mine(Step)
                BY <1>2, <2>7, <3>2, <3>9, <4>1
            <4>2. CASE k \in Mine(Step) /\ l \in L + 1 .. L + (upto - f)
                <5>1. escalated'[k].stage \in 1 .. f /\ escalated'[l].stage = f + (l - L)
                    BY <2>4, <3>2, <3>4, <4>2
                <5> QED BY <1>1, <1>2, <2>1, <4>2, <5>1
            <4>3. CASE k \in L + 1 .. L + (upto - f) /\ l \in Mine(Step)
                BY <1>1, <1>2, <2>1, <3>2, <3>9, <4>3
            <4>4. CASE k \in L + 1 .. L + (upto - f) /\ l \in L + 1 .. L + (upto - f)
                <5>1. escalated'[k].stage = f + (k - L) /\ escalated'[l].stage = f + (l - L)
                    BY <2>4, <4>4
                <5> QED BY <1>1, <1>2, <2>1, <3>9, <4>4, <5>1
            <4> QED BY <3>1, <4>1, <4>2, <4>3, <4>4
        <3> QED BY <3>3, <3>8, <3>9
    <2>10. \A n \in Activity :
              /\ {escalated'[k].stage : k \in More(n)} = 1 .. case'.fired[n]
              /\ \A k, l \in More(n) : k < l => escalated'[k].stage < escalated'[l].stage
        BY <2>8, <2>9
    <2> QED BY <2>2, <2>6, <2>10 DEF EventsFit
<1> QED BY <1>11, <1>12, <1>13, <1>14 DEF IInv

-----------------------------------------------------------------------------

(* Every step keeps the invariant and what it owes the schema.             *)
LEMMA StepIInv ==
    ASSUME IInv, [Next]_<<orgVars, caseVars>>
    PROVE  IInv' /\ [Borne]_org
<1>1. CASE RequestBesideCase
    BY <1>1, BesideKeeps
<1>2. CASE \E p \in Proc : Request(p)
    BY <1>2, RequestKeeps
<1>3. CASE StartCase
    BY <1>3, StartCaseKeeps
<1>4. CASE ReturnClaim
    BY <1>4, ReturnKeeps
<1>5. CASE Supervise \/ SystemCompletes \/ ChildEnds
    BY <1>5, SuperviseKeeps, UnmannedKeeps
<1>6. CASE \E a \in MayWork : Claim(a) \/ Complete(a)
    BY <1>6, ClaimKeeps, CompleteKeeps
<1>7. ASSUME UNCHANGED <<case, sweep, escalated, orgVars>>
      PROVE  IInv' /\ Borne
    <2>1. RequestsFit' /\ Sound(schema)' /\ Borne /\ CaseFits' /\ EventsFit'
        BY <1>7, OnlySweeps
    <2>2. SweepsFit'
        BY <1>7 DEF IInv, SweepsFit, Open, Step
    <2> QED BY <2>1, <2>2 DEF IInv
<1>8. CASE \E a \in Away : RecordAbsence(a) \/ EndAbsence(a)
    <2>1. UNCHANGED <<case, sweep, escalated, orgVars>>
        BY <1>8 DEF RecordAbsence, EndAbsence
    <2> QED BY <1>7, <2>1
<1>9. CASE \E t \in Timer : SweepReads(t) \/ SweepSaves(t) \/ SweepSkips(t)
    BY <1>9, SweepReadsKeeps, SweepSavesKeeps, SweepSkipsKeeps
<1>10. CASE UNCHANGED <<orgVars, caseVars>>
    <2>1. UNCHANGED <<case, sweep, escalated, orgVars>>
        BY <1>10 DEF caseVars
    <2> QED BY <1>7, <2>1
<1> QED BY <1>1, <1>2, <1>3, <1>4, <1>5, <1>6, <1>8, <1>9, <1>10 DEF Next

(* A case that has not started, beside a draft.                            *)
LEMMA InitIInv ==
    ASSUME Init
    PROVE  IInv
<1>1. /\ schema \in StartSchemas /\ request = [p \in Proc |-> Idle]
      /\ case = NotStarted /\ escalated = <<>> /\ sweep = [t \in Timer |-> Idle]
    BY DEF Init, OrgInit
<1>2. Sound(schema)
    BY <1>1, StaffingConstants DEF Sound
<1>3. RequestsFit
    BY <1>1 DEF RequestsFit, Fit, Idle
<1>4. DOMAIN Flow = 1 .. Len(Flow) /\ Len(Flow) \in Nat
    BY StaffingConstants
<1>5. case = [at |-> 0, by |-> [n \in Node |-> None], holder |-> None,
              fired |-> [n \in Activity |-> 0], round |-> 0, last |-> None, done |-> 0]
    BY <1>1 DEF NotStarted
<1>6. /\ case.at = 0 /\ case.round = 0 /\ case.fired = [n \in Activity |-> 0]
      /\ case.by = [n \in Node |-> None]
    BY <1>5
<1>7. WellFormed(case)
    BY <1>5, <1>6 DEF WellFormed
<1>8. CaseFits
    <2>1. \A i \in DOMAIN Flow : ~(i < case.at)
        BY <1>4, <1>6
    <2> QED BY <1>1, <1>6, <1>7, <2>1 DEF CaseFits
<1>9. SweepsFit
    BY <1>1 DEF SweepsFit
<1>10. EventsFit
    <2>1. escalated \in Seq(Event) /\ DOMAIN escalated = {}
        BY <1>1
    <2>2. \A n \in Activity : 1 .. case.fired[n] = {}
        BY <1>6
    <2> QED BY <2>1, <2>2 DEF EventsFit
<1> QED BY <1>2, <1>3, <1>8, <1>9, <1>10 DEF IInv

(***************************************************************************)
(* The invariant: whatever is stored or on its way to be stored is a draft *)
(* or was released by the rules; a request's check still describes what is *)
(* stored, or the request is beaten; an agent is on record for every step  *)
(* people did that a rule names; a sweep that will save read the case as   *)
(* it is; the audit log holds each stage fired.                            *)
(***************************************************************************)
THEOREM Invariant == Spec => []IInv
<1>1. Init => IInv
    BY InitIInv
<1>2. IInv /\ [Next]_<<orgVars, caseVars>> => IInv'
    BY StepIInv
<1> QED BY <1>1, <1>2, PTL DEF Spec

(* Every stage of an activation is fired and audited once and in order,    *)
(* however many timers sweep beside the work on the case                   *)
(* (_escalate_instance, and the conditional save it relies on).            *)
THEOREM StagesOnce == Spec => []StagesFiredOnce
<1>1. IInv => StagesFiredOnce
    <2> SUFFICES ASSUME IInv, Open PROVE StagesFiredOnce
        BY DEF StagesFiredOnce
    <2>1. Step \in Activity
        BY OpenStep
    <2> QED BY <2>1 DEF IInv, EventsFit, StagesFiredOnce
<1> QED BY <1>1, Invariant, PTL

(* A stored change of the shared organisation gives a schema that refers   *)
(* to it no finding, whatever requests ran beside it (_commit_org_or_422   *)
(* saves the referencing schemas with it).                                 *)
THEOREM ReferencingKept == Spec => OrgChangeKeepsReferencing
<1>1. IInv /\ [Next]_<<orgVars, caseVars>> => [Borne]_org
    BY StepIInv
<1> QED BY <1>1, Invariant, PTL DEF Spec, OrgChangeKeepsReferencing, Borne

(* Where the staff rule of the open step asks who worked a step of people, *)
(* somebody is on record: Z3 puts such a step before it, every people's    *)
(* step of a released schema has a rule (B2), and a supervision that would *)
(* leave nobody on record is refused (_refuse_without_performer).  A rule  *)
(* may also name START, a gateway, a sub-process or an automatic step      *)
(* (_check_staff_ref, Z3); of those nothing is said, and nobody need be on *)
(* record.                                                                 *)
THEOREM OnRecordBeforeAsked == Spec => []PerformersRecorded
<1>1. IInv => PerformersRecorded
    <2> SUFFICES ASSUME IInv, Open, Step \in DOMAIN schema.rule,
                        NEW x \in NodesNamed(schema.rule[Step]) \cap Manned(schema)
                 PROVE  case.by[x] # None
        BY DEF PerformersRecorded
    <2>1. /\ case.at > 0 /\ case.at \in Nat /\ Step = Flow[case.at] /\ case.at \in DOMAIN Flow
          /\ ~schema.draft
        BY OpenStep DEF WellFormed, Open
    <2>2. Z3BackRefs(schema) = {}
        BY <2>1 DEF IInv, Sound
    <2>3. x \in schema.before[Step]
        <3>1. x \notin NodesNamed(schema.rule[Step]) \ schema.before[Step]
            <4> SUFFICES ASSUME x \in NodesNamed(schema.rule[Step]) \ schema.before[Step]
                         PROVE  FALSE
                OBVIOUS
            <4>1. <<"Z3.reference-not-before", <<Step, x>>>> \in Z3BackRefs(schema)
                BY DEF Z3BackRefs
            <4> QED BY <2>2, <4>1
        <3> QED BY <3>1
    <2>4. PICK j \in 1 .. case.at - 1 : x = Flow[j]
        BY <2>1, <2>3 DEF IInv, Sound, Manned
    <2>5. DOMAIN Flow = 1 .. Len(Flow) /\ Len(Flow) \in Nat
        BY StaffingConstants
    <2>6. j \in DOMAIN Flow /\ j < case.at /\ j # case.at
        BY <2>1, <2>4, <2>5
    <2>7. OnRecord(x)
        BY <2>4, <2>6 DEF IInv, CaseFits
    <2>8. Step # x
        BY <2>1, <2>4, <2>6, StaffingConstants
    <2>9. Step \in UsersOf(x)
        BY <2>8 DEF UsersOf
    <2> QED BY <2>7, <2>9 DEF OnRecord, Excused
<1> QED BY <1>1, Invariant, PTL

-----------------------------------------------------------------------------
(***************************************************************************)
(* Organisations: who exists is recorded in a complete and finite model,   *)
(* whatever was changed and is about to be.                                *)
(***************************************************************************)
Finite(o) == DOMAIN o = DOMAIN EmptyOrg /\ IsFiniteSet(Agents(o))

OrgsComplete ==
    /\ Finite(org) /\ Finite(schema.own)
    /\ \A p \in Proc :
          /\ request[p].kind = "org" => Finite(request[p].org)
          /\ request[p].kind = "schema" => Finite(request[p].schema.own)

OrgFields == {"roles", "role", "unit", "deputy", "manager", "parent", "mail"}

LEMMA FieldsOfOrg == DOMAIN EmptyOrg = OrgFields
BY DEF EmptyOrg, OrgFields

(* An agent more is finitely many still.                                   *)
LEMMA OneAgentMore ==
    ASSUME NEW o, Finite(o), NEW a, NEW x, DOMAIN x = DOMAIN o,
           x.deputy = o.deputy \/ \E d : x.deputy = With(o.deputy, a, d)
    PROVE  Finite(x)
<1>1. DOMAIN x.deputy \subseteq DOMAIN o.deputy \cup {a}
    BY DEF With
<1>2. IsFiniteSet(DOMAIN o.deputy \cup {a})
    BY FS_AddElement DEF Finite, Agents
<1> QED BY <1>1, <1>2, FS_Subset DEF Finite, Agents

(* Who exists does not change.                                             *)
LEMMA SameAgents ==
    ASSUME NEW o, Finite(o), NEW x, DOMAIN x = DOMAIN o, DOMAIN x.deputy = DOMAIN o.deputy
    PROVE  Finite(x)
BY DEF Finite, Agents

OrgOps == Structural \cup {"set_manager", "set_parent", "set_deputy", "role_mailbox",
                           "unit_mailbox"}

(* What an operation on an organisation yields (procworks.org).            *)
LEMMA CandidateComplete ==
    ASSUME NEW o, Finite(o), NEW c, c.op \in OrgOps,
           NEW x \in Candidate(o, c) \cup LocalCandidate(o, c)
    PROVE  Finite(x)
<1>1. DOMAIN o = OrgFields
    BY FieldsOfOrg DEF Finite
<1>2. CASE c.op = "add_role"
    <2>1. DOMAIN x = DOMAIN o /\ x.deputy = o.deputy
        BY <1>1, <1>2 DEF Candidate, LocalCandidate, LocalAddRole, AddRole, If, OrgFields
    <2> QED BY <2>1, SameAgents
<1>3. CASE c.op = "add_unit"
    <2>1. DOMAIN x = DOMAIN o /\ x.deputy = o.deputy
        BY <1>1, <1>3 DEF Candidate, LocalCandidate, LocalAddUnit, AddUnit, If, OrgFields
    <2> QED BY <2>1, SameAgents
<1>4. CASE c.op = "add_agent"
    <2>1. DOMAIN x = DOMAIN o /\ x.deputy = With(o.deputy, c.id, c.deputy)
        BY <1>1, <1>4 DEF Candidate, LocalCandidate, LocalAddAgent, AddAgent, If, OrgFields
    <2> QED BY <2>1, OneAgentMore
<1>5. CASE c.op = "update_agent"
    <2>1. DOMAIN x = DOMAIN o /\ x.deputy = o.deputy
        BY <1>1, <1>5 DEF Candidate, LocalCandidate, LocalUpdateAgent, UpdateAgent, If, OrgFields
    <2> QED BY <2>1, SameAgents
<1>6. CASE c.op = "set_manager"
    <2>1. DOMAIN x = DOMAIN o /\ x.deputy = o.deputy
        BY <1>1, <1>6 DEF Candidate, LocalCandidate, LocalSetManager, SetManager, If, OrgFields
    <2> QED BY <2>1, SameAgents
<1>7. CASE c.op = "set_parent"
    <2>1. DOMAIN x = DOMAIN o /\ x.deputy = o.deputy
        BY <1>1, <1>7 DEF Candidate, LocalCandidate, LocalSetParent, SetParent, If, OrgFields
    <2> QED BY <2>1, SameAgents
<1>8. CASE c.op = "set_deputy"
    <2>1. DOMAIN x = DOMAIN o /\ DOMAIN x.deputy = DOMAIN o.deputy
        BY <1>1, <1>8 DEF Candidate, LocalCandidate, LocalSetDeputy, SetDeputy, If, OrgFields
    <2> QED BY <2>1, SameAgents
<1>9. CASE c.op \in {"role_mailbox", "unit_mailbox"}
    <2>1. DOMAIN x = DOMAIN o /\ x.deputy = o.deputy
        BY <1>1, <1>9 DEF Candidate, LocalCandidate, LocalSetRoleMailbox, LocalSetUnitMailbox,
           SetRoleMailbox, SetUnitMailbox, If, OrgFields
    <2> QED BY <2>1, SameAgents
<1> QED BY <1>2, <1>3, <1>4, <1>5, <1>6, <1>7, <1>8, <1>9 DEF OrgOps, Structural

(* What an edit makes of the schema's own organisation.                    *)
LEMMA EditedComplete ==
    ASSUME NEW s, Sound(s), Finite(s.own), NEW o, Finite(o),
           NEW c \in LocalChanges \cup Edits, NEW x \in AcceptedSchemas(s, o, c)
    PROVE  Finite(x.own)
<1>1. DOMAIN s = Fields
    BY DEF Sound
<1>2. CASE c.on = "local"
    <2>1. c \in LocalChanges /\ c.op \in OrgOps
        BY <1>2, StaffingConstants DEF OrgOps
    <2>2. x \in LocalResult(s, c)
        BY <1>2 DEF AcceptedSchemas
    <2>3. PICK y \in LocalCandidate(s.own, c) : x = [s EXCEPT !.own = y]
        BY <2>2 DEF LocalResult
    <2>4. x.own = y
        BY <1>1, <2>3 DEF Fields
    <2> QED BY <2>1, <2>3, <2>4, CandidateComplete
<1>3. CASE c.on # "local"
    <2>1. c \in Edits /\ x \in Edited(s, o, c)
        BY <1>3, StaffingConstants DEF AcceptedSchemas
    <2>2. c.op \in {"assign", "clear", "escalate", "mail", "link", "unlink", "release"}
        BY <2>1, StaffingConstants
    <2>3. CASE c.op \in {"assign", "clear", "escalate", "mail", "release"}
        <3>1. x.own = s.own
            BY <1>1, <2>1, <2>3 DEF Edited, AssignStaffRule, ClearStaffRule, SetEscalationPolicy,
               SetMailBinding, Release, If, Fields
        <3> QED BY <3>1
    <2>4. CASE c.op = "link"
        <3>1. x.own = EmptyOrg
            BY <1>1, <2>1, <2>4 DEF Edited, LinkOrgModel, Fields
        <3>2. Agents(EmptyOrg) = {}
            BY DEF EmptyOrg, Agents
        <3> QED BY <3>1, <3>2, FS_EmptySet DEF Finite
    <2>5. CASE c.op = "unlink"
        <3>1. x.own = Hydrated(s, o)
            BY <1>1, <2>1, <2>5 DEF Edited, UnlinkOrgModel, Fields
        <3> QED BY <3>1 DEF Hydrated
    <2> QED BY <2>2, <2>3, <2>4, <2>5
<1> QED BY <1>2, <1>3

(* What a request has prepared to save.                                    *)
LEMMA MadeComplete ==
    ASSUME Sound(schema), Finite(org), Finite(schema.own),
           NEW c \in Asked, NEW r \in RequestsFor(c)
    PROVE  /\ r.kind = "org" => Finite(r.org)
           /\ r.kind = "schema" => Finite(r.schema.own)
<1>1. CASE c.on = "org"
    <2>1. c \in OrgChanges /\ c.op \in OrgOps
        BY <1>1, StaffingConstants DEF Asked, OrgOps
    <2>2. PICK o \in {x \in Accepted(org, c) : Bears(x)} :
            r = [kind |-> "org", what |-> c, org |-> o, schema |-> schema, read |-> org,
                 saves |-> {"org"} \cup (IF schema.linked THEN {"schema"} ELSE {})]
        BY <1>1 DEF RequestsFor, OrgRequests
    <2>3. o \in Candidate(org, c)
        BY <2>2 DEF Accepted
    <2>4. r.kind = "org" /\ r.org = o
        BY <2>2
    <2> QED BY <2>1, <2>3, <2>4, CandidateComplete
<1>2. CASE c.on # "org"
    <2>1. c \in LocalChanges \cup Edits
        BY <1>2, StaffingConstants DEF Asked
    <2>2. PICK s \in AcceptedSchemas(schema, org, c) :
            r = [kind |-> "schema", what |-> c, org |-> org, schema |-> s, read |-> org,
                 saves |-> {"schema"}]
        BY <1>2 DEF RequestsFor, SchemaRequests
    <2>3. r.kind = "schema" /\ r.schema = s
        BY <2>2
    <2> QED BY <2>1, <2>2, <2>3, EditedComplete
<1> QED BY <1>1, <1>2

(* Storing what is complete.                                               *)
LEMMA StoredComplete ==
    ASSUME Finite(org), Finite(schema.own), NEW r, r.kind \in {"org", "schema"},
           Fit(r), Store(r),
           r.kind = "org" => Finite(r.org), r.kind = "schema" => Finite(r.schema.own)
    PROVE  Finite(org') /\ Finite(schema'.own)
<1>1. r # Idle
    BY DEF Idle
<1>2. r.kind = "org" => org' = r.org /\ schema' = schema
    BY DEF Store, Fit
<1>3. r.kind = "schema" => org' = org /\ schema' = r.schema
    BY DEF Store, Fit
<1> QED BY <1>2, <1>3

LEMMA StepOrgsComplete ==
    ASSUME IInv, OrgsComplete, [Next]_<<orgVars, caseVars>>
    PROVE  OrgsComplete'
<1>1. /\ Sound(schema) /\ RequestsFit /\ Finite(org) /\ Finite(schema.own)
      /\ \A p \in Proc : /\ request[p].kind = "org" => Finite(request[p].org)
                         /\ request[p].kind = "schema" => Finite(request[p].schema.own)
    BY DEF IInv, OrgsComplete
<1>2. CASE UNCHANGED orgVars
    BY <1>1, <1>2 DEF orgVars, OrgsComplete, Finite
<1>3. CASE RequestBesideCase
    <2>1. PICK c \in Asked : \E r \in RequestsFor(c) : Store(r)
        BY <1>3 DEF RequestBesideCase, Asked
    <2>2. PICK r \in RequestsFor(c) : Store(r)
        BY <2>1
    <2>3. Fit(r) /\ r.kind \in {"org", "schema"}
        BY <1>1, RequestFits
    <2>4. /\ r.kind = "org" => Finite(r.org)
          /\ r.kind = "schema" => Finite(r.schema.own)
        BY <1>1, MadeComplete
    <2>5. Finite(org') /\ Finite(schema'.own)
        BY <1>1, <2>2, <2>3, <2>4, StoredComplete
    <2>6. request' = request
        BY <1>3 DEF RequestBesideCase
    <2> QED BY <1>1, <2>5, <2>6 DEF OrgsComplete, Finite
<1>4. ASSUME NEW p \in Proc, Request(p) PROVE OrgsComplete'
    <2>1. CASE Attempt(p)
        <3>1. org' = org /\ schema' = schema
            BY <2>1 DEF Attempt
        <3> DEFINE asked == IF request[p] = Idle THEN OrgChanges \cup LocalChanges \cup Edits
                            ELSE {request[p].what}
                   made  == UNION {RequestsFor(c) : c \in asked}
        <3>2. PICK r \in IF made = {} THEN {Idle} ELSE made : request' = [request EXCEPT ![p] = r]
            BY <2>1 DEF Attempt
        <3>3. asked \subseteq Asked
            BY <1>1 DEF Asked, RequestsFit, Fit
        <3> HIDE DEF asked
        <3>4. r = Idle \/ \E c \in Asked : r \in RequestsFor(c)
            BY <3>2, <3>3
        <3>5. /\ r.kind = "org" => Finite(r.org)
              /\ r.kind = "schema" => Finite(r.schema.own)
            BY <1>1, <3>4, MadeComplete DEF Idle
        <3>6. \A q \in Proc : request'[q] = r \/ request'[q] = request[q]
            BY <1>1, <3>2 DEF RequestsFit
        <3> QED BY <1>1, <3>1, <3>5, <3>6 DEF OrgsComplete, Finite
    <2>2. CASE Commit(p)
        <3>1. Pending(p) /\ Store(request[p]) /\ Fit(request[p])
            BY <1>1, <2>2 DEF Commit, RequestsFit
        <3>2. Finite(org') /\ Finite(schema'.own)
            BY <1>1, <3>1, StoredComplete DEF Pending
        <3>3. request' = [Beaten(p, request[p].saves) EXCEPT ![p] = Idle]
            BY <2>2 DEF Commit
        <3>4. \A q \in Proc : \/ request'[q] = Idle \/ request'[q] = request[q]
                              \/ request'[q] = [kind |-> "beaten", what |-> request[q].what]
            BY <3>3 DEF Beaten
        <3>5. ASSUME NEW q \in Proc
              PROVE  /\ request'[q].kind = "org" => Finite(request'[q].org)
                     /\ request'[q].kind = "schema" => Finite(request'[q].schema.own)
            <4>1. CASE request'[q] = request[q]
                BY <1>1, <4>1
            <4>2. CASE request'[q] # request[q]
                <5>1. CASE request'[q] = Idle
                    BY <5>1 DEF Idle
                <5>2. CASE request'[q] = [kind |-> "beaten", what |-> request[q].what]
                    <6>1. request'[q].kind = "beaten"
                        BY <5>2
                    <6> QED BY <6>1
                <5> QED BY <3>4, <4>2, <5>1, <5>2
            <4> QED BY <4>1, <4>2
        <3> QED BY <3>2, <3>5 DEF OrgsComplete, Finite
    <2> QED BY <1>4, <2>1, <2>2 DEF Request
<1>5. CASE Next
    BY <1>2, <1>3, <1>4, <1>5 DEF Next, StartCase, ReturnClaim, Supervise, SystemCompletes,
       ChildEnds, DoneByNobody, Claim, Complete,
       RecordAbsence, EndAbsence, SweepReads, SweepSaves, SweepSkips
<1> QED BY <1>2, <1>5
-----------------------------------------------------------------------------
(***************************************************************************)
(* The substitution chain.                                                 *)
(***************************************************************************)

(* A set of numbers has a least one.                                       *)
LEMMA LeastNumber ==
    ASSUME NEW T, T \subseteq Nat, T # {}
    PROVE  \E x \in T : \A y \in T : x <= y
<1> DEFINE R == {ss \in Nat \X Nat : ss[1] < ss[2]}
<1>1. R = OpToRel(<, Nat)
    BY Zenon DEF OpToRel
<1>2. IsWellFoundedOn(R, Nat)
    BY <1>1, NatLessThanWellFounded DEF OpToRel
<1> HIDE DEF R
<1>3. PICK x \in T : \A y \in T : ~(<<y, x>> \in R)
    BY <1>2, WFMin
<1>4. \A y \in T : ~(y < x)
    BY <1>3 DEF R
<1> QED BY <1>4

Iterates(g, S, F, x) ==
    g \in [Nat -> S] /\ g[0] = x /\ \A k \in Nat : g[k + 1] = F[g[k]]

(* What is done again and again from a first value is a function of how    *)
(* often it was done.                                                      *)
LEMMA Iterated ==
    ASSUME NEW S, NEW F \in [S -> S], NEW x \in S
    PROVE  \E g : Iterates(g, S, F, x)
<1> DEFINE Good(h, m) == /\ h \in [0..m -> S] /\ h[0] = x
                         /\ \A k \in 0..m : k < m => h[k + 1] = F[h[k]]
<1>1. \A m \in Nat : \E h : Good(h, m)
    <2> DEFINE Bad == {m \in Nat : ~\E h : Good(h, m)}
    <2> SUFFICES ASSUME Bad # {} PROVE FALSE
        OBVIOUS
    <2>1. PICK m \in Bad : \A k \in Bad : m <= k
        BY LeastNumber, Bad \subseteq Nat
    <2>2. m # 0
        <3>1. Good([k \in 0..0 |-> x], 0)
            OBVIOUS
        <3> QED BY <3>1
    <2>3. m - 1 \in Nat /\ m - 1 \notin Bad
        BY <2>1, <2>2
    <2>4. PICK h : Good(h, m - 1)
        BY <2>3
    <2> DEFINE next == [k \in 0..m |-> IF k = m THEN F[h[m - 1]] ELSE h[k]]
    <2>5. Good(next, m)
        <3>1. h[m - 1] \in S
            BY <2>3, <2>4
        <3>2. next \in [0..m -> S]
            BY <2>3, <2>4, <3>1
        <3>3. next[0] = x
            BY <2>2, <2>3, <2>4
        <3>4. ASSUME NEW k \in 0..m, k < m PROVE next[k + 1] = F[next[k]]
            <4>1. CASE k = m - 1
                BY <4>1, <3>4
            <4>2. CASE k < m - 1
                BY <4>2, <3>4, <2>4, <2>3
            <4> QED BY <4>1, <4>2, <3>4, <2>3
        <3> QED BY <3>2, <3>3, <3>4
    <2> QED BY <2>5
<1>2. ASSUME NEW m \in Nat, NEW n \in Nat, m <= n, NEW h, NEW d, Good(h, m), Good(d, n)
      PROVE  h[m] = d[m]
    <2> DEFINE Bad == {k \in 0..m : h[k] # d[k]}
    <2> SUFFICES ASSUME Bad # {} PROVE FALSE
        BY <1>2
    <2>1. PICK k \in Bad : \A j \in Bad : k <= j
        BY LeastNumber, Bad \subseteq Nat
    <2>2. k # 0
        BY <1>2
    <2>3. k - 1 \in 0..m /\ k - 1 \notin Bad /\ k - 1 < m /\ k - 1 \in 0..n /\ k - 1 < n
        BY <1>2, <2>1, <2>2
    <2>4. h[k] = F[h[k - 1]] /\ d[k] = F[d[k - 1]]
        BY <1>2, <2>3
    <2> QED BY <2>3, <2>4
<1> DEFINE H(m) == CHOOSE h : Good(h, m)
           g == [m \in Nat |-> H(m)[m]]
<1>3. \A m \in Nat : Good(H(m), m)
    BY <1>1
<1> HIDE DEF H
<1>4. g \in [Nat -> S]
    BY <1>3
<1>5. g[0] = x
    BY <1>3
<1>6. ASSUME NEW k \in Nat PROVE g[k + 1] = F[g[k]]
    <2>1. H(k)[k] = H(k + 1)[k]
        <3> HIDE DEF Good
        <3> QED BY <1>2, <1>3, k + 1 \in Nat, k <= k + 1
    <2>2. H(k + 1)[k + 1] = F[H(k + 1)[k]]
        BY <1>3
    <2> QED BY <2>1, <2>2
<1> QED BY <1>4, <1>5, <1>6 DEF Iterates

(* What only grows within a finite set stops growing after as many steps   *)
(* as the set has elements.                                                *)
LEMMA Saturates ==
    ASSUME NEW X, IsFiniteSet(X), NEW g \in [Nat -> SUBSET X],
           \A k \in Nat : g[k] \subseteq g[k + 1],
           \A k \in Nat : g[k] = g[k + 1] => g[k + 1] = g[k + 2]
    PROVE  g[Cardinality(X)] = g[Cardinality(X) + 1]
<1> DEFINE M == Cardinality(X)
<1>1. M \in Nat
    BY FS_CardinalityType
<1> SUFFICES ASSUME g[M] # g[M + 1] PROVE FALSE
    OBVIOUS
<1> HIDE DEF M
<1>2. \A k \in 0..M : g[k] # g[k + 1]
    <2> SUFFICES ASSUME NEW k \in 0..M, g[k] = g[k + 1] PROVE FALSE
        OBVIOUS
    <2> DEFINE T == {j \in Nat : k <= j /\ g[j] # g[j + 1]}
    <2>1. PICK j \in T : \A i \in T : j <= i
        <3>1. M \in T
            BY <1>1
        <3> QED BY <3>1, LeastNumber, T \subseteq Nat
    <2>2. j # k
        OBVIOUS
    <2>3. j - 1 \in Nat /\ k <= j - 1 /\ j - 1 \notin T
        BY <2>1, <2>2
    <2>4. g[j - 1] = g[(j - 1) + 1] => g[(j - 1) + 1] = g[(j - 1) + 2]
        BY <2>3
    <2> QED BY <2>3, <2>4
<1>3. \A k \in Nat : IsFiniteSet(g[k]) /\ Cardinality(g[k]) \in Nat
    BY FS_Subset, FS_CardinalityType
<1> DEFINE Small == {k \in 0..(M + 1) : Cardinality(g[k]) < k}
<1>4. Small = {}
    <2> SUFFICES ASSUME Small # {} PROVE FALSE
        OBVIOUS
    <2>1. PICK k \in Small : \A j \in Small : k <= j
        BY LeastNumber, Small \subseteq Nat, <1>1
    <2>2. k # 0
        BY <1>3
    <2>3. k - 1 \in 0..M /\ k - 1 \notin Small /\ k - 1 \in 0..(M + 1)
        BY <1>1, <2>1, <2>2
    <2>4. k - 1 <= Cardinality(g[k - 1])
        BY <2>3, <1>3
    <2>5. g[k - 1] \subseteq g[k] /\ g[k - 1] # g[k]
        BY <2>3, <1>2
    <2>6. Cardinality(g[k - 1]) < Cardinality(g[k])
        <3>1. k \in Nat /\ k - 1 \in Nat
            BY <2>3
        <3>2. /\ Cardinality(g[k - 1]) <= Cardinality(g[k])
              /\ Cardinality(g[k - 1]) = Cardinality(g[k]) => g[k - 1] = g[k]
            BY <1>3, <2>5, <3>1, FS_Subset
        <3> QED BY <3>1, <3>2, <2>5, <1>3
    <2> QED BY <2>1, <2>3, <2>4, <2>6, <1>3
<1>5. M + 1 <= Cardinality(g[M + 1])
    BY <1>1, <1>3, <1>4
<1>6. Cardinality(g[M + 1]) <= M
    BY <1>1, FS_Subset DEF M
<1> QED BY <1>1, <1>3, <1>5, <1>6

(* With a first element it stops one step earlier.                         *)
LEMMA SaturatesEarlier ==
    ASSUME NEW X, IsFiniteSet(X), NEW g \in [Nat -> SUBSET X], g[0] # {},
           \A k \in Nat : g[k] \subseteq g[k + 1],
           \A k \in Nat : g[k] = g[k + 1] => g[k + 1] = g[k + 2]
    PROVE  /\ Cardinality(X) \in Nat \ {0}
           /\ g[Cardinality(X) - 1] = g[Cardinality(X)]
<1>1. PICK e \in g[0] : e \in X
    BY 0 \in Nat
<1> DEFINE Y == X \ {e}
           h == [k \in Nat |-> g[k] \ {e}]
<1>2. IsFiniteSet(Y) /\ Cardinality(Y) = Cardinality(X) - 1 /\ Cardinality(Y) \in Nat
      /\ Cardinality(X) \in Nat
    BY <1>1, FS_RemoveElement, FS_CardinalityType
<1>3. \A k \in Nat : e \in g[k]
    <2> DEFINE Bad == {k \in Nat : e \notin g[k]}
    <2> SUFFICES ASSUME Bad # {} PROVE FALSE
        OBVIOUS
    <2>1. PICK k \in Bad : \A j \in Bad : k <= j
        BY LeastNumber, Bad \subseteq Nat
    <2>2. k # 0
        BY <1>1
    <2>3. k - 1 \in Nat /\ k - 1 \notin Bad /\ (k - 1) + 1 = k
        BY <2>1, <2>2
    <2> QED BY <2>1, <2>3
<1>4. h \in [Nat -> SUBSET Y]
    OBVIOUS
<1>5. \A k \in Nat : h[k] \subseteq h[k + 1]
    BY \A k \in Nat : k + 1 \in Nat
<1>6. \A k \in Nat : h[k] = h[k + 1] => h[k + 1] = h[k + 2]
    <2> SUFFICES ASSUME NEW k \in Nat, h[k] = h[k + 1] PROVE h[k + 1] = h[k + 2]
        OBVIOUS
    <2>1. g[k] = g[k + 1]
        BY <1>3, k + 1 \in Nat
    <2> QED BY <2>1, k + 1 \in Nat, k + 2 \in Nat
<1> HIDE DEF Y, h
<1>7. h[Cardinality(Y)] = h[Cardinality(Y) + 1]
    BY <1>2, <1>4, <1>5, <1>6, Saturates
<1>8. h[Cardinality(X) - 1] = h[Cardinality(X)]
    BY <1>2, <1>7
<1>9. Cardinality(X) - 1 \in Nat
    BY <1>2
<1>10. /\ g[Cardinality(X) - 1] = h[Cardinality(X) - 1] \cup {e}
       /\ g[Cardinality(X)] = h[Cardinality(X)] \cup {e}
    BY <1>2, <1>3, <1>9 DEF h
<1> QED BY <1>2, <1>8, <1>9, <1>10

(* The substitution chain is followed to its end: every absent agent of it *)
(* has its deputy in it, unless the deputy is present and set apart        *)
(* (assignment._with_deputies stops when nobody new is found).             *)
LEMMA ChainIsClosed ==
    ASSUME NEW o, IsFiniteSet(Agents(o)), NEW base, NEW gone, NEW never
    PROVE  /\ base \subseteq Chain(o, base, gone, never)
           /\ \A a \in Chain(o, base, gone, never) \cap gone \cap Agents(o) :
                  o.deputy[a] \in Chain(o, base, gone, never) \cup {None} \cup (never \ gone)
<1> DEFINE found(S) == {o.deputy[a] : a \in S \cap gone \cap Agents(o)}
                       \ ({None} \cup (never \ gone))
           Rec(f) == f = [k \in Nat |-> IF k = 0 THEN base
                                        ELSE LET S == f[k - 1] IN S \cup found(S)]
           grow == CHOOSE grow : Rec(grow)
           P == SUBSET (base \cup {o.deputy[a] : a \in Agents(o)})
           F == [S \in P |-> S \cup found(S)]
           M == Cardinality(Agents(o))
<1>1. Chain(o, base, gone, never) = grow[M]
    BY DEF Chain
<1>2. F \in [P -> P] /\ base \in P
    OBVIOUS
<1>3. PICK g : g \in [Nat -> P] /\ g[0] = base /\ \A k \in Nat : g[k + 1] = F[g[k]]
    <2> HIDE DEF F, P
    <2>1. \E g : Iterates(g, P, F, base)
        BY <1>2, Iterated
    <2> QED BY <2>1 DEF Iterates
<1>4. Rec(g)
    <2>1. ASSUME NEW k \in Nat
          PROVE  g[k] = IF k = 0 THEN base ELSE g[k - 1] \cup found(g[k - 1])
        <3>1. CASE k = 0
            BY <1>3, <3>1
        <3>2. CASE k # 0
            <4>1. k - 1 \in Nat /\ (k - 1) + 1 = k
                BY <3>2
            <4>2. g[k] = F[g[k - 1]] /\ g[k - 1] \in P
                BY <4>1, <1>3
            <4> HIDE DEF P, found
            <4> QED BY <3>2, <4>2
        <3> QED BY <3>1, <3>2
    <2>2. g = [k \in Nat |-> g[k]]
        BY <1>3
    <2> HIDE DEF found
    <2> QED BY <2>1, <2>2
<1>5. Rec(grow)
    <2> HIDE DEF Rec
    <2> QED BY <1>4
<1>6. grow = [k \in Nat |-> IF k = 0 THEN base ELSE grow[k - 1] \cup found(grow[k - 1])]
    BY <1>5
<1> HIDE DEF grow
<1>7. grow[0] = base /\ \A k \in Nat : grow[k + 1] = grow[k] \cup found(grow[k])
    <2> HIDE DEF found
    <2>1. \A k \in Nat : k + 1 \in Nat /\ k + 1 # 0 /\ (k + 1) - 1 = k
        OBVIOUS
    <2> QED BY <1>6, <2>1
<1>8. M \in Nat
    BY FS_CardinalityType
<1>9. \A k \in Nat : base \subseteq grow[k]
    <2> DEFINE Bad == {k \in Nat : ~(base \subseteq grow[k])}
    <2> SUFFICES ASSUME Bad # {} PROVE FALSE
        OBVIOUS
    <2>1. PICK k \in Bad : \A j \in Bad : k <= j
        BY LeastNumber, Bad \subseteq Nat
    <2>2. k # 0
        BY <1>7
    <2>3. k - 1 \in Nat /\ k - 1 \notin Bad /\ (k - 1) + 1 = k
        BY <2>1, <2>2
    <2>4. grow[k - 1] \subseteq grow[k]
        BY <1>7, <2>3
    <2> QED BY <2>1, <2>3, <2>4
<1> DEFINE A == [k \in Nat |-> grow[k] \cap gone \cap Agents(o)]
<1>10. found(grow[M]) \subseteq grow[M]
    <2>1. CASE A[0] = {}
        <3>1. \A k \in Nat : grow[k] = base
            <4> DEFINE Bad == {k \in Nat : grow[k] # base}
            <4> SUFFICES ASSUME Bad # {} PROVE FALSE
                OBVIOUS
            <4>1. PICK k \in Bad : \A j \in Bad : k <= j
                BY LeastNumber, Bad \subseteq Nat
            <4>2. k # 0
                BY <1>7
            <4>3. k - 1 \in Nat /\ k - 1 \notin Bad /\ (k - 1) + 1 = k
                BY <4>1, <4>2
            <4>4. found(base) = {}
                BY <2>1, <1>7
            <4> QED BY <1>7, <4>1, <4>3, <4>4
        <3> QED BY <2>1, <3>1, <1>7, <1>8
    <2>2. CASE A[0] # {}
        <3>1. A \in [Nat -> SUBSET Agents(o)]
            OBVIOUS
        <3>2. \A k \in Nat : A[k] \subseteq A[k + 1]
            BY <1>7, \A k \in Nat : k + 1 \in Nat
        <3>3. \A k \in Nat : A[k] = A[k + 1] => A[k + 1] = A[k + 2]
            <4> SUFFICES ASSUME NEW k \in Nat, A[k] = A[k + 1] PROVE A[k + 1] = A[k + 2]
                OBVIOUS
            <4>1. k + 1 \in Nat /\ k + 2 \in Nat /\ (k + 1) + 1 = k + 2
                OBVIOUS
            <4>2. found(grow[k]) = found(grow[k + 1])
                BY <4>1
            <4>3. /\ grow[k + 1] = grow[k] \cup found(grow[k])
                  /\ grow[k + 2] = grow[k + 1] \cup found(grow[k + 1])
                BY <1>7, <4>1
            <4> HIDE DEF found
            <4>4. grow[k + 2] = grow[k + 1]
                BY <4>2, <4>3
            <4> QED BY <4>1, <4>4
        <3> HIDE DEF A
        <3>4. M \in Nat \ {0} /\ A[M - 1] = A[M]
            BY <2>2, <3>1, <3>2, <3>3, SaturatesEarlier
        <3>5. M - 1 \in Nat /\ (M - 1) + 1 = M
            BY <3>4
        <3>6. found(grow[M]) = found(grow[M - 1])
            BY <3>4, <3>5 DEF A
        <3> QED BY <1>7, <3>5, <3>6
    <2> QED BY <2>1, <2>2
<1> HIDE DEF M
<1> QED BY <1>1, <1>8, <1>9, <1>10

(* The monitoring is complete (unstaffed_steps): an unclaimed open step of *)
(* people is left out exactly when somebody present who can sign in has it *)
(* in the worklist, and when everybody who could work it is absent, each   *)
(* present deputy that stays away is named, however long the chain of      *)
(* deputies.                                                               *)
THEOREM UnstaffedAlwaysReported == Spec => []UnstaffedIsReported
<1>1. ASSUME IInv, OrgsComplete PROVE UnstaffedIsReported
    <2> SUFFICES ASSUME Open PROVE UnstaffedIsReported
        BY DEF UnstaffedIsReported
    <2> DEFINE fired  == case.fired[Step]
               reason == UnstaffedReason(schema, Org, Step, case.by, fired, absent, Logins)
               never  == FourEyesPerformers(Org, case.by, schema.rule[Step])
               base   == Base(schema, Org, Step, case.by, fired)
               chain  == Chain(Org, base, absent, never)
               deputies == {Org.deputy[a] : a \in Eligible \cap absent \cap Agents(Org)}
                           \ ({None} \cup absent)
               named  == {e[1] : e \in ExcludedDeputies(schema, Org, Step, case.by, fired, absent)}
    <2>2. Eligible = EligibleAgents(schema, Org, Step, case.by, fired, absent)
        BY DEF Eligible
    <2>3. reason = IF Step \in schema.automatic THEN None
                   ELSE IF Step \notin DOMAIN schema.rule THEN "no_rule"
                   ELSE IF Eligible = {} THEN "nobody"
                   ELSE IF Eligible \cap Logins = {} THEN "no_login"
                   ELSE IF Eligible \cap Logins \subseteq absent THEN "only_absent" ELSE None
        <3> HIDE DEF fired
        <3> QED BY <2>2, Zenon DEF UnstaffedReason
    <2>4. case.holder = None /\ Step \in Manned(schema) =>
              (reason = None <=> \E a \in Logins \ absent : Offered(a))
        <3> HIDE DEF reason
        <3> QED BY <2>3 DEF Offered, None, Manned
    <2>5. ASSUME reason = "only_absent" PROVE deputies \cap Logins \subseteq named
        <3>1. Step \in DOMAIN schema.rule /\ Eligible \cap Logins \subseteq absent
            <4> HIDE DEF reason
            <4> QED BY <2>3, <2>5 DEF None
        <3>2. Eligible = base \cup (chain \ never)
            <4> HIDE DEF fired
            <4> QED BY <2>2, <3>1, Zenon DEF EligibleAgents, WithDeputies
        <3>3. IsFiniteSet(Agents(Org))
            BY <1>1 DEF OrgsComplete, Finite, Org, Hydrated
        <3>4. /\ base \subseteq chain
              /\ \A a \in chain \cap absent \cap Agents(Org) :
                     Org.deputy[a] \in chain \cup {None} \cup (never \ absent)
            <4> HIDE DEF base, never
            <4> QED BY <3>3, ChainIsClosed
        <3>5. ExcludedDeputies(schema, Org, Step, case.by, fired, absent) =
                  {e \in {<<Org.deputy[a], a>> : a \in chain \cap absent \cap Agents(Org)} :
                      e[1] \in never}
            <4> HIDE DEF fired
            <4> QED BY Zenon DEF ExcludedDeputies, BlockedDeputies
        <3> HIDE DEF base, never, chain, fired
        <3> SUFFICES ASSUME NEW d \in deputies, d \in Logins PROVE d \in named
            OBVIOUS
        <3>6. PICK a \in Eligible \cap absent \cap Agents(Org) :
                  d = Org.deputy[a] /\ d # None /\ d \notin absent
            OBVIOUS
        <3>7. a \in chain \cap absent \cap Agents(Org)
            BY <3>2, <3>4, <3>6
        <3>8. d \in never
            BY <3>1, <3>2, <3>4, <3>6, <3>7
        <3>9. <<d, a>> \in {e \in {<<Org.deputy[b], b>> : b \in chain \cap absent \cap Agents(Org)} :
                               e[1] \in never}
            BY <3>6, <3>7, <3>8
        <3> QED BY <3>5, <3>9
    <2>6. /\ case.holder = None /\ Step \in Manned(schema) =>
                 (reason = None <=> \E a \in Logins \ absent : Offered(a))
          /\ reason = "only_absent" => deputies \cap Logins \subseteq named
        BY <2>4, <2>5
    <2> QED BY <2>6, Zenon DEF UnstaffedIsReported
<1>2. Init => OrgsComplete
    BY StaffingConstants DEF Init, OrgInit, OrgsComplete, Finite, Idle
<1>3. IInv /\ OrgsComplete /\ [Next]_<<orgVars, caseVars>> => OrgsComplete'
    BY StepOrgsComplete
<1> QED BY <1>1, <1>2, <1>3, Invariant, PTL DEF Spec
=============================================================================
