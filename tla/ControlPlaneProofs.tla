-------------------------- MODULE ControlPlaneProofs --------------------------
(***************************************************************************)
(* Proofs about ControlPlane, for any browsers, requests, user names and   *)
(* bounds: who is behind an effect, that a token has one user and a closed *)
(* one stays closed, that the setup ends, what an address may attempt, and *)
(* what the stored settings are.                                           *)
(***************************************************************************)
EXTENDS ControlPlane, FiniteSetTheorems, TLAPS

Steps == {"setup", "claim", "login", "grant", "logout", "create", "apply",
          "put", "validate", "marshal", "save", "reply"}
Asked == UNION {Asks(b) : b \in Browsers}
Request == [at : Steps, arg : Asked, sess : Copy, late : BOOLEAN, copy : Settings]
EffectOf == [op : Ops, user : Names \union {Blank}, forged : BOOLEAN, late : BOOLEAN, name : Names]
Logs == [effects : SUBSET EffectOf, closed : SUBSET Nat, named : SUBSET (Nat \X Names),
         admitted : [Keys -> Nat], elapsed : Nat,
         acked : Settings, overridden : SUBSET {"port", "domain"}, overlapped : BOOLEAN, left : BOOLEAN]
Administrators == {"super_admin", "admin"}

(***************************************************************************)
(* The inductive invariant.                                                *)
(***************************************************************************)

\* What the variables hold, whatever it means.
TypeInv ==
  /\ users \in [Names -> Roles \union {"none"}]
  /\ cookie \in [Browsers -> 0..counters.minted]
  /\ req \in [Slots -> Request \union {Idle}]
  /\ mem \in Settings /\ disk \in Settings
  /\ counters \in [minted : Nat, requests : Nat]
  /\ log \in Logs

\* A stored session belongs to a row of the user table and has its role.
SessionInv ==
  \A t \in DOMAIN sessions :
    /\ t \in 1..counters.minted /\ sessions[t].user \in Names
    /\ sessions[t].role \in Roles /\ users[sessions[t].user] = sessions[t].role

\* So does every copy that a request works on, if it has a user or will be
\* stored; a login that is about to be granted is for a row of the table.
CopyInv ==
  \A s \in Busy :
    /\ req[s].sess.tok <= counters.minted
    /\ req[s].sess.user # Blank => req[s].sess.state = "modified"
    /\ req[s].sess.state = "modified" =>
         /\ req[s].sess.tok > 0 /\ req[s].sess.user \in Names
         /\ req[s].sess.srole \in Roles /\ users[req[s].sess.user] = req[s].sess.srole
    /\ req[s].at = "grant" => users[req[s].arg.name] \in Roles

\* The store and the copies of one token name one user.
OneUserInv ==
  \A s \in Busy : req[s].sess.state = "modified" =>
    /\ req[s].sess.tok \in DOMAIN sessions => sessions[req[s].sess.tok].user = req[s].sess.user
    /\ \A o \in Busy : req[o].sess.state = "modified" /\ req[o].sess.tok = req[s].sess.tok
                         => req[o].sess.user = req[s].sess.user

\* A token that a session was ever stored under has one user, the one that the
\* store and the copies have with it.
NamedInv ==
  /\ \A p \in log.named : p[1] <= counters.minted
  /\ TokenOneUser
  /\ \A t \in DOMAIN sessions : <<t, sessions[t].user>> \in log.named
  /\ \A s \in Busy : req[s].sess.state = "modified" =>
       \A p \in log.named : p[1] = req[s].sess.tok => p[2] = req[s].sess.user

\* A closed token is neither in the store nor in a copy, and was minted.
ClosedInv ==
  \A t \in log.closed : /\ t \in 1..counters.minted /\ t \notin DOMAIN sessions
                        /\ \A s \in Busy : req[s].sess.tok # t

\* A request that is about to have an effect has passed the gates.
GateInv ==
  \A s \in Busy :
    /\ req[s].at \in {"create", "apply", "put"} =>
         /\ req[s].arg.op = req[s].at /\ ~ req[s].arg.forged
         /\ req[s].sess.user # Blank /\ HasPermission(req[s].sess.srole, Perm[req[s].at])
    /\ req[s].at \in {"setup", "claim"} => req[s].arg.op = "setup"

\* An administrator who was there when a request arrived still is, and no such
\* request gets to create the first one.
LateInv ==
  \A s \in Busy : req[s].late => /\ \E n \in Names : users[n] \in Administrators
                                 /\ req[s].at # "claim"

\* The properties of effects; and who is behind one of a user's has a row.
EffectInv == /\ AuthorityIsReal /\ NoForgedEffect /\ SetupIsOver
             /\ \A e \in log.effects : e.op # "setup" => e.user \in Names

\* A key has had no more attempts than what its bucket lacks, and a bucket is
\* refilled by the time it is dropped.
BucketInv ==
  /\ \A k \in DOMAIN buckets :
       /\ k \in Keys
       /\ buckets[k].level \in 0..Burst /\ buckets[k].idle \in 0..GcAge + 1
       /\ buckets[k].level = Burst \/ buckets[k].idle <= buckets[k].level
       /\ log.admitted[k] + buckets[k].level <= Burst + log.elapsed
  /\ \A k \in Keys \ DOMAIN buckets : log.admitted[k] <= log.elapsed

\* As long as puts do not overlap, one at most is between its steps; what it
\* read back was judged usable, and what is stored is what was answered for
\* where the environment was never put over it.
Midway == {s \in Busy : req[s].at \in {"validate", "marshal", "save"}}
PutInv ==
  ~ log.overlapped =>
    /\ Usable(disk)
    /\ \A s, o \in Midway : s = o
    /\ \A s \in Midway : /\ req[s].at = "marshal" => Usable(mem)
                         /\ req[s].at = "save" => req[s].copy = mem /\ Usable(mem)
    /\ ~ log.left => \A f \in {"port", "domain"} \ log.overridden :
         /\ disk[f] = log.acked[f]
         /\ Midway = {} => mem[f] = disk[f]
         /\ \A s \in Midway : mem[f] = WithFields(disk, req[s].arg.body)[f]

IndInv == /\ TypeInv /\ SessionInv /\ CopyInv /\ OneUserInv /\ NamedInv /\ ClosedInv /\ GateInv
          /\ LateInv /\ EffectInv /\ BucketInv /\ PutInv

(***************************************************************************)
(* Lemmas.                                                                 *)
(***************************************************************************)

\* The operations, and which of them are managed.
LEMMA OpsAre ==
  /\ Managed = {"create", "put", "apply", "list"}
  /\ Ops = {"create", "put", "apply", "list", "setup", "login", "logout", "me"}
BY DEF Managed, Ops, Perm

\* What a request says is typed.
LEMMA Arguments ==
  ASSUME NEW a \in Asked
  PROVE  /\ a \in Asks(a.by) /\ a.by \in Browsers /\ a.key \in Keys /\ a.op \in Ops /\ a.name \in Names
         /\ a.forged \in BOOLEAN /\ a.body \in Body
BY AsksAssumption DEF Asked

\* Settings stay settings when fields are put into them.
LEMMA Fields ==
  /\ Initial \in Settings
  /\ \A c \in Settings, b \in Body : WithFields(c, b) \in Settings /\ Promised(c, b) = WithFields(c, b)
<1>1. Initial \in Settings
  BY DEF Initial, Settings, MaxPort
<1>2. ASSUME NEW c \in Settings, NEW b \in Body
      PROVE  WithFields(c, b) \in Settings /\ Promised(c, b) = WithFields(c, b)
  <2>1. c.port \in 0..MaxPort + 1 /\ b.port \in -1..MaxPort + 1
    BY DEF Settings, Body
  <2>2. c.domain \in {"", "a", "b"} /\ b.domain \in {"", "a", "b"} /\ DOMAIN c = {"port", "domain"}
    BY DEF Settings, Body
  <2>3. (IF b.port = -1 THEN c.port ELSE b.port) \in 0..MaxPort + 1
    BY <2>1 DEF MaxPort
  <2>4. (IF b.domain = "" THEN c.domain ELSE b.domain) \in {"", "a", "b"}
    BY <2>2
  <2>5. WithFields(c, b) \in Settings
    BY <2>3, <2>4 DEF WithFields, Settings
  <2>6. NoBody["port"] = -1 /\ NoBody["domain"] = ""
    BY DEF NoBody
  <2>7. Promised(c, b)["port"] = WithFields(c, b)["port"] /\ Promised(c, b)["domain"] = WithFields(c, b)["domain"]
    BY <2>2, <2>6 DEF Promised, WithFields
  <2>8. Promised(c, b) = WithFields(c, b)
    BY <2>2, <2>7 DEF Promised, WithFields
  <2>9. QED
    BY <2>5, <2>8
<1>3. QED
  BY <1>1, <1>2

\* What a field is after a put depends on that field before it only.
LEMMA FieldByField ==
  ASSUME NEW c \in Settings, NEW d \in Settings, NEW b \in Body, NEW f \in {"port", "domain"}, c[f] = d[f]
  PROVE  WithFields(c, b)[f] = WithFields(d, b)[f]
<1>1. CASE f = "port"
  BY <1>1 DEF WithFields
<1>2. CASE f = "domain"
  BY <1>2 DEF WithFields
<1>3. QED
  BY <1>1, <1>2

\* A field that the environment does not give is the stored one.
LEMMA NotGiven ==
  ASSUME NEW c \in Settings, NEW b \in Body, NEW f \in {"port", "domain"} \ Given(b)
  PROVE  WithFields(c, b)[f] = c[f]
<1>1. DOMAIN NoBody = {"port", "domain"} /\ NoBody["port"] = -1 /\ NoBody["domain"] = ""
  BY DEF NoBody
<1>2. b[f] = NoBody[f]
  BY <1>1 DEF Given
<1>3. CASE f = "port"
  BY <1>1, <1>2, <1>3 DEF WithFields
<1>4. CASE f = "domain"
  BY <1>1, <1>2, <1>4 DEF WithFields
<1>5. QED
  BY <1>3, <1>4

\* A request that is being served, and what it may add to the log.
LEMMA Served ==
  ASSUME TypeInv, NEW s \in Slots, req[s] # Idle
  PROVE  /\ req[s] \in Request /\ req[s].arg \in Asked /\ req[s].sess \in Copy
         /\ req[s].sess.tok \in Nat /\ req[s].arg.name \in Names /\ Effect(s) \in EffectOf
<1>1. req[s] \in Request
  BY DEF TypeInv
<1>2. req[s].arg \in Asked /\ req[s].sess \in Copy /\ req[s].late \in BOOLEAN
  BY <1>1 DEF Request
<1>3. Effect(s) \in EffectOf
  BY <1>2, Arguments DEF Effect, EffectOf, Copy
<1>4. req[s].sess.tok \in Nat /\ req[s].arg.name \in Names
  BY <1>2, Arguments DEF Copy
<1>5. QED
  BY <1>1, <1>2, <1>3, <1>4

\* A step of a request to its next point changes nothing else of it.
LEMMA Going ==
  ASSUME TypeInv, NEW s \in Slots, req[s] # Idle, NEW at \in Steps, Go(s, at)
  PROVE  /\ req' \in [Slots -> Request \union {Idle}]
         /\ req'[s] \in Request /\ req'[s].at = at /\ req'[s].arg = req[s].arg /\ req'[s].sess = req[s].sess
         /\ req'[s].late = req[s].late /\ req'[s].copy = req[s].copy
         /\ \A o \in Slots : o # s => req'[o] = req[o]
<1>1. req[s] \in Request
  BY Served
<1>2. req'[s] = [req[s] EXCEPT !.at = at] /\ \A o \in Slots : o # s => req'[o] = req[o]
  BY DEF Go, TypeInv
<1>3. /\ [req[s] EXCEPT !.at = at] \in Request
      /\ LET r == [req[s] EXCEPT !.at = at]
         IN r.at = at /\ r.arg = req[s].arg /\ r.sess = req[s].sess /\ r.late = req[s].late /\ r.copy = req[s].copy
  BY <1>1 DEF Request
<1>4. req' \in [Slots -> Request \union {Idle}]
  BY <1>2, <1>3 DEF Go, TypeInv
<1>5. QED
  BY <1>2, <1>3, <1>4


\* Every step keeps the types.
LEMMA TypeStep == IndInv /\ Next => TypeInv'
<1> SUFFICES ASSUME IndInv, Next PROVE TypeInv'
  OBVIOUS
<1>1. ASSUME NEW s \in Slots, req[s] # Idle, SetupCheck(s) PROVE TypeInv'
  <2>1. req' \in [Slots -> Request \union {Idle}]
    BY <1>1, Going DEF IndInv, SetupCheck, Steps
  <2>2. log' \in Logs
    BY <1>1, Served, Arguments DEF IndInv, TypeInv, Logs, SetupCheck, Admitting
  <2>3. QED
    BY <1>1, <2>1, <2>2, Served, Arguments, Fields DEF IndInv, TypeInv, SetupCheck
<1>2. ASSUME NEW s \in Slots, req[s] # Idle, SetupCreate(s) PROVE TypeInv'
  <2>1. req' \in [Slots -> Request \union {Idle}]
    BY <1>2, Going DEF IndInv, SetupCreate, Steps
  <2>2. log' \in Logs
    BY <1>2, Served DEF IndInv, TypeInv, Logs, SetupCreate
  <2>3. users' \in [Names -> Roles \union {"none"}]
    BY <1>2, Served, Arguments DEF IndInv, TypeInv, SetupCreate, Roles
  <2>4. QED
    BY <1>2, <2>1, <2>2, <2>3 DEF IndInv, TypeInv, SetupCreate
<1>3. ASSUME NEW s \in Slots, req[s] # Idle, LoginCheck(s) PROVE TypeInv'
  <2>1. req' \in [Slots -> Request \union {Idle}]
    BY <1>3, Going DEF IndInv, LoginCheck, Steps
  <2>2. log' \in Logs
    BY <1>3, Served, Arguments DEF IndInv, TypeInv, Logs, LoginCheck, Admitting
  <2>3. QED
    BY <1>3, <2>1, <2>2, Served, Arguments, Fields DEF IndInv, TypeInv, LoginCheck
<1>4. ASSUME NEW s \in Slots, req[s] # Idle, LoginGrant(s) PROVE TypeInv'
  <2>1. req[s] \in Request /\ req[s].arg \in Asked /\ users[req[s].arg.name] \in Roles
    BY <1>4, Served DEF IndInv, TypeInv, CopyInv, Busy, LoginGrant
  <2> DEFINE tok == counters.minted + 1
             sess == [tok |-> tok, user |-> req[s].arg.name, srole |-> users[req[s].arg.name], state |-> "modified"]
  <2>a. tok \in Nat /\ req[s].arg.name \in Names
    BY <2>1, Arguments DEF IndInv, TypeInv
  <2>2. sess \in Copy /\ tok \in Nat
    BY <2>1, <2>a DEF Copy
  <2>3. req' = [req EXCEPT ![s].at = "reply", ![s].sess = sess]
    BY <1>4 DEF LoginGrant, Renewed
  <2>4. [req[s] EXCEPT !.at = "reply", !.sess = sess] \in Request
    BY <2>1, <2>2 DEF Request, Steps
  <2>5. req' \in [Slots -> Request \union {Idle}]
    BY <2>3, <2>4 DEF IndInv, TypeInv
  <2>6. counters' = [counters EXCEPT !.minted = tok]
    BY <1>4 DEF IndInv, TypeInv, LoginGrant, Renewed
  <2>7. counters' \in [minted : Nat, requests : Nat] /\ counters.minted <= counters'.minted
    BY <2>2, <2>6 DEF IndInv, TypeInv
  <2>8. cookie' \in [Browsers -> 0..counters'.minted]
    BY <1>4, <2>7 DEF IndInv, TypeInv, LoginGrant
  <2>9. QED
    BY <1>4, <2>5, <2>7, <2>8 DEF IndInv, TypeInv, LoginGrant
<1>5. ASSUME NEW s \in Slots, req[s] # Idle, Logout(s) PROVE TypeInv'
  <2>1. req[s] \in Request
    BY <1>5, Served DEF IndInv
  <2> DEFINE sess == [NoCopy EXCEPT !.state = "destroyed"]
  <2>2. sess \in Copy
    BY DEF NoCopy, Copy
  <2>3. [req[s] EXCEPT !.at = "reply", !.sess = sess] \in Request
    BY <2>1, <2>2 DEF Request, Steps
  <2>4. req' \in [Slots -> Request \union {Idle}]
    BY <1>5, <2>3 DEF IndInv, TypeInv, Logout
  <2>5. req[s].sess.tok \in Nat
    BY <2>1 DEF Request, Copy
  <2>6. log' \in Logs
    BY <1>5, <2>5 DEF IndInv, TypeInv, Logs, Logout
  <2>7. QED
    BY <1>5, <2>4, <2>6 DEF IndInv, TypeInv, Logout
<1>6. ASSUME NEW s \in Slots, req[s] # Idle, CreateUser(s) PROVE TypeInv'
  <2>1. req' \in [Slots -> Request \union {Idle}]
    BY <1>6, Going DEF IndInv, CreateUser, Steps
  <2>2. log' \in Logs
    BY <1>6, Served DEF IndInv, TypeInv, Logs, CreateUser
  <2>3. users' \in [Names -> Roles \union {"none"}]
    BY <1>6, Served, Arguments DEF IndInv, TypeInv, CreateUser, ValidRole
  <2>4. QED
    BY <1>6, <2>1, <2>2, <2>3 DEF IndInv, TypeInv, CreateUser
<1>7. ASSUME NEW s \in Slots, req[s] # Idle, ApplyTransaction(s) PROVE TypeInv'
  <2>1. req' \in [Slots -> Request \union {Idle}]
    BY <1>7, Going DEF IndInv, ApplyTransaction, Steps
  <2>2. log' \in Logs
    BY <1>7, Served DEF IndInv, TypeInv, Logs, ApplyTransaction
  <2>3. QED
    BY <1>7, <2>1, <2>2, Served, Arguments, Fields DEF IndInv, TypeInv, ApplyTransaction
<1>8. ASSUME NEW s \in Slots, req[s] # Idle, PutFields(s) PROVE TypeInv'
  <2>1. req' \in [Slots -> Request \union {Idle}]
    BY <1>8, Going DEF IndInv, PutFields, Steps
  <2> DEFINE over == log.overlapped \/ Putting # {s}
  <2>2. over \in BOOLEAN
    BY DEF IndInv, TypeInv, Logs
  <2>3. log' = [log EXCEPT !.effects = @ \union {Effect(s)}, !.overlapped = over]
    BY <1>8 DEF PutFields
  <2>4. log' \in Logs
    <3>1. Effect(s) \in EffectOf /\ log \in Logs
      BY <1>8, Served DEF IndInv, TypeInv
    <3> HIDE DEF over
    <3>2. QED
      BY <2>2, <2>3, <3>1 DEF Logs
  <2>5. QED
    BY <1>8, <2>1, <2>4, Served, Arguments, Fields DEF IndInv, TypeInv, PutFields
<1>9. ASSUME NEW s \in Slots, req[s] # Idle, PutValidate(s) PROVE TypeInv'
  <2>1. req' \in [Slots -> Request \union {Idle}]
    BY <1>9, Going DEF IndInv, PutValidate, Steps
  <2>2. log' \in Logs
    BY <1>9, Served DEF IndInv, TypeInv, Logs, PutValidate, Validate
  <2>3. QED
    BY <1>9, <2>1, <2>2, Served, Arguments, Fields DEF IndInv, TypeInv, PutValidate
<1>10. ASSUME NEW s \in Slots, req[s] # Idle, PutMarshal(s) PROVE TypeInv'
  <2>1. req[s] \in Request
    BY <1>10, Served DEF IndInv
  <2>2. [req[s] EXCEPT !.at = "save", !.copy = mem] \in Request
    BY <2>1 DEF IndInv, TypeInv, Request, Steps
  <2>3. req' \in [Slots -> Request \union {Idle}]
    BY <1>10, <2>2 DEF IndInv, TypeInv, PutMarshal
  <2>4. QED
    BY <1>10, <2>3 DEF IndInv, TypeInv, PutMarshal
<1>11. ASSUME NEW s \in Slots, req[s] # Idle, PutSave(s) PROVE TypeInv'
  <2>1. req' \in [Slots -> Request \union {Idle}]
    BY <1>11, Going DEF IndInv, PutSave, Steps
  <2>2. log.acked \in Settings /\ req[s].arg.body \in Body /\ req[s].copy \in Settings
    BY <1>11, Served, Arguments DEF IndInv, TypeInv, Logs, Request
  <2>3. Promised(log.acked, req[s].arg.body) \in Settings
    BY <2>2, Fields
  <2>4. log' \in Logs
    BY <1>11, <2>3 DEF IndInv, TypeInv, Logs, PutSave
  <2>5. QED
    BY <1>11, <2>1, <2>2, <2>4 DEF IndInv, TypeInv, PutSave
<1>18. ASSUME NEW s \in Slots, req[s] # Idle, PutFails(s) PROVE TypeInv'
  <2>1. req' \in [Slots -> Request \union {Idle}]
    BY <1>18, Going DEF IndInv, PutFails, Steps
  <2>2. log' \in Logs
    BY <1>18 DEF IndInv, TypeInv, Logs, PutFails
  <2>3. QED
    BY <1>18, <2>1, <2>2 DEF IndInv, TypeInv, PutFails
<1>12. ASSUME NEW s \in Slots, req[s] # Idle, Reply(s) PROVE TypeInv'
  <2>1. req' \in [Slots -> Request \union {Idle}]
    BY <1>12 DEF IndInv, TypeInv, Reply
  <2>a. req[s].arg.by \in Browsers /\ req[s].sess.tok \in Nat
    BY <1>12, Served, Arguments DEF IndInv, Copy
  <2>2. req[s].arg.by \in Browsers /\ req[s].sess.tok \in 0..counters.minted
    BY <1>12, <2>a DEF IndInv, TypeInv, CopyInv, Busy
  <2>3. cookie' \in [Browsers -> 0..counters'.minted]
    BY <1>12, <2>2 DEF IndInv, TypeInv, Reply
  <2>5. req[s].sess.state = "modified" => req[s].sess.user \in Names
    BY <1>12 DEF IndInv, CopyInv, Busy
  <2>6. log' \in Logs
    BY <1>12, <2>a, <2>5 DEF IndInv, TypeInv, Logs, Reply
  <2>4. QED
    BY <1>12, <2>1, <2>3, <2>6 DEF IndInv, TypeInv, Reply
<1>13. ASSUME NEW s \in Slots, NEW b \in Browsers, NEW a \in Asks(b), Arrive(s, a) PROVE TypeInv'
  <2>1. a \in Asked /\ a.op \in Ops /\ a.by \in Browsers
    BY <1>13, Arguments DEF Asked
  <2>2. Loaded(a.by) \in Copy
    <3>1. CASE cookie[a.by] \in DOMAIN sessions
      <4>1. /\ cookie[a.by] \in Nat /\ sessions[cookie[a.by]].user \in Names
            /\ sessions[cookie[a.by]].role \in Roles
        BY <3>1 DEF IndInv, TypeInv, SessionInv
      <4>2. QED
        BY <3>1, <4>1 DEF Loaded, Copy
    <3>2. CASE cookie[a.by] \notin DOMAIN sessions
      BY <3>2 DEF Loaded, Copy, NoCopy
    <3>3. QED
      BY <3>1, <3>2
  <2> DEFINE at == IF Admitted(a.op, Loaded(a.by), a.forged) /\ a.op \notin Reads THEN a.op ELSE "reply"
             late == \E n \in Names : users[n] \in {"super_admin", "admin"}
  <2>3. at \in Steps
    BY <2>1, OpsAre DEF Steps, Reads
  <2>4. [at |-> at, arg |-> a, sess |-> Loaded(a.by), late |-> late, copy |-> Initial] \in Request
    <3> HIDE DEF at, late
    <3>1. late \in BOOLEAN
      BY DEF late
    <3>2. QED
      BY <2>1, <2>2, <2>3, <3>1, Fields DEF Request
  <2>5. req' \in [Slots -> Request \union {Idle}]
    BY <1>13, <2>4 DEF IndInv, TypeInv, Arrive
  <2>6. QED
    BY <1>13, <2>5 DEF IndInv, TypeInv, Arrive
<1>14. ASSUME NEW t \in DOMAIN sessions, Expire(t) PROVE TypeInv'
  BY <1>14 DEF IndInv, TypeInv, Expire
<1>15. CASE Tick
  <2>1. log' \in Logs
    BY <1>15 DEF IndInv, TypeInv, Logs, Tick
  <2>2. QED
    BY <1>15, <2>1 DEF IndInv, TypeInv, Tick
<1>16. CASE Restart
  <2>1. PICK env \in Overrides :
          /\ mem' = WithFields(disk, env)
          /\ log' = [log EXCEPT !.admitted = [k \in Keys |-> 0], !.elapsed = 0, !.overridden = @ \union Given(env)]
    BY <1>16 DEF Restart
  <2>2. Given(env) \subseteq {"port", "domain"}
    BY DEF Given, NoBody
  <2>3. log' \in Logs
    BY <2>1, <2>2 DEF IndInv, TypeInv, Logs
  <2>4. mem' \in Settings
    BY <2>1, Fields, OverridesAssumption DEF IndInv, TypeInv
  <2>5. QED
    BY <1>16, <2>3, <2>4 DEF IndInv, TypeInv, Restart
<1>17. QED
  BY <1>1, <1>2, <1>3, <1>4, <1>5, <1>6, <1>7, <1>8, <1>9, <1>10, <1>11, <1>12, <1>13, <1>14, <1>15, <1>16, <1>18 DEF Next, Serve

\* A step of a handler between a request's arrival and its reply that leaves
\* the session copy alone.
Quiet(s) ==
  /\ sessions' = sessions /\ cookie' = cookie /\ counters' = counters /\ log'.closed = log.closed /\ log'.named = log.named
  /\ req[s] # Idle /\ req'[s] # Idle
  /\ req'[s].arg = req[s].arg /\ req'[s].sess = req[s].sess /\ req'[s].late = req[s].late
  /\ \A o \in Slots : o # s => req'[o] = req[o]
  /\ \A n \in Names : users[n] \in Roles => users'[n] = users[n]
  /\ req'[s].at \notin {"setup", "create", "apply", "put"}
  /\ req'[s].at = "claim" => req[s].at = "setup" /\ \A n \in Names : users[n] \notin Administrators
  /\ req'[s].at = "grant" => users[req[s].arg.name] \in Roles

\* Nobody is counted only if nobody is there.
LEMMA NobodyCounted ==
  ASSUME ~ CountAdmins(users) > 0, NEW n \in Names PROVE users[n] \notin Administrators
<1> DEFINE S == {m \in Names : users[m] \in Administrators}
<1>1. IsFiniteSet(S)
  BY ControlPlaneAssumption, FS_Subset
<1>2. Cardinality(S) \in Nat /\ (Cardinality(S) = 0 <=> S = {})
  BY <1>1, FS_CardinalityType, FS_EmptySet
<1>3. CountAdmins(users) = Cardinality(S)
  BY DEF CountAdmins, Administrators
<1>4. S = {}
  BY <1>2, <1>3
<1>5. QED
  BY <1>4

\* These handler steps are quiet.
LEMMA QuietSteps ==
  ASSUME IndInv, NEW s \in Slots, req[s] # Idle,
                  \/ SetupCheck(s) \/ SetupCreate(s) \/ LoginCheck(s) \/ CreateUser(s)
         \/ ApplyTransaction(s) \/ PutFields(s) \/ PutValidate(s) \/ PutMarshal(s)
         \/ PutSave(s) \/ PutFails(s)
  PROVE  Quiet(s)
<1> USE DEF Steps
<1>1. req[s] \in Request /\ req[s].arg.name \in Names
  BY Served, Arguments DEF IndInv
<1>2. ASSUME NEW at \in Steps, Go(s, at)
      PROVE  /\ req'[s] # Idle /\ req'[s].at = at
             /\ req'[s].arg = req[s].arg /\ req'[s].sess = req[s].sess /\ req'[s].late = req[s].late
             /\ \A o \in Slots : o # s => req'[o] = req[o]
  <2>1. req'[s] \in Request /\ req'[s].at = at
    BY <1>2, Going DEF IndInv
  <2>2. QED
    BY <1>2, <2>1, Going DEF IndInv, Idle, Request
<1>3. CASE SetupCheck(s)
  <2>1. log'.closed = log.closed /\ log'.named = log.named
    BY <1>3 DEF SetupCheck, IndInv, TypeInv, Logs, Admitting
  <2>2. QED
    BY <1>1, <1>2, <1>3, <2>1, NobodyCounted DEF SetupCheck, Quiet, Admitting
<1>4. CASE SetupCreate(s)
  <2>1. log'.closed = log.closed /\ log'.named = log.named
    BY <1>4 DEF SetupCreate, IndInv, TypeInv, Logs, Admitting
  <2>2. QED
    BY <1>1, <1>2, <1>4, <2>1 DEF SetupCreate, Quiet, IndInv, TypeInv, Roles
<1>5. CASE LoginCheck(s)
  <2>1. log'.closed = log.closed /\ log'.named = log.named
    BY <1>5 DEF LoginCheck, IndInv, TypeInv, Logs, Admitting
  <2>2. QED
    BY <1>1, <1>2, <1>5, <2>1 DEF LoginCheck, Quiet, Admitting, IndInv, TypeInv
<1>6. CASE CreateUser(s)
  <2>1. log'.closed = log.closed /\ log'.named = log.named
    BY <1>6 DEF CreateUser, IndInv, TypeInv, Logs, Admitting
  <2>2. QED
    BY <1>1, <1>2, <1>6, <2>1 DEF CreateUser, Quiet, IndInv, TypeInv, Roles
<1>7. CASE ApplyTransaction(s)
  <2>1. log'.closed = log.closed /\ log'.named = log.named
    BY <1>7 DEF ApplyTransaction, IndInv, TypeInv, Logs, Admitting
  <2>2. QED
    BY <1>1, <1>2, <1>7, <2>1 DEF ApplyTransaction, Quiet
<1>8. CASE PutFields(s)
  <2>1. log'.closed = log.closed /\ log'.named = log.named
    BY <1>8 DEF PutFields, IndInv, TypeInv, Logs, Admitting
  <2>2. QED
    BY <1>1, <1>2, <1>8, <2>1 DEF PutFields, Quiet
<1>9. CASE PutValidate(s)
  <2>1. log'.closed = log.closed /\ log'.named = log.named
    BY <1>9 DEF PutValidate, IndInv, TypeInv, Logs, Admitting
  <2>2. QED
    BY <1>1, <1>2, <1>9, <2>1 DEF PutValidate, Quiet
<1>10. CASE PutMarshal(s)
  <2>1. [req[s] EXCEPT !.at = "save", !.copy = mem] # Idle
    BY <1>1 DEF Request, Idle
  <2>2. req'[s] = [req[s] EXCEPT !.at = "save", !.copy = mem] /\ \A o \in Slots : o # s => req'[o] = req[o]
    BY <1>10 DEF PutMarshal, IndInv, TypeInv
  <2>3. req'[s].at = "save" /\ req'[s].arg = req[s].arg /\ req'[s].sess = req[s].sess /\ req'[s].late = req[s].late
    BY <1>1, <2>2 DEF Request
  <2>4. QED
    BY <1>10, <2>1, <2>2, <2>3 DEF PutMarshal, Quiet
<1>11. CASE PutSave(s)
  <2>1. log'.closed = log.closed /\ log'.named = log.named
    BY <1>11 DEF PutSave, IndInv, TypeInv, Logs, Admitting
  <2>2. QED
    BY <1>1, <1>2, <1>11, <2>1 DEF PutSave, Quiet
<1>13. CASE PutFails(s)
  <2>1. log'.closed = log.closed /\ log'.named = log.named
    BY <1>13 DEF PutFails, IndInv, TypeInv, Logs
  <2>2. QED
    BY <1>1, <1>2, <1>13, <2>1 DEF PutFails, Quiet
<1>12. QED
  BY <1>13, <1>3, <1>4, <1>5, <1>6, <1>7, <1>8, <1>9, <1>10, <1>11

\* What the other steps do to the requests and the store.
Granted(s) ==
  LET tok == counters.minted + 1
      name == req[s].arg.name
  IN /\ req[s] # Idle /\ req'[s] # Idle /\ \A o \in Slots : o # s => req'[o] = req[o]
     /\ req'[s].at = "reply" /\ req'[s].arg = req[s].arg /\ req'[s].late = req[s].late
     /\ req'[s].sess = [tok |-> tok, user |-> name, srole |-> users[name], state |-> "modified"]
     /\ counters'.minted = tok /\ name \in Names /\ users[name] \in Roles
     /\ sessions' = Without(sessions, req[s].sess.tok) /\ users' = users /\ log' = log

\* What a handler does to its request and to the state: a login that is granted,
LEMMA GrantSteps ==
  ASSUME IndInv, NEW s \in Slots, req[s] # Idle, LoginGrant(s)
  PROVE  Granted(s)
<1>1. req[s] \in Request /\ req[s].arg.name \in Names /\ users[req[s].arg.name] \in Roles
  BY Served, Arguments DEF IndInv, CopyInv, Busy, LoginGrant
<1> DEFINE sess == [tok |-> counters.minted + 1, user |-> req[s].arg.name, srole |-> users[req[s].arg.name], state |-> "modified"]
           r == [req[s] EXCEPT !.at = "reply", !.sess = sess]
<1>2. req'[s] = r /\ \A o \in Slots : o # s => req'[o] = req[o]
  BY DEF LoginGrant, Renewed, IndInv, TypeInv
<1>3. r.at = "reply" /\ r.arg = req[s].arg /\ r.late = req[s].late /\ r.sess = sess
  <2> HIDE DEF sess
  <2>1. QED
    BY <1>1 DEF Request
<1>4. r # Idle
  BY <1>1, <1>3 DEF Request, Idle
<1>5. counters'.minted = counters.minted + 1
  BY DEF LoginGrant, Renewed, IndInv, TypeInv
<1>6. QED
  BY <1>1, <1>2, <1>3, <1>4, <1>5 DEF LoginGrant, Granted

Left(s) ==
  /\ req[s] # Idle /\ req'[s] # Idle /\ \A o \in Slots : o # s => req'[o] = req[o]
  /\ req'[s].at = "reply" /\ req'[s].late = req[s].late
  /\ req'[s].sess.tok = 0 /\ req'[s].sess.user = Blank /\ req'[s].sess.state = "destroyed"
  /\ sessions' = Without(sessions, req[s].sess.tok) /\ users' = users /\ counters' = counters
  /\ log'.named = log.named
  /\ \/ log'.closed = log.closed
     \/ /\ log'.closed = log.closed \union {req[s].sess.tok} /\ req[s].sess.tok # 0
        /\ \A o \in Busy \ {s} : req[o].sess.tok # req[s].sess.tok

\* ... a logout,
LEMMA LogoutSteps ==
  ASSUME IndInv, NEW s \in Slots, req[s] # Idle, Logout(s)
  PROVE  Left(s)
<1>1. req[s] \in Request
  BY Served DEF IndInv
<1> DEFINE sess == [NoCopy EXCEPT !.state = "destroyed"]
           r == [req[s] EXCEPT !.at = "reply", !.sess = sess]
<1>2. req'[s] = r /\ \A o \in Slots : o # s => req'[o] = req[o]
  BY DEF Logout, IndInv, TypeInv
<1>3. r.at = "reply" /\ r.late = req[s].late /\ r.sess = sess
  <2> HIDE DEF sess
  <2>1. QED
    BY <1>1 DEF Request
<1>4. r # Idle
  BY <1>1, <1>3 DEF Request, Idle
<1>5. sess.tok = 0 /\ sess.user = Blank /\ sess.state = "destroyed"
  BY DEF NoCopy
<1>8. log'.named = log.named
  BY DEF Logout, IndInv, TypeInv, Logs
<1>6. \/ log'.closed = log.closed
      \/ /\ log'.closed = log.closed \union {req[s].sess.tok} /\ req[s].sess.tok # 0
         /\ \A o \in Busy \ {s} : req[o].sess.tok # req[s].sess.tok
  BY DEF Logout, IndInv, TypeInv, Logs
<1>7. QED
  BY <1>2, <1>3, <1>4, <1>5, <1>6, <1>8 DEF Logout, Left

Replied(s) ==
  /\ req[s] # Idle /\ req'[s] = Idle /\ \A o \in Slots : o # s => req'[o] = req[o]
  /\ users' = users /\ counters' = counters /\ log'.closed = log.closed
  /\ log'.named = IF req[s].sess.state = "modified" THEN log.named \union {<<req[s].sess.tok, req[s].sess.user>>}
                  ELSE log.named
  /\ IF req[s].sess.state # "modified" THEN sessions' = sessions
     ELSE sessions' = [t \in DOMAIN sessions \union {req[s].sess.tok} |->
                         IF t = req[s].sess.tok THEN [user |-> req[s].sess.user, role |-> req[s].sess.srole] ELSE sessions[t]]

\* ... an answer,
LEMMA ReplySteps ==
  ASSUME IndInv, NEW s \in Slots, req[s] # Idle, Reply(s)
  PROVE  Replied(s)
BY DEF Reply, Replied, IndInv, TypeInv, Logs

Arrived(s, a) ==
  /\ req[s] = Idle /\ req'[s] # Idle /\ \A o \in Slots : o # s => req'[o] = req[o]
  /\ a \in Asked /\ a.by \in Browsers
  /\ req'[s].arg = a /\ req'[s].sess = Loaded(a.by)
  /\ req'[s].late => \E n \in Names : users[n] \in Administrators
  /\ req'[s].at = "reply" \/ (req'[s].at = a.op /\ a.op \in Ops /\ Admitted(a.op, Loaded(a.by), a.forged) /\ a.op \notin Reads)
  /\ users' = users /\ sessions' = sessions /\ log' = log /\ counters'.minted = counters.minted

\* ... a request that arrives.
LEMMA ArriveSteps ==
  ASSUME IndInv, NEW s \in Slots, NEW b \in Browsers, NEW a \in Asks(b), Arrive(s, a)
  PROVE  Arrived(s, a)
<1>1. a \in Asked /\ a.by \in Browsers /\ a.op \in Ops
  BY Arguments DEF Asked
<1> DEFINE at == IF Admitted(a.op, Loaded(a.by), a.forged) /\ a.op \notin Reads THEN a.op ELSE "reply"
           late == \E n \in Names : users[n] \in {"super_admin", "admin"}
           r == [at |-> at, arg |-> a, sess |-> Loaded(a.by), late |-> late, copy |-> Initial]
<1>2. req'[s] = r /\ \A o \in Slots : o # s => req'[o] = req[o]
  BY DEF Arrive, IndInv, TypeInv
<1>3. r # Idle
  BY DEF Idle
<1>4. counters'.minted = counters.minted
  BY DEF Arrive, IndInv, TypeInv
<1>5. QED
  BY <1>1, <1>2, <1>3, <1>4 DEF Arrive, Arrived, Administrators

\* The copy that a request starts with.
LEMMA LoadedCopy ==
  ASSUME IndInv, NEW b \in Browsers
  PROVE  LET c == Loaded(b)
         IN /\ c.tok \in Nat /\ c.tok <= counters.minted
            /\ c.user # Blank => c.state = "modified"
            /\ c.state = "modified" =>
                 /\ c.tok > 0 /\ c.tok \in DOMAIN sessions /\ c.user = sessions[c.tok].user
                 /\ c.user \in Names /\ c.srole \in Roles /\ users[c.user] = c.srole
            /\ c.state # "modified" => c.tok = 0
<1>1. CASE cookie[b] \in DOMAIN sessions
  BY <1>1 DEF Loaded, IndInv, TypeInv, SessionInv
<1>2. CASE cookie[b] \notin DOMAIN sessions
  BY <1>2 DEF Loaded, NoCopy, IndInv, TypeInv
<1>3. QED
  BY <1>1, <1>2

\* Time and a restart leave the closed and the named tokens what they were.
LEMMA SurroundingsLog ==
  ASSUME IndInv, Tick \/ Restart
  PROVE  /\ log'.closed = log.closed /\ log'.named = log.named /\ log'.effects = log.effects
         /\ log'.acked = log.acked /\ log'.overlapped = log.overlapped /\ log'.left = log.left
BY DEF Tick, Restart, IndInv, TypeInv, Logs

\* Every step is one of these.
LEMMA Cases ==
  ASSUME IndInv, Next
  PROVE  \/ \E s \in Slots : Quiet(s) \/ Granted(s) \/ Left(s) \/ Replied(s) \/ \E a \in Asked : Arrived(s, a)
         \/ \E t \in DOMAIN sessions : Expire(t)
         \/ Tick \/ Restart
<1>1. ASSUME NEW s \in Slots, req[s] # Idle, Serve(s)
      PROVE  Quiet(s) \/ Granted(s) \/ Left(s) \/ Replied(s)
  BY <1>1, QuietSteps, GrantSteps, LogoutSteps, ReplySteps DEF Serve
<1>2. ASSUME NEW s \in Slots, NEW b \in Browsers, NEW a \in Asks(b), Arrive(s, a)
      PROVE  a \in Asked /\ Arrived(s, a)
  BY <1>2, ArriveSteps DEF Asked
<1>3. QED
  BY <1>1, <1>2 DEF Next, Serve

\* Stored sessions stay true to the user table.
LEMMA SessionStep ==
  ASSUME IndInv, Next
  PROVE  SessionInv'
<1>1. ASSUME NEW s \in Slots, Quiet(s) PROVE SessionInv'
  BY <1>1 DEF Quiet, IndInv, TypeInv, Busy, SessionInv, CopyInv, Without
<1>2. ASSUME NEW s \in Slots, Granted(s) PROVE SessionInv'
  BY <1>2 DEF Granted, IndInv, TypeInv, Busy, SessionInv, CopyInv, Without
<1>3. ASSUME NEW s \in Slots, Left(s) PROVE SessionInv'
  BY <1>3 DEF Left, IndInv, TypeInv, Busy, SessionInv, CopyInv, Without
<1>4. ASSUME NEW s \in Slots, Replied(s) PROVE SessionInv'
  <2>1. CASE req[s].sess.state # "modified"
    BY <1>4, <2>1 DEF Replied, IndInv, SessionInv
  <2>2. CASE req[s].sess.state = "modified"
    <3> DEFINE c == req[s].sess
    <3>1. c.tok \in 1..counters.minted /\ c.user \in Names /\ c.srole \in Roles /\ users[c.user] = c.srole
      BY <1>4, <2>2, Served DEF Replied, IndInv, TypeInv, CopyInv, Busy
    <3>2. ASSUME NEW t \in DOMAIN sessions'
          PROVE  /\ t \in 1..counters.minted /\ sessions'[t].user \in Names
                 /\ sessions'[t].role \in Roles /\ users[sessions'[t].user] = sessions'[t].role
      <4>1. CASE t = c.tok
        BY <1>4, <2>2, <3>1, <4>1 DEF Replied
      <4>2. CASE t # c.tok
        BY <1>4, <2>2, <4>2 DEF Replied, IndInv, SessionInv
      <4>3. QED
        BY <4>1, <4>2
    <3>3. QED
      BY <1>4, <3>2 DEF Replied, SessionInv
  <2>3. QED
    BY <2>1, <2>2
<1>5. ASSUME NEW s \in Slots, NEW a \in Asked, Arrived(s, a) PROVE SessionInv'
  BY <1>5 DEF Arrived, IndInv, TypeInv, Busy, SessionInv, CopyInv, Without
<1>6. ASSUME NEW t \in DOMAIN sessions, Expire(t) PROVE SessionInv'
  BY <1>6 DEF Expire, IndInv, TypeInv, Busy, SessionInv, CopyInv, Without
<1>7. CASE Tick
  BY <1>7 DEF Tick, IndInv, TypeInv, Busy, SessionInv, CopyInv, Without
<1>8. CASE Restart
  BY <1>8 DEF Restart, IndInv, TypeInv, Busy, SessionInv, CopyInv, Without
<1>9. QED
  BY <1>1, <1>2, <1>3, <1>4, <1>5, <1>6, <1>7, <1>8, Cases

\* So do the copies.
LEMMA CopyStep ==
  ASSUME IndInv, Next
  PROVE  CopyInv'
<1>1. ASSUME NEW s \in Slots, Quiet(s) PROVE CopyInv'
  <2>1. ASSUME NEW o \in Busy'
        PROVE  /\ req'[o].sess.tok <= counters'.minted
               /\ req'[o].sess.user # Blank => req'[o].sess.state = "modified"
               /\ req'[o].sess.state = "modified" =>
                    /\ req'[o].sess.tok > 0 /\ req'[o].sess.user \in Names
                    /\ req'[o].sess.srole \in Roles /\ users'[req'[o].sess.user] = req'[o].sess.srole
               /\ req'[o].at = "grant" => users'[req'[o].arg.name] \in Roles
    <3>1. CASE o # s
      BY <1>1, <2>1, <3>1, Served DEF Quiet, IndInv, TypeInv, Busy, CopyInv
    <3>2. CASE o = s
      BY <1>1, <2>1, <3>2, Served, Arguments DEF Quiet, IndInv, TypeInv, Busy, CopyInv
    <3>3. QED
      BY <3>1, <3>2
  <2>2. QED
    BY <2>1 DEF CopyInv
<1>2. ASSUME NEW s \in Slots, Granted(s) PROVE CopyInv'
  <2>1. ASSUME NEW o \in Busy'
        PROVE  /\ req'[o].sess.tok <= counters'.minted
               /\ req'[o].sess.user # Blank => req'[o].sess.state = "modified"
               /\ req'[o].sess.state = "modified" =>
                    /\ req'[o].sess.tok > 0 /\ req'[o].sess.user \in Names
                    /\ req'[o].sess.srole \in Roles /\ users'[req'[o].sess.user] = req'[o].sess.srole
               /\ req'[o].at = "grant" => users'[req'[o].arg.name] \in Roles
    <3>1. CASE o # s
      BY <1>2, <2>1, <3>1, Served DEF Granted, IndInv, TypeInv, Busy, CopyInv
    <3>2. CASE o = s
      BY <1>2, <2>1, <3>2, Served DEF Granted, IndInv, TypeInv, Busy, CopyInv
    <3>3. QED
      BY <3>1, <3>2
  <2>2. QED
    BY <2>1 DEF CopyInv
<1>3. ASSUME NEW s \in Slots, Left(s) PROVE CopyInv'
  BY <1>3 DEF Left, IndInv, TypeInv, Busy, CopyInv
<1>4. ASSUME NEW s \in Slots, Replied(s) PROVE CopyInv'
  BY <1>4 DEF Replied, IndInv, TypeInv, Busy, CopyInv
<1>5. ASSUME NEW s \in Slots, NEW a \in Asked, Arrived(s, a) PROVE CopyInv'
  <2>1. ASSUME NEW o \in Busy'
        PROVE  /\ req'[o].sess.tok <= counters'.minted
               /\ req'[o].sess.user # Blank => req'[o].sess.state = "modified"
               /\ req'[o].sess.state = "modified" =>
                    /\ req'[o].sess.tok > 0 /\ req'[o].sess.user \in Names
                    /\ req'[o].sess.srole \in Roles /\ users'[req'[o].sess.user] = req'[o].sess.srole
               /\ req'[o].at = "grant" => users'[req'[o].arg.name] \in Roles
    <3>1. CASE o # s
      BY <1>5, <2>1, <3>1, Served DEF Arrived, IndInv, TypeInv, Busy, CopyInv
    <3>2. CASE o = s
      BY <1>5, <2>1, <3>2, Served, LoadedCopy, OpsAre DEF Arrived, IndInv, TypeInv, Busy, CopyInv
    <3>3. QED
      BY <3>1, <3>2
  <2>2. QED
    BY <2>1 DEF CopyInv
<1>6. ASSUME NEW t \in DOMAIN sessions, Expire(t) PROVE CopyInv'
  BY <1>6 DEF Expire, IndInv, TypeInv, Busy, CopyInv
<1>7. CASE Tick
  BY <1>7 DEF Tick, IndInv, TypeInv, Busy, CopyInv
<1>8. CASE Restart
  BY <1>8 DEF Restart, IndInv, TypeInv, Busy, CopyInv
<1>9. QED
  BY <1>1, <1>2, <1>3, <1>4, <1>5, <1>6, <1>7, <1>8, Cases

\* A token keeps its user in the store and in the copies.
LEMMA OneUserStep ==
  ASSUME IndInv, Next
  PROVE  OneUserInv'
<1>1. ASSUME NEW s \in Slots, Quiet(s) PROVE OneUserInv'
  BY <1>1 DEF Quiet, IndInv, TypeInv, Busy, OneUserInv, SessionInv, CopyInv, Without
<1>2. ASSUME NEW s \in Slots, Granted(s) PROVE OneUserInv'
  BY <1>2 DEF Granted, IndInv, TypeInv, Busy, OneUserInv, SessionInv, CopyInv, Without
<1>3. ASSUME NEW s \in Slots, Left(s) PROVE OneUserInv'
  BY <1>3 DEF Left, IndInv, TypeInv, Busy, OneUserInv, SessionInv, CopyInv, Without
<1>4. ASSUME NEW s \in Slots, Replied(s) PROVE OneUserInv'
  BY <1>4 DEF Replied, IndInv, TypeInv, Busy, OneUserInv, SessionInv, CopyInv, Without
<1>5. ASSUME NEW s \in Slots, NEW a \in Asked, Arrived(s, a) PROVE OneUserInv'
  <2>1. \A o \in Busy' : o # s => o \in Busy /\ req'[o] = req[o]
    BY <1>5 DEF Arrived, Busy
  <2>2. /\ req'[s].sess = Loaded(a.by) /\ sessions' = sessions
        /\ req'[s].sess.state = "modified" => /\ req'[s].sess.tok \in DOMAIN sessions
                                             /\ req'[s].sess.user = sessions[req'[s].sess.tok].user
    BY <1>5, LoadedCopy DEF Arrived
  <2>3. \A o \in Busy' : req'[o].sess.state = "modified" /\ req'[o].sess.tok \in DOMAIN sessions
                           => sessions[req'[o].sess.tok].user = req'[o].sess.user
    BY <2>1, <2>2 DEF IndInv, OneUserInv
  <2>4. QED
    BY <2>1, <2>2, <2>3 DEF IndInv, OneUserInv
<1>6. ASSUME NEW t \in DOMAIN sessions, Expire(t) PROVE OneUserInv'
  BY <1>6 DEF Expire, IndInv, TypeInv, Busy, OneUserInv, SessionInv, CopyInv, Without
<1>7. CASE Tick
  BY <1>7 DEF Tick, IndInv, TypeInv, Busy, OneUserInv, SessionInv, CopyInv, Without
<1>8. CASE Restart
  BY <1>8 DEF Restart, IndInv, TypeInv, Busy, OneUserInv, SessionInv, CopyInv, Without
<1>9. QED
  BY <1>1, <1>2, <1>3, <1>4, <1>5, <1>6, <1>7, <1>8, Cases

\* So does it for all time.
LEMMA NamedStep ==
  ASSUME IndInv, Next
  PROVE  NamedInv'
<1>1. ASSUME NEW s \in Slots, Quiet(s) PROVE NamedInv'
  BY <1>1 DEF Quiet, IndInv, Busy, NamedInv, TokenOneUser
<1>2. ASSUME NEW s \in Slots, Granted(s) PROVE NamedInv'
  <2>1. \A p \in log.named : p[1] # counters.minted + 1 /\ p[1] <= counters.minted + 1
    BY DEF IndInv, TypeInv, Logs, NamedInv
  <2>2. QED
    BY <1>2, <2>1 DEF Granted, IndInv, Busy, NamedInv, TokenOneUser, Without
<1>3. ASSUME NEW s \in Slots, Left(s) PROVE NamedInv'
  BY <1>3 DEF Left, IndInv, Busy, NamedInv, TokenOneUser, Without
<1>4. ASSUME NEW s \in Slots, Replied(s) PROVE NamedInv'
  <2>1. CASE req[s].sess.state # "modified"
    BY <1>4, <2>1 DEF Replied, IndInv, Busy, NamedInv, TokenOneUser
  <2>2. CASE req[s].sess.state = "modified"
    <3> DEFINE tok == req[s].sess.tok
               user == req[s].sess.user
    <3>1. s \in Busy /\ tok <= counters.minted /\ \A p \in log.named : p[1] = tok => p[2] = user
      BY <1>4, <2>2 DEF Replied, IndInv, Busy, CopyInv, NamedInv
    <3>2. log'.named = log.named \union {<<tok, user>>}
      BY <1>4, <2>2 DEF Replied
    <3>3. \A p \in log'.named : p[1] <= counters'.minted
      BY <1>4, <3>1, <3>2 DEF Replied, IndInv, NamedInv
    <3>4. TokenOneUser'
      BY <3>1, <3>2 DEF IndInv, NamedInv, TokenOneUser
    <3>5. ASSUME NEW t \in DOMAIN sessions' PROVE <<t, sessions'[t].user>> \in log'.named
      <4>1. CASE t = tok
        BY <1>4, <2>2, <3>2, <4>1 DEF Replied
      <4>2. CASE t # tok
        BY <1>4, <2>2, <3>2, <4>2 DEF Replied, IndInv, NamedInv
      <4>3. QED
        BY <4>1, <4>2
    <3>6. ASSUME NEW o \in Busy', req'[o].sess.state = "modified", NEW p \in log'.named, p[1] = req'[o].sess.tok
          PROVE  p[2] = req'[o].sess.user
      <4>1. o # s /\ o \in Busy /\ req'[o] = req[o]
        BY <1>4 DEF Replied, Busy
      <4>2. CASE p \in log.named
        BY <3>6, <4>1, <4>2 DEF IndInv, NamedInv
      <4>3. CASE p = <<tok, user>>
        BY <2>2, <3>1, <3>6, <4>1, <4>3 DEF IndInv, OneUserInv
      <4>4. QED
        BY <3>2, <4>2, <4>3
    <3>7. QED
      BY <3>3, <3>4, <3>5, <3>6 DEF NamedInv
  <2>3. QED
    BY <2>1, <2>2
<1>5. ASSUME NEW s \in Slots, NEW a \in Asked, Arrived(s, a) PROVE NamedInv'
  <2>1. \A o \in Busy' : o # s => o \in Busy /\ req'[o] = req[o]
    BY <1>5 DEF Arrived, Busy
  <2>2. req'[s].sess.state = "modified" => <<req'[s].sess.tok, req'[s].sess.user>> \in log.named
    BY <1>5, LoadedCopy DEF Arrived, IndInv, NamedInv
  <2>3. \A p \in log.named : req'[s].sess.state = "modified" /\ p[1] = req'[s].sess.tok => p[2] = req'[s].sess.user
    BY <2>2 DEF IndInv, NamedInv, TokenOneUser
  <2>4. QED
    BY <1>5, <2>1, <2>3 DEF Arrived, IndInv, NamedInv, TokenOneUser
<1>6. ASSUME NEW t \in DOMAIN sessions, Expire(t) PROVE NamedInv'
  BY <1>6 DEF Expire, IndInv, Busy, NamedInv, TokenOneUser, Without
<1>7. CASE Tick
  BY <1>7, SurroundingsLog DEF Tick, IndInv, Busy, NamedInv, TokenOneUser
<1>8. CASE Restart
  <2>1. DOMAIN sessions' = {} /\ Busy' = {} /\ counters' = counters
    BY <1>8 DEF Restart, Busy
  <2>2. QED
    BY <1>8, <2>1, SurroundingsLog DEF IndInv, NamedInv, TokenOneUser
<1>9. QED
  BY <1>1, <1>2, <1>3, <1>4, <1>5, <1>6, <1>7, <1>8, Cases

\* A closed token stays closed.
LEMMA ClosedStep ==
  ASSUME IndInv, Next
  PROVE  ClosedInv'
<1>1. ASSUME NEW s \in Slots, Quiet(s) PROVE ClosedInv'
  BY <1>1 DEF Quiet, IndInv, TypeInv, Busy, ClosedInv, SessionInv, CopyInv, Without
<1>2. ASSUME NEW s \in Slots, Granted(s) PROVE ClosedInv'
  BY <1>2 DEF Granted, IndInv, TypeInv, Busy, ClosedInv, SessionInv, CopyInv, Without
<1>3. ASSUME NEW s \in Slots, Left(s) PROVE ClosedInv'
  <2>1. ASSUME NEW t \in log'.closed
        PROVE  /\ t \in 1..counters'.minted /\ t \notin DOMAIN sessions' /\ \A o \in Busy' : req'[o].sess.tok # t
    <3>1. CASE t \in log.closed
      BY <1>3, <3>1 DEF Left, IndInv, TypeInv, Busy, ClosedInv, Without
    <3>2. CASE t \notin log.closed
      <4>1. t = req[s].sess.tok /\ t # 0 /\ \A o \in Busy \ {s} : req[o].sess.tok # t
        BY <1>3, <2>1, <3>2 DEF Left
      <4>2. t \in 1..counters.minted
        BY <1>3, <4>1, Served DEF Left, IndInv, TypeInv, Busy, CopyInv
      <4>3. QED
        BY <1>3, <4>1, <4>2 DEF Left, Busy, Without
    <3>3. QED
      BY <3>1, <3>2
  <2>2. QED
    BY <2>1 DEF ClosedInv
<1>4. ASSUME NEW s \in Slots, Replied(s) PROVE ClosedInv'
  BY <1>4 DEF Replied, IndInv, TypeInv, Busy, ClosedInv, SessionInv, CopyInv, Without
<1>5. ASSUME NEW s \in Slots, NEW a \in Asked, Arrived(s, a) PROVE ClosedInv'
  <2>1. \A t \in log.closed : Loaded(a.by).tok # t
    BY <1>5, LoadedCopy DEF Arrived, IndInv, ClosedInv
  <2>2. QED
    BY <1>5, <2>1 DEF Arrived, IndInv, ClosedInv, Busy
<1>6. ASSUME NEW t \in DOMAIN sessions, Expire(t) PROVE ClosedInv'
  BY <1>6 DEF Expire, IndInv, TypeInv, Busy, ClosedInv, SessionInv, CopyInv, Without
<1>7. CASE Tick
  BY <1>7, SurroundingsLog DEF Tick, IndInv, TypeInv, Busy, ClosedInv, SessionInv, CopyInv, Without
<1>8. CASE Restart
  BY <1>8, SurroundingsLog DEF Restart, IndInv, TypeInv, Busy, ClosedInv, SessionInv, CopyInv, Without
<1>9. QED
  BY <1>1, <1>2, <1>3, <1>4, <1>5, <1>6, <1>7, <1>8, Cases

\* The gates are passed before anything is done.
LEMMA GateStep ==
  ASSUME IndInv, Next
  PROVE  GateInv'
<1>1. ASSUME NEW s \in Slots, Quiet(s) PROVE GateInv'
  BY <1>1, OpsAre DEF Quiet, IndInv, TypeInv, Busy, GateInv, Admitted, Reads
<1>2. ASSUME NEW s \in Slots, Granted(s) PROVE GateInv'
  BY <1>2, OpsAre DEF Granted, IndInv, TypeInv, Busy, GateInv, Admitted, Reads
<1>3. ASSUME NEW s \in Slots, Left(s) PROVE GateInv'
  BY <1>3, OpsAre DEF Left, IndInv, TypeInv, Busy, GateInv, Admitted, Reads
<1>4. ASSUME NEW s \in Slots, Replied(s) PROVE GateInv'
  BY <1>4, OpsAre DEF Replied, IndInv, TypeInv, Busy, GateInv, Admitted, Reads
<1>5. ASSUME NEW s \in Slots, NEW a \in Asked, Arrived(s, a) PROVE GateInv'
  BY <1>5, OpsAre DEF Arrived, IndInv, TypeInv, Busy, GateInv, Admitted, Reads
<1>6. ASSUME NEW t \in DOMAIN sessions, Expire(t) PROVE GateInv'
  BY <1>6, OpsAre DEF Expire, IndInv, TypeInv, Busy, GateInv, Admitted, Reads
<1>7. CASE Tick
  BY <1>7, OpsAre DEF Tick, IndInv, TypeInv, Busy, GateInv, Admitted, Reads
<1>8. CASE Restart
  BY <1>8, OpsAre DEF Restart, IndInv, TypeInv, Busy, GateInv, Admitted, Reads
<1>9. QED
  BY <1>1, <1>2, <1>3, <1>4, <1>5, <1>6, <1>7, <1>8, Cases

\* Administrators do not go.
LEMMA LateStep ==
  ASSUME IndInv, Next
  PROVE  LateInv'
<1>1. ASSUME NEW s \in Slots, Quiet(s) PROVE LateInv'
  BY <1>1 DEF Quiet, IndInv, TypeInv, Busy, LateInv, Administrators, Roles
<1>2. ASSUME NEW s \in Slots, Granted(s) PROVE LateInv'
  BY <1>2 DEF Granted, IndInv, TypeInv, Busy, LateInv, Administrators, Roles
<1>3. ASSUME NEW s \in Slots, Left(s) PROVE LateInv'
  BY <1>3 DEF Left, IndInv, TypeInv, Busy, LateInv, Administrators, Roles
<1>4. ASSUME NEW s \in Slots, Replied(s) PROVE LateInv'
  BY <1>4 DEF Replied, IndInv, TypeInv, Busy, LateInv, Administrators, Roles
<1>5. ASSUME NEW s \in Slots, NEW a \in Asked, Arrived(s, a) PROVE LateInv'
  BY <1>5, OpsAre DEF Arrived, IndInv, LateInv, Busy
<1>6. ASSUME NEW t \in DOMAIN sessions, Expire(t) PROVE LateInv'
  BY <1>6 DEF Expire, IndInv, TypeInv, Busy, LateInv, Administrators, Roles
<1>7. CASE Tick
  BY <1>7 DEF Tick, IndInv, TypeInv, Busy, LateInv, Administrators, Roles
<1>8. CASE Restart
  BY <1>8 DEF Restart, IndInv, TypeInv, Busy, LateInv, Administrators, Roles
<1>9. QED
  BY <1>1, <1>2, <1>3, <1>4, <1>5, <1>6, <1>7, <1>8, Cases

\* The gate of an operation lets in only those whose role carries the right.
LEMMA Rights ==
  ASSUME NEW op \in {"create", "put", "apply"}, NEW role, HasPermission(role, Perm[op])
  PROVE  role \in (IF op = "apply" THEN {"super_admin", "admin", "operator"} ELSE {"super_admin", "admin"})
BY DEF HasPermission, Perm, Permissions

\* A row of the user table never changes or goes.
LEMMA RowsStay ==
  ASSUME IndInv, Next, NEW n \in Names, users[n] \in Roles
  PROVE  users'[n] = users[n]
BY Cases DEF Quiet, Granted, Left, Replied, Arrived, Expire, Tick, Restart

\* What was done before stays authorized.
LEMMA OldEffects ==
  ASSUME IndInv, Next, NEW f \in log.effects, f.op # "setup"
  PROVE  /\ f.user \in Names
         /\ users'[f.user] \in (IF f.op = "apply" THEN {"super_admin", "admin", "operator"} ELSE {"super_admin", "admin"})
<1>1. f.user \in Names
  BY DEF IndInv, EffectInv
<1>2. users[f.user] \in (IF f.op = "apply" THEN {"super_admin", "admin", "operator"} ELSE {"super_admin", "admin"})
  BY DEF IndInv, EffectInv, AuthorityIsReal
<1>3. users'[f.user] = users[f.user]
  BY <1>1, <1>2, RowsStay DEF Roles
<1>4. QED
  BY <1>1, <1>2, <1>3

\* An operation that passed the gates may go into the log.
LEMMA GatedEffect ==
  ASSUME IndInv, Next, NEW s \in Slots, req[s] # Idle, req[s].at \in {"create", "apply", "put"},
         log'.effects = log.effects \union {Effect(s)}
  PROVE  EffectInv'
<1> DEFINE e == Effect(s)
<1>1. /\ e.op = req[s].at /\ ~ e.forged /\ e.user = req[s].sess.user
      /\ req[s].sess.user # Blank /\ HasPermission(req[s].sess.srole, Perm[req[s].at])
  BY DEF Effect, IndInv, GateInv, Busy
<1>2. e.user \in Names /\ users[e.user] = req[s].sess.srole /\ users[e.user] \in Roles
  BY <1>1 DEF IndInv, CopyInv, Busy
<1>3. users'[e.user] \in (IF e.op = "apply" THEN {"super_admin", "admin", "operator"} ELSE {"super_admin", "admin"})
  BY <1>1, <1>2, Rights, RowsStay
<1>5. AuthorityIsReal' /\ \A f \in log'.effects : f.op # "setup" => f.user \in Names
  <2> HIDE DEF e
  <2>1. \A f \in log'.effects : f \in log.effects \/ f = e
    BY DEF e
  <2>2. QED
    BY <1>2, <1>3, OldEffects, <2>1 DEF AuthorityIsReal
<1>6. NoForgedEffect' /\ SetupIsOver'
  BY <1>1 DEF IndInv, EffectInv, NoForgedEffect, SetupIsOver
<1>7. QED
  BY <1>5, <1>6 DEF EffectInv

\* So may the setup of somebody who came before any administrator did.
LEMMA SetupEffect ==
  ASSUME IndInv, Next, NEW s \in Slots, req[s] # Idle, req[s].at = "claim",
         log'.effects = log.effects \union {Effect(s)}
  PROVE  EffectInv'
<1> DEFINE e == Effect(s)
<1>1. e.op = "setup" /\ ~ e.late
  BY DEF Effect, IndInv, GateInv, LateInv, Busy
<1>2. "setup" \notin Managed
  BY OpsAre
<1>4. \A f \in log'.effects : f \in log.effects \/ f = e
  OBVIOUS
<1>5. QED
  <2> HIDE DEF e
  <2>1. QED
    BY <1>1, <1>2, <1>4, OldEffects DEF IndInv, EffectInv, AuthorityIsReal, NoForgedEffect, SetupIsOver

\* The log of effects that does not grow stays right.
LEMMA SameEffects ==
  ASSUME IndInv, Next, log'.effects = log.effects
  PROVE  EffectInv'
<1>2. QED
  BY OldEffects DEF IndInv, EffectInv, AuthorityIsReal, NoForgedEffect, SetupIsOver

\* Every effect is authorized.
LEMMA EffectStep == IndInv /\ Next => EffectInv'
<1> SUFFICES ASSUME IndInv, Next PROVE EffectInv'
  OBVIOUS
<1>1. ASSUME NEW s \in Slots, req[s] # Idle, SetupCheck(s) PROVE EffectInv'
  BY <1>1, SameEffects DEF SetupCheck, Admitting, IndInv, TypeInv, Logs
<1>2. ASSUME NEW s \in Slots, req[s] # Idle, SetupCreate(s) PROVE EffectInv'
  BY <1>2, SetupEffect, SameEffects DEF SetupCreate, IndInv, TypeInv, Logs
<1>3. ASSUME NEW s \in Slots, req[s] # Idle, LoginCheck(s) PROVE EffectInv'
  BY <1>3, SameEffects DEF LoginCheck, Admitting, IndInv, TypeInv, Logs
<1>4. ASSUME NEW s \in Slots, req[s] # Idle, LoginGrant(s) PROVE EffectInv'
  BY <1>4, SameEffects DEF LoginGrant, Admitting, IndInv, TypeInv, Logs
<1>5. ASSUME NEW s \in Slots, req[s] # Idle, Logout(s) PROVE EffectInv'
  BY <1>5, SameEffects DEF Logout, Admitting, IndInv, TypeInv, Logs
<1>6. ASSUME NEW s \in Slots, req[s] # Idle, CreateUser(s) PROVE EffectInv'
  BY <1>6, GatedEffect, SameEffects DEF CreateUser, IndInv, TypeInv, Logs
<1>7. ASSUME NEW s \in Slots, req[s] # Idle, ApplyTransaction(s) PROVE EffectInv'
  BY <1>7, GatedEffect DEF ApplyTransaction, IndInv, TypeInv, Logs
<1>8. ASSUME NEW s \in Slots, req[s] # Idle, PutFields(s) PROVE EffectInv'
  BY <1>8, GatedEffect DEF PutFields, IndInv, TypeInv, Logs
<1>9. ASSUME NEW s \in Slots, req[s] # Idle, PutValidate(s) PROVE EffectInv'
  BY <1>9, SameEffects DEF PutValidate, Admitting, IndInv, TypeInv, Logs
<1>10. ASSUME NEW s \in Slots, req[s] # Idle, PutMarshal(s) PROVE EffectInv'
  BY <1>10, SameEffects DEF PutMarshal, Admitting, IndInv, TypeInv, Logs
<1>11. ASSUME NEW s \in Slots, req[s] # Idle, PutSave(s) PROVE EffectInv'
  BY <1>11, SameEffects DEF PutSave, Admitting, IndInv, TypeInv, Logs
<1>18. ASSUME NEW s \in Slots, req[s] # Idle, PutFails(s) PROVE EffectInv'
  BY <1>18, SameEffects DEF PutFails, IndInv, TypeInv, Logs
<1>12. ASSUME NEW s \in Slots, req[s] # Idle, Reply(s) PROVE EffectInv'
  BY <1>12, SameEffects DEF Reply, Admitting, IndInv, TypeInv, Logs
<1>13. ASSUME NEW s \in Slots, NEW b \in Browsers, NEW a \in Asks(b), Arrive(s, a) PROVE EffectInv'
  BY <1>13, SameEffects DEF Arrive, Admitting, IndInv, TypeInv, Logs
<1>14. ASSUME NEW t \in DOMAIN sessions, Expire(t) PROVE EffectInv'
  BY <1>14, SameEffects DEF Expire, Admitting, IndInv, TypeInv, Logs
<1>15. CASE Tick
  BY <1>15, SameEffects, SurroundingsLog
<1>16. CASE Restart
  BY <1>16, SameEffects, SurroundingsLog
<1>17. QED
  BY <1>1, <1>2, <1>3, <1>4, <1>5, <1>6, <1>7, <1>8, <1>9, <1>10, <1>11, <1>12, <1>13, <1>14, <1>15, <1>16, <1>18 DEF Next, Serve

\* A key without a bucket that counts has had no more attempts than ticks,
\* and so no more than its level lets it, whether its bucket was dropped or not.
LEMMA LevelBound ==
  ASSUME IndInv, NEW k \in Keys
  PROVE  Level(k) \in 0..Burst /\ log.admitted[k] + Level(k) <= Burst + log.elapsed
<1>1. log.admitted[k] \in Nat /\ log.elapsed \in Nat
  BY DEF IndInv, TypeInv, Logs
<1>2. CASE k \in Kept
  BY <1>1, <1>2 DEF Level, Kept, IndInv, BucketInv
<1>3. CASE k \notin Kept /\ k \in DOMAIN buckets
  <2>1. buckets[k].level = Burst
    BY <1>3, ControlPlaneAssumption DEF Kept, Stale, IndInv, BucketInv, Burst
  <2>2. QED
    BY <1>1, <1>3, <2>1 DEF Level, IndInv, BucketInv, Burst
<1>4. CASE k \notin DOMAIN buckets
  BY <1>1, <1>4 DEF Level, Kept, IndInv, BucketInv, Burst
<1>5. QED
  BY <1>2, <1>3, <1>4

\* An attempt is paid for, and dropping a bucket gives nothing away.
LEMMA AttemptPaid ==
  ASSUME IndInv, NEW k \in Keys, Allow(k), log'.elapsed = log.elapsed,
         log'.admitted = [log.admitted EXCEPT ![k] = IF ~ Limited(k) THEN @ + 1 ELSE @]
  PROVE  BucketInv'
<1>1. log.admitted \in [Keys -> Nat] /\ log.elapsed \in Nat
  BY DEF IndInv, TypeInv, Logs
<1>2. Level(k) \in 0..Burst /\ log.admitted[k] + Level(k) <= Burst + log.elapsed
  BY LevelBound
<1>3. DOMAIN buckets' = Kept \union {k} /\ Kept \subseteq DOMAIN buckets
  BY DEF Allow, Kept
<1>4. buckets'[k] = [level |-> IF Level(k) > 0 THEN Level(k) - 1 ELSE 0, idle |-> 0]
  BY DEF Allow
<1>5. /\ buckets'[k].level \in 0..Burst /\ buckets'[k].idle = 0
      /\ log'.admitted[k] + buckets'[k].level <= Burst + log.elapsed
  BY <1>1, <1>2, <1>4 DEF Limited, Burst
<1>6. ASSUME NEW x \in Kept, x # k
      PROVE  buckets'[x] = buckets[x] /\ x \in DOMAIN buckets /\ log'.admitted[x] = log.admitted[x]
  BY <1>1, <1>6 DEF Allow, Kept, IndInv, BucketInv
<1>7. ASSUME NEW x \in Keys \ (Kept \union {k})
      PROVE  log'.admitted[x] <= log.elapsed
  <2>1. log'.admitted[x] = log.admitted[x] /\ Level(x) = Burst
    BY <1>1, <1>7 DEF Level
  <2>2. QED
    BY <1>1, <2>1, LevelBound DEF Burst
<1>8. QED
  <2>1. ASSUME NEW x \in DOMAIN buckets'
        PROVE  /\ x \in Keys
               /\ buckets'[x].level \in 0..Burst /\ buckets'[x].idle \in 0..GcAge + 1
               /\ buckets'[x].level = Burst \/ buckets'[x].idle <= buckets'[x].level
               /\ log'.admitted[x] + buckets'[x].level <= Burst + log'.elapsed
    <3>1. CASE x = k
      BY <1>5, <3>1, ControlPlaneAssumption DEF Burst
    <3>2. CASE x # k
      BY <1>3, <1>6, <2>1, <3>2 DEF IndInv, BucketInv
    <3>3. QED
      BY <3>1, <3>2
  <2>2. QED
    BY <1>3, <1>7, <2>1 DEF BucketInv
\* The accounts of the attempts stay right.
LEMMA BucketStep == IndInv /\ Next => BucketInv'
<1> SUFFICES ASSUME IndInv, Next PROVE BucketInv'
  OBVIOUS
<1>1. ASSUME NEW s \in Slots, req[s] # Idle, SetupCheck(s) PROVE BucketInv'
  <2>1. req[s].arg.key \in Keys
    BY <1>1, Served, Arguments DEF IndInv
  <2>2. Admitting(req[s].arg.key, ~ Limited(req[s].arg.key)) =>
          /\ log'.elapsed = log.elapsed
          /\ log'.admitted = [log.admitted EXCEPT ![req[s].arg.key] = IF ~ Limited(req[s].arg.key) THEN @ + 1 ELSE @]
    BY <2>1 DEF Admitting, IndInv, TypeInv, Logs
  <2>3. QED
    BY <1>1, <2>1, <2>2, AttemptPaid DEF SetupCheck, IndInv, BucketInv
<1>2. ASSUME NEW s \in Slots, req[s] # Idle, SetupCreate(s) PROVE BucketInv'
  BY <1>2 DEF SetupCreate, IndInv, TypeInv, Logs, BucketInv
<1>3. ASSUME NEW s \in Slots, req[s] # Idle, LoginCheck(s) PROVE BucketInv'
  <2>1. req[s].arg.key \in Keys
    BY <1>3, Served, Arguments DEF IndInv
  <2>2. Admitting(req[s].arg.key, ~ Limited(req[s].arg.key)) =>
          /\ log'.elapsed = log.elapsed
          /\ log'.admitted = [log.admitted EXCEPT ![req[s].arg.key] = IF ~ Limited(req[s].arg.key) THEN @ + 1 ELSE @]
    BY <2>1 DEF Admitting, IndInv, TypeInv, Logs
  <2>3. QED
    BY <1>3, <2>1, <2>2, AttemptPaid DEF LoginCheck, IndInv, BucketInv
<1>4. ASSUME NEW s \in Slots, req[s] # Idle, LoginGrant(s) PROVE BucketInv'
  BY <1>4 DEF LoginGrant, IndInv, TypeInv, Logs, BucketInv
<1>5. ASSUME NEW s \in Slots, req[s] # Idle, Logout(s) PROVE BucketInv'
  BY <1>5 DEF Logout, IndInv, TypeInv, Logs, BucketInv
<1>6. ASSUME NEW s \in Slots, req[s] # Idle, CreateUser(s) PROVE BucketInv'
  BY <1>6 DEF CreateUser, IndInv, TypeInv, Logs, BucketInv
<1>7. ASSUME NEW s \in Slots, req[s] # Idle, ApplyTransaction(s) PROVE BucketInv'
  BY <1>7 DEF ApplyTransaction, IndInv, TypeInv, Logs, BucketInv
<1>8. ASSUME NEW s \in Slots, req[s] # Idle, PutFields(s) PROVE BucketInv'
  BY <1>8 DEF PutFields, IndInv, TypeInv, Logs, BucketInv
<1>9. ASSUME NEW s \in Slots, req[s] # Idle, PutValidate(s) PROVE BucketInv'
  BY <1>9 DEF PutValidate, IndInv, TypeInv, Logs, BucketInv
<1>10. ASSUME NEW s \in Slots, req[s] # Idle, PutMarshal(s) PROVE BucketInv'
  BY <1>10 DEF PutMarshal, IndInv, TypeInv, Logs, BucketInv
<1>11. ASSUME NEW s \in Slots, req[s] # Idle, PutSave(s) PROVE BucketInv'
  BY <1>11 DEF PutSave, IndInv, TypeInv, Logs, BucketInv
<1>18. ASSUME NEW s \in Slots, req[s] # Idle, PutFails(s) PROVE BucketInv'
  BY <1>18 DEF PutFails, IndInv, TypeInv, Logs, BucketInv
<1>12. ASSUME NEW s \in Slots, req[s] # Idle, Reply(s) PROVE BucketInv'
  BY <1>12 DEF Reply, IndInv, TypeInv, Logs, BucketInv
<1>13. ASSUME NEW s \in Slots, NEW b \in Browsers, NEW a \in Asks(b), Arrive(s, a) PROVE BucketInv'
  BY <1>13 DEF Arrive, IndInv, TypeInv, Logs, BucketInv
<1>14. ASSUME NEW t \in DOMAIN sessions, Expire(t) PROVE BucketInv'
  BY <1>14 DEF Expire, IndInv, TypeInv, Logs, BucketInv
<1>15. CASE Tick
  <2>1. /\ log'.admitted = log.admitted /\ log'.elapsed = log.elapsed + 1 /\ DOMAIN buckets' = DOMAIN buckets
        /\ log.admitted \in [Keys -> Nat] /\ log.elapsed \in Nat
    BY <1>15 DEF Tick, IndInv, TypeInv, Logs
  <2>2. ASSUME NEW x \in DOMAIN buckets
        PROVE  /\ x \in Keys
               /\ buckets'[x].level \in 0..Burst /\ buckets'[x].idle \in 0..GcAge + 1
               /\ buckets'[x].level = Burst \/ buckets'[x].idle <= buckets'[x].level
               /\ log.admitted[x] + buckets'[x].level <= Burst + log.elapsed + 1
    <3>1. buckets'[x] = [level |-> IF buckets[x].level < Burst THEN buckets[x].level + 1 ELSE Burst,
                         idle |-> IF buckets[x].idle > GcAge THEN buckets[x].idle ELSE buckets[x].idle + 1]
      BY <1>15 DEF Tick
    <3>2. /\ x \in Keys
          /\ buckets[x].level \in 0..Burst /\ buckets[x].idle \in 0..GcAge + 1
          /\ buckets[x].level = Burst \/ buckets[x].idle <= buckets[x].level
          /\ log.admitted[x] + buckets[x].level <= Burst + log.elapsed
      BY DEF IndInv, BucketInv
    <3>3. QED
      BY <2>1, <3>1, <3>2, ControlPlaneAssumption DEF Burst
  <2>3. \A x \in Keys \ DOMAIN buckets : log.admitted[x] <= log.elapsed + 1
    BY <2>1 DEF IndInv, BucketInv
  <2>4. \A x \in DOMAIN buckets' :
          /\ x \in Keys
          /\ buckets'[x].level \in 0..Burst /\ buckets'[x].idle \in 0..GcAge + 1
          /\ buckets'[x].level = Burst \/ buckets'[x].idle <= buckets'[x].level
          /\ log'.admitted[x] + buckets'[x].level <= Burst + log'.elapsed
    BY <2>1, <2>2 DEF Burst
  <2>5. \A x \in Keys \ DOMAIN buckets' : log'.admitted[x] <= log'.elapsed
    BY <2>1, <2>3
  <2>6. QED
    BY <2>4, <2>5 DEF BucketInv
<1>16. CASE Restart
  <2>1. DOMAIN buckets' = {} /\ log'.admitted = [k \in Keys |-> 0] /\ log'.elapsed = 0
    BY <1>16 DEF Restart, IndInv, TypeInv, Logs
  <2>2. QED
    BY <2>1 DEF IndInv, TypeInv, BucketInv
<1>17. QED
  BY <1>1, <1>2, <1>3, <1>4, <1>5, <1>6, <1>7, <1>8, <1>9, <1>10, <1>11, <1>12, <1>13, <1>14, <1>15, <1>16, <1>18 DEF Next, Serve

\* A step that touches neither the settings nor a request between the steps of
\* a put.
LEMMA PutUntouched ==
  ASSUME IndInv, mem' = mem, disk' = disk, log'.overlapped = log.overlapped, log'.left = log.left,
         log'.acked = log.acked, log'.overridden = log.overridden, Midway' = Midway, \A s \in Midway : req'[s] = req[s]
  PROVE  PutInv'
BY DEF IndInv, PutInv

\* Puts that do not overlap keep the settings.
LEMMA PutStep == IndInv /\ Next => PutInv'
<1> SUFFICES ASSUME IndInv, Next PROVE PutInv'
  OBVIOUS
<1>1. ASSUME NEW s \in Slots, req[s] # Idle, SetupCheck(s) PROVE PutInv'
  <2>1. Midway' = Midway /\ \A o \in Midway : req'[o] = req[o]
    BY <1>1, Going DEF SetupCheck, IndInv, Midway, Busy, Idle, Steps
  <2>2. QED
    BY <1>1, <2>1, PutUntouched DEF SetupCheck, IndInv, TypeInv, Logs, Admitting
<1>2. ASSUME NEW s \in Slots, req[s] # Idle, SetupCreate(s) PROVE PutInv'
  <2>1. Midway' = Midway /\ \A o \in Midway : req'[o] = req[o]
    BY <1>2, Going DEF SetupCreate, IndInv, Midway, Busy, Idle, Steps
  <2>2. QED
    BY <1>2, <2>1, PutUntouched DEF SetupCreate, IndInv, TypeInv, Logs, Admitting
<1>3. ASSUME NEW s \in Slots, req[s] # Idle, LoginCheck(s) PROVE PutInv'
  <2>1. Midway' = Midway /\ \A o \in Midway : req'[o] = req[o]
    BY <1>3, Going DEF LoginCheck, IndInv, Midway, Busy, Idle, Steps
  <2>2. QED
    BY <1>3, <2>1, PutUntouched DEF LoginCheck, IndInv, TypeInv, Logs, Admitting
<1>4. ASSUME NEW s \in Slots, req[s] # Idle, LoginGrant(s) PROVE PutInv'
  <2>1. Granted(s)
    BY <1>4, GrantSteps
  <2>2. Midway' = Midway /\ \A o \in Midway : req'[o] = req[o]
    BY <1>4, <2>1 DEF LoginGrant, Granted, Midway, Busy, Idle
  <2>3. QED
    BY <1>4, <2>2, PutUntouched DEF LoginGrant, IndInv, TypeInv, Logs
<1>5. ASSUME NEW s \in Slots, req[s] # Idle, Logout(s) PROVE PutInv'
  <2>1. Left(s)
    BY <1>5, LogoutSteps
  <2>2. Midway' = Midway /\ \A o \in Midway : req'[o] = req[o]
    BY <1>5, <2>1 DEF Logout, Left, Midway, Busy, Idle
  <2>3. QED
    BY <1>5, <2>2, PutUntouched DEF Logout, IndInv, TypeInv, Logs
<1>6. ASSUME NEW s \in Slots, req[s] # Idle, CreateUser(s) PROVE PutInv'
  <2>1. Midway' = Midway /\ \A o \in Midway : req'[o] = req[o]
    BY <1>6, Going DEF CreateUser, IndInv, Midway, Busy, Idle, Steps
  <2>2. QED
    BY <1>6, <2>1, PutUntouched DEF CreateUser, IndInv, TypeInv, Logs, Admitting
<1>7. ASSUME NEW s \in Slots, req[s] # Idle, ApplyTransaction(s) PROVE PutInv'
  <2>1. Midway' = Midway /\ \A o \in Midway : req'[o] = req[o]
    BY <1>7, Going DEF ApplyTransaction, IndInv, Midway, Busy, Idle, Steps
  <2>2. QED
    BY <1>7, <2>1, PutUntouched DEF ApplyTransaction, IndInv, TypeInv, Logs, Admitting
<1>8. ASSUME NEW s \in Slots, req[s] # Idle, PutFields(s) PROVE PutInv'
  <2> SUFFICES ASSUME ~ log'.overlapped PROVE PutInv'
    BY DEF PutInv
  <2>0. /\ req'[s] # Idle /\ req'[s].at = "validate" /\ req'[s].arg = req[s].arg
        /\ \A o \in Slots : o # s => req'[o] = req[o]
    BY <1>8, Going, Served DEF PutFields, IndInv, Steps, Idle, Request
  <2> DEFINE over == log.overlapped \/ Putting # {s}
  <2>1. over \in BOOLEAN
    BY DEF IndInv, TypeInv, Logs
  <2>2. log' = [log EXCEPT !.effects = @ \union {Effect(s)}, !.overlapped = over]
    BY <1>8 DEF PutFields
  <2>3. log'.overlapped = over /\ log'.left = log.left /\ log'.acked = log.acked /\ log'.overridden = log.overridden
    <3> HIDE DEF over
    <3>1. QED
      BY <2>1, <2>2 DEF IndInv, TypeInv, Logs
  <2>4. ~ log.overlapped /\ Putting = {s}
    BY <2>3
  <2>5. Midway = {} /\ Midway' = {s}
    BY <1>8, <2>0, <2>4 DEF PutFields, Midway, Putting, Busy
  <2>6. mem' = WithFields(mem, req[s].arg.body) /\ disk' = disk
    BY <1>8 DEF PutFields
  <2>8. mem \in Settings /\ disk \in Settings /\ req[s].arg.body \in Body
    BY <1>8, Served, Arguments DEF IndInv, TypeInv
  <2>9. ASSUME ~ log.left, NEW f \in {"port", "domain"} \ log.overridden
        PROVE  mem'[f] = WithFields(disk, req[s].arg.body)[f]
    BY <2>4, <2>5, <2>6, <2>8, <2>9, FieldByField DEF IndInv, PutInv
  <2>7. QED
    BY <2>0, <2>3, <2>4, <2>5, <2>6, <2>9 DEF IndInv, PutInv
<1>9. ASSUME NEW s \in Slots, req[s] # Idle, PutValidate(s) PROVE PutInv'
  <2> SUFFICES ASSUME ~ log'.overlapped PROVE PutInv'
    BY DEF PutInv
  <2>0. /\ req'[s] # Idle /\ req'[s].at = (IF Validate(mem) THEN "marshal" ELSE "reply") /\ req'[s].arg = req[s].arg
        /\ \A o \in Slots : o # s => req'[o] = req[o]
    BY <1>9, Going, Served DEF PutValidate, IndInv, Steps, Idle, Request
  <2>1. /\ log'.overlapped = log.overlapped /\ log'.acked = log.acked /\ log'.overridden = log.overridden
        /\ log'.left <=> log.left \/ ~ Validate(mem)
    BY <1>9 DEF PutValidate, IndInv, TypeInv, Logs, Validate
  <2>2. Midway = {s}
    BY <1>9, <2>1 DEF PutValidate, IndInv, PutInv, Midway, Busy
  <2>3. Midway' = IF Validate(mem) THEN {s} ELSE {}
    BY <2>0, <2>2 DEF Midway, Busy
  <2>4. Validate(mem) => Usable(mem)
    <3>1. mem.port \in 0..MaxPort + 1
      BY DEF IndInv, TypeInv, Settings
    <3>2. QED
      BY <3>1 DEF Validate, Usable, MaxPort
  <2>5. mem' = mem /\ disk' = disk
    BY <1>9 DEF PutValidate
  <2>6. QED
    BY <2>0, <2>1, <2>2, <2>3, <2>4, <2>5 DEF IndInv, PutInv
<1>10. ASSUME NEW s \in Slots, req[s] # Idle, PutMarshal(s) PROVE PutInv'
  <2> SUFFICES ASSUME ~ log'.overlapped PROVE PutInv'
    BY DEF PutInv
  <2>0. /\ req'[s] # Idle /\ req'[s].at = "save" /\ req'[s].arg = req[s].arg /\ req'[s].copy = mem
        /\ \A o \in Slots : o # s => req'[o] = req[o]
    BY <1>10, Served DEF PutMarshal, IndInv, TypeInv, Idle, Request
  <2>1. Midway = {s}
    BY <1>10 DEF PutMarshal, IndInv, PutInv, Midway, Busy
  <2>2. Midway' = {s}
    BY <2>0, <2>1 DEF Midway, Busy
  <2>4. ~ log.left => \A f \in {"port", "domain"} \ log.overridden :
                        disk[f] = log.acked[f] /\ mem[f] = WithFields(disk, req[s].arg.body)[f]
    BY <1>10, <2>1 DEF PutMarshal, IndInv, PutInv
  <2>5. Usable(disk) /\ Usable(mem)
    BY <1>10, <2>1 DEF PutMarshal, IndInv, PutInv
  <2>6. mem' = mem /\ disk' = disk /\ log' = log
    BY <1>10 DEF PutMarshal
  <2>3. QED
    BY <2>0, <2>2, <2>4, <2>5, <2>6 DEF PutInv
<1>11. ASSUME NEW s \in Slots, req[s] # Idle, PutSave(s) PROVE PutInv'
  <2> SUFFICES ASSUME ~ log'.overlapped PROVE PutInv'
    BY DEF PutInv
  <2>0. /\ req'[s].at = "reply" /\ \A o \in Slots : o # s => req'[o] = req[o]
    BY <1>11, Going DEF PutSave, IndInv, Steps
  <2>1. /\ log'.overlapped = log.overlapped /\ log'.left = log.left
        /\ log'.acked = Promised(log.acked, req[s].arg.body) /\ log'.overridden = log.overridden
    BY <1>11 DEF PutSave, IndInv, TypeInv, Logs
  <2>2. Midway = {s} /\ req[s].copy = mem /\ Usable(mem)
    BY <1>11, <2>1 DEF PutSave, IndInv, PutInv, Midway, Busy
  <2>3. Midway' = {}
    BY <2>0, <2>2 DEF Midway, Busy
  <2>4. disk' = mem /\ mem' = mem
    BY <1>11, <2>2 DEF PutSave
  <2>5. log.acked \in Settings /\ req[s].arg.body \in Body
    BY <1>11, Served, Arguments DEF IndInv, TypeInv, Logs
  <2>6. ASSUME ~ log.left, NEW f \in {"port", "domain"} \ log.overridden
        PROVE  disk'[f] = log'.acked[f]
    <3>1. mem[f] = WithFields(disk, req[s].arg.body)[f] /\ disk[f] = log.acked[f]
      BY <2>1, <2>2, <2>6 DEF IndInv, PutInv
    <3>2. log'.acked = WithFields(log.acked, req[s].arg.body) /\ disk \in Settings
      BY <2>1, <2>5, Fields DEF IndInv, TypeInv
    <3>3. QED
      BY <2>4, <2>5, <3>1, <3>2, FieldByField
  <2>7. QED
    BY <2>1, <2>2, <2>3, <2>4, <2>6 DEF PutInv
<1>18. ASSUME NEW s \in Slots, req[s] # Idle, PutFails(s) PROVE PutInv'
  <2> SUFFICES ASSUME ~ log'.overlapped PROVE PutInv'
    BY DEF PutInv
  <2>0. /\ req'[s].at = "reply" /\ \A o \in Slots : o # s => req'[o] = req[o]
    BY <1>18, Going DEF PutFails, IndInv, Steps
  <2>1. log'.overlapped = log.overlapped /\ log'.left
    BY <1>18 DEF PutFails, IndInv, TypeInv, Logs
  <2>2. Midway = {s}
    BY <1>18, <2>1 DEF PutFails, IndInv, PutInv, Midway, Busy
  <2>3. Midway' = {}
    BY <2>0, <2>2 DEF Midway, Busy
  <2>4. QED
    BY <1>18, <2>1, <2>3 DEF PutFails, IndInv, PutInv
<1>12. ASSUME NEW s \in Slots, req[s] # Idle, Reply(s) PROVE PutInv'
  <2>1. Replied(s)
    BY <1>12, ReplySteps
  <2>2. Midway' = Midway /\ \A o \in Midway : req'[o] = req[o]
    BY <1>12, <2>1 DEF Reply, Replied, Midway, Busy, Idle
  <2>3. QED
    BY <1>12, <2>2, PutUntouched DEF Reply, IndInv, TypeInv, Logs
<1>13. ASSUME NEW s \in Slots, NEW b \in Browsers, NEW a \in Asks(b), Arrive(s, a) PROVE PutInv'
  <2>1. Arrived(s, a)
    BY <1>13, ArriveSteps
  <2>2. Midway' = Midway /\ \A o \in Midway : req'[o] = req[o]
    BY <1>13, <2>1, OpsAre DEF Arrived, Midway, Busy, Idle
  <2>3. QED
    BY <1>13, <2>2, PutUntouched DEF Arrive, IndInv, TypeInv, Logs
<1>14. ASSUME NEW t \in DOMAIN sessions, Expire(t) PROVE PutInv'
  <2>1. Midway' = Midway /\ \A o \in Midway : req'[o] = req[o]
    BY <1>14 DEF Expire, Midway, Busy
  <2>2. QED
    BY <1>14, <2>1, PutUntouched DEF Expire
<1>15. CASE Tick
  <2>1. Midway' = Midway /\ \A o \in Midway : req'[o] = req[o]
    BY <1>15 DEF Tick, Midway, Busy
  <2>2. QED
    BY <1>15, <2>1, PutUntouched DEF Tick, IndInv, TypeInv, Logs
<1>16. CASE Restart
  <2>1. Midway' = {}
    BY <1>16 DEF Restart, Midway, Busy
  <2>2. PICK env \in Overrides :
          /\ mem' = WithFields(disk, env)
          /\ log' = [log EXCEPT !.admitted = [k \in Keys |-> 0], !.elapsed = 0, !.overridden = @ \union Given(env)]
    BY <1>16 DEF Restart
  <2>3. log'.overridden = log.overridden \union Given(env) /\ disk' = disk
    BY <1>16, <2>2 DEF Restart, IndInv, TypeInv, Logs
  <2>4. ASSUME NEW f \in {"port", "domain"} \ log'.overridden PROVE mem'[f] = disk'[f]
    BY <2>2, <2>3, NotGiven, OverridesAssumption DEF IndInv, TypeInv
  <2>5. QED
    BY <1>16, <2>1, <2>3, <2>4, SurroundingsLog DEF IndInv, PutInv
<1>17. QED
  BY <1>1, <1>2, <1>3, <1>4, <1>5, <1>6, <1>7, <1>8, <1>9, <1>10, <1>11, <1>12, <1>13, <1>14, <1>15, <1>16, <1>18 DEF Next, Serve

(***************************************************************************)
(* The theorems.                                                           *)
(***************************************************************************)

\* The invariant holds at the start.
LEMMA InitInv == Init => IndInv
<1> SUFFICES ASSUME Init PROVE IndInv
  OBVIOUS
<1>1. users \in [Names -> Roles \union {"none"}]
  BY DEF Init, Roles
<1>7. PICK env \in Overrides :
        /\ mem = WithFields(Initial, env)
        /\ log = [effects |-> {}, closed |-> {}, named |-> {}, admitted |-> [k \in Keys |-> 0], elapsed |-> 0,
                  acked |-> Initial, overridden |-> Given(env), overlapped |-> FALSE, left |-> FALSE]
  BY DEF Init
<1>8. mem \in Settings
  BY <1>7, Fields, OverridesAssumption
<1>2. TypeInv
  <2>1. log \in Logs
    BY <1>7, Fields DEF Logs, Given, NoBody
  <2>2. QED
    BY <1>1, <1>8, <2>1, Fields DEF Init, TypeInv
<1>3. DOMAIN sessions = {} /\ DOMAIN buckets = {} /\ Busy = {} /\ log.effects = {} /\ log.closed = {}
  BY <1>7 DEF Init, Busy
<1>4. BucketInv
  BY <1>3, <1>7 DEF BucketInv
<1>9. NamedInv
  BY <1>3, <1>7 DEF NamedInv, TokenOneUser
<1>5. PutInv
  <2>1. disk = Initial /\ log.acked = Initial /\ Midway = {} /\ log.overridden = Given(env)
    BY <1>3, <1>7 DEF Init, Midway
  <2>4. \A f \in {"port", "domain"} \ Given(env) : mem[f] = disk[f]
    BY <1>7, <2>1, NotGiven, Fields, OverridesAssumption
  <2>2. Usable(Initial)
    BY DEF Usable, Initial, MaxPort
  <2>3. QED
    BY <2>1, <2>2, <2>4 DEF PutInv
<1>6. QED
  BY <1>2, <1>3, <1>4, <1>5, <1>9 DEF IndInv, SessionInv, CopyInv, OneUserInv, ClosedInv, GateInv, LateInv,
     EffectInv, AuthorityIsReal, NoForgedEffect, SetupIsOver

\* Every step keeps it.
LEMMA InvStep == IndInv /\ [Next]_vars => IndInv'
<1>1. CASE IndInv /\ Next
  BY <1>1, TypeStep, SessionStep, CopyStep, OneUserStep, NamedStep, ClosedStep, GateStep, LateStep, EffectStep, BucketStep,
     PutStep DEF IndInv
<1>2. CASE IndInv /\ UNCHANGED vars
  BY <1>2 DEF vars, IndInv, TypeInv, SessionInv, CopyInv, OneUserInv, NamedInv, TokenOneUser, ClosedInv, GateInv, LateInv, EffectInv,
     AuthorityIsReal, NoForgedEffect, SetupIsOver, BucketInv, PutInv, Midway, Busy
<1>3. QED
  BY <1>1, <1>2

\* The invariant of the control plane.
THEOREM Invariance == Spec => []IndInv
BY InitInv, InvStep, PTL DEF Spec

\* middleware.go:72: a session that was logged out while no other request of it
\* was being served is never in the store again.
THEOREM LogoutFinal == Spec => []LogoutIsFinal
<1>1. IndInv => LogoutIsFinal
  BY DEF IndInv, ClosedInv, LogoutIsFinal
<1>2. QED
  BY <1>1, Invariance, PTL

\* middleware.go:48: of all the sessions ever stored, no two with one token are
\* of different users.
THEOREM OneUserPerToken == Spec => []TokenOneUser
<1>1. IndInv => TokenOneUser
  BY DEF IndInv, NamedInv
<1>2. QED
  BY <1>1, Invariance, PTL

\* middleware.go:113, :124: what was done to users, settings and the firewall
\* was done in a request of their own by somebody who may.
THEOREM Authorized == Spec => []EffectsAreAuthorized
<1>1. IndInv => EffectsAreAuthorized
  <2> SUFFICES ASSUME IndInv PROVE EffectsAreAuthorized
    OBVIOUS
  <2>1. ASSUME NEW s \in Busy
        PROVE  req[s].arg \in Asks(req[s].arg.by) /\ req[s].sess \in Copy /\ req[s].copy \in Settings
    BY Served, Arguments DEF IndInv, Busy, Request
  <2>2. TypeOK
    BY <2>1 DEF IndInv, TypeInv, SessionInv, BucketInv, TypeOK
  <2>3. QED
    BY <2>2 DEF IndInv, EffectInv, EffectsAreAuthorized
<1>2. QED
  BY <1>1, Invariance, PTL

\* setup.go:16: a setup that is asked for when an administrator exists creates
\* nobody.
THEOREM SetupEnds == Spec => []SetupIsOver
<1>1. IndInv => SetupIsOver
  BY DEF IndInv, EffectInv
<1>2. QED
  BY <1>1, Invariance, PTL

\* ratelimit.go:28: from a start of the server on, a key gets one burst and the
\* attempts of the time since, dropped buckets included.
THEOREM AttemptsLimited == Spec => []AttemptsBounded
<1>1. IndInv => AttemptsBounded
  <2> SUFFICES ASSUME IndInv, NEW k \in Keys PROVE log.admitted[k] <= Burst + log.elapsed
    BY DEF AttemptsBounded
  <2>1. log.admitted[k] \in Nat /\ log.elapsed \in Nat
    BY DEF IndInv, TypeInv, Logs
  <2>2. Level(k) \in 0..Burst /\ log.admitted[k] + Level(k) <= Burst + log.elapsed
    BY LevelBound
  <2>3. QED
    BY <2>1, <2>2 DEF Burst
<1>2. QED
  BY <1>1, Invariance, PTL

\* server.go:354, :376: as long as puts do not overlap, the stored settings are
\* ones the server starts with; if none was refused or failed, they are what was
\* answered for, but for those that the environment was put over.
THEOREM SettingsKept == Spec => []SettingsAreKept
<1>1. IndInv => SettingsAreKept
  <2>1. IndInv => DOMAIN disk = {"port", "domain"}
    BY DEF IndInv, TypeInv, Settings
  <2>2. QED
    BY <2>1 DEF IndInv, PutInv, SettingsAreKept, DiskIsUsable, AckedIsStored
<1>2. QED
  BY <1>1, Invariance, PTL
===============================================================================
