----------------------------- MODULE ControlPlane -----------------------------
(***************************************************************************)
(* The HTTP control plane of the server (internal/api, internal/auth, the  *)
(* user table): sessions, login and its rate limit, the one-time setup,    *)
(* the gates in front of the management API, users and settings.           *)
(*                                                                         *)
(* A request is a process: it takes a copy of its session when it arrives, *)
(* works on the copy, and puts it back when it replies (scs.LoadAndSave);  *)
(* its handler reads and writes shared state in several steps, between     *)
(* which other requests take theirs.                                       *)
(*                                                                         *)
(* Abstracted: a password is right or wrong, strong or weak; the CSRF      *)
(* token of a session is known to its own pages only, so a request is      *)
(* forged or not; of the settings, the port and the domain.  The handlers  *)
(* of the fleet are FleetSync's and FleetRollout's.                        *)
(***************************************************************************)
EXTENDS Integers, FiniteSets

CONSTANTS
  Browsers,     \* clients, each with one cookie jar
  Keys,         \* addresses a request may give for its sender
  Slots,        \* requests the server works on at a time
  Names,        \* user names that are asked for
  Blank,        \* the empty user name
  Asks(_),      \* what a browser asks for
  Overrides,    \* what the environment may say when the server starts
  GcAge,        \* ticks after which an idle bucket is dropped
  MaxRequests,  \* bound: requests
  MaxTicks      \* bound: steps of the clock between two starts

Burst == 2
ASSUME ControlPlaneAssumption ==
  /\ MaxRequests \in Nat /\ MaxTicks \in Nat
  /\ GcAge \in Nat /\ GcAge >= Burst   \* 30 minutes, one attempt a minute at least
  /\ IsFiniteSet(Names)

VARIABLES
  users,      \* the user table: name -> role, "none" for no row
  sessions,   \* the session store: token -> [user, role]
  cookie,     \* per browser: the token in its jar, 0 for none
  req,        \* per slot: the request being served
  buckets,    \* per key with a bucket: [level, idle]
  mem, disk,  \* the settings the server runs with, and the stored ones
  counters,   \* tokens minted, requests so far
  log         \* what happened, for the properties

vars == <<users, sessions, cookie, req, buckets, mem, disk, counters, log>>

(***************************************************************************)
(* Roles and settings.                                                     *)
(***************************************************************************)
Roles == {"super_admin", "admin", "operator", "auditor", "viewer"}

\* What the route of an operation asks for; the others are public.
Perm == [create |-> "users.manage", put |-> "settings.write", apply |-> "firewall.apply", list |-> "firewall.read"]
Managed == DOMAIN Perm
Ops == Managed \union {"setup", "login", "logout", "me"}
Reads == {"list", "me"}

Permissions ==
  [admin    |-> {"users.manage", "settings.write", "firewall.apply", "firewall.read"},
   operator |-> {"firewall.apply", "firewall.read"},
   auditor  |-> {"firewall.read"},
   viewer   |-> {"firewall.read"}]

HasPermission(role, perm) == role = "super_admin" \/ (role \in DOMAIN Permissions /\ perm \in Permissions[role])

ValidRole(role) == role \in Roles

\* Mutant: only plain admins are counted.
CountPlainAdmins(table) == Cardinality({n \in Names : table[n] = "admin"})
CountAdmins(table) == Cardinality({n \in Names : table[n] \in {"super_admin", "admin"}})

MaxPort == 2   \* stands for 65535
Settings == [port : 0..MaxPort + 1, domain : {"", "a", "b"}]
Initial == [port |-> 1, domain |-> ""]
Usable(c) == c.port \in 1..MaxPort

Validate(c) == c.port >= 1 /\ c.port <= MaxPort

NoBody == [port |-> -1, domain |-> ""]
\* Mutant: the domain is forgotten.
PortOnly(c, b) == [c EXCEPT !.port = IF b.port = -1 THEN c.port ELSE b.port]
\* Absent fields (-1, "") leave the setting alone.
WithFields(c, b) == [port |-> IF b.port = -1 THEN c.port ELSE b.port,
                     domain |-> IF b.domain = "" THEN c.domain ELSE b.domain]

\* The fields that a body, or an environment, has something to say on.
Given(b) == {f \in DOMAIN NoBody : b[f] # NoBody[f]}

\* History: what an answered put promises, with the same meaning of absence.
Promised(c, b) == [f \in DOMAIN c |-> IF b[f] = NoBody[f] THEN c[f] ELSE b[f]]

(***************************************************************************)
(* Requests.                                                               *)
(***************************************************************************)
\* What the body of a request may hold, and every request.
Body == [port : -1..MaxPort + 1, domain : {"", "a", "b"}]
ASSUME AsksAssumption ==
  \A b \in Browsers : \A a \in Asks(b) :
    a.op \in Ops /\ a.by = b /\ a.key \in Keys /\ a.name \in Names /\ a.forged \in BOOLEAN /\ a.body \in Body
ASSUME OverridesAssumption == Overrides \subseteq Body

Idle == [at |-> "idle"]
\* What a request says: the arguments that its operation has, the others fixed.
\* chiMW.RealIP: the key is what the headers of the request say, so the
\* request, not the browser, has it.
Bare(op, b, k) == [op |-> op, by |-> b, key |-> k, name |-> Blank, role |-> "", right |-> TRUE, forged |-> FALSE, body |-> NoBody]

\* The session copy [tok, user, srole, state], and what the properties need:
\* whether an administrator existed and nobody else was at the settings.
Copy == [tok : Nat, user : Names \union {Blank}, srole : Roles \union {""}, state : {"clean", "modified", "destroyed"}]
NoCopy == [tok |-> 0, user |-> Blank, srole |-> "", state |-> "clean"]

Busy == {s \in Slots : req[s] # Idle}
Putting == {s \in Busy : req[s].at \in {"put", "validate", "marshal", "save"}}

\* scs.Load: with an idle timeout a session that is found will be stored again.
Loaded(b) ==
  IF cookie[b] \in DOMAIN sessions
  THEN [tok |-> cookie[b], user |-> sessions[cookie[b]].user, srole |-> sessions[cookie[b]].role, state |-> "modified"]
  ELSE NoCopy

\* requireAuth, requireCSRF, requirePerm.
\* Mutant: the token is asked for on no method.
NoCSRF(op, sess, forged) == op \in Managed => sess.user # Blank /\ HasPermission(sess.srole, Perm[op])
Admitted(op, sess, forged) ==
  op \in Managed => /\ sess.user # Blank
                    /\ op \in Reads \/ ~ forged
                    /\ HasPermission(sess.srole, Perm[op])

Init ==
  /\ users \in {[n \in Names |-> "none"],
                [n \in Names |-> IF n = Blank THEN "none"
                                 ELSE IF n = CHOOSE m \in Names \ {Blank} : TRUE THEN "super_admin" ELSE "operator"]}
  /\ sessions = [t \in {} |-> 0]
  /\ cookie = [b \in Browsers |-> 0]
  /\ req = [s \in Slots |-> Idle]
  /\ buckets = <<>>
  /\ disk = Initial
  /\ counters = [minted |-> 0, requests |-> 0]
  /\ \E env \in Overrides :
       /\ mem = WithFields(Initial, env) /\ Validate(mem)
       /\ log = [effects |-> {}, closed |-> {}, named |-> {}, admitted |-> [k \in Keys |-> 0], elapsed |-> 0,
                 acked |-> Initial, overridden |-> Given(env), overlapped |-> FALSE, left |-> FALSE]

Arrive(s, a) ==
  /\ req[s] = Idle /\ counters.requests < MaxRequests
  /\ LET sess == Loaded(a.by)
     IN req' = [req EXCEPT ![s] =
          [at |-> IF Admitted(a.op, sess, a.forged) /\ a.op \notin Reads THEN a.op ELSE "reply",
           arg |-> a, sess |-> sess, late |-> \E n \in Names : users[n] \in {"super_admin", "admin"}, copy |-> Initial]]
  /\ counters' = [counters EXCEPT !.requests = @ + 1]
  /\ UNCHANGED <<users, sessions, cookie, buckets, mem, disk, log>>

Go(s, at) == req' = [req EXCEPT ![s].at = at]
Effect(s) == [op |-> req[s].arg.op, user |-> req[s].sess.user, forged |-> req[s].arg.forged, late |-> req[s].late,
              name |-> req[s].arg.name]

\* The response: a modified copy goes back into the store under its token, a
\* destroyed one takes the cookie away.
Reply(s) ==
  LET sess == req[s].sess
  IN /\ req[s] # Idle /\ req[s].at = "reply"
     /\ sessions' = IF sess.state # "modified" THEN sessions
                    ELSE [t \in DOMAIN sessions \union {sess.tok} |->
                            IF t = sess.tok THEN [user |-> sess.user, role |-> sess.srole] ELSE sessions[t]]
     /\ cookie' = IF sess.state = "clean" THEN cookie
                  ELSE [cookie EXCEPT ![req[s].arg.by] = sess.tok]
     /\ log' = IF sess.state = "modified" THEN [log EXCEPT !.named = @ \union {<<sess.tok, sess.user>>}] ELSE log
     /\ req' = [req EXCEPT ![s] = Idle]
     /\ UNCHANGED <<users, buckets, mem, disk, counters>>

(***************************************************************************)
(* The rate limit of logins and of the setup: one bucket a key.            *)
(***************************************************************************)
\* Mutant: a bucket is dropped as soon as it rests.
Rested(bk) == bk.idle > 0
Stale(bk) == bk.idle > GcAge
Kept == {k \in DOMAIN buckets : ~ Stale(buckets[k])}
Level(k) == IF k \in Kept THEN buckets[k].level ELSE Burst

\* LoginRateLimiter.Allow: drops stale buckets, then takes an attempt of the
\* key's own.
Allow(k) ==
  buckets' = [x \in Kept \union {k} |->
                IF x = k THEN [level |-> IF Level(k) > 0 THEN Level(k) - 1 ELSE 0, idle |-> 0] ELSE buckets[x]]
Limited(k) == Level(k) = 0
Admitting(k, yes) == log' = [log EXCEPT !.admitted[k] = IF yes THEN @ + 1 ELSE @]

\* Only an attempt sees that time passes, so it does while one waits.
Tick ==
  /\ DOMAIN buckets # {} /\ \E s \in Busy : req[s].at \in {"login", "setup"}
  /\ log.elapsed < MaxTicks
  /\ log' = [log EXCEPT !.elapsed = @ + 1]
  /\ buckets' = [k \in DOMAIN buckets |-> [level |-> IF buckets[k].level < Burst THEN buckets[k].level + 1 ELSE Burst,
                                          idle |-> IF buckets[k].idle > GcAge THEN buckets[k].idle ELSE buckets[k].idle + 1]]
  /\ UNCHANGED <<users, sessions, cookie, req, mem, disk, counters>>

(***************************************************************************)
(* Handlers, step by step.                                                 *)
(***************************************************************************)
\* handleSetupSuperAdmin: the count, the limit and the checks of the body ...
SetupCheck(s) ==
  LET k == req[s].arg.key
  IN /\ req[s].at = "setup"
     /\ IF CountAdmins(users) > 0
        THEN Go(s, "reply") /\ UNCHANGED <<buckets, log>>
        ELSE Allow(k) /\ Admitting(k, ~ Limited(k)) /\ Go(s, IF Limited(k) THEN "reply" ELSE "claim")
     /\ UNCHANGED <<users, sessions, cookie, mem, disk, counters>>

\* ... and, a password hash later, the row; names are unique.
SetupCreate(s) ==
  LET n == req[s].arg.name
  IN /\ req[s].at = "claim"
     /\ IF users[n] = "none"
        THEN users' = [users EXCEPT ![n] = "super_admin"] /\ log' = [log EXCEPT !.effects = @ \union {Effect(s)}]
        ELSE UNCHANGED <<users, log>>
     /\ Go(s, "reply")
     /\ UNCHANGED <<sessions, cookie, buckets, mem, disk, counters>>

\* handleLogin: the limit, the row and the password ...
LoginCheck(s) ==
  LET a == req[s].arg
  IN /\ req[s].at = "login"
     /\ Allow(a.key) /\ Admitting(a.key, ~ Limited(a.key))
     /\ Go(s, IF ~ Limited(a.key) /\ users[a.name] # "none" /\ a.right THEN "grant" ELSE "reply")
     /\ UNCHANGED <<users, sessions, cookie, mem, disk, counters>>

\* scs.Destroy deletes the session from the store.
\* Mutant: it is forgotten in the request only.
Forget(store, t) == store
Without(store, t) == [x \in DOMAIN store \ {t} |-> store[x]]

\* RenewToken.
\* Mutant: a session that exists keeps its token.
KeptToken(tok, minted) == IF tok # 0 THEN tok ELSE minted + 1
Renewed(tok, minted) == minted + 1

\* ... and then a session of its own.
LoginGrant(s) ==
  LET a == req[s].arg
      tok == Renewed(req[s].sess.tok, counters.minted)
  IN /\ req[s].at = "grant"
     /\ sessions' = Without(sessions, req[s].sess.tok)
     /\ req' = [req EXCEPT ![s].at = "reply",
                          ![s].sess = [tok |-> tok, user |-> a.name, srole |-> users[a.name], state |-> "modified"]]
     /\ counters' = [counters EXCEPT !.minted = IF tok > @ THEN tok ELSE @]
     /\ UNCHANGED <<users, cookie, buckets, mem, disk, log>>

\* handleLogout; the token is closed for good if no other request of the same
\* session is being served.
Logout(s) ==
  LET t == req[s].sess.tok
  IN /\ req[s].at = "logout"
     /\ sessions' = Without(sessions, t)
     /\ req' = [req EXCEPT ![s].at = "reply", ![s].sess = [NoCopy EXCEPT !.state = "destroyed"]]
     /\ log' = IF t # 0 /\ \A o \in Busy \ {s} : req[o].sess.tok # t
               THEN [log EXCEPT !.closed = @ \union {t}] ELSE log
     /\ UNCHANGED <<users, cookie, buckets, mem, disk, counters>>

\* handleUsersCreate, UserRepo.Create.
CreateUser(s) ==
  LET a == req[s].arg
  IN /\ req[s].at = "create"
     /\ IF a.name # Blank /\ ValidRole(a.role) /\ users[a.name] = "none"
        THEN users' = [users EXCEPT ![a.name] = a.role] /\ log' = [log EXCEPT !.effects = @ \union {Effect(s)}]
        ELSE UNCHANGED <<users, log>>
     /\ Go(s, "reply")
     /\ UNCHANGED <<sessions, cookie, buckets, mem, disk, counters>>

\* handleFirewallApply and the other handlers that act on the firewall.
ApplyTransaction(s) ==
  /\ req[s].at = "apply"
  /\ log' = [log EXCEPT !.effects = @ \union {Effect(s)}]
  /\ Go(s, "reply")
  /\ UNCHANGED <<users, sessions, cookie, buckets, mem, disk, counters>>

\* handleSettingsPut: the fields go into the settings the server runs with,
PutFields(s) ==
  /\ req[s].at = "put"
  /\ mem' = WithFields(mem, req[s].arg.body)
  /\ log' = [log EXCEPT !.effects = @ \union {Effect(s)}, !.overlapped = @ \/ Putting # {s}]
  /\ Go(s, "validate")
  /\ UNCHANGED <<users, sessions, cookie, buckets, disk, counters>>

\* are judged there, and stay there,
PutValidate(s) ==
  /\ req[s].at = "validate"
  /\ Go(s, IF Validate(mem) THEN "marshal" ELSE "reply")
  /\ log' = [log EXCEPT !.left = @ \/ ~ Validate(mem)]
  /\ UNCHANGED <<users, sessions, cookie, buckets, mem, disk, counters>>

\* are read again to be written,
PutMarshal(s) ==
  /\ req[s].at = "marshal"
  /\ req' = [req EXCEPT ![s].at = "save", ![s].copy = mem]
  /\ UNCHANGED <<users, sessions, cookie, buckets, mem, disk, counters, log>>

\* and are stored.
PutSave(s) ==
  /\ req[s].at = "save"
  /\ disk' = req[s].copy
  /\ log' = [log EXCEPT !.acked = Promised(@, req[s].arg.body)]
  /\ Go(s, "reply")
  /\ UNCHANGED <<users, sessions, cookie, buckets, mem, counters>>

\* The key, the encoding or the file fails: the answer is an error, and the
\* fields stay where the next put will store them.
PutFails(s) ==
  /\ req[s].at \in {"marshal", "save"}
  /\ log' = [log EXCEPT !.left = TRUE]
  /\ Go(s, "reply")
  /\ UNCHANGED <<users, sessions, cookie, buckets, mem, disk, counters>>

(***************************************************************************)
(* The surroundings.                                                       *)
(***************************************************************************)
\* A session's idle time or lifetime is over.
Expire(t) ==
  /\ t \in DOMAIN sessions
  /\ sessions' = Without(sessions, t)
  /\ UNCHANGED <<users, cookie, req, buckets, mem, disk, counters, log>>

\* The server stops and is started, as it was at first, on the stored settings
\* and what its environment puts over them (applyEnv), if it accepts the result.
Restart ==
  /\ \E env \in Overrides :
       /\ mem' = WithFields(disk, env) /\ Validate(mem')
       /\ log' = [log EXCEPT !.admitted = [k \in Keys |-> 0], !.elapsed = 0,
                             !.overridden = @ \union Given(env)]
  /\ sessions' = <<>> /\ buckets' = <<>>
  /\ req' = [s \in Slots |-> Idle]
  /\ UNCHANGED <<users, cookie, disk, counters>>

Serve(s) ==
  /\ req[s] # Idle
  /\ \/ SetupCheck(s) \/ SetupCreate(s) \/ LoginCheck(s) \/ LoginGrant(s) \/ Logout(s)
     \/ CreateUser(s) \/ ApplyTransaction(s)
     \/ PutFields(s) \/ PutValidate(s) \/ PutMarshal(s) \/ PutSave(s) \/ PutFails(s) \/ Reply(s)

Next ==
  \/ \E s \in Slots : Serve(s) \/ \E b \in Browsers : \E a \in Asks(b) : Arrive(s, a)
  \/ \E t \in DOMAIN sessions : Expire(t)
  \/ Tick \/ Restart

Spec == Init /\ [][Next]_vars

(***************************************************************************)
(* Properties.                                                             *)
(***************************************************************************)
TypeOK ==
  /\ users \in [Names -> Roles \union {"none"}]
  /\ \A t \in DOMAIN sessions : /\ t \in 1..counters.minted
                                /\ sessions[t].user \in Names /\ users[sessions[t].user] = sessions[t].role
  /\ cookie \in [Browsers -> 0..counters.minted]
  /\ \A s \in Busy : req[s].arg \in Asks(req[s].arg.by) /\ req[s].sess \in Copy /\ req[s].copy \in Settings
  /\ \A k \in DOMAIN buckets : k \in Keys /\ buckets[k].level \in 0..Burst /\ buckets[k].idle \in 0..GcAge + 1
  /\ mem \in Settings /\ disk \in Settings

\* middleware.go:48: of all the sessions ever stored, no two with one token are
\* of different users, whatever logins and replies overlap.
TokenOneUser == \A p, q \in log.named : p[1] = q[1] => p[2] = q[2]

\* middleware.go:72: a session that was logged out while no other request of
\* it was being served is never in the store again.
LogoutIsFinal == log.closed \intersect DOMAIN sessions = {}

\* middleware.go:124: what was done to users, settings and the firewall was
\* done for a user whose row, not only whose session, carries the right.
AuthorityIsReal ==
  \A e \in log.effects : e.op # "setup" =>
    users[e.user] \in (IF e.op = "apply" THEN {"super_admin", "admin", "operator"} ELSE {"super_admin", "admin"})

\* middleware.go:113: no request to the management API that another site made
\* has an effect (the setup, which has no session, takes no token).
NoForgedEffect == \A e \in log.effects : e.op \in Managed => ~ e.forged

\* Whoever is behind an effect, in a request of their own, may cause it.
EffectsAreAuthorized == TypeOK /\ AuthorityIsReal /\ NoForgedEffect

\* setup.go:16: a setup that is asked for when an administrator exists creates
\* nobody.
SetupIsOver == \A e \in log.effects : e.op = "setup" => ~ e.late

\* ratelimit.go:28: from a start of the server on, a key gets one burst and the
\* attempts of the time since, dropped buckets included.
AttemptsBounded == \A k \in Keys : log.admitted[k] <= Burst + log.elapsed

\* server.go:354: as long as puts do not overlap, the stored settings are ones
\* the server starts with.
DiskIsUsable == ~ log.overlapped => Usable(disk)

\* server.go:376: as long as puts do not overlap and none was refused or failed,
\* the stored settings are what the answered puts made of them, but for those
\* that the environment was put over.
AckedIsStored ==
  ~ log.overlapped /\ ~ log.left => \A f \in DOMAIN disk \ log.overridden : disk[f] = log.acked[f]

\* The settings on disk are good, and the ones that were answered for.
SettingsAreKept == DiskIsUsable /\ AckedIsStored

\* Refuted by TLC (see README).
\* ratelimit.go:18: one client gets the attempts of one source address.
OneClientOneBucket ==
  Cardinality(Browsers) = 1 =>
    \A j, k \in Keys : j # k => log.admitted[j] + log.admitted[k] <= Burst + log.elapsed

\* server.go:354: what is stored is what was answered for, even if a put failed
\* or the environment was put over the settings.
StoredAsAnswered == ~ log.overlapped => disk = log.acked

\* setup.go:11: the setup is for the first visitor, once.
SetupOnce == \A e, f \in log.effects : e.op = "setup" /\ f.op = "setup" => e = f
=============================================================================
