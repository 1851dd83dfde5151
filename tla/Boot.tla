-------------------------------- MODULE Boot --------------------------------
(***************************************************************************)
(* How the server and the agent come up (app/app.go, app/runtime.go), with *)
(* what they find on disk and in each other: the schema (database.go),     *)
(* the integrity record of each program (integrity.go), the agent CA       *)
(* (pki/agentca.go), and over the agent's socket the ownership that it     *)
(* detected once.  systemd starts both and restarts one that ends with an  *)
(* error; either may be killed between any two steps, and half way through *)
(* the write of a file; `fyrwall db migrate` runs beside the server; the   *)
(* installer replaces the program.                                         *)
(*                                                                         *)
(* Abstracted: a program on disk is a release number or damaged, a file is *)
(* absent, torn or the number it was made with, a migration is its version.*)
(* Loading the configuration is ConfigStore's, ownership and backends are  *)
(* FirewallPolicy's.                                                       *)
(***************************************************************************)
EXTENDS Integers, FiniteSets, FiniteSetsExt

CONSTANTS
  Latest,      \* the last version of Schema()
  MaxCrashes,  \* bound: kills and failed binds
  MaxChanges   \* bound: upgrades, damages, changes of the host's firewalls

ASSUME BootAssumption == Latest \in Nat \ {0} /\ MaxCrashes \in Nat /\ MaxChanges \in Nat

VARIABLES
  schema,   \* versions applied and recorded, in one transaction each
  db,       \* the database file is intact
  ca,       \* agent-ca.pem and agent-ca.key
  record,   \* per program: integrity.key and integrity.json
  bin,      \* /usr/bin/fyrwall
  host,     \* what the detection of ownership would find now
  proc,     \* the two programs
  check,    \* per program: what its check of itself has seen
  todo,     \* per migrator: versions it found to be missing
  cli,      \* fyrwall db migrate is running
  health,   \* the server's tracker
  notices,  \* codes in the notifications table
  count, log

vars == <<schema, db, ca, record, bin, host, proc, check, todo, cli, health, notices, count, log>>
disk == <<schema, db, ca, record>>

Programs == {"server", "agent"}
None == 0
Torn == -1
Damaged == -2
Hosts == {"writes", "blocked", "conflict", "nobackend"}
Ended == {"down", "failed", "tampered"}
\* The hash of the program's file that is to be recorded, and (history) whether
\* the file was replaced before the running program's check read it.
Unread == [hash |-> None, swapped |-> FALSE]

Init ==
  /\ schema = {} /\ db = TRUE
  /\ ca = [cert |-> None, key |-> None]
  /\ record = [p \in Programs |-> [key |-> None, bin |-> None, mac |-> None]]
  /\ bin = 1 /\ host \in Hosts
  /\ proc = [p \in Programs |-> [at |-> "down", bin |-> None, own |-> "unknown", ca |-> None]]
  /\ check = [p \in Programs |-> Unread]
  /\ todo = [m \in {"server", "cli"} |-> {}] /\ cli = FALSE
  /\ health = [firewall |-> "none", integrity |-> "none"]
  /\ notices = {}
  /\ count = [crashes |-> 0, changes |-> 0, made |-> 0]
  /\ log = [torn |-> FALSE, tampered |-> FALSE, first |-> None, ca |-> None]

At(p, s) == proc[p].at = s
Go(p, s) == proc' = [proc EXCEPT ![p].at = s]
Up(p) == At(p, "up")
Notice(codes) == notices' = notices \union codes

\* systemd: both on boot, and again when they end with an error.
Start(p) ==
  /\ proc[p].at \in Ended
  /\ proc' = [proc EXCEPT ![p] = [at |-> IF p = "server" THEN "open" ELSE "verify", bin |-> bin,
                                  own |-> "unknown", ca |-> None]]
  /\ check' = [check EXCEPT ![p] = Unread]
  /\ health' = IF p = "server" THEN [firewall |-> "none", integrity |-> "none"] ELSE health
  /\ UNCHANGED <<disk, bin, host, todo, cli, notices, count, log>>

(***************************************************************************)
(* The database: openDB and Migrate, by the server and by the command.     *)
(***************************************************************************)
Current == IF schema = {} THEN 0 ELSE Max(schema)
\* Mutant: the version reached is applied once more.
PendingAgain == {v \in 1..Latest : v >= Current}
Pending == {v \in 1..Latest : v > Current}

\* Mutant: the migrations are applied newest first.
Newest(S) == Max(S)
Oldest(S) == Min(S)

\* What a failed migration leads to: emitStartupIssue is given no database
\* and panics, before the recovery page is served.
OpenDB ==
  /\ At("server", "open")
  /\ IF db THEN Go("server", "migrate") /\ todo' = [todo EXCEPT !["server"] = Pending]
           ELSE Go("server", "failed") /\ UNCHANGED todo
  /\ UNCHANGED <<disk, check, bin, host, cli, health, notices, count, log>>

\* One transaction: its tables exist if someone else applied it meanwhile.
Apply(m) ==
  LET v == Oldest(todo[m])
  IN /\ todo[m] # {} /\ v \notin schema
     /\ schema' = schema \union {v}
     /\ todo' = [todo EXCEPT ![m] = @ \ {v}]
     /\ UNCHANGED <<check, db, ca, record, bin, host, proc, cli, health, notices, count, log>>

MigrateServer == At("server", "migrate") /\ Apply("server")

Migrated ==
  /\ At("server", "migrate")
  /\ \/ todo["server"] = {} /\ Go("server", "verify")
     \/ todo["server"] # {} /\ Oldest(todo["server"]) \in schema /\ Go("server", "failed")
  /\ todo' = [todo EXCEPT !["server"] = {}]
  /\ UNCHANGED <<disk, check, bin, host, cli, health, notices, count, log>>

RunMigrations ==
  /\ ~ cli /\ db
  /\ cli' = TRUE /\ todo' = [todo EXCEPT !["cli"] = Pending]
  /\ UNCHANGED <<disk, check, bin, host, proc, health, notices, count, log>>

MigrateByHand == cli /\ Apply("cli")

\* Done, in conflict, or interrupted.
MigrationsEnd ==
  /\ cli
  /\ cli' = FALSE /\ todo' = [todo EXCEPT !["cli"] = {}]
  /\ UNCHANGED <<disk, check, bin, host, proc, health, notices, count, log>>

(***************************************************************************)
(* Integrity: selfIntegrityCheck, which hashes the file that now has the   *)
(* path of the running program.                                            *)
(***************************************************************************)
\* The server reports a failure and goes on, the agent ends.
Passed(p) ==
  /\ Go(p, IF p = "server" THEN "capabilities" ELSE "detect")
  /\ health' = IF p = "server" THEN [health EXCEPT !.integrity = "HEALTHY"] ELSE health
  /\ UNCHANGED notices
Refused(p, why) ==
  IF p = "agent" THEN Go(p, why) /\ UNCHANGED <<health, notices>>
  ELSE /\ Go(p, "capabilities") /\ Notice({"INTEGRITY_FAILED"})
       /\ health' = [health EXCEPT !.integrity = "DEGRADED"]

\* Mutant: after any error of Verify the program is recorded anew.
RecordsAfterError(p) == record[p].bin = None \/ record[p].bin # bin
NeedsRecord(p) == record[p].bin = None

Verify(p) ==
  LET r == record[p]
  IN /\ At(p, "verify")
     /\ \/ NeedsRecord(p) /\ Go(p, "key") /\ UNCHANGED <<health, notices>>
        \/ ~ NeedsRecord(p) /\ (r.bin = Torn \/ r.key = Torn) /\ Refused(p, "failed")
        \/ /\ ~ NeedsRecord(p) /\ r.bin # Torn /\ r.key # Torn
           /\ IF r.bin = bin /\ r.mac = r.key THEN Passed(p) ELSE Refused(p, "tampered")
     /\ UNCHANGED <<disk, check, bin, host, todo, cli, count, log>>

\* Record hashes the file, and gets or makes the key,
HostKey(p) ==
  /\ At(p, "key")
  /\ check' = [check EXCEPT ![p].hash = bin]
  /\ CASE record[p].key = None ->
            /\ count' = [count EXCEPT !.made = @ + 1]
            /\ record' = [record EXCEPT ![p].key = count'.made]
            /\ Go(p, "rec") /\ UNCHANGED <<health, notices>>
       [] record[p].key = Torn -> Refused(p, "failed") /\ UNCHANGED <<record, count>>
       [] OTHER -> Go(p, "rec") /\ UNCHANGED <<record, count, health, notices>>
  /\ UNCHANGED <<schema, db, ca, bin, host, todo, cli, log>>

\* and writes them down.
Record(p) ==
  /\ At(p, "rec")
  /\ record' = [record EXCEPT ![p].bin = check[p].hash, ![p].mac = record[p].key]
  /\ log' = IF p = "agent" /\ log.first = None THEN [log EXCEPT !.first = check[p].hash] ELSE log
  /\ Passed(p)
  /\ UNCHANGED <<schema, check, db, ca, bin, host, todo, cli, count>>

(***************************************************************************)
(* The agent: detectBackend once, and Listen.                              *)
(***************************************************************************)
DetectBackend ==
  /\ At("agent", "detect")
  /\ proc' = [proc EXCEPT !["agent"].at = IF host = "nobackend" THEN "failed" ELSE "listen",
                          !["agent"].own = IF host = "nobackend" THEN "unknown" ELSE host]
  /\ UNCHANGED <<disk, check, bin, host, todo, cli, health, notices, count, log>>

Listen ==
  /\ At("agent", "listen") /\ Go("agent", "up")
  /\ UNCHANGED <<disk, check, bin, host, todo, cli, health, notices, count, log>>

(***************************************************************************)
(* The server's view of the agent.                                         *)
(***************************************************************************)
Answer == proc["agent"].own

\* Mutant: a conflict is only reported when it is found at the start.
Silently(own) == {}
SetOwnership(own) == IF own = "conflict" THEN {"FW_BACKEND_CONFLICT"} ELSE {}

Capabilities ==
  /\ At("server", "capabilities")
  /\ IF Up("agent")
     THEN /\ proc' = [proc EXCEPT !["server"].at = "pki", !["server"].own = Answer]
          /\ health' = [health EXCEPT !.firewall = IF Answer = "writes" THEN "HEALTHY" ELSE "DEGRADED"]
          /\ Notice(CASE Answer = "conflict" -> {"FW_BACKEND_CONFLICT"}
                      [] Answer = "blocked" -> {"FW_WRITES_BLOCKED"}
                      [] OTHER -> {})
     ELSE /\ Go("server", "pki")
          /\ health' = [health EXCEPT !.firewall = "BLOCKED"]
          /\ Notice({"AGENT_UNAVAILABLE"})
  /\ UNCHANGED <<disk, check, bin, host, todo, cli, count, log>>

\* Every 10 s once the manager exists.  Without an answer the gate stays as it is.
Tick ==
  /\ At("server", "up")
  /\ IF Up("agent")
     THEN /\ proc' = [proc EXCEPT !["server"].own = Answer]
          /\ health' = [health EXCEPT !.firewall = IF Answer = "writes" THEN "HEALTHY" ELSE "DEGRADED"]
          /\ Notice(SetOwnership(Answer))
     ELSE health' = [health EXCEPT !.firewall = "BLOCKED"] /\ UNCHANGED <<proc, notices>>
  /\ UNCHANGED <<disk, check, bin, host, todo, cli, count, log>>

\* refreshOwnership, before a request: the gate alone.
Refresh ==
  /\ Up("server") /\ Up("agent")
  /\ proc' = [proc EXCEPT !["server"].own = Answer]
  /\ UNCHANGED <<disk, check, bin, host, todo, cli, health, notices, count, log>>

(***************************************************************************)
(* The agent CA and the listener.                                          *)
(***************************************************************************)
\* Mutant: a CA is made at every start.
NoneYet == FALSE
CaPresent == ca.cert # None

NewCA ==
  /\ At("server", "pki")
  /\ IF ~ CaPresent THEN Go("server", "cert") /\ UNCHANGED log
     ELSE IF Torn \in {ca.cert, ca.key} \/ ca.key = None THEN Go("server", "failed") /\ UNCHANGED log
     ELSE /\ proc' = [proc EXCEPT !["server"].at = "bind", !["server"].ca = ca.cert]
          /\ log' = IF log.ca = None THEN [log EXCEPT !.ca = ca.cert] ELSE log
  /\ UNCHANGED <<disk, check, bin, host, todo, cli, health, notices, count>>

WriteCert ==
  /\ At("server", "cert")
  /\ count' = [count EXCEPT !.made = @ + 1]
  /\ ca' = [ca EXCEPT !.cert = count'.made]
  /\ proc' = [proc EXCEPT !["server"].at = "cakey", !["server"].ca = count'.made]
  /\ UNCHANGED <<schema, check, db, record, bin, host, todo, cli, health, notices, log>>

WriteKey ==
  /\ At("server", "cakey")
  /\ ca' = [ca EXCEPT !.key = proc["server"].ca]
  /\ log' = IF log.ca = None THEN [log EXCEPT !.ca = ca.cert] ELSE log
  /\ Go("server", "bind")
  /\ UNCHANGED <<schema, check, db, record, bin, host, todo, cli, health, notices, count>>

BindListener ==
  /\ At("server", "bind")
  /\ \/ Go("server", "up") /\ UNCHANGED count
     \/ /\ count.crashes < MaxCrashes
        /\ count' = [count EXCEPT !.crashes = @ + 1] /\ Go("server", "failed")
  /\ UNCHANGED <<disk, check, bin, host, todo, cli, health, notices, log>>

(***************************************************************************)
(* The surroundings.                                                       *)
(***************************************************************************)
\* A file being written when its program is killed may be left torn.
Kill(p) ==
  /\ proc[p].at \notin Ended /\ count.crashes < MaxCrashes
  /\ count' = [count EXCEPT !.crashes = @ + 1]
  /\ Go(p, "down")
  /\ todo' = IF p = "server" THEN [todo EXCEPT ![p] = {}] ELSE todo
  /\ \E torn \in BOOLEAN :
       LET Half(step) == torn /\ At(p, step)
       IN /\ ca' = [cert |-> IF Half("cert") THEN Torn ELSE ca.cert, key |-> IF Half("cakey") THEN Torn ELSE ca.key]
          /\ record' = [record EXCEPT ![p].key = IF Half("key") /\ @ = None THEN Torn ELSE @,
                                     ![p].bin = IF Half("rec") THEN Torn ELSE @]
  /\ log' = [log EXCEPT !.torn = @ \/ ca' # ca \/ record' # record \/ At(p, "cakey")]
  /\ UNCHANGED <<schema, check, db, bin, host, cli, health, notices>>

Changed == count.changes < MaxChanges /\ count' = [count EXCEPT !.changes = @ + 1]

Unchecked == {"open", "migrate", "verify", "key"}
Swaps == check' = [p \in Programs |-> [check[p] EXCEPT !.swapped = @ \/ proc[p].at \in Unchecked]]

\* install.sh again, with another release, or with an old one.
Upgrade ==
  /\ Changed
  /\ \E r \in 1..count'.changes + 1 : r # bin /\ bin' = r
  /\ Swaps
  /\ UNCHANGED <<disk, host, proc, todo, cli, health, notices, log>>

\* Anything else that changes the program or the database.
Damage ==
  /\ Changed
  /\ \/ bin' = Damaged /\ log' = [log EXCEPT !.tampered = TRUE] /\ Swaps /\ UNCHANGED db
     \/ db' = FALSE /\ UNCHANGED <<bin, check, log>>
  /\ UNCHANGED <<schema, ca, record, host, proc, todo, cli, health, notices>>

ChangeHost(h) ==
  /\ Changed /\ host # h
  /\ host' = h
  /\ UNCHANGED <<disk, check, bin, proc, todo, cli, health, notices, log>>

Integrity(p) == Verify(p) \/ HostKey(p) \/ Record(p)
ServerStep ==
  \/ OpenDB \/ MigrateServer \/ Migrated \/ Integrity("server")
  \/ Capabilities \/ NewCA \/ WriteCert \/ WriteKey \/ BindListener
AgentStep == Integrity("agent") \/ DetectBackend \/ Listen

Next ==
  \/ \E p \in Programs : Start(p) \/ Kill(p)
  \/ ServerStep \/ AgentStep \/ Tick \/ Refresh
  \/ RunMigrations \/ MigrateByHand \/ MigrationsEnd
  \/ Upgrade \/ Damage \/ \E h \in Hosts : ChangeHost(h)

Spec == Init /\ [][Next]_vars

\* systemd restarts, a program that runs goes on, the ticker ticks.
Fairness ==
  /\ \A p \in Programs : WF_vars(Start(p))
  /\ WF_vars(ServerStep) /\ WF_vars(AgentStep) /\ WF_vars(Tick)

FairSpec == Spec /\ Fairness

(***************************************************************************)
(* Properties.                                                             *)
(***************************************************************************)
ServerSteps == Ended \union {"open", "migrate", "verify", "key", "rec", "capabilities", "pki", "cert", "cakey", "bind", "up"}
AgentSteps == Ended \union {"verify", "key", "rec", "detect", "listen", "up"}
Numbers == 0..count.made \union {Torn}

TypeOK ==
  /\ schema \subseteq 1..Latest /\ \A m \in DOMAIN todo : todo[m] \subseteq 1..Latest
  /\ proc["server"].at \in ServerSteps /\ proc["agent"].at \in AgentSteps
  /\ ca.cert \in Numbers /\ ca.key \in Numbers /\ (ca.key # None => ca.cert # None)
  /\ \A p \in Programs : record[p].key \in Numbers /\ (record[p].bin # None => record[p].key # None)

\* database.go:62: whatever two migrators and crashes interleave, a server that
\* got past its database works on a complete schema, and a schema never has a
\* version without those before it.
SchemaComplete ==
  /\ TypeOK
  /\ \A v \in schema : 1..v \subseteq schema
  /\ proc["server"].at \notin Ended \union {"open", "migrate"} => schema = 1..Latest

\* integrity.go:100: an agent that touches the firewall is the program that
\* was recorded first, however often it was restarted, upgraded or damaged,
\* unless its file was replaced between its start and its check.
AgentUnchanged ==
  proc["agent"].at \in {"detect", "listen", "up"} /\ ~ check["agent"].swapped => proc["agent"].bin = log.first

\* agentca.go:25: all servers that ever got past the CA issue from the same
\* one, with the key of its certificate, so agents enrolled once stay trusted.
OneCA == proc["server"].at \in {"bind", "up"} => ca = [cert |-> log.ca, key |-> log.ca] /\ proc["server"].ca = log.ca

\* app.go:122: the server comes up again after every crash, unless the database
\* is damaged, or a kill left a file of its CA or an integrity record torn, or
\* the CA's certificate without its key, which nothing repairs.
ServerComesUp == []<>Up("server") \/ <>(log.torn \/ ~ db)

\* app.go:204: when the agent stays away, the dashboard comes to say so.
HealthSettles == <>[](Up("server") /\ ~ Up("agent")) => <>[](health.firewall = "BLOCKED")

\* manager.go:54: a conflict the server learns of in any way, also from a
\* refresh that tells nobody, ends up in the notifications, unless the agent
\* is gone before the next tick.
Conflicting == Up("server") /\ proc["server"].own = "conflict"
ConflictIsNoticed == Conflicting ~> (~ Conflicting \/ ~ Up("agent") \/ "FW_BACKEND_CONFLICT" \in notices)

\* What happens to the agent reaches the administrator.
ServerLearns == HealthSettles /\ ConflictIsNoticed

\* Refuted by TLC (see README).
\* integrity.go:100: "re-hashes the running binary": what is hashed runs.
RunningIsHashed == proc["agent"].at \in {"detect", "listen", "up"} => proc["agent"].bin = log.first

\* README.md:221: "Re-running any install method is a safe in-place upgrade":
\* the agent refuses a program only if something else than an upgrade changed it.
UpgradeIsSafe == At("agent", "tampered") => log.tampered
=============================================================================
