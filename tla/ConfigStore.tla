----------------------------- MODULE ConfigStore -----------------------------
(***************************************************************************)
(* The configuration and its key on disk (config/config.go,                *)
(* secureconfig/secureconfig.go) under the programs that read and write    *)
(* them: the server, which runs as fyrwall; the agent, which is root but   *)
(* for the capabilities that open files of others, and of the group        *)
(* fyrwall; and an administrator's commands and setup wizard, which are    *)
(* root with everything.  A plaintext configuration is migrated to an      *)
(* encrypted one by whoever loads it first, with a key that is made on     *)
(* first use.                                                              *)
(*                                                                         *)
(* Every system call that another program or a crash can fall between is a *)
(* step: the reads, the truncation and the write of the key file, the      *)
(* rename of a new configuration.                                          *)
(*                                                                         *)
(* Abstracted: a configuration is two numbers, for the fields that the     *)
(* wizard and the settings page know (fields) and for the others (rest),   *)
(* 0 being the default; keys are numbered as they are made; file modes are *)
(* reduced to who may read and write.                                      *)
(***************************************************************************)
EXTENDS Naturals, FiniteSets

CONSTANTS
  Slots,      \* programs and request handlers at work at a time
  Overrides,  \* environments the server may have
  MaxJobs,    \* bound: programs and handlers started, edits made
  MaxKills    \* bound: crashes


VARIABLES
  cfg,       \* config.yaml: its form, content, key, and who wrote it
  keyfile,   \* config.key: 0 for a short one, and its owner
  imported,  \* config.yaml.imported
  server,    \* the running server and the settings it runs with
  env,       \* FYRWALL_* of the server's unit
  job,       \* per slot: what is being done, and how far it is
  count,     \* jobs, kills, keys so far
  log        \* what happened, for the properties

vars == <<cfg, keyfile, imported, server, env, job, count, log>>

Unset == 9

ASSUME ConfigStoreAssumption ==
  /\ MaxJobs \in Nat /\ MaxKills \in Nat
  /\ Overrides \subseteq [fields : 0..2 \union {Unset}, rest : 0..1 \union {Unset}]

Content == [fields : 0..2, rest : 0..1]
Default == [fields |-> 0, rest |-> 0]
Absent  == [form |-> "absent", val |-> Default, key |-> 0, by |-> "install"]
NoFile  == [owner |-> "none", val |-> 0]
NoCopy  == [owner |-> "none", val |-> Default]

\* 2 stands for values that are refused: ports, binds without TLS, ranges.
Validate(c) == c.fields # 2

\* applyEnv, for the only program that has such an environment.
ApplyEnv(kind, c) ==
  IF kind # "serve" THEN c
  ELSE [fields |-> IF env.fields = Unset THEN c.fields ELSE env.fields,
        rest |-> IF env.rest = Unset THEN c.rest ELSE env.rest]

(***************************************************************************)
(* Programs.                                                               *)
(***************************************************************************)
Loaders == {"serve", "agent", "command", "setup"}
Kinds == Loaders \union {"doctor", "diagnose", "put"}
Inside == {"diagnose", "put"}           \* handlers of the server
User(kind) ==
  CASE kind \in Inside \union {"serve"} -> "fyrwall"
    [] kind = "agent" -> "agent"
    [] OTHER -> "root"
Owner(who) == IF who = "agent" THEN "root" ELSE who   \* of the files it makes

\* Mutant: the agent migrates as well.
AllMigrate(kind) == TRUE
Migrates(kind) == kind # "agent"

\* A file of mode 0600: fyrwall-agent.service leaves the agent no CAP_DAC_OVERRIDE.
Owns(who, owner) == who = "root" \/ Owner(who) = owner
\* The configuration is its owner's and its group's, and what an administrator
\* writes has root's group: chown changes the owner only.
ReadsConfig(who) == who # "fyrwall" \/ cfg.by # "root"

Idle == [kind |-> "none", at |-> "idle", val |-> Default, key |-> 0, plain |-> FALSE]
Busy == {s \in Slots : job[s] # Idle}
Set(s, r) == job' = [job EXCEPT ![s] = r]
Go(s, at) == Set(s, [job[s] EXCEPT !.at = at])
AfterKey(kind) == CASE kind \in Loaders -> "open" [] kind = "put" -> "save" [] OTHER -> "verify"

Init ==
  /\ cfg \in {Absent, [form |-> "plain", val |-> [fields |-> 1, rest |-> 1], key |-> 0, by |-> "install"]}
  /\ keyfile = NoFile /\ imported = NoCopy
  /\ server = [up |-> FALSE, mem |-> Default]
  /\ env \in Overrides
  /\ job = [s \in Slots |-> Idle]
  /\ count = [jobs |-> 0, kills |-> 0, keys |-> 0]
  /\ log = [torn |-> FALSE, twice |-> FALSE, byRoot |-> FALSE, stale |-> FALSE, wizard |-> FALSE, rest |-> cfg.val.rest]

Counted == count.jobs < MaxJobs /\ count' = [count EXCEPT !.jobs = @ + 1]

Begin(s, kind) ==
  /\ job[s] = Idle /\ Counted
  /\ kind \in Inside => server.up
  /\ kind = "serve" => ~ server.up /\ \A o \in Busy : job[o].kind # "serve"
  /\ kind # "put"
  /\ Set(s, [Idle EXCEPT !.kind = kind, !.at = IF kind \in Loaders THEN "read" ELSE "key"])
  /\ log' = IF kind \in {"command", "doctor", "setup"} THEN [log EXCEPT !.byRoot = TRUE] ELSE log
  /\ UNCHANGED <<cfg, keyfile, imported, server, env>>

\* handleSettingsPut up to the store: a refused value stays in the memory.
Put(s, v) ==
  /\ job[s] = Idle /\ Counted /\ server.up
  /\ \A o \in Busy : job[o].kind # "put"
  /\ server' = [server EXCEPT !.mem.fields = v]
  /\ IF Validate(server'.mem) THEN Set(s, [Idle EXCEPT !.kind = "put", !.at = "key"]) ELSE UNCHANGED job
  /\ UNCHANGED <<cfg, keyfile, imported, env, log>>

\* Mutant: load goes on with the defaults after any error.
GoesOn(s) == Set(s, [job[s] EXCEPT !.at = "loaded", !.val = Default])

\* The end of a load: with an error, the wizard goes on with the defaults and
\* every other program ends.
Fails(s) == Set(s, IF job[s].kind = "setup" THEN [job[s] EXCEPT !.at = "ask", !.val = Default] ELSE Idle)

\* readConfigFile: the first read decides what is done.
ReadConfigFile(s) ==
  /\ job[s].at = "read"
  /\ LET k == job[s].kind
     IN CASE cfg.form = "absent" -> Go(s, "loaded")
          [] cfg.form # "absent" /\ ~ ReadsConfig(User(k)) -> Fails(s)
          [] ReadsConfig(User(k)) /\ cfg.form = "sealed" -> Go(s, "key")
          [] ReadsConfig(User(k)) /\ cfg.form = "plain" ->
               Set(s, [job[s] EXCEPT !.at = IF Migrates(k) THEN "key" ELSE "loaded", !.val = cfg.val, !.plain = TRUE])
  /\ UNCHANGED <<cfg, keyfile, imported, server, env, count, log>>

(***************************************************************************)
(* The key: loadOrCreateKey.                                               *)
(***************************************************************************)
\* New fails: a plaintext configuration is used as it is.
NoKey(s) ==
  IF job[s].plain THEN Go(s, "loaded") ELSE Fails(s)

\* Mutant: the key is made anew each time.
NeverFound(who) == FALSE
Found(who) == keyfile # NoFile /\ Owns(who, keyfile.owner)

Whole == keyfile.val # 0

\* A key that is missing or cannot be read is made.
ReadKey(s) ==
  /\ job[s].at = "key"
  /\ IF ~ Found(User(job[s].kind)) THEN Go(s, "create")
     ELSE IF ~ Whole THEN NoKey(s)
     ELSE Set(s, [job[s] EXCEPT !.at = AfterKey(job[s].kind), !.key = keyfile.val])
  /\ UNCHANGED <<cfg, keyfile, imported, server, env, count, log>>

\* WriteFile opens the file, which truncates one that is there by now,
CreateKey(s) ==
  LET who == User(job[s].kind)
  IN /\ job[s].at = "create"
     /\ IF keyfile = NoFile \/ Owns(who, keyfile.owner)
        THEN /\ keyfile' = [owner |-> IF keyfile = NoFile THEN Owner(who) ELSE keyfile.owner, val |-> 0]
             /\ log' = [log EXCEPT !.twice = @ \/ \E o \in Busy \ {s} : job[o].at = "create"]
             /\ Go(s, "write")
        ELSE NoKey(s) /\ UNCHANGED <<keyfile, log>>
     /\ UNCHANGED <<cfg, imported, server, env, count>>

\* and writes it; root takes it over.
WriteKey(s) ==
  LET k == count.keys + 1
  IN /\ job[s].at = "write"
     /\ keyfile' = [owner |-> IF User(job[s].kind) = "root" THEN "root" ELSE keyfile.owner, val |-> k]
     /\ count' = [count EXCEPT !.keys = k]
     /\ Set(s, [job[s] EXCEPT !.at = AfterKey(job[s].kind), !.key = k])
     /\ UNCHANGED <<cfg, imported, server, env, log>>

(***************************************************************************)
(* The store: Load, which reads the file again, Save, VerifyIntegrity.     *)
(***************************************************************************)
Open(s) ==
  /\ job[s].at = "open"
  /\ CASE cfg.form = "absent" -> Set(s, [job[s] EXCEPT !.at = "loaded", !.val = Default])
       [] cfg.form = "plain" /\ ReadsConfig(User(job[s].kind)) -> Set(s, [job[s] EXCEPT !.at = "seal", !.val = cfg.val])
       [] cfg.form = "sealed" /\ ReadsConfig(User(job[s].kind)) /\ cfg.key = job[s].key ->
            Set(s, [job[s] EXCEPT !.at = "loaded", !.val = cfg.val])
       [] OTHER -> Fails(s)
  /\ UNCHANGED <<cfg, keyfile, imported, server, env, count, log>>

Sealed(s, c) == [form |-> "sealed", val |-> c, key |-> job[s].key, by |-> User(job[s].kind)]

\* saveEncrypted replaces whatever the file is by now.
Seal(s) ==
  /\ job[s].at = "seal"
  /\ cfg' = Sealed(s, job[s].val)
  /\ log' = [log EXCEPT !.stale = @ \/ cfg.val # job[s].val]
  /\ Go(s, "import")
  /\ UNCHANGED <<keyfile, imported, server, env, count>>

\* The copy for review; an error is ignored.
Import(s) ==
  LET who == User(job[s].kind)
  IN /\ job[s].at = "import"
     /\ imported' = IF imported = NoCopy \/ Owns(who, imported.owner)
                    THEN [owner |-> IF imported = NoCopy THEN Owner(who) ELSE imported.owner, val |-> job[s].val]
                    ELSE imported
     /\ Go(s, "loaded")
     /\ UNCHANGED <<cfg, keyfile, server, env, count, log>>

Save(s) ==
  /\ job[s].at = "save"
  /\ cfg' = Sealed(s, server.mem)
  /\ Set(s, Idle)
  /\ UNCHANGED <<keyfile, imported, server, env, count, log>>

VerifyIntegrity(s) ==
  /\ job[s].at = "verify"
  /\ Set(s, Idle)
  /\ UNCHANGED <<cfg, keyfile, imported, server, env, count, log>>

(***************************************************************************)
(* What follows a load.                                                    *)
(***************************************************************************)
Loaded(s) ==
  LET k == job[s].kind
      c == ApplyEnv(k, job[s].val)
  IN /\ job[s].at = "loaded"
     /\ server' = IF k = "serve" /\ Validate(c) THEN [up |-> TRUE, mem |-> c] ELSE server
     /\ CASE k = "setup" /\ Validate(c) -> Go(s, "ask")
          [] k = "setup" /\ ~ Validate(c) -> Fails(s)
          [] OTHER -> Set(s, Idle)
     /\ UNCHANGED <<cfg, keyfile, imported, env, count, log>>

\* RunSetup: the answers are checked and confirmed,
Answer(s, v) ==
  /\ job[s].at = "ask"
  /\ Set(s, IF v = 2 THEN Idle ELSE [job[s] EXCEPT !.at = "yaml", !.val.fields = v])
  /\ UNCHANGED <<cfg, keyfile, imported, server, env, count, log>>

\* History: a program holds a copy that is older than what is written now.
Held(s) == server.up \/ \E o \in Busy \ {s} : job[o].kind # "doctor"

\* and the fields the wizard knows replace the file, in plaintext; the others
\* are gone.
WriteConfigYAML(s) ==
  /\ job[s].at = "yaml"
  /\ \/ /\ cfg' = [form |-> "plain", val |-> [job[s].val EXCEPT !.rest = 0], key |-> 0, by |-> "root"]
        /\ log' = [log EXCEPT !.wizard = TRUE, !.stale = @ \/ Held(s)]
     \/ UNCHANGED <<cfg, log>>
  /\ Set(s, Idle)
  /\ UNCHANGED <<keyfile, imported, server, env, count>>

(***************************************************************************)
(* The surroundings.                                                       *)
(***************************************************************************)
\* The administrator writes the file by hand, with the installer's mode.
Edit(c) ==
  /\ Counted
  /\ cfg' = [form |-> "plain", val |-> c, key |-> 0, by |-> "install"]
  /\ log' = [log EXCEPT !.rest = c.rest, !.wizard = FALSE, !.stale = @ \/ server.up \/ Busy # {}]
  /\ UNCHANGED <<keyfile, imported, server, env, job>>

\* A program dies, the server with all its handlers; a key may stay short.
Kill(dead) ==
  /\ dead \subseteq Busy /\ count.kills < MaxKills
  /\ count' = [count EXCEPT !.kills = @ + 1]
  /\ job' = [s \in Slots |-> IF s \in dead THEN Idle ELSE job[s]]
  /\ log' = [log EXCEPT !.torn = @ \/ \E s \in dead : job[s].at = "write"]
  /\ UNCHANGED <<cfg, keyfile, imported, env>>

KillServer ==
  /\ Kill({s \in Busy : job[s].kind \in Inside}) /\ server.up
  /\ server' = [server EXCEPT !.up = FALSE]
KillProgram(s) == job[s].kind \notin Inside /\ Kill({s}) /\ UNCHANGED server

\* The service is stopped when no request is open.
Stop ==
  /\ server.up /\ \A s \in Busy : job[s].kind \notin Inside
  /\ server' = [server EXCEPT !.up = FALSE]
  /\ UNCHANGED <<cfg, keyfile, imported, env, job, count, log>>

Work(s) ==
  \/ ReadConfigFile(s) \/ ReadKey(s) \/ CreateKey(s) \/ WriteKey(s)
  \/ Open(s) \/ Seal(s) \/ Import(s) \/ Save(s) \/ VerifyIntegrity(s)
  \/ Loaded(s) \/ WriteConfigYAML(s) \/ \E v \in 0..2 : Answer(s, v)

Next ==
  \/ \E s \in Slots : Work(s) \/ (\E k \in Kinds : Begin(s, k)) \/ (\E v \in 0..2 : Put(s, v)) \/ KillProgram(s)
  \/ \E c \in Content : Edit(c)
  \/ KillServer \/ Stop

Spec == Init /\ [][Next]_vars

(***************************************************************************)
(* Properties.                                                             *)
(***************************************************************************)
\* A load would come to its end, with a key that it can read or make.
KeyFor(who) == keyfile # NoFile /\ Owns(who, keyfile.owner) /\ keyfile.val = cfg.key
Loadable(who) == cfg.form # "absent" => ReadsConfig(who) /\ (cfg.form = "sealed" => KeyFor(who))

TypeOK ==
  /\ cfg \in [form : {"absent", "plain", "sealed"}, val : Content, key : 0..count.keys, by : {"install", "root", "agent", "fyrwall"}]
  /\ (cfg.form = "sealed") = (cfg.key # 0)
  /\ keyfile = NoFile \/ keyfile \in [owner : {"root", "fyrwall"}, val : 0..count.keys]
  /\ imported = NoCopy \/ imported \in [owner : {"root", "fyrwall"}, val : Content]
  /\ server.up \in BOOLEAN /\ server.mem \in Content
  /\ \A s \in Busy : job[s].kind \in Kinds /\ job[s].val \in Content /\ job[s].key \in 0..count.keys

\* secureconfig.go:64: whatever programs are killed on the way, an encrypted
\* configuration can be opened with the key on disk, by somebody who may read
\* all files, unless two programs made keys at once or one died between the two
\* halves of its write.
SealedIsOpenable == TypeOK /\ (~ log.torn /\ ~ log.twice => Loadable("root"))

\* config.go:168: the agent starts before the server and never locks it out;
\* nor does the server itself, as long as no administrator's command has run.
ServerKeepsAccess == ~ log.torn /\ ~ log.twice /\ ~ log.byRoot => Loadable("fyrwall")

\* config.go:372: settings that neither the wizard nor the settings page knows
\* stay what they were written by hand, until the wizard drops them: no other
\* program runs on the defaults in place of a configuration it could not open,
\* and stores them later.
RestIsKept ==
  ~ log.stale /\ ~ log.wizard => cfg.form = "absent" \/ cfg.val.rest \in {log.rest, env.rest}

\* Refuted by TLC (see README).
\* secureconfig.go:48: "the config file 0640 root:fyrwall so the unprivileged
\* service group can read": no sequence of commands locks the server out.
ServerNotLockedOut == ~ log.torn /\ ~ log.twice => Loadable("fyrwall")

\* config.go:168: "reads the same configuration without migrating plaintext":
\* the agent can.
AgentNotLockedOut == ~ log.torn /\ ~ log.twice /\ ~ log.byRoot => Loadable("agent")

\* setup.go:123: "persists the wizard result", which was loaded with all its
\* settings.
WizardKeepsRest == ~ log.stale => cfg.form = "absent" \/ cfg.val.rest \in {log.rest, env.rest}
=============================================================================
