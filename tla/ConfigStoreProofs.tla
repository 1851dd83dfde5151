-------------------------- MODULE ConfigStoreProofs --------------------------
(***************************************************************************)
(* What ConfigStore promises, for any number of programs and request       *)
(* handlers, any environment of the server, and however many programs are  *)
(* started, killed, and configurations edited.  The invariant has one part *)
(* per question: how far each program can be (JobInv), what the key on     *)
(* disk is while it is made and used (KeyInv), who has written what        *)
(* (AccessInv), and what the copies in memory hold (RestInv).              *)
(***************************************************************************)
EXTENDS ConfigStore, FiniteSetTheorems, TLAPS

LoadSteps == {"read", "open", "seal", "import", "loaded"}
KeySteps == {"key", "create", "write"}
KindsAt(at) ==
  CASE at \in LoadSteps -> Loaders
    [] at \in {"ask", "yaml"} -> {"setup"}
    [] at \in KeySteps -> Kinds
    [] at = "save" -> {"put"}
    [] at = "verify" -> {"doctor", "diagnose"}
    [] OTHER -> {"none"}

\* The steps that hold a key.
Keyed == {"open", "seal", "save", "verify"}
Steps == LoadSteps \union KeySteps \union Keyed \union {"ask", "yaml", "idle"}

Job == [kind : Kinds \union {"none"}, at : Steps, val : Content, key : Nat, plain : BOOLEAN]

CfgType ==
  /\ cfg \in [form : {"absent", "plain", "sealed"}, val : Content, key : Nat, by : {"install", "root", "agent", "fyrwall"}]
  /\ (cfg.form = "sealed") = (cfg.key # 0)
KeyType ==
  /\ keyfile \in [owner : {"none", "root", "fyrwall"}, val : Nat]
  /\ keyfile.owner = "none" => keyfile.val = 0
CopyType ==
  /\ imported \in [owner : {"none", "root", "fyrwall"}, val : Content]
  /\ imported.owner = "none" => imported.val = Default
ServerType == server \in [up : BOOLEAN, mem : Content]
EnvType == env \in [fields : 0..2 \union {Unset}, rest : 0..1 \union {Unset}]
JobType == job \in [Slots -> Job]
CountType == count \in [jobs : Nat, kills : Nat, keys : Nat]
LogType == log \in [torn : BOOLEAN, twice : BOOLEAN, byRoot : BOOLEAN, stale : BOOLEAN, wizard : BOOLEAN, rest : 0..1]
TypeInv == CfgType /\ KeyType /\ CopyType /\ ServerType /\ EnvType /\ JobType /\ CountType /\ LogType

\* Keys are numbered as they are made.
NumberInv ==
  /\ cfg.key <= count.keys /\ keyfile.val <= count.keys
  /\ \A s \in Slots : job[s].key <= count.keys

\* Where a program can be, and what it knows there.
Fits(j) ==
  /\ j.kind \in KindsAt(j.at)
  /\ j.kind = "none" => j = Idle
  /\ j.at = "read" => j.val = Default /\ ~ j.plain
  /\ j.kind \notin Loaders => ~ j.plain
  /\ j.at \in Keyed => j.key # 0
JobInv ==
  \A s \in Slots :
    /\ Fits(job[s])
    /\ job[s].at = "write" => keyfile # NoFile
    /\ job[s].kind \in Inside => server.up

\* One program makes the key, and whoever holds a key holds the one on disk.
Calm == ~ log.torn /\ ~ log.twice
KeyFits(j) ==
  /\ j.at = "create" /\ keyfile # NoFile => ~ Owns(User(j.kind), keyfile.owner)
  /\ j.at = "write" => keyfile.val = 0 /\ (User(j.kind) = "root" => keyfile.owner = "root")
  /\ j.at \in Keyed => keyfile # NoFile /\ keyfile.val = j.key
KeyInv ==
  Calm =>
    /\ \A s \in Slots : KeyFits(job[s])
    /\ \A s, o \in Slots : job[s].at = "write" /\ job[o].at = "write" => s = o
    /\ cfg.form = "sealed" => keyfile # NoFile /\ keyfile.val = cfg.key

\* As long as root's commands stay away, only the service's user writes.
Quiet == Calm /\ ~ log.byRoot
AccessFits(j) ==
  /\ j.kind \notin {"command", "setup", "doctor"}
  /\ j.kind = "agent" => j.at \in {"read", "loaded", "key", "create"}
  /\ j.kind = "agent" /\ j.at \in {"key", "create"} => keyfile # NoFile
AccessInv ==
  Quiet =>
    /\ \A s \in Slots : AccessFits(job[s])
    /\ cfg.by # "root"
    /\ keyfile # NoFile => keyfile.owner = "fyrwall"

\* The steps at which a program holds what it has read.
Holds(j) == j.at \in {"loaded", "seal", "import"} \/ (j.plain /\ j.at \in {"key", "create", "write"})

Sure == ~ log.stale /\ ~ log.wizard
Known(c) == c.rest \in {log.rest, env.rest}
RestInv ==
  /\ cfg.form = "absent" => log.rest = 0
  /\ Sure =>
       /\ cfg.form = "absent" \/ Known(cfg.val)
       /\ server.up => Known(server.mem)
       /\ \A s \in Slots : Holds(job[s]) => Known(job[s].val)

\* A new configuration is sealed in the place of one that was there.
SealInv == \A s \in Slots : job[s].at = "seal" => cfg.form # "absent"

IndInv == TypeInv /\ NumberInv /\ JobInv /\ KeyInv /\ AccessInv /\ RestInv /\ SealInv

(***************************************************************************)
(* The shapes of a step: what it does to the program in slot s.            *)
(***************************************************************************)
Moves(s, to, v, k, plain) ==
  /\ job' \in [Slots -> Job]
  /\ \A o \in Slots : o # s => job'[o] = job[o]
  /\ job'[s].kind = job[s].kind /\ job'[s].at = to
  /\ job'[s].val = v /\ job'[s].key = k /\ job'[s].plain = plain
Goes(s, to) == Moves(s, to, job[s].val, job[s].key, job[s].plain)
Ended(s) ==
  /\ job' \in [Slots -> Job]
  /\ \A o \in Slots : o # s => job'[o] = job[o]
  /\ job'[s] = Idle
Failed(s) ==
  \/ job[s].kind = "setup" /\ Moves(s, "ask", Default, job[s].key, job[s].plain)
  \/ job[s].kind # "setup" /\ Ended(s)
Keyless(s) == (job[s].plain /\ Goes(s, "loaded")) \/ (~ job[s].plain /\ Failed(s))

\* The constants of the model have the types that TypeInv states.
LEMMA Constants ==
  Default \in Content /\ Idle \in Job /\ Idle.val = Default /\ Idle.key = 0 /\ ~ Idle.plain /\ Idle.kind = "none" /\ Idle.at = "idle"
<1>1. Default \in Content
  BY DEF Default, Content
<1>2. QED
  BY <1>1 DEF Idle, Job, Steps, LoadSteps, Keyed

\* Setting the job of a slot leaves the others alone.
LEMMA SetMoves ==
  ASSUME TypeInv, NEW s \in Slots, NEW r \in Job, Set(s, r)
  PROVE  /\ job' \in [Slots -> Job] /\ job'[s] = r
         /\ \A o \in Slots : o # s => job'[o] = job[o]
BY DEF Set, TypeInv, JobType

\* The fields that an update does not name stay.
LEMMA SetFields ==
  ASSUME TypeInv, NEW s \in Slots, NEW to \in Steps, NEW v \in Content, NEW k \in Nat, NEW plain \in BOOLEAN
  PROVE  /\ Set(s, [job[s] EXCEPT !.at = to]) => Goes(s, to)
         /\ Set(s, [job[s] EXCEPT !.at = to, !.val = v]) => Moves(s, to, v, job[s].key, job[s].plain)
         /\ Set(s, [job[s] EXCEPT !.at = to, !.key = k]) => Moves(s, to, job[s].val, k, job[s].plain)
         /\ Set(s, [job[s] EXCEPT !.at = to, !.val = v, !.plain = plain]) => Moves(s, to, v, job[s].key, plain)
<1>1. job[s] \in Job
  BY DEF TypeInv, JobType
<1>2. job[s].val \in Content /\ job[s].key \in Nat /\ job[s].plain \in BOOLEAN
  BY <1>1 DEF Job
<1>3. /\ [job[s] EXCEPT !.at = to] = [job[s] EXCEPT !.at = to, !.val = job[s].val, !.key = job[s].key, !.plain = job[s].plain]
      /\ [job[s] EXCEPT !.at = to, !.val = v] = [job[s] EXCEPT !.at = to, !.val = v, !.key = job[s].key, !.plain = job[s].plain]
      /\ [job[s] EXCEPT !.at = to, !.key = k] = [job[s] EXCEPT !.at = to, !.val = job[s].val, !.key = k, !.plain = job[s].plain]
      /\ [job[s] EXCEPT !.at = to, !.val = v, !.plain = plain] = [job[s] EXCEPT !.at = to, !.val = v, !.key = job[s].key, !.plain = plain]
  BY <1>1 DEF Job
<1>4. ASSUME NEW w \in Content, NEW n \in Nat, NEW b \in BOOLEAN,
             Set(s, [job[s] EXCEPT !.at = to, !.val = w, !.key = n, !.plain = b])
      PROVE  Moves(s, to, w, n, b)
  <2> DEFINE r == [job[s] EXCEPT !.at = to, !.val = w, !.key = n, !.plain = b]
  <2>1. r \in Job /\ r.kind = job[s].kind /\ r.at = to /\ r.val = w /\ r.key = n /\ r.plain = b
    <3>1. r \in Job
      BY <1>1 DEF Job
    <3>2. r.at = to /\ r.kind = job[s].kind
      BY <1>1 DEF Job
    <3>3. r.val = w
      BY <1>1 DEF Job
    <3>4. r.key = n
      BY <1>1 DEF Job
    <3>5. r.plain = b
      BY <1>1 DEF Job
    <3>6. QED
      BY <3>1, <3>2, <3>3, <3>4, <3>5
  <2>2. Set(s, r)
    BY <1>4
  <2> HIDE DEF r
  <2>3. QED
    BY <2>1, <2>2, SetMoves DEF Moves
<1>5. ASSUME Set(s, [job[s] EXCEPT !.at = to]) PROVE Goes(s, to)
  <2>1. Set(s, [job[s] EXCEPT !.at = to, !.val = job[s].val, !.key = job[s].key, !.plain = job[s].plain])
    BY <1>5, <1>3 DEF Set
  <2>2. QED
    BY <2>1, <1>2, <1>4 DEF Goes
<1>6. ASSUME Set(s, [job[s] EXCEPT !.at = to, !.val = v]) PROVE Moves(s, to, v, job[s].key, job[s].plain)
  <2>1. Set(s, [job[s] EXCEPT !.at = to, !.val = v, !.key = job[s].key, !.plain = job[s].plain])
    BY <1>6, <1>3 DEF Set
  <2>2. QED
    BY <2>1, <1>2, <1>4 DEF Goes
<1>7. ASSUME Set(s, [job[s] EXCEPT !.at = to, !.key = k]) PROVE Moves(s, to, job[s].val, k, job[s].plain)
  <2>1. Set(s, [job[s] EXCEPT !.at = to, !.val = job[s].val, !.key = k, !.plain = job[s].plain])
    BY <1>7, <1>3 DEF Set
  <2>2. QED
    BY <2>1, <1>2, <1>4 DEF Goes
<1>8. ASSUME Set(s, [job[s] EXCEPT !.at = to, !.val = v, !.plain = plain]) PROVE Moves(s, to, v, job[s].key, plain)
  <2>1. Set(s, [job[s] EXCEPT !.at = to, !.val = v, !.key = job[s].key, !.plain = plain])
    BY <1>8, <1>3 DEF Set
  <2>2. QED
    BY <2>1, <1>2, <1>4 DEF Goes
<1>9. QED
  BY <1>5, <1>6, <1>7, <1>8

ReadMoves(s) ==
  /\ job[s].at = "read"
  /\ \/ Failed(s)
     \/ cfg.form = "absent" /\ Goes(s, "loaded")
     \/ cfg.form = "sealed" /\ Goes(s, "key")
     \/ /\ cfg.form = "plain"
        /\ \/ Moves(s, "loaded", cfg.val, job[s].key, TRUE)
           \/ job[s].kind # "agent" /\ Moves(s, "key", cfg.val, job[s].key, TRUE)
KeyMoves(s) ==
  /\ job[s].at = "key"
  /\ \/ ~ Found(User(job[s].kind)) /\ Goes(s, "create")
     \/ Found(User(job[s].kind)) /\ keyfile.val = 0 /\ Keyless(s)
     \/ /\ Found(User(job[s].kind)) /\ keyfile.val # 0
        /\ Moves(s, AfterKey(job[s].kind), job[s].val, keyfile.val, job[s].plain)
Creates(s) == keyfile = NoFile \/ Owns(User(job[s].kind), keyfile.owner)
CreateMoves(s) ==
  /\ job[s].at = "create"
  /\ \/ Creates(s) /\ Goes(s, "write")
     \/ ~ Creates(s) /\ Keyless(s) /\ UNCHANGED <<keyfile, log>>
WriteMoves(s) ==
  /\ job[s].at = "write"
  /\ Moves(s, AfterKey(job[s].kind), job[s].val, count.keys + 1, job[s].plain)
OpenMoves(s) ==
  /\ job[s].at = "open"
  /\ \/ Failed(s)
     \/ cfg.form = "absent" /\ Moves(s, "loaded", Default, job[s].key, job[s].plain)
     \/ cfg.form = "plain" /\ Moves(s, "seal", cfg.val, job[s].key, job[s].plain) /\ ReadsConfig(User(job[s].kind))
     \/ cfg.form = "sealed" /\ Moves(s, "loaded", cfg.val, job[s].key, job[s].plain)
LoadedMoves(s) ==
  /\ job[s].at = "loaded"
  /\ \/ job[s].kind = "setup" /\ Goes(s, "ask")
     \/ Failed(s)
AnswerMoves(s) ==
  /\ job[s].at = "ask"
  /\ Ended(s) \/ \E c \in Content : Moves(s, "yaml", c, job[s].key, job[s].plain)
Starts(s, kind, at) ==
  /\ job[s] = Idle /\ job' \in [Slots -> Job]
  /\ \A o \in Slots : o # s => job'[o] = job[o]
  /\ job'[s].kind = kind /\ job'[s].at = at
  /\ job'[s].val = Default /\ job'[s].key = 0 /\ ~ job'[s].plain
Dies == job' \in [Slots -> Job] /\ \A o \in Slots : job'[o] \in {job[o], Idle}

\* Going on to another step changes nothing else.
LEMMA GoMoves ==
  ASSUME TypeInv, NEW s \in Slots, NEW to \in Steps
  PROVE  Go(s, to) => Goes(s, to)
<1>1. job[s].val \in Content /\ job[s].key \in Nat /\ job[s].plain \in BOOLEAN
  BY DEF TypeInv, JobType, Job
<1>2. QED
  BY <1>1, SetFields DEF Go

\* Where a failed load, a missing key and the end of a program lead.
LEMMA Ends ==
  ASSUME TypeInv, NEW s \in Slots
  PROVE  /\ Set(s, Idle) => Ended(s)
         /\ Fails(s) => Failed(s)
         /\ NoKey(s) => Keyless(s)
<1>1. Set(s, Idle) => Ended(s)
  BY Constants, SetMoves DEF Ended
<1>2. Fails(s) => Failed(s)
  BY <1>1, Constants, SetFields DEF Fails, Failed, Steps
<1>3. NoKey(s) => Keyless(s)
  BY <1>2, GoMoves DEF NoKey, Keyless, Steps, LoadSteps, KeySteps
<1>4. QED
  BY <1>1, <1>2, <1>3

\* The next key has a number.
LEMMA Counts ==
  ASSUME TypeInv
  PROVE  count.keys \in Nat /\ count.keys + 1 \in Nat /\ count.keys <= count.keys + 1
<1>1. count.keys \in Nat
  BY DEF TypeInv, CountType
<1>2. QED
  BY <1>1

\* What each step does to the program that takes it.
LEMMA WorkMoves ==
  ASSUME TypeInv, NEW s \in Slots
  PROVE  /\ ReadConfigFile(s) => ReadMoves(s)
         /\ ReadKey(s) => KeyMoves(s)
         /\ CreateKey(s) => CreateMoves(s)
         /\ WriteKey(s) => WriteMoves(s)
         /\ Open(s) => OpenMoves(s)
         /\ Seal(s) => job[s].at = "seal" /\ Goes(s, "import")
         /\ Import(s) => job[s].at = "import" /\ Goes(s, "loaded")
         /\ Save(s) => job[s].at = "save" /\ Ended(s)
         /\ VerifyIntegrity(s) => job[s].at = "verify" /\ Ended(s)
         /\ Loaded(s) => LoadedMoves(s)
         /\ WriteConfigYAML(s) => job[s].at = "yaml" /\ Ended(s)
         /\ \A v \in 0..2 : Answer(s, v) => AnswerMoves(s)
<1> USE Constants, Ends, SetFields
<1>0. /\ job[s] \in Job /\ cfg.val \in Content /\ keyfile.val \in Nat /\ count.keys + 1 \in Nat
      /\ AfterKey(job[s].kind) \in Steps /\ \A to \in Steps : Go(s, to) => Goes(s, to)
      /\ {"loaded", "key", "create", "write", "seal", "import", "ask", "yaml"} \subseteq Steps
  <2>1. job[s] \in Job /\ cfg.val \in Content
    BY DEF TypeInv, JobType, CfgType
  <2>2. keyfile.val \in Nat
    BY DEF TypeInv, KeyType
  <2>3. count.keys + 1 \in Nat
    BY Counts
  <2>4. AfterKey(job[s].kind) \in Steps
    BY DEF AfterKey, Steps, LoadSteps, KeySteps, Keyed
  <2>5. {"loaded", "key", "create", "write", "seal", "import", "ask", "yaml"} \subseteq Steps
    BY DEF Steps, LoadSteps, KeySteps, Keyed
  <2>6. QED
    BY <2>1, <2>2, <2>3, <2>4, <2>5, GoMoves
<1>1. ReadConfigFile(s) => ReadMoves(s)
  BY <1>0 DEF ReadConfigFile, ReadMoves, TypeInv, CfgType, Migrates
<1>2. ReadKey(s) => KeyMoves(s)
  BY <1>0 DEF ReadKey, KeyMoves, TypeInv, KeyType, Whole
<1>3. CreateKey(s) => CreateMoves(s)
  BY <1>0 DEF CreateKey, CreateMoves, Creates
<1>4. WriteKey(s) => WriteMoves(s)
  BY <1>0 DEF WriteKey, WriteMoves
<1>5. Open(s) => OpenMoves(s)
  BY <1>0 DEF Open, OpenMoves, TypeInv, CfgType
<1>6. Seal(s) => job[s].at = "seal" /\ Goes(s, "import")
  BY <1>0 DEF Seal
<1>7. Import(s) => job[s].at = "import" /\ Goes(s, "loaded")
  BY <1>0 DEF Import
<1>8. Save(s) => job[s].at = "save" /\ Ended(s)
  BY <1>0 DEF Save
<1>9. VerifyIntegrity(s) => job[s].at = "verify" /\ Ended(s)
  BY <1>0 DEF VerifyIntegrity
<1>10. Loaded(s) => LoadedMoves(s)
  BY <1>0 DEF Loaded, LoadedMoves, Failed
<1>11. WriteConfigYAML(s) => job[s].at = "yaml" /\ Ended(s)
  BY <1>0 DEF WriteConfigYAML
<1>12. ASSUME NEW v \in 0..2, Answer(s, v) PROVE AnswerMoves(s)
  <2>1. CASE v = 2
    BY <1>12, <2>1 DEF Answer, AnswerMoves
  <2>2. CASE v # 2
    <3> DEFINE c == [job[s].val EXCEPT !.fields = v]
    <3>1. c \in Content
      BY <1>0 DEF Job, Content
    <3>2. [job[s] EXCEPT !.at = "yaml", !.val.fields = v] = [job[s] EXCEPT !.at = "yaml", !.val = c]
      BY <1>0 DEF Job
    <3>3. Set(s, [job[s] EXCEPT !.at = "yaml", !.val = c])
      BY <1>12, <2>2, <3>2 DEF Answer
    <3> HIDE DEF c
    <3>4. QED
      BY <1>0, <1>12, <3>1, <3>3 DEF Answer, AnswerMoves
  <2>3. QED
    BY <2>1, <2>2
<1>13. QED
  BY <1>1, <1>2, <1>3, <1>4, <1>5, <1>6, <1>7, <1>8, <1>9, <1>10, <1>11, <1>12

\* Programs start at their first step.
LEMMA StartMoves ==
  ASSUME TypeInv, NEW s \in Slots
  PROVE  /\ \A k \in Kinds : Begin(s, k) => Starts(s, k, IF k \in Loaders THEN "read" ELSE "key")
         /\ \A v \in 0..2 : Put(s, v) => UNCHANGED job \/ Starts(s, "put", "key")
<1>1. ASSUME NEW k \in Kinds, NEW at \in Steps, job[s] = Idle, Set(s, [Idle EXCEPT !.kind = k, !.at = at])
      PROVE  Starts(s, k, at)
  <2> DEFINE r == [Idle EXCEPT !.kind = k, !.at = at]
  <2>1. r \in Job
    BY Constants DEF Job
  <2>2. r.kind = k /\ r.at = at
    BY Constants DEF Job
  <2>3. r.val = Default /\ r.key = 0 /\ ~ r.plain
    <3>1. r.val = Idle.val
      BY Constants DEF Job
    <3>2. r.key = Idle.key
      BY Constants DEF Job
    <3>3. r.plain = Idle.plain
      BY Constants DEF Job
    <3>4. QED
      BY <3>1, <3>2, <3>3, Constants
  <2>4. Set(s, r)
    BY <1>1
  <2> HIDE DEF r
  <2>5. QED
    BY <1>1, <2>1, <2>2, <2>3, <2>4, SetMoves DEF Starts
<1>2. ASSUME NEW k \in Kinds, Begin(s, k) PROVE Starts(s, k, IF k \in Loaders THEN "read" ELSE "key")
  BY <1>1, <1>2 DEF Begin, Steps, LoadSteps, KeySteps
<1>3. ASSUME NEW v \in 0..2, Put(s, v) PROVE UNCHANGED job \/ Starts(s, "put", "key")
  <2>1. "put" \in Kinds /\ "key" \in Steps
    BY DEF Kinds, Inside, Steps, LoadSteps, KeySteps
  <2>2. QED
    BY <1>1, <1>3, <2>1 DEF Put
<1>4. QED
  BY <1>2, <1>3

\* They die where they are.
LEMMA KillMoves ==
  ASSUME TypeInv, NEW dead, Kill(dead)
  PROVE  Dies
BY Constants DEF Kill, Dies, TypeInv, JobType

\* Some of the shapes keep the type of the jobs.
LEMMA JobTyped ==
  ASSUME TypeInv, NEW s \in Slots
  PROVE  /\ Ended(s) => JobType'
         /\ Failed(s) => JobType'
         /\ Keyless(s) => JobType'
         /\ \A to, v, k, plain : Moves(s, to, v, k, plain) => JobType'
BY DEF Ended, Failed, Keyless, Moves, Goes, JobType

\* What a step does not touch keeps its type.
LEMMA Kept ==
  ASSUME TypeInv
  PROVE  /\ cfg' = cfg => CfgType'
         /\ keyfile' = keyfile => KeyType'
         /\ imported' = imported => CopyType'
         /\ server' = server => ServerType'
         /\ env' = env => EnvType'
         /\ job' = job => JobType'
         /\ count' = count => CountType'
         /\ log' = log => LogType'
BY DEF TypeInv, CfgType, KeyType, CopyType, ServerType, EnvType, JobType, CountType, LogType

\* Whoever writes the configuration with a key that it has made or read.
LEMMA SealedTyped ==
  ASSUME TypeInv, NEW s \in Slots, NEW c \in Content, job[s].key # 0, cfg' = Sealed(s, c)
  PROVE  CfgType'
<1>1. job[s].key \in Nat
  BY DEF TypeInv, JobType, Job
<1>2. User(job[s].kind) \in {"root", "agent", "fyrwall"}
  BY DEF User
<1>3. QED
  BY <1>1, <1>2 DEF Sealed, CfgType

\* One more job or crash.
LEMMA CountTyped ==
  ASSUME TypeInv
  PROVE  /\ Counted => CountType'
         /\ count' = [count EXCEPT !.kills = @ + 1] => CountType'
         /\ \A k \in Nat : count' = [count EXCEPT !.keys = k] => CountType'
BY DEF TypeInv, CountType, Counted

\* A key file has an owner.
LEMMA Made ==
  ASSUME TypeInv
  PROVE  keyfile # NoFile <=> keyfile.owner # "none"
BY DEF TypeInv, KeyType, NoFile

\* The environment only puts values of its own in place of others.
LEMMA Applied ==
  ASSUME TypeInv, NEW s \in Slots
  PROVE  LET c == ApplyEnv(job[s].kind, job[s].val)
         IN  /\ c \in Content
             /\ c.rest \in {job[s].val.rest, env.rest}
<1>1. job[s].val \in Content
  BY DEF TypeInv, JobType, Job
<1>2. env.fields = Unset \/ env.fields \in 0..2
  BY DEF TypeInv, EnvType
<1>3. env.rest = Unset \/ env.rest \in 0..1
  BY DEF TypeInv, EnvType
<1>4. QED
  BY <1>1, <1>2, <1>3 DEF ApplyEnv, Content

\* The types are kept.
LEMMA TypeStep ==
  ASSUME IndInv, Next
  PROVE  TypeInv'
<1>1. ASSUME NEW s \in Slots, ReadConfigFile(s) PROVE TypeInv'
  <2>1. JobType'
    BY <1>1, WorkMoves, JobTyped DEF IndInv, ReadMoves, Goes
  <2>2. QED
    BY <1>1, <2>1, Kept DEF ReadConfigFile, IndInv, TypeInv
<1>2. ASSUME NEW s \in Slots, ReadKey(s) PROVE TypeInv'
  <2>1. JobType'
    BY <1>2, WorkMoves, JobTyped DEF IndInv, KeyMoves, Goes
  <2>2. QED
    BY <1>2, <2>1, Kept DEF ReadKey, IndInv, TypeInv
<1>3. ASSUME NEW s \in Slots, CreateKey(s) PROVE TypeInv'
  <2>1. JobType'
    BY <1>3, WorkMoves, JobTyped DEF IndInv, CreateMoves, Goes
  <2>2. KeyType'
    BY <1>3, WorkMoves, Kept DEF IndInv, TypeInv, KeyType, CreateKey, CreateMoves, User, Owner
  <2>3. LogType'
    <3> DEFINE b0 == log.twice \/ \E o \in Busy \ {s} : job[o].at = "create"
    <3>1. log' = [log EXCEPT !.twice = b0] \/ log' = log
      BY <1>3, WorkMoves DEF CreateKey, CreateMoves, IndInv
    <3>2. b0 \in BOOLEAN
      BY DEF IndInv, TypeInv, LogType
    <3> HIDE DEF b0
    <3>3. QED
      BY <3>1, <3>2, Kept DEF IndInv, TypeInv, LogType
  <2>4. QED
    BY <1>3, <2>1, <2>2, <2>3, Kept DEF IndInv, TypeInv, CreateKey
<1>4. ASSUME NEW s \in Slots, WriteKey(s) PROVE TypeInv'
  <2>1. JobType'
    BY <1>4, WorkMoves, JobTyped DEF IndInv, WriteMoves, Goes
  <2>2. KeyType'
    <3>1. keyfile.owner # "none"
      BY <1>4, Made DEF IndInv, JobInv, WriteKey
    <3>2. QED
      BY <1>4, <3>1, Counts DEF IndInv, TypeInv, KeyType, WriteKey, User
  <2>3. CountType'
    BY <1>4, Counts, CountTyped DEF IndInv, WriteKey
  <2>4. QED
    BY <1>4, <2>1, <2>2, <2>3, Kept DEF IndInv, TypeInv, WriteKey
<1>5. ASSUME NEW s \in Slots, Open(s) PROVE TypeInv'
  <2>1. JobType'
    BY <1>5, WorkMoves, JobTyped DEF IndInv, OpenMoves, Goes
  <2>2. QED
    BY <1>5, <2>1, Kept DEF Open, IndInv, TypeInv
<1>6. ASSUME NEW s \in Slots, Seal(s) PROVE TypeInv'
  <2>1. JobType'
    BY <1>6, WorkMoves, JobTyped DEF IndInv, Goes
  <2>2. CfgType'
    <3>1. job[s].val \in Content /\ job[s].key # 0
      BY <1>6, WorkMoves DEF IndInv, TypeInv, JobType, Job, JobInv, Fits, Keyed
    <3>2. QED
      BY <1>6, <3>1, SealedTyped DEF IndInv, Seal
  <2>3. LogType'
    <3> DEFINE b0 == log.stale \/ cfg.val # job[s].val
    <3>1. log' = [log EXCEPT !.stale = b0] \/ log' = log
      BY <1>6, WorkMoves DEF Seal, IndInv
    <3>2. b0 \in BOOLEAN
      BY DEF IndInv, TypeInv, LogType
    <3> HIDE DEF b0
    <3>3. QED
      BY <3>1, <3>2, Kept DEF IndInv, TypeInv, LogType
  <2>4. QED
    BY <1>6, <2>1, <2>2, <2>3, Kept DEF IndInv, TypeInv, Seal
<1>7. ASSUME NEW s \in Slots, Import(s) PROVE TypeInv'
  <2>1. JobType'
    BY <1>7, WorkMoves, JobTyped DEF IndInv, Goes
  <2>2. CopyType'
    <3>1. job[s].val \in Content
      BY DEF IndInv, TypeInv, JobType, Job
    <3>2. imported # NoCopy => imported.owner # "none"
      BY DEF IndInv, TypeInv, CopyType, NoCopy
    <3>3. QED
      BY <1>7, <3>1, <3>2, Kept DEF IndInv, TypeInv, CopyType, Import, User, Owner
  <2>3. QED
    BY <1>7, <2>1, <2>2, Kept DEF IndInv, TypeInv, Import
<1>8. ASSUME NEW s \in Slots, Save(s) PROVE TypeInv'
  <2>1. JobType'
    BY <1>8, WorkMoves, JobTyped DEF IndInv, Goes
  <2>2. CfgType'
    <3>1. server.mem \in Content /\ job[s].key # 0
      BY <1>8, WorkMoves DEF IndInv, TypeInv, ServerType, JobInv, Fits, Keyed
    <3>2. QED
      BY <1>8, <3>1, SealedTyped DEF IndInv, Save
  <2>3. QED
    BY <1>8, <2>1, <2>2, Kept DEF IndInv, TypeInv, Save
<1>9. ASSUME NEW s \in Slots, VerifyIntegrity(s) PROVE TypeInv'
  <2>1. JobType'
    BY <1>9, WorkMoves, JobTyped DEF IndInv, Goes
  <2>2. QED
    BY <1>9, <2>1, Kept DEF VerifyIntegrity, IndInv, TypeInv
<1>10. ASSUME NEW s \in Slots, Loaded(s) PROVE TypeInv'
  <2>1. JobType'
    BY <1>10, WorkMoves, JobTyped DEF IndInv, LoadedMoves, Goes
  <2>2. ServerType'
    BY <1>10, Applied, Kept DEF IndInv, TypeInv, ServerType, Loaded
  <2>3. QED
    BY <1>10, <2>1, <2>2, Kept DEF IndInv, TypeInv, Loaded
<1>11. ASSUME NEW s \in Slots, WriteConfigYAML(s) PROVE TypeInv'
  <2>1. JobType'
    BY <1>11, WorkMoves, JobTyped DEF IndInv, Goes
  <2>2. CfgType'
    <3> DEFINE c == [job[s].val EXCEPT !.rest = 0]
    <3>1. c \in Content
      BY DEF IndInv, TypeInv, JobType, Job, Content
    <3>2. cfg' = [form |-> "plain", val |-> c, key |-> 0, by |-> "root"] \/ cfg' = cfg
      BY <1>11 DEF WriteConfigYAML
    <3> HIDE DEF c
    <3>3. QED
      BY <3>1, <3>2, Kept DEF IndInv, TypeInv, CfgType
  <2>3. LogType'
    <3> DEFINE b == log.stale \/ Held(s)
    <3>1. log' = [log EXCEPT !.wizard = TRUE, !.stale = b] \/ log' = log
      BY <1>11 DEF WriteConfigYAML
    <3>2. b \in BOOLEAN
      BY DEF IndInv, TypeInv, LogType
    <3> HIDE DEF b
    <3>3. QED
      BY <3>1, <3>2, Kept DEF IndInv, TypeInv, LogType
  <2>4. QED
    BY <1>11, <2>1, <2>2, <2>3, Kept DEF IndInv, TypeInv, WriteConfigYAML
<1>12. ASSUME NEW s \in Slots, NEW v \in 0..2, Answer(s, v) PROVE TypeInv'
  <2>1. JobType'
    BY <1>12, WorkMoves, JobTyped DEF IndInv, AnswerMoves
  <2>2. QED
    BY <1>12, <2>1, Kept DEF Answer, IndInv, TypeInv
<1>13. ASSUME NEW s \in Slots, NEW k \in Kinds, Begin(s, k) PROVE TypeInv'
  <2>1. JobType'
    BY <1>13, StartMoves DEF IndInv, Starts, JobType
  <2>2. CountType'
    BY <1>13, CountTyped DEF IndInv, Begin
  <2>3. LogType'
    BY <1>13, Kept DEF IndInv, TypeInv, LogType, Begin
  <2>4. QED
    BY <1>13, <2>1, <2>2, <2>3, Kept DEF Begin, IndInv, TypeInv
<1>14. ASSUME NEW s \in Slots, NEW v \in 0..2, Put(s, v) PROVE TypeInv'
  <2>1. JobType'
    BY <1>14, StartMoves, Kept DEF IndInv, Starts, JobType
  <2>2. CountType'
    BY <1>14, CountTyped DEF IndInv, Put
  <2>3. ServerType'
    <3> DEFINE c == [server.mem EXCEPT !.fields = v]
    <3>1. c \in Content
      BY DEF IndInv, TypeInv, ServerType, Content
    <3>2. server' = [server EXCEPT !.mem = c]
      BY <1>14 DEF Put, IndInv, TypeInv, ServerType
    <3> HIDE DEF c
    <3>3. QED
      BY <3>1, <3>2 DEF IndInv, TypeInv, ServerType
  <2>4. QED
    BY <1>14, <2>1, <2>2, <2>3, Kept DEF Put, IndInv, TypeInv
<1>15. ASSUME NEW s \in Slots, KillProgram(s) PROVE TypeInv'
  <2>1. PICK dead \in SUBSET Busy : Kill(dead)
    BY <1>15 DEF KillProgram, Kill
  <2>2. JobType'
    BY <2>1, KillMoves DEF IndInv, Dies, JobType
  <2>3. CountType'
    BY <2>1, CountTyped DEF IndInv, Kill
  <2>4. LogType'
    <3> DEFINE b == log.torn \/ \E o \in dead : job[o].at = "write"
    <3>1. log' = [log EXCEPT !.torn = b]
      BY <2>1 DEF Kill
    <3>2. b \in BOOLEAN
      BY DEF IndInv, TypeInv, LogType
    <3> HIDE DEF b
    <3>3. QED
      BY <3>1, <3>2 DEF IndInv, TypeInv, LogType
  <2>5. QED
    BY <1>15, <2>1, <2>2, <2>3, <2>4, Kept DEF KillProgram, Kill, IndInv, TypeInv
<1>16. ASSUME NEW c \in Content, Edit(c) PROVE TypeInv'
  <2>1. CfgType'
    BY <1>16 DEF Edit, CfgType
  <2>2. CountType'
    BY <1>16, CountTyped DEF IndInv, Edit
  <2>3. LogType'
    <3> DEFINE b == log.stale \/ server.up \/ Busy # {}
    <3>1. log' = [log EXCEPT !.rest = c.rest, !.wizard = FALSE, !.stale = b]
      BY <1>16 DEF Edit
    <3>2. b \in BOOLEAN /\ c.rest \in 0..1
      BY DEF IndInv, TypeInv, LogType, ServerType, Content
    <3> HIDE DEF b
    <3>3. QED
      BY <3>1, <3>2 DEF IndInv, TypeInv, LogType
  <2>4. QED
    BY <1>16, <2>1, <2>2, <2>3, Kept DEF Edit, IndInv, TypeInv
<1>17. CASE KillServer
  <2>1. PICK dead \in SUBSET Busy : Kill(dead)
    BY <1>17 DEF KillServer, Kill
  <2>2. JobType'
    BY <2>1, KillMoves DEF IndInv, Dies, JobType
  <2>3. CountType'
    BY <2>1, CountTyped DEF IndInv, Kill
  <2>4. LogType'
    <3> DEFINE b == log.torn \/ \E o \in dead : job[o].at = "write"
    <3>1. log' = [log EXCEPT !.torn = b]
      BY <2>1 DEF Kill
    <3>2. b \in BOOLEAN
      BY DEF IndInv, TypeInv, LogType
    <3> HIDE DEF b
    <3>3. QED
      BY <3>1, <3>2 DEF IndInv, TypeInv, LogType
  <2>5. ServerType'
    BY <1>17 DEF KillServer, IndInv, TypeInv, ServerType
  <2>6. QED
    BY <1>17, <2>1, <2>2, <2>3, <2>4, <2>5, Kept DEF Kill, IndInv, TypeInv
<1>18. CASE Stop
  <2>1. ServerType'
    BY <1>18 DEF Stop, IndInv, TypeInv, ServerType
  <2>2. QED
    BY <1>18, <2>1, Kept DEF Stop, IndInv, TypeInv
<1>19. QED
  BY <1>1, <1>2, <1>3, <1>4, <1>5, <1>6, <1>7, <1>8, <1>9, <1>10, <1>11, <1>12, <1>13, <1>14, <1>15, <1>16,
     <1>17, <1>18 DEF Next, Work

\* The numbers that are compared.
LEMMA Keys ==
  ASSUME TypeInv
  PROVE  /\ cfg.key \in Nat /\ keyfile.val \in Nat /\ count.keys \in Nat
         /\ \A s \in Slots : job[s].key \in Nat
BY DEF TypeInv, CfgType, KeyType, CountType, JobType, Job

\* A step that uses only numbers given out, and perhaps gives out the next.
LEMMA NumberKept ==
  ASSUME IndInv,
         count'.keys \in {count.keys, count.keys + 1},
         cfg'.key \in {0, cfg.key} \union {job[o].key : o \in Slots},
         keyfile'.val \in {0, keyfile.val, count'.keys},
         \A o \in Slots : job'[o].key \in {0, job[o].key, keyfile.val, count'.keys}
  PROVE  NumberInv'
<1>1. count.keys <= count'.keys /\ count'.keys \in Nat
  BY Keys DEF IndInv
<1>2. cfg'.key <= count'.keys
  BY <1>1, Keys DEF IndInv, NumberInv
<1>3. keyfile'.val <= count'.keys
  BY <1>1, Keys DEF IndInv, NumberInv
<1>4. \A o \in Slots : job'[o].key <= count'.keys
  BY <1>1, Keys DEF IndInv, NumberInv
<1>5. QED
  BY <1>2, <1>3, <1>4 DEF NumberInv

\* The keys that the programs hold after a step of one of them.
LEMMA KeysMove ==
  ASSUME TypeInv, NEW s \in Slots, Work(s) \/ Dies \/ (\E k, at : Starts(s, k, at))
  PROVE  \A o \in Slots : job'[o].key \in {0, job[o].key, keyfile.val} \/ (job[s].at = "write" /\ job'[o].key = count.keys + 1)
<1> DEFINE Old == \A o \in Slots : job'[o].key \in {0, job[o].key, keyfile.val} \/ (job[s].at = "write" /\ job'[o].key = count.keys + 1)
<1>1. /\ Ended(s) => Old
      /\ \A to, v, plain : /\ Moves(s, to, v, job[s].key, plain) => Old
                           /\ Moves(s, to, v, keyfile.val, plain) => Old
                           /\ job[s].at = "write" /\ Moves(s, to, v, count.keys + 1, plain) => Old
  BY Constants DEF Ended, Moves, Goes
<1>2. \A to : Goes(s, to) => Old
  BY <1>1 DEF Goes
<1>3. (Failed(s) => Old) /\ (Keyless(s) => Old)
  BY <1>1, <1>2 DEF Failed, Keyless
<1>4. (\E k, at : Starts(s, k, at)) \/ Dies => Old
  BY Constants DEF Starts, Dies
<1> HIDE DEF Old
<1>5. Work(s) => Old
  BY <1>1, <1>2, <1>3, WorkMoves DEF Work, ReadMoves, KeyMoves, CreateMoves, WriteMoves, OpenMoves, LoadedMoves, AnswerMoves
<1>6. QED
  BY <1>4, <1>5 DEF Old

\* No key has a number that was not given out.
LEMMA NumberStep ==
  ASSUME IndInv, Next
  PROVE  NumberInv'
<1>1. ASSUME NEW s \in Slots, ReadConfigFile(s) PROVE NumberInv'
  <2>1. \A o \in Slots : job'[o].key \in {0, job[o].key, keyfile.val} \/ (job[s].at = "write" /\ job'[o].key = count.keys + 1)
    BY <1>1, KeysMove DEF IndInv, Work
  <2>2. QED
    BY <1>1, <2>1, NumberKept DEF IndInv, ReadConfigFile, Sealed
<1>2. ASSUME NEW s \in Slots, ReadKey(s) PROVE NumberInv'
  <2>1. \A o \in Slots : job'[o].key \in {0, job[o].key, keyfile.val} \/ (job[s].at = "write" /\ job'[o].key = count.keys + 1)
    BY <1>2, KeysMove DEF IndInv, Work
  <2>2. QED
    BY <1>2, <2>1, NumberKept DEF IndInv, ReadKey, Sealed
<1>3. ASSUME NEW s \in Slots, CreateKey(s) PROVE NumberInv'
  <2>1. \A o \in Slots : job'[o].key \in {0, job[o].key, keyfile.val} \/ (job[s].at = "write" /\ job'[o].key = count.keys + 1)
    BY <1>3, KeysMove DEF IndInv, Work
  <2>2. QED
    BY <1>3, <2>1, NumberKept DEF IndInv, CreateKey, Sealed
<1>4. ASSUME NEW s \in Slots, WriteKey(s) PROVE NumberInv'
  <2>1. \A o \in Slots : job'[o].key \in {0, job[o].key, keyfile.val} \/ (job[s].at = "write" /\ job'[o].key = count.keys + 1)
    BY <1>4, KeysMove DEF IndInv, Work
  <2>2. QED
    BY <1>4, <2>1, NumberKept DEF IndInv, WriteKey, Sealed
<1>5. ASSUME NEW s \in Slots, Open(s) PROVE NumberInv'
  <2>1. \A o \in Slots : job'[o].key \in {0, job[o].key, keyfile.val} \/ (job[s].at = "write" /\ job'[o].key = count.keys + 1)
    BY <1>5, KeysMove DEF IndInv, Work
  <2>2. QED
    BY <1>5, <2>1, NumberKept DEF IndInv, Open, Sealed
<1>6. ASSUME NEW s \in Slots, Seal(s) PROVE NumberInv'
  <2>1. \A o \in Slots : job'[o].key \in {0, job[o].key, keyfile.val} \/ (job[s].at = "write" /\ job'[o].key = count.keys + 1)
    BY <1>6, KeysMove DEF IndInv, Work
  <2>2. QED
    BY <1>6, <2>1, NumberKept DEF IndInv, Seal, Sealed
<1>7. ASSUME NEW s \in Slots, Import(s) PROVE NumberInv'
  <2>1. \A o \in Slots : job'[o].key \in {0, job[o].key, keyfile.val} \/ (job[s].at = "write" /\ job'[o].key = count.keys + 1)
    BY <1>7, KeysMove DEF IndInv, Work
  <2>2. QED
    BY <1>7, <2>1, NumberKept DEF IndInv, Import, Sealed
<1>8. ASSUME NEW s \in Slots, Save(s) PROVE NumberInv'
  <2>1. \A o \in Slots : job'[o].key \in {0, job[o].key, keyfile.val} \/ (job[s].at = "write" /\ job'[o].key = count.keys + 1)
    BY <1>8, KeysMove DEF IndInv, Work
  <2>2. QED
    BY <1>8, <2>1, NumberKept DEF IndInv, Save, Sealed
<1>9. ASSUME NEW s \in Slots, VerifyIntegrity(s) PROVE NumberInv'
  <2>1. \A o \in Slots : job'[o].key \in {0, job[o].key, keyfile.val} \/ (job[s].at = "write" /\ job'[o].key = count.keys + 1)
    BY <1>9, KeysMove DEF IndInv, Work
  <2>2. QED
    BY <1>9, <2>1, NumberKept DEF IndInv, VerifyIntegrity, Sealed
<1>10. ASSUME NEW s \in Slots, Loaded(s) PROVE NumberInv'
  <2>1. \A o \in Slots : job'[o].key \in {0, job[o].key, keyfile.val} \/ (job[s].at = "write" /\ job'[o].key = count.keys + 1)
    BY <1>10, KeysMove DEF IndInv, Work
  <2>2. QED
    BY <1>10, <2>1, NumberKept DEF IndInv, Loaded, Sealed
<1>11. ASSUME NEW s \in Slots, WriteConfigYAML(s) PROVE NumberInv'
  <2>1. \A o \in Slots : job'[o].key \in {0, job[o].key, keyfile.val} \/ (job[s].at = "write" /\ job'[o].key = count.keys + 1)
    BY <1>11, KeysMove DEF IndInv, Work
  <2>2. QED
    BY <1>11, <2>1, NumberKept DEF IndInv, WriteConfigYAML, Sealed
<1>12. ASSUME NEW s \in Slots, NEW v \in 0..2, Answer(s, v) PROVE NumberInv'
  <2>1. \A o \in Slots : job'[o].key \in {0, job[o].key, keyfile.val} \/ (job[s].at = "write" /\ job'[o].key = count.keys + 1)
    BY <1>12, KeysMove DEF IndInv, Work
  <2>2. QED
    BY <1>12, <2>1, NumberKept DEF IndInv, Answer, Sealed
<1>13. ASSUME NEW s \in Slots, NEW k \in Kinds, Begin(s, k) PROVE NumberInv'
  <2>1. count'.keys = count.keys
    BY <1>13 DEF Begin, Counted, IndInv, TypeInv, CountType
  <2>2. QED
    BY <1>13, <2>1, NumberKept, KeysMove, StartMoves, Keys DEF IndInv, Begin, Starts
<1>14. ASSUME NEW s \in Slots, NEW v \in 0..2, Put(s, v) PROVE NumberInv'
  <2>1. count'.keys = count.keys
    BY <1>14 DEF Put, Counted, IndInv, TypeInv, CountType
  <2>2. QED
    BY <1>14, <2>1, NumberKept, KeysMove, StartMoves, Keys DEF IndInv, Put, Starts
<1>15. ASSUME NEW s \in Slots, KillProgram(s) PROVE NumberInv'
  <2>1. PICK dead \in SUBSET Busy : Kill(dead)
    BY <1>15 DEF KillProgram, Kill
  <2>2. count'.keys = count.keys
    BY <2>1 DEF Kill, IndInv, TypeInv, CountType
  <2>3. QED
    BY <2>1, <2>2, KillMoves, Constants, Keys, NumberKept DEF IndInv, NumberInv, Kill, Dies
<1>16. ASSUME NEW c \in Content, Edit(c) PROVE NumberInv'
  <2>1. count'.keys = count.keys
    BY <1>16 DEF Edit, Counted, IndInv, TypeInv, CountType
  <2>2. QED
    BY <1>16, <2>1, NumberKept, KeysMove, StartMoves, Keys DEF IndInv, Edit, Starts
<1>17. CASE KillServer
  <2>1. PICK dead \in SUBSET Busy : Kill(dead)
    BY <1>17 DEF KillServer, Kill
  <2>2. count'.keys = count.keys
    BY <2>1 DEF Kill, IndInv, TypeInv, CountType
  <2>3. QED
    BY <2>1, <2>2, KillMoves, Constants, Keys, NumberKept DEF IndInv, NumberInv, Kill, Dies
<1>18. CASE Stop
  BY <1>18, NumberKept DEF IndInv, Stop
<1>19. QED
  BY <1>1, <1>2, <1>3, <1>4, <1>5, <1>6, <1>7, <1>8, <1>9, <1>10, <1>11, <1>12, <1>13, <1>14, <1>15, <1>16,
     <1>17, <1>18 DEF Next, Work

\* The table of the steps, read the other way.
LEMMA Table ==
  /\ \A k \in Loaders : k \in Kinds /\ k # "none" /\ k \notin Inside /\ AfterKey(k) = "open"
  /\ \A k \in Kinds : k # "none" /\ k \in KindsAt(AfterKey(k)) /\ AfterKey(k) \in Keyed /\ AfterKey(k) # "read"
  /\ KindsAt("idle") = {"none"} /\ KindsAt("read") = Loaders /\ KindsAt("open") = Loaders
  /\ KindsAt("seal") = Loaders /\ KindsAt("import") = Loaders /\ KindsAt("loaded") = Loaders
  /\ KindsAt("ask") = {"setup"} /\ KindsAt("yaml") = {"setup"} /\ "setup" \in Loaders
  /\ KindsAt("key") = Kinds /\ KindsAt("create") = Kinds /\ KindsAt("write") = Kinds
  /\ KindsAt("save") = {"put"} /\ KindsAt("verify") = {"doctor", "diagnose"}
<1>1. /\ KindsAt("idle") = {"none"} /\ KindsAt("read") = Loaders /\ KindsAt("open") = Loaders
      /\ KindsAt("seal") = Loaders /\ KindsAt("import") = Loaders /\ KindsAt("loaded") = Loaders
      /\ KindsAt("ask") = {"setup"} /\ KindsAt("yaml") = {"setup"} /\ "setup" \in Loaders
      /\ KindsAt("key") = Kinds /\ KindsAt("create") = Kinds /\ KindsAt("write") = Kinds
      /\ KindsAt("save") = {"put"} /\ KindsAt("verify") = {"doctor", "diagnose"}
  BY DEF KindsAt, LoadSteps, KeySteps, Loaders
<1>2. \A k \in Loaders : k \in Kinds /\ k # "none" /\ k \notin Inside /\ AfterKey(k) = "open"
  BY DEF AfterKey, Loaders, Kinds, Inside
<1>3. \A k \in Kinds : k # "none" /\ k \in KindsAt(AfterKey(k)) /\ AfterKey(k) \in Keyed /\ AfterKey(k) # "read"
  BY <1>1 DEF AfterKey, Loaders, Kinds, Inside, Keyed
<1>4. QED
  BY <1>1, <1>2, <1>3

\* What a program knows is enough for where it goes.
LEMMA FitsMoves ==
  ASSUME TypeInv, JobInv, NEW s \in Slots, Work(s)
  PROVE  /\ \A o \in Slots : o # s => job'[o] = job[o]
         /\ Fits(job'[s])
         /\ job'[s].kind \in {job[s].kind, "none"}
         /\ job'[s].at = "write" => job[s].at = "create"
<1> DEFINE Good == /\ \A o \in Slots : o # s => job'[o] = job[o]
                   /\ Fits(job'[s])
                   /\ job'[s].kind \in {job[s].kind, "none"}
                   /\ job'[s].at = "write" => job[s].at = "create"
<1>1. job[s].kind # "none" /\ job[s].kind \in KindsAt(job[s].at)
  BY Table, WorkMoves DEF Work, JobInv, Fits, Idle, ReadMoves, KeyMoves, CreateMoves, WriteMoves, OpenMoves, LoadedMoves, AnswerMoves
<1>2. ASSUME NEW to, NEW v, NEW k, NEW plain, Moves(s, to, v, k, plain),
             job[s].kind \in KindsAt(to), to # "read", plain => job[s].kind \in Loaders,
             to \in Keyed => k # 0, to = "write" => job[s].at = "create"
      PROVE  Good
  BY <1>1, <1>2 DEF Moves, Fits
<1>3. Ended(s) => Good
  BY Constants, Table DEF Ended, Fits, Keyed
<1>4. job[s].plain \in BOOLEAN /\ (job[s].plain => job[s].kind \in Loaders) /\ (job[s].at \in Keyed => job[s].key # 0)
  <2>1. job[s] \in Job
    BY DEF TypeInv, JobType
  <2>2. job[s].plain \in BOOLEAN
    BY <2>1 DEF Job
  <2>3. QED
    BY <2>2 DEF JobInv, Fits
<1> SUFFICES Good
  OBVIOUS
<1> HIDE DEF Good
<1>5. Failed(s) => Good
  BY <1>2, <1>3, <1>4, Table DEF Failed, Keyed
<1>6. Keyless(s) => Good
  BY <1>2, <1>4, <1>5, Table DEF Keyless, Goes, Keyed
<1>7. CASE ReadMoves(s)
  <2>1. job[s].kind \in Loaders /\ job[s].kind \in Kinds /\ job[s].at = "read"
    BY <1>1, <1>7, Table DEF ReadMoves
  <2>2. CASE Goes(s, "loaded") \/ Goes(s, "key")
    BY <1>2, <1>4, <2>1, <2>2, Table DEF Goes, Keyed
  <2>3. ASSUME NEW to \in {"loaded", "key"}, Moves(s, to, cfg.val, job[s].key, TRUE) PROVE Good
    BY <1>2, <2>1, <2>3, Table DEF Keyed
  <2>4. QED
    BY <1>5, <1>7, <2>2, <2>3 DEF ReadMoves
<1>8. CASE KeyMoves(s)
  <2>1. CASE Keyless(s)
    BY <1>6, <2>1
  <2>2. CASE Goes(s, "create")
    BY <1>1, <1>2, <1>4, <1>8, <2>2, Table DEF KeyMoves, Goes, Keyed
  <2>3. CASE keyfile.val # 0 /\ Moves(s, AfterKey(job[s].kind), job[s].val, keyfile.val, job[s].plain)
    <3>1. job[s].kind \in Kinds
      BY <1>1, <1>8, Table DEF KeyMoves
    <3>2. AfterKey(job[s].kind) # "write"
      BY DEF AfterKey
    <3>3. QED
      BY <1>2, <1>4, <2>3, <3>1, <3>2, Table
  <2>4. QED
    BY <1>8, <2>1, <2>2, <2>3 DEF KeyMoves
<1>9. CASE CreateMoves(s)
  BY <1>1, <1>2, <1>4, <1>6, <1>9, Table DEF CreateMoves, Goes, Keyed
<1>10. CASE WriteMoves(s)
  <2>1. job[s].kind \in Kinds
    BY <1>1, <1>10, Table DEF WriteMoves
  <2>2. AfterKey(job[s].kind) # "write"
    BY DEF AfterKey
  <2>3. count.keys + 1 # 0
    BY Counts
  <2>4. QED
    BY <1>2, <1>4, <1>10, <2>1, <2>2, <2>3, Table DEF WriteMoves
<1>11. CASE OpenMoves(s)
  BY <1>1, <1>2, <1>4, <1>5, <1>11, Table DEF OpenMoves, Keyed
<1>12. CASE job[s].at = "seal" /\ Goes(s, "import")
  BY <1>1, <1>2, <1>4, <1>12, Table DEF Goes, Keyed
<1>13. CASE job[s].at = "import" /\ Goes(s, "loaded")
  BY <1>1, <1>2, <1>4, <1>13, Table DEF Goes, Keyed
<1>14. CASE LoadedMoves(s)
  BY <1>1, <1>2, <1>4, <1>5, <1>14, Table DEF LoadedMoves, Goes, Keyed
<1>15. CASE AnswerMoves(s)
  BY <1>1, <1>2, <1>3, <1>4, <1>15, Table DEF AnswerMoves, Keyed
<1>16. QED
  BY <1>3, <1>7, <1>8, <1>9, <1>10, <1>11, <1>12, <1>13, <1>14, <1>15, WorkMoves DEF Work

\* A key file stays, and a request handler ends before its server.
LEMMA Lasting ==
  ASSUME IndInv, NEW s \in Slots, Work(s)
  PROVE  /\ (keyfile # NoFile => keyfile' # NoFile)
         /\ (server.up => server'.up)
<1>1. ReadConfigFile(s) \/ ReadKey(s) \/ Open(s) \/ Seal(s) \/ Import(s) \/ Save(s) \/ VerifyIntegrity(s) \/ WriteConfigYAML(s)
        \/ (\E v \in 0..2 : Answer(s, v)) => keyfile' = keyfile /\ server' = server
  BY DEF ReadConfigFile, ReadKey, Open, Seal, Import, Save, VerifyIntegrity, WriteConfigYAML, Answer
<1>2. Loaded(s) => keyfile' = keyfile /\ (server.up => server'.up)
  BY DEF Loaded
<1>3. CreateKey(s) => (keyfile # NoFile => keyfile' # NoFile) /\ server' = server
  BY Made DEF CreateKey, NoFile, IndInv
<1>4. WriteKey(s) => (keyfile # NoFile => keyfile' # NoFile) /\ server' = server
  BY Made DEF WriteKey, NoFile, IndInv
<1>5. QED
  BY <1>1, <1>2, <1>3, <1>4 DEF Work

\* Every program goes the way of its kind.
LEMMA JobStep ==
  ASSUME IndInv, Next
  PROVE  JobInv'
<1>1. ASSUME NEW s \in Slots, ReadConfigFile(s) PROVE JobInv'
  <2>1. Work(s)
    BY <1>1 DEF Work
  <2>2. \A o \in Slots : o # s => job'[o] = job[o]
    BY <2>1, FitsMoves DEF IndInv
  <2>3. Fits(job'[s]) /\ (job'[s].kind \in Inside => job[s].kind \in Inside)
    BY <2>1, FitsMoves DEF IndInv, Inside
  <2>4. job'[s].at = "write" => keyfile' # NoFile
    BY <1>1, <2>1, FitsMoves, WorkMoves, Made DEF IndInv, CreateKey, NoFile, User, ReadMoves
  <2>5. QED
    BY <2>1, <2>2, <2>3, <2>4, Lasting DEF IndInv, JobInv
<1>2. ASSUME NEW s \in Slots, ReadKey(s) PROVE JobInv'
  <2>1. Work(s)
    BY <1>2 DEF Work
  <2>2. \A o \in Slots : o # s => job'[o] = job[o]
    BY <2>1, FitsMoves DEF IndInv
  <2>3. Fits(job'[s]) /\ (job'[s].kind \in Inside => job[s].kind \in Inside)
    BY <2>1, FitsMoves DEF IndInv, Inside
  <2>4. job'[s].at = "write" => keyfile' # NoFile
    BY <1>2, <2>1, FitsMoves, WorkMoves, Made DEF IndInv, CreateKey, NoFile, User, KeyMoves
  <2>5. QED
    BY <2>1, <2>2, <2>3, <2>4, Lasting DEF IndInv, JobInv
<1>3. ASSUME NEW s \in Slots, CreateKey(s) PROVE JobInv'
  <2>1. Work(s)
    BY <1>3 DEF Work
  <2>2. \A o \in Slots : o # s => job'[o] = job[o]
    BY <2>1, FitsMoves DEF IndInv
  <2>3. Fits(job'[s]) /\ (job'[s].kind \in Inside => job[s].kind \in Inside)
    BY <2>1, FitsMoves DEF IndInv, Inside
  <2>4. job'[s].at = "write" => keyfile' # NoFile
    BY <1>3, <2>1, FitsMoves, WorkMoves, Made DEF IndInv, CreateKey, NoFile, User, Owner, CreateMoves
  <2>5. QED
    BY <2>1, <2>2, <2>3, <2>4, Lasting DEF IndInv, JobInv
<1>4. ASSUME NEW s \in Slots, WriteKey(s) PROVE JobInv'
  <2>1. Work(s)
    BY <1>4 DEF Work
  <2>2. \A o \in Slots : o # s => job'[o] = job[o]
    BY <2>1, FitsMoves DEF IndInv
  <2>3. Fits(job'[s]) /\ (job'[s].kind \in Inside => job[s].kind \in Inside)
    BY <2>1, FitsMoves DEF IndInv, Inside
  <2>4. job'[s].at = "write" => keyfile' # NoFile
    BY <1>4, <2>1, FitsMoves, WorkMoves, Made DEF IndInv, CreateKey, NoFile, User, WriteMoves
  <2>5. QED
    BY <2>1, <2>2, <2>3, <2>4, Lasting DEF IndInv, JobInv
<1>5. ASSUME NEW s \in Slots, Open(s) PROVE JobInv'
  <2>1. Work(s)
    BY <1>5 DEF Work
  <2>2. \A o \in Slots : o # s => job'[o] = job[o]
    BY <2>1, FitsMoves DEF IndInv
  <2>3. Fits(job'[s]) /\ (job'[s].kind \in Inside => job[s].kind \in Inside)
    BY <2>1, FitsMoves DEF IndInv, Inside
  <2>4. job'[s].at = "write" => keyfile' # NoFile
    BY <1>5, <2>1, FitsMoves, WorkMoves, Made DEF IndInv, CreateKey, NoFile, User, OpenMoves
  <2>5. QED
    BY <2>1, <2>2, <2>3, <2>4, Lasting DEF IndInv, JobInv
<1>6. ASSUME NEW s \in Slots, Seal(s) PROVE JobInv'
  <2>1. Work(s)
    BY <1>6 DEF Work
  <2>2. \A o \in Slots : o # s => job'[o] = job[o]
    BY <2>1, FitsMoves DEF IndInv
  <2>3. Fits(job'[s]) /\ (job'[s].kind \in Inside => job[s].kind \in Inside)
    BY <2>1, FitsMoves DEF IndInv, Inside
  <2>4. job'[s].at = "write" => keyfile' # NoFile
    BY <1>6, <2>1, FitsMoves, WorkMoves, Made DEF IndInv, CreateKey, NoFile, User
  <2>5. QED
    BY <2>1, <2>2, <2>3, <2>4, Lasting DEF IndInv, JobInv
<1>7. ASSUME NEW s \in Slots, Import(s) PROVE JobInv'
  <2>1. Work(s)
    BY <1>7 DEF Work
  <2>2. \A o \in Slots : o # s => job'[o] = job[o]
    BY <2>1, FitsMoves DEF IndInv
  <2>3. Fits(job'[s]) /\ (job'[s].kind \in Inside => job[s].kind \in Inside)
    BY <2>1, FitsMoves DEF IndInv, Inside
  <2>4. job'[s].at = "write" => keyfile' # NoFile
    BY <1>7, <2>1, FitsMoves, WorkMoves, Made DEF IndInv, CreateKey, NoFile, User
  <2>5. QED
    BY <2>1, <2>2, <2>3, <2>4, Lasting DEF IndInv, JobInv
<1>8. ASSUME NEW s \in Slots, Save(s) PROVE JobInv'
  <2>1. Work(s)
    BY <1>8 DEF Work
  <2>2. \A o \in Slots : o # s => job'[o] = job[o]
    BY <2>1, FitsMoves DEF IndInv
  <2>3. Fits(job'[s]) /\ (job'[s].kind \in Inside => job[s].kind \in Inside)
    BY <2>1, FitsMoves DEF IndInv, Inside
  <2>4. job'[s].at = "write" => keyfile' # NoFile
    BY <1>8, <2>1, FitsMoves, WorkMoves, Made DEF IndInv, CreateKey, NoFile, User
  <2>5. QED
    BY <2>1, <2>2, <2>3, <2>4, Lasting DEF IndInv, JobInv
<1>9. ASSUME NEW s \in Slots, VerifyIntegrity(s) PROVE JobInv'
  <2>1. Work(s)
    BY <1>9 DEF Work
  <2>2. \A o \in Slots : o # s => job'[o] = job[o]
    BY <2>1, FitsMoves DEF IndInv
  <2>3. Fits(job'[s]) /\ (job'[s].kind \in Inside => job[s].kind \in Inside)
    BY <2>1, FitsMoves DEF IndInv, Inside
  <2>4. job'[s].at = "write" => keyfile' # NoFile
    BY <1>9, <2>1, FitsMoves, WorkMoves, Made DEF IndInv, CreateKey, NoFile, User
  <2>5. QED
    BY <2>1, <2>2, <2>3, <2>4, Lasting DEF IndInv, JobInv
<1>10. ASSUME NEW s \in Slots, Loaded(s) PROVE JobInv'
  <2>1. Work(s)
    BY <1>10 DEF Work
  <2>2. \A o \in Slots : o # s => job'[o] = job[o]
    BY <2>1, FitsMoves DEF IndInv
  <2>3. Fits(job'[s]) /\ (job'[s].kind \in Inside => job[s].kind \in Inside)
    BY <2>1, FitsMoves DEF IndInv, Inside
  <2>4. job'[s].at = "write" => keyfile' # NoFile
    BY <1>10, <2>1, FitsMoves, WorkMoves, Made DEF IndInv, CreateKey, NoFile, User, LoadedMoves
  <2>5. QED
    BY <2>1, <2>2, <2>3, <2>4, Lasting DEF IndInv, JobInv
<1>11. ASSUME NEW s \in Slots, WriteConfigYAML(s) PROVE JobInv'
  <2>1. Work(s)
    BY <1>11 DEF Work
  <2>2. \A o \in Slots : o # s => job'[o] = job[o]
    BY <2>1, FitsMoves DEF IndInv
  <2>3. Fits(job'[s]) /\ (job'[s].kind \in Inside => job[s].kind \in Inside)
    BY <2>1, FitsMoves DEF IndInv, Inside
  <2>4. job'[s].at = "write" => keyfile' # NoFile
    BY <1>11, <2>1, FitsMoves, WorkMoves, Made DEF IndInv, CreateKey, NoFile, User
  <2>5. QED
    BY <2>1, <2>2, <2>3, <2>4, Lasting DEF IndInv, JobInv
<1>12. ASSUME NEW s \in Slots, NEW v \in 0..2, Answer(s, v) PROVE JobInv'
  <2>1. Work(s)
    BY <1>12 DEF Work
  <2>2. \A o \in Slots : o # s => job'[o] = job[o]
    BY <2>1, FitsMoves DEF IndInv
  <2>3. Fits(job'[s]) /\ (job'[s].kind \in Inside => job[s].kind \in Inside)
    BY <2>1, FitsMoves DEF IndInv, Inside
  <2>4. job'[s].at = "write" => keyfile' # NoFile
    BY <1>12, <2>1, FitsMoves, WorkMoves, Made DEF IndInv, CreateKey, NoFile, User, AnswerMoves
  <2>5. QED
    BY <2>1, <2>2, <2>3, <2>4, Lasting DEF IndInv, JobInv
<1>13. ASSUME NEW s \in Slots, NEW k \in Kinds, Begin(s, k) PROVE JobInv'
  <2>1. keyfile' = keyfile /\ server' = server /\ (k \in Inside => server.up)
    BY <1>13 DEF Begin
  <2>2. CASE k \in Loaders
    <3>1. Starts(s, k, "read")
      BY <1>13, <2>2, StartMoves DEF IndInv
    <3>2. Fits(job'[s])
      BY <2>2, <3>1, Table DEF Starts, Fits, Keyed
    <3>3. QED
      BY <2>1, <3>1, <3>2 DEF IndInv, JobInv, Starts
  <2>3. CASE k \notin Loaders
    <3>1. Starts(s, k, "key")
      BY <1>13, <2>3, StartMoves DEF IndInv
    <3>2. Fits(job'[s])
      BY <2>3, <3>1, Table DEF Starts, Fits, Keyed
    <3>3. QED
      BY <2>1, <3>1, <3>2 DEF IndInv, JobInv, Starts
  <2>4. QED
    BY <2>2, <2>3
<1>14. ASSUME NEW s \in Slots, NEW v \in 0..2, Put(s, v) PROVE JobInv'
  <2>1. CASE UNCHANGED job
    BY <1>14, <2>1 DEF IndInv, JobInv, Put, TypeInv, ServerType
  <2>2. CASE Starts(s, "put", "key")
    <3>1. "put" \in Kinds /\ "put" \notin Loaders /\ server.up /\ server'.up /\ keyfile' = keyfile
      BY <1>14 DEF Kinds, Inside, Loaders, Put, IndInv, TypeInv, ServerType
    <3>2. Fits(job'[s]) /\ job'[s].at # "write"
      BY <2>2, <3>1, Table DEF Starts, Fits, Keyed
    <3>3. QED
      BY <2>2, <3>1, <3>2 DEF IndInv, JobInv, Starts
  <2>3. QED
    BY <1>14, <2>1, <2>2, StartMoves DEF IndInv
<1>15. ASSUME NEW s \in Slots, KillProgram(s) PROVE JobInv'
  <2>1. Fits(Idle)
    BY Constants, Table DEF Fits, Keyed
  <2>2. Dies /\ keyfile' = keyfile /\ server' = server
    BY <1>15, KillMoves DEF IndInv, KillProgram, Kill
  <2>3. QED
    BY <2>1, <2>2, Constants DEF IndInv, JobInv, Dies, Inside
<1>16. ASSUME NEW c \in Content, Edit(c) PROVE JobInv'
  BY <1>16 DEF Edit, IndInv, JobInv
<1>17. CASE KillServer
  <2>1. Fits(Idle)
    BY Constants, Table DEF Fits, Keyed
  <2>2. Dies /\ keyfile' = keyfile
    BY <1>17, KillMoves DEF IndInv, KillServer, Kill
  <2>3. \A o \in Slots : job'[o].kind \notin Inside
    BY <1>17, Constants DEF KillServer, Kill, Busy, Inside
  <2>4. QED
    BY <2>1, <2>2, <2>3, Constants DEF IndInv, JobInv, Dies
<1>18. CASE Stop
  BY <1>18 DEF Stop, IndInv, JobInv, Busy, Idle, Inside
<1>19. QED
  BY <1>1, <1>2, <1>3, <1>4, <1>5, <1>6, <1>7, <1>8, <1>9, <1>10, <1>11, <1>12, <1>13, <1>14, <1>15, <1>16,
     <1>17, <1>18 DEF Next, Work

\* What the steps write down: the flags are only ever set.
LogIs(torn, twice, byRoot, wizard, stale, rest) ==
  /\ log'.torn = torn /\ log'.twice = twice /\ log'.byRoot = byRoot
  /\ log'.wizard = wizard /\ log'.stale = stale /\ log'.rest = rest

\* A key is made, and perhaps another program is about to make one.
LEMMA CreateLog ==
  ASSUME TypeInv, NEW s \in Slots, CreateKey(s), Creates(s)
  PROVE  LogIs(log.torn, log.twice \/ \E o \in Busy \ {s} : job[o].at = "create", log.byRoot, log.wizard, log.stale, log.rest)
<1> DEFINE b == log.twice \/ \E o \in Busy \ {s} : job[o].at = "create"
<1>1. log' = [log EXCEPT !.twice = b]
  BY DEF CreateKey, Creates
<1> HIDE DEF b
<1>2. LogIs(log.torn, b, log.byRoot, log.wizard, log.stale, log.rest)
  BY <1>1 DEF LogIs, TypeInv, LogType
<1>3. QED
  BY <1>2 DEF b

\* A configuration is sealed in the place of another one.
LEMMA SealLog ==
  ASSUME TypeInv, NEW s \in Slots, Seal(s)
  PROVE  LogIs(log.torn, log.twice, log.byRoot, log.wizard, log.stale \/ cfg.val # job[s].val, log.rest)
<1> DEFINE b == log.stale \/ cfg.val # job[s].val
<1>1. log' = [log EXCEPT !.stale = b]
  BY DEF Seal
<1> HIDE DEF b
<1>2. LogIs(log.torn, log.twice, log.byRoot, log.wizard, b, log.rest)
  BY <1>1 DEF LogIs, TypeInv, LogType
<1>3. QED
  BY <1>2 DEF b

\* The wizard writes, or fails to.
LEMMA YamlLog ==
  ASSUME TypeInv, NEW s \in Slots, WriteConfigYAML(s), cfg' # cfg \/ log' # log
  PROVE  LogIs(log.torn, log.twice, log.byRoot, TRUE, log.stale \/ Held(s), log.rest)
<1> DEFINE b == log.stale \/ Held(s)
<1>1. log' = [log EXCEPT !.wizard = TRUE, !.stale = b]
  BY DEF WriteConfigYAML
<1> HIDE DEF b
<1>2. LogIs(log.torn, log.twice, log.byRoot, TRUE, b, log.rest)
  BY <1>1 DEF LogIs, TypeInv, LogType
<1>3. QED
  BY <1>2 DEF b

\* A program starts.
LEMMA BeginLog ==
  ASSUME TypeInv, NEW s \in Slots, NEW k \in Kinds, Begin(s, k)
  PROVE  LogIs(log.torn, log.twice, log.byRoot \/ k \in {"command", "doctor", "setup"}, log.wizard, log.stale, log.rest)
<1>1. log' = [log EXCEPT !.byRoot = TRUE] \/ (log' = log /\ k \notin {"command", "doctor", "setup"})
  BY DEF Begin
<1>2. CASE log' = [log EXCEPT !.byRoot = TRUE] /\ k \in {"command", "doctor", "setup"}
  BY <1>2 DEF LogIs, TypeInv, LogType
<1>3. CASE log' = log /\ k \notin {"command", "doctor", "setup"}
  BY <1>3 DEF LogIs, TypeInv, LogType
<1>4. QED
  BY <1>1, <1>2, <1>3 DEF Begin

\* The administrator edits the file.
LEMMA EditLog ==
  ASSUME TypeInv, NEW c \in Content, Edit(c)
  PROVE  LogIs(log.torn, log.twice, log.byRoot, FALSE,
               log.stale \/ server.up \/ Busy # {}, c.rest)
<1> DEFINE b == log.stale \/ server.up \/ Busy # {}
           r == c.rest
<1>1. log' = [log EXCEPT !.rest = r, !.wizard = FALSE, !.stale = b]
  BY DEF Edit
<1> HIDE DEF b, r
<1>2. LogIs(log.torn, log.twice, log.byRoot, FALSE, b, r)
  BY <1>1 DEF LogIs, TypeInv, LogType
<1>3. QED
  BY <1>2 DEF b, r

\* Programs die.
LEMMA KillLog ==
  ASSUME TypeInv, NEW dead, Kill(dead)
  PROVE  LogIs(log.torn \/ \E s \in dead : job[s].at = "write", log.twice, log.byRoot, log.wizard, log.stale, log.rest)
<1> DEFINE b == log.torn \/ \E s \in dead : job[s].at = "write"
<1>1. log' = [log EXCEPT !.torn = b]
  BY DEF Kill
<1> HIDE DEF b
<1>2. LogIs(b, log.twice, log.byRoot, log.wizard, log.stale, log.rest)
  BY <1>1 DEF LogIs, TypeInv, LogType
<1>3. QED
  BY <1>2 DEF b

\* A step that neither makes a key nor stores anything leaves the program with
\* a key that is on disk, or with none.
LEMMA KeyFitsMoves ==
  ASSUME TypeInv, JobInv, KeyInv, Calm, NEW s \in Slots, Work(s), job[s].at # "write", job[s].at = "create" => ~ Creates(s)
  PROVE  job'[s].at # "write" /\ KeyFits(job'[s])
<1> DEFINE Good == job'[s].at # "write" /\ KeyFits(job'[s])
<1>1. ASSUME NEW to \in {"idle", "read", "key", "loaded", "import", "ask", "yaml"}, job'[s].at = to PROVE Good
  BY <1>1 DEF KeyFits, Keyed
<1>2. KeyFits(job[s])
  BY DEF KeyInv
<1>3. ASSUME NEW to \in Keyed, NEW k, job'[s].at = to, job'[s].key = k, keyfile # NoFile, keyfile.val = k PROVE Good
  BY <1>3 DEF KeyFits, Keyed
<1> SUFFICES Good
  OBVIOUS
<1>4. ASSUME job'[s].at = "create", ~ Found(User(job[s].kind)), job'[s].kind = job[s].kind PROVE Good
  BY <1>4 DEF KeyFits, Keyed, Found
<1> HIDE DEF Good
<1>5. Ended(s) => Good
  BY <1>1, Constants DEF Ended
<1>6. Failed(s) => Good
  BY <1>1, <1>5 DEF Failed, Moves
<1>7. Keyless(s) => Good
  BY <1>1, <1>6 DEF Keyless, Goes, Moves
<1>8. CASE ReadMoves(s)
  BY <1>1, <1>6, <1>8 DEF ReadMoves, Goes, Moves
<1>9. CASE KeyMoves(s)
  <2>1. CASE Moves(s, AfterKey(job[s].kind), job[s].val, keyfile.val, job[s].plain) /\ Found(User(job[s].kind))
    BY <1>3, <2>1 DEF Moves, Found, AfterKey, Keyed
  <2>2. CASE Goes(s, "create") /\ ~ Found(User(job[s].kind))
    BY <1>4, <2>2 DEF Goes, Moves
  <2>3. QED
    BY <1>7, <1>9, <2>1, <2>2 DEF KeyMoves
<1>10. CASE CreateMoves(s)
  BY <1>7, <1>10 DEF CreateMoves
<1>11. CASE OpenMoves(s)
  <2>1. CASE Moves(s, "seal", cfg.val, job[s].key, job[s].plain) /\ job[s].at = "open"
    BY <1>2, <1>3, <2>1 DEF Moves, KeyFits, Keyed
  <2>2. QED
    BY <1>1, <1>6, <1>11, <2>1 DEF OpenMoves, Moves
<1>12. CASE job[s].at \in {"seal", "import"} /\ (Goes(s, "import") \/ Goes(s, "loaded"))
  BY <1>1, <1>12 DEF Goes, Moves
<1>13. CASE LoadedMoves(s)
  BY <1>1, <1>6, <1>13 DEF LoadedMoves, Goes, Moves
<1>14. CASE AnswerMoves(s)
  BY <1>1, <1>5, <1>14 DEF AnswerMoves, Moves
<1>15. QED
  BY <1>5, <1>8, <1>9, <1>10, <1>11, <1>12, <1>13, <1>14, WorkMoves DEF Work, WriteMoves

\* Such a step leaves the key's story as it is.
LEMMA KeyKept ==
  ASSUME IndInv, NEW s \in Slots, Work(s), job[s].at # "write", job[s].at = "create" => ~ Creates(s),
         keyfile' = keyfile, Calm' => Calm,
         cfg'.form = "sealed" => cfg' = cfg \/ (cfg'.key = job[s].key /\ job[s].at \in Keyed)
  PROVE  KeyInv'
<1> SUFFICES ASSUME Calm' PROVE KeyInv'
  BY DEF KeyInv
<1>1. Calm
  OBVIOUS
<1>2. KeyFits(job'[s]) /\ job'[s].at # "write" /\ \A o \in Slots : o # s => job'[o] = job[o]
  BY <1>1, KeyFitsMoves, FitsMoves DEF IndInv
<1>3. \A o \in Slots : KeyFits(job'[o])
  BY <1>1, <1>2 DEF IndInv, KeyInv
<1>4. \A o \in Slots : KeyFits(job[o])'
  BY <1>3 DEF KeyFits
<1>5. cfg'.form = "sealed" => keyfile' # NoFile /\ keyfile'.val = cfg'.key
  BY <1>1 DEF IndInv, KeyInv, KeyFits
<1>6. QED
  BY <1>1, <1>2, <1>4, <1>5 DEF IndInv, KeyInv

\* Nothing happens to the key, and no program moves but to a start or its end.
LEMMA KeyStays ==
  ASSUME IndInv, keyfile' = keyfile, Calm' => Calm, cfg' = cfg \/ cfg'.form = "plain",
         \A o \in Slots : job'[o] = job[o] \/ job'[o].at \in {"idle", "read", "key"}
  PROVE  KeyInv'
<1> SUFFICES ASSUME Calm' PROVE KeyInv'
  BY DEF KeyInv
<1>1. {"idle", "read", "key"} \intersect (Keyed \union {"write", "create"}) = {}
  BY DEF Keyed
<1>2. \A o \in Slots : KeyFits(job'[o])
  BY <1>1 DEF IndInv, KeyInv, KeyFits
<1>3. \A o \in Slots : KeyFits(job[o])'
  BY <1>2 DEF KeyFits
<1>4. QED
  BY <1>1, <1>3 DEF IndInv, KeyInv

\* The key that is in use is the one on disk.
LEMMA KeyStep ==
  ASSUME IndInv, Next
  PROVE  KeyInv'
<1>1. ASSUME NEW s \in Slots, ReadConfigFile(s) PROVE KeyInv'
  <2>1. Work(s) /\ job[s].at \notin {"write", "create"} /\ keyfile' = keyfile /\ log' = log
    BY <1>1 DEF Work, ReadConfigFile
  <2>2. QED
    BY <1>1, <2>1, KeyKept DEF ReadConfigFile, Calm
<1>2. ASSUME NEW s \in Slots, ReadKey(s) PROVE KeyInv'
  <2>1. Work(s) /\ job[s].at \notin {"write", "create"} /\ keyfile' = keyfile /\ log' = log
    BY <1>2 DEF Work, ReadKey
  <2>2. QED
    BY <1>2, <2>1, KeyKept DEF ReadKey, Calm
<1>3. ASSUME NEW s \in Slots, CreateKey(s) PROVE KeyInv'
  <2>1. Work(s) /\ job[s].at = "create" /\ cfg' = cfg
    BY <1>3 DEF Work, CreateKey
  <2>2. CASE ~ Creates(s)
    <3>1. keyfile' = keyfile /\ log' = log
      BY <1>3, <2>1, <2>2, WorkMoves DEF CreateMoves, IndInv
    <3>2. QED
      BY <2>1, <2>2, <3>1, KeyKept DEF Calm
  <2>3. CASE Creates(s)
    <3> SUFFICES ASSUME Calm' PROVE KeyInv'
      BY DEF KeyInv
    <3>1. Calm /\ \A o \in Busy \ {s} : job[o].at # "create"
      BY <1>3, <2>3, CreateLog DEF IndInv, LogIs, Calm
    <3>2. keyfile = NoFile
      BY <2>1, <2>3, <3>1 DEF IndInv, KeyInv, KeyFits, Creates
    <3>3. Goes(s, "write")
      BY <1>3, <2>3, WorkMoves DEF IndInv, CreateMoves
    <3>4. keyfile'.val = 0 /\ (User(job[s].kind) = "root" => keyfile'.owner = "root")
      BY <1>3, <2>3, <3>2 DEF CreateKey, Creates, Owner
    <3>5. \A o \in Slots : o # s => job'[o] = job[o] /\ job[o].at \notin Keyed \union {"write", "create"}
      <4>1. \A o \in Slots : KeyFits(job[o]) /\ (job[o].at = "write" => keyfile # NoFile)
        BY <3>1 DEF IndInv, JobInv, KeyInv
      <4>2. \A o \in Slots : job[o].at \notin Keyed \union {"write"}
        BY <3>2, <4>1 DEF KeyFits
      <4>3. \A o \in Slots : o # s => job[o].at # "create"
        BY <3>1, Constants DEF Busy
      <4>4. QED
        BY <3>3, <4>2, <4>3 DEF Goes, Moves
    <3>6. job'[s].at = "write" /\ "write" \notin Keyed
      BY <3>3 DEF Goes, Moves, Keyed
    <3>7. \A o \in Slots : KeyFits(job[o])'
      BY <3>3, <3>4, <3>5, <3>6 DEF KeyFits, Goes, Moves
    <3>8. cfg.form # "sealed"
      BY <3>1, <3>2 DEF IndInv, KeyInv
    <3>9. QED
      BY <2>1, <3>5, <3>6, <3>7, <3>8 DEF KeyInv
  <2>4. QED
    BY <2>2, <2>3
<1>4. ASSUME NEW s \in Slots, WriteKey(s) PROVE KeyInv'
  <2>1. WriteMoves(s) /\ log' = log /\ cfg' = cfg /\ keyfile'.val = count.keys + 1 /\ job[s].at = "write"
    BY <1>4, WorkMoves DEF IndInv, WriteKey
  <2> SUFFICES ASSUME Calm' PROVE KeyInv'
    BY DEF KeyInv
  <2>2. Calm
    BY <2>1 DEF Calm
  <2>3. keyfile'.val # 0 /\ keyfile' # NoFile /\ keyfile # NoFile /\ keyfile.val = 0
    BY <2>1, <2>2, <1>4, Lasting, Counts DEF IndInv, JobInv, KeyInv, KeyFits, Work
  <2>4. cfg.form # "sealed"
    BY <2>2, <2>3 DEF IndInv, KeyInv, TypeInv, CfgType
  <2>5. \A o \in Slots : o # s => job'[o] = job[o] /\ job[o].at \notin Keyed \union {"write"}
    <3>1. \A o \in Slots : KeyFits(job[o]) /\ Fits(job[o])
      BY <2>2 DEF IndInv, KeyInv, JobInv
    <3>2. \A o \in Slots : job[o].at \notin Keyed
      BY <2>3, <3>1 DEF KeyFits, Fits
    <3>3. QED
      BY <2>1, <2>2, <3>2 DEF WriteMoves, Moves, IndInv, KeyInv
  <2>6. job'[s].at \in Keyed /\ job'[s].key = keyfile'.val /\ "write" \notin Keyed /\ "create" \notin Keyed
    BY <2>1 DEF WriteMoves, Moves, AfterKey, Keyed
  <2>7. \A o \in Slots : o # s => (job[o].at = "create" => ~ Owns(User(job[o].kind), keyfile'.owner))
    <3>1. keyfile'.owner = keyfile.owner
      BY <1>4, <2>1, <2>2 DEF WriteKey, IndInv, KeyInv, KeyFits
    <3>2. \A o \in Slots : job[o].at = "create" => ~ Owns(User(job[o].kind), keyfile.owner)
      BY <2>2, <2>3 DEF IndInv, KeyInv, KeyFits
    <3>3. QED
      BY <3>1, <3>2
  <2>8. \A o \in Slots : KeyFits(job[o])'
    BY <2>3, <2>5, <2>6, <2>7 DEF KeyFits
  <2>9. QED
    BY <2>1, <2>4, <2>5, <2>6, <2>8 DEF KeyInv
<1>5. ASSUME NEW s \in Slots, Open(s) PROVE KeyInv'
  <2>1. Work(s) /\ job[s].at \notin {"write", "create"} /\ keyfile' = keyfile /\ log' = log
    BY <1>5 DEF Work, Open
  <2>2. QED
    BY <1>5, <2>1, KeyKept DEF Open, Calm
<1>6. ASSUME NEW s \in Slots, Seal(s) PROVE KeyInv'
  <2>1. Work(s) /\ job[s].at = "seal" /\ keyfile' = keyfile /\ cfg'.key = job[s].key /\ (Calm' => Calm)
    BY <1>6, SealLog DEF Work, Seal, Sealed, LogIs, Calm, IndInv
  <2>2. QED
    BY <2>1, KeyKept DEF Keyed
<1>7. ASSUME NEW s \in Slots, Import(s) PROVE KeyInv'
  <2>1. Work(s) /\ job[s].at \notin {"write", "create"} /\ keyfile' = keyfile /\ log' = log
    BY <1>7 DEF Work, Import
  <2>2. QED
    BY <1>7, <2>1, KeyKept DEF Import, Calm
<1>8. ASSUME NEW s \in Slots, Save(s) PROVE KeyInv'
  <2>1. Work(s) /\ job[s].at = "save" /\ keyfile' = keyfile /\ cfg'.key = job[s].key /\ (Calm' => Calm)
    BY <1>8 DEF Work, Save, Sealed, Calm
  <2>2. QED
    BY <2>1, KeyKept DEF Keyed
<1>9. ASSUME NEW s \in Slots, VerifyIntegrity(s) PROVE KeyInv'
  <2>1. Work(s) /\ job[s].at \notin {"write", "create"} /\ keyfile' = keyfile /\ log' = log
    BY <1>9 DEF Work, VerifyIntegrity
  <2>2. QED
    BY <1>9, <2>1, KeyKept DEF VerifyIntegrity, Calm
<1>10. ASSUME NEW s \in Slots, Loaded(s) PROVE KeyInv'
  <2>1. Work(s) /\ job[s].at \notin {"write", "create"} /\ keyfile' = keyfile /\ log' = log
    BY <1>10 DEF Work, Loaded
  <2>2. QED
    BY <1>10, <2>1, KeyKept DEF Loaded, Calm
<1>11. ASSUME NEW s \in Slots, WriteConfigYAML(s) PROVE KeyInv'
  <2>1. Work(s) /\ job[s].at = "yaml" /\ keyfile' = keyfile /\ (cfg' = cfg \/ cfg'.form = "plain")
    BY <1>11 DEF Work, WriteConfigYAML
  <2>2. Calm' => Calm
    BY <1>11, YamlLog DEF LogIs, Calm, IndInv
  <2>3. QED
    BY <2>1, <2>2, KeyKept
<1>12. ASSUME NEW s \in Slots, NEW v \in 0..2, Answer(s, v) PROVE KeyInv'
  <2>1. Work(s) /\ job[s].at = "ask" /\ keyfile' = keyfile /\ log' = log /\ cfg' = cfg
    BY <1>12 DEF Work, Answer
  <2>2. QED
    BY <2>1, KeyKept DEF Calm
<1>13. ASSUME NEW s \in Slots, NEW k \in Kinds, Begin(s, k) PROVE KeyInv'
  <2>1. \A o \in Slots : job'[o] = job[o] \/ job'[o].at \in {"idle", "read", "key"}
    BY <1>13, StartMoves DEF IndInv, Starts
  <2>2. QED
    BY <1>13, <2>1, BeginLog, KeyStays DEF Begin, LogIs, Calm, IndInv
<1>14. ASSUME NEW s \in Slots, NEW v \in 0..2, Put(s, v) PROVE KeyInv'
  <2>1. \A o \in Slots : job'[o] = job[o] \/ job'[o].at \in {"idle", "read", "key"}
    BY <1>14, StartMoves DEF IndInv, Starts
  <2>2. QED
    BY <1>14, <2>1, KeyStays DEF Put, Calm
<1>15. ASSUME NEW s \in Slots, KillProgram(s) PROVE KeyInv'
  <2>1. PICK dead \in SUBSET Busy : Kill(dead)
    BY <1>15 DEF KillProgram, Kill
  <2>2. Dies /\ keyfile' = keyfile /\ cfg' = cfg
    BY <2>1, KillMoves DEF IndInv, Kill
  <2>3. Calm' => Calm
    BY <2>1, KillLog DEF LogIs, Calm, IndInv
  <2>4. QED
    BY <2>2, <2>3, Constants, KeyStays DEF Dies
<1>16. ASSUME NEW c \in Content, Edit(c) PROVE KeyInv'
  <2>1. QED
    BY <1>16, EditLog, KeyStays DEF Edit, LogIs, Calm, IndInv
<1>17. CASE KillServer
  <2>1. PICK dead \in SUBSET Busy : Kill(dead)
    BY <1>17 DEF KillServer, Kill
  <2>2. Dies /\ keyfile' = keyfile /\ cfg' = cfg
    BY <2>1, KillMoves DEF IndInv, Kill
  <2>3. Calm' => Calm
    BY <2>1, KillLog DEF LogIs, Calm, IndInv
  <2>4. QED
    BY <2>2, <2>3, Constants, KeyStays DEF Dies
<1>18. CASE Stop
  BY <1>18, KeyStays DEF Stop, Calm
<1>19. QED
  BY <1>1, <1>2, <1>3, <1>4, <1>5, <1>6, <1>7, <1>8, <1>9, <1>10, <1>11, <1>12, <1>13, <1>14, <1>15, <1>16,
     <1>17, <1>18 DEF Next, Work

\* The agent finds no key that it can read, and leaves what is not sealed.
LEMMA AccessMoves ==
  ASSUME IndInv, Quiet, NEW s \in Slots, Work(s)
  PROVE  AccessFits(job[s])'
<1>1. AccessFits(job[s]) /\ Calm
  BY DEF IndInv, AccessInv, Quiet
<1>2. job'[s].kind \in {job[s].kind, "none"}
  BY FitsMoves DEF IndInv
<1>3. CASE job[s].kind # "agent"
  BY <1>1, <1>2, <1>3 DEF AccessFits
<1>4. CASE job[s].kind = "agent"
  <2>1. ASSUME NEW to \in {"loaded", "key", "create"}, job'[s].at = to, to \in {"key", "create"} => keyfile # NoFile
        PROVE  AccessFits(job[s])'
    BY <1>1, <1>2, <2>1, Lasting DEF AccessFits
  <2>2. Ended(s) => AccessFits(job[s])'
    BY Constants DEF Ended, AccessFits
  <2>3. Failed(s) => AccessFits(job[s])'
    BY <1>4, <2>2 DEF Failed
  <2>4. job[s].at \in {"read", "loaded", "key", "create"} /\ (job[s].at \in {"key", "create"} => keyfile # NoFile)
    BY <1>1, <1>4 DEF AccessFits
  <2>5. CASE ReadMoves(s)
    <3>1. cfg.form = "sealed" => keyfile # NoFile
      BY <1>1 DEF IndInv, KeyInv
    <3>2. QED
      BY <1>4, <2>1, <2>3, <2>5, <3>1 DEF ReadMoves, Goes, Moves
  <2>6. keyfile # NoFile => ~ Owns(User(job[s].kind), keyfile.owner)
    BY <1>4 DEF Owns, Owner, User, Inside, IndInv, AccessInv
  <2>7. Keyless(s) => AccessFits(job[s])'
    BY <2>1, <2>3 DEF Keyless, Goes, Moves
  <2>8. CASE KeyMoves(s)
    BY <2>1, <2>4, <2>6, <2>8 DEF KeyMoves, Found, Goes, Moves
  <2>9. CASE CreateMoves(s)
    BY <2>4, <2>6, <2>7, <2>9 DEF CreateMoves, Creates
  <2>10. CASE LoadedMoves(s)
    BY <1>4, <2>3, <2>10 DEF LoadedMoves
  <2>11. QED
    BY <2>4, <2>5, <2>8, <2>9, <2>10, WorkMoves DEF IndInv, Work, OpenMoves, WriteMoves, AnswerMoves
<1>5. QED
  BY <1>3, <1>4

\* Whoever makes a key or stores a configuration is the service's user.
LEMMA Writers ==
  ASSUME IndInv, Quiet, NEW s \in Slots, job[s].at \in {"create", "write", "seal", "import", "save"},
         job[s].at = "create" => Creates(s)
  PROVE  User(job[s].kind) = "fyrwall" /\ job[s].kind \notin {"agent", "setup"}
<1>1. job[s].kind \notin {"command", "setup", "doctor", "agent"}
  <2>1. job[s].kind \notin {"command", "setup", "doctor"}
    BY DEF IndInv, AccessInv, AccessFits
  <2>2. CASE job[s].kind = "agent"
    <3>1. job[s].at = "create" /\ keyfile # NoFile /\ keyfile.owner = "fyrwall"
      BY <2>2 DEF IndInv, AccessInv, AccessFits
    <3>2. QED
      BY <2>2, <3>1 DEF Creates, Owns, Owner, User, Inside
  <2>3. QED
    BY <2>1, <2>2
<1>2. job[s].kind \in Kinds
  BY Table DEF IndInv, JobInv, Fits, Kinds, Loaders
<1>3. QED
  BY <1>1, <1>2 DEF User, Kinds, Loaders, Inside

\* A step that keeps what the service's user may open.
LEMMA AccessKept ==
  ASSUME IndInv, NEW s \in Slots, Work(s), Quiet' => Quiet,
         Quiet => /\ cfg'.by # "root"
                  /\ keyfile' # NoFile => keyfile'.owner = "fyrwall"
  PROVE  AccessInv'
<1> SUFFICES ASSUME Quiet' PROVE AccessInv'
  BY DEF AccessInv
<1>1. \A o \in Slots : o # s => job'[o] = job[o]
  BY FitsMoves DEF IndInv
<1>2. AccessFits(job[s])'
  BY AccessMoves
<1>3. \A o \in Slots : AccessFits(job[o])'
  BY <1>1, <1>2, Lasting DEF IndInv, AccessInv, AccessFits
<1>4. QED
  BY <1>3 DEF AccessInv

\* No program moves but to a start or its end.
LEMMA AccessStays ==
  ASSUME IndInv, keyfile' = keyfile, Quiet' => Quiet, cfg' = cfg,
         Quiet' => \A o \in Slots : job'[o] = job[o] \/ AccessFits(job'[o])
  PROVE  AccessInv'
<1> SUFFICES ASSUME Quiet' PROVE AccessInv'
  BY DEF AccessInv
<1>1. \A o \in Slots : AccessFits(job'[o])
  BY DEF IndInv, AccessInv
<1>2. \A o \in Slots : AccessFits(job[o])'
  BY <1>1 DEF AccessFits
<1>3. QED
  BY <1>2 DEF IndInv, AccessInv

\* The service's user can open what its own programs have written.
LEMMA AccessStep ==
  ASSUME IndInv, Next
  PROVE  AccessInv'
<1>1. ASSUME NEW s \in Slots, ReadConfigFile(s) PROVE AccessInv'
  <2>1. Work(s) /\ keyfile' = keyfile /\ cfg' = cfg /\ log' = log
    BY <1>1 DEF Work, ReadConfigFile
  <2>2. QED
    BY <2>1, AccessKept DEF Calm, Quiet, IndInv, AccessInv
<1>2. ASSUME NEW s \in Slots, ReadKey(s) PROVE AccessInv'
  <2>1. Work(s) /\ keyfile' = keyfile /\ cfg' = cfg /\ log' = log
    BY <1>2 DEF Work, ReadKey
  <2>2. QED
    BY <2>1, AccessKept DEF Calm, Quiet, IndInv, AccessInv
<1>3. ASSUME NEW s \in Slots, CreateKey(s) PROVE AccessInv'
  <2>1. Work(s) /\ job[s].at = "create" /\ cfg' = cfg
    BY <1>3 DEF Work, CreateKey
  <2>2. Quiet' => Quiet
    BY <1>3, WorkMoves, CreateLog DEF CreateMoves, Quiet, Calm, LogIs, IndInv
  <2>3. Quiet /\ keyfile' # NoFile => keyfile'.owner = "fyrwall"
    <3>1. Quiet /\ Creates(s) => User(job[s].kind) = "fyrwall"
      BY <2>1, Writers
    <3>2. \/ keyfile' = keyfile
          \/ Creates(s) /\ keyfile = NoFile /\ keyfile'.owner = Owner(User(job[s].kind))
          \/ keyfile # NoFile /\ keyfile'.owner = keyfile.owner
      BY <1>3, WorkMoves DEF CreateMoves, CreateKey, Creates, IndInv
    <3>3. QED
      BY <3>1, <3>2 DEF IndInv, AccessInv, Owner
  <2>4. QED
    BY <2>1, <2>2, <2>3, AccessKept DEF IndInv, AccessInv
<1>4. ASSUME NEW s \in Slots, WriteKey(s) PROVE AccessInv'
  <2>1. Work(s) /\ job[s].at = "write" /\ cfg' = cfg /\ log' = log
    BY <1>4 DEF Work, WriteKey
  <2>2. Quiet => keyfile'.owner = "fyrwall"
    <3>1. Quiet => User(job[s].kind) # "root"
      BY <2>1, Writers
    <3>2. keyfile # NoFile
      BY <2>1 DEF IndInv, JobInv
    <3>3. QED
      BY <1>4, <3>1, <3>2 DEF WriteKey, IndInv, AccessInv
  <2>3. QED
    BY <2>1, <2>2, AccessKept DEF IndInv, AccessInv, Quiet, Calm
<1>5. ASSUME NEW s \in Slots, Open(s) PROVE AccessInv'
  <2>1. Work(s) /\ keyfile' = keyfile /\ cfg' = cfg /\ log' = log
    BY <1>5 DEF Work, Open
  <2>2. QED
    BY <2>1, AccessKept DEF Calm, Quiet, IndInv, AccessInv
<1>6. ASSUME NEW s \in Slots, Seal(s) PROVE AccessInv'
  <2>1. Work(s) /\ job[s].at \in {"seal", "save"} /\ keyfile' = keyfile /\ cfg'.form = "sealed" /\ cfg'.by = User(job[s].kind)
    BY <1>6 DEF Work, Seal, Sealed
  <2>2. Quiet' => Quiet
    BY <1>6, SealLog DEF Seal, Quiet, Calm, LogIs, IndInv
  <2>3. Quiet => cfg'.by # "root"
    BY <2>1, Writers
  <2>4. QED
    BY <2>1, <2>2, <2>3, AccessKept DEF IndInv, AccessInv
<1>7. ASSUME NEW s \in Slots, Import(s) PROVE AccessInv'
  <2>1. Work(s) /\ keyfile' = keyfile /\ cfg' = cfg /\ log' = log
    BY <1>7 DEF Work, Import
  <2>2. QED
    BY <2>1, AccessKept DEF Calm, Quiet, IndInv, AccessInv
<1>8. ASSUME NEW s \in Slots, Save(s) PROVE AccessInv'
  <2>1. Work(s) /\ job[s].at \in {"seal", "save"} /\ keyfile' = keyfile /\ cfg'.form = "sealed" /\ cfg'.by = User(job[s].kind)
    BY <1>8 DEF Work, Save, Sealed
  <2>2. Quiet' => Quiet
    BY <1>8, Writers DEF Save, Quiet, Calm, LogIs, IndInv
  <2>3. Quiet => cfg'.by # "root"
    BY <2>1, Writers
  <2>4. QED
    BY <2>1, <2>2, <2>3, AccessKept DEF IndInv, AccessInv
<1>9. ASSUME NEW s \in Slots, VerifyIntegrity(s) PROVE AccessInv'
  <2>1. Work(s) /\ keyfile' = keyfile /\ cfg' = cfg /\ log' = log
    BY <1>9 DEF Work, VerifyIntegrity
  <2>2. QED
    BY <2>1, AccessKept DEF Calm, Quiet, IndInv, AccessInv
<1>10. ASSUME NEW s \in Slots, Loaded(s) PROVE AccessInv'
  <2>1. Work(s) /\ keyfile' = keyfile /\ cfg' = cfg /\ log' = log
    BY <1>10 DEF Work, Loaded
  <2>2. QED
    BY <2>1, AccessKept DEF Calm, Quiet, IndInv, AccessInv
<1>11. ASSUME NEW s \in Slots, WriteConfigYAML(s) PROVE AccessInv'
  <2>1. Work(s) /\ job[s].at = "yaml"
    BY <1>11 DEF Work, WriteConfigYAML
  <2>2. ~ Quiet
    <3>1. job[s].kind = "setup"
      BY <2>1, Table DEF IndInv, JobInv, Fits
    <3>2. QED
      BY <3>1 DEF IndInv, AccessInv, AccessFits
  <2>3. Quiet' => Quiet
    BY <1>11, YamlLog DEF LogIs, Quiet, Calm, IndInv
  <2>4. QED
    BY <2>2, <2>3 DEF AccessInv
<1>12. ASSUME NEW s \in Slots, NEW v \in 0..2, Answer(s, v) PROVE AccessInv'
  <2>1. Work(s) /\ keyfile' = keyfile /\ cfg' = cfg /\ log' = log
    BY <1>12 DEF Work, Answer
  <2>2. QED
    BY <2>1, AccessKept DEF Calm, Quiet, IndInv, AccessInv
<1>13. ASSUME NEW s \in Slots, NEW k \in Kinds, Begin(s, k) PROVE AccessInv'
  <2>1. Quiet' => Quiet /\ k \notin {"command", "doctor", "setup"}
    BY <1>13, BeginLog DEF LogIs, Quiet, Calm, IndInv
  <2>2. k \notin {"command", "doctor", "setup"} => \A o \in Slots : job'[o] = job[o] \/ AccessFits(job'[o])
    BY <1>13, StartMoves DEF IndInv, Starts, AccessFits, Loaders
  <2>3. QED
    BY <1>13, <2>1, <2>2, AccessStays DEF Begin
<1>14. ASSUME NEW s \in Slots, NEW v \in 0..2, Put(s, v) PROVE AccessInv'
  <2>1. \A o \in Slots : job'[o] = job[o] \/ AccessFits(job'[o])
    BY <1>14, StartMoves DEF IndInv, Starts, AccessFits
  <2>2. QED
    BY <1>14, <2>1, AccessStays DEF Put, Quiet, Calm
<1>15. ASSUME NEW s \in Slots, KillProgram(s) PROVE AccessInv'
  <2>1. PICK dead \in SUBSET Busy : Kill(dead)
    BY <1>15 DEF KillProgram, Kill
  <2>2. Dies /\ keyfile' = keyfile /\ cfg' = cfg
    BY <2>1, KillMoves DEF IndInv, Kill
  <2>3. Quiet' => Quiet
    BY <2>1, KillLog DEF LogIs, Quiet, Calm, IndInv
  <2>4. AccessFits(Idle)
    BY Constants DEF AccessFits
  <2>5. QED
    BY <2>2, <2>3, <2>4, AccessStays DEF Dies
<1>16. ASSUME NEW c \in Content, Edit(c) PROVE AccessInv'
  <2> SUFFICES ASSUME Quiet' PROVE AccessInv'
    BY DEF AccessInv
  <2>1. Quiet
    BY <1>16, EditLog DEF LogIs, Quiet, Calm, IndInv
  <2>2. job' = job /\ keyfile' = keyfile /\ cfg'.by = "install"
    BY <1>16 DEF Edit
  <2>3. \A s \in Slots : AccessFits(job[s])'
    BY <2>1, <2>2 DEF IndInv, AccessInv, AccessFits
  <2>4. QED
    BY <2>1, <2>2, <2>3 DEF IndInv, AccessInv
<1>17. CASE KillServer
  <2>1. PICK dead \in SUBSET Busy : Kill(dead)
    BY <1>17 DEF KillServer, Kill
  <2>2. Dies /\ keyfile' = keyfile /\ cfg' = cfg
    BY <2>1, KillMoves DEF IndInv, Kill
  <2>3. Quiet' => Quiet
    BY <2>1, KillLog DEF LogIs, Quiet, Calm, IndInv
  <2>4. AccessFits(Idle)
    BY Constants DEF AccessFits
  <2>5. QED
    BY <2>2, <2>3, <2>4, AccessStays DEF Dies
<1>18. CASE Stop
  BY <1>18, AccessStays DEF Stop, Quiet, Calm
<1>19. QED
  BY <1>1, <1>2, <1>3, <1>4, <1>5, <1>6, <1>7, <1>8, <1>9, <1>10, <1>11, <1>12, <1>13, <1>14, <1>15, <1>16,
     <1>17, <1>18 DEF Next, Work

\* A program holds what it has read from a configuration that is known.
LEMMA RestMoves ==
  ASSUME IndInv, Sure, NEW s \in Slots, Work(s)
  PROVE  Holds(job'[s]) => Known(job'[s].val)
<1> DEFINE Good == Holds(job'[s]) => Known(job'[s].val)
<1> SUFFICES Good
  OBVIOUS
<1>1. Holds(job[s]) => Known(job[s].val)
  BY DEF IndInv, RestInv
<1>2. ASSUME Known(job'[s].val) PROVE Good
  BY <1>2
<1>3. ASSUME ~ Holds(job'[s]) PROVE Good
  BY <1>3
<1>4. cfg.form = "absent" => Known(Default)
  BY DEF IndInv, RestInv, Known, Default
<1>5. cfg.form # "absent" => Known(cfg.val)
  BY DEF IndInv, RestInv
<1>6. \A to \in {"idle", "ask", "yaml", "open", "save", "verify"} : job'[s].at = to => Good
  BY DEF Holds, KeySteps
<1> HIDE DEF Good
<1>7. Ended(s) => Good
  BY <1>6, Constants DEF Ended
<1>8. Failed(s) => Good
  BY <1>6, <1>7 DEF Failed, Moves
<1>9. job[s].at \in KeySteps /\ Keyless(s) => Good
  BY <1>1, <1>2, <1>8 DEF Keyless, Goes, Moves, Holds, KeySteps
<1>10. CASE ReadMoves(s)
  <2>1. job[s].val = Default /\ ~ job[s].plain
    BY <1>10 DEF ReadMoves, IndInv, JobInv, Fits
  <2>2. CASE Goes(s, "key")
    BY <1>3, <2>1, <2>2 DEF Goes, Moves, Holds, KeySteps
  <2>3. CASE Goes(s, "loaded") /\ cfg.form = "absent"
    BY <1>2, <1>4, <2>1, <2>3 DEF Goes, Moves
  <2>4. CASE cfg.form = "plain" /\ \E to : Moves(s, to, cfg.val, job[s].key, TRUE)
    BY <1>2, <1>5, <2>4 DEF Moves
  <2>5. QED
    BY <1>8, <1>10, <2>2, <2>3, <2>4 DEF ReadMoves
<1>11. ASSUME NEW to \in KeySteps, Goes(s, to), job[s].at \in KeySteps PROVE Good
  <2>1. CASE job[s].plain
    BY <1>1, <1>2, <1>11, <2>1 DEF Goes, Moves, Holds, KeySteps
  <2>2. CASE ~ job[s].plain
    BY <1>3, <1>11, <2>2 DEF Goes, Moves, Holds, KeySteps
  <2>3. QED
    BY <2>1, <2>2
<1>12. ASSUME NEW v, NEW k, NEW p, Moves(s, AfterKey(job[s].kind), v, k, p) PROVE Good
  BY <1>6, <1>12 DEF Moves, AfterKey
<1>13. CASE KeyMoves(s)
  BY <1>9, <1>11, <1>12, <1>13 DEF KeyMoves, KeySteps
<1>14. CASE CreateMoves(s)
  BY <1>9, <1>11, <1>14 DEF CreateMoves, KeySteps
<1>15. CASE WriteMoves(s)
  BY <1>12, <1>15 DEF WriteMoves
<1>16. CASE OpenMoves(s)
  BY <1>2, <1>4, <1>5, <1>8, <1>16 DEF OpenMoves, Moves
<1>17. CASE job[s].at \in {"seal", "import"} /\ (Goes(s, "import") \/ Goes(s, "loaded"))
  BY <1>1, <1>2, <1>17 DEF Goes, Moves, Holds
<1>18. CASE LoadedMoves(s)
  BY <1>6, <1>8, <1>18 DEF LoadedMoves, Goes, Moves
<1>19. CASE AnswerMoves(s)
  BY <1>6, <1>7, <1>19 DEF AnswerMoves, Moves
<1>20. QED
  BY <1>7, <1>10, <1>13, <1>14, <1>15, <1>16, <1>17, <1>18, <1>19, WorkMoves DEF Work, IndInv

\* A step that stores only what is known.
LEMMA RestKept ==
  ASSUME IndInv, NEW s \in Slots, Work(s), log'.rest = log.rest, env' = env, Sure' => Sure,
         cfg'.form = "absent" => cfg.form = "absent",
         Sure' => cfg' = cfg \/ Known(cfg'.val),
         Sure' => server' = server \/ Known(server'.mem)
  PROVE  RestInv'
<1>1. cfg'.form = "absent" => log'.rest = 0
  BY DEF IndInv, RestInv
<1>2. CASE Sure'
  <2>1. \A o \in Slots : Holds(job'[o]) => Known(job'[o].val)
    BY <1>2, FitsMoves, RestMoves DEF IndInv, RestInv
  <2>2. (cfg'.form = "absent" \/ Known(cfg'.val)) /\ (server'.up => Known(server'.mem))
    BY <1>2 DEF IndInv, RestInv
  <2>3. (cfg.form = "absent" \/ Known(cfg.val))' /\ (server.up => Known(server.mem))'
    BY <2>2 DEF Known
  <2>4. \A o \in Slots : (Holds(job[o]) => Known(job[o].val))'
    BY <2>1 DEF Holds, Known
  <2>5. QED
    BY <1>1, <2>3, <2>4 DEF RestInv
<1>3. QED
  BY <1>1, <1>2 DEF RestInv

\* No step but the wizard's and the administrator's changes what is known.
LEMMA RestStays ==
  ASSUME IndInv, log'.rest = log.rest, env' = env, Sure' => Sure, cfg' = cfg,
         server'.up => server.up /\ server'.mem.rest = server.mem.rest,
         \A o \in Slots : job'[o] = job[o] \/ ~ Holds(job'[o])
  PROVE  RestInv'
<1>1. \A o \in Slots : job'[o] = job[o] \/ ~ Holds(job[o])'
  BY DEF Holds
<1>2. QED
  BY <1>1 DEF IndInv, RestInv, Known, Holds, Sure

\* What nobody edits is not lost.
LEMMA RestStep ==
  ASSUME IndInv, Next
  PROVE  RestInv'
<1>1. ASSUME NEW s \in Slots, ReadConfigFile(s) PROVE RestInv'
  <2>1. Work(s) /\ cfg' = cfg /\ log' = log /\ server' = server /\ env' = env
    BY <1>1 DEF Work, ReadConfigFile
  <2>2. QED
    BY <2>1, RestKept DEF Sure
<1>2. ASSUME NEW s \in Slots, ReadKey(s) PROVE RestInv'
  <2>1. Work(s) /\ cfg' = cfg /\ log' = log /\ server' = server /\ env' = env
    BY <1>2 DEF Work, ReadKey
  <2>2. QED
    BY <2>1, RestKept DEF Sure
<1>3. ASSUME NEW s \in Slots, CreateKey(s) PROVE RestInv'
  <2>1. Work(s) /\ cfg' = cfg /\ server' = server /\ env' = env
    BY <1>3 DEF Work, CreateKey
  <2>2. log'.rest = log.rest /\ log'.stale = log.stale /\ log'.wizard = log.wizard
    BY <1>3, WorkMoves, CreateLog DEF CreateMoves, LogIs, IndInv
  <2>3. QED
    BY <2>1, <2>2, RestKept DEF Sure
<1>4. ASSUME NEW s \in Slots, WriteKey(s) PROVE RestInv'
  <2>1. Work(s) /\ cfg' = cfg /\ log' = log /\ server' = server /\ env' = env
    BY <1>4 DEF Work, WriteKey
  <2>2. QED
    BY <2>1, RestKept DEF Sure
<1>5. ASSUME NEW s \in Slots, Open(s) PROVE RestInv'
  <2>1. Work(s) /\ cfg' = cfg /\ log' = log /\ server' = server /\ env' = env
    BY <1>5 DEF Work, Open
  <2>2. QED
    BY <2>1, RestKept DEF Sure
<1>6. ASSUME NEW s \in Slots, Seal(s) PROVE RestInv'
  <2>1. Work(s) /\ server' = server /\ env' = env /\ cfg'.form = "sealed" /\ cfg'.val = job[s].val
    BY <1>6 DEF Work, Seal, Sealed
  <2>2. log'.rest = log.rest /\ (Sure' => Sure)
    BY <1>6, SealLog DEF LogIs, IndInv, Sure
  <2>3. Sure => Known(job[s].val)
    BY <1>6 DEF Seal, IndInv, RestInv, Holds
  <2>4. QED
    BY <2>1, <2>2, <2>3, RestKept DEF Known, Sure
<1>7. ASSUME NEW s \in Slots, Import(s) PROVE RestInv'
  <2>1. Work(s) /\ cfg' = cfg /\ log' = log /\ server' = server /\ env' = env
    BY <1>7 DEF Work, Import
  <2>2. QED
    BY <2>1, RestKept DEF Sure
<1>8. ASSUME NEW s \in Slots, Save(s) PROVE RestInv'
  <2>1. Work(s) /\ server' = server /\ env' = env /\ log' = log /\ cfg'.form = "sealed" /\ cfg'.val = server.mem
    BY <1>8 DEF Work, Save, Sealed
  <2>2. job[s].kind \in Inside
    BY <1>8, Table DEF Save, IndInv, JobInv, Fits, Inside
  <2>3. Sure => Known(server.mem)
    BY <2>2 DEF IndInv, RestInv, JobInv
  <2>4. QED
    BY <2>1, <2>3, RestKept DEF Known, Sure
<1>9. ASSUME NEW s \in Slots, VerifyIntegrity(s) PROVE RestInv'
  <2>1. Work(s) /\ cfg' = cfg /\ log' = log /\ server' = server /\ env' = env
    BY <1>9 DEF Work, VerifyIntegrity
  <2>2. QED
    BY <2>1, RestKept DEF Sure
<1>10. ASSUME NEW s \in Slots, Loaded(s) PROVE RestInv'
  <2>1. Work(s) /\ cfg' = cfg /\ log' = log /\ env' = env /\ job[s].at = "loaded"
    BY <1>10 DEF Work, Loaded
  <2>2. Sure => Known(job[s].val)
    BY <2>1 DEF IndInv, RestInv, Holds
  <2>3. server' = server \/ server'.mem = ApplyEnv(job[s].kind, job[s].val)
    BY <1>10 DEF Loaded
  <2>4. Sure => server' = server \/ Known(server'.mem)
    BY <2>2, <2>3, Applied DEF IndInv, Known
  <2>5. QED
    BY <2>1, <2>4, RestKept DEF Sure
<1>11. ASSUME NEW s \in Slots, WriteConfigYAML(s) PROVE RestInv'
  <2>1. Work(s) /\ server' = server /\ env' = env /\ job[s].at = "yaml"
    BY <1>11 DEF Work, WriteConfigYAML
  <2>2. CASE cfg' = cfg /\ log' = log
    BY <2>1, <2>2, RestKept DEF Sure
  <2>3. CASE ~ (cfg' = cfg /\ log' = log)
    <3>1. ~ Sure'
      BY <1>11, <2>3, YamlLog DEF LogIs, IndInv, Sure
    <3>2. cfg'.form = "plain"
      BY <1>11, <2>3 DEF WriteConfigYAML
    <3>3. QED
      BY <3>1, <3>2 DEF RestInv
  <2>4. QED
    BY <2>2, <2>3
<1>12. ASSUME NEW s \in Slots, NEW v \in 0..2, Answer(s, v) PROVE RestInv'
  <2>1. Work(s) /\ cfg' = cfg /\ log' = log /\ server' = server /\ env' = env
    BY <1>12 DEF Work, Answer
  <2>2. QED
    BY <2>1, RestKept DEF Sure
<1>13. ASSUME NEW s \in Slots, NEW k \in Kinds, Begin(s, k) PROVE RestInv'
  <2>1. \A o \in Slots : job'[o] = job[o] \/ ~ Holds(job'[o])
    BY <1>13, StartMoves DEF IndInv, Starts, Holds
  <2>2. QED
    BY <1>13, <2>1, BeginLog, RestStays DEF Begin, LogIs, IndInv, Sure
<1>14. ASSUME NEW s \in Slots, NEW v \in 0..2, Put(s, v) PROVE RestInv'
  <2>1. \A o \in Slots : job'[o] = job[o] \/ ~ Holds(job'[o])
    BY <1>14, StartMoves DEF IndInv, Starts, Holds
  <2>2. server.up /\ server'.mem.rest = server.mem.rest
    BY <1>14 DEF Put, IndInv, TypeInv, ServerType, Content
  <2>3. QED
    BY <1>14, <2>1, <2>2, RestStays DEF Put, Sure
<1>15. ASSUME NEW s \in Slots, KillProgram(s) PROVE RestInv'
  <2>1. PICK dead \in SUBSET Busy : Kill(dead)
    BY <1>15 DEF KillProgram, Kill
  <2>2. Dies /\ env' = env /\ cfg' = cfg
    BY <2>1, KillMoves DEF IndInv, Kill
  <2>3. log'.rest = log.rest /\ log'.stale = log.stale /\ log'.wizard = log.wizard
    BY <2>1, KillLog DEF LogIs, IndInv
  <2>4. ~ Holds(Idle)
    BY Constants DEF Holds, KeySteps
  <2>5. server'.up => server' = server
    BY <1>15 DEF KillProgram, IndInv, TypeInv, ServerType
  <2>6. QED
    BY <2>2, <2>3, <2>4, <2>5, RestStays DEF Dies, Sure
<1>16. ASSUME NEW c \in Content, Edit(c) PROVE RestInv'
  <2>1. log'.rest = c.rest /\ (Sure' => ~ server.up /\ Busy = {})
    BY <1>16, EditLog DEF LogIs, IndInv, Sure
  <2>2. job' = job /\ server' = server /\ cfg'.form = "plain" /\ cfg'.val = c
    BY <1>16 DEF Edit
  <2>3. ~ Holds(Idle)
    BY Constants DEF Holds, KeySteps
  <2>4. Sure' => \A s \in Slots : ~ Holds(job[s])
    BY <2>1, <2>3 DEF Busy
  <2>5. Sure' => \A s \in Slots : ~ Holds(job[s])'
    BY <2>2, <2>4 DEF Holds
  <2>6. QED
    BY <2>1, <2>2, <2>5 DEF RestInv, Known
<1>17. CASE KillServer
  <2>1. PICK dead \in SUBSET Busy : Kill(dead)
    BY <1>17 DEF KillServer, Kill
  <2>2. Dies /\ env' = env /\ cfg' = cfg
    BY <2>1, KillMoves DEF IndInv, Kill
  <2>3. log'.rest = log.rest /\ log'.stale = log.stale /\ log'.wizard = log.wizard
    BY <2>1, KillLog DEF LogIs, IndInv
  <2>4. ~ Holds(Idle)
    BY Constants DEF Holds, KeySteps
  <2>5. server'.up => server' = server
    BY <1>17 DEF KillServer, IndInv, TypeInv, ServerType
  <2>6. QED
    BY <2>2, <2>3, <2>4, <2>5, RestStays DEF Dies, Sure
<1>18. CASE Stop
  <2>1. ~ server'.up
    BY <1>18 DEF Stop, IndInv, TypeInv, ServerType
  <2>2. QED
    BY <1>18, <2>1, RestStays DEF Stop, Sure
<1>19. QED
  BY <1>1, <1>2, <1>3, <1>4, <1>5, <1>6, <1>7, <1>8, <1>9, <1>10, <1>11, <1>12, <1>13, <1>14, <1>15, <1>16,
     <1>17, <1>18 DEF Next, Work

\* Only a program that found a configuration seals it.
LEMMA SealMoves ==
  ASSUME IndInv, NEW s \in Slots, Work(s)
  PROVE  job'[s].at = "seal" => cfg.form # "absent" /\ \A o \in Slots : o # s => job'[o] = job[o]
<1>1. \A o \in Slots : o # s => job'[o] = job[o]
  BY FitsMoves DEF IndInv
<1>2. AfterKey(job[s].kind) # "seal" /\ Idle.at # "seal"
  BY Constants DEF AfterKey
<1>3. (Ended(s) => job'[s].at # "seal") /\ (Failed(s) => job'[s].at # "seal") /\ (Keyless(s) => job'[s].at # "seal")
  BY <1>2 DEF Ended, Failed, Keyless, Goes, Moves
<1>4. job'[s].at = "seal" => OpenMoves(s) /\ cfg.form = "plain"
  BY <1>2, <1>3, WorkMoves DEF Work, IndInv, ReadMoves, KeyMoves, CreateMoves, WriteMoves, OpenMoves, LoadedMoves, AnswerMoves, Goes, Moves
<1>5. QED
  BY <1>1, <1>4

\* There is a configuration where one is sealed.
LEMMA SealStep ==
  ASSUME IndInv, Next
  PROVE  SealInv'
<1>1. ASSUME NEW s \in Slots, ReadConfigFile(s) PROVE SealInv'
  <2>1. Work(s)
    BY <1>1 DEF Work
  <2>2. \A o \in Slots : job'[o].at = "seal" => cfg.form # "absent"
    BY <2>1, SealMoves, FitsMoves DEF IndInv, SealInv
  <2>3. cfg'.form = "absent" => cfg.form = "absent"
    BY <1>1 DEF ReadConfigFile, Sealed
  <2>4. QED
    BY <2>2, <2>3 DEF SealInv
<1>2. ASSUME NEW s \in Slots, ReadKey(s) PROVE SealInv'
  <2>1. Work(s)
    BY <1>2 DEF Work
  <2>2. \A o \in Slots : job'[o].at = "seal" => cfg.form # "absent"
    BY <2>1, SealMoves, FitsMoves DEF IndInv, SealInv
  <2>3. cfg'.form = "absent" => cfg.form = "absent"
    BY <1>2 DEF ReadKey, Sealed
  <2>4. QED
    BY <2>2, <2>3 DEF SealInv
<1>3. ASSUME NEW s \in Slots, CreateKey(s) PROVE SealInv'
  <2>1. Work(s)
    BY <1>3 DEF Work
  <2>2. \A o \in Slots : job'[o].at = "seal" => cfg.form # "absent"
    BY <2>1, SealMoves, FitsMoves DEF IndInv, SealInv
  <2>3. cfg'.form = "absent" => cfg.form = "absent"
    BY <1>3 DEF CreateKey, Sealed
  <2>4. QED
    BY <2>2, <2>3 DEF SealInv
<1>4. ASSUME NEW s \in Slots, WriteKey(s) PROVE SealInv'
  <2>1. Work(s)
    BY <1>4 DEF Work
  <2>2. \A o \in Slots : job'[o].at = "seal" => cfg.form # "absent"
    BY <2>1, SealMoves, FitsMoves DEF IndInv, SealInv
  <2>3. cfg'.form = "absent" => cfg.form = "absent"
    BY <1>4 DEF WriteKey, Sealed
  <2>4. QED
    BY <2>2, <2>3 DEF SealInv
<1>5. ASSUME NEW s \in Slots, Open(s) PROVE SealInv'
  <2>1. Work(s)
    BY <1>5 DEF Work
  <2>2. \A o \in Slots : job'[o].at = "seal" => cfg.form # "absent"
    BY <2>1, SealMoves, FitsMoves DEF IndInv, SealInv
  <2>3. cfg'.form = "absent" => cfg.form = "absent"
    BY <1>5 DEF Open, Sealed
  <2>4. QED
    BY <2>2, <2>3 DEF SealInv
<1>6. ASSUME NEW s \in Slots, Seal(s) PROVE SealInv'
  <2>1. Work(s)
    BY <1>6 DEF Work
  <2>2. \A o \in Slots : job'[o].at = "seal" => cfg.form # "absent"
    BY <2>1, SealMoves, FitsMoves DEF IndInv, SealInv
  <2>3. cfg'.form = "absent" => cfg.form = "absent"
    BY <1>6 DEF Seal, Sealed
  <2>4. QED
    BY <2>2, <2>3 DEF SealInv
<1>7. ASSUME NEW s \in Slots, Import(s) PROVE SealInv'
  <2>1. Work(s)
    BY <1>7 DEF Work
  <2>2. \A o \in Slots : job'[o].at = "seal" => cfg.form # "absent"
    BY <2>1, SealMoves, FitsMoves DEF IndInv, SealInv
  <2>3. cfg'.form = "absent" => cfg.form = "absent"
    BY <1>7 DEF Import, Sealed
  <2>4. QED
    BY <2>2, <2>3 DEF SealInv
<1>8. ASSUME NEW s \in Slots, Save(s) PROVE SealInv'
  <2>1. Work(s)
    BY <1>8 DEF Work
  <2>2. \A o \in Slots : job'[o].at = "seal" => cfg.form # "absent"
    BY <2>1, SealMoves, FitsMoves DEF IndInv, SealInv
  <2>3. cfg'.form = "absent" => cfg.form = "absent"
    BY <1>8 DEF Save, Sealed
  <2>4. QED
    BY <2>2, <2>3 DEF SealInv
<1>9. ASSUME NEW s \in Slots, VerifyIntegrity(s) PROVE SealInv'
  <2>1. Work(s)
    BY <1>9 DEF Work
  <2>2. \A o \in Slots : job'[o].at = "seal" => cfg.form # "absent"
    BY <2>1, SealMoves, FitsMoves DEF IndInv, SealInv
  <2>3. cfg'.form = "absent" => cfg.form = "absent"
    BY <1>9 DEF VerifyIntegrity, Sealed
  <2>4. QED
    BY <2>2, <2>3 DEF SealInv
<1>10. ASSUME NEW s \in Slots, Loaded(s) PROVE SealInv'
  <2>1. Work(s)
    BY <1>10 DEF Work
  <2>2. \A o \in Slots : job'[o].at = "seal" => cfg.form # "absent"
    BY <2>1, SealMoves, FitsMoves DEF IndInv, SealInv
  <2>3. cfg'.form = "absent" => cfg.form = "absent"
    BY <1>10 DEF Loaded, Sealed
  <2>4. QED
    BY <2>2, <2>3 DEF SealInv
<1>11. ASSUME NEW s \in Slots, WriteConfigYAML(s) PROVE SealInv'
  <2>1. Work(s)
    BY <1>11 DEF Work
  <2>2. \A o \in Slots : job'[o].at = "seal" => cfg.form # "absent"
    BY <2>1, SealMoves, FitsMoves DEF IndInv, SealInv
  <2>3. cfg'.form = "absent" => cfg.form = "absent"
    BY <1>11 DEF WriteConfigYAML, Sealed
  <2>4. QED
    BY <2>2, <2>3 DEF SealInv
<1>12. ASSUME NEW s \in Slots, NEW v \in 0..2, Answer(s, v) PROVE SealInv'
  <2>1. Work(s)
    BY <1>12 DEF Work
  <2>2. \A o \in Slots : job'[o].at = "seal" => cfg.form # "absent"
    BY <2>1, SealMoves, FitsMoves DEF IndInv, SealInv
  <2>3. cfg'.form = "absent" => cfg.form = "absent"
    BY <1>12 DEF Answer, Sealed
  <2>4. QED
    BY <2>2, <2>3 DEF SealInv
<1>13. ASSUME NEW s \in Slots, NEW k \in Kinds, Begin(s, k) PROVE SealInv'
  <2>1. \A o \in Slots : job'[o] = job[o] \/ job'[o].at # "seal"
    BY <1>13, StartMoves, KillMoves, Constants DEF Begin, IndInv, Starts, Dies
  <2>2. QED
    BY <1>13, <2>1 DEF Begin, IndInv, SealInv
<1>14. ASSUME NEW s \in Slots, NEW v \in 0..2, Put(s, v) PROVE SealInv'
  <2>1. \A o \in Slots : job'[o] = job[o] \/ job'[o].at # "seal"
    BY <1>14, StartMoves, KillMoves, Constants DEF Put, IndInv, Starts, Dies
  <2>2. QED
    BY <1>14, <2>1 DEF Put, IndInv, SealInv
<1>15. ASSUME NEW s \in Slots, KillProgram(s) PROVE SealInv'
  <2>1. \A o \in Slots : job'[o] = job[o] \/ job'[o].at # "seal"
    BY <1>15, StartMoves, KillMoves, Constants DEF KillProgram, Kill, IndInv, Starts, Dies
  <2>2. QED
    BY <1>15, <2>1 DEF KillProgram, Kill, IndInv, SealInv
<1>16. ASSUME NEW c \in Content, Edit(c) PROVE SealInv'
  <2>1. \A o \in Slots : job'[o] = job[o] \/ job'[o].at # "seal"
    BY <1>16, StartMoves, KillMoves, Constants DEF Edit, IndInv, Starts, Dies
  <2>2. QED
    BY <1>16, <2>1 DEF Edit, IndInv, SealInv
<1>17. CASE KillServer
  <2>1. \A o \in Slots : job'[o] = job[o] \/ job'[o].at # "seal"
    BY <1>17, StartMoves, KillMoves, Constants DEF KillServer, Kill, IndInv, Starts, Dies
  <2>2. QED
    BY <1>17, <2>1 DEF KillServer, Kill, IndInv, SealInv
<1>18. CASE Stop
  <2>1. \A o \in Slots : job'[o] = job[o] \/ job'[o].at # "seal"
    BY <1>18, StartMoves, KillMoves, Constants DEF Stop, IndInv, Starts, Dies
  <2>2. QED
    BY <1>18, <2>1 DEF Stop, IndInv, SealInv
<1>19. QED
  BY <1>1, <1>2, <1>3, <1>4, <1>5, <1>6, <1>7, <1>8, <1>9, <1>10, <1>11, <1>12, <1>13, <1>14, <1>15, <1>16,
     <1>17, <1>18 DEF Next, Work

\* The invariant holds initially.
LEMMA IndInit ==
  ASSUME Init
  PROVE  IndInv
<1> USE DEF Init
<1>1. cfg.form \in {"absent", "plain"} /\ cfg.val \in Content /\ cfg.key = 0 /\ cfg.by = "install"
      /\ cfg \in [form : {"absent", "plain", "sealed"}, val : Content, key : Nat, by : {"install", "root", "agent", "fyrwall"}]
      /\ (cfg.form = "absent" => cfg.val.rest = 0) /\ cfg.val.rest \in 0..1
  BY DEF Absent, Default, Content
<1>2. TypeInv
  <2>1. CfgType
    BY <1>1 DEF CfgType
  <2>2. KeyType /\ CopyType
    BY Constants DEF KeyType, CopyType, NoFile, NoCopy
  <2>3. ServerType /\ JobType /\ CountType
    BY Constants DEF ServerType, JobType, CountType
  <2>4. EnvType
    BY ConfigStoreAssumption DEF EnvType
  <2>5. LogType
    BY <1>1 DEF LogType
  <2>6. QED
    BY <2>1, <2>2, <2>3, <2>4, <2>5 DEF TypeInv
<1>3. NumberInv
  BY <1>1, Constants DEF NumberInv, NoFile
<1>4. JobInv
  BY Constants, Table DEF JobInv, Fits, Keyed, Inside
<1>5. KeyInv
  BY <1>1, Constants DEF KeyInv, KeyFits, Keyed
<1>6. AccessInv
  BY <1>1, Constants DEF AccessInv, AccessFits
<1>7. RestInv
  BY <1>1, Constants DEF RestInv, Known, Holds, KeySteps
<1>8. SealInv
  BY Constants DEF SealInv
<1>9. QED
  BY <1>2, <1>3, <1>4, <1>5, <1>6, <1>7, <1>8 DEF IndInv

\* Every step keeps the invariant.
LEMMA IndNext ==
  ASSUME IndInv, [Next]_vars
  PROVE  IndInv'
<1>1. CASE Next
  BY <1>1, TypeStep, NumberStep, JobStep, KeyStep, AccessStep, RestStep, SealStep DEF IndInv
<1>2. CASE UNCHANGED vars
  <2>1. cfg' = cfg /\ keyfile' = keyfile /\ imported' = imported /\ server' = server /\ env' = env /\ job' = job
        /\ count' = count /\ log' = log
    BY <1>2 DEF vars
  <2>2. TypeInv' /\ NumberInv' /\ JobInv' /\ SealInv'
    BY <2>1, Kept DEF IndInv, TypeInv, NumberInv, JobInv, SealInv
  <2>3. KeyInv' /\ AccessInv' /\ RestInv'
    BY <2>1 DEF IndInv, KeyInv, AccessInv, RestInv, KeyFits, AccessFits, Known, Calm, Quiet, Sure
  <2>4. QED
    BY <2>2, <2>3 DEF IndInv
<1>3. QED
  BY <1>1, <1>2

\* The invariant always holds.
THEOREM Invariance == Spec => []IndInv
BY IndInit, IndNext, PTL DEF Spec

\* Every type that TypeOK states follows from the invariant.
LEMMA Types ==
  ASSUME IndInv
  PROVE  TypeOK
<1> USE DEF IndInv
<1>1. cfg \in [form : {"absent", "plain", "sealed"}, val : Content, key : 0..count.keys, by : {"install", "root", "agent", "fyrwall"}]
  <2>1. cfg.key \in 0..count.keys
    BY Keys DEF NumberInv
  <2>2. QED
    BY <2>1 DEF TypeInv, CfgType
<1>2. (cfg.form = "sealed") = (cfg.key # 0)
  BY DEF TypeInv, CfgType
<1>3. keyfile = NoFile \/ keyfile \in [owner : {"root", "fyrwall"}, val : 0..count.keys]
  <2>1. keyfile.val \in 0..count.keys
    BY Keys DEF NumberInv
  <2>2. QED
    BY <2>1, Made DEF TypeInv, KeyType
<1>4. imported = NoCopy \/ imported \in [owner : {"root", "fyrwall"}, val : Content]
  BY DEF TypeInv, CopyType, NoCopy
<1>5. server.up \in BOOLEAN /\ server.mem \in Content
  BY DEF TypeInv, ServerType
<1>6. \A s \in Busy : job[s].kind \in Kinds /\ job[s].val \in Content /\ job[s].key \in 0..count.keys
  <2> TAKE s \in Busy
  <2>1. s \in Slots /\ job[s] \in Job /\ job[s].kind # "none"
    BY DEF Busy, JobInv, Fits, TypeInv, JobType
  <2>2. job[s].kind \in Kinds /\ job[s].val \in Content
    BY <2>1 DEF Job
  <2>3. job[s].key \in 0..count.keys
    BY <2>1, Keys DEF NumberInv
  <2>4. QED
    BY <2>2, <2>3
<1>7. QED
  BY <1>1, <1>2, <1>3, <1>4, <1>5, <1>6 DEF TypeOK

\* secureconfig.go:64: however many programs make, read and lose their way with
\* the key, what is encrypted on disk can be opened with the key on disk.
THEOREM Openable == Spec => []SealedIsOpenable
<1>1. ASSUME IndInv PROVE SealedIsOpenable
  <2>1. TypeOK
    BY <1>1, Types
  <2>2. ~ log.torn /\ ~ log.twice => Loadable("root")
    BY <1>1 DEF IndInv, KeyInv, Calm, Loadable, ReadsConfig, KeyFor, Owns
  <2>3. QED
    BY <2>1, <2>2 DEF SealedIsOpenable
<1>2. QED
  BY <1>1, Invariance, PTL

\* config.go:168: the agent, the server and its handlers never lock the server
\* out of its configuration.
THEOREM AccessKeeps == Spec => []ServerKeepsAccess
<1>1. ASSUME IndInv PROVE ServerKeepsAccess
  BY <1>1 DEF IndInv, KeyInv, AccessInv, Calm, Quiet, ServerKeepsAccess, Loadable, ReadsConfig, KeyFor, Owns, Owner
<1>2. QED
  BY <1>1, Invariance, PTL

\* config.go:372: what neither the wizard nor the settings page knows is not lost.
THEOREM RestKeeps == Spec => []RestIsKept
<1>1. ASSUME IndInv PROVE RestIsKept
  BY <1>1 DEF IndInv, RestInv, Known, Sure, RestIsKept
<1>2. QED
  BY <1>1, Invariance, PTL
=============================================================================
