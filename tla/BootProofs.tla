------------------------------ MODULE BootProofs ------------------------------
(***************************************************************************)
(* Proofs about Boot, for any number of migrations, crashes and changes:   *)
(* the schema a server works on is complete, an agent that touches the     *)
(* firewall is the program that was recorded first, and there is one CA.   *)
(***************************************************************************)
EXTENDS Boot, WellFoundedInduction, TLAPS

Releases == (Nat \ {0}) \union {Damaged}
Process == [at : ServerSteps \union AgentSteps, bin : Releases \union {None},
            own : Hosts \union {"unknown"}, ca : Nat]

(***************************************************************************)
(* The inductive invariant.                                                *)
(***************************************************************************)

\* Where the programs are; one that runs is some release or damaged.
StepsOf(p) == IF p = "server" THEN ServerSteps ELSE AgentSteps
ProcInv ==
  /\ proc \in [Programs -> Process]
  /\ \A p \in Programs : /\ proc[p].at \in StepsOf(p)
                         /\ proc[p].at \notin Ended => proc[p].bin # None

\* What the other variables hold, whatever it means.
TypeInv ==
  /\ schema \in SUBSET (1..Latest) /\ db \in BOOLEAN /\ cli \in BOOLEAN
  /\ todo \in [{"server", "cli"} -> SUBSET (1..Latest)]
  /\ ca \in [cert : Numbers, key : Numbers]
  /\ record \in [Programs -> [key : Numbers, bin : Releases \union {None, Torn}, mac : Numbers]]
  /\ bin \in Releases /\ host \in Hosts
  /\ count \in [crashes : Nat, changes : Nat, made : Nat]
  /\ log \in [torn : BOOLEAN, tampered : BOOLEAN, first : Releases \union {None}, ca : 0..count.made]

\* What a migrator no longer wants was applied, by itself or by another; so
\* the next one it wants has all before it in the schema.
SchemaInv ==
  /\ \A v \in schema : 1..v \subseteq schema
  /\ At("server", "migrate") => \A v \in 1..Latest : v \in todo["server"] \union schema
  /\ cli => \A v \in 1..Latest : v \in todo["cli"] \union schema
  /\ proc["server"].at \notin Ended \union {"open", "migrate"} => schema = 1..Latest

\* Until a CA got past the server its files come one after the other; from
\* then on both are there, whole, and stay.
CaInv ==
  /\ ca.key # None => ca.cert # None
  /\ At("server", "cert") => ca = [cert |-> None, key |-> None]
  /\ At("server", "cakey") => /\ ca.cert = proc["server"].ca /\ ca.cert \notin {None, Torn}
                              /\ ca.key = None
  /\ At("server", "cert") \/ At("server", "cakey") => log.ca = None
  /\ ca.key \notin {None, Torn} /\ ca.cert # Torn => ca.key = ca.cert
  /\ log.ca # None => ca = [cert |-> log.ca, key |-> log.ca]
  /\ proc["server"].at \in {"bind", "up"} => log.ca # None /\ proc["server"].ca = log.ca

\* The agent's record is absent, torn, or of the program that was recorded
\* first, which is the only one to get past it.
RecordInv ==
  /\ \A p \in Programs : record[p].bin # None => record[p].key # None
  /\ \A p \in Programs : At(p, "rec") => record[p].key # None
  /\ record["agent"].bin = None => log.first = None
  /\ record["agent"].bin \notin {None, Torn} => record["agent"].bin = log.first
  /\ proc["agent"].at \in {"key", "rec"} => record["agent"].bin = None
  /\ AgentUnchanged

\* Until its check a program is the file that has its path, unless that was
\* replaced; what it then records is what it read.
CheckInv ==
  /\ check \in [Programs -> [hash : Releases \union {None}, swapped : BOOLEAN]]
  /\ \A p \in Programs :
       /\ proc[p].at \in Unchecked /\ ~ check[p].swapped => proc[p].bin = bin
       /\ At(p, "rec") => check[p].hash # None /\ (~ check[p].swapped => check[p].hash = proc[p].bin)

IndInv == ProcInv /\ TypeInv /\ SchemaInv /\ CaInv /\ RecordInv /\ CheckInv

(***************************************************************************)
(* Lemmas.                                                                 *)
(***************************************************************************)

\* A set of numbers that is not empty has a least one.
LEMMA Least ==
  ASSUME NEW S \in SUBSET Nat, S # {}
  PROVE  \E x \in S : \A y \in S : x <= y
<1> DEFINE R == OpToRel(<, Nat)
<1>1. IsWellFoundedOn(R, Nat)
  BY NatLessThanWellFounded
<1>2. \A x, y \in Nat : y < x => <<y, x>> \in R
  BY DEF OpToRel
<1>3. PICK x \in S : \A y \in S : <<y, x>> \notin R
  <2> HIDE DEF R
  <2>1. QED
    BY <1>1, WFMin
<1>4. ASSUME NEW y \in S PROVE x <= y
  <2>1. x \in Nat /\ y \in Nat /\ ~ (y < x)
    BY <1>2, <1>3
  <2>2. QED
    BY <2>1
<1>5. QED
  BY <1>4

\* Min is that one.
LEMMA MinIs ==
  ASSUME NEW S \in SUBSET Nat, S # {}
  PROVE  Min(S) \in S /\ \A y \in S : Min(S) <= y
BY Least DEF Min

\* A bounded one has a greatest one too, which is Max.
LEMMA MaxIs ==
  ASSUME NEW n \in Nat, NEW S \in SUBSET (1..n), S # {}
  PROVE  Max(S) \in S /\ \A y \in S : Max(S) >= y
<1> DEFINE T == {k \in Nat : \E x \in S : k = n - x}
<1>1. T \in SUBSET Nat /\ T # {}
  <2>1. PICK x \in S : TRUE
    OBVIOUS
  <2>2. n - x \in Nat
    OBVIOUS
  <2>3. QED
    BY <2>2
<1>2. PICK k \in T : \A y \in T : k <= y
  <2> HIDE DEF T
  <2>1. QED
    BY <1>1, Least
<1>3. PICK x \in S : k = n - x
  BY <1>2
<1>4. \A y \in S : x >= y
  <2>1. ASSUME NEW y \in S PROVE x >= y
    <3>1. n - y \in T
      OBVIOUS
    <3>2. n - x <= n - y
      BY <1>2, <1>3, <3>1
    <3>3. QED
      BY <3>2
  <2>2. QED
    BY <2>1
<1>5. QED
  BY <1>4 DEF Max

\* What is not pending was applied, if the schema has no gap.
LEMMA PendingIsRest ==
  ASSUME TypeInv, \A v \in schema : 1..v \subseteq schema
  PROVE  Pending \in SUBSET (1..Latest) /\ \A v \in 1..Latest : v \in Pending \union schema
<1>1. CASE schema = {}
  BY <1>1 DEF Pending, Current
<1>2. CASE schema # {}
  <2>1. Max(schema) \in schema /\ schema \in SUBSET (1..Latest)
    BY <1>2, MaxIs, BootAssumption DEF TypeInv
  <2>2. Current = Max(schema)
    BY <1>2 DEF Current
  <2>3. 1..Current \subseteq schema
    BY <2>1, <2>2
  <2>4. QED
    <3>0. Latest \in Nat
      BY BootAssumption
    <3>1. Current \in 1..Latest
      BY <2>1, <2>2
    <3>1a. Current \in Nat
      BY <3>0, <3>1
    <3>2. \A v \in 1..Latest : v \in Pending \/ v \in 1..Current
      BY <3>0, <3>1a DEF Pending
    <3>3. QED
      BY <2>3, <3>2 DEF Pending
<1>3. QED
  BY <1>1, <1>2

\* A program moves on alone, and keeps what it is.
Moved(p, s) ==
  /\ proc'[p].at = s /\ proc'[p].bin = proc[p].bin /\ proc'[p].ca = proc[p].ca
  /\ \A q \in Programs : q # p => proc'[q] = proc[q]

\* A program that goes on to another step does nothing else.
LEMMA GoMoves ==
  ASSUME ProcInv, NEW p \in Programs, NEW s \in StepsOf(p), s \in Ended \/ proc[p].bin # None, Go(p, s)
  PROVE  ProcInv' /\ Moved(p, s)
<1>1. proc[p] \in Process /\ s \in ServerSteps \union AgentSteps
  BY DEF ProcInv, StepsOf
<1>2. proc'[p] = [proc[p] EXCEPT !.at = s] /\ \A q \in Programs : q # p => proc'[q] = proc[q]
  BY DEF Go, ProcInv
<1>3. LET r == [proc[p] EXCEPT !.at = s]
      IN r \in Process /\ r.at = s /\ r.bin = proc[p].bin /\ r.ca = proc[p].ca
  BY <1>1 DEF Process
<1>4. proc' \in [Programs -> Process]
  BY <1>2, <1>3 DEF Go, ProcInv
<1>5. Moved(p, s)
  BY <1>2, <1>3 DEF Moved
<1>6. ProcInv'
  BY <1>2, <1>3, <1>4 DEF ProcInv
<1>7. QED
  BY <1>5, <1>6

\* So does one that learns the ownership,
LEMMA OwnMoves ==
  ASSUME ProcInv, NEW p \in Programs, NEW s \in StepsOf(p), s \in Ended \/ proc[p].bin # None,
         NEW own \in Hosts \union {"unknown"}, proc' = [proc EXCEPT ![p].at = s, ![p].own = own]
  PROVE  ProcInv' /\ Moved(p, s)
<1>1. proc[p] \in Process /\ s \in ServerSteps \union AgentSteps
  BY DEF ProcInv, StepsOf
<1> DEFINE r == [proc[p] EXCEPT !.at = s, !.own = own]
<1>2. r \in Process /\ r.at = s /\ r.bin = proc[p].bin /\ r.ca = proc[p].ca
  BY <1>1 DEF Process
<1>3. proc'[p] = r /\ (\A q \in Programs : q # p => proc'[q] = proc[q]) /\ proc' \in [Programs -> Process]
  BY <1>2 DEF ProcInv
<1> HIDE DEF r
<1>4. ProcInv'
  BY <1>2, <1>3 DEF ProcInv
<1>5. QED
  BY <1>2, <1>3, <1>4 DEF Moved

\* or learns it where it is.
LEMMA LearnMoves ==
  ASSUME ProcInv, NEW p \in Programs, NEW s \in StepsOf(p), s \in Ended \/ proc[p].bin # None,
         s = proc[p].at, NEW own \in Hosts \union {"unknown"}, proc' = [proc EXCEPT ![p].own = own]
  PROVE  ProcInv' /\ Moved(p, s)
<1>1. proc[p] \in Process /\ s \in ServerSteps \union AgentSteps
  BY DEF ProcInv, StepsOf
<1> DEFINE r == [proc[p] EXCEPT !.own = own]
<1>2. r \in Process /\ r.at = s /\ r.bin = proc[p].bin /\ r.ca = proc[p].ca
  BY <1>1 DEF Process
<1>3. proc'[p] = r /\ (\A q \in Programs : q # p => proc'[q] = proc[q]) /\ proc' \in [Programs -> Process]
  BY <1>2 DEF ProcInv
<1> HIDE DEF r
<1>4. ProcInv'
  BY <1>2, <1>3 DEF ProcInv
<1>5. QED
  BY <1>2, <1>3, <1>4 DEF Moved

\* A server that takes a CA.
LEMMA CaMoves ==
  ASSUME ProcInv, NEW p \in Programs, NEW s \in StepsOf(p), s \in Ended \/ proc[p].bin # None,
         NEW c \in Nat, proc' = [proc EXCEPT ![p].at = s, ![p].ca = c]
  PROVE  /\ ProcInv'
         /\ proc'[p].at = s /\ proc'[p].bin = proc[p].bin /\ proc'[p].ca = c
         /\ \A q \in Programs : q # p => proc'[q] = proc[q]
<1>1. proc[p] \in Process /\ s \in ServerSteps \union AgentSteps
  BY DEF ProcInv, StepsOf
<1> DEFINE r == [proc[p] EXCEPT !.at = s, !.ca = c]
<1>2. r \in Process /\ r.at = s /\ r.bin = proc[p].bin /\ r.ca = c
  BY <1>1 DEF Process
<1>3. proc'[p] = r /\ (\A q \in Programs : q # p => proc'[q] = proc[q]) /\ proc' \in [Programs -> Process]
  BY <1>2 DEF ProcInv
<1> HIDE DEF r
<1>4. ProcInv'
  BY <1>2, <1>3 DEF ProcInv
<1>5. QED
  BY <1>2, <1>3, <1>4 DEF Moved

\* A program that starts.
LEMMA StartMoves ==
  ASSUME ProcInv, TypeInv, NEW p \in Programs, Start(p)
  PROVE  /\ ProcInv'
         /\ proc'[p].at = (IF p = "server" THEN "open" ELSE "verify") /\ proc'[p].bin = bin /\ proc'[p].ca = None
         /\ \A q \in Programs : q # p => proc'[q] = proc[q]
<1> DEFINE at == IF p = "server" THEN "open" ELSE "verify"
           r == [at |-> at, bin |-> bin, own |-> "unknown", ca |-> None]
<1>1. at \in StepsOf(p) /\ at \in ServerSteps \union AgentSteps
  BY DEF StepsOf, ServerSteps, AgentSteps
<1>2. bin \in Releases /\ bin # None /\ None \in Nat
  BY DEF TypeInv, Releases, None, Damaged
<1>3. r \in Process /\ r.at = at /\ r.bin = bin /\ r.ca = None
  <2> HIDE DEF at
  <2>1. QED
    BY <1>1, <1>2 DEF Process
<1>4. proc' = [proc EXCEPT ![p] = r]
  BY DEF Start
<1> HIDE DEF r
<1>5. /\ proc'[p] = r /\ proc' \in [Programs -> Process]
      /\ \A q \in Programs : q # p => proc'[q] = proc[q]
  BY <1>3, <1>4 DEF ProcInv
<1> HIDE DEF at
<1>6. ProcInv'
  BY <1>1, <1>2, <1>3, <1>5 DEF ProcInv
<1>7. QED
  BY <1>3, <1>5, <1>6 DEF at

\* The programs go the ways they have.
LEMMA ProcStep ==
  ASSUME IndInv, Next
  PROVE  ProcInv'
<1>1. ASSUME NEW p \in Programs, Start(p) PROVE ProcInv'
  BY <1>1, StartMoves DEF IndInv
<1>2. ASSUME NEW p \in Programs, Kill(p) PROVE ProcInv'
  BY <1>2, GoMoves DEF IndInv, ProcInv, At, Kill, Passed, Refused, Programs, StepsOf, Ended, ServerSteps, AgentSteps
<1>3. CASE OpenDB
  BY <1>3, GoMoves DEF IndInv, ProcInv, At, OpenDB, Passed, Refused, Programs, StepsOf, Ended, ServerSteps, AgentSteps
<1>4. CASE MigrateServer
  BY <1>4 DEF IndInv, ProcInv, MigrateServer, Apply
<1>5. CASE Migrated
  BY <1>5, GoMoves DEF IndInv, ProcInv, At, Migrated, Passed, Refused, Programs, StepsOf, Ended, ServerSteps, AgentSteps
<1>6. ASSUME NEW p \in Programs, Verify(p) PROVE ProcInv'
  BY <1>6, GoMoves DEF IndInv, ProcInv, At, Verify, Passed, Refused, Programs, StepsOf, Ended, ServerSteps, AgentSteps
<1>7. ASSUME NEW p \in Programs, HostKey(p) PROVE ProcInv'
  BY <1>7, GoMoves DEF IndInv, ProcInv, At, HostKey, Passed, Refused, Programs, StepsOf, Ended, ServerSteps, AgentSteps
<1>8. ASSUME NEW p \in Programs, Record(p) PROVE ProcInv'
  BY <1>8, GoMoves DEF IndInv, ProcInv, At, Record, Passed, Refused, Programs, StepsOf, Ended, ServerSteps, AgentSteps
<1>9. CASE Capabilities
  <2>1. Answer \in Hosts \union {"unknown"}
    BY DEF IndInv, ProcInv, Process, Answer, Programs
  <2>2. CASE Up("agent")
    BY <1>9, <2>1, <2>2, OwnMoves DEF IndInv, ProcInv, At, Capabilities, Programs, StepsOf, Ended, ServerSteps, AgentSteps
  <2>3. CASE ~ Up("agent")
    BY <1>9, <2>3, GoMoves DEF IndInv, ProcInv, At, Capabilities, Programs, StepsOf, Ended, ServerSteps, AgentSteps
  <2>4. QED
    BY <2>2, <2>3
<1>10. CASE NewCA
  <2>1. ca.cert = Torn \/ ca.cert \in Nat
    BY DEF IndInv, TypeInv, Numbers
  <2>2. QED
    BY <1>10, <2>1, GoMoves, CaMoves DEF IndInv, ProcInv, At, NewCA, Programs, StepsOf, Ended, ServerSteps, AgentSteps
<1>11. CASE WriteCert
  <2>1. count'.made \in Nat
    BY <1>11 DEF IndInv, TypeInv, WriteCert
  <2>2. QED
    BY <1>11, <2>1, CaMoves DEF IndInv, ProcInv, At, WriteCert, Programs, StepsOf, Ended, ServerSteps, AgentSteps
<1>12. CASE WriteKey
  BY <1>12, GoMoves DEF IndInv, ProcInv, At, WriteKey, Passed, Refused, Programs, StepsOf, Ended, ServerSteps, AgentSteps
<1>13. CASE BindListener
  BY <1>13, GoMoves DEF IndInv, ProcInv, At, BindListener, Passed, Refused, Programs, StepsOf, Ended, ServerSteps, AgentSteps
<1>14. CASE DetectBackend
  <2>1. host \in Hosts
    BY DEF IndInv, TypeInv
  <2>2. QED
    BY <1>14, <2>1, OwnMoves DEF IndInv, ProcInv, At, DetectBackend, Programs, StepsOf, Ended, ServerSteps, AgentSteps
<1>15. CASE Listen
  BY <1>15, GoMoves DEF IndInv, ProcInv, At, Listen, Passed, Refused, Programs, StepsOf, Ended, ServerSteps, AgentSteps
<1>16. CASE Tick
  <2>1. Answer \in Hosts \union {"unknown"}
    BY DEF IndInv, ProcInv, Process, Answer, Programs
  <2>2. CASE Up("agent")
    BY <1>16, <2>1, <2>2, LearnMoves DEF IndInv, ProcInv, At, Tick, Programs, StepsOf, Ended, ServerSteps, AgentSteps
  <2>3. CASE ~ Up("agent")
    BY <1>16, <2>3 DEF IndInv, ProcInv, Tick
  <2>4. QED
    BY <2>2, <2>3
<1>17. CASE Refresh
  <2>1. Answer \in Hosts \union {"unknown"}
    BY DEF IndInv, ProcInv, Process, Answer, Programs
  <2>2. QED
    BY <1>17, <2>1, LearnMoves DEF IndInv, ProcInv, Up, At, Refresh, Programs, StepsOf, Ended, ServerSteps, AgentSteps
<1>18. CASE RunMigrations
  BY <1>18 DEF IndInv, ProcInv, RunMigrations
<1>19. CASE MigrateByHand
  BY <1>19 DEF IndInv, ProcInv, MigrateByHand, Apply
<1>20. CASE MigrationsEnd
  BY <1>20 DEF IndInv, ProcInv, MigrationsEnd
<1>21. CASE Upgrade
  BY <1>21 DEF IndInv, ProcInv, Upgrade
<1>22. CASE Damage
  BY <1>22 DEF IndInv, ProcInv, Damage
<1>23. ASSUME NEW h \in Hosts, ChangeHost(h) PROVE ProcInv'
  BY <1>23 DEF IndInv, ProcInv, ChangeHost
<1>24. QED
    BY <1>1, <1>2, <1>3, <1>4, <1>5, <1>6, <1>7, <1>8, <1>9, <1>10, <1>11, <1>12, <1>13, <1>14, <1>15,
     <1>16, <1>17, <1>18, <1>19, <1>20, <1>21, <1>22, <1>23 DEF Next, ServerStep, AgentStep, Integrity,
     Programs

\* Every step keeps the types.
LEMMA TypeStep ==
  ASSUME IndInv, Next
  PROVE  TypeInv'
<1>1. ASSUME NEW p \in Programs, Start(p) PROVE TypeInv'
  BY <1>1 DEF IndInv, TypeInv, Start, disk, Numbers, Changed
<1>2. ASSUME NEW p \in Programs, Kill(p) PROVE TypeInv'
  <2>1. count' = [count EXCEPT !.crashes = @ + 1] /\ Numbers' = Numbers /\ Torn \in Numbers
    BY <1>2 DEF Kill, IndInv, TypeInv, Numbers
  <2>2. PICK torn \in BOOLEAN :
          LET Half(step) == torn /\ At(p, step)
          IN /\ ca' = [cert |-> IF Half("cert") THEN Torn ELSE ca.cert, key |-> IF Half("cakey") THEN Torn ELSE ca.key]
             /\ record' = [record EXCEPT ![p].key = IF Half("key") /\ @ = None THEN Torn ELSE @,
                                        ![p].bin = IF Half("rec") THEN Torn ELSE @]
    BY <1>2 DEF Kill
  <2>3. ca' \in [cert : Numbers, key : Numbers]
    BY <2>1, <2>2 DEF IndInv, TypeInv
  <2>4. record' \in [Programs -> [key : Numbers, bin : Releases \union {None, Torn}, mac : Numbers]]
    <3> DEFINE key == IF torn /\ At(p, "key") /\ record[p].key = None THEN Torn ELSE record[p].key
               rbin == IF torn /\ At(p, "rec") THEN Torn ELSE record[p].bin
    <3>1. record' = [record EXCEPT ![p].key = key, ![p].bin = rbin]
      BY <2>2
    <3>2. key \in Numbers /\ rbin \in Releases \union {None, Torn}
      BY <2>1 DEF IndInv, TypeInv
    <3> HIDE DEF key, rbin
    <3>3. QED
      BY <3>1, <3>2 DEF IndInv, TypeInv
  <2>5. log' \in [torn : BOOLEAN, tampered : BOOLEAN, first : Releases \union {None}, ca : 0..count.made]
    <3> DEFINE b == log.torn \/ ca' # ca \/ record' # record \/ At(p, "cakey")
    <3>1. log' = [log EXCEPT !.torn = b] /\ b \in BOOLEAN
      BY <1>2 DEF Kill, IndInv, TypeInv
    <3> HIDE DEF b
    <3>2. QED
      BY <3>1 DEF IndInv, TypeInv
  <2>6. todo' \in [{"server", "cli"} -> SUBSET (1..Latest)]
    BY <1>2 DEF Kill, IndInv, TypeInv
  <2>7. count' \in [crashes : Nat, changes : Nat, made : Nat] /\ count'.made = count.made
    BY <2>1 DEF IndInv, TypeInv
  <2>8. QED
    BY <1>2, <2>1, <2>3, <2>4, <2>5, <2>6, <2>7 DEF Kill, IndInv, TypeInv
<1>3. CASE OpenDB
  <2>1. Pending \in SUBSET (1..Latest)
    BY PendingIsRest DEF IndInv, SchemaInv
  <2>2. QED
    BY <1>3, <2>1 DEF IndInv, TypeInv, OpenDB, disk, Numbers
<1>4. CASE MigrateServer
  <2>1. Oldest(todo["server"]) \in 1..Latest
    BY <1>4, MinIs, BootAssumption DEF MigrateServer, Apply, Oldest, IndInv, TypeInv
  <2>2. QED
    BY <1>4, <2>1 DEF IndInv, TypeInv, MigrateServer, Apply, Numbers
<1>5. CASE Migrated
  BY <1>5 DEF IndInv, TypeInv, Migrated, disk, Numbers, Changed
<1>6. ASSUME NEW p \in Programs, Verify(p) PROVE TypeInv'
  BY <1>6 DEF IndInv, TypeInv, Verify, disk, Numbers, Changed
<1>7. ASSUME NEW p \in Programs, HostKey(p) PROVE TypeInv'
  BY <1>7 DEF IndInv, TypeInv, HostKey, disk, Numbers, Changed
<1>8. ASSUME NEW p \in Programs, Record(p) PROVE TypeInv'
  <2>1. check[p].hash \in Releases /\ record[p].key \in Numbers
    BY <1>8 DEF Record, IndInv, CheckInv, TypeInv
  <2>2. record' \in [Programs -> [key : Numbers, bin : Releases \union {None, Torn}, mac : Numbers]]
    BY <1>8, <2>1 DEF Record, IndInv, TypeInv
  <2>3. log' \in [torn : BOOLEAN, tampered : BOOLEAN, first : Releases \union {None}, ca : 0..count.made]
    BY <1>8, <2>1 DEF Record, IndInv, TypeInv
  <2>4. QED
    BY <1>8, <2>2, <2>3 DEF IndInv, TypeInv, Record, Numbers
<1>9. CASE Capabilities
  BY <1>9 DEF IndInv, TypeInv, Capabilities, disk, Numbers, Changed
<1>10. CASE NewCA
  BY <1>10 DEF IndInv, TypeInv, NewCA, disk, Numbers, Changed
<1>11. CASE WriteCert
  BY <1>11 DEF IndInv, TypeInv, WriteCert, disk, Numbers, Changed
<1>12. CASE WriteKey
  <2>1. proc["server"].ca = ca.cert /\ ca.cert \in Numbers /\ ca.cert # Torn
    BY <1>12 DEF WriteKey, IndInv, CaInv, TypeInv
  <2>2. ca' \in [cert : Numbers, key : Numbers]
    BY <1>12, <2>1 DEF WriteKey, IndInv, TypeInv
  <2>3. log' \in [torn : BOOLEAN, tampered : BOOLEAN, first : Releases \union {None}, ca : 0..count.made]
    BY <1>12, <2>1 DEF WriteKey, IndInv, TypeInv, Numbers
  <2>4. QED
    BY <1>12, <2>2, <2>3 DEF IndInv, TypeInv, WriteKey, Numbers
<1>13. CASE BindListener
  BY <1>13 DEF IndInv, TypeInv, BindListener, disk, Numbers, Changed
<1>14. CASE DetectBackend
  BY <1>14 DEF IndInv, TypeInv, DetectBackend, disk, Numbers, Changed
<1>15. CASE Listen
  BY <1>15 DEF IndInv, TypeInv, Listen, disk, Numbers, Changed
<1>16. CASE Tick
  BY <1>16 DEF IndInv, TypeInv, Tick, disk, Numbers, Changed
<1>17. CASE Refresh
  BY <1>17 DEF IndInv, TypeInv, Refresh, disk, Numbers, Changed
<1>18. CASE RunMigrations
  <2>1. Pending \in SUBSET (1..Latest)
    BY PendingIsRest DEF IndInv, SchemaInv
  <2>2. QED
    BY <1>18, <2>1 DEF IndInv, TypeInv, RunMigrations, disk, Numbers
<1>19. CASE MigrateByHand
  <2>1. Oldest(todo["cli"]) \in 1..Latest
    BY <1>19, MinIs, BootAssumption DEF MigrateByHand, Apply, Oldest, IndInv, TypeInv
  <2>2. QED
    BY <1>19, <2>1 DEF IndInv, TypeInv, MigrateByHand, Apply, Numbers
<1>20. CASE MigrationsEnd
  BY <1>20 DEF IndInv, TypeInv, MigrationsEnd, disk, Numbers, Changed
<1>21. CASE Upgrade
  <2>1. count' \in [crashes : Nat, changes : Nat, made : Nat] /\ count'.made = count.made /\ count'.changes > 0
    BY <1>21 DEF Upgrade, Changed, IndInv, TypeInv
  <2>2. bin' \in Releases
    BY <1>21, <2>1 DEF Upgrade, Releases
  <2>3. QED
    BY <1>21, <2>1, <2>2 DEF IndInv, TypeInv, Upgrade, disk, Numbers
<1>22. CASE Damage
  <2>1. count' \in [crashes : Nat, changes : Nat, made : Nat] /\ count'.made = count.made
    BY <1>22 DEF Damage, Changed, IndInv, TypeInv
  <2>2. bin' \in Releases /\ db' \in BOOLEAN
    BY <1>22 DEF Damage, Releases, IndInv, TypeInv
  <2>3. log' \in [torn : BOOLEAN, tampered : BOOLEAN, first : Releases \union {None}, ca : 0..count.made]
    BY <1>22 DEF Damage, IndInv, TypeInv
  <2>4. QED
    BY <1>22, <2>1, <2>2, <2>3 DEF IndInv, TypeInv, Damage, Numbers
<1>23. ASSUME NEW h \in Hosts, ChangeHost(h) PROVE TypeInv'
  BY <1>23 DEF IndInv, TypeInv, ChangeHost, disk, Numbers, Changed
<1>24. QED
    BY <1>1, <1>2, <1>3, <1>4, <1>5, <1>6, <1>7, <1>8, <1>9, <1>10, <1>11, <1>12, <1>13, <1>14, <1>15,
     <1>16, <1>17, <1>18, <1>19, <1>20, <1>21, <1>22, <1>23 DEF Next, ServerStep, AgentStep, Integrity,
     Programs

\* Which way a program goes in each step.
Still(p) == proc'[p].at = proc[p].at /\ proc'[p].bin = proc[p].bin /\ proc'[p].ca = proc[p].ca
Ways(p, froms, tos) == proc[p].at \in froms /\ \E s \in tos : Moved(p, s)

\* From which steps to which an action of either program leads,
LEMMA WaysOfPrograms ==
  ASSUME IndInv, NEW p \in Programs
  PROVE  /\ Kill(p) => Ways(p, StepsOf(p), {"down"})
         /\ Verify(p) => Ways(p, {"verify"}, {"key", "failed", "tampered", "capabilities", "detect"})
         /\ HostKey(p) => Ways(p, {"key"}, {"rec", "failed", "capabilities"})
         /\ Record(p) => Ways(p, {"rec"}, {"capabilities", "detect"})
<1> USE DEF IndInv, ProcInv, At, Moved, Ways, Programs, StepsOf, Ended, ServerSteps, AgentSteps
<1>1. Kill(p) => Ways(p, StepsOf(p), {"down"})
  BY GoMoves DEF Kill
<1>2. Verify(p) => Ways(p, {"verify"}, {"key", "failed", "tampered", "capabilities", "detect"})
  BY GoMoves DEF Verify, Passed, Refused
<1>3. HostKey(p) => Ways(p, {"key"}, {"rec", "failed", "capabilities"})
  BY GoMoves DEF HostKey, Refused
<1>4. Record(p) => Ways(p, {"rec"}, {"capabilities", "detect"})
  BY GoMoves DEF Record, Passed
<1>5. QED
  BY <1>1, <1>2, <1>3, <1>4

\* ... of the server,
LEMMA WaysOfServer ==
  ASSUME IndInv
  PROVE  /\ OpenDB => Ways("server", {"open"}, {"migrate", "failed"})
         /\ Migrated => Ways("server", {"migrate"}, {"verify", "failed"})
         /\ Capabilities => Ways("server", {"capabilities"}, {"pki"})
         /\ WriteKey => Ways("server", {"cakey"}, {"bind"})
         /\ BindListener => Ways("server", {"bind"}, {"up", "failed"})
         /\ (Tick \/ Refresh) => Still("server") /\ Still("agent")
<1> USE DEF IndInv, ProcInv, At, Moved, Ways, Programs, StepsOf, Ended, ServerSteps, AgentSteps
<1>1. Answer \in Hosts \union {"unknown"}
  BY DEF Process, Answer
<1>2. OpenDB => Ways("server", {"open"}, {"migrate", "failed"})
  BY GoMoves DEF OpenDB
<1>3. Migrated => Ways("server", {"migrate"}, {"verify", "failed"})
  BY GoMoves DEF Migrated
<1>4. Capabilities => Ways("server", {"capabilities"}, {"pki"})
  BY <1>1, GoMoves, OwnMoves DEF Capabilities
<1>5. WriteKey => Ways("server", {"cakey"}, {"bind"})
  BY GoMoves DEF WriteKey
<1>6. BindListener => Ways("server", {"bind"}, {"up", "failed"})
  BY GoMoves DEF BindListener
<1>7. Tick \/ Refresh => Still("server") /\ Still("agent")
  BY <1>1, LearnMoves DEF Tick, Refresh, Up, Still
<1>8. QED
  BY <1>2, <1>3, <1>4, <1>5, <1>6, <1>7

\* ... of the agent.
LEMMA WaysOfAgent ==
  ASSUME IndInv
  PROVE  /\ DetectBackend => Ways("agent", {"detect"}, {"listen", "failed"})
         /\ Listen => Ways("agent", {"listen"}, {"up"})
<1> USE DEF IndInv, ProcInv, At, Moved, Ways, Programs, StepsOf, Ended, ServerSteps, AgentSteps
<1>1. DetectBackend => Ways("agent", {"detect"}, {"listen", "failed"})
  <2>1. host \in Hosts
    BY DEF TypeInv
  <2>2. QED
    BY <2>1, OwnMoves DEF DetectBackend
<1>2. Listen => Ways("agent", {"listen"}, {"up"})
  BY GoMoves DEF Listen
<1>3. QED
  BY <1>1, <1>2

\* The server goes the way to its CA.
LEMMA WaysToCA ==
  ASSUME IndInv
  PROVE  /\ NewCA => /\ At("server", "pki") /\ Still("agent")
                     /\ \/ Moved("server", "cert") /\ ca.cert = None /\ log' = log
                        \/ Moved("server", "failed") /\ log' = log
                        \/ /\ proc'["server"].at = "bind" /\ proc'["server"].ca = ca.cert
                           /\ ca.cert \notin {None, Torn} /\ ca.key \notin {None, Torn}
                           /\ log'.ca = IF log.ca = None THEN ca.cert ELSE log.ca
                           /\ log'.first = log.first
         /\ WriteCert => /\ At("server", "cert") /\ Still("agent") /\ proc'["server"].at = "cakey"
                         /\ proc'["server"].ca = count'.made /\ count'.made = count.made + 1
<1> USE DEF IndInv, ProcInv, At, Programs, StepsOf, Ended, ServerSteps, AgentSteps
<1>1. ASSUME NewCA
      PROVE  /\ At("server", "pki") /\ Still("agent")
             /\ \/ Moved("server", "cert") /\ ca.cert = None /\ log' = log
                \/ Moved("server", "failed") /\ log' = log
                \/ /\ proc'["server"].at = "bind" /\ proc'["server"].ca = ca.cert
                   /\ ca.cert \notin {None, Torn} /\ ca.key \notin {None, Torn}
                   /\ log'.ca = IF log.ca = None THEN ca.cert ELSE log.ca
                   /\ log'.first = log.first
  <2>1. ca.cert = Torn \/ ca.cert \in Nat
    BY DEF TypeInv, Numbers
  <2>2. CASE ~ CaPresent
    BY <1>1, <2>2, GoMoves DEF NewCA, CaPresent, Moved, Still
  <2>3. CASE CaPresent /\ (Torn \in {ca.cert, ca.key} \/ ca.key = None)
    BY <1>1, <2>3, GoMoves DEF NewCA, Moved, Still
  <2>4. CASE CaPresent /\ ~ (Torn \in {ca.cert, ca.key} \/ ca.key = None)
    <3>1. /\ log'.ca = IF log.ca = None THEN ca.cert ELSE log.ca
          /\ log'.first = log.first
      BY <1>1, <2>4 DEF NewCA, TypeInv
    <3>2. ca.cert \in Nat /\ ca.cert \notin {None, Torn} /\ ca.key \notin {None, Torn}
      BY <2>1, <2>4 DEF CaPresent
    <3>3. At("server", "pki") /\ proc' = [proc EXCEPT !["server"].at = "bind", !["server"].ca = ca.cert]
      BY <1>1, <2>4 DEF NewCA
    <3>4. /\ proc'["server"].at = "bind" /\ proc'["server"].ca = ca.cert
          /\ \A q \in Programs : q # "server" => proc'[q] = proc[q]
      BY <3>2, <3>3, CaMoves
    <3>5. QED
      BY <3>1, <3>2, <3>3, <3>4 DEF Still
  <2>5. QED
    BY <2>2, <2>3, <2>4
<1>2. ASSUME WriteCert
      PROVE  /\ At("server", "cert") /\ Still("agent") /\ proc'["server"].at = "cakey"
             /\ proc'["server"].ca = count'.made /\ count'.made = count.made + 1
  <2>1. count'.made = count.made + 1 /\ count'.made \in Nat
    BY <1>2 DEF WriteCert, TypeInv
  <2>2. QED
    BY <1>2, <2>1, CaMoves DEF WriteCert, Still
<1>3. QED
  BY <1>1, <1>2

(***************************************************************************)
(* What a step that is about something else keeps.                         *)
(***************************************************************************)
\* Each part of the invariant is kept by steps that leave its state alone: the schema,
LEMMA SchemaKept ==
  ASSUME IndInv, schema' = schema, todo' = todo, cli' = cli,
         \/ proc'["server"].at = proc["server"].at
         \/ proc'["server"].at \in Ended \union {"open"}
         \/ proc["server"].at \notin Ended \union {"open", "migrate"} /\ proc'["server"].at # "migrate"
  PROVE  SchemaInv'
BY DEF IndInv, SchemaInv, At, Ended

\* ... the certificate authority,
LEMMA CaKept ==
  ASSUME IndInv, ca' = ca, log'.ca = log.ca,
         \/ proc'["server"].at = proc["server"].at /\ proc'["server"].ca = proc["server"].ca
         \/ proc'["server"].at \notin {"cert", "cakey", "bind", "up"}
  PROVE  CaInv'
BY DEF IndInv, CaInv, At

\* ... the integrity record.
LEMMA RecordKept ==
  ASSUME IndInv, record' = record, log'.first = log.first, proc'["server"].at = "rec" => proc["server"].at = "rec",
         proc'["agent"].at \in {"detect", "listen", "up"} => check'["agent"] = check["agent"],
         \/ proc'["agent"].at = proc["agent"].at /\ proc'["agent"].bin = proc["agent"].bin
         \/ proc'["agent"].at \in Ended \union {"verify"}
         \/ proc["agent"].at \in {"detect", "listen"} /\ proc'["agent"].at \in {"listen", "up"}
            /\ proc'["agent"].bin = proc["agent"].bin
  PROVE  RecordInv'
<1>1. \A p \in Programs : At(p, "rec")' => record'[p].key # None
  BY DEF IndInv, RecordInv, At, Programs, Ended
<1>2. proc'["agent"].at \in {"key", "rec"} => record'["agent"].bin = None
  BY DEF IndInv, RecordInv, Ended
<1>3. AgentUnchanged'
  BY DEF IndInv, RecordInv, AgentUnchanged, Ended
<1>4. QED
  BY <1>1, <1>2, <1>3 DEF IndInv, RecordInv

\* A replaced file only concerns the programs that have not checked themselves.
LEMMA SwapsKeep ==
  ASSUME IndInv, Swaps
  PROVE  /\ check' \in [Programs -> [hash : Releases \union {None}, swapped : BOOLEAN]]
         /\ \A p \in Programs : /\ check'[p].hash = check[p].hash
                                /\ proc[p].at \in Unchecked => check'[p].swapped
                                /\ proc[p].at \notin Unchecked => check'[p] = check[p]
<1> SUFFICES ASSUME NEW p \in Programs
             PROVE  LET r == [check[p] EXCEPT !.swapped = @ \/ proc[p].at \in Unchecked]
                    IN  /\ r \in [hash : Releases \union {None}, swapped : BOOLEAN]
                        /\ r.hash = check[p].hash
                        /\ proc[p].at \in Unchecked => r.swapped
                        /\ proc[p].at \notin Unchecked => r = check[p]
  BY DEF Swaps
<1> DEFINE b == check[p].swapped \/ proc[p].at \in Unchecked
           r == [check[p] EXCEPT !.swapped = b]
<1>1. check[p] \in [hash : Releases \union {None}, swapped : BOOLEAN] /\ b \in BOOLEAN
  BY DEF IndInv, CheckInv
<1>2. (proc[p].at \in Unchecked => b) /\ (proc[p].at \notin Unchecked => b = check[p].swapped)
  BY <1>1
<1> HIDE DEF b
<1>3. r \in [hash : Releases \union {None}, swapped : BOOLEAN] /\ r.hash = check[p].hash /\ r.swapped = b
  BY <1>1
<1>4. b = check[p].swapped => r = check[p]
  BY <1>1
<1>5. QED
  BY <1>2, <1>3, <1>4 DEF b

\* Migrations fill the schema from below.
LEMMA SchemaStep ==
  ASSUME IndInv, Next
  PROVE  SchemaInv'
<1>1. ASSUME NEW p \in Programs, Start(p) PROVE SchemaInv'
  BY <1>1, SchemaKept, StartMoves DEF IndInv, Start, disk, Programs, Ended
<1>2. ASSUME NEW p \in Programs, Kill(p) PROVE SchemaInv'
  <2>0. schema' = schema /\ cli' = cli /\ todo'["cli"] = todo["cli"] /\ (p # "server" => todo' = todo)
    BY <1>2 DEF Kill, IndInv, TypeInv
  <2>1. CASE p = "server"
    BY <1>2, <2>0, <2>1, WaysOfPrograms DEF IndInv, SchemaInv, At, Ways, Moved, Ended
  <2>2. CASE p = "agent"
    BY <1>2, <2>0, <2>2, WaysOfPrograms, SchemaKept DEF Ways, Moved, Programs
  <2>3. QED
    BY <2>1, <2>2 DEF Programs
<1>3. CASE OpenDB
  <2>1. CASE db
    <3>1. Moved("server", "migrate") /\ todo' = [todo EXCEPT !["server"] = Pending] /\ schema' = schema /\ cli' = cli
      BY <1>3, <2>1, GoMoves DEF OpenDB, disk, IndInv, ProcInv, At, Ended, Programs, StepsOf, ServerSteps
    <3>2. todo'["server"] = Pending /\ todo'["cli"] = todo["cli"]
      BY <3>1 DEF IndInv, TypeInv
    <3>3. QED
      BY <3>1, <3>2, PendingIsRest DEF IndInv, SchemaInv, At, Moved, Ended
  <2>2. CASE ~ db
    <3>1. Moved("server", "failed") /\ todo' = todo /\ schema' = schema /\ cli' = cli
      BY <1>3, <2>2, GoMoves DEF OpenDB, disk, IndInv, ProcInv, At, Ended, Programs, StepsOf, ServerSteps
    <3>2. QED
      BY <3>1, SchemaKept DEF Moved, Ended
  <2>3. QED
    BY <2>1, <2>2
<1>4. CASE MigrateServer
  <2> DEFINE v == Oldest(todo["server"])
  <2>1. v \in todo["server"] /\ \A w \in todo["server"] : v <= w
    BY <1>4, MinIs DEF MigrateServer, Apply, Oldest, IndInv, TypeInv
  <2>2. v \in 1..Latest /\ \A w \in 1..Latest : w < v => w \notin todo["server"]
    BY <2>1, BootAssumption DEF IndInv, TypeInv
  <2>3. \A w \in 1..Latest : w < v => w \in schema
    BY <1>4, <2>2 DEF MigrateServer, IndInv, SchemaInv
  <2>4. 1..v \subseteq schema \union {v}
    BY <2>2, <2>3, BootAssumption
  <2>5. schema' = schema \union {v} /\ todo' = [todo EXCEPT !["server"] = @ \ {v}]
    BY <1>4 DEF MigrateServer, Apply
  <2>6. \A w \in schema' : 1..w \subseteq schema'
    BY <2>4, <2>5 DEF IndInv, SchemaInv
  <2>7. schema = 1..Latest => schema' = 1..Latest
    BY <2>2, <2>5
  <2>8. proc' = proc /\ cli' = cli
    BY <1>4 DEF MigrateServer, Apply
  <2>9. /\ \A w \in todo["server"] \union schema : w \in todo'["server"] \union schema'
        /\ \A w \in todo["cli"] \union schema : w \in todo'["cli"] \union schema'
    <3> HIDE DEF v
    <3>1. QED
      BY <2>5 DEF IndInv, TypeInv
  <2>10. QED
    <3> HIDE DEF v
    <3>1. QED
      BY <2>6, <2>7, <2>8, <2>9 DEF IndInv, SchemaInv, At
<1>5. CASE Migrated
  <2>0. schema' = schema /\ cli' = cli /\ todo'["cli"] = todo["cli"] /\ schema \in SUBSET (1..Latest)
    BY <1>5 DEF Migrated, disk, IndInv, TypeInv
  <2>1. CASE todo["server"] = {}
    BY <1>5, <2>0, <2>1, WaysOfServer DEF Migrated, IndInv, SchemaInv, At, Ways, Moved
  <2>2. CASE todo["server"] # {}
    <3>1. Moved("server", "failed")
      BY <1>5, <2>2, GoMoves DEF Migrated, disk, IndInv, ProcInv, At, Ended, Programs, StepsOf, ServerSteps
    <3>2. QED
      BY <2>0, <3>1 DEF IndInv, SchemaInv, At, Moved, Ended
  <2>3. QED
    BY <2>1, <2>2
<1>6. ASSUME NEW p \in Programs, Verify(p) PROVE SchemaInv'
  BY <1>6, SchemaKept, WaysOfPrograms, WaysOfServer, WaysOfAgent, WaysToCA DEF Verify, disk, Ways, Moved, Still, At, Programs, Ended, StepsOf
<1>7. ASSUME NEW p \in Programs, HostKey(p) PROVE SchemaInv'
  BY <1>7, SchemaKept, WaysOfPrograms, WaysOfServer, WaysOfAgent, WaysToCA DEF HostKey, disk, Ways, Moved, Still, At, Programs, Ended, StepsOf
<1>8. ASSUME NEW p \in Programs, Record(p) PROVE SchemaInv'
  BY <1>8, SchemaKept, WaysOfPrograms, WaysOfServer, WaysOfAgent, WaysToCA DEF Record, disk, Ways, Moved, Still, At, Programs, Ended, StepsOf
<1>9. CASE Capabilities
  BY <1>9, SchemaKept, WaysOfPrograms, WaysOfServer, WaysOfAgent, WaysToCA DEF Capabilities, disk, Ways, Moved, Still, At, Programs, Ended, StepsOf
<1>10. CASE NewCA
  BY <1>10, SchemaKept, WaysOfPrograms, WaysOfServer, WaysOfAgent, WaysToCA DEF NewCA, disk, Ways, Moved, Still, At, Programs, Ended, StepsOf
<1>11. CASE WriteCert
  BY <1>11, SchemaKept, WaysOfPrograms, WaysOfServer, WaysOfAgent, WaysToCA DEF WriteCert, disk, Ways, Moved, Still, At, Programs, Ended, StepsOf
<1>12. CASE WriteKey
  BY <1>12, SchemaKept, WaysOfPrograms, WaysOfServer, WaysOfAgent, WaysToCA DEF WriteKey, disk, Ways, Moved, Still, At, Programs, Ended, StepsOf
<1>13. CASE BindListener
  BY <1>13, SchemaKept, WaysOfPrograms, WaysOfServer, WaysOfAgent, WaysToCA DEF BindListener, disk, Ways, Moved, Still, At, Programs, Ended, StepsOf
<1>14. CASE DetectBackend
  BY <1>14, SchemaKept, WaysOfPrograms, WaysOfServer, WaysOfAgent, WaysToCA DEF DetectBackend, disk, Ways, Moved, Still, At, Programs, Ended, StepsOf
<1>15. CASE Listen
  BY <1>15, SchemaKept, WaysOfPrograms, WaysOfServer, WaysOfAgent, WaysToCA DEF Listen, disk, Ways, Moved, Still, At, Programs, Ended, StepsOf
<1>16. CASE Tick
  BY <1>16, SchemaKept, WaysOfPrograms, WaysOfServer, WaysOfAgent, WaysToCA DEF Tick, disk, Ways, Moved, Still, At, Programs, Ended, StepsOf
<1>17. CASE Refresh
  BY <1>17, SchemaKept, WaysOfPrograms, WaysOfServer, WaysOfAgent, WaysToCA DEF Refresh, disk, Ways, Moved, Still, At, Programs, Ended, StepsOf
<1>18. CASE RunMigrations
  BY <1>18, WaysOfPrograms, WaysOfServer, WaysOfAgent, WaysToCA, PendingIsRest DEF IndInv, TypeInv, SchemaInv, RunMigrations, disk, Ways, Moved, Still, At, Programs, Ended, StepsOf
<1>19. CASE MigrateByHand
  <2> DEFINE v == Oldest(todo["cli"])
  <2>1. v \in todo["cli"] /\ \A w \in todo["cli"] : v <= w
    BY <1>19, MinIs DEF MigrateByHand, Apply, Oldest, IndInv, TypeInv
  <2>2. v \in 1..Latest /\ \A w \in 1..Latest : w < v => w \notin todo["cli"]
    BY <2>1, BootAssumption DEF IndInv, TypeInv
  <2>3. \A w \in 1..Latest : w < v => w \in schema
    BY <1>19, <2>2 DEF MigrateByHand, IndInv, SchemaInv
  <2>4. 1..v \subseteq schema \union {v}
    BY <2>2, <2>3, BootAssumption
  <2>5. schema' = schema \union {v} /\ todo' = [todo EXCEPT !["cli"] = @ \ {v}]
    BY <1>19 DEF MigrateByHand, Apply
  <2>6. \A w \in schema' : 1..w \subseteq schema'
    BY <2>4, <2>5 DEF IndInv, SchemaInv
  <2>7. schema = 1..Latest => schema' = 1..Latest
    BY <2>2, <2>5
  <2>8. proc' = proc /\ cli' = cli
    BY <1>19 DEF MigrateByHand, Apply
  <2>9. /\ \A w \in todo["server"] \union schema : w \in todo'["server"] \union schema'
        /\ \A w \in todo["cli"] \union schema : w \in todo'["cli"] \union schema'
    <3> HIDE DEF v
    <3>1. QED
      BY <2>5 DEF IndInv, TypeInv
  <2>10. QED
    <3> HIDE DEF v
    <3>1. QED
      BY <2>6, <2>7, <2>8, <2>9 DEF IndInv, SchemaInv, At
<1>20. CASE MigrationsEnd
  BY <1>20, WaysOfPrograms, WaysOfServer, WaysOfAgent, WaysToCA, PendingIsRest DEF IndInv, TypeInv, SchemaInv, MigrationsEnd, disk, Ways, Moved, Still, At, Programs, Ended, StepsOf
<1>21. CASE Upgrade
  BY <1>21, SchemaKept, WaysOfPrograms, WaysOfServer, WaysOfAgent, WaysToCA DEF Upgrade, disk, Ways, Moved, Still, At, Programs, Ended, StepsOf
<1>22. CASE Damage
  BY <1>22, SchemaKept, WaysOfPrograms, WaysOfServer, WaysOfAgent, WaysToCA DEF Damage, disk, Ways, Moved, Still, At, Programs, Ended, StepsOf
<1>23. ASSUME NEW h \in Hosts, ChangeHost(h) PROVE SchemaInv'
  BY <1>23, SchemaKept, WaysOfPrograms, WaysOfServer, WaysOfAgent, WaysToCA DEF ChangeHost, disk, Ways, Moved, Still, At, Programs, Ended, StepsOf
<1>24. QED
    BY <1>1, <1>2, <1>3, <1>4, <1>5, <1>6, <1>7, <1>8, <1>9, <1>10, <1>11, <1>12, <1>13, <1>14, <1>15,
     <1>16, <1>17, <1>18, <1>19, <1>20, <1>21, <1>22, <1>23 DEF Next, ServerStep, AgentStep, Integrity,
     Programs

\* The CA is made once.
LEMMA CaStep ==
  ASSUME IndInv, Next
  PROVE  CaInv'
<1>1. ASSUME NEW p \in Programs, Start(p) PROVE CaInv'
  BY <1>1, CaKept, StartMoves DEF IndInv, Start, disk, Programs, Ended
<1>2. ASSUME NEW p \in Programs, Kill(p) PROVE CaInv'
  <2>1. /\ ca'.cert = IF At(p, "cert") /\ ca'.cert # ca.cert THEN Torn ELSE ca.cert
        /\ ca'.key = IF At(p, "cakey") /\ ca'.key # ca.key THEN Torn ELSE ca.key
        /\ (~ At(p, "cert") /\ ~ At(p, "cakey") => ca' = ca)
    BY <1>2 DEF Kill, IndInv, TypeInv
  <2>2. log'.ca = log.ca
    BY <1>2 DEF Kill, IndInv, TypeInv
  <2>3. CASE p = "agent"
    <3>1. ca' = ca
      BY <2>1, <2>3 DEF At, IndInv, ProcInv, Programs, StepsOf, AgentSteps, Ended
    <3>2. QED
      BY <1>2, <2>2, <2>3, <3>1, WaysOfPrograms, CaKept DEF Ways, Moved, Programs
  <2>4. CASE p = "server"
    <3>1. proc'["server"].at = "down"
      BY <1>2, <2>4, WaysOfPrograms DEF Ways, Moved
    <3>2. (At("server", "cert") \/ At("server", "cakey")) => log.ca = None
      BY DEF IndInv, CaInv
    <3>3. log.ca # None => ca' = ca
      BY <2>1, <2>4, <3>2
    <3>4. QED
      BY <2>1, <2>2, <2>4, <3>1, <3>2, <3>3 DEF IndInv, CaInv, At, None, Torn
  <2>5. QED
    BY <2>3, <2>4 DEF Programs
<1>3. CASE OpenDB
  BY <1>3, CaKept, WaysOfPrograms, WaysOfServer, WaysOfAgent, WaysToCA DEF OpenDB, disk, Ways, Moved, Still, At, Programs, Ended, StepsOf, IndInv, TypeInv
<1>4. CASE MigrateServer
  BY <1>4, CaKept, WaysOfPrograms, WaysOfServer, WaysOfAgent, WaysToCA DEF MigrateServer, disk, Ways, Moved, Still, At, Programs, Ended, StepsOf, Apply
<1>5. CASE Migrated
  BY <1>5, CaKept, WaysOfPrograms, WaysOfServer, WaysOfAgent, WaysToCA DEF Migrated, disk, Ways, Moved, Still, At, Programs, Ended, StepsOf, IndInv, TypeInv
<1>6. ASSUME NEW p \in Programs, Verify(p) PROVE CaInv'
  BY <1>6, CaKept, WaysOfPrograms, WaysOfServer, WaysOfAgent, WaysToCA DEF Verify, disk, Ways, Moved, Still, At, Programs, Ended, StepsOf, IndInv, TypeInv
<1>7. ASSUME NEW p \in Programs, HostKey(p) PROVE CaInv'
  BY <1>7, CaKept, WaysOfPrograms, WaysOfServer, WaysOfAgent, WaysToCA DEF HostKey, disk, Ways, Moved, Still, At, Programs, Ended, StepsOf, IndInv, TypeInv
<1>8. ASSUME NEW p \in Programs, Record(p) PROVE CaInv'
  BY <1>8, CaKept, WaysOfPrograms, WaysOfServer, WaysOfAgent, WaysToCA DEF Record, disk, Ways, Moved, Still, At, Programs, Ended, StepsOf, IndInv, TypeInv
<1>9. CASE Capabilities
  BY <1>9, CaKept, WaysOfPrograms, WaysOfServer, WaysOfAgent, WaysToCA DEF Capabilities, disk, Ways, Moved, Still, At, Programs, Ended, StepsOf, IndInv, TypeInv
<1>10. CASE NewCA
  BY <1>10, WaysOfPrograms, WaysOfServer, WaysOfAgent, WaysToCA DEF IndInv, CaInv, TypeInv, NewCA, disk, Ways, Moved, Still, At, Programs, Ended, StepsOf
<1>11. CASE WriteCert
  <2>1. ca = [cert |-> None, key |-> None] /\ log.ca = None /\ log' = log /\ count.made \in Nat
    BY <1>11 DEF WriteCert, IndInv, CaInv, TypeInv
  <2>2. ca'.cert = count'.made /\ ca'.key = None
    BY <1>11, <2>1 DEF WriteCert
  <2>3. QED
    BY <1>11, <2>1, <2>2, WaysToCA DEF CaInv, At, None, Torn
<1>12. CASE WriteKey
  BY <1>12, WaysOfPrograms, WaysOfServer, WaysOfAgent, WaysToCA DEF IndInv, CaInv, TypeInv, WriteKey, disk, Ways, Moved, Still, At, Programs, Ended, StepsOf
<1>13. CASE BindListener
  <2>1. ca' = ca /\ log' = log
    BY <1>13 DEF BindListener, disk
  <2>2. QED
    BY <1>13, <2>1, WaysOfServer DEF IndInv, CaInv, At, Ways, Moved
<1>14. CASE DetectBackend
  BY <1>14, CaKept, WaysOfPrograms, WaysOfServer, WaysOfAgent, WaysToCA DEF DetectBackend, disk, Ways, Moved, Still, At, Programs, Ended, StepsOf, IndInv, TypeInv
<1>15. CASE Listen
  BY <1>15, CaKept, WaysOfPrograms, WaysOfServer, WaysOfAgent, WaysToCA DEF Listen, disk, Ways, Moved, Still, At, Programs, Ended, StepsOf, IndInv, TypeInv
<1>16. CASE Tick
  BY <1>16, CaKept, WaysOfPrograms, WaysOfServer, WaysOfAgent, WaysToCA DEF Tick, disk, Ways, Moved, Still, At, Programs, Ended, StepsOf, IndInv, TypeInv
<1>17. CASE Refresh
  BY <1>17, CaKept, WaysOfPrograms, WaysOfServer, WaysOfAgent, WaysToCA DEF Refresh, disk, Ways, Moved, Still, At, Programs, Ended, StepsOf, IndInv, TypeInv
<1>18. CASE RunMigrations
  BY <1>18, CaKept, WaysOfPrograms, WaysOfServer, WaysOfAgent, WaysToCA DEF RunMigrations, disk, Ways, Moved, Still, At, Programs, Ended, StepsOf, IndInv, TypeInv
<1>19. CASE MigrateByHand
  BY <1>19, CaKept, WaysOfPrograms, WaysOfServer, WaysOfAgent, WaysToCA DEF MigrateByHand, disk, Ways, Moved, Still, At, Programs, Ended, StepsOf, Apply
<1>20. CASE MigrationsEnd
  BY <1>20, CaKept, WaysOfPrograms, WaysOfServer, WaysOfAgent, WaysToCA DEF MigrationsEnd, disk, Ways, Moved, Still, At, Programs, Ended, StepsOf, IndInv, TypeInv
<1>21. CASE Upgrade
  BY <1>21, CaKept, WaysOfPrograms, WaysOfServer, WaysOfAgent, WaysToCA DEF Upgrade, disk, Ways, Moved, Still, At, Programs, Ended, StepsOf, IndInv, TypeInv
<1>22. CASE Damage
  BY <1>22, CaKept, WaysOfPrograms, WaysOfServer, WaysOfAgent, WaysToCA DEF Damage, disk, Ways, Moved, Still, At, Programs, Ended, StepsOf, IndInv, TypeInv
<1>23. ASSUME NEW h \in Hosts, ChangeHost(h) PROVE CaInv'
  BY <1>23, CaKept, WaysOfPrograms, WaysOfServer, WaysOfAgent, WaysToCA DEF ChangeHost, disk, Ways, Moved, Still, At, Programs, Ended, StepsOf, IndInv, TypeInv
<1>24. QED
    BY <1>1, <1>2, <1>3, <1>4, <1>5, <1>6, <1>7, <1>8, <1>9, <1>10, <1>11, <1>12, <1>13, <1>14, <1>15,
     <1>16, <1>17, <1>18, <1>19, <1>20, <1>21, <1>22, <1>23 DEF Next, ServerStep, AgentStep, Integrity,
     Programs

\* The first record stays.
LEMMA RecordStep ==
  ASSUME IndInv, Next
  PROVE  RecordInv'
<1>1. ASSUME NEW p \in Programs, Start(p) PROVE RecordInv'
  BY <1>1, RecordKept, StartMoves DEF IndInv, Start, disk, Programs, Ended
<1>2. ASSUME NEW p \in Programs, Kill(p) PROVE RecordInv'
  <2>0. Moved(p, "down")
    BY <1>2, WaysOfPrograms DEF Ways
  <2>a. log'.first = log.first
    <3> DEFINE b == log.torn \/ ca' # ca \/ record' # record \/ At(p, "cakey")
    <3>1. log' = [log EXCEPT !.torn = b]
      BY <1>2 DEF Kill
    <3> HIDE DEF b
    <3>2. QED
      BY <3>1 DEF IndInv, TypeInv
  <2>b. \A q \in Programs :
          /\ record[q].key # None => record'[q].key = record[q].key
          /\ record'[q].bin = record[q].bin \/ (record'[q].bin = Torn /\ q = p /\ At(p, "rec"))
    <3>1. PICK torn \in BOOLEAN :
            record' = [record EXCEPT ![p].key = IF torn /\ At(p, "key") /\ @ = None THEN Torn ELSE @,
                                     ![p].bin = IF torn /\ At(p, "rec") THEN Torn ELSE @]
      BY <1>2 DEF Kill
    <3> DEFINE key == IF torn /\ At(p, "key") /\ record[p].key = None THEN Torn ELSE record[p].key
               rbin == IF torn /\ At(p, "rec") THEN Torn ELSE record[p].bin
    <3>2. record' = [record EXCEPT ![p].key = key, ![p].bin = rbin]
      BY <3>1
    <3>3. record[p].key # None => key = record[p].key
      OBVIOUS
    <3>4. rbin = record[p].bin \/ (rbin = Torn /\ At(p, "rec"))
      BY DEF At
    <3> HIDE DEF key, rbin
    <3>5. record'[p].key = key /\ record'[p].bin = rbin /\ \A q \in Programs : q # p => record'[q] = record[q]
      BY <3>2 DEF IndInv, TypeInv
    <3>6. QED
      <4> TAKE q \in Programs
      <4>1. CASE q = p
        BY <3>3, <3>4, <3>5, <4>1
      <4>2. CASE q # p
        BY <3>5, <4>2
      <4>3. QED
        BY <4>1, <4>2
  <2>1. \A q \in Programs : record[q].key # None => record'[q].key = record[q].key
    BY <2>b
  <2>2. \A q \in Programs : record'[q].bin = record[q].bin \/ (record'[q].bin = Torn /\ q = p /\ At(p, "rec"))
    BY <2>b
  <2>3. Torn # None
    BY DEF Torn, None
  <2>4. QED
    BY <1>2, <2>0, <2>a, <2>1, <2>2, <2>3 DEF Kill, IndInv, RecordInv, AgentUnchanged, At, Moved, Programs
<1>3. CASE OpenDB
  BY <1>3, RecordKept, WaysOfPrograms, WaysOfServer, WaysOfAgent, WaysToCA DEF OpenDB, disk, Ways, Moved, Still, At, Programs, Ended, StepsOf, IndInv, TypeInv
<1>4. CASE MigrateServer
  BY <1>4, RecordKept, WaysOfPrograms, WaysOfServer, WaysOfAgent, WaysToCA DEF MigrateServer, disk, Ways, Moved, Still, At, Programs, Ended, StepsOf, Apply
<1>5. CASE Migrated
  BY <1>5, RecordKept, WaysOfPrograms, WaysOfServer, WaysOfAgent, WaysToCA DEF Migrated, disk, Ways, Moved, Still, At, Programs, Ended, StepsOf, IndInv, TypeInv
<1>6. ASSUME NEW p \in Programs, Verify(p) PROVE RecordInv'
  <2>0. record' = record /\ log' = log /\ check' = check
    BY <1>6 DEF Verify, disk
  <2>1. CASE p = "server"
    BY <1>6, <2>0, <2>1, WaysOfPrograms, RecordKept DEF Ways, Moved, Programs
  <2>2. CASE p = "agent"
    <3>1. \/ NeedsRecord(p) /\ Moved(p, "key")
          \/ \E s \in {"failed", "tampered"} : Moved(p, s)
          \/ Moved(p, "detect") /\ record[p].bin \notin {None, Torn} /\ record[p].bin = bin
      BY <1>6, <2>2, GoMoves DEF Verify, Passed, Refused, NeedsRecord, IndInv, ProcInv, At, Ended, Programs, StepsOf, AgentSteps
    <3>2. ~ check[p].swapped => proc[p].bin = bin
      BY <1>6 DEF Verify, At, Unchecked, IndInv, CheckInv
    <3>3. QED
      BY <2>0, <2>2, <3>1, <3>2 DEF NeedsRecord, IndInv, RecordInv, AgentUnchanged, At, Moved, Ended, Programs
  <2>3. QED
    BY <2>1, <2>2 DEF Programs
<1>7. ASSUME NEW p \in Programs, HostKey(p) PROVE RecordInv'
  <2>0. log' = log
    BY <1>7 DEF HostKey
  <2>1. \A q \in Programs : record'[q].bin = record[q].bin /\ (record[q].key # None => record'[q].key = record[q].key)
    BY <1>7 DEF HostKey, IndInv, TypeInv, None
  <2>2. \/ Moved(p, "rec") /\ record'[p].key # None
        \/ \E s \in {"failed", "capabilities"} : Moved(p, s)
    <3>1. count'.made # None \/ count' = count
      BY <1>7 DEF HostKey, IndInv, TypeInv, None
    <3>2. CASE record[p].key = None
      <4>1. Moved(p, "rec")
        BY <1>7, <3>2, GoMoves DEF HostKey, IndInv, ProcInv, At, Ended, Programs, StepsOf, AgentSteps, ServerSteps, None, Torn
      <4>2. record'[p].key = count.made + 1
        BY <1>7, <3>2 DEF HostKey, IndInv, TypeInv, None, Torn
      <4>3. QED
        BY <4>1, <4>2 DEF IndInv, TypeInv, None
    <3>3. CASE record[p].key = Torn
      BY <1>7, <3>3, GoMoves DEF HostKey, Refused, IndInv, ProcInv, At, Ended, Programs, StepsOf, AgentSteps, ServerSteps, None, Torn
    <3>4. CASE record[p].key \notin {None, Torn}
      BY <1>7, <3>4, GoMoves DEF HostKey, IndInv, ProcInv, At, Ended, Programs, StepsOf, AgentSteps, ServerSteps
    <3>5. QED
      BY <3>2, <3>3, <3>4
  <2>3. At(p, "key")
    BY <1>7 DEF HostKey
  <2>4. p = "server" => check'["agent"] = check["agent"]
    BY <1>7 DEF HostKey, IndInv, CheckInv, Programs
  <2>5. QED
    BY <2>0, <2>1, <2>2, <2>3, <2>4 DEF IndInv, RecordInv, AgentUnchanged, At, Moved, Programs
<1>8. ASSUME NEW p \in Programs, Record(p) PROVE RecordInv'
  <2>0. At(p, "rec") /\ record[p].key # None /\ \E s \in {"capabilities", "detect"} : Moved(p, s)
    BY <1>8, WaysOfPrograms DEF Record, IndInv, RecordInv, Ways
  <2>1. /\ record'[p].bin = check[p].hash /\ record'[p].key = record[p].key /\ check' = check
        /\ \A q \in Programs : q # p => record'[q] = record[q]
    BY <1>8 DEF Record, IndInv, TypeInv
  <2>2. log'.first = IF p = "agent" /\ log.first = None THEN check[p].hash ELSE log.first
    BY <1>8 DEF Record, IndInv, TypeInv
  <2>3. check[p].hash # None /\ (~ check[p].swapped => check[p].hash = proc[p].bin)
    BY <2>0 DEF IndInv, CheckInv
  <2>4. CASE p = "server"
    BY <2>0, <2>1, <2>2, <2>3, <2>4 DEF IndInv, RecordInv, AgentUnchanged, At, Moved, Programs
  <2>5. CASE p = "agent"
    <3>1. log.first = None
      BY <2>0, <2>5 DEF IndInv, RecordInv, At
    <3>2. QED
      BY <2>0, <2>1, <2>2, <2>3, <2>5, <3>1 DEF IndInv, RecordInv, AgentUnchanged, At, Moved, Programs
  <2>6. QED
    BY <2>4, <2>5 DEF Programs
<1>9. CASE Capabilities
  BY <1>9, RecordKept, WaysOfPrograms, WaysOfServer, WaysOfAgent, WaysToCA DEF Capabilities, disk, Ways, Moved, Still, At, Programs, Ended, StepsOf, IndInv, TypeInv
<1>10. CASE NewCA
  BY <1>10, RecordKept, WaysOfPrograms, WaysOfServer, WaysOfAgent, WaysToCA DEF NewCA, disk, Ways, Moved, Still, At, Programs, Ended, StepsOf, IndInv, TypeInv
<1>11. CASE WriteCert
  BY <1>11, RecordKept, WaysOfPrograms, WaysOfServer, WaysOfAgent, WaysToCA DEF WriteCert, disk, Ways, Moved, Still, At, Programs, Ended, StepsOf, IndInv, TypeInv
<1>12. CASE WriteKey
  BY <1>12, RecordKept, WaysOfPrograms, WaysOfServer, WaysOfAgent, WaysToCA DEF WriteKey, disk, Ways, Moved, Still, At, Programs, Ended, StepsOf, IndInv, TypeInv
<1>13. CASE BindListener
  BY <1>13, RecordKept, WaysOfPrograms, WaysOfServer, WaysOfAgent, WaysToCA DEF BindListener, disk, Ways, Moved, Still, At, Programs, Ended, StepsOf, IndInv, TypeInv
<1>14. CASE DetectBackend
  BY <1>14, RecordKept, WaysOfPrograms, WaysOfServer, WaysOfAgent, WaysToCA DEF DetectBackend, disk, Ways, Moved, Still, At, Programs, Ended, StepsOf, IndInv, TypeInv
<1>15. CASE Listen
  BY <1>15, RecordKept, WaysOfPrograms, WaysOfServer, WaysOfAgent, WaysToCA DEF Listen, disk, Ways, Moved, Still, At, Programs, Ended, StepsOf, IndInv, TypeInv
<1>16. CASE Tick
  BY <1>16, RecordKept, WaysOfPrograms, WaysOfServer, WaysOfAgent, WaysToCA DEF Tick, disk, Ways, Moved, Still, At, Programs, Ended, StepsOf, IndInv, TypeInv
<1>17. CASE Refresh
  BY <1>17, RecordKept, WaysOfPrograms, WaysOfServer, WaysOfAgent, WaysToCA DEF Refresh, disk, Ways, Moved, Still, At, Programs, Ended, StepsOf, IndInv, TypeInv
<1>18. CASE RunMigrations
  BY <1>18, RecordKept, WaysOfPrograms, WaysOfServer, WaysOfAgent, WaysToCA DEF RunMigrations, disk, Ways, Moved, Still, At, Programs, Ended, StepsOf, IndInv, TypeInv
<1>19. CASE MigrateByHand
  BY <1>19, RecordKept, WaysOfPrograms, WaysOfServer, WaysOfAgent, WaysToCA DEF MigrateByHand, disk, Ways, Moved, Still, At, Programs, Ended, StepsOf, Apply
<1>20. CASE MigrationsEnd
  BY <1>20, RecordKept, WaysOfPrograms, WaysOfServer, WaysOfAgent, WaysToCA DEF MigrationsEnd, disk, Ways, Moved, Still, At, Programs, Ended, StepsOf, IndInv, TypeInv
<1>21. CASE Upgrade
  BY <1>21, RecordKept, SwapsKeep DEF Upgrade, disk, Programs, Unchecked
<1>22. CASE Damage
  <2>1. log'.first = log.first
    BY <1>22 DEF Damage, IndInv, TypeInv
  <2>2. QED
    BY <1>22, <2>1, RecordKept, SwapsKeep DEF Damage, Programs, Unchecked
<1>23. ASSUME NEW h \in Hosts, ChangeHost(h) PROVE RecordInv'
  BY <1>23, RecordKept, WaysOfPrograms, WaysOfServer, WaysOfAgent, WaysToCA DEF ChangeHost, disk, Ways, Moved, Still, At, Programs, Ended, StepsOf, IndInv, TypeInv
<1>24. QED
    BY <1>1, <1>2, <1>3, <1>4, <1>5, <1>6, <1>7, <1>8, <1>9, <1>10, <1>11, <1>12, <1>13, <1>14, <1>15,
     <1>16, <1>17, <1>18, <1>19, <1>20, <1>21, <1>22, <1>23 DEF Next, ServerStep, AgentStep, Integrity,
     Programs

\* A program that goes on has checked what it had checked before.
LEMMA CheckKept ==
  ASSUME IndInv, check' = check, bin' = bin,
         \A p \in Programs :
           \/ proc'[p].at \notin Unchecked \union {"rec"}
           \/ /\ proc'[p].bin = proc[p].bin
              /\ proc'[p].at \in Unchecked => proc[p].at \in Unchecked
              /\ proc'[p].at = "rec" => proc[p].at = "rec"
  PROVE  CheckInv'
BY DEF IndInv, CheckInv, At, Unchecked

\* A check reads the file that is there.
LEMMA CheckStep ==
  ASSUME IndInv, Next
  PROVE  CheckInv'
<1>1. ASSUME NEW p \in Programs, Start(p) PROVE CheckInv'
  <2>1. check' = [check EXCEPT ![p] = Unread] /\ bin' = bin /\ Unread \in [hash : Releases \union {None}, swapped : BOOLEAN]
    BY <1>1 DEF Start, Unread
  <2>2. proc'[p].at # "rec" /\ proc'[p].bin = bin /\ \A q \in Programs : q # p => proc'[q] = proc[q]
    BY <1>1, StartMoves DEF IndInv
  <2>3. QED
    BY <2>1, <2>2 DEF IndInv, CheckInv, At
<1>2. ASSUME NEW p \in Programs, Kill(p) PROVE CheckInv'
  BY <1>2, CheckKept, WaysOfPrograms DEF Kill, Ways, Moved, Unchecked
<1>3. CASE OpenDB
  BY <1>3, CheckKept, WaysOfPrograms, WaysOfServer, WaysOfAgent, WaysToCA DEF OpenDB, disk, Ways, Moved, Still, At, Programs, Ended, Unchecked
<1>4. CASE MigrateServer
  BY <1>4, CheckKept, WaysOfPrograms, WaysOfServer, WaysOfAgent, WaysToCA DEF MigrateServer, disk, Ways, Moved, Still, At, Programs, Ended, Unchecked, Apply
<1>5. CASE Migrated
  BY <1>5, CheckKept, WaysOfPrograms, WaysOfServer, WaysOfAgent, WaysToCA DEF Migrated, disk, Ways, Moved, Still, At, Programs, Ended, Unchecked
<1>6. ASSUME NEW p \in Programs, Verify(p) PROVE CheckInv'
  BY <1>6, CheckKept, WaysOfPrograms DEF Verify, disk, Ways, Moved, Ended, Unchecked
<1>7. ASSUME NEW p \in Programs, HostKey(p) PROVE CheckInv'
  <2>1. proc[p].at = "key" /\ \E s \in {"rec", "failed", "capabilities"} : Moved(p, s)
    BY <1>7, WaysOfPrograms DEF Ways
  <2>2. check' = [check EXCEPT ![p].hash = bin] /\ bin' = bin /\ bin \in Releases /\ bin # None
    BY <1>7 DEF HostKey, IndInv, TypeInv, Releases, None, Damaged
  <2>3. /\ check'[p].hash = bin /\ check'[p].swapped = check[p].swapped
        /\ \A q \in Programs : q # p => check'[q] = check[q]
        /\ check' \in [Programs -> [hash : Releases \union {None}, swapped : BOOLEAN]]
    BY <2>2 DEF IndInv, CheckInv
  <2>4. QED
    BY <2>1, <2>2, <2>3 DEF IndInv, CheckInv, At, Moved, Unchecked
<1>8. ASSUME NEW p \in Programs, Record(p) PROVE CheckInv'
  BY <1>8, CheckKept, WaysOfPrograms DEF Record, Ways, Moved, Ended, Unchecked
<1>9. CASE Capabilities
  BY <1>9, CheckKept, WaysOfPrograms, WaysOfServer, WaysOfAgent, WaysToCA DEF Capabilities, disk, Ways, Moved, Still, At, Programs, Ended, Unchecked
<1>10. CASE NewCA
  BY <1>10, CheckKept, WaysOfPrograms, WaysOfServer, WaysOfAgent, WaysToCA DEF NewCA, disk, Ways, Moved, Still, At, Programs, Ended, Unchecked
<1>11. CASE WriteCert
  BY <1>11, CheckKept, WaysOfPrograms, WaysOfServer, WaysOfAgent, WaysToCA DEF WriteCert, disk, Ways, Moved, Still, At, Programs, Ended, Unchecked
<1>12. CASE WriteKey
  BY <1>12, CheckKept, WaysOfPrograms, WaysOfServer, WaysOfAgent, WaysToCA DEF WriteKey, disk, Ways, Moved, Still, At, Programs, Ended, Unchecked
<1>13. CASE BindListener
  BY <1>13, CheckKept, WaysOfPrograms, WaysOfServer, WaysOfAgent, WaysToCA DEF BindListener, disk, Ways, Moved, Still, At, Programs, Ended, Unchecked
<1>14. CASE DetectBackend
  BY <1>14, CheckKept, WaysOfPrograms, WaysOfServer, WaysOfAgent, WaysToCA DEF DetectBackend, disk, Ways, Moved, Still, At, Programs, Ended, Unchecked
<1>15. CASE Listen
  BY <1>15, CheckKept, WaysOfPrograms, WaysOfServer, WaysOfAgent, WaysToCA DEF Listen, disk, Ways, Moved, Still, At, Programs, Ended, Unchecked
<1>16. CASE Tick
  BY <1>16, CheckKept, WaysOfPrograms, WaysOfServer, WaysOfAgent, WaysToCA DEF Tick, disk, Ways, Moved, Still, At, Programs, Ended, Unchecked
<1>17. CASE Refresh
  BY <1>17, CheckKept, WaysOfPrograms, WaysOfServer, WaysOfAgent, WaysToCA DEF Refresh, disk, Ways, Moved, Still, At, Programs, Ended, Unchecked
<1>18. CASE RunMigrations
  BY <1>18, CheckKept, WaysOfPrograms, WaysOfServer, WaysOfAgent, WaysToCA DEF RunMigrations, disk, Ways, Moved, Still, At, Programs, Ended, Unchecked
<1>19. CASE MigrateByHand
  BY <1>19, CheckKept, WaysOfPrograms, WaysOfServer, WaysOfAgent, WaysToCA DEF MigrateByHand, disk, Ways, Moved, Still, At, Programs, Ended, Unchecked, Apply
<1>20. CASE MigrationsEnd
  BY <1>20, CheckKept, WaysOfPrograms, WaysOfServer, WaysOfAgent, WaysToCA DEF MigrationsEnd, disk, Ways, Moved, Still, At, Programs, Ended, Unchecked
<1>21. CASE Upgrade
  BY <1>21, SwapsKeep DEF Upgrade, IndInv, CheckInv, At, Unchecked
<1>22. CASE Damage
  <2>1. CASE Swaps
    BY <1>22, <2>1, SwapsKeep DEF Damage, IndInv, CheckInv, At, Unchecked
  <2>2. CASE UNCHANGED <<bin, check>>
    BY <1>22, <2>2 DEF Damage, IndInv, CheckInv, At
  <2>3. QED
    BY <1>22, <2>1, <2>2 DEF Damage
<1>23. ASSUME NEW h \in Hosts, ChangeHost(h) PROVE CheckInv'
  BY <1>23, CheckKept DEF ChangeHost
<1>24. QED
    BY <1>1, <1>2, <1>3, <1>4, <1>5, <1>6, <1>7, <1>8, <1>9, <1>10, <1>11, <1>12, <1>13, <1>14, <1>15,
     <1>16, <1>17, <1>18, <1>19, <1>20, <1>21, <1>22, <1>23 DEF Next, ServerStep, AgentStep, Integrity,
     Programs

(***************************************************************************)
(* The theorems.                                                           *)
(***************************************************************************)

\* The invariant holds at the start.
LEMMA InitInv == Init => IndInv
<1> SUFFICES ASSUME Init PROVE IndInv
  OBVIOUS
<1>1. ProcInv
  BY DEF Init, ProcInv, Process, Programs, StepsOf, Ended, ServerSteps, AgentSteps, None
<1>2. TypeInv
  <2>1. None \in Numbers /\ 1 \in Releases /\ count.made = 0
    BY DEF Init, Numbers, None, Releases
  <2>2. ca \in [cert : Numbers, key : Numbers]
    BY <2>1 DEF Init
  <2>3. record \in [Programs -> [key : Numbers, bin : Releases \union {None, Torn}, mac : Numbers]]
    BY <2>1 DEF Init
  <2>4. count \in [crashes : Nat, changes : Nat, made : Nat]
    BY DEF Init
  <2>5. log \in [torn : BOOLEAN, tampered : BOOLEAN, first : Releases \union {None}, ca : 0..count.made]
    BY <2>1 DEF Init, None
  <2>6. QED
    BY <2>1, <2>2, <2>3, <2>4, <2>5 DEF Init, TypeInv
<1>3. SchemaInv
  BY DEF Init, SchemaInv, At, Ended, Programs
<1>4. CaInv
  BY DEF Init, CaInv, At, Programs
<1>5. RecordInv
  BY DEF Init, RecordInv, AgentUnchanged, At, Programs
<1>6. CheckInv
  BY DEF Init, CheckInv, Unread, At, Programs, Unchecked
<1>7. QED
  BY <1>1, <1>2, <1>3, <1>4, <1>5, <1>6 DEF IndInv

\* Every step keeps it.
LEMMA InvStep == IndInv /\ [Next]_vars => IndInv'
<1>1. CASE IndInv /\ Next
  BY <1>1, ProcStep, TypeStep, SchemaStep, CaStep, RecordStep, CheckStep DEF IndInv
<1>2. CASE IndInv /\ UNCHANGED vars
  BY <1>2 DEF vars, IndInv, ProcInv, TypeInv, Numbers, SchemaInv, CaInv, RecordInv, CheckInv, AgentUnchanged, At
<1>3. QED
  BY <1>1, <1>2

\* The invariant of starts, crashes and changes.
THEOREM Invariance == Spec => []IndInv
BY InitInv, InvStep, PTL DEF Spec

\* database.go:62: a server that got past its database works on a complete
\* schema, and a schema never has a version without those before it.
THEOREM CompleteSchema == Spec => []SchemaComplete
<1>1. IndInv => SchemaComplete
  <2> SUFFICES ASSUME IndInv PROVE SchemaComplete
    OBVIOUS
  <2>1. TypeOK
    BY DEF IndInv, ProcInv, StepsOf, Programs, TypeInv, CaInv, RecordInv, TypeOK
  <2>2. QED
    BY <2>1 DEF IndInv, SchemaInv, SchemaComplete
<1>2. QED
  BY <1>1, Invariance, PTL

\* integrity.go:100: an agent that touches the firewall is the program that was
\* recorded first, unless its file was replaced before its check read it.
THEOREM SameAgent == Spec => []AgentUnchanged
<1>1. IndInv => AgentUnchanged
  BY DEF IndInv, RecordInv
<1>2. QED
  BY <1>1, Invariance, PTL

\* agentca.go:25: all servers that ever got past the CA issue from the same one,
\* with the key of its certificate.
THEOREM OnlyCA == Spec => []OneCA
<1>1. IndInv => OneCA
  BY DEF IndInv, CaInv, OneCA
<1>2. QED
  BY <1>1, Invariance, PTL
===============================================================================
