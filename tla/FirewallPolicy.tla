---------------------------- MODULE FirewallPolicy ----------------------------
(***************************************************************************)
(* What a firewall transaction is judged by and what becomes of it on the  *)
(* host: the choice of a backend and the ownership gate at start           *)
(* (app.go, ownership.go), the rules listed from the backend's output      *)
(* (ufw.go, iptables/parser.go), their structural validation and conflict  *)
(* analysis (validate.go, validation.go, conflicts.go), the command lines  *)
(* (ufw.go, iptables.go) and the rules these leave behind.                 *)
(*                                                                         *)
(* The reference is the packet: Matches says which packets a normalized    *)
(* rule speaks of, and the properties compare what the code concludes from *)
(* the fields of rules with what happens to packets.                       *)
(*                                                                         *)
(* Abstracted: the lines of text (a rule is the record of its fields, a    *)
(* misread field the value "junk"), ICMP types, comments but the rule's id,*)
(* connection states but established.  A list of ports has two.  IPv4 has  *)
(* four addresses, of which 3 is 127.0.0.1, IPv6 has two, of which 5 is    *)
(* ::1.  Failing and killed commands, the snapshot and the rollback are    *)
(* FirewallManager's.                                                      *)
(***************************************************************************)
EXTENDS Integers, SequencesExt

CONSTANTS
  Transactions,     \* sequences of actions that callers may ask for
  Packets,          \* the traffic the properties look at
  Existing,         \* rules the host may have before: administrators' own
  MaxTransactions   \* bound: transactions asked for

VARIABLES
  env,       \* what detection finds when the agent starts, and the setting
  backend,   \* the backend chosen, "none" before
  writes,    \* OwnershipReport.WritesAllowed
  host,      \* the rules of the host in the order they are evaluated
  asked,     \* transactions asked for so far
  last       \* the last transaction, the rules before it, the commands that were
             \* run and what became of it

vars == <<env, backend, writes, host, asked, last>>

V4 == 0..3
V6 == 4..5
Loopback4 == 3
Loopback6 == 5

(***************************************************************************)
(* Rules.                                                                  *)
(***************************************************************************)
\* An address as it is written: "", "any", a single one, or a CIDR block with
\* its prefix length.
AddrSpec == [k : {"", "any", "junk"}, base : {0}, len : {0}]
            \union [k : {"ip"}, base : V4 \union V6, len : {0}]
            \union [k : {"cidr"}, base : V4, len : 0..2] \union [k : {"cidr"}, base : V6, len : 0..1]
\* A port or a range "lo-hi", a range "lo:hi", or a list of two ports.
PortSpec == [k : {"", "junk"}, lo : {0}, hi : {0}]
            \union [k : {"range", "colon", "list"}, lo : 0..9, hi : 0..9]
MaxPort == 8   \* stands for 65535
NoAddr == [k |-> "", base |-> 0, len |-> 0]
NoPort == [k |-> "", lo |-> 0, hi |-> 0]
Junk   == [k |-> "junk", lo |-> 0, hi |-> 0]
JunkAddr == [k |-> "junk", base |-> 0, len |-> 0]

\* chain is "base" for INPUT, OUTPUT and FORWARD, "user" for the chains of ufw or
\* of another tool that these jump to.
Rule == [id : Int, chain : {"base", "user"}, fam : {"ipv4", "ipv6", "both"}, dir : {"in", "out", "forward"},
         act : {"allow", "deny", "reject", "drop", "log"},
         proto : {"", "any", "tcp", "udp", "icmp", "custom"},
         src : AddrSpec, sport : PortSpec, dst : AddrSpec, dport : PortSpec,
         ifin : {"", "eth0"}, ifout : {"", "eth0"}, state : {"", "est"},
         enabled : BOOLEAN, prio : Nat]

\* ParseCIDR and ParseIP: the addresses of a block; 2 bits of IPv4, 1 of IPv6.
Width(len) == CASE len = 0 -> 4 [] len = 1 -> 2 [] OTHER -> 1
Block(base, len) ==
  IF base \in V4 THEN {a \in V4 : a \div Width(len) = base \div Width(len)}
  ELSE IF len = 0 THEN V6 ELSE {base}
Hosts(s) == CASE s.k \in {"", "any"} -> V4 \union V6
              [] s.k = "ip" -> {s.base}
              [] s.k = "cidr" -> Block(s.base, s.len)
              [] OTHER -> {}
Ports(s) == CASE s.k \in {"range", "colon"} -> s.lo..s.hi
              [] s.k = "list" -> {s.lo, s.hi}
              [] s.k = "" -> 0..MaxPort
              [] OTHER -> {}
Family(a) == IF a \in V4 THEN "ipv4" ELSE "ipv6"

\* No packet goes from one family to the other.
Packet == {p \in [dir : {"in", "out", "forward"}, src : V4 \union V6, dst : V4 \union V6,
                  proto : {"tcp", "udp", "icmp"}, sport : 0..MaxPort, dport : 0..MaxPort,
                  ifin : {"", "eth0"}, ifout : {"", "eth0"}, state : {"new", "est"}] : Family(p.src) = Family(p.dst)}

\* The packets a normalized rule speaks of.  Only TCP and UDP have ports.
Matches(r, p) ==
  /\ r.dir = p.dir
  /\ r.fam \in {"both", Family(p.src)}
  /\ r.proto \in {"", "any", p.proto}
  /\ p.src \in Hosts(r.src) /\ p.dst \in Hosts(r.dst)
  /\ r.sport.k # "" => p.proto # "icmp" /\ p.sport \in Ports(r.sport)
  /\ r.dport.k # "" => p.proto # "icmp" /\ p.dport \in Ports(r.dport)
  /\ r.ifin \in {"", p.ifin} /\ r.ifout \in {"", p.ifout} /\ r.state \in {"", p.state}

Traffic(r) == {p \in Packets : Matches(r, p)}
Blocks(r) == r.act \in {"deny", "reject", "drop"}

(***************************************************************************)
(* Ownership and the choice of a backend.                                  *)
(***************************************************************************)
Signals == [ufw : BOOLEAN, firewalld : BOOLEAN, nft : BOOLEAN, ack : BOOLEAN,
            setting : {"auto", "ufw", "iptables"}, hasUfw : BOOLEAN, hasIpt : BOOLEAN]

ActiveManagers(e) == Cardinality({m \in {"ufw", "firewalld", "nft"} : e[m]})

\* Mutant: no manager and several are told apart by a wrong comparison.
LooseOwner(e) ==
  CASE e.ufw                                -> "UFW"
    [] ~ e.ufw /\ ActiveManagers(e) = 0     -> "NONE"
    [] ~ e.ufw /\ ActiveManagers(e) > 1     -> "MULTIPLE_CONFLICTING"
    [] OTHER                                -> "FIREWALLD"
Owner(e) ==
  CASE ActiveManagers(e) = 0                -> "NONE"
    [] ActiveManagers(e) > 1                -> "MULTIPLE_CONFLICTING"
    [] ActiveManagers(e) = 1 /\ e.ufw       -> "UFW"
    [] ActiveManagers(e) = 1 /\ e.firewalld -> "FIREWALLD"
    [] OTHER                                -> "NFTABLES_NATIVE"

WritesAllowed(e) == Owner(e) = "UFW" \/ (Owner(e) = "MULTIPLE_CONFLICTING" /\ e.ack)

\* An explicit setting first, then availability.
Chosen(e) ==
  CASE e.setting = "ufw"      -> IF e.hasUfw THEN "ufw" ELSE "none"
    [] e.setting = "iptables" -> IF e.hasIpt THEN "iptables" ELSE "none"
    [] OTHER -> IF e.hasUfw /\ (Owner(e) = "UFW" \/ ~ e.hasIpt) THEN "ufw"
                ELSE IF e.hasIpt THEN "iptables" ELSE "none"

(***************************************************************************)
(* ValidateRule: the structure of one rule.  The enumerations of family,   *)
(* direction and action hold by Rule, interface names by their two values. *)
(***************************************************************************)
AddrValid(s, fam) == \/ s.k \in {"", "any"}
                     \/ s.k \in {"ip", "cidr"} /\ fam \in {"both", Family(s.base)}
PortValid(s) == s.k = "" \/ (s.k \in {"range", "colon"} /\ 1 <= s.lo /\ s.lo <= s.hi /\ s.hi <= MaxPort)

\* The address as it is written, not the block it stands for.
IsLoopbackSpec(s) == s.k \in {"ip", "cidr"} /\ s.base \in {Loopback4, Loopback6}

ValidRule(r) ==
  /\ r.proto # ""
  /\ AddrValid(r.src, r.fam) /\ AddrValid(r.dst, r.fam)
  /\ PortValid(r.sport) /\ PortValid(r.dport)
  /\ r.proto = "icmp" => r.sport.k = "" /\ r.dport.k = ""
  /\ ~ (r.dir = "in" /\ Blocks(r) /\ (IsLoopbackSpec(r.src) \/ IsLoopbackSpec(r.dst)))

(***************************************************************************)
(* AnalyzeConflicts: what the fields of two rules say about their traffic. *)
(***************************************************************************)
NormAddr(s) == IF s.k = "any" \/ (s.k = "cidr" /\ s.len = 0 /\ s.base \in {0, 4}) THEN NoAddr ELSE s

\* Two blocks are compared by the inner one's address only; an inner block
\* against a single address the other way round.
AddrSubset(a, b) ==
  LET sub == NormAddr(a)
      sup == NormAddr(b)
  IN \/ sup.k = ""
     \/ sub = sup
     \/ sup.k = "cidr" /\ sub.k \in {"ip", "cidr"} /\ sub.base \in Hosts(sup)
     \/ sup.k = "ip" /\ sub.k = "cidr" /\ sup.base \in Hosts(sub)

\* portRange: a list or a word is read as port 0, and as unreadable.
Ranged(s) == s.k \in {"range", "colon"}
Lo(s) == IF Ranged(s) THEN s.lo ELSE 0
Hi(s) == IF Ranged(s) THEN s.hi ELSE 0

\* Mutant: ranges that overlap are taken for ranges inside each other.
OverlapSubset(sub, sup) ==
  sup.k = "" \/ (sub.k # "" /\ sub.lo <= sup.hi /\ sup.lo <= sub.hi)
PortSubset(sub, sup) ==
  \/ sup.k = ""
  \/ sub.k # "" /\ (sub = sup \/ (Ranged(sub) /\ Ranged(sup) /\ sub.lo >= sup.lo /\ sub.hi <= sup.hi))

\* The connection state is not looked at.
MatchSubset(sub, sup) ==
  /\ sub.dir = sup.dir
  /\ sup.fam \in {sub.fam, "both"}
  /\ sup.proto \in {sub.proto, "any"}
  /\ AddrSubset(sub.src, sup.src) /\ AddrSubset(sub.dst, sup.dst)
  /\ PortSubset(sub.sport, sup.sport) /\ PortSubset(sub.dport, sup.dport)
  /\ sup.ifin \in {"", sub.ifin}
  /\ (sub.ifin # "" /\ sup.ifin = "") \/ sup.ifout \in {"", sub.ifout}

Selector(r) == <<r.fam, r.dir, r.proto, r.src, r.sport, r.dst, r.dport, r.ifin, r.ifout, r.state>>

\* a is evaluated before b.
Pairwise(a, b) ==
  CASE a.id = b.id -> {}
    [] a.id # b.id /\ Selector(a) = Selector(b) ->
         {[code |-> IF a.act = b.act THEN "DUPLICATE_RULE" ELSE "ALLOW_DENY_OVERLAP", rules |-> {a.id, b.id}]}
    [] a.id # b.id /\ Selector(a) # Selector(b) /\ a.act # "log" /\ MatchSubset(b, a) ->
         {[code |-> "RULE_SHADOWED", rules |-> {a.id, b.id}]}
    [] OTHER -> {}

AddrCovers(s, a) == s.k \in {"", "any"} \/ (s.k \in {"ip", "cidr"} /\ a \in Hosts(s))

AddrOverlap(a, b) == NoAddr \in {NormAddr(a), NormAddr(b)} \/ NormAddr(a) = NormAddr(b)

\* Mutant: a rule for all ports is taken not to meet one for some ports.
ExactPorts(a, b) == Lo(a) <= Hi(b) /\ Lo(b) <= Hi(a)
PortIntersects(a, b) == a.k = "" \/ b.k = "" \/ (Lo(a) <= Hi(b) /\ Lo(b) <= Hi(a))

LockoutChecks(existing, c) ==
  IF c.dir # "in" \/ ~ Blocks(c) THEN {}
  ELSE {[code |-> "MANAGEMENT_PORT_LOCKOUT", rules |-> {c.id}] :
          s \in {a \in {c.src, c.dst} : AddrCovers(a, Loopback4)}}
       \union
       {[code |-> "SSH_LOCKOUT_RISK", rules |-> {c.id, r.id}] :
          r \in {e \in existing : /\ e.act = "allow" /\ e.dir = "in"
                                 /\ PortIntersects(c.dport, e.dport)
                                 /\ AddrOverlap(c.src, e.src)}}

\* The candidate takes its place by its priority, behind its equals; rules
\* that are not enabled are left out of the pairs.
AnalyzeConflicts(existing, c) ==
  LET Before(a, b) == a.prio < b.prio \/ (a.prio = b.prio /\ b = c)
      active == {r \in existing \union {c} : r.enabled}
      pairs  == {q \in active \X active : q[1] # q[2] /\ Before(q[1], q[2])}
  IN (UNION {Pairwise(q[1], q[2]) : q \in pairs})
     \union LockoutChecks(existing, c)

Critical == {"MANAGEMENT_PORT_LOCKOUT", "SSH_LOCKOUT_RISK"}

(***************************************************************************)
(* The rules as the backends list them: ufw its own, iptables those of the *)
(* three built-in chains.  A listed rule gets a fresh id and the number of *)
(* the listed rules before it as its priority; the tables of IPv4 and IPv6 *)
(* are two listings of iptables.  (The jumps to other chains count in that *)
(* number, which moves no rule before or behind another.)                  *)
(***************************************************************************)
FreshId(i) == -i
Shown(r) == r.chain = IF backend = "ufw" THEN "user" ELSE "base"
Place(rules, i) ==
  Cardinality({j \in 1..(i - 1) : Shown(rules[j]) /\ (backend = "ufw" \/ rules[j].fam = rules[i].fam)})
Fresh(rules, i) == [rules[i] EXCEPT !.id = FreshId(i), !.prio = Place(rules, i), !.enabled = TRUE]

\* Both tools drop /0 and mask a block; iptables-save writes a single address
\* as a block, ufw a block of one as its address.
Full(base) == IF base \in V4 THEN 2 ELSE 1
First(s)   == IF s.base \in V4 THEN Width(s.len) * (s.base \div Width(s.len)) ELSE s.base
Saved(s) ==
  CASE s.k = "ip" -> [k |-> "cidr", base |-> s.base, len |-> Full(s.base)]
    [] s.k = "cidr" /\ s.len > 0 -> [k |-> "cidr", base |-> First(s), len |-> s.len]
    [] OTHER -> NoAddr
Normal(s) ==
  CASE s.k = "cidr" /\ s.len = Full(s.base) -> [k |-> "ip", base |-> s.base, len |-> 0]
    [] s.k = "cidr" /\ s.len # Full(s.base) -> Saved(s)
    [] OTHER -> s

\* One line of iptables-save: a range is printed "lo:hi" and read as "lo-hi", a
\* list stays one.  "-p" is missing where any protocol is meant, and stays so.
Dashed(s) == IF s.k = "colon" THEN [s EXCEPT !.k = "range"] ELSE s
ParseSave(r) == [r EXCEPT !.sport = Dashed(r.sport), !.dport = Dashed(r.dport)]

\* One line of ufw.  The "To" column starts with the port, or with the address
\* before it, which is misread as a port; it stands for both ports.  The "From"
\* column may start with the address, but also with a port, with the protocol
\* stuck to the address, or name an interface, which is misread as an address.
\* Only an "Anywhere" there carries the v6 mark that is looked at.  (What the
\* columns hold is external.)
NoPorts(r)  == r.sport.k = "" /\ r.dport.k = ""
ToProto(r)  == \/ r.dst.k = "" /\ r.dport.k # ""
               \/ NoPorts(r) /\ (r.dst.k = "ip" \/ (r.dst.k = "" /\ r.src.k = ""))
FromIf(r)   == IF r.dir = "forward" THEN r.ifin ELSE r.ifout
FromBare(r) == IF r.src.k = "" THEN /\ r.sport.k = "" /\ FromIf(r) = ""
                                    /\ r.proto = "" \/ ~ NoPorts(r) \/ r.dst.k # ""
               ELSE r.proto = "" \/ ~ NoPorts(r)
ParseStatusNumbered(r) ==
  LET to == IF r.dst.k = "" THEN r.dport ELSE Junk
  IN [r EXCEPT
        !.fam   = IF r.fam = "ipv6" /\ r.src.k = "" THEN "ipv6" ELSE "ipv4",
        !.proto = CASE r.dst.k = "cidr" -> "custom"
                    [] ToProto(r) /\ r.proto # "" /\ r.dst.k # "cidr" -> r.proto
                    [] OTHER -> "any",
        !.src = IF FromBare(r) THEN r.src ELSE JunkAddr, !.dst = NoAddr,
        !.sport = to, !.dport = to, !.ifin = "", !.ifout = "", !.state = ""]

Listed(rules) ==
  [i \in {j \in DOMAIN rules : Shown(rules[j])} |->
     IF backend = "ufw" THEN ParseStatusNumbered(Fresh(rules, i)) ELSE ParseSave(Fresh(rules, i))]

(***************************************************************************)
(* Validation of a transaction.  Each action is judged against the rules   *)
(* as they are before the transaction.                                     *)
(***************************************************************************)
Op == {"add", "update", "delete", "enable", "disable", "set_policy"}
NoRule == [id |-> 0]

Conflicts(rules, a) ==
  CASE a.rule = NoRule -> {}
    [] a.rule # NoRule /\ a.op = "add" -> AnalyzeConflicts(rules, a.rule)
    [] a.rule # NoRule /\ a.op \in {"update", "enable", "disable"} ->
         AnalyzeConflicts({r \in rules : r.id \notin {a.num, a.rule.id}}, a.rule)
    [] OTHER -> {}

ValidateTx(tx, listed) ==
  LET rules == {listed[i] : i \in DOMAIN listed}
  IN /\ \A i \in DOMAIN tx : IF tx[i].rule = NoRule THEN tx[i].op \in {"delete", "set_policy"}
                             ELSE ValidRule(tx[i].rule)
     /\ \A i \in DOMAIN tx : \A c \in Conflicts(rules, tx[i]) : c.code \notin Critical

Validate(tx) ==
  /\ \A i \in DOMAIN tx : tx[i].op \in (IF backend = "ufw" THEN {"add", "update", "delete"} ELSE {"add", "delete"})
  /\ ValidateTx(tx, Listed(host))

(***************************************************************************)
(* Command lines.  A command is the rule that the tool is told to make.    *)
(***************************************************************************)
Named(s) == s.k \notin {"", "any"}
Plain(s) == IF Named(s) THEN s ELSE NoAddr

\* Mutant: rejects are told apart in no direction.
UFWVerbNoReject(r) ==
  IF r.dir = "in" THEN IF r.act = "allow" THEN "allow" ELSE "deny"
  ELSE IF r.act \in {"deny", "drop"} THEN "deny" ELSE "allow"
UFWVerb(r) ==
  IF r.dir = "in" THEN IF r.act \in {"allow", "reject"} THEN r.act ELSE "deny"
  ELSE IF r.act \in {"deny", "drop"} THEN "deny" ELSE "allow"

\* The family and the connection state have no word in a ufw command, a source
\* port only behind a source.
ToUFWArgs(r) ==
  [r EXCEPT !.id = 0, !.prio = 0, !.enabled = TRUE,
            !.act = UFWVerb(r), !.proto = IF r.proto = "any" THEN "" ELSE r.proto,
            !.src = Plain(r.src), !.sport = IF Named(r.src) THEN r.sport ELSE NoPort,
            !.dst = Plain(r.dst),
            !.fam = IF Named(r.src) THEN Family(r.src.base)
                    ELSE IF Named(r.dst) THEN Family(r.dst.base) ELSE "both",
            !.dir = IF r.dir = "in" /\ r.ifout # "" THEN "out" ELSE r.dir, !.state = ""]

\* The family has no word in an iptables command either: it is always IPv4's.
\* A range is written "lo:hi" there.
Coloned(s) == IF s.k = "range" THEN [s EXCEPT !.k = "colon"] ELSE s
RuleToArgs(r) ==
  [r EXCEPT !.prio = 0, !.enabled = TRUE, !.chain = "base",
            !.act = IF r.act = "deny" THEN "drop" ELSE r.act, !.fam = "ipv4",
            !.proto = IF r.proto = "any" THEN "" ELSE r.proto,
            !.src = Saved(r.src), !.dst = Saved(r.dst),
            !.sport = Coloned(r.sport), !.dport = Coloned(r.dport)]

\* The tools (external): what they refuse, and the place of a new rule.
SameFamily(r) == Named(r.src) /\ Named(r.dst) => Family(r.src.base) = Family(r.dst.base)
UFWRefuses(r) ==
  \/ r.proto \in {"icmp", "custom"} \/ ~ SameFamily(r)
  \/ \E s \in {r.sport, r.dport} : s.lo # s.hi /\ (s.k = "range" \/ r.proto = "")
  \/ r.dir = "out" /\ r.ifin # ""
IptablesRefuses(r) ==
  \/ r.proto = "custom" \/ \E s \in {r.src, r.dst} : Named(s) /\ s.base \in V6
  \/ r.proto = "" /\ (r.sport.k # "" \/ r.dport.k # "")
  \/ (r.dir = "in" /\ r.ifout # "") \/ (r.dir = "out" /\ r.ifin # "")

\* ufw keeps the lines of IPv4 before those of IPv6, and gives a rule for the
\* same traffic its new action where it stands.
UFWLine(r, f) == [r EXCEPT !.chain = "user", !.fam = f, !.src = Normal(r.src), !.dst = Normal(r.dst)]
UFWPut(rules, r, f) ==
  LET new     == UFWLine(r, f)
      Same(x) == [x EXCEPT !.act = new.act] = new
      ipv4    == {i \in DOMAIN rules : rules[i].fam = "ipv4"}
  IN CASE r.fam \notin {f, "both"} -> rules
       [] r.fam \in {f, "both"} /\ \E i \in DOMAIN rules : Same(rules[i]) ->
            [i \in DOMAIN rules |-> IF Same(rules[i]) THEN new ELSE rules[i]]
       [] OTHER -> InsertAt(rules, (IF f = "ipv4" THEN Cardinality(ipv4) ELSE Len(rules)) + 1, new)
UFWAdd(rules, r) == UFWPut(UFWPut(rules, r, "ipv4"), r, "ipv6")

\* applyAction: whether the command does what it is told, and the rules it
\* leaves.  A rule is deleted from ufw by its number or by its words, from
\* iptables only by all of its fields, of which its id is one.
UFWCan(rules, a) ==
  \/ /\ a.op \in {"add", "update"} /\ a.rule # NoRule /\ ~ UFWRefuses(ToUFWArgs(a.rule))
     /\ a.op = "update" => a.num \in DOMAIN rules
  \/ a.op = "delete" /\ a.num \in DOMAIN rules
  \/ /\ a.op = "delete" /\ a.num = 0 /\ a.rule # NoRule
     /\ \E f \in {"ipv4", "ipv6"} : Contains(rules, UFWLine(ToUFWArgs(a.rule), f))
UFWApply(rules, a) ==
  CASE a.op = "add" -> UFWAdd(rules, ToUFWArgs(a.rule))
    [] a.op = "update" -> UFWAdd(RemoveAt(rules, a.num), ToUFWArgs(a.rule))
    [] a.op = "delete" /\ a.num # 0 -> RemoveAt(rules, a.num)
    [] OTHER -> RemoveFirst(RemoveFirst(rules, UFWLine(ToUFWArgs(a.rule), "ipv4")),
                            UFWLine(ToUFWArgs(a.rule), "ipv6"))

IptablesCan(rules, a) ==
  /\ a.rule # NoRule /\ ~ IptablesRefuses(RuleToArgs(a.rule))
  /\ a.op = "add" \/ (a.op = "delete" /\ Contains(rules, RuleToArgs(a.rule)))
IptablesApply(rules, a) ==
  IF a.op = "add" THEN InsertAt(rules, 1, RuleToArgs(a.rule)) ELSE RemoveFirst(rules, RuleToArgs(a.rule))

Can(rules, a)   == IF backend = "ufw" THEN UFWCan(rules, a) ELSE IptablesCan(rules, a)
Apply(rules, a) == IF backend = "ufw" THEN UFWApply(rules, a) ELSE IptablesApply(rules, a)

\* What the callers, the host and the network give the agent.  The rules of
\* the host are as the tools write them.
Action == [op : Op, rule : {r \in Rule : r.id >= 0} \union {NoRule}, num : Nat]
LineAddr == {s \in AddrSpec : s.k \in {"", "ip"} \/ (s.k = "cidr" /\ s.len > 0 /\ First(s) = s.base)}
Line == {r \in Rule : /\ r.fam # "both" /\ r.src \in LineAddr /\ r.dst \in LineAddr
                      /\ \A s \in {r.sport, r.dport} : s.k = "list" \/ PortValid(s)}
ASSUME PolicyAssumption ==
  /\ Transactions \subseteq Seq(Action) /\ Existing \subseteq Seq(Line) /\ Packets \subseteq Packet
  /\ MaxTransactions \in Nat

(***************************************************************************)
(* The agent.                                                              *)
(***************************************************************************)
NoEnv == [ufw |-> FALSE, firewalld |-> FALSE, nft |-> FALSE, ack |-> FALSE,
          setting |-> "auto", hasUfw |-> FALSE, hasIpt |-> FALSE]
Nothing == [tx |-> <<>>, before |-> <<>>, done |-> 0, outcome |-> "none"]

Init ==
  /\ env \in {e \in Signals : e.ufw => e.hasUfw}   \* ufw's status is asked of its binary
  /\ backend = "none" /\ writes = FALSE
  /\ host \in Existing
  /\ Chosen(env) = "ufw" => \A i \in DOMAIN host : host[i].chain = "user"
  /\ asked = 0
  /\ last = Nothing

\* detectBackend and ResolveOwnership; an agent without a backend is gone.
Start ==
  /\ backend = "none" /\ Chosen(env) # "none"
  /\ backend' = Chosen(env)
  /\ writes' = WritesAllowed(env)
  /\ env' = NoEnv
  /\ UNCHANGED <<host, asked, last>>

\* ApplyTransaction up to the first command.
Transact(tx) ==
  /\ backend # "none" /\ writes /\ asked < MaxTransactions /\ last.outcome # "applying"
  /\ last' = [tx |-> tx, before |-> host, done |-> 0,
              outcome |-> IF Validate(tx) THEN "applying" ELSE "rejected"]
  /\ asked' = asked + 1
  /\ UNCHANGED <<env, backend, writes, host>>

\* The commands do what they are told or refuse: a refusal takes the whole
\* transaction back.
Command ==
  /\ last.outcome = "applying" /\ last.done < Len(last.tx)
  /\ Can(host, last.tx[last.done + 1])
  /\ host' = Apply(host, last.tx[last.done + 1])
  /\ last' = [last EXCEPT !.done = @ + 1]
  /\ UNCHANGED <<env, backend, writes, asked>>
Rollback ==
  /\ last.outcome = "applying" /\ last.done < Len(last.tx)
  /\ ~ Can(host, last.tx[last.done + 1])
  /\ host' = last.before
  /\ last' = [last EXCEPT !.outcome = "rolled_back"]
  /\ UNCHANGED <<env, backend, writes, asked>>
Commit ==
  /\ last.outcome = "applying" /\ last.done = Len(last.tx)
  /\ last' = [last EXCEPT !.outcome = "applied"]
  /\ UNCHANGED <<env, backend, writes, host, asked>>

Next == Start \/ (\E tx \in Transactions : Transact(tx)) \/ Command \/ Rollback \/ Commit

Spec == Init /\ [][Next]_vars

(***************************************************************************)
(* Properties.                                                             *)
(***************************************************************************)
Added == {last.tx[i].rule : i \in {j \in DOMAIN last.tx : last.tx[j].op \in {"add", "update"}}} \ {NoRule}
Accepted == IF last.outcome = "applied" THEN Added ELSE {}
Before == Listed(last.before)
Installed(r) == IF backend = "ufw" THEN ToUFWArgs(r) ELSE RuleToArgs(r)

\* What becomes of a packet: the first rule that is not a log decides.
Hits(x, p) == x.act # "log" /\ Matches(x, p)
Decides(rules, i, p) == i \in DOMAIN rules /\ Hits(rules[i], p) /\ \A j \in 1..(i - 1) : ~ Hits(rules[j], p)

\* Every state is a state of rules: on the host, asked for and listed.
TypeOK ==
  /\ env \in Signals /\ backend \in {"none", "ufw", "iptables"} /\ writes \in BOOLEAN
  /\ \A i \in DOMAIN host : host[i] \in Rule
  /\ backend # "none" => \A i \in DOMAIN Listed(host) : Listed(host)[i] \in Rule
  /\ asked \in 0..MaxTransactions
  /\ last.outcome \in {"none", "rejected", "applying", "rolled_back", "applied"}

\* ownership.go, app.go: unless an administrator acknowledged the conflict the
\* agent writes only where UFW is the one active manager, and then through ufw
\* or the backend that the setting names, never one that was picked.
WritesFollowOwner ==
  [][(writes' /\ ~ writes /\ ~ env.ack) =>
       /\ env.ufw /\ ~ env.firewalld /\ ~ env.nft
       /\ env.setting = "auto" => backend' = "ufw"]_vars

\* conflicts.go:244: no accepted blocking rule cuts the local UI off 127.0.0.1,
\* whatever blocks its addresses are written as.
LoopbackSafe ==
  \A r \in Accepted : (r.dir = "in" /\ Blocks(r)) =>
    ~ \E p \in Packets : p.src = Loopback4 /\ p.dst = Loopback4 /\ Matches(r, p)

\* conflicts.go:254: an accepted transaction with one blocking rule takes none of
\* the traffic away that an existing inbound rule admits, as long as the listing
\* shows that rule, with its one port or range, as one for all sources (or the
\* block names no source), and it is not the one replaced.
Replaced == IF last.tx[1].op = "update" THEN last.tx[1].num ELSE 0
ReadAs(i) == i \in DOMAIN Before /\ Before[i].dport.k \notin {"junk", "list"}
ManagementPathKept ==
  \A r \in Accepted : (Len(last.tx) = 1 /\ r.dir = "in" /\ Blocks(r)) =>
    \A i \in {j \in DOMAIN last.before : ReadAs(j)} \ {Replaced} :
      LET e == last.before[i]
      IN (e.dir = "in" /\ e.act = "allow" /\ NoAddr \in {NormAddr(r.src), Before[i].src}) =>
           \A p \in Packets : Decides(last.before, i, p) =>
             \E j \in DOMAIN host : Decides(host, j, p) /\ host[j].act = "allow"

\* conflicts.go:234 knows no such condition: it "guards the management path".
ManagementPathAlwaysKept ==
  \A r \in Accepted : (Len(last.tx) = 1 /\ r.dir = "in" /\ Blocks(r)) =>
    \A i \in (DOMAIN last.before) \ {Replaced} :
      LET e == last.before[i]
      IN (e.dir = "in" /\ e.act = "allow" /\ e.src = NoAddr) =>
           \A p \in Packets : Decides(last.before, i, p) =>
             \E j \in DOMAIN host : Decides(host, j, p) /\ host[j].act = "allow"

\* No accepted transaction locks the administrator out, and all that is listed
\* can be judged again.
NoLockout == TypeOK /\ LoopbackSafe /\ ManagementPathKept

\* conflicts.go:102: of two rules of one family with their protocols written
\* out, as they are listed, the later one is reported whenever the earlier one
\* decides all of its packets, unless that one has a list of ports.
Comparable(a, b) == /\ a.fam = b.fam /\ a.proto # "" /\ b.proto # ""
                    /\ \A s \in {a.sport, a.dport} : s.k # "list"
ShadowsReported ==
  \A r \in Added : backend # "none" => \A i \in DOMAIN Before :
    LET e == Before[i]
    IN (Comparable(e, r) /\ e.act # "log" /\ Traffic(r) # {} /\ Traffic(r) \subseteq Traffic(e) /\ ValidRule(r)) =>
         Pairwise(e, r) # {}

\* and a rule that is reported as shadowed has no packet left to it, when no
\* two blocks are compared, no interface is named, and the earlier rule is for
\* every state of a connection or for the later one's.
ReportedShadow(e, r) == [code |-> "RULE_SHADOWED", rules |-> {e.id, r.id}] \in Pairwise(e, r)
ShadowsAreReal ==
  \A r \in Added : backend # "none" => \A i \in DOMAIN Before :
    LET e == Before[i]
    IN (/\ \A s \in {r.src, r.dst} : s.k # "cidr"
        /\ r.ifin = "" /\ r.ifout = "" /\ e.state \in {"", r.state}
        /\ ReportedShadow(e, r)) => Traffic(r) \subseteq Traffic(e)

\* The doc comment of shadows (conflicts.go:103) knows no such exception.
EveryShadowIsReal ==
  \A r \in Added : backend # "none" => \A i \in DOMAIN Before :
    ReportedShadow(Before[i], r) => Traffic(r) \subseteq Traffic(Before[i])

\* The reports of shadows are those that the packets bear out.
ShadowsExact == ShadowsReported /\ ShadowsAreReal

\* ufw.go:188, iptables.go:239: a rule inside what the command line of its
\* backend can say is installed for the packets it names and decides them as
\* asked.
Expressible(r) ==
  IF backend = "iptables" THEN r.fam = "ipv4"
  ELSE /\ r.state = ""
       /\ r.act \in {"allow", "deny", "drop"} \/ (r.act = "reject" /\ r.dir = "in")
       /\ Named(r.src) \/ r.sport.k = ""
       /\ r.dir = "in" => r.ifout = ""
       /\ r.fam = "both" \/ Named(r.src) \/ Named(r.dst)
Polarity(act) == CASE act = "log" -> "log" [] act = "allow" -> "allow" [] act = "reject" -> "reject" [] OTHER -> "drop"
EffectAsAsked ==
  \A r \in Accepted : Expressible(r) =>
    /\ Traffic(Installed(r)) = Traffic(r)
    /\ Polarity(Installed(r).act) = Polarity(r.act)

\* models.go:33: the action of a rule is what it does to traffic: a rule that
\* blocks is not installed as one that admits.
BlockStaysBlock ==
  \A r \in Accepted : Blocks(r) => Blocks(Installed(r))
=============================================================================
