--------------------------- MODULE MCFirewallPolicy ---------------------------
(* Constants of FirewallPolicy for TLC: rules, packets and transactions. *)
EXTENDS FirewallPolicy

Ip(a) == [k |-> "ip", base |-> a, len |-> 0]
Cidr(a, n) == [k |-> "cidr", base |-> a, len |-> n]
Port(lo, hi) == [k |-> "range", lo |-> lo, hi |-> hi]
Colon(lo, hi) == [k |-> "colon", lo |-> lo, hi |-> hi]
Both(a, b) == [k |-> "list", lo |-> a, hi |-> b]
AnyAddr == [NoAddr EXCEPT !.k = "any"]

BaseRule == [id |-> 1, chain |-> "base", fam |-> "both", dir |-> "in", act |-> "allow", proto |-> "tcp",
             src |-> NoAddr, sport |-> NoPort, dst |-> NoAddr, dport |-> Port(2, 2),
             ifin |-> "", ifout |-> "", state |-> "", enabled |-> TRUE, prio |-> 0]

Addrs == {NoAddr, AnyAddr, Ip(0), Ip(3), Ip(5), Cidr(0, 0), Cidr(2, 1), Cidr(0, 1), Cidr(4, 0), Cidr(3, 0)}
PortSpecs == {NoPort, Port(2, 2), Port(1, 4), Colon(2, 4), Port(0, 2), Port(1, 9), Both(2, 8)}

\* Slices of the rules around the base rule: a few fields at a time.
Candidates ==
       {[BaseRule EXCEPT !.act = a, !.fam = f, !.src = s] : a \in {"allow", "drop"}, f \in {"both", "ipv4"}, s \in Addrs}
  \union {[BaseRule EXCEPT !.act = a, !.fam = "ipv4", !.dst = s] : a \in {"allow", "deny"}, s \in {Ip(0), Cidr(2, 1), AnyAddr}}
  \union {[BaseRule EXCEPT !.act = "drop", !.fam = f, !.src = s, !.dst = s] : f \in {"both", "ipv6"}, s \in Addrs}
  \union {[BaseRule EXCEPT !.act = a, !.dport = p, !.fam = "ipv4"] : a \in {"allow", "reject", "log"}, p \in PortSpecs}
  \union {[BaseRule EXCEPT !.act = a, !.fam = f, !.src = s, !.dst = d] :
            a \in {"reject", "drop"}, f \in {"both", "ipv4"}, s \in {Ip(0), Cidr(2, 1), Cidr(0, 0)}, d \in {Ip(0), Cidr(0, 1)}}
  \union {[BaseRule EXCEPT !.sport = p, !.src = s, !.dport = NoPort, !.act = a, !.fam = "ipv4"] :
            a \in {"allow", "drop"}, p \in {Port(1, 1), Colon(1, 4)}, s \in {NoAddr, Ip(0)}}
  \union {[BaseRule EXCEPT !.state = t, !.act = a, !.fam = "ipv4", !.src = Ip(2)] : t \in {"", "est"}, a \in {"allow", "drop"}}
  \union {[BaseRule EXCEPT !.dir = d, !.act = a] : d \in {"out", "forward"}, a \in {"allow", "deny", "reject", "log"}}
  \union {[BaseRule EXCEPT !.proto = q, !.dport = p, !.act = a, !.fam = f] :
            q \in {"any", "icmp", "udp", "custom"}, p \in {NoPort, Port(2, 2)}, a \in {"allow", "drop"}, f \in {"both", "ipv4"}}
  \union {[BaseRule EXCEPT !.ifin = i, !.ifout = o, !.dir = d, !.act = "allow", !.fam = "ipv4"] :
            i \in {"", "eth0"}, o \in {"", "eth0"}, d \in {"in", "forward"}}
  \union {[BaseRule EXCEPT !.src = Ip(0), !.act = "drop", !.prio = q, !.enabled = e, !.fam = "ipv4"] : q \in {0, 1}, e \in BOOLEAN}

Act(op, r, n) == [op |-> op, rule |-> r, num |-> n]
SshBlock == [BaseRule EXCEPT !.act = "drop"]
FarBlock == [SshBlock EXCEPT !.src = Cidr(0, 1), !.dst = Ip(0), !.dport = Port(8, 8)]

MCTransactions ==
       {<<Act("add", r, 0)>> : r \in Candidates}
  \union {<<Act("delete", NoRule, n)>> : n \in 1..2}
  \union {<<Act("delete", BaseRule, 0)>>, <<Act("delete", [BaseRule EXCEPT !.id = 2], 0)>>,
          <<Act("update", SshBlock, 1)>>, <<Act("update", FarBlock, 1)>>, <<Act("update", FarBlock, 2)>>, <<Act("update", [BaseRule EXCEPT !.src = Ip(0)], 1)>>,
          <<Act("update", BaseRule, 0)>>, <<Act("enable", BaseRule, 1)>>, <<Act("add", NoRule, 0)>>,
          <<Act("add", BaseRule, 0), Act("add", SshBlock, 0)>>,
          <<Act("add", SshBlock, 0), Act("delete", NoRule, 1)>>}

\* Enough packets to tell any two of the address and port specifications apart.
Wire(d, i, o) == [dir : {d}, src : V4, dst : {0, 2, 3}, proto : {"tcp"}, sport : {1, 8}, dport : {2, 8}, ifin : {i}, ifout : {o}, state : {"new"}]
MCPackets ==
       [dir : {"in"}, src : V4, dst : V4, proto : {"tcp"}, sport : {1, 2, 8}, dport : {1, 2, 3, 8}, ifin : {""}, ifout : {""}, state : {"new"}]
  \union [dir : {"in"}, src : V6, dst : V6, proto : {"tcp", "udp"}, sport : {1, 8}, dport : {1, 2, 3, 8}, ifin : {""}, ifout : {""}, state : {"new"}]
  \union [dir : {"in"}, src : V4, dst : V4, proto : {"udp", "icmp"}, sport : {1, 8}, dport : {2, 8}, ifin : {""}, ifout : {""}, state : {"new"}]
  \union [dir : {"in"}, src : V4, dst : {0, 3}, proto : {"tcp"}, sport : {1, 8}, dport : {2, 8}, ifin : {""}, ifout : {""}, state : {"est"}]
  \union Wire("in", "eth0", "") \union Wire("out", "", "") \union Wire("out", "", "eth0")
  \union Wire("forward", "eth0", "") \union Wire("forward", "", "eth0") \union Wire("forward", "eth0", "eth0")

\* Hosts with rules of ufw, of the built-in chains only, and of both.
Host(c, r) == [r EXCEPT !.id = 0, !.chain = c, !.fam = "ipv4"]
Hosts2(c) == {<<Host(c, [BaseRule EXCEPT !.dport = Colon(1, 4)])>>,
              <<Host(c, [BaseRule EXCEPT !.act = "reject", !.src = Cidr(2, 1)]), Host(c, BaseRule)>>}
MCExisting == {<<>>} \union Hosts2("user") \union Hosts2("base")
  \union {<<Host("base", [BaseRule EXCEPT !.state = "est", !.proto = "", !.dport = NoPort]), Host("user", BaseRule)>>,
          <<Host("base", [BaseRule EXCEPT !.dport = Both(2, 8)]), Host("user", [BaseRule EXCEPT !.dport = Both(2, 8)])>>,
          <<Host("user", [BaseRule EXCEPT !.dport = Both(2, 8)]), Host("user", [BaseRule EXCEPT !.ifout = "eth0", !.dir = "out"])>>}
=============================================================================
